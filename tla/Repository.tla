---- MODULE Repository ----
(***************************************************************************)
(* The Postgres tables behind internal/user/repo: users and sessions with  *)
(* the constraints of migration 000001, and the queries PostgresRepo runs. *)
(* Each query is one statement, hence one atomic step of a handler; the    *)
(* write operators below describe the table after a statement that         *)
(* committed, and the constraint operators when one may commit.            *)
(***************************************************************************)
EXTENDS TokenManager

CONSTANTS Emails, Usernames,
          Canon     \* citext's comparison key of an email or a username

VARIABLES users,    \* users[id]: the row with that primary key, or None
          sessions  \* sessions[tok]: the row whose token_hash is sha256(tok)

ASSUME RepositoryAssumption ==
  /\ None \notin Ids \union Emails \union Usernames \union Passwords
  /\ None \notin Token
  /\ DOMAIN Canon = Emails \union Usernames

User == [id : Ids, email : Emails, username : Usernames, hash : Hash]
ASSUME NoneIsNoUser == None \notin User

\* from is a history field, no column: the refresh token that was exchanged
\* for this one, None for a session opened by Login.
Session == [user : Ids, exp : 0 .. Horizon, revoked : BOOLEAN,
            from : Token \union {None}]
ASSUME NoneIsNoSession == None \notin Session

(*************************** Queries ***************************************)

\* WHERE email = $1 on a citext column: compares without regard to case.
SameText(a, b) == Canon[a] = Canon[b]

WithUsername(e) ==
  {id \in Ids : users[id] # None /\ SameText(users[id].username, e)}
WithEmail(e) == {id \in Ids : users[id] # None /\ SameText(users[id].email, e)}

GetUserByEmail(e) ==
  IF WithEmail(e) = {} THEN None ELSE users[CHOOSE id \in WithEmail(e) : TRUE]

GetUserByID(id) == users[id]

GetSessionByTokenHash(tok) == IF tok = None THEN None ELSE sessions[tok]

\* The UNIQUE constraints on users.email and users.username.
UserUniqueByCase(u) ==
  \A id \in Ids : users[id] # None =>
    users[id].email # u.email /\ users[id].username # u.username

UserUnique(u) ==
  \A id \in Ids : users[id] # None =>
    /\ ~SameText(users[id].email, u.email)
    /\ ~SameText(users[id].username, u.username)

\* The UNIQUE constraint on sessions.token_hash, the foreign key user_id.
SessionUpsertable(tok, s) == users[s.user] # None
SessionInsertable(tok, s) == sessions[tok] = None /\ users[s.user] # None

CreateUser(u) == users' = [users EXCEPT ![u.id] = u]
CreateSession(tok, s) == sessions' = [sessions EXCEPT ![tok] = s]
RevokeSession(tok) == sessions' = [sessions EXCEPT ![tok].revoked = TRUE]

RepositoryTypeOK ==
  /\ users \in [Ids -> User \union {None}]
  /\ sessions \in [Token -> Session \union {None}]
====
