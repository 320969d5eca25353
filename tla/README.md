# A TLA+ development for the user platform

This directory holds the formal model of the Go user platform in `src/`: a user
service (gRPC, Postgres, Redis), an audit trail (Cassandra, Kafka) and an HTTP
gateway that streams audit events to browsers (SSE). The modules are checked
with TLC on small instances. Every safety property that a passing run checks, the
invariants, the step properties and the refinement, is also proved with TLAPS for
every value of the constants; liveness is model-checked only.

## 1. Inventory

| Component | State | Operations | Talks to | What is hard about it |
|---|---|---|---|---|
| **User service** `internal/user/service`, `internal/user/grpc` | no state of its own but the singleflight group; each request has its locals | Register, Login, GetProfile, RefreshSession, Logout, getUserByEmail, getUserByID | repository, cache, tokens, audit, limiter | every handler is a chain of separate calls: others run, calls fail, answers get lost and processes die between any two |
| **Repository** `internal/user/repo`, `sqlc/gen`, migrations | tables `users`, `sessions` | six single-statement queries | Postgres | uniqueness lives in constraints only; `RevokeSessionByID` is an unconditional UPDATE |
| **Cache** (Redis) | views under `user:email:*`, `user:id:*` | Get, Set, Del, expiry | | late fills, best-effort deletes, rows without a password hash |
| **Tokens and passwords** `pkg/auth` | keys | Generate, Verify, HashPassword, ComparePassword | | expiry in whole seconds is the only claim that varies |
| **Login limiter** `limiterPool` | map email → bucket, expiry | Get, Allow | | shared by all goroutines without a lock; swept, entry by entry, at a size limit |
| **Audit service** `internal/logger/service`, `pkg/kafka` producer, `pkg/retry` | table `audit_logs`, topic `user.audit` | Emit, Publish, WithBackoff | Cassandra, Kafka | two stores, no transaction; retries of writes that may still arrive |
| **Audit consumer and worker pool** `pkg/kafka`, `pkg/concurrency` | reader position, committed offset, channel, WaitGroup | Start's loop, Submit, workers, Close, Shutdown | Kafka, hub | commits before handling; Submit races Shutdown |
| **SSE hub and handler** `pkg/sse` | map of client channels, RWMutex | Subscribe, Unsubscribe, Publish, the streaming loop | consumer's workers, HTTP server | close of a channel others send on; slow clients; heartbeat against the write deadline |
| **Gateway** `internal/gateway`, `cmd/gateway`, `pkg/errors` | requests in flight, gRPC connection, shutdown timers | five forwarding handlers, health, preflight, start, drain, exit; status tables | user service, consumer, hub | the connection closes while requests drain; two timers; statuses for work that may be done |
| **User and logger processes** `cmd/user-service`, `cmd/logger-service`, `internal/logger/grpc` | what main has opened and deferred the closing of; the signal context; requests being served | configure, open, serve, drain, stop, close, return; WriteAudit | Vault, Postgres, Cassandra, Kafka, Redis, each other's schema | two starts that nobody orders; `os.Exit` skips deferred calls; a forced stop does not wait |
| **Configuration** `pkg/config` (Vault) | secrets, read once per process | NewVaultClient, LoadConfigFromVault, CassandraHostList | Vault | errors, panics and values that change between two starts |
| In-memory repository, auth middleware, Redis and logger constructors, generated code | | | | not modelled, see section 5 |

A login goes: gateway handler → gRPC → `Login` → limiter → flight → Postgres →
`Generate` → session INSERT → `Emit` → Cassandra → Kafka; from the topic the
gateway's consumer → worker → hub → every open `/events` stream.

What makes each part correct, in a line: sessions are rotated safely and agree
with their tokens (user service); accounts are distinct and the cache never lies
(repository, cache); a login needs the account's own password (getters); the
limiter refuses nobody below the limit and, unless its Gets race, lets nobody past
it; published events are stored and acknowledged ones
ordered (audit); nothing is dropped on the way to the hub and shutdown does not
lose or crash (consumer); an HTTP status tells the truth and a shutdown ends
(gateway); audit events are lost only for known reasons, an orderly end cuts no
statement short, and the processes come up and go down whatever the order
(processes); the hub never blocks, never sends on a closed channel
and lets only slow clients miss events.

`PROJECT.json` lists, under "hazards", each place where this could go wrong,
with its line and the properties aimed at it.

## 2. Modules

| Module | Models | State | Actions |
|---|---|---|---|
| `TokenManager` | `pkg/auth` | pure operators | – |
| `Repository` | tables, queries, constraints | `users`, `sessions` | operators used inside handler steps |
| `UserService` | the five RPCs, the getters, Redis, singleflight | the two tables, `cache`, `flight`, per goroutine `pc, call, got, owner, newTok, reply`; `now`, `faults`; history `delivered`, `acked` | one per RPC entry (`Register` … `Logout`), one per call a handler makes (`CacheGet, Lookup, Query, Fill, Land, Resume, Create, Invalidate, FindSession, Revoke, Generate, Insert, Emit, Deliver`), and `Tick, Expire, Crash` |
| `SessionLifecycle` | what the sessions table promises | `status`, `origin` | `Open, Rotate, Revoke` |
| `UserServiceProofs` | the theorems about the sessions of `UserService`, and its refinement | | |
| `UserAccountsProofs` | the theorems about the accounts, cache, flights and answers of `UserService` | | |
| `LimiterPool` | `limiterPool.Get`, `Allow` | `now, items, tokens, fatal`, per goroutine `pc, email, at, due, key, held`; history `fair, raced, stalled` | `Enter, Lookup, Check, Delete, RangeEnds, Store, Allow, Tick, Detect` |
| `AuditService` | `Emit`, `Publish`, `WithBackoff` | per event `pc, tries, result`; `stored, topic, late` | `Start, Insert, Write, Wake, Cancelled, ArriveLate` |
| `AuditConsumer` | consumer loop, worker pool, shutdown | `position, committed, loop, msg, wg, tasks, closed, work, closer` … | `Fetch, FetchFails, SubmitAdd, SubmitSend, Commit, Take, Handle, Signal, CloseStarts, WaitReturns, CloseTasks, CloseReader, Restart` |
| `Hub` | `pkg/sse` | `clients, chan, closed, writer, readers`, per publisher `pub, event, todo`, per connection `hpc, ctx, age, tick` | `Call, RLock, Send, RUnlock, Request, Lock, Subscribe, Unsubscribe, Ping, Receive, Leave, ClientGoes, Tick` |
| `Errors` | `pkg/errors` | pure operators | – |
| `Gateway` | handlers, routes, `RunHTTPServer`, `main` | per request `stage, op, answer, remote, done`; `ctx, server, conn, drainer, drainLeft, main, graceLeft` | `Accept, AnswerHere, CallRPC, CallOnClosed, Serve, Respond, CallBreaks, StreamOpens, StreamEnds`; `Signal, DialFails, StartDrainer, Listen, ListenFails, ServerReturns, GraceStarts, Exit, DrainStarts, DrainEnds, CloseConsumer, Tick` |
| `GatewayProofs` | the theorems about `Errors` and `Gateway` | | |
| `LimiterPoolProofs`, `AuditServiceProofs`, `AuditConsumerProofs`, `HubProofs` | the theorems about these modules | | |
| `Processes` | both gRPC mains, Vault configuration, WriteAudit | `vault`, `keyspace, table`; per process `phase, hosts, open, told, forced`; per request `stage, at`; `faults` | start-up `Configure, WriteKeys, NewTokenManager, OpenPool, ConnectCassandra, OpenClients, Listen, EnsureKeyspace, SetupCassandra, EnsureAuditSchema`; `StartDrain, ServeFails, DrainEnds, Stop, Close, Return`; handlers `Arrive, Acquire, Query, Audit, Publish, Unwatch`; `Signal, Kill, Restart, Edit` |
| `ProcessesProofs` | the theorems about `Processes` | | |
| `MCUserService`, `MCLimiterPool` | TLC instances: seed rows, citext folding, symmetry | | |

Operators whose names describe a slip (`RevokeIgnored`, `LandsLeader`,
`DropWhenFull`, `RLockEarly`, …) stand before the operator they spoil. No action
uses them; replacing the good one by them must break a property, which shows
that the property depends on that line of the code.

### How the code became actions

*A handler is cut where it calls something shared.* Code between two such calls
touches only locals and is one step with the call before it. So the revocation
check of `RefreshSession` (service.go:257) belongs to the step that read the row,
and the UPDATE is a later step.

*A Postgres call* ends in one of three ways: it commits and answers (`ok`), it
does nothing and fails (`lost`), or it commits and the answer is lost
(`unacked`). The bound on such outcomes and on crashes is `MaxFaults`. Errors
that the code drops (Redis, audit, everything in Logout) are dropped here too:
`Fill` and `Invalidate` may skip their writes without being counted.

*Singleflight* is `flight[key]`, the goroutine that leads the call of a key.
Others `wait` and receive the leader's row when it `Land`s.

*A token is its claims.* RS256 is deterministic and the claims are `sub` and
`exp`, so `Token` is the set of such pairs and `sessions` is indexed by it: the
UNIQUE constraint on `token_hash` becomes "the entry is None". Access and refresh
tokens differ only in lifetime, and clients may present either.

*Time* is whole seconds in `UserService` (the resolution of `exp`), refill
intervals in `LimiterPool`, heartbeat periods in `Hub`. `ExpiresAt.Before(now)`
compares finer times, so in the second of the expiry either answer is possible.

*The Go memory model.* The limiter's map is accessed without a lock. The steps of
`Get` interleave: reading the clock (`at`), looking up and touching, and for each
entry of the sweep (`due`) its check and its deletion (`key`). An entry can be
touched, and its bucket returned and drawn from, between its check and its deletion.
Time passes anywhere in between; `stalled` records that a goroutine took longer than
`Pause` from its reading of the clock to the end of Allow. `raced` records that a Get
which missed overlapped with another Get in the map. `Detect` is the runtime's abort,
which may or may not happen in a race; what a corrupted map would do is not modelled.

*The RWMutex* follows sync.RWMutex: a writer that called Lock keeps new readers
out and enters when the readers have left.

*The shutdown of the gateway* is three goroutines. `srv.Shutdown` closes the
listener, which makes `ListenAndServe` return; the deferred `userConn.Close()` of
`RunHTTPServer` then runs while Shutdown still waits for the handlers. `Serve` is
the user service as its client sees it, and goes on working on calls whose caller
has given up; `done` records whether it did what was asked. That its OK means done is
a premise here and a result of `UserService` (`AcknowledgedIsStored`,
`LoginAuthentic`, `RotationRevokesParent`, `ProfileFaithful`); Logout returns OK
whatever failed, so its `done` is free (service.go:303-309). A call cut by the close
fails with Canceled or Unavailable, depending on the transport.

*A process* is the list of steps of its main, `phase[s]`. `open[s]` is the stack
of deferred calls: `Return` needs it empty, and `Close` takes the top. `logger.Fatal`
is `os.Exit`, so `Die` drops the stack without running it; a panic of `mustString`
comes before anything was opened. Calls that take main's context (Vault, the two
pings, the schema statements) fail after a signal; the others (key files,
`CreateSession`, `net.Listen`) do not look at it. `GracefulStop` waits for every
handler, a health `Watch` among them; the timer then calls `Stop`, which cancels
handlers without waiting, and the deferred calls run beside them. `pool.Close` waits
for connections in use, the producer and the session do not. Requests are cut to what
these properties tell apart: take a connection, run the statement, write the audit
row, publish; the rest is in `UserService` and `AuditService`. 
External and modelled only from its use: Postgres outcomes, Redis, singleflight,
x/time/rate, the Kafka broker and client, the gRPC client, net/http's Shutdown and
contexts.

## 3. Runs

Eight runs must pass (the type invariants that no run lists are proved):

| Run | Checks | Bounds and why they suffice |
|---|---|---|
| `sessions` | types; `RotationRevokesParent`, `SessionMatchesToken`, `NoReuseAfterRevoke`, `AcknowledgedIsStored`, `AuditTruthful`, `LoginAuthentic`; steps: `SessionsOnlyAge`, `LogoutRevokes`; refinement `ImplementsLifecycle` | 2 goroutines, 1 account, a right and a wrong password, seconds 0–2, lifetimes 1 and 2, one fault. Two refreshes can race, a token can be rotated twice and can expire, a flight's leader and follower can have different passwords, and a call can fail or the process die at any point. |
| `accounts` | `AcknowledgedIsStored`, `AccountsDistinct`, `CacheCoherent`, `ProfileFaithful`, `FlightSound`, liveness `Answered` | 2 goroutines, 2 ids, 2 emails, 3 usernames of which two differ only by case, cache on, one fault. Two accounts fit, registrations collide on the email, on the username and on its spelling, fills race deletes, and a leader can fail under its follower. |
| `limiter` | `LimitUnlessRaced`, `RefusedOnlyAtLimit`; step `ForgetsFullOrTouched` | 2 goroutines, 2 emails, a limit of 1 key, burst 2, pause 1, TTL 4 (the least that covers the burst and two pauses), ticks 0–6: entries are touched, expire, are swept and return, a Get can touch and draw from an entry whose sweeper has already found it expired, and Gets can race and stall. |
| `audit` | `PublishedIsStored`, `OkIsEverywhere`, `AcknowledgedInOrder`, liveness `EmitReturns` | 2 clients, 2 events each, 2 attempts, 3 failures: a write can be given up, retried and arrive late behind the next event. |
| `consumer` | `NothingDropped`, `WaitGroupCounts`, `LossBounded`, `OvertakenBounded`, liveness `BroadcastWhileConsuming`, `CloseEnds` | 2 workers as in the gateway, 7 messages: one more than channel and workers hold. One failure or restart. |
| `hub` | `NoSendOnClosed`, `OnlySlowClientsMiss`, liveness `GoneIsUnsubscribed`, `PublishReturns` | 2 publishers, 2 connections, buffer 1, 2 events: a buffer overflows for one client and not for the other, and both lock orders occur. |
| `gateway` | `AnswersHonest`, `DrainGetsItsTime`, liveness `SignalEnds` | 2 requests of any of the 8 kinds, timers of 2 ticks, one fault: one request can be cut off while a stream keeps Shutdown waiting, and a tick can fall between the two timers. |
| `processes` | steps `AuditGapExplained`, `OrderlyReturn`; liveness `StopsWhenTold`, `BothServe` | Both processes, one request, two faults, any number of signals, restarts and edits of the configuration. One request is enough for the liveness: handlers touch nothing of each other's, and a drain waits for one as for many; the two step properties are proved for any number. Two faults let a process fail in its start and again later, or fail between keyspace and table while the other one dies. |

`CHECK_DEADLOCK FALSE` is set for `limiter` (an aborted process stops), `consumer`
(a closed gateway stops), `hub` (all connections used, all events sent) and
`gateway` (an exited process stops).

Four runs show where the code and a statement of the repository disagree:

| Run | Statement | What the code does |
|---|---|---|
| `single_use` | user.yaml: "The provided refresh token is revoked and cannot be reused." | Two concurrent refreshes both read the row before either revokes it. A second apart, both succeed. Repair: `UPDATE … WHERE revoked_at IS NULL` and look at the row count. |
| `refresh_pair` | user.yaml: "Exchanges a valid refresh token for a new pair" | In the second of the login the new refresh token is the old one. The INSERT fails after the revocation: an internal error, and the session is gone. Repair: a `jti` claim. |
| `consumer_shutdown` | concurrency.go: "Shutdown waits for tasks to complete and closes the pool." | `wg.Wait` can return between two submissions. The next one panics on the closed channel, or is outstanding when it closes. |
| `hub_heartbeat` | http.go: "Heartbeat to keep connections alive" | The period equals the server's `WriteTimeout`, so the first ping ends the stream. |

Other disagreements were met while modelling and have no run of their own.
A Login can join a flight whose query ran before its account was created, and is
then refused although the registration was confirmed (service.go:328). During the
gateway's "Graceful shutdown" (server.go:75) requests in flight lose the connection
to the user service at once: work that was done is answered 400 or 503, and 400 is
what a client also gets for a malformed request. `AnswersHonest` shows that
such an answer is at least never a refusal (401, 404, 409, 429). Logout answers 200 where
user.yaml says "always responds with 204 No Content". `HTTPStatus` maps
`weak_password` to 500, the gateway to 400; nothing produces that code.
The "Per-email rate limit (e.g., 5 req/s burst 10 for login)" (service.go:179) is
exceeded when Gets race. The model has two ways to it. One goroutine finds an entry expired
(line 415), another touches it and draws from its bucket (407-409, 181), the first
deletes it (416), and the next login gets a fresh bucket. Or two goroutines miss
together and each stores and draws from a bucket of its own. A lock around `Get`
repairs both; `LimitUnlessRaced` shows that nothing else is needed.
Without a producer `Emit` returns an error although its constructor's comment
promises Cassandra-only operation (audit.go:62). The limiter's sweep frees only
expired entries, so the map can exceed its 100k keys (service.go:412). Logout
answers success, and records `user.logout`, when its UPDATE failed
(service.go:307); hence `AuditTruthful` asks of a logout that its session is revoked
only while no call has failed, and `AnswersHonest` asks nothing of its 200. One fetch error ends the
consumer's loop until the gateway restarts (consumer.go:37); this is why
`BroadcastWhileConsuming` excludes an ended loop.

Starting the platform: user-service dies at once when the keyspace does not exist
(user-service/main.go:125), only logger-service creates it, and `docker-compose.yaml`
gives neither a start order between them nor a restart policy; `BothServe` holds
because a supervisor restarts what has ended. Between keyspace and table it starts
and serves, and every audit INSERT fails unnoticed: the handlers drop Emit's error.
WriteAudit's comment says why, "Errors are logged by the audit service internally"
(logger/grpc/server.go:27), but Emit logs nothing.
After `grpcServer.Serve` fails user-service returns from main normally, hence with
exit status 0, where logger-service is Fatal. A start that fails after the key files
were written leaves the private key on disk, since Fatal skips the deferred removal.

### Fairness

`UserService`: weak fairness of each goroutine's next step. The scheduler runs
runnable goroutines, and calls to stores return because their drivers time out.
No request, tick, expiry or crash is promised. `AuditService`: the same for an
Emit in progress; no cancellation is promised. `AuditConsumer`: the loop, each
worker and the closer; no signal, failure or restart is promised. `Hub`:
publishers, handlers, and the select's `ctx.Done` branch, which Go's random choice
cannot avoid for ever; no client need leave. `Gateway`: the main goroutine, the
drainer and the passing of time; no answer, client or signal. `Processes`: each
main (its calls return and its timers fire), each handler, and the restart of an
ended process, which is what a Kubernetes Deployment does; no signal, fault, edit or
leaving client. Strong fairness is used nowhere.

## 4. Proofs

`UserServiceProofs` proves, for any sets of goroutines, ids, emails, usernames and
passwords, any seed that satisfies the table's constraints, any lifetimes with
0 < AccessTTL < RefreshTTL, any clock and any number of faults:

| Theorem | States |
|---|---|
| `TypeCorrect` | `Spec => []TypeOK` |
| `RotationSafe` | `Spec => []RotationRevokesParent` |
| `SessionBinding` | `Spec => []SessionMatchesToken` |
| `RevokedNeverExchanged` | `Spec => []NoReuseAfterRevoke` |
| `AcknowledgementsHold` | `Spec => []AcknowledgedIsStored` |
| `SessionsAge` | `Spec => SessionsOnlyAge` |
| `Refinement` | `Spec => ImplementsLifecycle` |

The assumptions are the ones named in `TokenManager`, `Repository` and
`UserService`; TLC evaluates them in every run of `MCUserService`.

None of the invariants is inductive alone, because what a handler writes was
decided several steps earlier. `IInv` adds, for each goroutine, what it may rely on
at its place in the code:

* `TableInv`: rows sit under their own key; what clients were given is stored;
  delivered tokens are dated so that their paired access token exists; rotated
  sessions have a revoked parent; sessions match their tokens.
* `RequestInv(p)`: a goroutine at a label runs an RPC that has that label.
* `LocalInv(p)`: past the session lookup the presented token has a row of the
  local owner; past the revocation of a refresh that row is revoked; the generated
  token names the owner and lies within the clock; a created account is in the
  table.
* `SpentInv(p)`: a refresh whose token was revoked when it arrived is looking it up
  or has been refused.

The argument has three parts. `TablesGrow` says that every step only adds rows and
only revokes, so facts of one goroutine survive the steps of the others
(`ProcInvFrame`, `StepOthers`). Each step re-establishes the facts of its own
goroutine (`StepProcInv`). The two steps that write sessions re-establish the
tables (`StepTableInv`). The action property and the refinement follow from the
invariant and from `SessionSteps`, the list of what a step can do to the sessions
table.

`UserAccountsProofs` extends it, under the same assumptions, to what the service
answers and reports:

| Theorem | States |
|---|---|
| `AccountsStayDistinct` | `Spec => []AccountsDistinct` |
| `CacheStaysCoherent` | `Spec => []CacheCoherent` |
| `FlightsHaveLeaders` | `Spec => []FlightSound` |
| `ProfilesFaithful` | `Spec => []ProfileFaithful` |
| `LoginsAuthentic` | `Spec => []LoginAuthentic` |
| `AuditNeverAhead` | `Spec => []AuditTruthful` |
| `LogoutEndsSession` | `Spec => LogoutRevokes` |

Its invariant `AInv` is inductive together with `IInv`. `FlightInv` makes leading a
flight and being inside its call the same thing, so a follower is never left without
a leader, also when the leader's query fails. `WantedInv` says that the row a getter
carries is one its request may get; a follower takes the leader's row, and
`SameKeySameRow` shows that this row is right for it too, because ids and emails are
never the same key. A cache fill may be late by any number of steps and still be
right because rows are only ever added (`TablesGrow`), and this is the fact that an
UPDATE of `users` would take away. `LoginInv` carries the password check from the
step that made it to the reply; rows from the cache do not come into it, since
getUserByEmail never returns them. `EmitInv` says what is committed when a handler reaches its audit call; for
Logout it says "revoked" only while nothing has failed, since the handler drops the
error of its UPDATE, and this is all that `LogoutRevokes` and `AuditTruthful` claim
of it.

`GatewayProofs` proves, for any set of requests, any grace period and any number of
faults (`GatewayAssumption`):

| Theorem | States |
|---|---|
| `GatewayTypes` | `Spec => []TypeOK` |
| `HonestAnswers` | `Spec => []AnswersHonest` |
| `DrainTime` | `Spec => []DrainGetsItsTime` |
| `ParseInverts` | `Parse(StatusFromCode(c)) = c` for every code |
| `MappingsAgree` | `HTTPError` and `HTTPStatus` agree on every code but `weak_password` |

`HonestInv` relates three things the code keeps apart: what the user service did,
what the call returned, and what was answered. The first two are tied by `Serve`, the
others by the handlers, the transport and the status tables, which is what the theorem
is about. It is needed because a call can be
carried out after its answer: only answers given after the user service decided may
claim anything. `TimerInv` says that without failures only the drainer closes the
listener, hence main's timer is set after Shutdown's and is never behind it. The
lemmas on the status tables (`StatusTable`, `TransportStatus`, `ServiceStatus`)
carry the handlers' steps.

`AuditServiceProofs` proves, for any number of clients, events, attempts and faults
and with either store configured or not (`AuditAssumption`):

| Theorem | States |
|---|---|
| `AuditTypes` | `Spec => []TypeOK` |
| `StoredBeforePublished` | `Spec => []PublishedIsStored` |
| `OkMeansEverywhere` | `Spec => []OkIsEverywhere` |
| `OrderKept` | `Spec => []AcknowledgedInOrder` |

Its invariant says of each event that nothing of it is in the topic or on its way
there before the INSERT is over (`Begun`), and of two events of one client that the
later one has not begun unless the earlier one has returned, and that the earlier
one, if acknowledged, leads (`Sequential`). The lead survives because the topic only
grows at its end (`TopicGrows`, `LeadKept`), and it is there in the first place
because at the acknowledgement no copy of a later event can exist yet.

`ProcessesProofs` proves, for any set of requests and any number of faults
(`ProcessesAssumption`):

| Theorem | States |
|---|---|
| `Typing` | `Spec => []TypeOK` |
| `LossExplained` | `Spec => AuditGapExplained` |
| `ReturnsOrderly` | `Spec => OrderlyReturn` |

`Equipped(s)` says what start-up has achieved when a phase is reached: a process that
serves has its producer, and its session if it read hosts; in logger-service the
table exists. `Placed(r)` says where a handler can be running: in a process that
serves, drains, or unwinds after a forced stop, and with the pool open while it is in
a statement. Together they leave only the listed reasons for a lost event.

The limiter, the consumer and the hub follow the same pattern, each for every value
of its module's constants (`LimiterAssumption`, `NoneIsNoItem`, `ConsumerAssumption`,
`HubAssumption`):

| Theorem | States | Argument |
|---|---|---|
| `LimiterTypes` | `Spec => []TypeOK` of `LimiterPool` | |
| `RefusalsAreFair` | `Spec => []RefusedOnlyAtLimit` | `Sound` |
| `OnlyTheWindowForgets` | `Spec => ForgetsFullOrTouched` | `Refilled` |
| `LimitHolds` | `Spec => []LimitUnlessRaced` | `Serial` |
| `ConsumerTypes` | `Spec => []TypeOK` of `AuditConsumer` | The counter stays a natural number because of `CountExact`. |
| `CountExact` | `Spec => []WaitGroupCounts` | Take moves one task from the channel to one more busy worker; Handle takes one worker away. |
| `NoneDropped` | `Spec => []NothingDropped` | A send blocks while the channel is full, and what leaves the channel is in a worker's hands. |
| `HubTypes` | `Spec => []TypeOK` of `Hub` | |
| `SendsAreSafe` | `Spec => []NoSendOnClosed` | A publisher in its loop is among the readers and has only registered channels to go (`Iterating`); a channel is closed only when its handler is done (`Registered`); Unsubscribe waits until there are no readers. |
| `SlowClientsOnly` | `Spec => []OnlySlowClientsMiss` | `Tracked` |
| `LossIsBounded` | `Spec => []LossBounded` | `OrderInv` |
| `OvertakingBounded` | `Spec => []OvertakenBounded` | `OrderInv` |

`Tracked` follows one event of one client: while the client is registered and
connected, every event that was called is accounted for, in its channel, or with a
publisher that has yet to offer it. Events from before the subscription count as
accounted for, as those do that its full buffer dropped. The publisher ranges over the
clients under the read lock, so none that is owed the event can join meanwhile, and
none of those to come is passed over.

`OrderInv` gives the topic's order to the two places where order can be lost.
`Ordered` says that messages taken come before messages that wait, and these before
the one in the loop's hands; `Offsets` that the commit trails the fetch; `Passed` that
a worker which broadcast a message is free or has gone on to a later one. What a
crash loses is therefore in the channel or with a worker, and what is overtaken is
with a worker other than the one that was last. Both are counted by mapping the places
onto the messages (`ImageBound`).

The limiter's invariant has three parts. `Sound(l)` says that a bucket serves one
email, counting the entry it stands in and the goroutines that hold it, and never
has less than that email is due; it survives every race, because a bucket is only
ever replaced by a full one. `Refilled(e)` says that, before anybody stalls, the
bucket of an entry is full or has at least one token for each interval since two
pauses after the time its expiry counts from: one pause for the goroutine that
touched it last to get to its touch, one for those that held the bucket by then to
get to Allow. `Burst + 2 * Pause <= TTL` then makes an expired bucket full (with 10
tokens at 5 a second and 10 minutes, for pauses of almost five minutes). What is left
is the window: an entry that expired, was touched, and is deleted. `Serial` says
that without races and stalls the bucket of each email stands exactly where
`fair[e]` stands, and that what a goroutine found in the map is still so when it
acts on it. Deleting an expired entry keeps this because the bucket is full and
because nobody can still hold it (`ExpiredIsFull`, `ExpiredIsFree`).

`AInv`, `Tracked`, `OrderInv` and the limiter's two invariants were checked by TLC on
the instances of `accounts`, `sessions`, `hub`, `consumer` and `limiter` before they
were proved.

Only model-checked: liveness (`Answered`, `EmitReturns`, `BroadcastWhileConsuming`,
`CloseEnds`, `GoneIsUnsubscribed`, `PublishReturns`, `SignalEnds`, `StopsWhenTold`,
`BothServe`). It rests on fairness, hence on ENABLED, which the prover does not
support.

## 5. Not modelled

* `InMemoryRepo` (used by its own test only), the authentication middleware (never
  installed), `PublishCtx`, `Decode` and the generated queries nobody calls.
* In the gateway: message texts, request ids, field violations, the error helpers
  nobody calls, the grpc-gateway mux (built, never routed to), flags and environment.
* In the two gRPC processes: addresses, keepalive and pool parameters, the reflection
  service, and which secret is missing when the configuration fails. Whether the two
  JWT keys belong together is assumed, since NewTokenManager does not check it.
* The Vault HTTP client, the Redis and zap constructors: pure I/O around libraries.
* Generated protobuf, gRPC and grpc-gateway code, which is about a third of the
  Go lines: message plumbing without decisions of the platform's own.
* Field syntax in `ValidateRegister` (accept or refuse only), message contents and
  key material.
* The steps of `consumer.Close` inside the gateway's exit: `Gateway` and
  `AuditConsumer` each have their half, and no text of the repository says that Close
  must finish.

## 6. Plan

Done: `TokenManager`, `Repository`, `UserService`, `SessionLifecycle`,
`LimiterPool`, `AuditService`, `AuditConsumer`, `Hub`, `Errors`, `Gateway`,
`Processes`, and the proofs of section 4.

Next, in order:

1. **Event path**: `AuditConsumer` and `Hub` composed, the worker's handling being a
   `Publish`, with an end-to-end statement about what an open stream receives.
2. **Shutdown of the whole gateway**: `Gateway`'s drainer composed with
   `AuditConsumer`'s Close: what is lost when the exit cuts Close off.
3. **Proofs** about these compositions from the invariants of their parts, and the
   lemmas that several proof modules state for themselves (`ImageBound`) in one place.
