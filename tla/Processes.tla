---- MODULE Processes ----
(***************************************************************************)
(* The two gRPC processes, cmd/user-service and cmd/logger-service, from   *)
(* the first line of main to its end: configuration from Vault, the        *)
(* resources main opens one after the other, the requests they serve, and  *)
(* the three ways a process ends.                                          *)
(*                                                                         *)
(*   returned   main returns: its deferred calls have closed what it       *)
(*              opened, the last one first;                                *)
(*   panicked   mustString panics, with nothing opened yet;                *)
(*   dead       logger.Fatal is os.Exit, and a kill is a kill: no deferred *)
(*              call runs, so the key files written by then stay on disk.  *)
(*                                                                         *)
(* The processes meet in Cassandra: logger-service creates the keyspace    *)
(* and the table, user-service needs the one to start and the other to     *)
(* record an event.  Nothing orders their starts, and a supervisor starts  *)
(* again what has ended.  A request stands for any handler: user-service   *)
(* changes a row and emits an event, logger-service (WriteAudit) emits one *)
(* (UserService and AuditService have their steps).  Postgres, Cassandra,  *)
(* Kafka, Redis, Vault and the gRPC server are external.                   *)
(***************************************************************************)
EXTENDS Naturals

CONSTANTS Requests,    \* bound: the requests that ever arrive
          MaxFaults    \* bound: calls that fail, kills

VARIABLES
  vault,               \* the hosts Vault holds for Cassandra are not empty
  keyspace, table,     \* what Cassandra holds
  phase,               \* phase[s]: the next thing main does, or how it ended
  hosts,               \* cfg.CassandraHostList() is not empty, as s read it
  open,                \* what main has opened and deferred the closing of
  told, forced,        \* s got a signal; s called grpcServer.Stop
  stage, at,           \* each request: where its handler is, in which process
  faults

memory == <<hosts, told, forced>>
requests == <<stage, at>>
store == <<keyspace, table>>
vars == <<vault, keyspace, table, phase, hosts, open, told, forced, stage, at,
          faults>>

Services == {"user", "logger"}
Ends == {"returned", "panicked", "dead"}
Phases == {"vault", "keys", "parse", "postgres", "keyspace", "session", "table",
           "clients", "listen", "serve", "drain", "unwind"} \union Ends

\* Key files and clients, in the order main opens them.
KeyFiles == {"priv", "pub"}
Resources == KeyFiles \union {"pool", "session", "producer", "redis"}
Rank == [priv |-> 1, pub |-> 2, pool |-> 3, session |-> 4, producer |-> 5,
         redis |-> 6]

ASSUME ProcessesAssumption == MaxFaults \in Nat

Init ==
  /\ vault \in BOOLEAN
  /\ keyspace = FALSE /\ table = FALSE
  /\ phase = [s \in Services |-> "vault"]
  /\ hosts = [s \in Services |-> FALSE]
  /\ open = [s \in Services |-> {}]
  /\ told = [s \in Services |-> FALSE]
  /\ forced = [s \in Services |-> FALSE]
  /\ stage = [r \in Requests |-> "absent"]
  /\ at = [r \in Requests |-> "user"]
  /\ faults = 0

Ended(s) == phase[s] \in Ends
Goto(s, l) == phase' = [phase EXCEPT ![s] = l]
Fault == faults < MaxFaults /\ faults' = faults + 1

Working == {"db", "query", "audit", "publish", "watch"}
Active(r, s) == stage[r] \in Working /\ at[r] = s

\* The process is gone: its memory, and what its handlers were doing.
Gone(s) ==
  /\ hosts' = [hosts EXCEPT ![s] = FALSE]
  /\ told' = [told EXCEPT ![s] = FALSE]
  /\ forced' = [forced EXCEPT ![s] = FALSE]
  /\ stage' = [r \in Requests |-> IF Active(r, s) THEN "killed" ELSE stage[r]]

Die(s) ==
  /\ Goto(s, "dead")
  /\ open' = [open EXCEPT ![s] = {}]
  /\ Gone(s)

\* One step of main goes on with xs open, or logger.Fatal ends the process.
Opens(s, xs, next) ==
  /\ Goto(s, next)
  /\ open' = [open EXCEPT ![s] = @ \union xs]
  /\ UNCHANGED <<memory, stage, faults>>
Passes(s, next) == Opens(s, {}, next)
Fatal(s) == Fault /\ Die(s)

\* A call that takes main's context fails after a signal.
Cancelled(s) == told[s] /\ Die(s) /\ UNCHANGED faults

(*************************** Configuration *********************************)

\* A value is missing from the secrets or is no string: mustString panics.
MustStringPanics(s) ==
  /\ Fault
  /\ Goto(s, "panicked")
  /\ Gone(s)
  /\ UNCHANGED open

\* The comma-separated hosts of Cassandra, empty or not.
CassandraHostList == vault

\* LoadConfigFromVault: a read fails or the JWT keys do not look like PEM; a
\* value is missing; or the configuration is complete.
LoadConfigFromVault(s) ==
  \/ Cancelled(s) \/ Fatal(s) \/ MustStringPanics(s)
  \/ /\ ~told[s]
     /\ Goto(s, IF s = "user" THEN "keys" ELSE "keyspace")
     /\ hosts' = [hosts EXCEPT ![s] = CassandraHostList]
     /\ UNCHANGED <<open, told, forced, stage, faults>>

\* NewVaultClient, which only Fatal can tell from a failed read, and then the
\* configuration.
Configure(s) ==
  /\ phase[s] = "vault"
  /\ LoadConfigFromVault(s)
  /\ UNCHANGED <<vault, store, at>>

(*************************** Start-up of user-service **********************)

\* writeTempPEM, twice.  A file it could not complete it has removed.
WriteTempPEMs(next) == Opens("user", KeyFiles, next) \/ Fatal("user")

WriteKeys ==
  /\ phase["user"] = "keys"
  /\ WriteTempPEMs("parse")
  /\ UNCHANGED <<vault, store, at>>

\* NewTokenManager reads both files back and parses them.
NewTokenManager ==
  /\ phase["user"] = "parse"
  /\ Passes("user", "postgres") \/ Fatal("user")
  /\ UNCHANGED <<vault, store, at>>

\* The pool is made and pinged.
OpenPool ==
  /\ phase["user"] = "postgres"
  /\ \/ ~told["user"] /\ Opens("user", {"pool"}, "session")
     \/ Cancelled("user") \/ Fatal("user")
  /\ UNCHANGED <<vault, store, at>>

\* CreateSession in the configured keyspace, which may not exist yet.
ConnectCassandra ==
  /\ phase["user"] = "session"
  /\ \/ ~hosts["user"] /\ Passes("user", "clients")
     \/ /\ hosts["user"] /\ keyspace
        /\ Opens("user", {"session"}, "clients")
     \/ hosts["user"] /\ ~keyspace /\ Die("user") /\ UNCHANGED faults
     \/ hosts["user"] /\ Fatal("user")
  /\ UNCHANGED <<vault, store, at>>

\* Redis is configured and answers the Ping; otherwise there is no cache.
RedisAnswers(s) == s = "user" /\ ~told[s]

\* NewProducer connects to nothing and cannot fail.
OpenClients(s) ==
  /\ phase[s] = "clients"
  /\ \/ Opens(s, {"producer"}, "listen")
     \/ RedisAnswers(s) /\ Opens(s, {"producer", "redis"}, "listen")
  /\ UNCHANGED <<vault, store, at>>

Listen(s) ==
  /\ phase[s] = "listen"
  /\ Passes(s, "serve") \/ Fatal(s)
  /\ UNCHANGED <<vault, store, at>>

(*************************** Start-up of logger-service ********************)

\* ensureKeyspace.  A statement that failed may have taken effect.
KeyspaceForgotten == UNCHANGED keyspace
KeyspaceMade == keyspace' = TRUE

EnsureKeyspace ==
  /\ phase["logger"] = "keyspace" /\ hosts["logger"]
  /\ \/ ~told["logger"] /\ Passes("logger", "session") /\ KeyspaceMade
     \/ /\ Cancelled("logger") \/ Fatal("logger")
        /\ keyspace' \in {keyspace, TRUE}
  /\ UNCHANGED <<vault, table, at>>

\* setupCassandra: nothing to do, or ensureKeyspace and then a session in it.
SetupCassandra ==
  /\ \/ /\ phase["logger"] = "keyspace" /\ ~hosts["logger"]
        /\ Passes("logger", "clients")
     \/ /\ phase["logger"] = "session"
        /\ IF keyspace THEN Opens("logger", {"session"}, "table")
                       ELSE Die("logger") /\ UNCHANGED faults
     \/ phase["logger"] = "session" /\ Fatal("logger")
  /\ UNCHANGED <<vault, store, at>>

EnsureAuditSchema ==
  /\ phase["logger"] = "table"
  /\ \/ ~told["logger"] /\ Passes("logger", "clients") /\ table' = TRUE
     \/ /\ Cancelled("logger") \/ Fatal("logger")
        /\ table' \in {table, TRUE}
  /\ UNCHANGED <<vault, keyspace, at>>

StartUp(s) ==
  \/ Configure(s) \/ OpenClients(s) \/ Listen(s)
  \/ s = "user" /\ (WriteKeys \/ NewTokenManager \/ OpenPool
                      \/ ConnectCassandra)
  \/ s = "logger" /\ (EnsureKeyspace \/ SetupCassandra \/ EnsureAuditSchema)

(*************************** Shutdown **************************************)

\* <-ctx.Done(): GracefulStop closes the listener and waits.
StartDrain(s) ==
  /\ phase[s] = "serve" /\ told[s]
  /\ Goto(s, "drain")
  /\ UNCHANGED <<vault, store, hosts, open, told, forced, requests, faults>>

\* Serve returns an error: user-service shuts down, logger-service is Fatal.
ServeFails(s) ==
  /\ phase[s] = "serve" /\ Fault
  /\ \/ s = "user" /\ Goto(s, "drain") /\ UNCHANGED <<open, memory, stage>>
     \/ s = "logger" /\ Die(s)
  /\ UNCHANGED <<vault, store, at>>

\* GracefulStop returns once every handler has; its timer, whenever it pleases.
DrainedAtOnce(s) == TRUE
Drained(s) == \A r \in Requests : ~Active(r, s)

DrainEnds(s) ==
  /\ phase[s] = "drain" /\ Drained(s)
  /\ Goto(s, "unwind")
  /\ UNCHANGED <<vault, store, hosts, open, told, forced, requests, faults>>

StopNeverCalled(s) == FALSE
TimerFires(s) == phase[s] = "drain"

\* Stop cancels the handlers' contexts and does not wait for them.
Stop(s) ==
  /\ TimerFires(s)
  /\ Goto(s, "unwind")
  /\ forced' = [forced EXCEPT ![s] = TRUE]
  /\ UNCHANGED <<vault, store, hosts, open, told, requests, faults>>

\* The deferred call on top of the stack.  pool.Close waits for the connections
\* that are in use.
Topmost(s, x) == \A y \in open[s] : Rank[y] <= Rank[x]
ClosesAtOnce(s, x) == TRUE
Closes(s, x) ==
  x = "pool" => \A r \in Requests : ~(stage[r] = "query" /\ at[r] = s)

Close(s) ==
  /\ phase[s] = "unwind"
  /\ \E x \in open[s] :
       /\ Topmost(s, x) /\ Closes(s, x)
       /\ open' = [open EXCEPT ![s] = @ \ {x}]
  /\ UNCHANGED <<vault, store, phase, hosts, told, forced, requests, faults>>

Return(s) ==
  /\ phase[s] = "unwind" /\ open[s] = {}
  /\ Goto(s, "returned")
  /\ Gone(s)
  /\ UNCHANGED <<vault, store, open, at, faults>>

(*************************** Handlers **************************************)

Begin(s) == IF s = "user" THEN "db" ELSE "audit"

\* A call of the service, or a Watch of its health service, which stays open.
Arrive(r, s, first) ==
  /\ phase[s] = "serve" /\ stage[r] = "absent"
  /\ first \in {Begin(s), "watch"}
  /\ stage' = [stage EXCEPT ![r] = first]
  /\ at' = [at EXCEPT ![r] = s]
  /\ UNCHANGED <<vault, store, phase, hosts, open, told, forced, faults>>

Advance(r, to) == stage' = [stage EXCEPT ![r] = to]

\* What makes any call of a handler fail: its context is cancelled, or a fault.
Breaks(r) == \/ forced[at[r]] /\ UNCHANGED faults
             \/ Fault
Has(r, x) == x \in open[at[r]]

HandlerStep(r) ==
  UNCHANGED <<vault, store, phase, hosts, open, told, forced, at>>

Acquire(r) ==
  /\ stage[r] = "db"
  /\ \/ Has(r, "pool") /\ Advance(r, "query") /\ UNCHANGED faults
     \/ ~Has(r, "pool") /\ Advance(r, "failed") /\ UNCHANGED faults
     \/ Breaks(r) /\ Advance(r, "failed")
  /\ HandlerStep(r)

\* The statement commits, or it is refused, or it fails.
Query(r) ==
  /\ stage[r] = "query"
  /\ Advance(r, "audit") \/ Advance(r, "failed")
  /\ HandlerStep(r) /\ UNCHANGED faults

\* Emit, first half.  The handler drops the error and answers all the same.
Audit(r) ==
  /\ stage[r] = "audit"
  /\ LET s == at[r] IN
     \/ ~hosts[s] /\ Advance(r, "publish") /\ UNCHANGED faults
     \/ /\ hosts[s]
        /\ \/ /\ Has(r, "session") /\ table
              /\ Advance(r, "publish") /\ UNCHANGED faults
           \/ /\ ~(Has(r, "session") /\ table)
              /\ Advance(r, "dropped") /\ UNCHANGED faults
           \/ Breaks(r) /\ Advance(r, "dropped")
  /\ HandlerStep(r)

Publish(r) ==
  /\ stage[r] = "publish"
  /\ \/ Has(r, "producer") /\ Advance(r, "answered") /\ UNCHANGED faults
     \/ ~Has(r, "producer") /\ Advance(r, "dropped") /\ UNCHANGED faults
     \/ Breaks(r) /\ Advance(r, "dropped")
  /\ HandlerStep(r)

\* The watching client leaves.
Unwatch(r) ==
  /\ stage[r] = "watch"
  /\ Advance(r, "answered")
  /\ HandlerStep(r) /\ UNCHANGED faults

(*************************** Environment ***********************************)

Signal(s) ==
  /\ ~Ended(s) /\ ~told[s]
  /\ told' = [told EXCEPT ![s] = TRUE]
  /\ UNCHANGED <<vault, store, phase, hosts, open, forced, requests, faults>>

Kill(s) ==
  /\ ~Ended(s) /\ Fatal(s)
  /\ UNCHANGED <<vault, store, at>>

\* The supervisor starts the process again.
Restart(s) ==
  /\ Ended(s)
  /\ Goto(s, "vault")
  /\ UNCHANGED <<vault, store, open, memory, requests, faults>>

\* Someone takes Cassandra out of the configuration, or puts it in.
Edit ==
  /\ vault' = ~vault
  /\ UNCHANGED <<store, phase, hosts, open, told, forced, requests, faults>>

Main(s) == StartUp(s) \/ StartDrain(s) \/ DrainEnds(s) \/ Stop(s) \/ Close(s)
             \/ Return(s)
Handler(r) == Acquire(r) \/ Query(r) \/ Audit(r) \/ Publish(r)

Next ==
  \/ \E s \in Services : Main(s) \/ ServeFails(s) \/ Signal(s) \/ Kill(s)
                           \/ Restart(s)
  \/ \E r \in Requests, s \in Services, first \in Working : Arrive(r, s, first)
  \/ \E r \in Requests : Handler(r) \/ Unwatch(r)
  \/ Edit

Spec == Init /\ [][Next]_vars

\* Goroutines that can run are scheduled, calls return, timers fire, and the
\* supervisor restarts what has ended.  Nobody need signal, edit or leave.
Fairness ==
  /\ \A s \in Services : WF_vars(Main(s)) /\ WF_vars(Restart(s))
  /\ \A r \in Requests : WF_vars(Handler(r))
FairSpec == Spec /\ Fairness

(***************************************************************************)
(*                             Properties                                  *)
(***************************************************************************)

\* Every variable has its type.
TypeOK ==
  /\ vault \in BOOLEAN
  /\ keyspace \in BOOLEAN /\ table \in BOOLEAN
  /\ phase \in [Services -> Phases]
  /\ hosts \in [Services -> BOOLEAN]
  /\ open \in [Services -> SUBSET Resources]
  /\ told \in [Services -> BOOLEAN] /\ forced \in [Services -> BOOLEAN]
  /\ stage \in [Requests -> Working \union {"absent", "answered", "failed",
                                            "dropped", "killed"}]
  /\ at \in [Requests -> Services]
  /\ faults \in 0 .. MaxFaults

\* An audit event is lost after its row was committed (user-service), or after
\* WriteAudit was called (logger-service), only by a fault, by the forced stop,
\* or, in user-service, because logger-service had not yet made the table.  In
\* particular nothing is closed under a handler that GracefulStop waits for,
\* and logger-service never serves without its table.
AuditGapExplained ==
  [][\A r \in Requests :
       /\ stage[r] \in {"audit", "publish"}
       /\ stage'[r] \in {"dropped", "killed"}
       => \/ faults' > faults
          \/ forced[at[r]]
          \/ at[r] = "user" /\ stage[r] = "audit" /\ ~table]_vars

\* A process that returns from main, after a forced stop too, has cut no
\* statement in two and has left no key file behind.
OrderlyReturn ==
  [][\A s \in Services : phase[s] # "returned" /\ phase'[s] = "returned" =>
       /\ open[s] = {}
       /\ \A r \in Requests : ~(stage[r] = "query" /\ at[r] = s)]_vars

\* A signal ends the process, wherever in its start-up, its service or its
\* shutdown it is, and though a Watch keeps its stream open.
StopsWhenTold == \A s \in Services : told[s] ~> Ended(s)

\* Neither process waits for the other for ever: once no signal comes any
\* more and logger-service runs with the hosts that Vault holds, both come to
\* serve, in whichever order they started.
Quiet ==
  /\ \A s \in Services : ~told[s]
  /\ phase["logger"] = "serve" => hosts["logger"] = vault
BothServe == <>[]Quiet => <>(\A s \in Services : phase[s] = "serve")
====
