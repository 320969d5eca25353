---- MODULE ProcessesProofs ----
(***************************************************************************)
(* Theorems about Processes, for any number of requests and of faults: its *)
(* types, what an audit event can be lost by, and what a return from main  *)
(* leaves behind.  All rest on the inductive invariant Inv.                *)
(***************************************************************************)
EXTENDS Processes, TLAPS

Ready == {"clients", "listen", "serve", "drain"}

\* What start-up has achieved by the time a phase is reached: the session and
\* the table exist where Cassandra is configured, the producer before anything
\* is served.
Equipped(s) ==
  /\ phase[s] = "table" => "session" \in open[s]
  /\ phase[s] \in Ready /\ hosts[s] = TRUE => "session" \in open[s]
  /\ phase[s] \in Ready \ {"clients"} => "producer" \in open[s]
  /\ s = "logger" /\ phase[s] \in Ready /\ hosts[s] = TRUE => table = TRUE

\* A handler runs only in a process that serves or drains, or was stopped by
\* force; and one that has a connection keeps the pool open.
Placed(r) ==
  /\ stage[r] \in Working =>
       \/ phase[at[r]] \in {"serve", "drain"}
       \/ phase[at[r]] = "unwind" /\ forced[at[r]] = TRUE
  /\ stage[r] = "query" => "pool" \in open[at[r]]

Inv ==
  /\ TypeOK
  /\ \A s \in Services : Equipped(s)
  /\ \A r \in Requests : Placed(r)

LEMMA Initial == Init => Inv
<1> SUFFICES ASSUME Init PROVE Inv
  OBVIOUS
<1>1. hosts \in [Services -> BOOLEAN] /\ told \in [Services -> BOOLEAN]
      /\ forced \in [Services -> BOOLEAN]
  BY Zenon DEF Init
<1>2. keyspace \in BOOLEAN /\ table \in BOOLEAN /\ vault \in BOOLEAN
  BY Zenon DEF Init
<1>3. /\ phase \in [Services -> Phases] /\ open \in [Services -> SUBSET Resources]
      /\ at \in [Requests -> Services] /\ faults \in 0 .. MaxFaults
      /\ \A r \in Requests : stage[r] = "absent"
  BY ProcessesAssumption DEF Init, Services, Phases, Ends
<1>4. stage \in [Requests -> Working \union {"absent", "answered", "failed",
                                             "dropped", "killed"}]
  BY DEF Init
<1>5. TypeOK
  BY <1>1, <1>2, <1>3, <1>4 DEF TypeOK
<1>6. \A s \in Services : Equipped(s)
  BY DEF Init, Equipped, Ready, Services
<1>7. \A r \in Requests : Placed(r)
  BY <1>3 DEF Placed, Working
<1> QED BY <1>5, <1>6, <1>7 DEF Inv

\* The step that ends a process abruptly.
LEMMA DieKeeps ==
  ASSUME NEW s \in Services, Inv, Die(s), UNCHANGED <<vault, at>>,
         keyspace' \in BOOLEAN, table' \in {table, TRUE},
         faults' \in 0 .. MaxFaults
  PROVE  Inv'
<1>1. TypeOK'
  BY DEF Inv, TypeOK, Die, Gone, Goto, Services, Phases, Ends, Active, Working
<1>2. ASSUME NEW u \in Services PROVE Equipped(u)'
  BY <1>2 DEF Inv, TypeOK, Die, Gone, Goto, Services, Equipped, Ready
<1>3. ASSUME NEW r \in Requests PROVE Placed(r)'
  BY <1>3 DEF Inv, TypeOK, Die, Gone, Goto, Services, Placed, Active, Working
<1> QED BY <1>1, <1>2, <1>3 DEF Inv

\* A step of start-up that goes on.
LEMMA OpensKeeps ==
  ASSUME NEW s \in Services, NEW xs \in SUBSET Resources, NEW next \in Phases,
         Inv, Opens(s, xs, next), UNCHANGED <<vault, at>>,
         keyspace' \in BOOLEAN, table' \in {table, TRUE},
         phase[s] \notin {"serve", "drain", "unwind"},
         Equipped(s)'
  PROVE  Inv'
<1>1. TypeOK'
  BY DEF Inv, TypeOK, Opens, Goto, memory, Services, Resources
<1>2. ASSUME NEW u \in Services PROVE Equipped(u)'
  BY <1>2 DEF Inv, TypeOK, Opens, Goto, memory, Services, Equipped, Ready
<1>3. ASSUME NEW r \in Requests PROVE Placed(r)'
  BY <1>3 DEF Inv, TypeOK, Opens, Goto, memory, Services, Placed, Working
<1> QED BY <1>1, <1>2, <1>3 DEF Inv

(*************************** Start-up **************************************)

LEMMA FaultBounded ==
  ASSUME Inv, Fault PROVE faults' \in 0 .. MaxFaults /\ faults' > faults
BY ProcessesAssumption DEF Inv, TypeOK, Fault

LEMMA CalmBounded ==
  ASSUME Inv, UNCHANGED faults PROVE faults' \in 0 .. MaxFaults
BY DEF Inv, TypeOK

\* The two ways in which start-up ends a process.
LEMMA StoppedKeeps ==
  ASSUME NEW s \in Services, Inv, Cancelled(s) \/ Fatal(s),
         UNCHANGED <<vault, at>>,
         keyspace' \in BOOLEAN, table' \in {table, TRUE}
  PROVE  Inv'
<1>1. Die(s) /\ faults' \in 0 .. MaxFaults
  BY FaultBounded, CalmBounded DEF Cancelled, Fatal
<1> QED BY <1>1, DieKeeps

LEMMA SameStore ==
  ASSUME Inv, UNCHANGED store
  PROVE  keyspace' \in BOOLEAN /\ table' \in {table, TRUE}
BY DEF Inv, TypeOK, store

LEMMA ConfigureKeeps ==
  ASSUME NEW s \in Services, Inv, Configure(s) PROVE Inv'
<1> USE SameStore DEF Configure
<1>1. CASE Cancelled(s) \/ Fatal(s)
  BY <1>1, StoppedKeeps
<1>2. CASE MustStringPanics(s)
  <2>1. faults' \in 0 .. MaxFaults
    BY <1>2, FaultBounded DEF MustStringPanics
  <2>2. TypeOK'
    BY <1>2, <2>1 DEF MustStringPanics, Inv, TypeOK, Gone, Goto, Services,
       Phases, Ends, Active, Working
  <2>3. ASSUME NEW u \in Services PROVE Equipped(u)'
    BY <1>2, <2>3 DEF MustStringPanics, Inv, TypeOK, Gone, Goto, Services,
       Equipped, Ready, store
  <2>4. ASSUME NEW r \in Requests PROVE Placed(r)'
    BY <1>2, <2>4 DEF MustStringPanics, Inv, TypeOK, Gone, Goto, Services,
       Placed, Active, Working
  <2> QED BY <2>2, <2>3, <2>4 DEF Inv
<1>3. CASE /\ Goto(s, IF s = "user" THEN "keys" ELSE "keyspace")
           /\ hosts' = [hosts EXCEPT ![s] = CassandraHostList]
           /\ UNCHANGED <<open, told, forced, stage, faults>>
  <2>1. TypeOK'
    BY <1>3 DEF Inv, TypeOK, Goto, Services, Phases, CassandraHostList, store
  <2>2. ASSUME NEW u \in Services PROVE Equipped(u)'
    BY <1>3, <2>2 DEF Inv, TypeOK, Goto, Services, Equipped, Ready, store
  <2>3. ASSUME NEW r \in Requests PROVE Placed(r)'
    BY <1>3, <2>3 DEF Inv, TypeOK, Goto, Services, Placed, Working
  <2> QED BY <2>1, <2>2, <2>3 DEF Inv
<1> QED BY <1>1, <1>2, <1>3 DEF LoadConfigFromVault

LEMMA StartUpKeeps ==
  ASSUME NEW s \in Services, Inv, StartUp(s) PROVE Inv'
<1>1. CASE Configure(s)
  BY <1>1, ConfigureKeeps
<1>2. CASE OpenClients(s)
  <2>1. PICK xs \in {{"producer"}, {"producer", "redis"}} : Opens(s, xs, "listen")
    BY <1>2 DEF OpenClients
  <2>2. Equipped(s)'
    BY <1>2, <2>1 DEF OpenClients, Opens, Goto, memory, Inv, TypeOK, Equipped,
       Ready, store
  <2>3. xs \in SUBSET Resources /\ "listen" \in Phases
    BY <2>1 DEF Resources, Phases
  <2> QED BY <1>2, <2>1, <2>2, <2>3, OpensKeeps, SameStore DEF OpenClients
<1>3. CASE Listen(s)
  <2>1. CASE Passes(s, "serve")
    <3>1. Equipped(s)'
      BY <1>3, <2>1 DEF Listen, Passes, Opens, Goto, memory, Inv, TypeOK,
         Equipped, Ready, store
    <3>2. "serve" \in Phases /\ {} \in SUBSET Resources
      BY DEF Phases
    <3> QED BY <1>3, <2>1, <3>1, <3>2, OpensKeeps, SameStore DEF Listen, Passes
  <2>2. CASE Fatal(s)
    BY <1>3, <2>2, StoppedKeeps, SameStore DEF Listen
  <2> QED BY <1>3, <2>1, <2>2 DEF Listen
<1>4. CASE s = "user" /\ WriteKeys
  <2>1. CASE Opens("user", KeyFiles, "parse")
    <3>1. Equipped(s)'
      BY <1>4, <2>1 DEF WriteKeys, Opens, Goto, memory, Inv, TypeOK, Equipped,
         Ready, store
    <3>2. "parse" \in Phases /\ KeyFiles \in SUBSET Resources
      BY DEF Phases, Resources
    <3> QED BY <1>4, <2>1, <3>1, <3>2, OpensKeeps, SameStore DEF WriteKeys
  <2>2. CASE Fatal("user")
    BY <1>4, <2>2, StoppedKeeps, SameStore DEF WriteKeys
  <2> QED BY <1>4, <2>1, <2>2 DEF WriteKeys, WriteTempPEMs
<1>5. CASE s = "user" /\ NewTokenManager
  <2>1. CASE Passes("user", "postgres")
    <3>1. Equipped(s)'
      BY <1>5, <2>1 DEF NewTokenManager, Passes, Opens, Goto, memory, Inv, TypeOK,
         Equipped, Ready, store
    <3>2. "postgres" \in Phases /\ {} \in SUBSET Resources
      BY DEF Phases
    <3> QED BY <1>5, <2>1, <3>1, <3>2, OpensKeeps, SameStore
            DEF NewTokenManager, Passes
  <2>2. CASE Fatal("user")
    BY <1>5, <2>2, StoppedKeeps, SameStore DEF NewTokenManager
  <2> QED BY <1>5, <2>1, <2>2 DEF NewTokenManager
<1>6. CASE s = "user" /\ OpenPool
  <2>1. CASE Opens("user", {"pool"}, "session")
    <3>1. Equipped(s)'
      BY <1>6, <2>1 DEF OpenPool, Opens, Goto, memory, Inv, TypeOK, Equipped,
         Ready, store
    <3>2. "session" \in Phases /\ {"pool"} \in SUBSET Resources
      BY DEF Phases, Resources
    <3> QED BY <1>6, <2>1, <3>1, <3>2, OpensKeeps, SameStore DEF OpenPool
  <2>2. CASE Cancelled("user") \/ Fatal("user")
    BY <1>6, <2>2, StoppedKeeps, SameStore DEF OpenPool
  <2> QED BY <1>6, <2>1, <2>2 DEF OpenPool
<1>7. CASE s = "user" /\ ConnectCassandra
  <2>1. CASE ~hosts["user"] /\ Passes("user", "clients")
    <3>1. Equipped(s)'
      BY <1>7, <2>1 DEF ConnectCassandra, Passes, Opens, Goto, memory, Inv,
         TypeOK, Equipped, Ready, store
    <3>2. "clients" \in Phases /\ {} \in SUBSET Resources
      BY DEF Phases
    <3> QED BY <1>7, <2>1, <3>1, <3>2, OpensKeeps, SameStore
            DEF ConnectCassandra, Passes
  <2>2. CASE Opens("user", {"session"}, "clients")
    <3>1. Equipped(s)'
      BY <1>7, <2>2 DEF ConnectCassandra, Opens, Goto, memory, Inv,
         TypeOK, Equipped, Ready, store
    <3>2. "clients" \in Phases /\ {"session"} \in SUBSET Resources
      BY DEF Phases, Resources
    <3> QED BY <1>7, <2>2, <3>1, <3>2, OpensKeeps, SameStore DEF ConnectCassandra
  <2>3. CASE Die("user") /\ UNCHANGED faults
    BY <1>7, <2>3, DieKeeps, SameStore, CalmBounded DEF ConnectCassandra
  <2>4. CASE Fatal("user")
    BY <1>7, <2>4, StoppedKeeps, SameStore DEF ConnectCassandra
  <2> QED BY <1>7, <2>1, <2>2, <2>3, <2>4 DEF ConnectCassandra
<1>8. CASE s = "logger" /\ EnsureKeyspace
  <2>1. keyspace' \in BOOLEAN /\ table' \in {table, TRUE}
    <3>1. keyspace' \in {keyspace, TRUE}
      BY <1>8 DEF EnsureKeyspace, KeyspaceMade
    <3> QED BY <1>8, <3>1 DEF EnsureKeyspace, Inv, TypeOK
  <2>2. CASE Passes("logger", "session")
    <3>1. Equipped(s)'
      BY <1>8, <2>2 DEF EnsureKeyspace, Passes, Opens, Goto, memory, Inv,
         TypeOK, Equipped, Ready
    <3>2. "session" \in Phases /\ {} \in SUBSET Resources
      BY DEF Phases
    <3> QED BY <1>8, <2>1, <2>2, <3>1, <3>2, OpensKeeps DEF EnsureKeyspace, Passes
  <2>3. CASE Cancelled("logger") \/ Fatal("logger")
    BY <1>8, <2>1, <2>3, StoppedKeeps DEF EnsureKeyspace
  <2> QED BY <1>8, <2>2, <2>3 DEF EnsureKeyspace
<1>9. CASE s = "logger" /\ SetupCassandra
  <2>1. CASE /\ phase["logger"] = "keyspace" /\ ~hosts["logger"]
             /\ Passes("logger", "clients")
    <3>1. Equipped(s)'
      BY <1>9, <2>1 DEF Passes, Opens, Goto, memory, Inv, TypeOK, Equipped, Ready
    <3>2. "clients" \in Phases /\ {} \in SUBSET Resources
      BY DEF Phases
    <3> QED BY <1>9, <2>1, <3>1, <3>2, OpensKeeps, SameStore
            DEF SetupCassandra, Passes
  <2>2. CASE phase["logger"] = "session" /\ Opens("logger", {"session"}, "table")
    <3>1. Equipped(s)'
      BY <1>9, <2>2 DEF Opens, Goto, memory, Inv, TypeOK, Equipped, Ready
    <3>2. "table" \in Phases /\ {"session"} \in SUBSET Resources
      BY DEF Phases, Resources
    <3> QED BY <1>9, <2>2, <3>1, <3>2, OpensKeeps, SameStore DEF SetupCassandra
  <2>3. CASE Die("logger") /\ UNCHANGED faults
    BY <1>9, <2>3, DieKeeps, SameStore, CalmBounded DEF SetupCassandra
  <2>4. CASE Fatal("logger")
    BY <1>9, <2>4, StoppedKeeps, SameStore DEF SetupCassandra
  <2> QED BY <1>9, <2>1, <2>2, <2>3, <2>4 DEF SetupCassandra
<1>10. CASE s = "logger" /\ EnsureAuditSchema
  <2>1. keyspace' \in BOOLEAN /\ table' \in {table, TRUE}
    BY <1>10 DEF EnsureAuditSchema, Inv, TypeOK
  <2>2. CASE Passes("logger", "clients") /\ table' = TRUE
    <3>1. Equipped(s)'
      BY <1>10, <2>2 DEF EnsureAuditSchema, Passes, Opens, Goto, memory, Inv,
         TypeOK, Equipped, Ready
    <3>2. "clients" \in Phases /\ {} \in SUBSET Resources
      BY DEF Phases
    <3> QED BY <1>10, <2>1, <2>2, <3>1, <3>2, OpensKeeps
            DEF EnsureAuditSchema, Passes
  <2>3. CASE Cancelled("logger") \/ Fatal("logger")
    BY <1>10, <2>1, <2>3, StoppedKeeps DEF EnsureAuditSchema
  <2> QED BY <1>10, <2>2, <2>3 DEF EnsureAuditSchema
<1> QED BY <1>1, <1>2, <1>3, <1>4, <1>5, <1>6, <1>7, <1>8, <1>9, <1>10 DEF StartUp
(*************************** Shutdown **************************************)

LEMMA StartDrainKeeps ==
  ASSUME NEW s \in Services, Inv, StartDrain(s) PROVE Inv'
<1> USE DEF StartDrain, Goto, requests, store, Inv, TypeOK
<1>1. TypeOK'
  BY DEF Phases
<1>2. ASSUME NEW u \in Services PROVE Equipped(u)'
  BY <1>2 DEF Equipped, Ready
<1>3. ASSUME NEW r \in Requests PROVE Placed(r)'
  BY <1>3 DEF Placed
<1> QED BY <1>1, <1>2, <1>3

LEMMA ServeFailsKeeps ==
  ASSUME NEW s \in Services, Inv, ServeFails(s) PROVE Inv'
<1>1. faults' \in 0 .. MaxFaults
  BY FaultBounded DEF ServeFails
<1>2. CASE Goto(s, "drain") /\ UNCHANGED <<open, memory, stage>>
  <2> USE <1>1, <1>2 DEF ServeFails, Goto, memory, store, Inv, TypeOK
  <2>1. TypeOK'
    BY DEF Phases
  <2>2. ASSUME NEW u \in Services PROVE Equipped(u)'
    BY <2>2 DEF Equipped, Ready
  <2>3. ASSUME NEW r \in Requests PROVE Placed(r)'
    BY <2>3 DEF Placed
  <2> QED BY <2>1, <2>2, <2>3
<1>3. CASE Die(s)
  BY <1>1, <1>3, DieKeeps, SameStore DEF ServeFails
<1> QED BY <1>2, <1>3 DEF ServeFails

LEMMA DrainEndsKeeps ==
  ASSUME NEW s \in Services, Inv, DrainEnds(s) PROVE Inv'
<1> USE DEF DrainEnds, Goto, requests, store, Inv, TypeOK
<1>1. TypeOK'
  BY DEF Phases
<1>2. ASSUME NEW u \in Services PROVE Equipped(u)'
  BY <1>2 DEF Equipped, Ready
<1>3. ASSUME NEW r \in Requests PROVE Placed(r)'
  BY <1>3 DEF Placed, Drained, Active
<1> QED BY <1>1, <1>2, <1>3

LEMMA StopKeeps ==
  ASSUME NEW s \in Services, Inv, Stop(s) PROVE Inv'
<1> USE DEF Stop, TimerFires, Goto, requests, store, Inv, TypeOK
<1>1. TypeOK'
  BY DEF Phases
<1>2. ASSUME NEW u \in Services PROVE Equipped(u)'
  BY <1>2 DEF Equipped, Ready
<1>3. ASSUME NEW r \in Requests PROVE Placed(r)'
  BY <1>3 DEF Placed
<1> QED BY <1>1, <1>2, <1>3

LEMMA CloseKeeps ==
  ASSUME NEW s \in Services, Inv, Close(s) PROVE Inv'
<1>1. PICK x \in open[s] : Closes(s, x) /\ open' = [open EXCEPT ![s] = @ \ {x}]
  BY DEF Close
<1> USE <1>1 DEF Close, requests, store, Inv, TypeOK
<1>2. TypeOK'
  OBVIOUS
<1>3. ASSUME NEW u \in Services PROVE Equipped(u)'
  BY <1>3 DEF Equipped, Ready
<1>4. ASSUME NEW r \in Requests PROVE Placed(r)'
  BY <1>4 DEF Placed, Closes
<1> QED BY <1>2, <1>3, <1>4

LEMMA ReturnKeeps ==
  ASSUME NEW s \in Services, Inv, Return(s) PROVE Inv'
<1> USE DEF Return, Gone, Goto, store, Inv, TypeOK
<1>1. TypeOK'
  BY DEF Phases, Ends, Active, Working
<1>2. ASSUME NEW u \in Services PROVE Equipped(u)'
  BY <1>2 DEF Equipped, Ready
<1>3. ASSUME NEW r \in Requests PROVE Placed(r)'
  BY <1>3 DEF Placed, Active, Working
<1> QED BY <1>1, <1>2, <1>3

(*************************** Handlers **************************************)

LEMMA ArriveKeeps ==
  ASSUME NEW r \in Requests, NEW s \in Services, NEW first \in Working, Inv,
         Arrive(r, s, first)
  PROVE  Inv'
<1> USE DEF Arrive, store, Inv, TypeOK
<1>1. TypeOK'
  OBVIOUS
<1>2. ASSUME NEW u \in Services PROVE Equipped(u)'
  BY <1>2 DEF Equipped, Ready
<1>3. ASSUME NEW q \in Requests PROVE Placed(q)'
  BY <1>3 DEF Placed, Begin
<1> QED BY <1>1, <1>2, <1>3

\* Any step of a handler that is running.
LEMMA HandlerStepKeeps ==
  ASSUME NEW r \in Requests, Inv, stage[r] \in Working,
         NEW to \in {"query", "audit", "publish", "answered", "failed", "dropped"},
         Advance(r, to), HandlerStep(r),
         to = "query" => Has(r, "pool"),
         Breaks(r) \/ UNCHANGED faults
  PROVE  Inv'
<1>1. faults' \in 0 .. MaxFaults
  BY FaultBounded, CalmBounded DEF Breaks
<1> USE DEF Advance, HandlerStep, store, Inv, TypeOK
<1>2. TypeOK'
  BY <1>1 DEF Working
<1>3. ASSUME NEW u \in Services PROVE Equipped(u)'
  BY <1>3 DEF Equipped, Ready
<1>4. ASSUME NEW q \in Requests PROVE Placed(q)'
  BY <1>4 DEF Placed, Has
<1> QED BY <1>2, <1>3, <1>4

LEMMA HandlerKeeps ==
  ASSUME NEW r \in Requests, Inv, Handler(r) \/ Unwatch(r) PROVE Inv'
<1>1. stage[r] \in Working /\ HandlerStep(r)
  BY DEF Handler, Acquire, Query, Audit, Publish, Unwatch, Working
<1>2. PICK to \in {"query", "audit", "publish", "answered", "failed", "dropped"} :
        /\ Advance(r, to)
        /\ to = "query" => Has(r, "pool")
        /\ Breaks(r) \/ UNCHANGED faults
  BY DEF Handler, Acquire, Query, Audit, Publish, Unwatch
<1> QED BY <1>1, <1>2, HandlerStepKeeps

(*************************** Environment ***********************************)

LEMMA EnvironmentKeeps ==
  ASSUME NEW s \in Services, Inv, Signal(s) \/ Kill(s) \/ Restart(s) \/ Edit
  PROVE  Inv'
<1>1. CASE Signal(s)
  <2> USE <1>1 DEF Signal, requests, store, Inv, TypeOK
  <2>1. TypeOK'
    OBVIOUS
  <2>2. ASSUME NEW u \in Services PROVE Equipped(u)'
    BY <2>2 DEF Equipped
  <2>3. ASSUME NEW r \in Requests PROVE Placed(r)'
    BY <2>3 DEF Placed
  <2> QED BY <2>1, <2>2, <2>3
<1>2. CASE Kill(s)
  BY <1>2, StoppedKeeps, SameStore DEF Kill
<1>3. CASE Restart(s)
  <2> USE <1>3 DEF Restart, Ended, Ends, Goto, memory, requests, store, Inv, TypeOK
  <2>1. TypeOK'
    BY DEF Phases
  <2>2. ASSUME NEW u \in Services PROVE Equipped(u)'
    BY <2>2 DEF Equipped, Ready
  <2>3. ASSUME NEW r \in Requests PROVE Placed(r)'
    BY <2>3 DEF Placed
  <2> QED BY <2>1, <2>2, <2>3
<1>4. CASE Edit
  <2> USE <1>4 DEF Edit, requests, store, Inv, TypeOK
  <2>1. TypeOK'
    OBVIOUS
  <2>2. ASSUME NEW u \in Services PROVE Equipped(u)'
    BY <2>2 DEF Equipped
  <2>3. ASSUME NEW r \in Requests PROVE Placed(r)'
    BY <2>3 DEF Placed
  <2> QED BY <2>1, <2>2, <2>3
<1> QED BY <1>1, <1>2, <1>3, <1>4

LEMMA StutterKeeps == Inv /\ UNCHANGED vars => Inv'
<1> SUFFICES ASSUME Inv, UNCHANGED vars PROVE Inv'
  OBVIOUS
<1> USE DEF Inv, TypeOK, vars
<1>1. TypeOK'
  OBVIOUS
<1>2. ASSUME NEW s \in Services PROVE Equipped(s)'
  BY <1>2 DEF Equipped
<1>3. ASSUME NEW r \in Requests PROVE Placed(r)'
  BY <1>3 DEF Placed
<1> QED BY <1>1, <1>2, <1>3

LEMMA NextKeeps == Inv /\ [Next]_vars => Inv'
<1> SUFFICES ASSUME Inv, [Next]_vars PROVE Inv'
  OBVIOUS
<1>1. CASE \E s \in Services : Main(s)
  BY <1>1, StartUpKeeps, StartDrainKeeps, DrainEndsKeeps, StopKeeps, CloseKeeps,
     ReturnKeeps DEF Main
<1>2. CASE \E s \in Services : ServeFails(s)
  BY <1>2, ServeFailsKeeps
<1>3. CASE \E s \in Services : Signal(s) \/ Kill(s) \/ Restart(s) \/ Edit
  BY <1>3, EnvironmentKeeps
<1>4. CASE \E r \in Requests, s \in Services, first \in Working : Arrive(r, s, first)
  BY <1>4, ArriveKeeps
<1>5. CASE \E r \in Requests : Handler(r) \/ Unwatch(r)
  BY <1>5, HandlerKeeps
<1>6. CASE UNCHANGED vars
  BY <1>6, StutterKeeps
<1>7. "user" \in Services
  BY DEF Services
<1> QED BY <1>1, <1>2, <1>3, <1>4, <1>5, <1>6, <1>7 DEF Next

(*************************** Theorems **************************************)

\* Inv holds in every state the two processes can reach: a process that serves
\* has the session, the table and the producer its handlers use, and a handler
\* runs only in a process that serves, drains or was stopped by force.
LEMMA Invariant == Spec => []Inv
<1>1. Init => Inv
  BY Initial
<1>2. Inv /\ [Next]_vars => Inv'
  BY NextKeeps
<1> QED BY <1>1, <1>2, PTL DEF Spec

\* The variables keep their types; faults stays within its bound.
THEOREM Typing == Spec => []TypeOK
<1>1. Inv => TypeOK
  BY DEF Inv
<1> QED BY <1>1, Invariant, PTL

\* No handler runs in a process that is starting.
LEMMA StartUpIdle ==
  ASSUME NEW s \in Services, NEW r \in Requests, Inv, StartUp(s)
  PROVE  stage'[r] = stage[r]
<1>1. phase[s] \notin {"serve", "drain", "unwind"}
  BY DEF StartUp, Configure, OpenClients, Listen, WriteKeys, NewTokenManager,
     OpenPool, ConnectCassandra, EnsureKeyspace, SetupCassandra, EnsureAuditSchema
<1>2. UNCHANGED stage \/ Gone(s)
  BY DEF StartUp, Configure, OpenClients, Listen, WriteKeys, NewTokenManager,
     OpenPool, ConnectCassandra, EnsureKeyspace, SetupCassandra, EnsureAuditSchema,
     LoadConfigFromVault, MustStringPanics, WriteTempPEMs, Passes, Opens, Fatal,
     Cancelled, Die
<1> QED BY <1>1, <1>2 DEF Gone, Active, Inv, Placed

LEMMA GapStep ==
  ASSUME NEW r \in Requests, Inv, [Next]_vars,
         stage[r] \in {"audit", "publish"},
         stage'[r] \in {"dropped", "killed"}
  PROVE  \/ faults' > faults
         \/ forced[at[r]]
         \/ at[r] = "user" /\ stage[r] = "audit" /\ ~table
<1>1. Placed(r) /\ Equipped(at[r]) /\ at[r] \in Services
  BY DEF Inv, TypeOK
<1>2. ASSUME NEW s \in Services, Main(s) PROVE forced[at[r]]
  <2>1. ~StartUp(s)
    BY <1>2, StartUpIdle
  <2>2. ~(StartDrain(s) \/ DrainEnds(s) \/ Stop(s) \/ Close(s))
    BY DEF StartDrain, DrainEnds, Stop, Close, requests
  <2>3. Return(s)
    BY <1>2, <2>1, <2>2 DEF Main
  <2>4. phase[s] = "unwind" /\ (Active(r, s) \/ stage'[r] = stage[r])
    BY <2>3 DEF Return, Gone
  <2> QED BY <1>1, <2>4 DEF Placed, Active
<1>3. ASSUME NEW s \in Services, ServeFails(s) \/ Signal(s) \/ Kill(s) \/ Restart(s)
      PROVE  faults' > faults
  <2>1. ~(Signal(s) \/ Restart(s))
    BY DEF Signal, Restart, requests
  <2> QED BY <1>3, <2>1, FaultBounded DEF ServeFails, Kill, Fatal
<1>4. ASSUME NEW q \in Requests, NEW s \in Services, NEW first \in Working,
             Arrive(q, s, first)
      PROVE  FALSE
  BY <1>4 DEF Arrive, Inv, TypeOK, Working
<1>5. ASSUME NEW q \in Requests, Handler(q) \/ Unwatch(q), ~forced[at[r]],
             ~(faults' > faults)
      PROVE  at[r] = "user" /\ stage[r] = "audit" /\ ~table
  <2>1. q = r
    BY <1>5 DEF Handler, Acquire, Query, Audit, Publish, Unwatch, Advance, Inv,
       TypeOK
  <2>2. phase[at[r]] \in {"serve", "drain"}
    BY <1>1, <1>5 DEF Placed, Working
  <2>3. ~Breaks(r)
    BY <1>5, FaultBounded DEF Breaks
  <2>4. Has(r, "producer")
    BY <1>1, <2>2 DEF Equipped, Ready, Has
  <2>5. Audit(r) /\ stage'[r] = "dropped"
    BY <1>5, <2>1, <2>3, <2>4 DEF Handler, Acquire, Query, Audit, Publish, Unwatch,
       Advance, Inv, TypeOK
  <2>6. hosts[at[r]] /\ ~(Has(r, "session") /\ table)
    BY <2>3, <2>5 DEF Audit, Advance, Inv, TypeOK
  <2>7. ~table
    BY <1>1, <2>2, <2>6 DEF Equipped, Ready, Has, Inv, TypeOK
  <2>8. at[r] = "user"
    BY <1>1, <2>2, <2>6, <2>7 DEF Equipped, Ready, Services, Inv, TypeOK
  <2> QED BY <2>5, <2>7, <2>8 DEF Audit
<1>6. ~Edit /\ ~UNCHANGED vars
  BY DEF Edit, requests, vars
<1> QED BY <1>2, <1>3, <1>4, <1>5, <1>6 DEF Next

\* An audit event goes missing, after its row was committed or WriteAudit was
\* called, only by a fault, by grpcServer.Stop, or in user-service while
\* logger-service has not created the table: for any number of requests, with
\* any signals, restarts and edits of the configuration in between.
THEOREM LossExplained == Spec => AuditGapExplained
<1>1. Inv /\ [Next]_vars =>
        [\A r \in Requests :
           /\ stage[r] \in {"audit", "publish"}
           /\ stage'[r] \in {"dropped", "killed"}
           => \/ faults' > faults
              \/ forced[at[r]]
              \/ at[r] = "user" /\ stage[r] = "audit" /\ ~table]_vars
  BY GapStep
<1> QED BY <1>1, Invariant, PTL DEF Spec, AuditGapExplained

\* Start-up ends in another phase, a panic or os.Exit, never in a return.
LEMMA StartUpGoes ==
  ASSUME NEW s \in Services, StartUp(s)
  PROVE  \E l \in Phases \ {"returned"} : Goto(s, l)
<1>1. CASE \E xs : \E l \in Phases \ {"returned"} : Opens(s, xs, l)
  BY <1>1 DEF Opens
<1>2. CASE Die(s)
  BY <1>2 DEF Die, Phases, Ends
<1>3. CASE \E l \in {"keys", "keyspace", "panicked"} : Goto(s, l)
  BY <1>3 DEF Phases, Ends
<1>4. CASE Configure(s)
  BY <1>2, <1>3, <1>4 DEF Configure, LoadConfigFromVault, MustStringPanics,
     Cancelled, Fatal
<1>5. CASE OpenClients(s) \/ Listen(s)
  BY <1>1, <1>2, <1>5 DEF OpenClients, Listen, Passes, Fatal, Phases, Ends
<1>6. CASE s = "user" /\ (WriteKeys \/ NewTokenManager \/ OpenPool)
  BY <1>1, <1>2, <1>6 DEF WriteKeys, WriteTempPEMs, NewTokenManager, OpenPool,
     Passes, Cancelled, Fatal, Phases, Ends
<1>7. CASE s = "user" /\ ConnectCassandra
  BY <1>1, <1>2, <1>7 DEF ConnectCassandra, Passes, Fatal, Phases, Ends
<1>8. CASE s = "logger" /\ (EnsureKeyspace \/ EnsureAuditSchema)
  BY <1>1, <1>2, <1>8 DEF EnsureKeyspace, EnsureAuditSchema, Passes, Cancelled,
     Fatal, Phases, Ends
<1>9. CASE s = "logger" /\ SetupCassandra
  BY <1>1, <1>2, <1>9 DEF SetupCassandra, Passes, Fatal, Phases, Ends
<1> QED BY <1>4, <1>5, <1>6, <1>7, <1>8, <1>9 DEF StartUp

LEMMA ReturnStep ==
  ASSUME NEW s \in Services, Inv, [Next]_vars,
         phase[s] # "returned", phase'[s] = "returned"
  PROVE  /\ open[s] = {}
         /\ \A r \in Requests : ~(stage[r] = "query" /\ at[r] = s)
<1>1. ASSUME NEW u \in Services, Main(u) PROVE Return(s)
  <2>1. ~StartUp(u)
    BY StartUpGoes DEF Goto, Inv, TypeOK
  <2>2. ~(StartDrain(u) \/ DrainEnds(u) \/ Stop(u) \/ Close(u))
    BY DEF StartDrain, DrainEnds, Stop, Close, Goto, Inv, TypeOK
  <2>3. Return(u)
    BY <1>1, <2>1, <2>2 DEF Main
  <2>4. u = s
    BY <2>3 DEF Return, Goto, Inv, TypeOK
  <2> QED BY <2>3, <2>4
<1>2. ASSUME NEW u \in Services PROVE ~(ServeFails(u) \/ Signal(u) \/ Kill(u)
                                        \/ Restart(u))
  BY <1>2 DEF ServeFails, Signal, Kill, Restart, Fatal, Die, Goto, Inv, TypeOK
<1>3. ASSUME NEW r \in Requests, NEW u \in Services, NEW first \in Working
      PROVE  ~Arrive(r, u, first)
  BY DEF Arrive
<1>4. ASSUME NEW r \in Requests PROVE ~(Handler(r) \/ Unwatch(r))
  BY DEF Handler, Acquire, Query, Audit, Publish, Unwatch, HandlerStep
<1>5. ~Edit /\ ~UNCHANGED vars
  BY DEF Edit, vars
<1>6. Return(s)
  BY <1>1, <1>2, <1>3, <1>4, <1>5 DEF Next
<1> QED BY <1>6 DEF Return, Inv, Placed

\* A process returns from main only with everything closed that it opened, the
\* key files removed among it, and never while one of its handlers has a
\* statement in Postgres, though a forced stop does not wait for handlers.
THEOREM ReturnsOrderly == Spec => OrderlyReturn
<1>1. Inv /\ [Next]_vars =>
        [\A s \in Services : phase[s] # "returned" /\ phase'[s] = "returned" =>
           /\ open[s] = {}
           /\ \A r \in Requests : ~(stage[r] = "query" /\ at[r] = s)]_vars
  BY ReturnStep
<1> QED BY <1>1, Invariant, PTL DEF Spec, OrderlyReturn
====
