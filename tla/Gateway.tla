---- MODULE Gateway ----
(***************************************************************************)
(* The gateway process: the HTTP handlers of internal/gateway/httpserver,  *)
(* each of which forwards one call to the user service, and the life of    *)
(* the process in internal/gateway/service and cmd/gateway, from dialling  *)
(* to the exit after a signal.                                             *)
(*                                                                         *)
(* Three goroutines share the shutdown.  The one that waits for the        *)
(* context (the drainer) calls srv.Shutdown and then consumer.Close.       *)
(* RunHTTPServer returns as soon as Shutdown has closed the listener, and  *)
(* its deferred calls close the connection to the user service.  main      *)
(* then sleeps for its own ten seconds and exits.  Meanwhile handlers run. *)
(*                                                                         *)
(* The user service is seen as its client sees it: it does what is asked   *)
(* or refuses with a code.  The gRPC client and net/http are external.     *)
(***************************************************************************)
EXTENDS Errors, Integers

CONSTANTS Requests,   \* HTTP requests
          Grace,      \* the ten seconds of Shutdown and of main, in ticks
          MaxFaults   \* bound: calls that break, listeners that fail

VARIABLES
  stage, op, answer,  \* each request: where its handler is, what it asks for,
                      \* the HTTP status it was answered with (0: none yet)
  remote,             \* its call: not made, pending, or the code it returned
  done,               \* the user service did what the call asks for
  ctx,                \* the errgroup's context is cancelled
  server, conn,       \* RunHTTPServer; its connection to the user service
  drainer, drainLeft, \* the goroutine that waits for ctx; Shutdown's timer
  main, graceLeft,    \* the main goroutine; its timer
  faults

request == <<stage, op, answer, remote, done>>
process == <<ctx, server, conn, drainer, drainLeft, main, graceLeft>>
vars == <<stage, op, answer, remote, done, ctx, server, conn, drainer,
          drainLeft, main, graceLeft, faults>>

RPCs == {"Register", "Login", "GetProfile", "RefreshSession", "Logout"}
Routes == RPCs \union {"preflight", "healthz", "events"}
Refusals == Code \ {"internal_error", "weak_password"}
Results == {"OK", "internal_error"} \union Refusals

ASSUME GatewayAssumption ==
  Grace \in Nat \ {0} /\ MaxFaults \in Nat

Init ==
  /\ stage = [r \in Requests |-> "absent"]
  /\ op = [r \in Requests |-> "healthz"]
  /\ answer = [r \in Requests |-> 0]
  /\ remote = [r \in Requests |-> "none"]
  /\ done = [r \in Requests |-> FALSE]
  /\ ctx = FALSE
  /\ server = "starting" /\ conn = TRUE
  /\ drainer = "absent" /\ drainLeft = 0
  /\ main = "wait" /\ graceLeft = 0
  /\ faults = 0

Running == main # "exited"
InFlight(r) == stage[r] \in {"handling", "calling", "streaming"}
Fault == faults < MaxFaults /\ faults' = faults + 1

(*************************** Handlers **************************************)

\* A connection is accepted and its request routed.
Accept(r, route) ==
  /\ Running /\ server = "listening" /\ stage[r] = "absent"
  /\ stage' = [stage EXCEPT ![r] = "handling"]
  /\ op' = [op EXCEPT ![r] = route]
  /\ UNCHANGED <<answer, remote, done, process, faults>>

Answer(r, http) ==
  /\ stage' = [stage EXCEPT ![r] = "answered"]
  /\ answer' = [answer EXCEPT ![r] = http]

\* The status each handler passes to HTTPError for a failed call.
DefaultHTTP(rpc) ==
  CASE rpc = "Register" -> 409
    [] rpc = "GetProfile" -> 404
    [] OTHER -> 401

\* What needs no call: the CORS middleware's answer to OPTIONS, the health
\* check, and a body ShouldBindJSON refuses (GetProfile has no body).
AnswerHere(r) ==
  /\ Running /\ stage[r] = "handling"
  /\ \/ op[r] = "preflight" /\ Answer(r, 204)
     \/ op[r] = "healthz" /\ Answer(r, 200)
     \/ op[r] \in RPCs \ {"GetProfile"} /\ Answer(r, HTTPError(400, NotStatus))
  /\ UNCHANGED <<op, remote, done, process, faults>>

\* The handler calls the user service.
CallRPC(r) ==
  /\ Running /\ stage[r] = "handling" /\ op[r] \in RPCs
  /\ conn
  /\ stage' = [stage EXCEPT ![r] = "calling"]
  /\ remote' = [remote EXCEPT ![r] = "pending"]
  /\ UNCHANGED <<op, answer, done, process, faults>>

\* A call on the closed connection returns at once.
CallOnClosed(r) ==
  /\ Running /\ stage[r] = "handling" /\ op[r] \in RPCs
  /\ ~conn
  /\ Answer(r, HTTPError(DefaultHTTP(op[r]), TransportError("Canceled")))
  /\ UNCHANGED <<op, remote, done, process, faults>>

\* The codes each RPC of the user service returns.
ResultsOf(rpc) ==
  CASE rpc = "Register" ->
         {"OK", "validation_error", "email_in_use", "internal_error"}
    [] rpc = "Login" ->
         {"OK", "rate_limited", "invalid_credentials", "internal_error"}
    [] rpc = "GetProfile" -> {"OK", "validation_error", "not_found"}
    [] rpc = "RefreshSession" ->
         {"OK", "invalid_credentials", "internal_error"}
    [] OTHER -> {"OK"}

\* The user service, another process, works on a call, also on one whose
\* caller has given up.  OK says that the work is done (UserService), except
\* Logout's, which it returns whatever failed; after an internal error the work
\* may be done or not.
Serve(r) ==
  /\ remote[r] = "pending"
  /\ \E code \in ResultsOf(op[r]), d \in BOOLEAN :
       /\ code = "OK" /\ op[r] # "Logout" => d
       /\ code \in Refusals => ~d
       /\ remote' = [remote EXCEPT ![r] = code]
       /\ done' = [done EXCEPT ![r] = d]
  /\ UNCHANGED <<stage, op, answer, process, faults>>

\* The call returns and the handler answers.
Respond(r) ==
  /\ Running /\ stage[r] = "calling" /\ remote[r] \in Results
  /\ Answer(r, IF remote[r] = "OK" THEN 200
               ELSE HTTPError(DefaultHTTP(op[r]), StatusFromCode(remote[r])))
  /\ UNCHANGED <<op, remote, done, process, faults>>

\* The call breaks: the client of the gateway left, the user service is gone,
\* or the connection was closed under it.
CallBreaks(r) ==
  /\ Running /\ stage[r] = "calling"
  /\ \/ conn /\ Fault
     \/ ~conn /\ UNCHANGED faults
  /\ \E g \in {"Canceled", "Unavailable"} :
       Answer(r, HTTPError(DefaultHTTP(op[r]), TransportError(g)))
  /\ UNCHANGED <<op, remote, done, process>>

\* An event stream opens, and ends when its client leaves or a write to it
\* fails (Hub has its steps); nothing in the shutdown ends it.
StreamOpens(r) ==
  /\ Running /\ stage[r] = "handling" /\ op[r] = "events"
  /\ stage' = [stage EXCEPT ![r] = "streaming"]
  /\ UNCHANGED <<op, answer, remote, done, process, faults>>

StreamEnds(r) ==
  /\ Running /\ stage[r] = "streaming"
  /\ Answer(r, 200)
  /\ UNCHANGED <<op, remote, done, process, faults>>

(*************************** RunHTTPServer and main ************************)

\* SIGINT or SIGTERM.
Signal ==
  /\ Running /\ ~ctx
  /\ ctx' = TRUE
  /\ UNCHANGED <<request, server, conn, drainer, drainLeft, main, graceLeft,
                 faults>>

\* Dialling or registering the mux fails: RunHTTPServer returns before it has
\* started the drainer.
DialFails ==
  /\ Running /\ server = "starting" /\ drainer = "absent"
  /\ Fault
  /\ server' = "closed"
  /\ UNCHANGED <<request, ctx, conn, drainer, drainLeft, main, graceLeft>>

StartDrainer ==
  /\ Running /\ server = "starting" /\ drainer = "absent"
  /\ drainer' = "waiting"
  /\ UNCHANGED <<request, ctx, server, conn, drainLeft, main, graceLeft, faults>>

\* ListenAndServe, unless Shutdown was called before it.
Listen ==
  /\ Running /\ server = "starting" /\ drainer # "absent"
  /\ server' = IF drainer = "waiting" THEN "listening" ELSE "closed"
  /\ UNCHANGED <<request, ctx, conn, drainer, drainLeft, main, graceLeft, faults>>

\* The address is taken, or accepting connections fails for good.
ListenFails ==
  /\ Running /\ drainer # "absent" /\ server \in {"starting", "listening"}
  /\ Fault
  /\ server' = "closed"
  /\ UNCHANGED <<request, ctx, conn, drainer, drainLeft, main, graceLeft>>

\* ListenAndServe has returned, with an error as always: the deferred calls
\* close the connections, and the errgroup cancels its context.
ServerReturns ==
  /\ Running /\ server = "closed"
  /\ server' = "returned" /\ conn' = FALSE /\ ctx' = TRUE
  /\ UNCHANGED <<request, drainer, drainLeft, main, graceLeft, faults>>

\* grp.Wait returns; main gives background work ten seconds.
GracePeriodShort == Grace - 1
GracePeriod == Grace

GraceStarts ==
  /\ main = "wait" /\ server = "returned"
  /\ main' = "grace" /\ graceLeft' = GracePeriod
  /\ UNCHANGED <<request, ctx, server, conn, drainer, drainLeft, faults>>

GraceOverIdle == graceLeft = 0 /\ \A r \in Requests : ~InFlight(r)
GraceOver == graceLeft = 0

Exit ==
  /\ main = "grace" /\ GraceOver
  /\ main' = "exited"
  /\ UNCHANGED <<request, ctx, server, conn, drainer, drainLeft, graceLeft,
                 faults>>

(*************************** The drainer ***********************************)

\* srv.Shutdown, with ten seconds from now, closes the listener first.
DrainStarts ==
  /\ Running /\ drainer = "waiting" /\ ctx
  /\ drainer' = "draining" /\ drainLeft' = Grace
  /\ server' = IF server = "listening" THEN "closed" ELSE server
  /\ UNCHANGED <<request, ctx, conn, main, graceLeft, faults>>

\* Shutdown returns when every connection is idle or its time is over.
DrainOver == drainLeft = 0 \/ \A r \in Requests : ~InFlight(r)

DrainEnds ==
  /\ Running /\ drainer = "draining" /\ DrainOver
  /\ drainer' = "closing"
  /\ UNCHANGED <<request, ctx, server, conn, drainLeft, main, graceLeft, faults>>

\* consumer.Close (AuditConsumer has its steps).
CloseConsumer ==
  /\ Running /\ drainer = "closing"
  /\ drainer' = "finished"
  /\ UNCHANGED <<request, ctx, server, conn, drainLeft, main, graceLeft, faults>>

(*************************** Time ******************************************)

Elapse(n) == IF n = 0 THEN 0 ELSE n - 1

Tick ==
  /\ Running /\ (drainLeft > 0 \/ graceLeft > 0)
  /\ drainLeft' = Elapse(drainLeft) /\ graceLeft' = Elapse(graceLeft)
  /\ UNCHANGED <<request, ctx, server, conn, drainer, main, faults>>

Handle(r) ==
  \/ AnswerHere(r) \/ CallRPC(r) \/ CallOnClosed(r) \/ Respond(r)
  \/ CallBreaks(r) \/ StreamOpens(r) \/ StreamEnds(r)

MainStep == StartDrainer \/ Listen \/ ServerReturns \/ GraceStarts \/ Exit
DrainStep == DrainStarts \/ DrainEnds \/ CloseConsumer

Next ==
  \/ \E r \in Requests : (\E route \in Routes : Accept(r, route)) \/ Handle(r)
  \/ \E r \in Requests : Serve(r)
  \/ Signal \/ DialFails \/ ListenFails
  \/ MainStep \/ DrainStep \/ Tick

Spec == Init /\ [][Next]_vars

\* Both goroutines are scheduled and time passes; no request, answer or signal
\* is promised.
Fairness == WF_vars(MainStep) /\ WF_vars(DrainStep) /\ WF_vars(Tick)
FairSpec == Spec /\ Fairness

(***************************************************************************)
(*                             Properties                                  *)
(***************************************************************************)

\* Every variable has its type.
TypeOK ==
  /\ stage \in [Requests -> {"absent", "handling", "calling", "streaming",
                             "answered"}]
  /\ op \in [Requests -> Routes]
  /\ answer \in [Requests -> Nat]
  /\ remote \in [Requests -> {"none", "pending"} \union Results]
  /\ done \in [Requests -> BOOLEAN]
  /\ ctx \in BOOLEAN /\ conn \in BOOLEAN
  /\ server \in {"starting", "listening", "closed", "returned"}
  /\ drainer \in {"absent", "waiting", "draining", "closing", "finished"}
  /\ main \in {"wait", "grace", "exited"}
  /\ drainLeft \in 0 .. Grace /\ graceLeft \in 0 .. Grace
  /\ faults \in 0 .. MaxFaults

\* An HTTP status tells what the client may conclude about the work behind it,
\* calls cut off by the shutdown or answered late included.  200 means that the
\* work is done, except for Logout, whose token may stay valid (the user service
\* drops the errors of its lookup and of its UPDATE); 401, 404, 409 and 429 mean
\* not done; and done but not answered 200 takes an internal error, a broken
\* call or the shutdown.
Honest(r) ==
  /\ answer[r] = 200 /\ op[r] # "Logout" => done[r]
  /\ answer[r] \in {401, 404, 409, 429} => ~done[r]
  /\ done[r] /\ answer[r] # 200 =>
       remote[r] = "internal_error" \/ faults > 0 \/ ctx
AnswersHonest ==
  \A r \in Requests : stage[r] = "answered" /\ op[r] \in RPCs => Honest(r)

\* The process does not exit under a request before Shutdown's ten seconds for
\* it are over, though main's timer and Shutdown's are set by different
\* goroutines; unless the listener failed and the drainer was late to hear of
\* it.
DrainGetsItsTime ==
  main = "exited" /\ (\E r \in Requests : InFlight(r)) /\ faults = 0 =>
    drainer \notin {"absent", "waiting"} /\ drainLeft = 0

\* After a signal or a failed start the process exits, whatever streams stay
\* open and calls stay pending.
SignalEnds == ctx ~> main = "exited"
====
