---- MODULE GatewayProofs ----
(***************************************************************************)
(* Theorems about Errors and Gateway, for any requests, any grace period   *)
(* and any number of faults.                                               *)
(***************************************************************************)
EXTENDS Gateway, TLAPS

(*************************** pkg/errors ************************************)

\* "Parse extracts (Code, requestID, grpc.Code) from an error produced here":
\* for every code, Parse gives back the code StatusFromCode was given.
THEOREM ParseInverts ==
  \A c \in Code : Parse(StatusFromCode(c)) = c
BY DEF Code, Parse, StatusFromCode, NotStatus, extractCode, baseStatus,
       fallbackCodeFromGRPC

\* Each error that is a status has the HTTP status of its gRPC code, if there
\* is one.
LEMMA HTTPErrorOfStatus ==
  ASSUME NEW d, NEW g, NEW reason, g # "none", grpcToHTTP(g) # 0
  PROVE  HTTPError(d, [grpc |-> g, reason |-> reason]) = grpcToHTTP(g)
<1>1. [grpc |-> g, reason |-> reason] # NotStatus
  BY DEF NotStatus
<1> QED BY <1>1 DEF HTTPError

\* The gRPC and HTTP statuses of the codes.
LEMMA StatusTable ==
  ASSUME NEW c \in Code, NEW d
  PROVE  HTTPError(d, StatusFromCode(c)) =
           IF c = "weak_password" THEN 400 ELSE HTTPStatus(c)
<1> DEFINE g == baseStatus(c)
<1>1. /\ c \in {"weak_password", "validation_error"} => g = "InvalidArgument"
      /\ c = "email_in_use" => g = "AlreadyExists"
      /\ c = "invalid_credentials" => g = "Unauthenticated"
      /\ c = "rate_limited" => g = "ResourceExhausted"
      /\ c = "not_found" => g = "NotFound"
      /\ c = "internal_error" => g = "Internal"
  BY DEF baseStatus
<1>2. /\ grpcToHTTP("InvalidArgument") = 400
      /\ grpcToHTTP("AlreadyExists") = 409
      /\ grpcToHTTP("Unauthenticated") = 401
      /\ grpcToHTTP("ResourceExhausted") = 429
      /\ grpcToHTTP("NotFound") = 404
      /\ grpcToHTTP("Internal") = 500
  BY DEF grpcToHTTP
<1>3. g # "none" /\ grpcToHTTP(g) # 0
  <2> HIDE DEF g
  <2> QED BY <1>1, <1>2 DEF Code
<1>4. HTTPError(d, StatusFromCode(c)) = grpcToHTTP(g)
  BY <1>3, HTTPErrorOfStatus DEF StatusFromCode
<1>5. grpcToHTTP(g) = IF c = "weak_password" THEN 400 ELSE HTTPStatus(c)
  <2> HIDE DEF g
  <2> QED BY <1>1, <1>2 DEF Code, HTTPStatus
<1> QED BY <1>4, <1>5

\* The gateway, which maps gRPC codes to HTTP, and HTTPStatus, which maps
\* internal codes, agree on every code but weak_password, whatever status the
\* handler would fall back on.
THEOREM MappingsAgree ==
  \A c \in Code \ {"weak_password"}, d \in Nat :
    HTTPError(d, StatusFromCode(c)) = HTTPStatus(Parse(StatusFromCode(c)))
BY StatusTable, ParseInverts

\* What the client's own errors become, whatever the handler's fallback.
LEMMA TransportStatus ==
  ASSUME NEW d, NEW g \in {"Canceled", "Unavailable"}
  PROVE  HTTPError(d, TransportError(g)) \in {400, 503}
<1>1. grpcToHTTP(g) \in {400, 503}
  BY DEF grpcToHTTP
<1>2. g # "none" /\ grpcToHTTP(g) # 0
  BY <1>1
<1>3. HTTPError(d, [grpc |-> g, reason |-> ""]) = grpcToHTTP(g)
  BY <1>2, HTTPErrorOfStatus, Zenon
<1> QED BY <1>1, <1>3 DEF TransportError

\* What a refused body becomes.
LEMMA BindStatus == HTTPError(400, NotStatus) = 400
BY DEF HTTPError

\* What an error of the user service becomes.
LEMMA ServiceStatus ==
  ASSUME NEW d, NEW c \in Results \ {"OK"}
  PROVE  /\ HTTPError(d, StatusFromCode(c)) \in {400, 401, 404, 409, 429, 500}
         /\ c = "internal_error" => HTTPError(d, StatusFromCode(c)) = 500
<1>1. c \in Code /\ c # "weak_password"
  BY DEF Results, Refusals, Code
<1>2. HTTPError(d, StatusFromCode(c)) = HTTPStatus(c)
  BY <1>1, StatusTable
<1> QED BY <1>1, <1>2 DEF HTTPStatus, Code

(*************************** Types *****************************************)

USE GatewayAssumption

\* The initial state is well typed.
LEMMA InitTypes == Init => TypeOK
<1>1. "healthz" \in Routes
  BY DEF Routes
<1>2. Init => ctx \in BOOLEAN /\ conn \in BOOLEAN
  BY Zenon DEF Init
<1>3. Init => done \in [Requests -> BOOLEAN]
  BY Zenon DEF Init
<1> QED BY <1>1, <1>2, <1>3 DEF Init, TypeOK

\* Every step keeps the types.
LEMMA StepTypes == TypeOK /\ [Next]_vars => TypeOK'
<1> SUFFICES ASSUME TypeOK, [Next]_vars PROVE TypeOK'
  OBVIOUS
<1> USE DEF TypeOK
<1>1. ASSUME NEW r \in Requests, NEW route \in Routes, Accept(r, route)
      PROVE  TypeOK'
  BY <1>1 DEF Accept, process
<1>2. ASSUME NEW r \in Requests, AnswerHere(r) PROVE TypeOK'
  BY <1>2, BindStatus DEF AnswerHere, Answer, process
<1>3. ASSUME NEW r \in Requests, CallRPC(r) PROVE TypeOK'
  BY <1>3 DEF CallRPC, process
<1>4. ASSUME NEW r \in Requests, CallOnClosed(r) PROVE TypeOK'
  <2>1. HTTPError(DefaultHTTP(op[r]), TransportError("Canceled")) \in Nat
    BY TransportStatus
  <2> QED BY <1>4, <2>1 DEF CallOnClosed, Answer, process
<1>5. ASSUME NEW r \in Requests, Respond(r) PROVE TypeOK'
  <2>1. remote[r] # "OK" =>
          HTTPError(DefaultHTTP(op[r]), StatusFromCode(remote[r])) \in Nat
    BY <1>5, ServiceStatus DEF Respond
  <2> QED BY <1>5, <2>1 DEF Respond, Answer, process
<1>6. ASSUME NEW r \in Requests, CallBreaks(r) PROVE TypeOK'
  <2>1. \A g \in {"Canceled", "Unavailable"} :
          HTTPError(DefaultHTTP(op[r]), TransportError(g)) \in Nat
    BY TransportStatus
  <2> QED BY <1>6, <2>1 DEF CallBreaks, Answer, Fault, process
<1>7. ASSUME NEW r \in Requests, StreamOpens(r) \/ StreamEnds(r) PROVE TypeOK'
  BY <1>7 DEF StreamOpens, StreamEnds, Answer, process
<1>8. ASSUME NEW r \in Requests, Serve(r) PROVE TypeOK'
  <2>1. ResultsOf(op[r]) \subseteq Results
    BY DEF ResultsOf, Results, Refusals, Code
  <2> QED BY <1>8, <2>1 DEF Serve, process
<1>9. CASE Signal \/ DialFails \/ ListenFails
  <2>1. (ctx \in BOOLEAN /\ conn \in BOOLEAN)'
    BY <1>9, Zenon DEF Signal, DialFails, ListenFails
  <2> QED BY <1>9, <2>1 DEF Signal, DialFails, ListenFails, Fault, request
<1>10. CASE MainStep
  <2>1. (ctx \in BOOLEAN /\ conn \in BOOLEAN)'
    BY <1>10, Zenon DEF MainStep, StartDrainer, Listen, ServerReturns,
                        GraceStarts, Exit
  <2> QED BY <1>10, <2>1 DEF MainStep, StartDrainer, Listen, ServerReturns,
                             GraceStarts, GracePeriod, Exit, request
<1>11. CASE DrainStep
  BY <1>11 DEF DrainStep, DrainStarts, DrainEnds, CloseConsumer, request
<1>12. CASE Tick
  BY <1>12 DEF Tick, Elapse, request
<1>13. CASE UNCHANGED vars
  BY <1>13 DEF vars
<1> QED BY <1>1, <1>2, <1>3, <1>4, <1>5, <1>6, <1>7, <1>8, <1>9, <1>10,
           <1>11, <1>12, <1>13 DEF Next, Handle

\* The gateway keeps its types.
THEOREM GatewayTypes == Spec => []TypeOK
BY InitTypes, StepTypes, PTL DEF Spec

(*************************** Honest answers ********************************)

\* What a call's state says about the work done, and what an answer says about
\* the call.  An answer 200 or a refusal is never given before the user
\* service has decided, so what it does after its caller gave up cannot make
\* such an answer wrong.
CallInv(r) ==
  /\ remote[r] = "OK" /\ op[r] # "Logout" => done[r] = TRUE
  /\ remote[r] \notin {"OK", "internal_error"} => done[r] = FALSE
  /\ stage[r] \in {"absent", "handling"} => remote[r] = "none"
  /\ stage[r] = "streaming" => op[r] = "events"
AnswerInv(r) ==
  stage[r] = "answered" /\ op[r] \in RPCs =>
    /\ answer[r] = 200 => remote[r] = "OK"
    /\ answer[r] \in {401, 404, 409, 429} => remote[r] \in Refusals
    /\ answer[r] # 200 /\ remote[r] \in {"pending", "OK"} =>
         faults > 0 \/ ctx = TRUE
HonestInv ==
  /\ TypeOK
  /\ conn = FALSE => ctx = TRUE
  /\ \A r \in Requests : CallInv(r) /\ AnswerInv(r)

\* A step that leaves a request alone keeps what is known of it.
LEMMA Untouched ==
  ASSUME NEW r \in Requests, HonestInv, faults > 0 => faults' > 0,
         ctx = TRUE => ctx' = TRUE,
         stage'[r] = stage[r], op'[r] = op[r], answer'[r] = answer[r],
         remote'[r] = remote[r], done'[r] = done[r]
  PROVE  CallInv(r)' /\ AnswerInv(r)'
BY DEF HonestInv, CallInv, AnswerInv

\* No step takes back a fault, the cancellation or the close.
LEMMA OnlyOnwards ==
  HonestInv /\ [Next]_vars =>
    /\ faults > 0 => faults' > 0
    /\ ctx = TRUE => ctx' = TRUE
    /\ conn' = FALSE => conn = FALSE \/ ctx' = TRUE
<1> SUFFICES ASSUME HonestInv, [Next]_vars
             PROVE  /\ faults > 0 => faults' > 0
                    /\ ctx = TRUE => ctx' = TRUE
                    /\ conn' = FALSE => conn = FALSE \/ ctx' = TRUE
  OBVIOUS
<1>1. faults \in Nat
  BY DEF HonestInv, TypeOK
<1>2. faults' = faults \/ faults' = faults + 1
  BY DEF Next, vars, Accept, Handle, AnswerHere, CallRPC, CallOnClosed, Respond,
         CallBreaks, StreamOpens, StreamEnds, Serve, Signal, DialFails,
         ListenFails, MainStep, StartDrainer, Listen, ServerReturns, GraceStarts,
         Exit, DrainStep, DrainStarts, DrainEnds, CloseConsumer, Tick, Fault
<1>3. ctx' = ctx \/ ctx' = TRUE
  BY DEF Next, vars, Accept, Handle, AnswerHere, CallRPC, CallOnClosed, Respond,
         CallBreaks, StreamOpens, StreamEnds, Serve, Signal, DialFails,
         ListenFails, MainStep, StartDrainer, Listen, ServerReturns, GraceStarts,
         Exit, DrainStep, DrainStarts, DrainEnds, CloseConsumer, Tick, process
<1>4. conn' = conn \/ ctx' = TRUE
  BY DEF Next, vars, Accept, Handle, AnswerHere, CallRPC, CallOnClosed, Respond,
         CallBreaks, StreamOpens, StreamEnds, Serve, Signal, DialFails,
         ListenFails, MainStep, StartDrainer, Listen, ServerReturns, GraceStarts,
         Exit, DrainStep, DrainStarts, DrainEnds, CloseConsumer, Tick, process
<1> QED BY <1>1, <1>2, <1>3, <1>4

\* Every step of a handler or of the user service keeps what is known of its
\* own request, and touches no other.
LEMMA RequestStep ==
  ASSUME HonestInv, [Next]_vars, NEW r \in Requests,
         (\E route \in Routes : Accept(r, route)) \/ Handle(r) \/ Serve(r)
  PROVE  \A q \in Requests : CallInv(q)' /\ AnswerInv(q)'
<1> USE DEF HonestInv, CallInv, AnswerInv, TypeOK
<1>1. \A q \in Requests \ {r} : CallInv(q)' /\ AnswerInv(q)'
  <2> SUFFICES ASSUME NEW q \in Requests \ {r}
               PROVE  CallInv(q)' /\ AnswerInv(q)'
    OBVIOUS
  <2>1. /\ stage'[q] = stage[q] /\ op'[q] = op[q] /\ answer'[q] = answer[q]
        /\ remote'[q] = remote[q] /\ done'[q] = done[q]
    BY DEF Accept, Handle, AnswerHere, CallRPC, CallOnClosed, Respond, CallBreaks,
           StreamOpens, StreamEnds, Serve, Answer
  <2> QED BY <2>1, OnlyOnwards, Untouched
<1> SUFFICES CallInv(r)' /\ AnswerInv(r)'
  BY <1>1
<1>2. ASSUME NEW route \in Routes, Accept(r, route)
      PROVE  CallInv(r)' /\ AnswerInv(r)'
  BY <1>2 DEF Accept
<1>3. CASE AnswerHere(r)
  BY <1>3, BindStatus DEF AnswerHere, Answer, RPCs
<1>4. CASE CallRPC(r)
  BY <1>4 DEF CallRPC
<1>5. CASE CallOnClosed(r)
  BY <1>5, TransportStatus DEF CallOnClosed, Answer
<1>6. CASE Respond(r)
  BY <1>6, ServiceStatus DEF Respond, Answer, Results, Refusals, Code
<1>7. CASE CallBreaks(r)
  BY <1>7, TransportStatus DEF CallBreaks, Answer, Fault, process
<1>8. CASE StreamOpens(r) \/ StreamEnds(r)
  BY <1>8 DEF StreamOpens, StreamEnds, Answer, RPCs
<1>9. CASE Serve(r)
  <2>1. PICK code \in ResultsOf(op[r]), d \in BOOLEAN :
          /\ code = "OK" /\ op[r] # "Logout" => d
          /\ code \in Refusals => ~d
          /\ remote' = [remote EXCEPT ![r] = code]
          /\ done' = [done EXCEPT ![r] = d]
    BY <1>9 DEF Serve
  <2>2. code \in {"OK", "internal_error"} \union Refusals
    BY DEF ResultsOf, Refusals, Code
  <2>3. /\ code = "OK" /\ op[r] # "Logout" => d = TRUE
        /\ code \in Refusals => d = FALSE
    BY <2>1, Zenon
  <2>4. /\ remote'[r] = code /\ done'[r] = d
        /\ UNCHANGED <<stage, op, answer, ctx, faults>>
        /\ remote[r] = "pending"
    BY <1>9, <2>1 DEF Serve, process
  <2>5. CallInv(r)'
    BY <2>2, <2>3, <2>4
  <2>6. AnswerInv(r)'
    BY <2>2, <2>4 DEF Refusals, Code
  <2> QED BY <2>5, <2>6
<1> QED BY <1>2, <1>3, <1>4, <1>5, <1>6, <1>7, <1>8, <1>9 DEF Handle

\* HonestInv holds initially and is kept by every step.
LEMMA HonestInduction ==
  /\ Init => HonestInv
  /\ HonestInv /\ [Next]_vars => HonestInv'
<1>1. Init => HonestInv
  BY InitTypes DEF Init, HonestInv, CallInv, AnswerInv
<1>2. ASSUME HonestInv, [Next]_vars PROVE HonestInv'
  <2>1. TypeOK' /\ (conn' = FALSE => ctx' = TRUE)
    BY <1>2, StepTypes, OnlyOnwards DEF HonestInv
  <2>2. ASSUME UNCHANGED request
        PROVE  \A r \in Requests : CallInv(r)' /\ AnswerInv(r)'
    BY <1>2, <2>2, OnlyOnwards, Untouched DEF request
  <2>3. CASE UNCHANGED request
    BY <2>1, <2>2, <2>3 DEF HonestInv
  <2>4. CASE \E r \in Requests :
               (\E route \in Routes : Accept(r, route)) \/ Handle(r) \/ Serve(r)
    BY <1>2, <2>1, <2>4, RequestStep DEF HonestInv
  <2>5. UNCHANGED request \/ \E r \in Requests :
          (\E route \in Routes : Accept(r, route)) \/ Handle(r) \/ Serve(r)
    BY <1>2 DEF Next, vars, request, Signal, DialFails, ListenFails, MainStep,
                StartDrainer, Listen, ServerReturns, GraceStarts, Exit, DrainStep,
                DrainStarts, DrainEnds, CloseConsumer, Tick
  <2> QED BY <2>3, <2>4, <2>5
<1> QED BY <1>1, <1>2

\* The gateway's HTTP statuses tell the truth about the work behind them: 200 is
\* the user service's OK, which says that the work is done but for Logout, 401,
\* 404, 409 and 429 are its refusals, and everything else leaves it open.
THEOREM HonestAnswers == Spec => []AnswersHonest
<1>1. HonestInv => AnswersHonest
  BY DEF HonestInv, CallInv, AnswerInv, AnswersHonest, Honest, TypeOK, Results,
         Refusals, Code
<1> QED BY <1>1, HonestInduction, PTL DEF Spec

(*************************** The two timers ********************************)

\* Unless something failed, the listener is closed by the drainer only, so
\* main's timer is set after the drainer's and does not run out before it.
TimerInv ==
  /\ TypeOK
  /\ main # "wait" => server = "returned"
  /\ faults = 0 =>
       /\ server \in {"closed", "returned"} => drainer \notin {"absent", "waiting"}
       /\ main # "wait" => drainLeft <= graceLeft
       /\ main = "exited" => graceLeft = 0

\* TimerInv holds initially and is kept by every step.
LEMMA TimerInduction ==
  /\ Init => TimerInv
  /\ TimerInv /\ [Next]_vars => TimerInv'
<1>1. Init => TimerInv
  BY InitTypes DEF Init, TimerInv
<1>2. ASSUME TimerInv, [Next]_vars PROVE TimerInv'
  <2> USE <1>2 DEF TimerInv, TypeOK
  <2>1. TypeOK'
    BY StepTypes
  <2>2. CASE UNCHANGED process /\ faults' >= faults
    BY <2>1, <2>2 DEF process
  <2>3. ASSUME NEW r \in Requests,
               (\E route \in Routes : Accept(r, route)) \/ Handle(r) \/ Serve(r)
        PROVE  UNCHANGED process /\ faults' >= faults
    BY <2>3 DEF Accept, Handle, AnswerHere, CallRPC, CallOnClosed, Respond,
                CallBreaks, StreamOpens, StreamEnds, Serve, Fault
  <2>4. CASE Signal \/ DialFails \/ ListenFails
    BY <2>1, <2>4 DEF Signal, DialFails, ListenFails, Fault, Running
  <2>5. CASE MainStep
    BY <2>1, <2>5 DEF MainStep, StartDrainer, Listen, ServerReturns, GraceStarts,
                      GracePeriod, Exit, GraceOver, Running
  <2>6. CASE DrainStep
    BY <2>1, <2>6 DEF DrainStep, DrainStarts, DrainEnds, CloseConsumer, Running
  <2>7. CASE Tick
    BY <2>1, <2>7 DEF Tick, Elapse, Running
  <2>8. CASE UNCHANGED vars
    BY <2>8 DEF vars
  <2> QED BY <2>2, <2>3, <2>4, <2>5, <2>6, <2>7, <2>8 DEF Next
<1> QED BY <1>1, <1>2

\* A shutdown without failures gives requests in flight the whole of
\* Shutdown's ten seconds before the process exits.
THEOREM DrainTime == Spec => []DrainGetsItsTime
<1>1. TimerInv => DrainGetsItsTime
  BY DEF TimerInv, TypeOK, DrainGetsItsTime
<1> QED BY <1>1, TimerInduction, PTL DEF Spec
====
