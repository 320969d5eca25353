---- MODULE AuditService ----
(***************************************************************************)
(* internal/logger/service: Emit, which stores an audit event in Cassandra *)
(* and then publishes it to Kafka, with pkg/kafka's Producer and           *)
(* pkg/retry's WithBackoff inside.  Every event is one call of Emit with   *)
(* an id of its own; calls of different goroutines interleave, the events  *)
(* of one Line (a client that waits for each answer) follow each other.    *)
(*                                                                         *)
(* The broker and its client library are external.  A write may be         *)
(* acknowledged, having appended the message once or, after retries inside *)
(* the library, more often; it may fail; or it may be given up while its   *)
(* request is still on the way: then the message arrives late, or never.   *)
(***************************************************************************)
EXTENDS Naturals, Sequences, SequencesExt

CONSTANTS Lines,        \* clients, each emitting one event after the other
          PerLine,      \* bound: events per client
          Attempts,     \* 3, the attempts Publish asks WithBackoff for
          HasSession, HasProducer,    \* Session # nil, Producer # nil
          MaxFaults     \* bound: calls that fail

VARIABLES pc,           \* pc[e]: where the Emit call of e is
          tries,        \* i in WithBackoff: attempts that failed
          result,       \* "none" until Emit returns "ok" or "error"
          stored,       \* the audit_logs table
          topic,        \* the partition of the user.audit topic
          late,         \* requests given up but still on their way
          faults

vars == <<pc, tries, result, stored, topic, late, faults>>

ASSUME AuditAssumption ==
  /\ PerLine \in Nat /\ Attempts \in Nat \ {0} /\ MaxFaults \in Nat
  /\ HasSession \in BOOLEAN /\ HasProducer \in BOOLEAN

Event == Lines \X (1 .. PerLine)
Prior(e) == <<e[1], e[2] - 1>>

Init ==
  /\ pc = [e \in Event |-> "before"]
  /\ tries = [e \in Event |-> 0]
  /\ result = [e \in Event |-> "none"]
  /\ stored = {}
  /\ topic = <<>>
  /\ late = {}
  /\ faults = 0

Go(e, l) == pc' = [pc EXCEPT ![e] = l] /\ UNCHANGED result
Return(e, r) ==
  /\ pc' = [pc EXCEPT ![e] = "returned"]
  /\ result' = [result EXCEPT ![e] = r]
Fault == faults < MaxFaults /\ faults' = faults + 1

\* Where Emit goes once Cassandra is done with, or is not configured.
PublishNext(e) ==
  IF HasProducer THEN Go(e, "write") ELSE Return(e, "error")

\* The handlers call Emit before they return, so a client that waits for its
\* answer has one event in progress at a time.
InBackground(e) == TRUE
Waited(e) == e[2] > 1 => pc[Prior(e)] = "returned"

Start(e) ==
  /\ pc[e] = "before" /\ Waited(e)
  /\ IF HasSession THEN Go(e, "insert") ELSE PublishNext(e)
  /\ UNCHANGED <<tries, stored, topic, late, faults>>

\* The INSERT succeeds; fails; or succeeds and is reported failed.
PublishAnyway(e, err) == PublishNext(e)
AfterInsert(e, err) == IF err THEN Return(e, "error") ELSE PublishNext(e)

Insert(e) ==
  /\ pc[e] = "insert"
  /\ \/ /\ stored' = stored \union {e}
        /\ AfterInsert(e, FALSE) /\ UNCHANGED faults
     \/ /\ Fault
        /\ stored' \in {stored, stored \union {e}}
        /\ AfterInsert(e, TRUE)
  /\ UNCHANGED <<tries, topic, late>>

\* One call of WriteMessages with RequireAll.
Write(e) ==
  /\ pc[e] = "write"
  /\ \/ /\ topic' \in {Append(topic, e), topic \o <<e, e>>}
        /\ Return(e, "ok") /\ UNCHANGED <<tries, late, faults>>
     \/ /\ Fault
        /\ tries' = [tries EXCEPT ![e] = @ + 1]
        /\ Go(e, "backoff")
        /\ late' \in {late, late \union {<<e, tries[e]>>}}
        /\ UNCHANGED topic
  /\ UNCHANGED stored

\* The wait after a failed attempt, the last one included: the timer fires and
\* the loop goes on, or the context is done.
More(e) == tries[e] < Attempts

GiveUpSilently(e) == Return(e, "ok")
GiveUp(e) == Return(e, "error")

WakeForMore(e) ==
  /\ pc[e] = "backoff" /\ More(e)
  /\ Go(e, "write")
  /\ UNCHANGED <<tries, stored, topic, late, faults>>
Wake(e) ==
  /\ pc[e] = "backoff"
  /\ IF More(e) THEN Go(e, "write") ELSE GiveUp(e)
  /\ UNCHANGED <<tries, stored, topic, late, faults>>

Cancelled(e) ==
  /\ pc[e] = "backoff"
  /\ Return(e, "error")
  /\ UNCHANGED <<tries, stored, topic, late, faults>>

\* A request the producer gave up reaches the broker, or is lost on the way.
ArriveLate(r) ==
  /\ r \in late
  /\ late' = late \ {r}
  /\ topic' \in {topic, Append(topic, r[1])}
  /\ UNCHANGED <<pc, tries, result, stored, faults>>

Step(e) == Start(e) \/ Insert(e) \/ Write(e) \/ Wake(e)
AllReturned == (\A e \in Event : pc[e] = "returned") /\ late = {}

Next ==
  \/ \E e \in Event : Step(e) \/ Cancelled(e)
  \/ \E r \in late : ArriveLate(r)
  \/ AllReturned /\ UNCHANGED vars

Spec == Init /\ [][Next]_vars

\* Calls to the stores return and timers fire; no context need be cancelled.
FairSpec == Spec /\ \A e \in Event : WF_vars(Step(e))

(***************************************************************************)
(*                             Properties                                  *)
(***************************************************************************)

\* Every variable has its type.
TypeOK ==
  /\ pc \in [Event -> {"before", "insert", "write", "backoff", "returned"}]
  /\ tries \in [Event -> 0 .. Attempts]
  /\ result \in [Event -> {"none", "ok", "error"}]
  /\ stored \subseteq Event
  /\ topic \in Seq(Event)
  /\ late \subseteq Event \X (0 .. Attempts - 1)
  /\ faults \in 0 .. MaxFaults

\* With Cassandra configured, no subscriber of the topic ever sees an event
\* that the audit_logs table does not have: late and repeated writes included.
PublishedIsStored == HasSession => ToSet(topic) \subseteq stored

\* An Emit that returned no error left the event in every configured store.
OkIsEverywhere ==
  \A e \in Event : result[e] = "ok" =>
    e \in ToSet(topic) /\ (HasSession => e \in stored)

\* An event that was acknowledged stands in the topic ahead of every copy of
\* the later events of the same client, whatever was retried or came late.
AcknowledgedInOrder ==
  \A e, f \in Event : e[1] = f[1] /\ e[2] < f[2] /\ result[e] = "ok" =>
    \E i \in DOMAIN topic :
      topic[i] = e /\ \A j \in DOMAIN topic : topic[j] = f => i < j

\* Every Emit returns.
EmitReturns == \A e \in Event : pc[e] = "insert" ~> pc[e] = "returned"
====
