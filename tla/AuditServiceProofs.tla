---- MODULE AuditServiceProofs ----
(***************************************************************************)
(* Theorems about AuditService, for any number of clients, events,         *)
(* attempts and faults, with either store configured or not: its types,    *)
(* and what the topic and the table say of the events.                     *)
(***************************************************************************)
EXTENDS AuditService, TLAPS

OnTopic(e) == \E i \in DOMAIN topic : topic[i] = e
OnItsWay(e) == \E n \in 0 .. Attempts - 1 : <<e, n>> \in late

\* What Emit has done by the time it is at a label.  Until the INSERT is over
\* nothing of the event is in the topic or on its way there.
Begun(e) ==
  /\ pc[e] = "write" => tries[e] < Attempts
  /\ pc[e] \in {"before", "insert"} => tries[e] = 0 /\ ~OnTopic(e) /\ ~OnItsWay(e)
  /\ HasSession /\ pc[e] \in {"write", "backoff"} => e \in stored
  /\ HasSession /\ (OnTopic(e) \/ OnItsWay(e)) => e \in stored
  /\ result[e] = "ok" =>
       pc[e] = "returned" /\ OnTopic(e) /\ (HasSession => e \in stored)

Earlier(e, f) == e[1] = f[1] /\ e[2] < f[2]

\* A client's next event begins when all its earlier ones have returned, and
\* the acknowledged ones among them stand ahead of it.
Sequential(e, f) ==
  Earlier(e, f) =>
    /\ pc[f] # "before" => pc[e] = "returned"
    /\ result[e] = "ok" =>
         \E i \in DOMAIN topic :
           topic[i] = e /\ \A j \in DOMAIN topic : topic[j] = f => i < j

Inv ==
  /\ TypeOK
  /\ \A e \in Event : Begun(e)
  /\ \A e, f \in Event : Sequential(e, f)

LEMMA Initial == Init => Inv
<1> SUFFICES ASSUME Init PROVE Inv
  OBVIOUS
<1>1. TypeOK
  BY AuditAssumption DEF Init, TypeOK
<1>2. ASSUME NEW e \in Event PROVE Begun(e)
  BY <1>2, AuditAssumption DEF Init, Begun, OnTopic, OnItsWay
<1>3. ASSUME NEW e \in Event, NEW f \in Event PROVE Sequential(e, f)
  BY <1>3 DEF Init, Sequential
<1> QED BY <1>1, <1>2, <1>3 DEF Inv

(*************************** Steps that leave the topic alone **************)

\* Emit goes from one label to another, or returns an error, and the topic and
\* what is on its way to it stay as they are.
LEMMA QuietStep ==
  ASSUME NEW e \in Event, Inv,
         NEW l \in {"insert", "write", "returned"},
         pc' = [pc EXCEPT ![e] = l],
         l # "returned" => UNCHANGED result,
         l = "returned" => result' = [result EXCEPT ![e] = "error"],
         UNCHANGED <<tries, topic, late>>,
         stored' \in {stored, stored \union {e}},
         faults' \in 0 .. MaxFaults,
         l = "insert" => pc[e] = "before",
         l = "write" => tries[e] < Attempts /\ (HasSession => e \in stored'),
         pc[e] # "returned",
         pc[e] = "before" => Waited(e)
  PROVE  Inv'
<1> USE AuditAssumption
<1>1. TypeOK'
  BY DEF Inv, TypeOK
<1>2. ASSUME NEW f \in Event PROVE Begun(f)'
  BY <1>2 DEF Inv, TypeOK, Begun, OnTopic, OnItsWay
<1>3. ASSUME NEW d \in Event, NEW f \in Event PROVE Sequential(d, f)'
  <2> SUFFICES ASSUME Earlier(d, f) PROVE Sequential(d, f)'
    BY DEF Sequential, Earlier
  <2>1. Sequential(d, f)
    BY <1>3 DEF Inv
  <2>2. ASSUME result'[d] = "ok" PROVE result[d] = "ok"
    BY <2>2 DEF Inv, TypeOK
  <2>3. ASSUME pc'[f] # "before" PROVE pc'[d] = "returned"
    <3>1. CASE pc[f] # "before"
      BY <2>1, <3>1 DEF Inv, TypeOK, Sequential
    <3>2. CASE pc[f] = "before"
      <4>1. f = e /\ Waited(f)
        BY <2>3, <3>2 DEF Inv, TypeOK
      <4>2. /\ d[1] \in Lines /\ d[2] \in 1 .. PerLine
            /\ f[1] \in Lines /\ f[2] \in 1 .. PerLine
        BY DEF Event
      <4>3. Prior(f) \in Event /\ pc[Prior(f)] = "returned"
        BY <4>1, <4>2 DEF Prior, Event, Earlier, Waited
      <4>4. CASE d[2] = f[2] - 1
        <5>1. d = Prior(f)
          BY <4>2, <4>4 DEF Prior, Earlier, Event
        <5> QED BY <4>3, <5>1 DEF Inv, TypeOK
      <4>5. CASE d[2] # f[2] - 1
        <5>1. Earlier(d, Prior(f))
          BY <4>2, <4>5 DEF Earlier, Prior
        <5>2. pc[d] = "returned"
          BY <4>3, <5>1 DEF Inv, Sequential
        <5> QED BY <5>2 DEF Inv, TypeOK
      <4> QED BY <4>4, <4>5
    <3> QED BY <3>1, <3>2
  <2> QED BY <2>1, <2>2, <2>3 DEF Sequential
<1> QED BY <1>1, <1>2, <1>3 DEF Inv

LEMMA FaultBounded == ASSUME Inv, Fault \/ UNCHANGED faults
                      PROVE  faults' \in 0 .. MaxFaults
BY AuditAssumption DEF Inv, TypeOK, Fault

LEMMA StartKeeps == ASSUME NEW e \in Event, Inv, Start(e) PROVE Inv'
<1>1. tries[e] < Attempts /\ pc[e] = "before" /\ Waited(e)
  BY AuditAssumption DEF Start, Inv, Begun
<1>2. faults' \in 0 .. MaxFaults
  BY FaultBounded DEF Start
<1>3. CASE HasSession
  BY <1>1, <1>2, <1>3, QuietStep DEF Start, Go
<1>4. CASE ~HasSession
  BY <1>1, <1>2, <1>4, QuietStep DEF Start, PublishNext, Go, Return
<1> QED BY <1>3, <1>4

LEMMA InsertKeeps == ASSUME NEW e \in Event, Inv, Insert(e) PROVE Inv'
<1>1. tries[e] < Attempts /\ pc[e] = "insert"
  BY AuditAssumption DEF Insert, Inv, Begun
<1>2. faults' \in 0 .. MaxFaults
  BY FaultBounded DEF Insert
<1>3. CASE stored' = stored \union {e} /\ AfterInsert(e, FALSE)
  BY <1>1, <1>2, <1>3, QuietStep DEF Insert, AfterInsert, PublishNext, Go, Return
<1>4. CASE stored' \in {stored, stored \union {e}} /\ AfterInsert(e, TRUE)
  BY <1>1, <1>2, <1>4, QuietStep DEF Insert, AfterInsert, Return
<1> QED BY <1>3, <1>4 DEF Insert

LEMMA WakeKeeps == ASSUME NEW e \in Event, Inv, Wake(e) PROVE Inv'
<1>1. faults' \in 0 .. MaxFaults
  BY FaultBounded DEF Wake
<1>2. HasSession => e \in stored
  BY DEF Wake, Inv, Begun
<1> QED BY <1>1, <1>2, QuietStep DEF Wake, More, GiveUp, Go, Return

LEMMA CancelledKeeps == ASSUME NEW e \in Event, Inv, Cancelled(e) PROVE Inv'
<1>1. faults' \in 0 .. MaxFaults
  BY FaultBounded DEF Cancelled
<1> QED BY <1>1, QuietStep DEF Cancelled, Return

(*************************** Steps that write ******************************)

\* The topic grows at its end, by copies of one event.
Grows(e) ==
  /\ topic' \in Seq(Event) /\ Len(topic) <= Len(topic')
  /\ \A i \in 1 .. Len(topic') : topic'[i] = IF i <= Len(topic) THEN topic[i] ELSE e

LEMMA TopicGrows ==
  ASSUME NEW e \in Event, topic \in Seq(Event),
         topic' \in {topic, Append(topic, e), topic \o <<e, e>>}
  PROVE  Grows(e)
<1>1. CASE topic' = topic
  BY <1>1 DEF Grows
<1>2. CASE topic' = Append(topic, e)
  BY <1>2 DEF Grows
<1>3. CASE topic' = topic \o <<e, e>>
  <2>1. <<e, e>> \in Seq(Event) /\ Len(<<e, e>>) = 2
    OBVIOUS
  <2>2. \A i \in 1 .. 2 : <<e, e>>[i] = e
    OBVIOUS
  <2>3. topic' \in Seq(Event) /\ Len(topic') = Len(topic) + 2
    BY <1>3, <2>1
  <2>4. \A i \in 1 .. Len(topic') : topic'[i] =
          IF i <= Len(topic) THEN topic[i] ELSE <<e, e>>[i - Len(topic)]
    BY <1>3, <2>1, <2>3
  <2> QED BY <2>1, <2>2, <2>3, <2>4 DEF Grows
<1> QED BY <1>1, <1>2, <1>3

\* Where events stand once the topic has grown.
LEMMA GrownTopic ==
  ASSUME NEW e \in Event, topic \in Seq(Event), Grows(e), NEW f \in Event
  PROVE  /\ OnTopic(f) => OnTopic(f)'
         /\ OnTopic(f)' => OnTopic(f) \/ f = e
BY DEF Grows, OnTopic

\* Acknowledged events keep their lead.
LEMMA LeadKept ==
  ASSUME NEW d \in Event, NEW f \in Event, NEW e \in Event,
         topic \in Seq(Event), Grows(e),
         \E i \in DOMAIN topic :
           topic[i] = d /\ \A j \in DOMAIN topic : topic[j] = f => i < j
  PROVE  \E i \in DOMAIN topic' :
           topic'[i] = d /\ \A j \in DOMAIN topic' : topic'[j] = f => i < j
<1>1. PICK i \in DOMAIN topic :
        topic[i] = d /\ \A j \in DOMAIN topic : topic[j] = f => i < j
  OBVIOUS
<1>2. i \in DOMAIN topic' /\ topic'[i] = d
  BY <1>1 DEF Grows
<1>3. ASSUME NEW j \in DOMAIN topic', topic'[j] = f PROVE i < j
  BY <1>1, <1>3 DEF Grows
<1> QED BY <1>2, <1>3

LEMMA WriteKeeps == ASSUME NEW e \in Event, Inv, Write(e) PROVE Inv'
<1> USE AuditAssumption
<1>0. /\ topic \in Seq(Event) /\ pc[e] = "write" /\ tries[e] < Attempts
      /\ tries[e] \in Nat /\ stored' = stored
  BY DEF Write, Inv, TypeOK, Begun
<1>1. CASE /\ topic' \in {Append(topic, e), topic \o <<e, e>>}
           /\ Return(e, "ok") /\ UNCHANGED <<tries, late, faults>>
  <2>1. Grows(e) /\ Len(topic') > Len(topic)
    BY <1>0, <1>1, TopicGrows
  <2>2. TypeOK'
    BY <1>0, <1>1, <2>1 DEF Inv, TypeOK, Return, Grows
  <2>3. OnTopic(e)'
    BY <1>0, <2>1 DEF Grows, OnTopic
  <2>4. ASSUME NEW f \in Event PROVE Begun(f)'
    <3>1. /\ OnTopic(f) => OnTopic(f)'
          /\ OnTopic(f)' => OnTopic(f) \/ f = e
      BY <1>0, <2>1, <2>4, GrownTopic
    <3>2. OnItsWay(f)' <=> OnItsWay(f)
      BY <1>1 DEF OnItsWay
    <3>3. CASE f = e
      BY <1>0, <1>1, <2>3, <3>3 DEF Inv, TypeOK, Begun, Return
    <3>4. CASE f # e
      BY <1>0, <1>1, <2>4, <3>1, <3>2, <3>4 DEF Inv, TypeOK, Begun, Return
    <3> QED BY <3>3, <3>4
  <2>5. ASSUME NEW d \in Event, NEW f \in Event, Earlier(d, f)
        PROVE  Sequential(d, f)'
    <3>1. Sequential(d, f) /\ Begun(f)
      BY <2>5 DEF Inv
    <3>2. d # f
      BY <2>5 DEF Earlier, Event
    <3>3. pc'[f] # "before" => pc'[d] = "returned"
      BY <1>0, <1>1, <2>5, <3>1 DEF Inv, TypeOK, Sequential, Return
    <3>4. CASE d = e
      <4>1. pc[f] = "before"
        BY <1>0, <2>5, <3>1, <3>4 DEF Sequential
      <4>2. ~OnTopic(f)
        BY <3>1, <4>1 DEF Begun
      <4>3. ~OnTopic(f)'
        BY <1>0, <2>1, <3>2, <3>4, <4>2, GrownTopic
      <4>4. PICK i \in DOMAIN topic' : topic'[i] = d
        BY <2>3, <3>4 DEF OnTopic
      <4> QED BY <3>3, <4>3, <4>4 DEF Sequential, OnTopic
    <3>5. CASE d # e
      <4>1. result'[d] = result[d]
        BY <1>1, <2>5, <3>5 DEF Return, Inv, TypeOK
      <4> QED BY <1>0, <2>1, <2>5, <3>1, <3>3, <4>1, LeadKept DEF Sequential
    <3> QED BY <3>4, <3>5
  <2> QED BY <2>2, <2>4, <2>5 DEF Inv, Sequential
<1>2. CASE /\ Fault
           /\ tries' = [tries EXCEPT ![e] = @ + 1]
           /\ Go(e, "backoff")
           /\ late' \in {late, late \union {<<e, tries[e]>>}}
           /\ UNCHANGED topic
  <2>1. faults' \in 0 .. MaxFaults
    BY <1>2, FaultBounded
  <2>2. late' \subseteq Event \X (0 .. Attempts - 1)
    BY <1>0, <1>2 DEF Inv, TypeOK
  <2>3. TypeOK'
    BY <1>0, <1>2, <2>1, <2>2 DEF Inv, TypeOK, Go
  <2>4. ASSUME NEW f \in Event PROVE Begun(f)'
    <3>1. OnTopic(f)' <=> OnTopic(f)
      BY <1>2 DEF OnTopic
    <3>2. f # e => (OnItsWay(f)' <=> OnItsWay(f))
      BY <1>2 DEF OnItsWay
    <3> QED BY <1>0, <1>2, <2>4, <3>1, <3>2 DEF Inv, TypeOK, Begun, Go
  <2>5. ASSUME NEW d \in Event, NEW f \in Event PROVE Sequential(d, f)'
    <3>1. Sequential(d, f)
      BY <2>5 DEF Inv
    <3> QED BY <1>0, <1>2, <2>5, <3>1 DEF Inv, TypeOK, Sequential, Earlier, Go
  <2> QED BY <2>3, <2>4, <2>5 DEF Inv
<1> QED BY <1>1, <1>2 DEF Write

LEMMA ArriveLateKeeps == ASSUME NEW r \in late, Inv, ArriveLate(r) PROVE Inv'
<1>1. PICK e \in Event, n \in 0 .. Attempts - 1 : r = <<e, n>>
  BY DEF Inv, TypeOK
<1>2. OnItsWay(e) /\ r[1] = e
  BY <1>1 DEF OnItsWay
<1>3. topic \in Seq(Event)
  BY DEF Inv, TypeOK
<1>4. Grows(e)
  BY <1>1, <1>2, <1>3, TopicGrows DEF ArriveLate
<1>5. TypeOK'
  BY <1>4 DEF Inv, TypeOK, ArriveLate, Grows
<1>6. ASSUME NEW f \in Event PROVE Begun(f)'
  <2>1. /\ OnTopic(f) => OnTopic(f)'
        /\ OnTopic(f)' => OnTopic(f) \/ f = e
    BY <1>3, <1>4, <1>6, GrownTopic
  <2>2. OnItsWay(f)' => OnItsWay(f)
    BY DEF OnItsWay, ArriveLate
  <2> QED BY <1>2, <1>6, <2>1, <2>2 DEF Inv, Begun, ArriveLate
<1>7. ASSUME NEW d \in Event, NEW f \in Event PROVE Sequential(d, f)'
  <2>1. Sequential(d, f)
    BY <1>7 DEF Inv
  <2> QED BY <1>3, <1>4, <1>7, <2>1, LeadKept DEF Sequential, Earlier, ArriveLate
<1> QED BY <1>5, <1>6, <1>7 DEF Inv

LEMMA StutterKeeps == ASSUME Inv, UNCHANGED vars PROVE Inv'
<1>1. TypeOK'
  BY DEF Inv, TypeOK, vars
<1>2. ASSUME NEW e \in Event PROVE Begun(e)'
  BY <1>2 DEF Inv, vars, Begun, OnTopic, OnItsWay
<1>3. ASSUME NEW e \in Event, NEW f \in Event PROVE Sequential(e, f)'
  BY <1>3 DEF Inv, vars, Sequential, Earlier
<1> QED BY <1>1, <1>2, <1>3 DEF Inv

LEMMA NextKeeps == Inv /\ [Next]_vars => Inv'
BY StartKeeps, InsertKeeps, WriteKeeps, WakeKeeps, CancelledKeeps, ArriveLateKeeps,
   StutterKeeps DEF Next, Step

(*************************** Theorems **************************************)

LEMMA Invariant == Spec => []Inv
<1>1. Init => Inv
  BY Initial
<1>2. Inv /\ [Next]_vars => Inv'
  BY NextKeeps
<1> QED BY <1>1, <1>2, PTL DEF Spec

\* The variables keep their types; WithBackoff never counts past Attempts.
THEOREM AuditTypes == Spec => []TypeOK
<1>1. Inv => TypeOK
  BY DEF Inv
<1> QED BY <1>1, Invariant, PTL

\* With Cassandra configured, Emit publishes nothing that it has not stored,
\* however often it retries and however late a given-up write arrives.
THEOREM StoredBeforePublished == Spec => []PublishedIsStored
<1>1. Inv => PublishedIsStored
  BY DEF Inv, TypeOK, Begun, OnTopic, PublishedIsStored, ToSet
<1> QED BY <1>1, Invariant, PTL

\* An Emit that returns nil has put its event into every configured store.
THEOREM OkMeansEverywhere == Spec => []OkIsEverywhere
<1>1. Inv => OkIsEverywhere
  BY DEF Inv, Begun, OnTopic, OkIsEverywhere, ToSet
<1> QED BY <1>1, Invariant, PTL

\* An acknowledged event stands in the topic ahead of all copies of the later
\* events of a client that waits for its answers.
THEOREM OrderKept == Spec => []AcknowledgedInOrder
<1>1. Inv => AcknowledgedInOrder
  BY DEF Inv, Sequential, Earlier, AcknowledgedInOrder
<1> QED BY <1>1, Invariant, PTL
====
