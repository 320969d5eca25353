---- MODULE AuditConsumerProofs ----
(***************************************************************************)
(* Theorems about AuditConsumer, for any finite pool of workers and any    *)
(* number of messages and faults: its types, the WaitGroup's count, that   *)
(* no fetched message is dropped before a worker has handled it, and how   *)
(* many messages a crash can lose and an earlier message can be overtaken  *)
(* by.                                                                     *)
(***************************************************************************)
EXTENDS AuditConsumer, FiniteSetTheorems, TLAPS

\* The loop has a message of the topic from the fetch to the commit.
Carries == loop \in {"add", "send", "commit"} => msg \in Msgs

Inv ==
  /\ TypeOK
  /\ Carries
  /\ WaitGroupCounts
  /\ NothingDropped

USE ConsumerAssumption

\* The number of busy workers is a number.
LEMMA Counting ==
  /\ N \in Nat
  /\ IsFiniteSet(Busy) /\ Cardinality(Busy) \in Nat
<1>1. IsFiniteSet(Busy)
  BY FS_Subset DEF Busy
<1> QED BY <1>1, FS_CardinalityType DEF N

LEMMA Initial == Init => Inv
<1> SUFFICES ASSUME Init PROVE Inv
  OBVIOUS
<1>1. stopping \in BOOLEAN /\ panicked \in BOOLEAN /\ closed \in BOOLEAN
  BY Zenon DEF Init
<1>2. Busy = {}
  BY DEF Init, Busy
<1>3. TypeOK
  BY <1>1, Counting DEF Init, TypeOK
<1>4. WaitGroupCounts
  BY <1>2, FS_EmptySet DEF Init, WaitGroupCounts
<1> QED BY <1>3, <1>4 DEF Init, Inv, Carries, NothingDropped

(*************************** Steps outside the pool ************************)

\* A step that leaves the pool alone, counts nothing and is not inside Submit.
LEMMA FrameKeeps ==
  ASSUME Inv, TypeOK', Carries', UNCHANGED <<wg, tasks, work>>,
         loop # "send", loop' # "send",
         \A m \in first' .. position' - 1 :
           m \in first .. position - 1 \/ (loop' = "add" /\ m = msg'),
         handled \subseteq handled',
         loop = "add" => loop' = "add" /\ UNCHANGED msg
  PROVE  Inv'
<1>1. WaitGroupCounts'
  BY DEF Inv, WaitGroupCounts, Busy
<1>2. NothingDropped'
  BY DEF Inv, NothingDropped, InFlight
<1> QED BY <1>1, <1>2 DEF Inv

LEMMA FetchKeeps == ASSUME Inv, Fetch PROVE Inv'
<1>1. TypeOK'
  BY DEF Fetch, pool, Inv, TypeOK
<1>2. Carries'
  BY DEF Fetch, Inv, TypeOK, Carries, Msgs
<1> QED BY <1>1, <1>2, FrameKeeps DEF Fetch, pool, Inv, TypeOK

LEMMA FetchFailsKeeps == ASSUME Inv, FetchFails PROVE Inv'
<1>1. faults' \in 0 .. MaxFaults
  BY DEF FetchFails, Fault, Inv, TypeOK
<1>2. TypeOK'
  BY <1>1 DEF FetchFails, pool, Inv, TypeOK
<1>3. Carries'
  BY DEF FetchFails, Carries
<1> QED BY <1>2, <1>3, FrameKeeps DEF FetchFails, pool

LEMMA CommitKeeps == ASSUME Inv, Commit PROVE Inv'
<1>1. faults' \in 0 .. MaxFaults /\ committed' \in 0 .. MaxMsgs
  BY DEF Commit, Fault, Inv, TypeOK
<1>2. TypeOK'
  BY <1>1 DEF Commit, pool, Inv, TypeOK
<1>3. Carries'
  BY DEF Commit, Carries
<1> QED BY <1>2, <1>3, FrameKeeps DEF Commit, pool

\* The goroutine that closes and the signal touch neither the loop's message
\* nor the pool's tasks.
LEMMA CloserKeeps ==
  ASSUME Inv, Signal \/ CloseStarts \/ CloserStep PROVE Inv'
<1>1. UNCHANGED <<position, committed, loop, msg, wg, tasks, work, panicked,
                  handled, first, lost, faults>>
  BY DEF Signal, CloseStarts, CloserStep, WaitReturns, CloseTasks, CloseReader,
     CloserGoes, pool
<1>2. /\ stopping' \in BOOLEAN /\ closed' \in BOOLEAN
      /\ closer' \in {"before", "wait", "close", "reader", "closed"}
  BY DEF Signal, CloseStarts, CloserStep, WaitReturns, CloseTasks, CloseReader,
     CloserGoes, pool, Inv, TypeOK
<1>3. TypeOK'
  BY <1>1, <1>2 DEF Inv, TypeOK
<1>4. Carries' /\ NothingDropped'
  BY <1>1 DEF Inv, Carries, NothingDropped, InFlight
<1>5. WaitGroupCounts'
  BY <1>1 DEF Inv, WaitGroupCounts, Busy
<1> QED BY <1>3, <1>4, <1>5 DEF Inv

(*************************** Submit ****************************************)

LEMMA SubmitAddKeeps == ASSUME Inv, SubmitAdd PROVE Inv'
<1>1. TypeOK' /\ Carries'
  BY DEF SubmitAdd, Inv, TypeOK, Carries
<1>2. WaitGroupCounts'
  <2>1. Busy' = Busy /\ Cardinality(Busy) \in Nat /\ Len(tasks) \in Nat
    BY Counting DEF SubmitAdd, Busy, Inv, TypeOK
  <2> QED BY <2>1 DEF SubmitAdd, Inv, WaitGroupCounts
<1>3. NothingDropped'
  BY DEF SubmitAdd, Inv, NothingDropped, InFlight
<1> QED BY <1>1, <1>2, <1>3 DEF Inv

\* What a channel holds after a send and after a receive.
LEMMA SendHolds ==
  ASSUME NEW s \in Seq(Msgs), NEW m \in Msgs
  PROVE  /\ Append(s, m) \in Seq(Msgs) /\ Len(Append(s, m)) = Len(s) + 1
         /\ ToSet(Append(s, m)) = ToSet(s) \union {m}
<1>1. Append(s, m) \in Seq(Msgs) /\ Len(Append(s, m)) = Len(s) + 1
  OBVIOUS
<1>2. \A i \in 1 .. Len(s) : Append(s, m)[i] = s[i]
  OBVIOUS
<1>3. Append(s, m)[Len(s) + 1] = m
  OBVIOUS
<1>4. DOMAIN Append(s, m) = 1 .. Len(s) + 1 /\ DOMAIN s = 1 .. Len(s)
  BY <1>1
<1>5. ASSUME NEW i \in 1 .. Len(s) + 1 PROVE Append(s, m)[i] \in ToSet(s) \union {m}
  <2>1. CASE i = Len(s) + 1
    BY <1>3, <2>1
  <2>2. CASE i # Len(s) + 1
    BY <1>2, <1>4, <2>2 DEF ToSet
  <2> QED BY <2>1, <2>2
<1>6. ToSet(s) \subseteq ToSet(Append(s, m)) /\ m \in ToSet(Append(s, m))
  BY <1>2, <1>3, <1>4 DEF ToSet
<1>7. ToSet(Append(s, m)) \subseteq ToSet(s) \union {m}
  BY <1>4, <1>5 DEF ToSet
<1> QED BY <1>1, <1>6, <1>7

LEMMA ReceiveHolds ==
  ASSUME NEW s \in Seq(Msgs), s # <<>>
  PROVE  /\ Head(s) \in Msgs /\ Tail(s) \in Seq(Msgs)
         /\ Len(Tail(s)) = Len(s) - 1
         /\ ToSet(s) \subseteq ToSet(Tail(s)) \union {Head(s)}
<1>1. /\ Head(s) \in Msgs /\ Tail(s) \in Seq(Msgs) /\ Len(Tail(s)) = Len(s) - 1
  OBVIOUS
<1>2. ASSUME NEW i \in 1 .. Len(s), i # 1
      PROVE  i - 1 \in 1 .. Len(Tail(s)) /\ Tail(s)[i - 1] = s[i]
  BY <1>1, <1>2
<1>3. ASSUME NEW x \in ToSet(s), x # Head(s) PROVE x \in ToSet(Tail(s))
  <2>1. PICK i \in 1 .. Len(s) : s[i] = x
    BY <1>3 DEF ToSet
  <2>2. i # 1
    BY <1>3, <2>1
  <2>3. i - 1 \in DOMAIN Tail(s) /\ Tail(s)[i - 1] = x
    BY <1>1, <1>2, <2>1, <2>2
  <2> QED BY <2>3 DEF ToSet
<1> QED BY <1>1, <1>3

LEMMA SubmitSendKeeps == ASSUME Inv, SubmitSend PROVE Inv'
<1>1. CASE panicked' = TRUE /\ UNCHANGED <<tasks, loop>>
  <2>1. panicked' \in BOOLEAN
    BY <1>1, Zenon
  <2>2. TypeOK' /\ Carries'
    BY <1>1, <2>1 DEF SubmitSend, Inv, TypeOK, Carries
  <2>3. WaitGroupCounts' /\ NothingDropped'
    BY <1>1 DEF SubmitSend, Inv, WaitGroupCounts, Busy, NothingDropped, InFlight
  <2> QED BY <2>2, <2>3 DEF Inv
<1>2. CASE /\ Len(tasks) < Capacity
           /\ tasks' = Append(tasks, msg)
           /\ loop' = "commit"
           /\ UNCHANGED panicked
  <2>1. tasks \in Seq(Msgs) /\ msg \in Msgs /\ Len(tasks) \in Nat
    BY DEF SubmitSend, Inv, TypeOK, Carries
  <2>2. /\ tasks' \in Seq(Msgs) /\ Len(tasks') = Len(tasks) + 1
        /\ ToSet(tasks') = ToSet(tasks) \union {msg}
    BY <1>2, <2>1, SendHolds
  <2>3. TypeOK'
    BY <1>2, <2>1, <2>2, Counting DEF SubmitSend, Capacity, Inv, TypeOK
  <2>4. Carries'
    BY <2>1 DEF SubmitSend, Carries
  <2>5. WaitGroupCounts'
    <3>1. Busy' = Busy /\ Cardinality(Busy) \in Nat
      BY Counting DEF SubmitSend, Busy
    <3> QED BY <1>2, <2>1, <2>2, <3>1 DEF SubmitSend, Inv, WaitGroupCounts
  <2>6. NothingDropped'
    BY <1>2, <2>2 DEF SubmitSend, Inv, NothingDropped, InFlight
  <2> QED BY <2>3, <2>4, <2>5, <2>6 DEF Inv
<1> QED BY <1>1, <1>2 DEF SubmitSend, BlockWhenFull

(*************************** The workers ***********************************)

LEMMA TakeKeeps == ASSUME NEW w \in Workers, Inv, Take(w) PROVE Inv'
<1>1. tasks \in Seq(Msgs) /\ tasks # <<>> /\ work[w] = 0
  BY DEF Take, Inv, TypeOK
<1>2. /\ tasks' = Tail(tasks) /\ work' = [work EXCEPT ![w] = Head(tasks)]
      /\ UNCHANGED <<position, loop, msg, wg, handled, first>>
  BY DEF Take, Taken
<1>3. /\ Head(tasks) \in Msgs /\ tasks' \in Seq(Msgs)
      /\ Len(tasks') = Len(tasks) - 1 /\ Len(tasks) \in Nat
      /\ ToSet(tasks) \subseteq ToSet(tasks') \union {Head(tasks)}
  BY <1>1, <1>2, ReceiveHolds
<1>4. Head(tasks) \in 1 .. MaxMsgs
  BY <1>3 DEF Msgs
<1>5. TypeOK'
  BY <1>2, <1>3, <1>4, Counting DEF Take, Inv, TypeOK
<1>6. Carries'
  BY <1>2 DEF Inv, Carries
<1>7. WaitGroupCounts'
  <2>1. Busy' = Busy \union {w} /\ w \notin Busy
    BY <1>1, <1>2, <1>4 DEF Busy, Inv, TypeOK
  <2>2. Cardinality(Busy') = Cardinality(Busy) + 1
    BY <2>1, Counting, FS_AddElement
  <2> QED BY <1>2, <1>3, <2>2, Counting DEF Inv, WaitGroupCounts
<1>8. NothingDropped'
  <2>1. ASSUME NEW m \in first .. position - 1 PROVE m \in (handled \union InFlight)'
    <3>1. m \in handled \union InFlight /\ m # 0
      BY <2>1 DEF Inv, NothingDropped, TypeOK
    <3>2. CASE m \in ToSet(tasks)
      <4>1. m \in ToSet(tasks') \/ m = work'[w]
        BY <1>2, <1>3, <3>2 DEF Inv, TypeOK
      <4> QED BY <4>1 DEF InFlight
    <3>3. CASE \E v \in Workers : m = work[v]
      <4>1. PICK v \in Workers : m = work[v]
        BY <3>3
      <4>2. work'[v] = m
        BY <1>1, <1>2, <3>1, <4>1 DEF Inv, TypeOK
      <4> QED BY <4>2 DEF InFlight
    <3>4. CASE m \in handled \/ (loop \in {"add", "send"} /\ m = msg)
      BY <1>2, <3>4 DEF InFlight
    <3> QED BY <3>1, <3>2, <3>3, <3>4 DEF InFlight
  <2> QED BY <1>2, <2>1 DEF NothingDropped
<1> QED BY <1>5, <1>6, <1>7, <1>8 DEF Inv

LEMMA HandleKeeps == ASSUME NEW w \in Workers, Inv, Handle(w) PROVE Inv'
<1>1. /\ work[w] # 0 /\ work[w] \in 1 .. MaxMsgs
      /\ work' = [work EXCEPT ![w] = 0] /\ wg' = wg - 1
      /\ handled' = handled \union {work[w]}
      /\ UNCHANGED <<position, loop, msg, tasks, first>>
  BY DEF Handle, Done, Inv, TypeOK
<1>2. Busy' = Busy \ {w} /\ w \in Busy
  BY <1>1 DEF Busy, Inv, TypeOK
<1>3. /\ Cardinality(Busy') = Cardinality(Busy) - 1
      /\ Cardinality(Busy') \in Nat
  <2>1. IsFiniteSet(Busy \ {w}) /\ Cardinality(Busy \ {w}) = Cardinality(Busy) - 1
    BY <1>2, Counting, FS_RemoveElement
  <2> QED BY <1>2, <2>1, FS_CardinalityType
<1>4. Len(tasks) \in Nat /\ Cardinality(Busy) \in Nat
  BY Counting DEF Inv, TypeOK
<1>5. WaitGroupCounts' /\ wg' \in Nat
  BY <1>1, <1>3, <1>4 DEF Inv, WaitGroupCounts
<1>6. TypeOK'
  <2>1. handled' \subseteq Msgs
    BY <1>1 DEF Inv, TypeOK, Msgs
  <2>2. work' \in [Workers -> 0 .. MaxMsgs]
    BY <1>1 DEF Inv, TypeOK
  <2> QED BY <1>1, <1>5, <2>1, <2>2 DEF Handle, Inv, TypeOK
<1>7. Carries'
  BY <1>1 DEF Inv, Carries
<1>8. NothingDropped'
  <2>1. ASSUME NEW m \in first .. position - 1 PROVE m \in (handled \union InFlight)'
    <3>1. m \in handled \union InFlight
      BY <2>1 DEF Inv, NothingDropped
    <3>2. CASE \E v \in Workers : m = work[v]
      <4>1. PICK v \in Workers : m = work[v]
        BY <3>2
      <4>2. CASE v = w
        BY <1>1, <4>1, <4>2
      <4>3. CASE v # w
        <5>1. work'[v] = m
          BY <1>1, <4>1, <4>3 DEF Inv, TypeOK
        <5> QED BY <5>1 DEF InFlight
      <4> QED BY <4>2, <4>3
    <3>3. CASE \/ m \in handled \/ m \in ToSet(tasks)
               \/ loop \in {"add", "send"} /\ m = msg
      BY <1>1, <3>3 DEF InFlight
    <3> QED BY <3>1, <3>2, <3>3 DEF InFlight
  <2> QED BY <1>1, <2>1 DEF NothingDropped
<1> QED BY <1>5, <1>6, <1>7, <1>8 DEF Inv

(*************************** A new process *********************************)

LEMMA RestartKeeps == ASSUME Inv, Restart PROVE Inv'
<1>1. stopping' \in BOOLEAN /\ panicked' \in BOOLEAN /\ closed' \in BOOLEAN
  BY Zenon DEF Restart
<1>2. faults' \in 0 .. MaxFaults /\ lost' \subseteq Msgs
  <2>1. faults' \in 0 .. MaxFaults
    BY DEF Restart, Fault, Inv, TypeOK
  <2>2. first .. committed \subseteq Msgs
    BY DEF Inv, TypeOK, Msgs
  <2>3. lost' \subseteq Msgs
    BY <2>2 DEF Restart, Inv, TypeOK
  <2> QED BY <2>1, <2>3
<1>3. TypeOK'
  BY <1>1, <1>2, Counting DEF Restart, Inv, TypeOK
<1>4. Busy' = {}
  BY DEF Restart, Busy
<1>5. WaitGroupCounts'
  BY <1>4, FS_EmptySet DEF Restart, WaitGroupCounts
<1>6. Carries' /\ NothingDropped'
  BY DEF Restart, Carries, NothingDropped, Inv, TypeOK
<1> QED BY <1>3, <1>5, <1>6 DEF Inv

LEMMA StutterKeeps == ASSUME Inv, UNCHANGED vars PROVE Inv'
BY DEF vars, Inv, TypeOK, Carries, WaitGroupCounts, Busy, NothingDropped, InFlight

LEMMA NextKeeps == Inv /\ [Next]_vars => Inv'
BY FetchKeeps, FetchFailsKeeps, SubmitAddKeeps, SubmitSendKeeps, CommitKeeps,
   TakeKeeps, HandleKeeps, CloserKeeps, RestartKeeps, StutterKeeps
   DEF Next, LoopStep

LEMMA Invariant == Spec => []Inv
<1>1. Init => Inv
  BY Initial
<1>2. Inv /\ [Next]_vars => Inv'
  BY NextKeeps
<1> QED BY <1>1, <1>2, PTL DEF Spec

(*************************** Order and bounds ******************************)

\* What the next message that enters the channel is at least.
Frontier == IF loop \in {"add", "send"} THEN msg ELSE position

\* The commit trails the fetch.
Offsets ==
  /\ committed < position
  /\ loop \in {"add", "send", "commit"} => msg + 1 = position
  /\ loop \in {"add", "send"} => committed < msg

\* Messages enter and leave the channel in topic order: all that were taken
\* come before all that wait, and these before the one the loop carries.
Ordered ==
  /\ \A m \in handled : m < Frontier
  /\ \A w \in Workers : work[w] < Frontier
  /\ \A i \in 1 .. Len(tasks) :
       /\ tasks[i] < Frontier
       /\ \A m \in handled : m < tasks[i]
       /\ \A w \in Workers : work[w] < tasks[i]
       /\ \A j \in 1 .. i - 1 : tasks[j] < tasks[i]

\* The worker that broadcast m is free or has gone on to a later message.
Passed ==
  \A m \in handled : \E w \in Workers : work[w] = 0 \/ m < work[w]

OrderInv == Offsets /\ Ordered /\ Passed

\* The messages that the loop has in hand are the only ones that move.
LEMMA LoopOrder ==
  ASSUME Inv, OrderInv, Fetch \/ FetchFails \/ SubmitAdd \/ Commit PROVE OrderInv'
<1> USE DEF Inv, TypeOK, OrderInv
<1>1. UNCHANGED <<tasks, work, handled>>
  BY DEF Fetch, FetchFails, SubmitAdd, Commit, pool
<1>2. Frontier' = Frontier /\ Offsets'
  <2> USE DEF pool, Frontier, Offsets
  <2>1. CASE Fetch \/ FetchFails
    BY <2>1 DEF Fetch, FetchFails
  <2>2. CASE SubmitAdd \/ Commit
    BY <2>2 DEF SubmitAdd, Commit
  <2> QED BY <2>1, <2>2
<1> QED BY <1>1, <1>2 DEF Ordered, Passed

LEMMA SubmitSendOrder == ASSUME Inv, OrderInv, SubmitSend PROVE OrderInv'
<1> USE DEF OrderInv
<1>1. UNCHANGED <<position, committed, msg, work, handled>> /\ loop = "send"
  BY DEF SubmitSend
<1>2. tasks \in Seq(Msgs) /\ msg \in Msgs /\ msg < position /\ msg \in Nat
  BY <1>1 DEF Inv, TypeOK, Carries, Offsets, Msgs
<1>3. CASE UNCHANGED <<tasks, loop>>
  BY <1>1, <1>3 DEF Offsets, Ordered, Frontier, Passed
<1>4. CASE tasks' = Append(tasks, msg) /\ loop' = "commit"
  <2>1. Len(tasks') = Len(tasks) + 1 /\ Len(tasks) \in Nat
        /\ tasks'[Len(tasks) + 1] = msg
        /\ \A i \in 1 .. Len(tasks) : tasks'[i] = tasks[i] /\ tasks[i] \in Nat
    BY <1>2, <1>4 DEF Msgs
  <2>2. Frontier = msg /\ Frontier' = position
    BY <1>1, <1>4 DEF Frontier
  <2>3. Ordered'
    <3>1. \A m \in handled : m < position /\ m \in Nat
      BY <1>2, <2>2 DEF Ordered, Inv, TypeOK, Msgs
    <3>2. \A w \in Workers : work[w] < position /\ work[w] \in Nat
      BY <1>2, <2>2 DEF Ordered, Inv, TypeOK
    <3>3. ASSUME NEW i \in 1 .. Len(tasks) + 1
          PROVE  /\ tasks'[i] < position
                 /\ \A m \in handled : m < tasks'[i]
                 /\ \A w \in Workers : work[w] < tasks'[i]
                 /\ \A j \in 1 .. i - 1 : tasks'[j] < tasks'[i]
      <4>1. CASE i = Len(tasks) + 1
        BY <1>2, <2>1, <2>2, <4>1 DEF Ordered
      <4>2. CASE i # Len(tasks) + 1
        <5>1. i \in 1 .. Len(tasks) /\ \A j \in 1 .. i - 1 : j \in 1 .. Len(tasks)
          BY <2>1, <4>2
        <5>2. tasks[i] < position
          BY <1>2, <2>1, <2>2, <5>1 DEF Ordered, Inv, TypeOK
        <5> QED BY <2>1, <5>1, <5>2 DEF Ordered
      <4> QED BY <4>1, <4>2
    <3> QED BY <1>1, <2>1, <2>2, <3>1, <3>2, <3>3 DEF Ordered
  <2> QED BY <1>1, <1>4, <2>3 DEF Offsets, Passed
<1> QED BY <1>3, <1>4 DEF SubmitSend, BlockWhenFull

\* A worker takes the earliest message that waits, later than all before it.
LEMMA TakeOrder == ASSUME NEW w \in Workers, Inv, OrderInv, Take(w) PROVE OrderInv'
<1> USE DEF OrderInv
<1>1. /\ UNCHANGED <<position, committed, loop, msg, handled>>
      /\ tasks' = Tail(tasks) /\ work' = [work EXCEPT ![w] = Head(tasks)]
  BY DEF Take, Taken
<1>2. /\ tasks \in Seq(Msgs) /\ tasks # <<>> /\ Head(tasks) = tasks[1]
      /\ Len(tasks) \in Nat /\ 1 \in 1 .. Len(tasks) /\ Len(tasks') = Len(tasks) - 1
      /\ \A i \in 1 .. Len(tasks') : tasks'[i] = tasks[i + 1] /\ i + 1 \in 1 .. Len(tasks)
  BY <1>1 DEF Take, Inv, TypeOK
<1>3. work'[w] = tasks[1] /\ \A v \in Workers \ {w} : work'[v] = work[v]
  BY <1>1, <1>2 DEF Inv, TypeOK
<1>4. Frontier' = Frontier /\ Offsets'
  BY <1>1 DEF Frontier, Offsets
<1>5. Ordered'
  <2>1. ASSUME NEW i \in 1 .. Len(tasks')
        PROVE  /\ tasks'[i] < Frontier
               /\ \A m \in handled : m < tasks'[i]
               /\ \A v \in Workers : work'[v] < tasks'[i]
               /\ \A j \in 1 .. i - 1 : tasks'[j] < tasks'[i]
    <3>1. i + 1 \in 1 .. Len(tasks) /\ tasks'[i] = tasks[i + 1]
          /\ 1 \in 1 .. (i + 1) - 1
      BY <1>2
    <3>2. \A j \in 1 .. i - 1 : tasks'[j] = tasks[j + 1] /\ j + 1 \in 1 .. (i + 1) - 1
      BY <1>2
    <3> QED BY <1>3, <3>1, <3>2 DEF Ordered
  <2>2. \A v \in Workers : work'[v] < Frontier
    BY <1>2, <1>3 DEF Ordered
  <2> QED BY <1>1, <1>4, <2>1, <2>2 DEF Ordered
<1>6. Passed'
  BY <1>1, <1>2, <1>3 DEF Ordered, Passed
<1> QED BY <1>4, <1>5, <1>6

LEMMA HandleOrder == ASSUME NEW w \in Workers, Inv, OrderInv, Handle(w) PROVE OrderInv'
<1> USE DEF OrderInv
<1>1. /\ UNCHANGED <<position, committed, loop, msg, tasks>>
      /\ work[w] # 0 /\ work' = [work EXCEPT ![w] = 0]
      /\ handled' = handled \union {work[w]}
  BY DEF Handle
<1>2. work'[w] = 0 /\ \A v \in Workers \ {w} : work'[v] = work[v]
  BY <1>1 DEF Inv, TypeOK
<1>3. Frontier' = Frontier /\ Offsets' /\ Frontier > 0
  BY <1>1 DEF Frontier, Offsets, Ordered, Inv, TypeOK, Carries, Msgs
<1>4. Ordered'
  <2>1. \A i \in 1 .. Len(tasks) : 0 < tasks[i]
    BY DEF Inv, TypeOK, Msgs
  <2> QED BY <1>1, <1>2, <1>3, <2>1 DEF Ordered
<1>5. Passed'
  BY <1>1, <1>2 DEF Passed
<1> QED BY <1>3, <1>4, <1>5

LEMMA RestartOrder == ASSUME Inv, OrderInv, Restart PROVE OrderInv'
<1>1. /\ committed' = committed /\ committed \in Nat /\ position' = committed + 1
      /\ loop' = "fetch" /\ tasks' = <<>> /\ handled' = {}
      /\ \A w \in Workers : work'[w] = 0
  BY DEF Restart, Inv, TypeOK
<1> QED BY <1>1 DEF OrderInv, Offsets, Ordered, Frontier, Passed

LEMMA NextOrder == Inv /\ OrderInv /\ [Next]_vars => OrderInv'
<1> SUFFICES ASSUME Inv, OrderInv, [Next]_vars PROVE OrderInv'
  OBVIOUS
<1>1. CASE Signal \/ CloseStarts \/ CloserStep \/ UNCHANGED vars
  <2>1. UNCHANGED <<position, committed, loop, msg, tasks, work, handled>>
    BY <1>1 DEF Signal, CloseStarts, CloserStep, WaitReturns, CloseTasks,
       CloseReader, CloserGoes, pool, vars
  <2> QED BY <2>1 DEF OrderInv, Offsets, Ordered, Frontier, Passed
<1> QED BY <1>1, LoopOrder, SubmitSendOrder, TakeOrder, HandleOrder, RestartOrder
        DEF Next, LoopStep

LEMMA OrderInvariant == Spec => [](Inv /\ OrderInv)
<1>1. Init => OrderInv
  BY DEF Init, OrderInv, Offsets, Ordered, Frontier, Passed
<1> QED BY <1>1, Initial, NextKeeps, NextOrder, PTL DEF Spec

\* A set that a finite set is mapped onto is no larger.
LEMMA ImageBound ==
  ASSUME NEW S, IsFiniteSet(S), NEW f, NEW T, \A y \in T : \E x \in S : f[x] = y
  PROVE  IsFiniteSet(T) /\ Cardinality(T) <= Cardinality(S)
<1> DEFINE U == {f[x] : x \in S}
           g == [x \in S |-> f[x]]
<1>1. g \in Surjection(S, U)
  BY DEF Surjection
<1>2. IsFiniteSet(U) /\ Cardinality(U) <= Cardinality(S)
  BY <1>1, FS_Surjection
<1>3. T \subseteq U
  OBVIOUS
<1>4. IsFiniteSet(T) /\ Cardinality(T) <= Cardinality(U)
  BY <1>2, <1>3, FS_Subset
<1> HIDE DEF U
<1> QED BY <1>2, <1>4, FS_CardinalityType

\* A message that is fetched, not broadcast and not in the loop's hands is in
\* the channel or with a worker.
LEMMA Waiting ==
  ASSUME Inv, OrderInv, NEW k \in first .. position - 1, k \notin handled,
         k < Frontier
  PROVE  k \in ToSet(tasks) \/ \E w \in Workers : work[w] = k
BY DEF Inv, NothingDropped, InFlight, OrderInv, Frontier, TypeOK

(*************************** Theorems **************************************)

\* The variables keep their types: the channel never holds more than twice the
\* workers, and the WaitGroup's counter never goes below zero, which would
\* panic.
THEOREM ConsumerTypes == Spec => []TypeOK
<1>1. Inv => TypeOK
  BY DEF Inv
<1> QED BY <1>1, Invariant, PTL

\* The WaitGroup counts exactly the tasks that are submitted and not finished,
\* so Shutdown's Wait returns only when the pool is empty.
THEOREM CountExact == Spec => []WaitGroupCounts
<1>1. Inv => WaitGroupCounts
  BY DEF Inv
<1> QED BY <1>1, Invariant, PTL

\* A message that this process fetched has been broadcast or is on its way to a
\* worker, whatever the sizes of pool and topic.
THEOREM NoneDropped == Spec => []NothingDropped
<1>1. Inv => NothingDropped
  BY DEF Inv
<1> QED BY <1>1, Invariant, PTL

\* A crash loses at most what the channel and the workers can hold: the
\* messages committed and not yet broadcast all sit there.
THEOREM LossIsBounded == Spec => []LossBounded
<1>1. Inv /\ OrderInv => LossBounded
  <2> SUFFICES ASSUME Inv, OrderInv PROVE LossBounded
    OBVIOUS
  <2> DEFINE L == {m \in first .. committed : m \notin handled}
             A == {m \in L : m \in ToSet(tasks)}
             B == {m \in L : \E w \in Workers : work[w] = m}
  <2>1. L = A \union B
    <3>1. ASSUME NEW m \in L PROVE m \in first .. position - 1 /\ m < Frontier
      BY DEF OrderInv, Offsets, Frontier, Inv, TypeOK
    <3> QED BY <3>1, Waiting
  <2>2. tasks \in Seq(Msgs) /\ Len(tasks) \in Nat /\ Len(tasks) <= Capacity
    BY DEF Inv, TypeOK, Capacity
  <2>3. IsFiniteSet(1 .. Len(tasks)) /\ Cardinality(1 .. Len(tasks)) = Len(tasks)
    <3>1. 1 \in Int /\ Len(tasks) \in Int /\ Len(tasks) - 1 + 1 = Len(tasks)
      BY <2>2
    <3> QED BY <2>2, <3>1, FS_Interval
  <2>4. \A y \in A : \E i \in 1 .. Len(tasks) : tasks[i] = y
    BY <2>2 DEF ToSet
  <2>5. \A y \in B : \E w \in Workers : work[w] = y
    OBVIOUS
  <2> HIDE DEF L, A, B
  <2>6. IsFiniteSet(A) /\ Cardinality(A) <= Len(tasks)
    BY <2>3, <2>4, ImageBound
  <2>7. IsFiniteSet(B) /\ Cardinality(B) <= N
    BY <2>5, ImageBound DEF N
  <2>8. IsFiniteSet(A \cap B)
    BY <2>6, FS_Subset
  <2>9. Cardinality(A \union B)
          = Cardinality(A) + Cardinality(B) - Cardinality(A \cap B)
    BY <2>6, <2>7, FS_Union
  <2>10. /\ Cardinality(A) \in Nat /\ Cardinality(B) \in Nat
         /\ Cardinality(A \cap B) \in Nat /\ N \in Nat
    BY <2>6, <2>7, <2>8, FS_CardinalityType, Counting
  <2>11. Cardinality(L) <= Capacity + N
    BY <2>1, <2>2, <2>6, <2>7, <2>9, <2>10 DEF Capacity
  <2> QED BY <2>11 DEF LossBounded, L
<1> QED BY <1>1, OrderInvariant, PTL

\* Events reach the hub almost in order: each other worker can hold back one
\* earlier message and no more, whatever the number of workers.
THEOREM OvertakingBounded == Spec => []OvertakenBounded
<1>1. Inv /\ OrderInv => OvertakenBounded
  <2> SUFFICES ASSUME Inv, OrderInv, NEW m \in handled
               PROVE  Cardinality({k \in first .. m - 1 : k \notin handled}) <= N - 1
    BY DEF OvertakenBounded
  <2> DEFINE K == {k \in first .. m - 1 : k \notin handled}
  <2>1. PICK v \in Workers : work[v] = 0 \/ m < work[v]
    BY DEF OrderInv, Passed
  <2>2. m \in Nat /\ m < Frontier /\ Frontier <= position /\ Frontier \in Nat
        /\ first \in Nat /\ first >= 1 /\ position \in Nat
    BY DEF OrderInv, Ordered, Frontier, Offsets, Inv, TypeOK, Msgs
  <2>3. ASSUME NEW k \in K PROVE \E w \in Workers \ {v} : work[w] = k
    <3>1. k \in first .. position - 1 /\ k < Frontier /\ k < m /\ k # 0
          /\ k \notin handled
      BY <2>2
    <3>2. k \notin ToSet(tasks)
      <4> SUFFICES ASSUME k \in ToSet(tasks) PROVE FALSE
        OBVIOUS
      <4>1. PICK i \in 1 .. Len(tasks) : tasks[i] = k
        BY DEF ToSet, Inv, TypeOK
      <4>2. m < k
        BY <4>1 DEF OrderInv, Ordered
      <4> QED BY <2>2, <3>1, <4>2
    <3>3. PICK w \in Workers : work[w] = k
      BY <3>1, <3>2, Waiting
    <3>4. w # v
      BY <2>1, <2>2, <3>1, <3>3
    <3> QED BY <3>3, <3>4
  <2> HIDE DEF K
  <2>4. IsFiniteSet(Workers \ {v}) /\ Cardinality(Workers \ {v}) = N - 1
    BY FS_RemoveElement DEF N
  <2>5. Cardinality(K) <= N - 1
    BY <2>3, <2>4, ImageBound
  <2> QED BY <2>5 DEF K
<1> QED BY <1>1, OrderInvariant, PTL
====
