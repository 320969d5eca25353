---- MODULE AuditConsumer ----
(***************************************************************************)
(* The gateway's Kafka consumer: pkg/kafka's AuditConsumer, whose loop     *)
(* fetches a message, submits it and commits its offset, and               *)
(* pkg/concurrency's WorkerPool, whose workers broadcast what was          *)
(* submitted.  The topic holds messages 1 .. MaxMsgs; the reader and the   *)
(* consumer group's offset are external.                                   *)
(*                                                                         *)
(* The handler broadcasts to the SSE hub, which never blocks, so handling  *)
(* a task is one step together with the wg.Done that follows it.           *)
(***************************************************************************)
EXTENDS Naturals, Sequences, FiniteSets, SequencesExt

CONSTANTS Workers,    \* the pool's goroutines (2 in the gateway)
          MaxMsgs,    \* bound: messages in the topic
          MaxFaults   \* bound: failed calls and restarts

VARIABLES
  position,           \* reader: the next message FetchMessage returns
  committed,          \* consumer group: the messages up to it are done with
  loop, msg,          \* the goroutine of Start: where it is, its message m
  wg, tasks, closed,  \* the pool: WaitGroup counter, channel, channel closed
  work,               \* work[w]: the task worker w handles, 0 for none
  stopping,           \* the context is cancelled (SIGINT or SIGTERM)
  closer,             \* where the goroutine that calls Close is
  panicked,           \* a send on the closed channel killed the process
  handled,            \* messages broadcast by this process
  first, lost,        \* history: this process's first message; messages
                      \* committed but not broadcast when a process ended
  faults

pool == <<wg, tasks, closed, work>>
vars == <<position, committed, loop, msg, wg, tasks, closed, work, stopping,
          closer, panicked, handled, first, lost, faults>>

Msgs == 1 .. MaxMsgs
N == Cardinality(Workers)

ASSUME ConsumerAssumption ==
  /\ IsFiniteSet(Workers) /\ Workers # {}
  /\ MaxMsgs \in Nat /\ MaxFaults \in Nat

Init ==
  /\ position = 1 /\ committed = 0
  /\ loop = "fetch" /\ msg = 0
  /\ wg = 0 /\ tasks = <<>> /\ closed = FALSE
  /\ work = [w \in Workers |-> 0]
  /\ stopping = FALSE /\ closer = "before" /\ panicked = FALSE
  /\ handled = {} /\ first = 1 /\ lost = {} /\ faults = 0

Alive == ~panicked
Fault == faults < MaxFaults /\ faults' = faults + 1
ReaderClosed == closer = "closed"

(*************************** The loop of Start *****************************)

Fetch ==
  /\ Alive /\ loop = "fetch" /\ ~ReaderClosed
  /\ position <= MaxMsgs
  /\ msg' = position /\ position' = position + 1
  /\ loop' = "add"
  /\ UNCHANGED <<committed, pool, stopping, closer, panicked, handled, first,
                 lost, faults>>

\* The context is done, the reader closed, or the broker failed for longer than
\* the reader retries: FetchMessage returns an error and the goroutine ends.
FetchFails ==
  /\ Alive /\ loop = "fetch"
  /\ \/ (stopping \/ ReaderClosed) /\ UNCHANGED faults
     \/ Fault
  /\ loop' = "ended"
  /\ UNCHANGED <<position, committed, msg, pool, stopping, closer, panicked,
                 handled, first, lost>>

\* Submit: wg.Add(1), then the send, which blocks while the channel is full and
\* panics once it is closed.
SubmitAdd ==
  /\ Alive /\ loop = "add"
  /\ wg' = wg + 1
  /\ loop' = "send"
  /\ UNCHANGED <<position, committed, msg, tasks, closed, work, stopping, closer,
                 panicked, handled, first, lost, faults>>

Capacity == 2 * N

DropWhenFull ==
  /\ tasks' = IF Len(tasks) < Capacity THEN Append(tasks, msg) ELSE tasks
  /\ loop' = "commit"
  /\ UNCHANGED panicked
BlockWhenFull ==
  \/ /\ closed
     /\ panicked' = TRUE /\ UNCHANGED <<tasks, loop>>
  \/ /\ ~closed /\ Len(tasks) < Capacity
     /\ tasks' = Append(tasks, msg)
     /\ loop' = "commit"
     /\ UNCHANGED panicked

SubmitSend ==
  /\ Alive /\ loop = "send"
  /\ BlockWhenFull
  /\ UNCHANGED <<position, committed, msg, wg, closed, work, stopping, closer,
                 handled, first, lost, faults>>

\* CommitMessages, whose error is dropped: the offset moves or does not.
Commit ==
  /\ Alive /\ loop = "commit"
  /\ \/ committed' = msg /\ UNCHANGED faults
     \/ (stopping \/ ReaderClosed) /\ UNCHANGED <<committed, faults>>
     \/ Fault /\ UNCHANGED committed
  /\ loop' = "fetch"
  /\ UNCHANGED <<position, msg, pool, stopping, closer, panicked, handled, first,
                 lost>>

(*************************** The workers ***********************************)

\* The task a receive from the channel gives, and what stays in the channel.
TakenLast == <<tasks[Len(tasks)], SubSeq(tasks, 1, Len(tasks) - 1)>>
Taken == <<Head(tasks), Tail(tasks)>>

Take(w) ==
  /\ Alive /\ work[w] = 0 /\ tasks # <<>>
  /\ work' = [work EXCEPT ![w] = Taken[1]]
  /\ tasks' = Taken[2]
  /\ UNCHANGED <<position, committed, loop, msg, wg, closed, stopping, closer,
                 panicked, handled, first, lost, faults>>

\* The wg.Done that follows the handler.
DoneForgotten == wg' = wg
Done == wg' = wg - 1

Handle(w) ==
  /\ Alive /\ work[w] # 0
  /\ handled' = handled \union {work[w]}
  /\ work' = [work EXCEPT ![w] = 0]
  /\ Done
  /\ UNCHANGED <<position, committed, loop, msg, tasks, closed, stopping, closer,
                 panicked, first, lost, faults>>

(*************************** Shutdown **************************************)

Signal ==
  /\ Alive /\ ~stopping
  /\ stopping' = TRUE
  /\ UNCHANGED <<position, committed, loop, msg, pool, closer, panicked, handled,
                 first, lost, faults>>

CloserGoes(from, to) ==
  /\ Alive /\ closer = from
  /\ closer' = to
  /\ UNCHANGED <<position, committed, loop, msg, wg, tasks, work, stopping,
                 panicked, handled, first, lost, faults>>

\* consumer.Close after the HTTP server's Shutdown: wg.Wait, close(p.tasks),
\* reader.Close.
CloseStarts == stopping /\ CloserGoes("before", "wait") /\ UNCHANGED closed
WaitReturns == wg = 0 /\ CloserGoes("wait", "close") /\ UNCHANGED closed
CloseTasks == CloserGoes("close", "reader") /\ closed' = TRUE
CloseReader == CloserGoes("reader", "closed") /\ UNCHANGED closed

\* The process ends, by a crash, a panic or at the end of main, and a new one
\* starts from the committed offset.
Restart ==
  /\ Fault
  /\ lost' = lost \union {m \in first .. committed : m \notin handled}
  /\ position' = committed + 1 /\ first' = committed + 1
  /\ loop' = "fetch" /\ msg' = 0
  /\ wg' = 0 /\ tasks' = <<>> /\ closed' = FALSE
  /\ work' = [w \in Workers |-> 0]
  /\ stopping' = FALSE /\ closer' = "before" /\ panicked' = FALSE
  /\ handled' = {}
  /\ UNCHANGED committed

LoopStep == Fetch \/ SubmitAdd \/ SubmitSend \/ Commit
CloserStep == WaitReturns \/ CloseTasks \/ CloseReader

Next ==
  \/ LoopStep \/ FetchFails
  \/ \E w \in Workers : Take(w) \/ Handle(w)
  \/ Signal \/ CloseStarts \/ CloserStep
  \/ Restart

Spec == Init /\ [][Next]_vars

\* Goroutines that can run are scheduled.  No signal, failure or restart is
\* promised.
FairSpec ==
  /\ Spec
  /\ WF_vars(LoopStep) /\ WF_vars(CloserStep)
  /\ \A w \in Workers : WF_vars(Take(w) \/ Handle(w))

(***************************************************************************)
(*                             Properties                                  *)
(***************************************************************************)

\* Every variable has its type.
TypeOK ==
  /\ position \in 1 .. MaxMsgs + 1 /\ committed \in 0 .. MaxMsgs
  /\ loop \in {"fetch", "add", "send", "commit", "ended"} /\ msg \in 0 .. MaxMsgs
  /\ wg \in Nat /\ tasks \in Seq(Msgs) /\ Len(tasks) <= 2 * N /\ closed \in BOOLEAN
  /\ work \in [Workers -> 0 .. MaxMsgs]
  /\ stopping \in BOOLEAN /\ panicked \in BOOLEAN
  /\ closer \in {"before", "wait", "close", "reader", "closed"}
  /\ handled \subseteq Msgs /\ lost \subseteq Msgs
  /\ first \in 1 .. MaxMsgs + 1 /\ faults \in 0 .. MaxFaults

InFlight ==
  ToSet(tasks) \union {work[w] : w \in Workers}
    \union (IF loop \in {"add", "send"} THEN {msg} ELSE {})

\* A slow pool blocks the loop, it loses nothing: every message fetched by this
\* process is broadcast or on its way to a worker.
NothingDropped == \A m \in first .. position - 1 : m \in handled \union InFlight

Busy == {w \in Workers : work[w] # 0}

\* The WaitGroup counts the submitted tasks exactly, the one that still waits to
\* be sent included: when it is zero the pool is empty.
WaitGroupCounts ==
  wg = Len(tasks) + Cardinality(Busy) + (IF loop = "send" THEN 1 ELSE 0)

\* Offsets are committed before the message is handled, so a crash loses
\* messages; but never more than the channel and the workers can hold.
LossBounded ==
  Cardinality({m \in first .. committed : m \notin handled}) <= Capacity + N

\* Events reach the hub almost in order: when one has been broadcast, at most
\* one per other worker of the messages before it has not.
OvertakenBounded ==
  \A m \in handled :
    Cardinality({k \in first .. m - 1 : k \notin handled}) <= N - 1

\* Close does not hang: the WaitGroup drains and Shutdown gets through, unless
\* the process dies first.
CloseEnds == closer = "wait" ~> (closer \in {"closed", "before"} \/ panicked)

\* Until the loop ends, by a signal or by the first error of FetchMessage, every
\* message of the topic is broadcast, or was lost with a process that died.
BroadcastWhileConsuming ==
  \A m \in Msgs :
    <>(m \in handled \union lost \/ loop = "ended" \/ stopping \/ panicked)

\* pkg/concurrency on Shutdown: it "waits for tasks to complete and closes the
\* pool".  Once it has closed the pool nothing submitted is left, and no
\* submission runs into the closed channel.
ShutdownWaits == closer \in {"reader", "closed"} => wg = 0 /\ ~panicked
====
