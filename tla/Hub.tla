---- MODULE Hub ----
(***************************************************************************)
(* pkg/sse: the Hub, which hands every event to the channels of its        *)
(* clients under an RWMutex, and the /events handler, one goroutine per    *)
(* connection, which subscribes, streams its channel with a heartbeat and  *)
(* unsubscribes when its context is done.  The publishers are the pool's   *)
(* workers (AuditConsumer).  The HTTP server is external: it cancels the   *)
(* context when the client leaves or a write fails, and writes fail from   *)
(* WriteTimeout on.                                                        *)
(*                                                                         *)
(* A writer that called Lock keeps new readers out and enters once the     *)
(* readers have left, as sync.RWMutex does; what it does under the lock is *)
(* one step.  Publish holds the read lock over one step per client.        *)
(***************************************************************************)
EXTENDS Naturals, Sequences, FiniteSets, SequencesExt

CONSTANTS Conns,         \* connections to /events, each used once
          Publishers,    \* goroutines that call Publish
          None,
          Buffer,        \* capacity of a client's channel (10)
          Heartbeat,     \* period of the handler's ticker (30 s)
          WriteTimeout,  \* the server's write deadline (30 s)
          MaxEvents,     \* bound: events published
          MaxAge         \* bound: the age of a stream

VARIABLES
  clients,               \* the channels in h.clients, named by connection
  chan, closed,          \* a channel's content, and whether it is closed
  writer, readers,       \* the RWMutex: who called Lock, who holds RLock
  pub, event, todo,      \* Publish: where it is, its event, channels to go
  hpc,                   \* where a connection's handler is
  ctx,                   \* its context is done
  age, tick,             \* time since its request came, ticker has fired
  next,                  \* the next event
  accounted, cut         \* history: the events that began before a client
                         \* subscribed, were written to it, or were dropped
                         \* for its full channel; streams the server cut

lock == <<writer, readers>>
publishing == <<pub, event, todo, next>>
streaming == <<hpc, ctx, age, tick, cut>>
vars == <<clients, chan, closed, lock, publishing, streaming, accounted>>

ASSUME HubAssumption ==
  /\ IsFiniteSet(Conns) /\ None \notin Conns
  /\ Buffer \in Nat \ {0} /\ Heartbeat \in Nat \ {0} /\ WriteTimeout \in Nat
  /\ MaxEvents \in Nat /\ MaxAge \in Nat

Init ==
  /\ clients = {}
  /\ chan = [c \in Conns |-> <<>>] /\ closed = [c \in Conns |-> FALSE]
  /\ writer = None /\ readers = {}
  /\ pub = [p \in Publishers |-> "idle"] /\ event = [p \in Publishers |-> 0]
  /\ todo = [p \in Publishers |-> {}]
  /\ hpc = [c \in Conns |-> "new"] /\ ctx = [c \in Conns |-> FALSE]
  /\ age = [c \in Conns |-> 0] /\ tick = [c \in Conns |-> FALSE]
  /\ next = 1
  /\ accounted = [c \in Conns |-> {}]
  /\ cut = [c \in Conns |-> FALSE]

(*************************** Publish ***************************************)

Call(p) ==
  /\ pub[p] = "idle" /\ next <= MaxEvents
  /\ pub' = [pub EXCEPT ![p] = "rlock"]
  /\ event' = [event EXCEPT ![p] = next] /\ next' = next + 1
  /\ UNCHANGED <<clients, chan, closed, lock, todo, streaming, accounted>>

\* RLock and the start of the iteration over h.clients.
RLockEarly(p) == readers' = readers
RLockHeld(p) == readers' = readers \union {p}

RLock(p) ==
  /\ pub[p] = "rlock" /\ writer = None
  /\ RLockHeld(p)
  /\ todo' = [todo EXCEPT ![p] = clients]
  /\ pub' = [pub EXCEPT ![p] = "range"]
  /\ UNCHANGED <<clients, chan, closed, writer, event, next, streaming,
                 accounted>>

\* select { case ch <- event: default: }
OfferBlocking(p, c) ==
  /\ Len(chan[c]) < Buffer
  /\ chan' = [chan EXCEPT ![c] = Append(@, event[p])]
  /\ UNCHANGED accounted
Offer(p, c) ==
  \/ /\ Len(chan[c]) < Buffer
     /\ chan' = [chan EXCEPT ![c] = Append(@, event[p])]
     /\ UNCHANGED accounted
  \/ /\ Len(chan[c]) = Buffer
     /\ accounted' = [accounted EXCEPT ![c] = @ \union {event[p]}]
     /\ UNCHANGED chan

LeftAfterBreak(p, c) == IF Len(chan[c]) = Buffer THEN {} ELSE todo[p] \ {c}
Left(p, c) == todo[p] \ {c}

Send(p, c) ==
  /\ pub[p] = "range" /\ c \in todo[p]
  /\ Offer(p, c)
  /\ todo' = [todo EXCEPT ![p] = Left(p, c)]
  /\ UNCHANGED <<clients, closed, lock, pub, event, next, streaming>>

RUnlock(p) ==
  /\ pub[p] = "range" /\ todo[p] = {}
  /\ readers' = readers \ {p}
  /\ pub' = [pub EXCEPT ![p] = "idle"]
  /\ event' = [event EXCEPT ![p] = 0]
  /\ UNCHANGED <<clients, chan, closed, writer, todo, next, streaming,
                 accounted>>

(*************************** The handler ***********************************)

Goes(c, from, to) == hpc[c] = from /\ hpc' = [hpc EXCEPT ![c] = to]

Request(c) ==
  /\ Goes(c, "new", "subscribe")
  /\ UNCHANGED <<clients, chan, closed, lock, publishing, ctx, age, tick, cut,
                 accounted>>

\* h.mu.Lock in Subscribe and in Unsubscribe.
Lock(c) ==
  /\ writer = None
  /\ \/ Goes(c, "subscribe", "subscribing")
     \/ Goes(c, "unsubscribe", "unsubscribing")
  /\ writer' = c
  /\ UNCHANGED <<clients, chan, closed, readers, publishing, ctx, age, tick,
                 cut, accounted>>

Locked(c) == writer = c /\ readers = {}

Subscribe(c) ==
  /\ Locked(c) /\ Goes(c, "subscribing", "stream")
  /\ clients' = clients \union {c}
  /\ writer' = None
  /\ accounted' = [accounted EXCEPT ![c] = 1 .. next - 1]
  /\ UNCHANGED <<chan, closed, readers, publishing, ctx, age, tick, cut>>

\* The handler returns, and its request and its channel are gone.
Unsubscribe(c) ==
  /\ Locked(c) /\ Goes(c, "unsubscribing", "done")
  /\ clients' = clients \ {c}
  /\ closed' = [closed EXCEPT ![c] = closed[c] \/ c \in clients]
  /\ writer' = None
  /\ chan' = [chan EXCEPT ![c] = <<>>]
  /\ ctx' = [ctx EXCEPT ![c] = FALSE]
  /\ UNCHANGED <<readers, publishing, age, tick, cut, accounted>>

\* A write and its flush.  Past the deadline it fails, which cancels the context.
InTime(c) == age[c] < WriteTimeout

Wrote(c) ==
  /\ ctx' = [ctx EXCEPT ![c] = ctx[c] \/ ~InTime(c)]
  /\ cut' = [cut EXCEPT ![c] = cut[c] \/ (~ctx[c] /\ ~InTime(c))]

\* One round of the handler's select, which picks any case that is ready.
Ping(c) ==
  /\ hpc[c] = "stream" /\ tick[c]
  /\ tick' = [tick EXCEPT ![c] = FALSE]
  /\ Wrote(c)
  /\ UNCHANGED <<clients, chan, closed, lock, publishing, hpc, age,
                 accounted>>

Receive(c) ==
  /\ hpc[c] = "stream" /\ chan[c] # <<>>
  /\ chan' = [chan EXCEPT ![c] = Tail(@)]
  /\ accounted' = [accounted EXCEPT ![c] =
                     IF InTime(c) THEN @ \union {Head(chan[c])} ELSE @]
  /\ Wrote(c)
  /\ UNCHANGED <<clients, closed, lock, publishing, hpc, age, tick>>

\* The deferred calls: the ticker stops, then Unsubscribe.
Leave(c) ==
  /\ ctx[c] /\ Goes(c, "stream", "unsubscribe")
  /\ age' = [age EXCEPT ![c] = 0] /\ tick' = [tick EXCEPT ![c] = FALSE]
  /\ cut' = [cut EXCEPT ![c] = FALSE]
  /\ accounted' = [accounted EXCEPT ![c] = {}]
  /\ UNCHANGED <<clients, chan, closed, lock, publishing, ctx>>

(*************************** The environment *******************************)

ClientGoes(c) ==
  /\ hpc[c] \notin {"new", "done"} /\ ~ctx[c]
  /\ ctx' = [ctx EXCEPT ![c] = TRUE]
  /\ UNCHANGED <<clients, chan, closed, lock, publishing, hpc, age, tick, cut,
                 accounted>>

\* Time passes for a stream.  The ticker is created once the request is being
\* handled: it never fires before a full period since the deadline was set.
Tick(c) ==
  /\ hpc[c] = "stream" /\ age[c] < MaxAge
  /\ age' = [age EXCEPT ![c] = @ + 1]
  /\ tick' = [tick EXCEPT ![c] = @ \/ (age[c] + 1) % Heartbeat = 0]
  /\ UNCHANGED <<clients, chan, closed, lock, publishing, hpc, ctx, cut,
                 accounted>>

Publish(p) == RLock(p) \/ (\E c \in Conns : Send(p, c)) \/ RUnlock(p)
Handle(c) == Lock(c) \/ Subscribe(c) \/ Unsubscribe(c) \/ Ping(c) \/ Receive(c)

Next ==
  \/ \E p \in Publishers : Call(p) \/ Publish(p)
  \/ \E c \in Conns : Request(c) \/ Handle(c) \/ Leave(c) \/ ClientGoes(c)
                        \/ Tick(c)

Spec == Init /\ [][Next]_vars

\* Goroutines that can run do, and the select of a handler
\* does not pass over a done context for ever.  Clients need never leave.
FairSpec ==
  /\ Spec
  /\ \A p \in Publishers : WF_vars(Publish(p))
  /\ \A c \in Conns : WF_vars(Handle(c)) /\ WF_vars(Leave(c))

(***************************************************************************)
(*                             Properties                                  *)
(***************************************************************************)

\* Every variable has its type.
TypeOK ==
  /\ clients \subseteq Conns
  /\ \A c \in Conns : Len(chan[c]) <= Buffer
  /\ closed \in [Conns -> BOOLEAN] /\ ctx \in [Conns -> BOOLEAN]
  /\ writer \in Conns \union {None} /\ readers \subseteq Publishers
  /\ pub \in [Publishers -> {"idle", "rlock", "range"}]
  /\ event \in [Publishers -> 0 .. MaxEvents]
  /\ todo \in [Publishers -> SUBSET Conns]
  /\ hpc \in [Conns -> {"new", "subscribe", "subscribing", "stream",
                        "unsubscribe", "unsubscribing", "done"}]
  /\ age \in [Conns -> 0 .. MaxAge]
  /\ tick \in [Conns -> BOOLEAN] /\ cut \in [Conns -> BOOLEAN]
  /\ next \in 1 .. MaxEvents + 1
  /\ accounted \in [Conns -> SUBSET (1 .. MaxEvents)]

\* Publish never sends on a channel that Unsubscribe has closed, which would
\* panic and end the gateway.
NoSendOnClosed ==
  \A p \in Publishers : pub[p] = "range" => \A c \in todo[p] : ~closed[c]

Published == (1 .. next - 1) \ {event[p] : p \in Publishers}

\* The only loss is a full buffer: an event whose Publish began after a client
\* subscribed and has returned is in the client's hands, in its channel, or was
\* dropped because that client's own channel was full.  A slow client costs
\* another client nothing.
OnlySlowClientsMiss ==
  \A c \in clients :
    ~ctx[c] => Published \subseteq accounted[c] \union ToSet(chan[c])

\* A client that goes away is unsubscribed, however busy the publishers are.
GoneIsUnsubscribed == \A c \in Conns : ctx[c] ~> hpc[c] = "done"

\* Publish returns whatever the clients do, so that the pool's workers go on.
PublishReturns == \A p \in Publishers : pub[p] # "idle" ~> pub[p] = "idle"

\* pkg/sse/http.go: "Heartbeat to keep connections alive".  The server does not
\* cut the stream of a client that is still there.
KeptAlive == \A c \in Conns : ~cut[c]
====
