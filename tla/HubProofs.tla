---- MODULE HubProofs ----
(***************************************************************************)
(* Theorems about Hub, for any connections, publishers, buffer, periods    *)
(* and number of events: its types, that Publish never sends on a channel  *)
(* that Unsubscribe has closed, and that a client misses nothing but what  *)
(* its own full channel had no room for.                                   *)
(***************************************************************************)
EXTENDS Hub, TLAPS

Events == 1 .. MaxEvents

\* A publisher in its loop holds the read lock, goes through channels that are
\* still registered, and has an event.
Iterating(p) ==
  /\ pub[p] = "range" => p \in readers /\ todo[p] \subseteq clients
  /\ pub[p] # "idle" => event[p] \in Events

\* A channel is registered while its handler streams or is about to leave, and
\* closed only when the handler is done.
Registered(c) ==
  /\ c \in clients => hpc[c] \in {"stream", "unsubscribe", "unsubscribing"}
  /\ closed[c] = TRUE => hpc[c] = "done"

Inv ==
  /\ TypeOK
  /\ chan \in [Conns -> Seq(Events)]
  /\ \A p \in Publishers : Iterating(p)
  /\ \A c \in Conns : Registered(c)

LEMMA Initial == Init => Inv
<1> SUFFICES ASSUME Init PROVE Inv
  OBVIOUS
<1> USE HubAssumption
<1>1. /\ closed \in [Conns -> BOOLEAN] /\ ctx \in [Conns -> BOOLEAN]
      /\ tick \in [Conns -> BOOLEAN] /\ cut \in [Conns -> BOOLEAN]
  BY Zenon DEF Init
<1>2. /\ clients \subseteq Conns
      /\ writer \in Conns \union {None} /\ readers \subseteq Publishers
      /\ pub \in [Publishers -> {"idle", "rlock", "range"}]
      /\ event \in [Publishers -> 0 .. MaxEvents]
      /\ todo \in [Publishers -> SUBSET Conns]
      /\ age \in [Conns -> 0 .. MaxAge]
      /\ next \in 1 .. MaxEvents + 1
      /\ accounted \in [Conns -> SUBSET (1 .. MaxEvents)]
  BY DEF Init
<1>3. hpc \in [Conns -> {"new", "subscribe", "subscribing", "stream",
                         "unsubscribe", "unsubscribing", "done"}]
  BY DEF Init
<1>4. chan \in [Conns -> Seq(Events)] /\ \A c \in Conns : Len(chan[c]) <= Buffer
  BY DEF Init
<1>5. TypeOK
  BY <1>1, <1>2, <1>3, <1>4 DEF TypeOK
<1>6. \A p \in Publishers : Iterating(p)
  BY DEF Init, Iterating
<1>7. \A c \in Conns : Registered(c)
  BY DEF Init, Registered
<1> QED BY <1>4, <1>5, <1>6, <1>7 DEF Inv

(*************************** Publish ***************************************)

LEMMA CallKeeps == ASSUME NEW p \in Publishers, Inv, Call(p) PROVE Inv'
<1> USE HubAssumption DEF Call, lock, streaming, Inv, TypeOK
<1>1. TypeOK' /\ (chan \in [Conns -> Seq(Events)])'
  OBVIOUS
<1>2. ASSUME NEW q \in Publishers PROVE Iterating(q)'
  BY <1>2 DEF Iterating, Events
<1>3. ASSUME NEW c \in Conns PROVE Registered(c)'
  BY <1>3 DEF Registered
<1> QED BY <1>1, <1>2, <1>3

LEMMA RLockKeeps == ASSUME NEW p \in Publishers, Inv, RLock(p) PROVE Inv'
<1> USE DEF RLock, RLockHeld, streaming, Inv, TypeOK
<1>1. TypeOK' /\ (chan \in [Conns -> Seq(Events)])'
  OBVIOUS
<1>2. ASSUME NEW q \in Publishers PROVE Iterating(q)'
  BY <1>2 DEF Iterating
<1>3. ASSUME NEW c \in Conns PROVE Registered(c)'
  BY <1>3 DEF Registered
<1> QED BY <1>1, <1>2, <1>3

LEMMA SendKeeps ==
  ASSUME NEW p \in Publishers, NEW c \in Conns, Inv, Send(p, c) PROVE Inv'
<1> USE HubAssumption
<1>1. event[p] \in Events
  BY DEF Send, Inv, Iterating
<1>2. /\ (chan \in [Conns -> Seq(Events)])'
      /\ \A d \in Conns : Len(chan'[d]) <= Buffer
      /\ accounted' \in [Conns -> SUBSET (1 .. MaxEvents)]
  <2>1. CASE /\ Len(chan[c]) < Buffer
             /\ chan' = [chan EXCEPT ![c] = Append(@, event[p])]
             /\ UNCHANGED accounted
    BY <1>1, <2>1 DEF Inv, TypeOK
  <2>2. CASE /\ accounted' = [accounted EXCEPT ![c] = @ \union {event[p]}]
             /\ UNCHANGED chan
    BY <1>1, <2>2 DEF Inv, TypeOK, Events
  <2> QED BY <2>1, <2>2 DEF Send, Offer
<1>3. TypeOK'
  BY <1>2 DEF Send, Left, lock, streaming, Inv, TypeOK
<1>4. ASSUME NEW q \in Publishers PROVE Iterating(q)'
  BY <1>4 DEF Send, Left, lock, streaming, Inv, TypeOK, Iterating
<1>5. ASSUME NEW d \in Conns PROVE Registered(d)'
  BY <1>5 DEF Send, streaming, Inv, Registered
<1> QED BY <1>2, <1>3, <1>4, <1>5 DEF Inv

LEMMA RUnlockKeeps == ASSUME NEW p \in Publishers, Inv, RUnlock(p) PROVE Inv'
<1> USE HubAssumption DEF RUnlock, streaming, Inv, TypeOK
<1>1. TypeOK' /\ (chan \in [Conns -> Seq(Events)])'
  OBVIOUS
<1>2. ASSUME NEW q \in Publishers PROVE Iterating(q)'
  BY <1>2 DEF Iterating
<1>3. ASSUME NEW c \in Conns PROVE Registered(c)'
  BY <1>3 DEF Registered
<1> QED BY <1>1, <1>2, <1>3

(*************************** The handler ***********************************)

\* A step that leaves the publishers and the registered channels alone keeps
\* what is said of the publishers.
LEMMA PublishersKept ==
  ASSUME Inv, UNCHANGED <<clients, readers, publishing>>, NEW p \in Publishers
  PROVE  Iterating(p)'
BY DEF Inv, Iterating, publishing

LEMMA GoesKeeps ==
  ASSUME NEW c \in Conns, Inv, Request(c) \/ Lock(c) PROVE Inv'
<1> USE DEF Request, Lock, Goes, lock, publishing, Inv, TypeOK
<1>1. TypeOK' /\ (chan \in [Conns -> Seq(Events)])'
  <2>1. CASE Request(c)
    BY <2>1
  <2>2. CASE Lock(c)
    <3>1. /\ hpc' \in [Conns -> {"new", "subscribe", "subscribing", "stream",
                               "unsubscribe", "unsubscribing", "done"}]
          /\ writer' \in Conns \union {None}
      <4>1. \/ hpc' = [hpc EXCEPT ![c] = "subscribing"]
            \/ hpc' = [hpc EXCEPT ![c] = "unsubscribing"]
        BY <2>2
      <4>2. writer' = c
        BY <2>2
      <4>3. hpc \in [Conns -> {"new", "subscribe", "subscribing", "stream",
                              "unsubscribe", "unsubscribing", "done"}]
        OBVIOUS
      <4> HIDE DEF Request, Lock, Inv, TypeOK
      <4> QED BY <4>1, <4>2, <4>3
    <3>2. UNCHANGED <<clients, chan, closed, readers, pub, event, todo, next, ctx,
                      age, tick, cut, accounted>>
      BY <2>2
    <3> QED BY <3>1, <3>2, Zenon
  <2> QED BY <2>1, <2>2
<1>2. ASSUME NEW p \in Publishers PROVE Iterating(p)'
  BY <1>2, PublishersKept
<1>3. ASSUME NEW d \in Conns PROVE Registered(d)'
  BY <1>3 DEF Registered
<1> QED BY <1>1, <1>2, <1>3

LEMMA SubscribeKeeps == ASSUME NEW c \in Conns, Inv, Subscribe(c) PROVE Inv'
<1> USE HubAssumption DEF Subscribe, Goes, publishing, Inv, TypeOK
<1>1. TypeOK' /\ (chan \in [Conns -> Seq(Events)])'
  OBVIOUS
<1>2. ASSUME NEW p \in Publishers PROVE Iterating(p)'
  BY <1>2 DEF Iterating
<1>3. ASSUME NEW d \in Conns PROVE Registered(d)'
  BY <1>3 DEF Registered
<1> QED BY <1>1, <1>2, <1>3

\* Unsubscribe has the lock to itself, so no publisher is in its loop.
LEMMA UnsubscribeKeeps == ASSUME NEW c \in Conns, Inv, Unsubscribe(c) PROVE Inv'
<1> USE HubAssumption DEF Unsubscribe, Goes, publishing, Inv, TypeOK
<1>1. closed' \in [Conns -> BOOLEAN] /\ ctx' \in [Conns -> BOOLEAN]
  BY Zenon
<1>2. (chan \in [Conns -> Seq(Events)])' /\ \A d \in Conns : Len(chan'[d]) <= Buffer
  OBVIOUS
<1>3. TypeOK'
  BY <1>1, <1>2
<1>4. ASSUME NEW p \in Publishers PROVE Iterating(p)'
  BY <1>4 DEF Iterating, Locked
<1>5. ASSUME NEW d \in Conns PROVE Registered(d)'
  BY <1>5 DEF Registered
<1> QED BY <1>2, <1>3, <1>4, <1>5

LEMMA WroteTypes ==
  ASSUME NEW c \in Conns, Inv, Wrote(c)
  PROVE  ctx' \in [Conns -> BOOLEAN] /\ cut' \in [Conns -> BOOLEAN]
BY Zenon DEF Wrote, Inv, TypeOK

LEMMA StreamKeeps ==
  ASSUME NEW c \in Conns, Inv,
         Ping(c) \/ Receive(c) \/ Leave(c) \/ ClientGoes(c) \/ Tick(c)
  PROVE  Inv'
<1> USE HubAssumption
<1>1. UNCHANGED <<clients, closed, writer, readers, publishing>>
  BY DEF Ping, Receive, Leave, ClientGoes, Tick, lock
<1>2. /\ ctx' \in [Conns -> BOOLEAN] /\ cut' \in [Conns -> BOOLEAN]
  <2>1. CASE Ping(c) \/ Receive(c)
    BY <2>1, WroteTypes DEF Ping, Receive
  <2>2. CASE Leave(c) \/ ClientGoes(c) \/ Tick(c)
    BY <2>2, Zenon DEF Leave, ClientGoes, Tick, Inv, TypeOK
  <2> QED BY <2>1, <2>2
<1>3. tick' \in [Conns -> BOOLEAN]
  BY Zenon DEF Ping, Receive, Leave, ClientGoes, Tick, Inv, TypeOK
<1>4. age' \in [Conns -> 0 .. MaxAge]
  BY DEF Ping, Receive, Leave, ClientGoes, Tick, Inv, TypeOK
<1>5. /\ (chan \in [Conns -> Seq(Events)])'
      /\ \A d \in Conns : Len(chan'[d]) <= Buffer
      /\ accounted' \in [Conns -> SUBSET (1 .. MaxEvents)]
  <2>1. CASE Receive(c)
    <3>1. chan[c] \in Seq(Events) /\ chan[c] # <<>> /\ Len(chan[c]) <= Buffer
      BY <2>1 DEF Receive, Inv, TypeOK
    <3>2. /\ Tail(chan[c]) \in Seq(Events) /\ Head(chan[c]) \in Events
          /\ Len(Tail(chan[c])) <= Buffer
      BY <3>1
    <3> QED BY <2>1, <3>2 DEF Receive, Inv, TypeOK, Events
  <2>2. CASE Ping(c) \/ Leave(c) \/ ClientGoes(c) \/ Tick(c)
    BY <2>2 DEF Ping, Leave, ClientGoes, Tick, Inv, TypeOK
  <2> QED BY <2>1, <2>2
<1>6. \/ UNCHANGED hpc
      \/ hpc[c] = "stream" /\ hpc' = [hpc EXCEPT ![c] = "unsubscribe"]
  BY DEF Ping, Receive, Leave, ClientGoes, Tick, Goes
<1>7. TypeOK'
  <2>1. hpc' \in [Conns -> {"new", "subscribe", "subscribing", "stream",
                           "unsubscribe", "unsubscribing", "done"}]
    BY <1>6 DEF Inv, TypeOK
  <2>2. UNCHANGED <<clients, closed, writer, readers, pub, event, todo, next>>
    BY <1>1 DEF publishing
  <2> QED
    BY <1>2, <1>3, <1>4, <1>5, <2>1, <2>2, Zenon DEF Inv, TypeOK
<1>8. ASSUME NEW p \in Publishers PROVE Iterating(p)'
  BY <1>1, <1>8, PublishersKept
<1>9. ASSUME NEW d \in Conns PROVE Registered(d)'
  BY <1>1, <1>6, <1>9 DEF Inv, TypeOK, Registered
<1> QED BY <1>5, <1>7, <1>8, <1>9 DEF Inv

LEMMA StutterKeeps == ASSUME Inv, UNCHANGED vars PROVE Inv'
<1>1. TypeOK' /\ (chan \in [Conns -> Seq(Events)])'
  BY DEF Inv, TypeOK, vars, lock, publishing, streaming
<1>2. ASSUME NEW p \in Publishers PROVE Iterating(p)'
  BY <1>2, PublishersKept DEF vars, lock
<1>3. ASSUME NEW c \in Conns PROVE Registered(c)'
  BY <1>3 DEF Inv, Registered, vars, streaming
<1> QED BY <1>1, <1>2, <1>3 DEF Inv

LEMMA NextKeeps == Inv /\ [Next]_vars => Inv'
<1> SUFFICES ASSUME Inv, [Next]_vars PROVE Inv'
  OBVIOUS
<1>1. CASE \E p \in Publishers : Call(p) \/ Publish(p)
  BY <1>1, CallKeeps, RLockKeeps, SendKeeps, RUnlockKeeps DEF Publish
<1>2. CASE \E c \in Conns : Request(c) \/ Lock(c) \/ Subscribe(c) \/ Unsubscribe(c)
  BY <1>2, GoesKeeps, SubscribeKeeps, UnsubscribeKeeps
<1>3. CASE \E c \in Conns : Ping(c) \/ Receive(c) \/ Leave(c) \/ ClientGoes(c)
                              \/ Tick(c)
  BY <1>3, StreamKeeps
<1> QED BY <1>1, <1>2, <1>3, StutterKeeps DEF Next, Handle

(*************************** Losses ****************************************)

\* A publisher still has event e to offer to c.
Pending(c, e) ==
  \E p \in Publishers :
    /\ event[p] = e
    /\ pub[p] = "rlock" \/ (pub[p] = "range" /\ c \in todo[p])

\* An event is never between places for a registered client whose context is
\* not done: it is accounted for, in the channel, or still to be offered.
Tracked(c) ==
  c \in clients /\ ctx[c] = FALSE =>
    \A e \in 1 .. next - 1 :
      e \in accounted[c] \/ e \in ToSet(chan[c]) \/ Pending(c, e)

\* What a channel holds after a send and after a receive.
LEMMA SendHolds ==
  ASSUME NEW s \in Seq(Events), NEW m \in Events
  PROVE  ToSet(Append(s, m)) = ToSet(s) \union {m}
<1>1. /\ \A i \in 1 .. Len(s) : Append(s, m)[i] = s[i]
      /\ Append(s, m)[Len(s) + 1] = m
  OBVIOUS
<1>2. DOMAIN Append(s, m) = 1 .. Len(s) + 1 /\ DOMAIN s = 1 .. Len(s)
  OBVIOUS
<1>3. ASSUME NEW i \in 1 .. Len(s) + 1 PROVE Append(s, m)[i] \in ToSet(s) \union {m}
  <2>1. CASE i = Len(s) + 1
    BY <1>1, <2>1
  <2>2. CASE i # Len(s) + 1
    BY <1>1, <1>2, <2>2 DEF ToSet
  <2> QED BY <2>1, <2>2
<1>4. ToSet(s) \subseteq ToSet(Append(s, m)) /\ m \in ToSet(Append(s, m))
  BY <1>1, <1>2 DEF ToSet
<1>5. ToSet(Append(s, m)) \subseteq ToSet(s) \union {m}
  BY <1>2, <1>3 DEF ToSet
<1> QED BY <1>4, <1>5

LEMMA ReceiveHolds ==
  ASSUME NEW s \in Seq(Events), s # <<>>
  PROVE  ToSet(s) \subseteq ToSet(Tail(s)) \union {Head(s)}
<1>1. ASSUME NEW x \in ToSet(s), x # Head(s) PROVE x \in ToSet(Tail(s))
  <2>1. PICK i \in 1 .. Len(s) : s[i] = x
    BY <1>1 DEF ToSet
  <2>2. i # 1
    BY <1>1, <2>1
  <2>3. i - 1 \in DOMAIN Tail(s) /\ Tail(s)[i - 1] = x
    BY <2>1, <2>2
  <2> QED BY <2>3 DEF ToSet
<1> QED BY <1>1

\* A step that leaves the publishers alone and only adds to what is accounted
\* for or in c's channel.
LEMMA TrackedFrame ==
  ASSUME NEW c \in Conns, Tracked(c), UNCHANGED publishing,
         c \in clients' /\ ctx'[c] = FALSE =>
           /\ c \in clients /\ ctx[c] = FALSE
           /\ accounted[c] \union ToSet(chan[c])
                \subseteq accounted'[c] \union ToSet(chan'[c])
  PROVE  Tracked(c)'
BY DEF Tracked, Pending, publishing

\* A new event is still to be offered to everybody.
LEMMA CallTracked ==
  ASSUME NEW p \in Publishers, NEW c \in Conns, Inv, Tracked(c), Call(p)
  PROVE  Tracked(c)'
<1>0. 1 .. next' - 1 = 1 .. next
  BY DEF Call, Inv, TypeOK
<1> SUFFICES ASSUME c \in clients, ctx[c] = FALSE, NEW e \in 1 .. next
             PROVE  e \in accounted[c] \/ e \in ToSet(chan[c]) \/ Pending(c, e)'
  BY <1>0 DEF Call, Tracked, streaming
<1>1. CASE e = next
  BY <1>1 DEF Call, Pending, Inv, TypeOK
<1>2. CASE e # next /\ Pending(c, e)
  BY <1>2 DEF Call, Pending, Inv, TypeOK
<1> QED BY <1>1, <1>2 DEF Tracked, Inv, TypeOK

\* The loop starts with every registered channel.
LEMMA RLockTracked ==
  ASSUME NEW p \in Publishers, NEW c \in Conns, Inv, Tracked(c), RLock(p)
  PROVE  Tracked(c)'
<1> SUFFICES ASSUME c \in clients, NEW e, Pending(c, e) PROVE Pending(c, e)'
  BY DEF RLock, Tracked, streaming
<1> QED BY DEF RLock, Pending, Inv, TypeOK

\* The channel that was offered the event has it, or it is accounted for.
LEMMA SendTracked ==
  ASSUME NEW p \in Publishers, NEW d \in Conns, NEW c \in Conns, Inv, Tracked(c),
         Send(p, d)
  PROVE  Tracked(c)'
<1>1. chan[d] \in Seq(Events) /\ event[p] \in Events
  BY DEF Send, Inv, Iterating
<1>2. /\ accounted[c] \subseteq accounted'[c] /\ ToSet(chan[c]) \subseteq ToSet(chan'[c])
      /\ d = c => event[p] \in accounted'[c] \union ToSet(chan'[c])
  <2>1. CASE chan' = [chan EXCEPT ![d] = Append(@, event[p])] /\ accounted' = accounted
    <3>1. ToSet(chan'[d]) = ToSet(chan[d]) \union {event[p]}
      BY <1>1, <2>1, SendHolds DEF Inv
    <3>2. d # c => chan'[c] = chan[c]
      BY <2>1 DEF Inv
    <3> QED BY <2>1, <3>1, <3>2
  <2>2. CASE chan' = chan /\ accounted' = [accounted EXCEPT ![d] = @ \union {event[p]}]
    BY <2>2 DEF Inv, TypeOK
  <2> QED BY <2>1, <2>2 DEF Send, Offer
<1> SUFFICES ASSUME NEW e, Pending(c, e), ~(d = c /\ e = event[p])
             PROVE  Pending(c, e)'
  BY <1>2 DEF Send, Tracked, streaming
<1> QED BY DEF Send, Left, Pending, Inv, TypeOK

\* A publisher that is through with its loop owes nobody its event.
LEMMA RUnlockTracked ==
  ASSUME NEW p \in Publishers, NEW c \in Conns, Inv, Tracked(c), RUnlock(p)
  PROVE  Tracked(c)'
<1> SUFFICES ASSUME NEW e, Pending(c, e) PROVE Pending(c, e)'
  BY DEF RUnlock, Tracked, streaming
<1> QED BY DEF RUnlock, Pending, Inv, TypeOK

\* A write that succeeds leaves its context alone; one that fails ends it.
LEMMA WroteInTime ==
  ASSUME NEW c \in Conns, Inv, Wrote(c), ctx'[c] = FALSE
  PROVE  ctx[c] = FALSE /\ InTime(c) = TRUE
<1>1. ctx'[c] = (ctx[c] \/ ~InTime(c)) /\ ctx[c] \in BOOLEAN
  BY Zenon DEF Wrote, Inv, TypeOK
<1> QED BY <1>1, Zenon DEF InTime

\* The handler's steps: what leaves the channel is accounted for, unless the
\* stream is over.
LEMMA HandlerTracked ==
  ASSUME NEW d \in Conns, NEW c \in Conns, Inv, Tracked(c),
         Request(d) \/ Handle(d) \/ Leave(d) \/ ClientGoes(d) \/ Tick(d)
  PROVE  Tracked(c)'
<1>1. UNCHANGED publishing
  BY DEF Request, Handle, Lock, Subscribe, Unsubscribe, Ping, Receive, Leave,
         ClientGoes, Tick
<1>2. CASE Request(d) \/ Lock(d) \/ Tick(d)
  BY <1>1, <1>2, TrackedFrame DEF Request, Lock, Tick
<1>3. CASE Subscribe(d)
  <2>1. CASE c = d
    BY <1>1, <1>3, <2>1 DEF Subscribe, Tracked, publishing, Inv, TypeOK
  <2>2. CASE c # d
    BY <1>1, <1>3, <2>2, TrackedFrame DEF Subscribe, Inv, TypeOK
  <2> QED BY <2>1, <2>2
<1>4. CASE Unsubscribe(d)
  BY <1>1, <1>4, TrackedFrame DEF Unsubscribe, Inv, TypeOK
<1>5. CASE Ping(d) \/ ClientGoes(d) \/ Leave(d)
  <2>1. clients' = clients /\ chan' = chan
    BY <1>5 DEF Ping, ClientGoes, Leave
  <2>2. ctx'[c] = FALSE => ctx[c] = FALSE
    <3>1. CASE c # d
      BY <1>5, <3>1 DEF Ping, Wrote, ClientGoes, Leave, Inv, TypeOK
    <3>2. CASE c = d
      BY <1>5, <3>2, WroteInTime DEF Ping, ClientGoes, Leave, Inv, TypeOK
    <3> QED BY <3>1, <3>2
  <2>3. ctx'[c] = FALSE => accounted'[c] = accounted[c]
    BY <1>5 DEF Ping, ClientGoes, Leave, Inv, TypeOK
  <2> QED BY <1>1, <2>1, <2>2, <2>3, TrackedFrame
<1>6. CASE Receive(d)
  <2>1. CASE c # d
    BY <1>1, <1>6, <2>1, TrackedFrame DEF Receive, Wrote, Inv, TypeOK
  <2>2. CASE c = d
    <3>1. /\ chan[c] \in Seq(Events) /\ chan[c] # <<>> /\ chan'[c] = Tail(chan[c])
          /\ clients' = clients /\ Wrote(c)
      BY <1>6, <2>2 DEF Receive, Inv
    <3>2. ASSUME ctx'[c] = FALSE
          PROVE  /\ ctx[c] = FALSE
                 /\ accounted'[c] = accounted[c] \union {Head(chan[c])}
      BY <1>6, <2>2, <3>1, <3>2, WroteInTime DEF Receive, Inv, TypeOK
    <3>3. ToSet(chan[c]) \subseteq ToSet(chan'[c]) \union {Head(chan[c])}
      BY <3>1, ReceiveHolds
    <3> QED BY <1>1, <3>1, <3>2, <3>3, TrackedFrame
  <2> QED BY <2>1, <2>2
<1> QED BY <1>2, <1>3, <1>4, <1>5, <1>6 DEF Handle

\* No step loses an event of a client that is there.
LEMMA NextTracked ==
  Inv /\ (\A c \in Conns : Tracked(c)) /\ [Next]_vars => (\A c \in Conns : Tracked(c))'
<1> SUFFICES ASSUME Inv, NEW c \in Conns, Tracked(c), [Next]_vars PROVE Tracked(c)'
  OBVIOUS
<1>1. CASE UNCHANGED vars
  BY <1>1, TrackedFrame DEF vars, streaming
<1> QED BY <1>1, CallTracked, RLockTracked, SendTracked, RUnlockTracked,
           HandlerTracked DEF Next, Publish

(*************************** Theorems **************************************)

LEMMA Invariant == Spec => []Inv
<1>1. Init => Inv
  BY Initial
<1>2. Inv /\ [Next]_vars => Inv'
  BY NextKeeps
<1> QED BY <1>1, <1>2, PTL DEF Spec

\* The variables keep their types, and no channel holds more than its buffer.
THEOREM HubTypes == Spec => []TypeOK
<1>1. Inv => TypeOK
  BY DEF Inv
<1> QED BY <1>1, Invariant, PTL

\* Publish never sends on a closed channel, however many publishers and clients
\* there are and whenever they come and go.
THEOREM SendsAreSafe == Spec => []NoSendOnClosed
<1>1. Inv => NoSendOnClosed
  BY DEF Inv, TypeOK, Iterating, Registered, NoSendOnClosed
<1> QED BY <1>1, Invariant, PTL

\* The only loss is a client's own full buffer: what was published since a
\* client subscribed is written to it, in its channel, or was dropped because
\* that channel was full, whatever the other clients and publishers do.
THEOREM SlowClientsOnly == Spec => []OnlySlowClientsMiss
<1>1. Init => \A c \in Conns : Tracked(c)
  BY DEF Init, Tracked
<1>2. Inv /\ (\A c \in Conns : Tracked(c)) => OnlySlowClientsMiss
  <2> SUFFICES ASSUME Inv, NEW c \in clients, Tracked(c), ~ctx[c],
                      NEW e \in Published
               PROVE  e \in accounted[c] \union ToSet(chan[c])
    BY DEF OnlySlowClientsMiss, Inv, TypeOK
  <2>1. ctx[c] = FALSE
    BY DEF Inv, TypeOK
  <2>2. e \in 1 .. next - 1 /\ ~Pending(c, e)
    BY DEF Published, Pending
  <2> QED BY <2>1, <2>2 DEF Tracked
<1> QED BY <1>1, <1>2, NextTracked, Invariant, PTL DEF Spec
====
