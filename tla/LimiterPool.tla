---- MODULE LimiterPool ----
(***************************************************************************)
(* internal/user/service: limiterPool, the map from emails to token        *)
(* buckets that Login asks before it looks at a password.  The map has no  *)
(* lock, so the steps of Get interleave between goroutines, those of its   *)
(* sweep included: each entry is looked at and deleted in two steps.  The  *)
(* buckets themselves (golang.org/x/time/rate) are safe for concurrent use.*)
(*                                                                         *)
(* Time is counted in refill intervals: every Tick adds one token to every *)
(* bucket that is not full.  It passes between any two steps of Get, which *)
(* reads the clock once, at its start.                                     *)
(***************************************************************************)
EXTENDS Integers, FiniteSets

CONSTANTS Procs,      \* goroutines inside Login
          Emails,
          Limiters,   \* bucket objects the heap can hold
          Burst,      \* 10 tokens
          TTL,        \* 10 minutes
          Pause,      \* a goroutine that takes longer from Get's reading of
                      \* the clock to the end of Allow counts as stalled
          MaxKeys,    \* 100 000 entries
          MaxTime,    \* bound: last tick of the model's clock
          None

VARIABLES now,
          items,      \* the map: email -> [lim, exp], or None when absent
          tokens,     \* what is left in each bucket
          pc, email,  \* where each goroutine is in Get, and for which email
          at,         \* Get's local now
          due, key,   \* its range: the entries still to come, and the key of
                      \* the entry found expired
          held,       \* the bucket Get returned
          fatal,      \* the runtime found a concurrent map access
          fair,       \* history: a bucket per email that is never replaced
          raced,      \* history: a Get that missed overlapped with another Get
          stalled     \* history: a goroutine has stalled

locals == <<email, at, due, key, held>>
vars == <<now, items, tokens, pc, locals, fatal, fair, raced, stalled>>

\* 10 tokens at 5 per second refill in 2 seconds: Pause is anything up to almost
\* five minutes.
ASSUME LimiterAssumption ==
  /\ Burst \in Nat \ {0} /\ TTL \in Nat /\ Pause \in Nat
  /\ MaxKeys \in Nat /\ MaxTime \in Nat
  /\ Burst + 2 * Pause <= TTL
  /\ None \notin Emails \union Limiters

Item == [lim : Limiters, exp : 0 .. MaxTime + TTL]
ASSUME NoneIsNoItem == None \notin Item

Init ==
  /\ now = 0
  /\ items = [e \in Emails |-> None]
  /\ tokens = [l \in Limiters |-> Burst]
  /\ pc = [p \in Procs |-> "idle"]
  /\ email = [p \in Procs |-> None]
  /\ at = [p \in Procs |-> 0]
  /\ due = [p \in Procs |-> {}]
  /\ key = [p \in Procs |-> None]
  /\ held = [p \in Procs |-> None]
  /\ fatal = FALSE
  /\ fair = [e \in Emails |-> Burst]
  /\ raced = FALSE /\ stalled = FALSE

Present == {e \in Emails : items[e] # None}
InUse == {items[e].lim : e \in Present} \union {held[p] : p \in Procs}

\* A goroutine that missed is about to write to the map.  Two goroutines are
\* inside the map and one of them writes.
Reading(p) == pc[p] = "lookup"
Writing(p) == pc[p] \in {"sweep", "delete", "store"}
Racing == \E p, q \in Procs : p # q /\ Writing(p) /\ (Writing(q) \/ Reading(q))

Go(p, l) ==
  /\ ~fatal
  /\ pc' = [pc EXCEPT ![p] = l]
  /\ raced' = (raced \/ Racing')

\* Login calls Get(email), which reads the clock.
Enter(p, e) ==
  /\ pc[p] = "idle" /\ Go(p, "lookup")
  /\ email' = [email EXCEPT ![p] = e]
  /\ at' = [at EXCEPT ![p] = now]
  /\ UNCHANGED <<now, items, tokens, due, key, held, fatal, fair, stalled>>

Untouched(i, t) == i
Touched(i, t) == [i EXCEPT !.exp = t + TTL]

\* it, ok := p.items[key]; a hit moves the expiry, even back when the clock was
\* read long ago.
Lookup(p) ==
  /\ pc[p] = "lookup"
  /\ LET e == email[p] IN
     \/ /\ items[e] # None
        /\ items' = [items EXCEPT ![e] = Touched(@, at[p])]
        /\ held' = [held EXCEPT ![p] = items[e].lim]
        /\ Go(p, "allow")
        /\ UNCHANGED due
     \/ /\ items[e] = None
        /\ IF Cardinality(Present) >= MaxKeys
           THEN Go(p, "sweep") /\ due' = [due EXCEPT ![p] = Present]
           ELSE Go(p, "store") /\ UNCHANGED due
        /\ UNCHANGED <<items, held>>
  /\ UNCHANGED <<now, tokens, email, at, key, fatal, fair, stalled>>

\* now.After(it.exp)
ExpiredOrNot(i, t) == TRUE
Expired(i, t) == t > i.exp

\* for k, it := range p.items: the entries come in any order, those stored
\* meanwhile may come too.
Check(p) ==
  /\ pc[p] = "sweep"
  /\ \E k \in Present :
       /\ due' = [due EXCEPT ![p] = @ \ {k}]
       /\ IF Expired(items[k], at[p])
          THEN Go(p, "delete") /\ key' = [key EXCEPT ![p] = k]
          ELSE Go(p, "sweep") /\ UNCHANGED key
  /\ UNCHANGED <<now, items, tokens, email, at, held, fatal, fair, stalled>>

\* delete(p.items, k), whatever k stands for by now.  No range has to produce
\* a deleted entry.
Delete(p) ==
  /\ pc[p] = "delete" /\ Go(p, "sweep")
  /\ items' = [items EXCEPT ![key[p]] = None]
  /\ due' = [q \in Procs |-> due[q] \ {key[p]}]
  /\ key' = [key EXCEPT ![p] = None]
  /\ UNCHANGED <<now, tokens, email, at, held, fatal, fair, stalled>>

RangeEnds(p) ==
  /\ pc[p] = "sweep" /\ due[p] = {} /\ Go(p, "store")
  /\ UNCHANGED <<now, items, tokens, locals, fatal, fair, stalled>>

\* rate.NewLimiter returns a full bucket.
NewLimiterEmpty == 0
NewLimiter == Burst

\* A new bucket goes into the map, whatever is there by now.
Store(p) ==
  /\ pc[p] = "store" /\ Go(p, "allow")
  /\ \E l \in Limiters \ InUse :
       /\ tokens' = [tokens EXCEPT ![l] = NewLimiter]
       /\ items' = [items EXCEPT ![email[p]] = [lim |-> l, exp |-> at[p] + TTL]]
       /\ held' = [held EXCEPT ![p] = l]
  /\ UNCHANGED <<now, email, at, due, key, fatal, fair, stalled>>

\* lim.Allow(): a token is taken and Login goes on, or Login is refused.
Allow(p) ==
  /\ pc[p] = "allow" /\ Go(p, "idle")
  /\ IF tokens[held[p]] > 0
     THEN /\ tokens' = [tokens EXCEPT ![held[p]] = @ - 1]
          /\ fair' = [fair EXCEPT ![email[p]] = @ - 1]
     ELSE UNCHANGED <<tokens, fair>>
  /\ held' = [held EXCEPT ![p] = None]
  /\ email' = [email EXCEPT ![p] = None]
  /\ at' = [at EXCEPT ![p] = 0]
  /\ UNCHANGED <<now, items, due, key, fatal, stalled>>

Refill(n) == IF n < Burst THEN n + 1 ELSE n

\* A refill interval (200 ms) passes, wherever the goroutines are.
Tick ==
  /\ now < MaxTime /\ ~fatal
  /\ now' = now + 1
  /\ tokens' = [l \in Limiters |-> Refill(tokens[l])]
  /\ fair' = [e \in Emails |-> Refill(fair[e])]
  /\ stalled' = (stalled \/ \E p \in Procs : pc[p] # "idle" /\ now' > at[p] + Pause)
  /\ UNCHANGED <<items, pc, locals, fatal, raced>>

\* The runtime may stop the process ("concurrent map read and map write"), or
\* notice nothing.
Detect ==
  /\ Racing /\ ~fatal
  /\ fatal' = TRUE
  /\ UNCHANGED <<now, items, tokens, pc, locals, fair, raced, stalled>>

Next ==
  \/ \E p \in Procs :
       \/ \E e \in Emails : Enter(p, e)
       \/ Lookup(p) \/ Check(p) \/ Delete(p) \/ RangeEnds(p) \/ Store(p)
       \/ Allow(p)
  \/ Tick
  \/ Detect

Spec == Init /\ [][Next]_vars

(***************************************************************************)
(*                             Properties                                  *)
(***************************************************************************)

\* Every variable has its type; fair may go below zero.
TypeOK ==
  /\ now \in 0 .. MaxTime
  /\ items \in [Emails -> Item \union {None}]
  /\ tokens \in [Limiters -> 0 .. Burst]
  /\ pc \in [Procs -> {"idle", "lookup", "sweep", "delete", "store", "allow"}]
  /\ email \in [Procs -> Emails \union {None}]
  /\ at \in [Procs -> 0 .. MaxTime]
  /\ due \in [Procs -> SUBSET Emails]
  /\ key \in [Procs -> Emails \union {None}]
  /\ held \in [Procs -> Limiters \union {None}]
  /\ fatal \in BOOLEAN
  /\ fair \in [Emails -> Int]
  /\ raced \in BOOLEAN /\ stalled \in BOOLEAN

\* The missing lock is all that is wrong: while no Get that misses overlaps with
\* another Get, and no goroutine is held up for minutes, the logins let through
\* for an email are never more than one bucket that is never replaced would let
\* through, however entries expire, are swept and return, and though Allow runs
\* outside Get.
LimitUnlessRaced == raced \/ stalled \/ \A e \in Emails : fair[e] >= 0

\* Whatever races in the map, nobody is refused before their own email's limit
\* is used up: no bucket is shared by two emails or loses tokens.
RefusedOnlyAtLimit ==
  \A p \in Procs :
    pc[p] = "allow" /\ tokens[held[p]] = 0 => fair[email[p]] <= 0

\* The only way to lose a bucket that is not full is the window of the sweep:
\* between the check of an entry and its deletion another Get returned it.
ForgetsFullOrTouched ==
  [][\A e \in Emails : items[e] # None /\ items'[e] = None =>
       \/ tokens[items[e].lim] = Burst
       \/ stalled
       \/ \E p \in Procs :
            pc[p] = "delete" /\ key[p] = e /\ ~Expired(items[e], at[p])]_vars
====
