---- MODULE LimiterPoolProofs ----
(***************************************************************************)
(* Theorems about LimiterPool, for any goroutines, emails, buckets, burst, *)
(* lifetime, pause, map size and clock: its types, that nobody is refused  *)
(* below their limit, that only the window of the sweep loses a bucket     *)
(* which is not full, and that the limit holds as long as no two Gets race.*)
(***************************************************************************)
EXTENDS LimiterPool, TLAPS

\* A goroutine has an email while it is inside Get or Allow, a key while it is
\* about to delete it, and a bucket from the end of Get on; its clock is behind,
\* and before somebody stalls not by more than Pause.
Local(p) ==
  /\ pc[p] # "idle" => email[p] \in Emails
  /\ pc[p] = "delete" => key[p] \in Emails
  /\ held[p] \in Limiters <=> pc[p] = "allow"
  /\ at[p] <= now
  /\ pc[p] # "idle" /\ ~stalled => now <= at[p] + Pause

\* Logins for e may draw from l: it is in the map, or a goroutine holds it.
Serves(l, e) ==
  \/ items[e] \in Item /\ items[e].lim = l
  \/ \E p \in Procs : held[p] = l /\ email[p] = e

\* No bucket serves two emails, and none has less than its email is due.
Sound(l) ==
  /\ \A e, f \in Emails : Serves(l, e) /\ Serves(l, f) => e = f
  /\ \A e \in Emails : Serves(l, e) => fair[e] <= tokens[l]

\* While nobody stalls, the bucket of an entry gains a token for each interval
\* since it was last drawn from.  That was at most two pauses after the time the
\* entry's expiry counts from: one until the goroutine that touched it last got
\* to its touch, one until those holding the bucket by then got to their Allow.
Refilled(e) ==
  items[e] \in Item /\ ~stalled =>
    /\ \/ tokens[items[e].lim] = Burst
       \/ tokens[items[e].lim] >= now + TTL - 2 * Pause - items[e].exp
    /\ \A p \in Procs : held[p] = items[e].lim =>
         items[e].exp >= at[p] + TTL - Pause

Inv ==
  /\ TypeOK
  /\ \A p \in Procs : Local(p)
  /\ \A e \in Emails : fair[e] <= Burst /\ Refilled(e)
  /\ \A l \in Limiters : Sound(l)

USE LimiterAssumption, NoneIsNoItem

LEMMA Initial == Init => Inv
<1> SUFFICES ASSUME Init PROVE Inv
  OBVIOUS
<1>1. fatal \in BOOLEAN /\ raced \in BOOLEAN /\ stalled \in BOOLEAN
  BY Zenon DEF Init
<1>2. TypeOK
  BY <1>1 DEF Init, TypeOK
<1>3. \A p \in Procs : Local(p)
  BY DEF Init, Local
<1>4. \A e \in Emails : items[e] \notin Item /\ fair[e] = Burst
  BY DEF Init
<1>5. \A l \in Limiters, e \in Emails : ~Serves(l, e)
  BY <1>4 DEF Init, Serves
<1> QED BY <1>2, <1>3, <1>4, <1>5 DEF Inv, Refilled, Sound

(***************************************************************************)
(* Frames                                                                  *)
(***************************************************************************)

\* A goroutine moves on.
LEMMA Moves ==
  ASSUME Inv, NEW p \in Procs,
         NEW l \in {"idle", "lookup", "sweep", "delete", "store", "allow"}, Go(p, l)
  PROVE  /\ pc' \in [Procs -> {"idle", "lookup", "sweep", "delete", "store", "allow"}]
         /\ raced' \in BOOLEAN
         /\ pc'[p] = l /\ \A q \in Procs \ {p} : pc'[q] = pc[q]
<1>1. raced' \in BOOLEAN
  BY Zenon DEF Go, Inv, TypeOK
<1> QED BY <1>1 DEF Go, Inv, TypeOK

\* Buckets stay sound when they serve nobody new and are not drawn from.
LEMMA SoundFrame ==
  ASSUME Inv, UNCHANGED <<tokens, fair>>, NEW l \in Limiters,
         \A e \in Emails : Serves(l, e)' => Serves(l, e)
  PROVE  Sound(l)'
BY DEF Inv, Sound

\* Entries stay refilled when nobody new holds their bucket.
LEMMA RefilledFrame ==
  ASSUME Inv, UNCHANGED <<now, tokens, stalled>>, NEW e \in Emails,
         items'[e] = items[e],
         \A p \in Procs : held'[p] \in Limiters => held'[p] = held[p] /\ at'[p] = at[p]
  PROVE  Refilled(e)'
<1>1. items[e] \in Item => items[e].lim \in Limiters
  BY DEF Item
<1> QED BY <1>1 DEF Inv, Refilled

(***************************************************************************)
(* Steps                                                                   *)
(***************************************************************************)

LEMMA EnterKeeps ==
  ASSUME NEW p \in Procs, NEW e \in Emails, Inv, Enter(p, e) PROVE Inv'
<1>1. pc[p] = "idle" /\ Go(p, "lookup") /\ held[p] \notin Limiters
  BY DEF Enter, Inv, Local
<1>2. TypeOK'
  BY <1>1, Moves DEF Enter, Inv, TypeOK
<1>3. ASSUME NEW q \in Procs PROVE Local(q)'
  BY <1>1, <1>3, Moves DEF Enter, Inv, TypeOK, Local
<1>4. ASSUME NEW f \in Emails PROVE fair'[f] <= Burst /\ Refilled(f)'
  <2>1. \A q \in Procs : held'[q] \in Limiters => held'[q] = held[q] /\ at'[q] = at[q]
    BY <1>1 DEF Enter, Inv, TypeOK
  <2> QED BY <2>1, <1>4, RefilledFrame DEF Enter, Inv
<1>5. ASSUME NEW l \in Limiters PROVE Sound(l)'
  <2>1. \A f \in Emails : Serves(l, f)' => Serves(l, f)
    BY <1>1 DEF Enter, Serves, Inv, TypeOK
  <2> QED BY <2>1, SoundFrame DEF Enter
<1> QED BY <1>2, <1>3, <1>4, <1>5 DEF Inv

\* What Get finds is an item and stays one.
LEMMA TouchedItem ==
  ASSUME Inv, NEW i \in Item, NEW t \in 0 .. MaxTime
  PROVE  Touched(i, t) \in Item /\ Touched(i, t).lim = i.lim
         /\ Touched(i, t).exp = t + TTL
BY DEF Touched, Item

\* What a hit does.
Hit(p) ==
  /\ items[email[p]] # None
  /\ items' = [items EXCEPT ![email[p]] = Touched(@, at[p])]
  /\ held' = [held EXCEPT ![p] = items[email[p]].lim]
  /\ Go(p, "allow")
  /\ UNCHANGED due

\* What a miss does.
Miss(p) ==
  /\ items[email[p]] = None
  /\ \/ Go(p, "sweep") /\ due' = [due EXCEPT ![p] = Present]
     \/ Go(p, "store") /\ UNCHANGED due
  /\ UNCHANGED <<items, held>>

LEMMA HitOrMiss ==
  ASSUME NEW p \in Procs, Inv, Lookup(p)
  PROVE  /\ pc[p] = "lookup" /\ email[p] \in Emails /\ at[p] \in 0 .. MaxTime
         /\ held[p] \notin Limiters
         /\ UNCHANGED <<now, tokens, email, at, key, fatal, fair, stalled>>
         /\ Hit(p) \/ Miss(p)
<1>1. /\ pc[p] = "lookup" /\ email[p] \in Emails /\ at[p] \in 0 .. MaxTime
      /\ held[p] \notin Limiters
  BY DEF Lookup, Inv, TypeOK, Local
<1>2. Hit(p) \/ Miss(p)
  BY Zenon DEF Lookup, Hit, Miss
<1> QED BY <1>1, <1>2 DEF Lookup

LEMMA HitMoves ==
  ASSUME NEW p \in Procs, Inv, Lookup(p), Hit(p)
  PROVE  /\ items[email[p]] \in Item /\ items[email[p]].lim \in Limiters
         /\ items'[email[p]] \in Item
         /\ items'[email[p]].lim = items[email[p]].lim
         /\ items'[email[p]].exp = at[p] + TTL
         /\ \A f \in Emails \ {email[p]} : items'[f] = items[f]
         /\ held'[p] = items[email[p]].lim
         /\ \A q \in Procs \ {p} : held'[q] = held[q]
<1>1. email[p] \in Emails /\ at[p] \in 0 .. MaxTime
  BY HitOrMiss
<1>2. items[email[p]] \in Item /\ items[email[p]].lim \in Limiters
  BY <1>1 DEF Hit, Inv, TypeOK, Item
<1>3. items'[email[p]] = Touched(items[email[p]], at[p])
      /\ \A f \in Emails \ {email[p]} : items'[f] = items[f]
  BY <1>1 DEF Hit, Inv, TypeOK
<1>4. held'[p] = items[email[p]].lim /\ \A q \in Procs \ {p} : held'[q] = held[q]
  BY DEF Hit, Inv, TypeOK
<1>5. items'[email[p]] \in Item /\ items'[email[p]].lim = items[email[p]].lim
      /\ items'[email[p]].exp = at[p] + TTL
  BY <1>1, <1>2, <1>3, TouchedItem
<1> QED BY <1>2, <1>3, <1>4, <1>5

LEMMA HitKeeps == ASSUME NEW p \in Procs, Inv, Lookup(p), Hit(p) PROVE Inv'
<1> PICK e : e = email[p]
  OBVIOUS
<1>1. /\ pc[p] = "lookup" /\ e \in Emails /\ at[p] \in 0 .. MaxTime
      /\ UNCHANGED <<now, tokens, email, at, key, fatal, fair, stalled>>
  BY HitOrMiss
<1>2. /\ items[e] \in Item /\ items[e].lim \in Limiters
      /\ items'[e] \in Item
      /\ items'[e].lim = items[e].lim /\ items'[e].exp = at[p] + TTL
      /\ \A f \in Emails \ {e} : items'[f] = items[f]
      /\ held'[p] = items[e].lim
      /\ \A q \in Procs \ {p} : held'[q] = held[q]
  BY HitMoves
<1>3. Go(p, "allow") /\ UNCHANGED due
  BY DEF Hit
<1>4. items' \in [Emails -> Item \union {None}] /\ held' \in [Procs -> Limiters \union {None}]
  BY <1>1, <1>2 DEF Hit, Inv, TypeOK
<1>5. TypeOK'
  BY <1>1, <1>3, <1>4, Moves DEF Inv, TypeOK
<1>6. ASSUME NEW q \in Procs PROVE Local(q)'
  BY <1>1, <1>2, <1>3, <1>6, Moves DEF Inv, Local
<1>7. ASSUME NEW f \in Emails, items'[f] \in Item, ~stalled PROVE Refilled(f)'
  <2>1. CASE f = e
    <3>1. now \in Nat /\ TTL \in Nat /\ Pause \in Nat /\ now <= at[p] + Pause
          /\ tokens[items[e].lim] \in 0 .. Burst
      BY <1>1, <1>2, <1>7 DEF Inv, TypeOK, Local
    <3>2. tokens[items[e].lim] >= now + TTL - 2 * Pause - (at[p] + TTL)
      BY <1>1, <3>1
    <3>3. ASSUME NEW q \in Procs, held'[q] = items[e].lim
          PROVE  at[p] + TTL >= at[q] + TTL - Pause
      <4>1. at[q] \in 0 .. MaxTime /\ at[q] <= now
        BY DEF Inv, TypeOK, Local
      <4> QED BY <1>1, <3>1, <4>1
    <3> QED BY <1>1, <1>2, <2>1, <3>2, <3>3 DEF Refilled
  <2>2. CASE f # e
    <3>1. items'[f] = items[f] /\ Refilled(f) /\ items[f].lim \in Limiters
      BY <1>2, <1>7, <2>2 DEF Inv, Item
    <3>2. ~(items[f].lim = items[e].lim)
      <4>1. Serves(items[e].lim, e) /\ Sound(items[e].lim)
        BY <1>1, <1>2 DEF Serves, Inv
      <4>2. items[f].lim = items[e].lim => Serves(items[e].lim, f)
        BY <1>7, <3>1 DEF Serves
      <4> QED BY <1>1, <2>2, <4>1, <4>2 DEF Sound
    <3> QED BY <1>1, <1>2, <1>7, <3>1, <3>2 DEF Refilled
  <2> QED BY <2>1, <2>2
<1>8. ASSUME NEW f \in Emails PROVE fair'[f] <= Burst /\ Refilled(f)'
  BY <1>1, <1>7, <1>8 DEF Inv, Refilled
<1>9. ASSUME NEW l \in Limiters PROVE Sound(l)'
  <2>1. \A f \in Emails : Serves(l, f)' => Serves(l, f)
    BY <1>1, <1>2 DEF Serves
  <2> QED BY <1>1, <2>1, SoundFrame
<1> QED BY <1>5, <1>6, <1>8, <1>9 DEF Inv

LEMMA MissKeeps == ASSUME NEW p \in Procs, Inv, Lookup(p), Miss(p) PROVE Inv'
<1>1. /\ pc[p] = "lookup" /\ email[p] \in Emails
      /\ UNCHANGED <<now, tokens, email, at, key, fatal, fair, stalled, items, held>>
  BY HitOrMiss DEF Miss
<1>2. PICK l \in {"sweep", "store"} : Go(p, l)
  BY DEF Miss
<1>3. due' \in [Procs -> SUBSET Emails]
  BY DEF Miss, Present, Inv, TypeOK
<1>4. TypeOK'
  BY <1>1, <1>2, <1>3, Moves DEF Inv, TypeOK
<1>5. ASSUME NEW q \in Procs PROVE Local(q)'
  BY <1>1, <1>2, <1>5, Moves DEF Inv, Local
<1>6. ASSUME NEW f \in Emails PROVE fair'[f] <= Burst /\ Refilled(f)'
  BY <1>1, <1>6, RefilledFrame DEF Inv
<1>7. ASSUME NEW k \in Limiters PROVE Sound(k)'
  BY <1>1, SoundFrame DEF Serves
<1> QED BY <1>4, <1>5, <1>6, <1>7 DEF Inv

\* Steps of the sweep: they touch neither buckets nor holders, and entries only
\* to delete them.
LEMMA SweepKeeps ==
  ASSUME NEW p \in Procs, Inv, Check(p) \/ Delete(p) \/ RangeEnds(p) PROVE Inv'
<1>1. /\ UNCHANGED <<now, tokens, email, at, held, fatal, fair, stalled>>
      /\ held[p] \notin Limiters /\ email[p] \in Emails /\ pc[p] \in {"sweep", "delete"}
  BY DEF Check, Delete, RangeEnds, locals, Inv, Local
<1>2. PICK l \in {"sweep", "delete", "store"} : Go(p, l)
  BY DEF Check, Delete, RangeEnds
<1>3. /\ items' \in [Emails -> Item \union {None}]
      /\ \A f \in Emails : items'[f] = items[f] \/ items'[f] = None
  BY DEF Check, Delete, RangeEnds, locals, Inv, TypeOK
<1>4. /\ due' \in [Procs -> SUBSET Emails]
      /\ key' \in [Procs -> Emails \union {None}]
      /\ pc'[p] = "delete" => key'[p] \in Emails
      /\ \A q \in Procs \ {p} : key'[q] = key[q]
  <2>1. CASE Check(p)
    BY <2>1, Moves DEF Check, Present, Inv, TypeOK
  <2>2. CASE Delete(p) \/ RangeEnds(p)
    BY <2>2, Moves DEF Delete, RangeEnds, locals, Inv, TypeOK
  <2> QED BY <2>1, <2>2
<1>5. TypeOK'
  BY <1>1, <1>2, <1>3, <1>4, Moves DEF Inv, TypeOK
<1>6. ASSUME NEW q \in Procs PROVE Local(q)'
  BY <1>1, <1>2, <1>4, <1>6, Moves DEF Inv, Local
<1>7. ASSUME NEW f \in Emails PROVE fair'[f] <= Burst /\ Refilled(f)'
  <2>1. CASE items'[f] = items[f]
    BY <1>1, <1>7, <2>1, RefilledFrame DEF Inv
  <2>2. CASE items'[f] = None
    BY <1>1, <1>7, <2>2 DEF Inv, Refilled
  <2> QED BY <1>3, <1>7, <2>1, <2>2
<1>8. ASSUME NEW k \in Limiters PROVE Sound(k)'
  <2>1. \A f \in Emails : Serves(k, f)' => Serves(k, f)
    BY <1>1, <1>3 DEF Serves
  <2> QED BY <1>1, <2>1, SoundFrame
<1> QED BY <1>5, <1>6, <1>7, <1>8 DEF Inv

\* What Store does, with the bucket it makes.
Stores(p, l) ==
  /\ tokens' = [tokens EXCEPT ![l] = Burst]
  /\ items' = [items EXCEPT ![email[p]] = [lim |-> l, exp |-> at[p] + TTL]]
  /\ held' = [held EXCEPT ![p] = l]

LEMMA StoreMoves ==
  ASSUME NEW p \in Procs, Inv, Store(p)
  PROVE  /\ pc[p] = "store" /\ email[p] \in Emails /\ at[p] \in 0 .. MaxTime
         /\ Go(p, "allow")
         /\ UNCHANGED <<now, email, at, due, key, fatal, fair, stalled>>
         /\ \E l \in Limiters :
              /\ Stores(p, l)
              /\ \A e \in Emails : ~Serves(l, e)
              /\ items'[email[p]] \in Item
              /\ items'[email[p]].lim = l /\ items'[email[p]].exp = at[p] + TTL
              /\ \A f \in Emails \ {email[p]} : items'[f] = items[f]
              /\ held'[p] = l /\ \A q \in Procs \ {p} : held'[q] = held[q]
              /\ tokens'[l] = Burst
              /\ \A k \in Limiters \ {l} : tokens'[k] = tokens[k]
<1>1. /\ pc[p] = "store" /\ email[p] \in Emails /\ at[p] \in 0 .. MaxTime
      /\ Go(p, "allow")
      /\ UNCHANGED <<now, email, at, due, key, fatal, fair, stalled>>
  BY DEF Store, Inv, TypeOK, Local
<1>2. PICK l \in Limiters \ InUse : Stores(p, l)
  BY DEF Store, Stores, NewLimiter
<1>3. \A e \in Emails : ~Serves(l, e)
  BY <1>2 DEF InUse, Present, Serves
<1>4. [lim |-> l, exp |-> at[p] + TTL] \in Item
  BY <1>1, <1>2 DEF Item
<1>5. /\ items'[email[p]] = [lim |-> l, exp |-> at[p] + TTL]
      /\ \A f \in Emails \ {email[p]} : items'[f] = items[f]
      /\ held'[p] = l /\ \A q \in Procs \ {p} : held'[q] = held[q]
      /\ tokens'[l] = Burst
      /\ \A k \in Limiters \ {l} : tokens'[k] = tokens[k]
  BY <1>1, <1>2 DEF Stores, Inv, TypeOK
<1> QED BY <1>1, <1>2, <1>3, <1>4, <1>5

LEMMA StoreKeeps == ASSUME NEW p \in Procs, Inv, Store(p) PROVE Inv'
<1> PICK e : e = email[p]
  OBVIOUS
<1>1. /\ pc[p] = "store" /\ e \in Emails /\ at[p] \in 0 .. MaxTime
      /\ Go(p, "allow")
      /\ UNCHANGED <<now, email, at, due, key, fatal, fair, stalled>>
  BY StoreMoves
<1>2. PICK l \in Limiters :
        /\ Stores(p, l)
        /\ \A f \in Emails : ~Serves(l, f)
        /\ items'[e] \in Item
        /\ items'[e].lim = l /\ items'[e].exp = at[p] + TTL
        /\ \A f \in Emails \ {e} : items'[f] = items[f]
        /\ held'[p] = l /\ \A q \in Procs \ {p} : held'[q] = held[q]
        /\ tokens'[l] = Burst
        /\ \A k \in Limiters \ {l} : tokens'[k] = tokens[k]
  BY StoreMoves
<1>3. /\ items' \in [Emails -> Item \union {None}]
      /\ tokens' \in [Limiters -> 0 .. Burst]
      /\ held' \in [Procs -> Limiters \union {None}]
  BY <1>1, <1>2 DEF Stores, Inv, TypeOK
<1>4. TypeOK'
  BY <1>1, <1>3, Moves DEF Inv, TypeOK
<1>5. ASSUME NEW q \in Procs PROVE Local(q)'
  BY <1>1, <1>2, <1>5, Moves DEF Inv, Local
<1>6. \A q \in Procs : held[q] # l
  BY <1>2 DEF Serves, Inv, Local
<1>7. ASSUME NEW f \in Emails PROVE fair'[f] <= Burst /\ Refilled(f)'
  <2>1. CASE f = e
    <3>1. \A q \in Procs : held'[q] = l => q = p
      BY <1>2, <1>6
    <3>2. at[p] + TTL >= at[p] + TTL - Pause
      BY <1>1
    <3> QED BY <1>1, <1>2, <1>7, <2>1, <3>1, <3>2 DEF Inv, Refilled
  <2>2. CASE f # e
    <3>1. ASSUME items[f] \in Item
          PROVE  items[f].lim \in Limiters \ {l}
      BY <1>2, <1>7, <3>1 DEF Serves, Item
    <3> QED BY <1>1, <1>2, <1>6, <1>7, <2>2, <3>1 DEF Inv, Refilled
  <2> QED BY <2>1, <2>2
<1>8. ASSUME NEW k \in Limiters PROVE Sound(k)'
  <2>1. CASE k = l
    <3>1. \A f \in Emails : Serves(l, f)' => f = e
      BY <1>1, <1>2, <1>6 DEF Serves
    <3> QED BY <1>1, <1>2, <2>1, <3>1 DEF Sound, Inv
  <2>2. CASE k # l
    <3>1. \A f \in Emails : Serves(k, f)' => Serves(k, f)
      BY <1>1, <1>2, <2>2 DEF Serves
    <3> QED BY <1>1, <1>2, <2>2, <3>1 DEF Sound, Inv
  <2> QED BY <2>1, <2>2
<1> QED BY <1>4, <1>5, <1>7, <1>8 DEF Inv

LEMMA AllowMoves ==
  ASSUME NEW p \in Procs, Inv, Allow(p)
  PROVE  /\ pc[p] = "allow" /\ email[p] \in Emails /\ held[p] \in Limiters
         /\ Go(p, "idle") /\ UNCHANGED <<now, items, due, key, fatal, stalled>>
         /\ held'[p] = None /\ \A q \in Procs \ {p} :
              held'[q] = held[q] /\ email'[q] = email[q] /\ at'[q] = at[q]
         /\ \/ UNCHANGED <<tokens, fair>>
            \/ /\ tokens[held[p]] > 0 /\ tokens'[held[p]] = tokens[held[p]] - 1
               /\ fair'[email[p]] = fair[email[p]] - 1
         /\ \A l \in Limiters \ {held[p]} : tokens'[l] = tokens[l]
         /\ \A e \in Emails \ {email[p]} : fair'[e] = fair[e]
<1>1. /\ pc[p] = "allow" /\ email[p] \in Emails /\ held[p] \in Limiters
      /\ Go(p, "idle") /\ UNCHANGED <<now, items, due, key, fatal, stalled>>
  BY DEF Allow, Inv, Local
<1>2. held'[p] = None /\ \A q \in Procs \ {p} :
        held'[q] = held[q] /\ email'[q] = email[q] /\ at'[q] = at[q]
  BY DEF Allow, Inv, TypeOK
<1>3. CASE tokens[held[p]] > 0
  BY <1>1, <1>2, <1>3 DEF Allow, Inv, TypeOK
<1>4. CASE ~(tokens[held[p]] > 0)
  BY <1>1, <1>2, <1>4 DEF Allow
<1> QED BY <1>3, <1>4

LEMMA AllowKeeps == ASSUME NEW p \in Procs, Inv, Allow(p) PROVE Inv'
<1> PICK e, b : e = email[p] /\ b = held[p]
  OBVIOUS
<1>1. /\ pc[p] = "allow" /\ e \in Emails /\ b \in Limiters
      /\ Go(p, "idle") /\ UNCHANGED <<now, items, due, key, fatal, stalled>>
      /\ held'[p] = None /\ \A q \in Procs \ {p} :
           held'[q] = held[q] /\ email'[q] = email[q] /\ at'[q] = at[q]
      /\ \/ UNCHANGED <<tokens, fair>>
         \/ /\ tokens[b] > 0 /\ tokens'[b] = tokens[b] - 1
            /\ fair'[e] = fair[e] - 1
      /\ \A l \in Limiters \ {b} : tokens'[l] = tokens[l]
      /\ \A f \in Emails \ {e} : fair'[f] = fair[f]
  BY AllowMoves
<1>2. /\ tokens' \in [Limiters -> 0 .. Burst] /\ fair' \in [Emails -> Int]
  BY <1>1 DEF Allow, Inv, TypeOK
<1>3. /\ email' \in [Procs -> Emails \union {None}] /\ at' \in [Procs -> 0 .. MaxTime]
      /\ held' \in [Procs -> Limiters \union {None}] /\ at'[p] = 0
  BY DEF Allow, Inv, TypeOK
<1>4. TypeOK'
  BY <1>1, <1>2, <1>3, Moves DEF Inv, TypeOK
<1>5. ASSUME NEW q \in Procs PROVE Local(q)'
  BY <1>1, <1>3, <1>5, Moves DEF Inv, TypeOK, Local
<1>6. ASSUME NEW f \in Emails PROVE fair'[f] <= Burst
  BY <1>1, <1>6 DEF Inv, TypeOK
<1>7. ASSUME NEW f \in Emails, items[f] \in Item, ~stalled PROVE Refilled(f)'
  <2>1. Refilled(f) /\ items[f].lim \in Limiters /\ items[f].exp \in Nat
    BY <1>7 DEF Inv, Item
  <2>2. \A q \in Procs : held'[q] = items[f].lim =>
          held[q] = items[f].lim /\ at'[q] = at[q]
    BY <1>1, <2>1
  <2>3. CASE items[f].lim = b
    <3>1. items[f].exp >= at[p] + TTL - Pause /\ now <= at[p] + Pause
      BY <1>1, <1>7, <2>1, <2>3 DEF Refilled, Inv, Local
    <3>2. at[p] \in Nat /\ now \in Nat /\ tokens'[b] \in Nat
      BY <1>1, <1>2 DEF Inv, TypeOK
    <3>3. now + TTL - 2 * Pause - items[f].exp <= 0
      BY <2>1, <3>1, <3>2
    <3>4. tokens'[b] >= now + TTL - 2 * Pause - items[f].exp
      BY <2>1, <3>2, <3>3
    <3> QED BY <1>1, <1>7, <2>1, <2>2, <2>3, <3>4 DEF Refilled
  <2>4. CASE items[f].lim # b
    BY <1>1, <1>7, <2>1, <2>2, <2>4 DEF Refilled
  <2> QED BY <2>3, <2>4
<1>8. ASSUME NEW f \in Emails PROVE Refilled(f)'
  BY <1>1, <1>7, <1>8 DEF Refilled
<1>9. ASSUME NEW l \in Limiters PROVE Sound(l)'
  <2>1. \A f \in Emails : Serves(l, f)' => Serves(l, f)
    BY <1>1, <1>9 DEF Serves
  <2>2. /\ Sound(l) /\ Serves(b, e)
        /\ tokens[l] \in Nat /\ \A f \in Emails : fair[f] \in Int
    BY <1>1, <1>9 DEF Serves, Inv, TypeOK
  <2>3. ASSUME NEW f \in Emails, Serves(l, f) PROVE fair'[f] <= tokens'[l]
    <3>1. CASE l = b
      <4>1. f = e
        BY <1>1, <2>2, <2>3, <3>1 DEF Sound
      <4> QED BY <1>1, <2>2, <2>3, <3>1, <4>1 DEF Sound
    <3>2. CASE l # b
      BY <1>1, <1>9, <2>2, <2>3, <3>2 DEF Sound
    <3> QED BY <3>1, <3>2
  <2> QED BY <2>1, <2>2, <2>3 DEF Sound
<1> QED BY <1>4, <1>5, <1>6, <1>8, <1>9 DEF Inv

LEMMA TickMoves ==
  ASSUME Inv, Tick
  PROVE  /\ now' = now + 1 /\ now \in Nat /\ now' \in 0 .. MaxTime
         /\ UNCHANGED <<items, pc, email, at, due, key, held, fatal, raced>>
         /\ \A l \in Limiters : tokens'[l] = Refill(tokens[l])
         /\ \A e \in Emails : fair'[e] = Refill(fair[e])
         /\ ~stalled' =>
              ~stalled /\ \A p \in Procs : pc[p] # "idle" => now + 1 <= at[p] + Pause
<1>1. now' = now + 1 /\ now \in Nat /\ now' \in 0 .. MaxTime
  BY DEF Tick, Inv, TypeOK
<1>2. \A p \in Procs : at[p] \in Nat
  BY DEF Inv, TypeOK
<1>3. stalled' = (stalled \/ \E p \in Procs : pc[p] # "idle" /\ now' > at[p] + Pause)
  BY Zenon DEF Tick
<1>4. ~stalled' =>
        ~stalled /\ \A p \in Procs : pc[p] # "idle" => ~(now + 1 > at[p] + Pause)
  BY <1>1, <1>3, Zenon
<1>5. ~stalled' =>
        ~stalled /\ \A p \in Procs : pc[p] # "idle" => now + 1 <= at[p] + Pause
  BY <1>1, <1>2, <1>4
<1> QED BY <1>1, <1>5 DEF Tick, locals

LEMMA TickKeeps == ASSUME Inv, Tick PROVE Inv'
<1>1. /\ now' = now + 1 /\ now \in Nat /\ now' \in 0 .. MaxTime
      /\ UNCHANGED <<items, pc, email, at, due, key, held, fatal, raced>>
      /\ \A l \in Limiters : tokens'[l] = Refill(tokens[l])
      /\ \A e \in Emails : fair'[e] = Refill(fair[e])
      /\ ~stalled' =>
           ~stalled /\ \A p \in Procs : pc[p] # "idle" => now + 1 <= at[p] + Pause
  BY TickMoves
<1>2. /\ tokens' \in [Limiters -> 0 .. Burst] /\ fair' \in [Emails -> Int]
  BY DEF Tick, Refill, Inv, TypeOK
<1>3. stalled' \in BOOLEAN
  BY Zenon DEF Tick, Inv, TypeOK
<1>4. TypeOK'
  BY <1>1, <1>2, <1>3 DEF Inv, TypeOK
<1>5. ASSUME NEW q \in Procs PROVE Local(q)'
  <2>1. Local(q) /\ at[q] \in Nat
    BY <1>5 DEF Inv, TypeOK
  <2> QED BY <1>1, <1>5, <2>1 DEF Local
<1>6. ASSUME NEW f \in Emails PROVE fair'[f] <= Burst
  BY <1>1, <1>6 DEF Refill, Inv, TypeOK
<1>7. ASSUME NEW f \in Emails, items[f] \in Item, ~stalled' PROVE Refilled(f)'
  <2>1. /\ Refilled(f) /\ items[f].lim \in Limiters /\ items[f].exp \in Nat
        /\ tokens[items[f].lim] \in 0 .. Burst
    BY <1>7 DEF Inv, TypeOK, Item
  <2> QED BY <1>1, <1>7, <2>1 DEF Refill, Refilled
<1>8. ASSUME NEW f \in Emails PROVE Refilled(f)'
  BY <1>1, <1>7, <1>8 DEF Refilled
<1>9. ASSUME NEW l \in Limiters PROVE Sound(l)'
  <2>1. \A f \in Emails : Serves(l, f)' <=> Serves(l, f)
    BY <1>1 DEF Serves
  <2>2. tokens[l] \in 0 .. Burst /\ \A f \in Emails : fair[f] \in Int
    BY <1>9 DEF Inv, TypeOK
  <2> QED BY <1>1, <1>9, <2>1, <2>2 DEF Sound, Refill, Inv
<1> QED BY <1>4, <1>5, <1>6, <1>8, <1>9 DEF Inv

LEMMA SameKeeps ==
  ASSUME Inv, fatal' \in BOOLEAN,
         UNCHANGED <<now, items, tokens, pc, locals, fair, raced, stalled>>
  PROVE  Inv'
<1>1. TypeOK'
  BY DEF locals, Inv, TypeOK
<1>2. ASSUME NEW q \in Procs PROVE Local(q)'
  BY <1>2 DEF locals, Inv, Local
<1>3. ASSUME NEW f \in Emails PROVE fair'[f] <= Burst /\ Refilled(f)'
  BY <1>3 DEF locals, Inv, Refilled
<1>4. ASSUME NEW l \in Limiters PROVE Sound(l)'
  BY <1>4, SoundFrame DEF locals, Serves
<1> QED BY <1>1, <1>2, <1>3, <1>4 DEF Inv

LEMMA NextKeeps == Inv /\ [Next]_vars => Inv'
<1> SUFFICES ASSUME Inv, [Next]_vars PROVE Inv'
  OBVIOUS
<1>1. CASE Detect \/ UNCHANGED vars
  <2>1. fatal' \in BOOLEAN
    BY <1>1 DEF Detect, vars, Inv, TypeOK
  <2> QED BY <1>1, <2>1, SameKeeps DEF Detect, vars
<1>2. ASSUME NEW p \in Procs, Lookup(p) PROVE Inv'
  BY <1>2, HitOrMiss, HitKeeps, MissKeeps
<1> QED BY <1>1, <1>2, EnterKeeps, SweepKeeps, StoreKeeps, AllowKeeps,
        TickKeeps DEF Next

LEMMA Invariant == Spec => []Inv
<1>1. Init => Inv
  BY Initial
<1>2. Inv /\ [Next]_vars => Inv'
  BY NextKeeps
<1> QED BY <1>1, <1>2, PTL DEF Spec

\* The variables keep their types; no bucket holds more than its burst or less
\* than nothing.
THEOREM LimiterTypes == Spec => []TypeOK
<1>1. Inv => TypeOK
  BY DEF Inv
<1> QED BY <1>1, Invariant, PTL

\* Nobody is refused before their own limit is used up, whatever races in the
\* map and however long goroutines are held up: replacing a bucket never costs
\* its email a token, and no bucket serves two emails.
THEOREM RefusalsAreFair == Spec => []RefusedOnlyAtLimit
<1>1. Inv => RefusedOnlyAtLimit
  <2> SUFFICES ASSUME Inv, NEW p \in Procs, pc[p] = "allow", tokens[held[p]] = 0
               PROVE  fair[email[p]] <= 0
    BY DEF RefusedOnlyAtLimit
  <2>1. held[p] \in Limiters /\ email[p] \in Emails
    BY DEF Inv, Local
  <2> QED BY <2>1 DEF Inv, Sound, Serves
<1> QED BY <1>1, Invariant, PTL

(***************************************************************************)
(* The limit                                                               *)
(***************************************************************************)

\* The bucket of e stands where the one that is never replaced stands.
Exact(e) ==
  /\ items[e] \in Item => fair[e] = tokens[items[e].lim]
  /\ items[e] \notin Item => fair[e] = Burst

\* What a goroutine found in the map is still so.
Alone(p) ==
  /\ pc[p] = "allow" =>
       items[email[p]] \in Item /\ held[p] = items[email[p]].lim
  /\ Writing(p) => items[email[p]] \notin Item
  /\ pc[p] = "delete" =>
       items[key[p]] \in Item /\ Expired(items[key[p]], at[p])

Calm == (\A e \in Emails : Exact(e)) /\ (\A p \in Procs : Alone(p))

\* Without races and stalls, Gets work as if one came after the other.
Serial ==
  /\ ~raced => ~Racing
  /\ ~raced /\ ~stalled => Calm

\* A goroutine that is past a miss is the only one in the map.
LEMMA Apart ==
  ASSUME ~Racing, NEW p \in Procs, Writing(p), NEW q \in Procs \ {p}
  PROVE  ~Writing(q) /\ ~Reading(q)
BY Zenon DEF Racing

LEMMA EnterCalm ==
  ASSUME NEW p \in Procs, NEW e \in Emails, Inv, Calm, Enter(p, e) PROVE Calm'
<1>1. pc[p] = "idle" /\ Go(p, "lookup")
  BY DEF Enter
<1>2. pc'[p] = "lookup" /\ \A q \in Procs \ {p} : pc'[q] = pc[q]
  BY <1>1, Moves
<1>3. \A q \in Procs \ {p} : email'[q] = email[q] /\ at'[q] = at[q]
  BY DEF Enter, Inv, TypeOK
<1>4. ASSUME NEW q \in Procs PROVE Alone(q)'
  BY <1>2, <1>3, <1>4 DEF Enter, Calm, Alone, Writing
<1>5. \A f \in Emails : Exact(f)'
  BY DEF Enter, Calm, Exact
<1> QED BY <1>4, <1>5 DEF Calm

LEMMA HitCalm ==
  ASSUME NEW p \in Procs, Inv, Calm, ~Racing, Lookup(p), Hit(p) PROVE Calm'
<1>1. /\ pc[p] = "lookup" /\ email[p] \in Emails
      /\ UNCHANGED <<now, tokens, email, at, key, fatal, fair, stalled>>
  BY HitOrMiss
<1>2. /\ items[email[p]] \in Item /\ items'[email[p]] \in Item
      /\ items'[email[p]].lim = items[email[p]].lim
      /\ \A f \in Emails \ {email[p]} : items'[f] = items[f]
      /\ held'[p] = items[email[p]].lim
      /\ \A q \in Procs \ {p} : held'[q] = held[q]
  BY HitMoves
<1>3. pc'[p] = "allow" /\ \A q \in Procs \ {p} : pc'[q] = pc[q]
  BY Moves DEF Hit
<1>4. ASSUME NEW f \in Emails PROVE Exact(f)'
  BY <1>1, <1>2, <1>4 DEF Calm, Exact
<1>5. ASSUME NEW q \in Procs PROVE Alone(q)'
  <2>1. CASE q = p
    BY <1>1, <1>2, <1>3, <2>1 DEF Alone, Writing
  <2>2. CASE q # p
    <3>1. ~Writing(q)
      BY <1>1, <1>5, <2>2, Apart DEF Reading
    <3>2. pc[q] = "allow" => email[q] \in Emails
      BY <1>5 DEF Inv, Local
    <3> QED BY <1>1, <1>2, <1>3, <1>5, <2>2, <3>1, <3>2 DEF Calm, Alone, Writing
  <2> QED BY <2>1, <2>2
<1> QED BY <1>4, <1>5 DEF Calm

LEMMA MissCalm ==
  ASSUME NEW p \in Procs, Inv, Calm, Lookup(p), Miss(p) PROVE Calm'
<1>1. UNCHANGED <<now, tokens, email, at, key, fatal, fair, stalled, items, held>>
  BY HitOrMiss DEF Miss
<1>2. pc'[p] \in {"sweep", "store"} /\ \A q \in Procs \ {p} : pc'[q] = pc[q]
  BY Moves DEF Miss
<1>3. items[email[p]] \notin Item
  BY DEF Miss
<1>4. ASSUME NEW q \in Procs PROVE Alone(q)'
  BY <1>1, <1>2, <1>3, <1>4 DEF Calm, Alone, Writing
<1>5. \A f \in Emails : Exact(f)'
  BY <1>1 DEF Calm, Exact
<1> QED BY <1>4, <1>5 DEF Calm

LEMMA CheckCalm ==
  ASSUME NEW p \in Procs, Inv, Calm, Check(p) \/ RangeEnds(p) PROVE Calm'
<1>1. /\ UNCHANGED <<now, items, tokens, email, at, held, fair>>
      /\ pc[p] = "sweep"
  BY DEF Check, RangeEnds, locals
<1>2. \A q \in Procs \ {p} : pc'[q] = pc[q] /\ key'[q] = key[q]
  BY Moves DEF Check, RangeEnds, locals, Inv, TypeOK
<1>3. \/ pc'[p] \in {"sweep", "store"}
      \/ /\ pc'[p] = "delete" /\ key'[p] \in Present
         /\ Expired(items[key'[p]], at[p])
  <2>1. CASE Check(p)
    BY <2>1, Moves DEF Check, Present, Inv, TypeOK
  <2>2. CASE RangeEnds(p)
    BY <2>2, Moves DEF RangeEnds
  <2> QED BY <2>1, <2>2
<1>4. \A k \in Present : items[k] \in Item
  BY DEF Present, Inv, TypeOK
<1>5. ASSUME NEW q \in Procs PROVE Alone(q)'
  <2>1. CASE q = p
    <3>1. items[email[p]] \notin Item
      BY <1>1 DEF Calm, Alone, Writing
    <3> QED BY <1>1, <1>3, <1>4, <2>1, <3>1 DEF Alone, Writing
  <2>2. CASE q # p
    BY <1>1, <1>2, <1>5, <2>2 DEF Calm, Alone, Writing
  <2> QED BY <2>1, <2>2
<1>6. \A f \in Emails : Exact(f)'
  BY <1>1 DEF Calm, Exact
<1> QED BY <1>5, <1>6 DEF Calm

\* An entry that its sweeper holds expired has a full bucket.
LEMMA ExpiredIsFull ==
  ASSUME Inv, ~stalled, NEW e \in Emails, items[e] \in Item,
         NEW p \in Procs, Expired(items[e], at[p])
  PROVE  tokens[items[e].lim] = Burst
<1>1. /\ items[e].exp \in Nat /\ at[p] \in Nat /\ now \in Nat /\ at[p] <= now
      /\ tokens[items[e].lim] \in 0 .. Burst
  BY DEF Inv, TypeOK, Local, Item
<1> QED BY <1>1 DEF Inv, Refilled, Expired

\* Nobody still holds its bucket.
LEMMA ExpiredIsFree ==
  ASSUME Inv, ~stalled, NEW e \in Emails, items[e] \in Item,
         NEW p \in Procs, Expired(items[e], at[p]),
         NEW q \in Procs, pc[q] = "allow"
  PROVE  held[q] # items[e].lim
<1> SUFFICES ASSUME held[q] = items[e].lim PROVE FALSE
  OBVIOUS
<1>1. items[e].exp >= at[q] + TTL - Pause
  BY DEF Inv, Refilled
<1>2. at[p] <= now /\ now <= at[q] + Pause
  BY DEF Inv, Local
<1>3. at[p] > items[e].exp
  BY DEF Expired
<1>4. /\ items[e].exp \in Nat /\ at[p] \in Nat /\ at[q] \in Nat /\ now \in Nat
  BY DEF Inv, TypeOK, Item
<1> QED BY <1>1, <1>2, <1>3, <1>4

LEMMA DeleteCalm ==
  ASSUME NEW p \in Procs, Inv, Calm, ~Racing, ~stalled, Delete(p) PROVE Calm'
<1> PICK k : k = key[p]
  OBVIOUS
<1>1. /\ UNCHANGED <<now, tokens, email, at, held, fair>>
      /\ pc[p] = "delete" /\ k \in Emails /\ Writing(p)
  BY DEF Delete, Inv, Local, Writing
<1>2. pc'[p] = "sweep" /\ \A q \in Procs \ {p} : pc'[q] = pc[q]
  BY Moves DEF Delete
<1>3. items'[k] = None /\ \A f \in Emails \ {k} : items'[f] = items[f]
  BY <1>1 DEF Delete, Inv, TypeOK
<1>4. items[k] \in Item /\ Expired(items[k], at[p])
  BY <1>1 DEF Calm, Alone
<1>5. ASSUME NEW f \in Emails PROVE Exact(f)'
  <2>1. fair[k] = Burst
    BY <1>1, <1>4, ExpiredIsFull DEF Calm, Exact
  <2> QED BY <1>1, <1>3, <1>5, <2>1 DEF Calm, Exact
<1>6. ASSUME NEW q \in Procs PROVE Alone(q)'
  <2>1. CASE q = p
    <3>1. items[email[p]] \notin Item /\ email[p] \in Emails
      BY <1>1 DEF Calm, Alone, Inv, Local
    <3> QED BY <1>1, <1>2, <1>3, <2>1, <3>1 DEF Alone, Writing
  <2>2. CASE q # p
    <3>1. ~Writing(q)
      BY <1>1, <1>6, <2>2, Apart
    <3>2. ASSUME pc[q] = "allow"
          PROVE  /\ email[q] \in Emails \ {k}
                 /\ items[email[q]] \in Item /\ held[q] = items[email[q]].lim
      <4>1. /\ email[q] \in Emails
            /\ items[email[q]] \in Item /\ held[q] = items[email[q]].lim
        BY <1>6, <3>2 DEF Calm, Alone, Inv, Local
      <4>2. email[q] # k
        BY <1>1, <1>4, <1>6, <3>2, <4>1, ExpiredIsFree
      <4> QED BY <4>1, <4>2
    <3> QED BY <1>1, <1>2, <1>3, <1>6, <2>2, <3>1, <3>2 DEF Alone, Writing
  <2> QED BY <2>1, <2>2
<1> QED BY <1>5, <1>6 DEF Calm

LEMMA StoreCalm ==
  ASSUME NEW p \in Procs, Inv, Calm, ~Racing, Store(p) PROVE Calm'
<1> PICK e : e = email[p]
  OBVIOUS
<1>1. /\ pc[p] = "store" /\ e \in Emails /\ Go(p, "allow") /\ Writing(p)
      /\ UNCHANGED <<now, email, at, due, key, fatal, fair, stalled>>
  BY StoreMoves DEF Writing
<1>2. PICK l \in Limiters :
        /\ \A f \in Emails : ~Serves(l, f)
        /\ items'[e] \in Item /\ items'[e].lim = l
        /\ \A f \in Emails \ {e} : items'[f] = items[f]
        /\ held'[p] = l /\ \A q \in Procs \ {p} : held'[q] = held[q]
        /\ tokens'[l] = Burst
        /\ \A k \in Limiters \ {l} : tokens'[k] = tokens[k]
  BY StoreMoves
<1>3. pc'[p] = "allow" /\ \A q \in Procs \ {p} : pc'[q] = pc[q]
  BY <1>1, Moves
<1>4. items[e] \notin Item /\ fair[e] = Burst
  BY <1>1 DEF Calm, Alone, Exact
<1>5. ASSUME NEW f \in Emails PROVE Exact(f)'
  <2>1. CASE f = e
    BY <1>1, <1>2, <1>4, <2>1 DEF Exact
  <2>2. CASE f # e
    <3>1. items[f] \in Item => items[f].lim \in Limiters \ {l}
      BY <1>2, <1>5 DEF Serves, Item
    <3> QED BY <1>1, <1>2, <1>5, <2>2, <3>1 DEF Calm, Exact
  <2> QED BY <2>1, <2>2
<1>6. ASSUME NEW q \in Procs PROVE Alone(q)'
  <2>1. CASE q = p
    BY <1>1, <1>2, <1>3, <2>1 DEF Alone, Writing
  <2>2. CASE q # p
    <3>1. ~Writing(q)
      BY <1>1, <1>6, <2>2, Apart
    <3>2. ASSUME pc[q] = "allow"
          PROVE  /\ email[q] \in Emails \ {e}
                 /\ items[email[q]] \in Item /\ held[q] = items[email[q]].lim
      BY <1>4, <1>6, <3>2 DEF Calm, Alone, Inv, Local
    <3> QED BY <1>1, <1>2, <1>3, <1>6, <2>2, <3>1, <3>2 DEF Alone, Writing
  <2> QED BY <2>1, <2>2
<1> QED BY <1>5, <1>6 DEF Calm

LEMMA AllowCalm ==
  ASSUME NEW p \in Procs, Inv, Calm, Allow(p) PROVE Calm'
<1> PICK e, b : e = email[p] /\ b = held[p]
  OBVIOUS
<1>1. /\ pc[p] = "allow" /\ e \in Emails /\ b \in Limiters
      /\ Go(p, "idle") /\ UNCHANGED <<now, items, due, key, fatal, stalled>>
      /\ \A q \in Procs \ {p} :
           held'[q] = held[q] /\ email'[q] = email[q] /\ at'[q] = at[q]
      /\ \/ UNCHANGED <<tokens, fair>>
         \/ tokens'[b] = tokens[b] - 1 /\ fair'[e] = fair[e] - 1
      /\ \A l \in Limiters \ {b} : tokens'[l] = tokens[l]
      /\ \A f \in Emails \ {e} : fair'[f] = fair[f]
  BY AllowMoves
<1>2. pc'[p] = "idle" /\ \A q \in Procs \ {p} : pc'[q] = pc[q]
  BY <1>1, Moves
<1>3. items[e] \in Item /\ b = items[e].lim
  BY <1>1 DEF Calm, Alone
<1>4. ASSUME NEW f \in Emails PROVE Exact(f)'
  <2>1. CASE f = e
    BY <1>1, <1>3, <2>1 DEF Calm, Exact
  <2>2. CASE f # e
    <3>1. ASSUME items[f] \in Item PROVE items[f].lim \in Limiters \ {b}
      <4>1. Serves(b, e) /\ Sound(b) /\ items[f].lim \in Limiters
        BY <1>1, <1>3, <3>1 DEF Serves, Inv, Item
      <4>2. items[f].lim = b => Serves(b, f)
        BY <3>1 DEF Serves
      <4> QED BY <1>1, <1>4, <2>2, <4>1, <4>2 DEF Sound
    <3> QED BY <1>1, <1>4, <2>2, <3>1 DEF Calm, Exact
  <2> QED BY <2>1, <2>2
<1>5. ASSUME NEW q \in Procs PROVE Alone(q)'
  BY <1>1, <1>2, <1>5 DEF Calm, Alone, Writing
<1> QED BY <1>4, <1>5 DEF Calm

LEMMA TickCalm == ASSUME Inv, Calm, Tick PROVE Calm'
<1>1. /\ UNCHANGED <<items, pc, email, at, key, held>>
      /\ \A l \in Limiters : tokens'[l] = Refill(tokens[l])
      /\ \A e \in Emails : fair'[e] = Refill(fair[e])
  BY TickMoves
<1>2. ASSUME NEW f \in Emails PROVE Exact(f)'
  <2>1. items[f] \in Item => items[f].lim \in Limiters
    BY DEF Item
  <2> QED BY <1>1, <1>2, <2>1 DEF Calm, Exact, Refill
<1>3. ASSUME NEW q \in Procs PROVE Alone(q)'
  BY <1>1, <1>3 DEF Calm, Alone, Writing
<1> QED BY <1>2, <1>3 DEF Calm

LEMMA SameCalm ==
  ASSUME Calm, UNCHANGED <<items, tokens, pc, locals, fair>> PROVE Calm'
BY DEF locals, Calm, Exact, Alone, Writing

\* A step that is seen to race sets the flag.
LEMMA RacesAreSeen ==
  ASSUME [Next]_vars, ~raced => ~Racing PROVE (raced => raced') /\ (~raced' => ~Racing')
<1>1. CASE \E p \in Procs, l \in {"idle", "lookup", "sweep", "delete", "store", "allow"} : Go(p, l)
  BY <1>1, Zenon DEF Go
<1>2. CASE Tick \/ Detect \/ UNCHANGED vars
  <2>1. UNCHANGED <<pc, raced>>
    BY <1>2 DEF Tick, Detect, vars
  <2> QED BY <2>1 DEF Racing, Writing, Reading
<1> QED BY <1>1, <1>2 DEF Next, Enter, Lookup, Check, Delete, RangeEnds, Store, Allow

LEMMA SerialKeeps == Inv /\ Serial /\ [Next]_vars => Serial'
<1> SUFFICES ASSUME Inv, Serial, [Next]_vars PROVE Serial'
  OBVIOUS
<1>1. ~raced' => ~raced /\ ~Racing /\ ~Racing'
  BY RacesAreSeen DEF Serial
<1>2. ~stalled' => ~stalled
  <2>1. CASE Tick
    BY <2>1, TickMoves
  <2>2. CASE ~Tick
    BY <2>2 DEF Next, Enter, Lookup, Check, Delete, RangeEnds, Store, Allow, Detect, vars
  <2> QED BY <2>1, <2>2
<1>3. ASSUME ~raced', ~stalled' PROVE Calm'
  <2>1. Calm /\ ~Racing /\ ~stalled
    BY <1>1, <1>2, <1>3 DEF Serial, Calm
  <2>2. ASSUME NEW p \in Procs, Lookup(p) PROVE Calm'
    BY <2>1, <2>2, HitOrMiss, HitCalm, MissCalm
  <2>3. ASSUME Detect \/ UNCHANGED vars PROVE Calm'
    BY <2>1, <2>3, SameCalm DEF Detect, vars
  <2> QED BY <2>1, <2>2, <2>3, EnterCalm, CheckCalm, DeleteCalm, StoreCalm,
          AllowCalm, TickCalm DEF Next
<1> QED BY <1>1, <1>3 DEF Serial, Calm

\* Unless Gets race in the map or a goroutine stalls, Login lets no more through
\* for an email than one bucket that is never replaced: entries that expire, are
\* swept and come back give nothing away.
THEOREM LimitHolds == Spec => []LimitUnlessRaced
<1>1. Init => Serial
  BY DEF Init, Serial, Calm, Exact, Alone, Racing, Writing
<1>2. Inv /\ Serial => LimitUnlessRaced
  <2> SUFFICES ASSUME Inv, Serial, ~raced, ~stalled, NEW e \in Emails PROVE fair[e] >= 0
    BY DEF LimitUnlessRaced
  <2>1. items[e] \in Item => tokens[items[e].lim] \in Nat
    BY DEF Inv, TypeOK, Item
  <2> QED BY <2>1 DEF Serial, Calm, Exact
<1> QED BY <1>1, <1>2, Invariant, SerialKeeps, PTL DEF Spec

(***************************************************************************)
(* The window of the sweep                                                 *)
(***************************************************************************)

\* An entry is gone after a step only if a sweep deleted it.
LEMMA GoneIsDeleted ==
  ASSUME NEW e \in Emails, Inv, [Next]_vars, items[e] # None, items'[e] = None
  PROVE  items[e] \in Item /\ \E p \in Procs : Delete(p) /\ key[p] = e
<1>1. items[e] \in Item
  BY DEF Inv, TypeOK
<1>2. ASSUME NEW p \in Procs PROVE ~Lookup(p)
  <2> SUFFICES ASSUME Lookup(p) PROVE FALSE
    OBVIOUS
  <2>1. CASE Hit(p)
    BY <1>1, <2>1, HitMoves
  <2>2. CASE Miss(p)
    BY <2>2 DEF Miss
  <2> QED BY <2>1, <2>2, HitOrMiss
<1>3. ASSUME NEW p \in Procs PROVE ~Store(p)
  BY StoreMoves
<1>4. ~(Tick \/ Detect \/ UNCHANGED vars)
  BY DEF Tick, Detect, vars
<1>5. ASSUME NEW p \in Procs, NEW f \in Emails
      PROVE  ~(Enter(p, f) \/ Allow(p) \/ Check(p) \/ RangeEnds(p))
  BY DEF Enter, Allow, Check, RangeEnds
<1>6. PICK p \in Procs : Delete(p)
  BY <1>2, <1>3, <1>4, <1>5 DEF Next
<1>7. key[p] = e
  BY <1>6 DEF Delete, Inv, TypeOK
<1> QED BY <1>1, <1>6, <1>7

\* A bucket that is not full is lost only in the window of the sweep, when
\* another Get returned it between the check of its entry and the deletion.
THEOREM OnlyTheWindowForgets == Spec => ForgetsFullOrTouched
<1>1. ASSUME NEW e \in Emails, Inv, [Next]_vars, items[e] # None, items'[e] = None
      PROVE  \/ tokens[items[e].lim] = Burst
             \/ stalled
             \/ \E p \in Procs :
                  pc[p] = "delete" /\ key[p] = e /\ ~Expired(items[e], at[p])
  <2>1. PICK p \in Procs : items[e] \in Item /\ Delete(p) /\ key[p] = e
    BY <1>1, GoneIsDeleted
  <2>2. pc[p] = "delete"
    BY <2>1 DEF Delete
  <2> QED BY <1>1, <2>1, <2>2, ExpiredIsFull
<1>2. Inv /\ [Next]_vars =>
        [\A e \in Emails : items[e] # None /\ items'[e] = None =>
           \/ tokens[items[e].lim] = Burst
           \/ stalled
           \/ \E p \in Procs :
                pc[p] = "delete" /\ key[p] = e /\ ~Expired(items[e], at[p])]_vars
  BY <1>1
<1> QED BY <1>2, Invariant, PTL DEF Spec, ForgetsFullOrTouched
====
