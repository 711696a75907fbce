----------------------- MODULE BackgroundSessionsProofs -----------------------
(***************************************************************************)
(* No session of the daemon is lost by the background, as long as no       *)
(* request has timed out (BackgroundOwnership!NoLostSession), for every    *)
(* number of tabs, bridges, frames, devices, tokens and revokers.          *)
(*                                                                         *)
(* That a session is answered for needs, besides what OwnershipInv says,   *)
(* why forgetting one is right: the daemon has confirmed its close         *)
(* (Confirmed), or the event of its device's removal is what makes the     *)
(* background forget it, and a session opened since comes after that event *)
(* in the pipe (Young); and that no continuation runs on behalf of a       *)
(* handler that has gone on to its next request (Counted, Awaited).        *)
(***************************************************************************)
EXTENDS BackgroundOwnershipProofs

---------------------------------------------------------------------------
(* The invariant *)

(* The calls of the bridge b in the queue q: a revoker counts for itself.  *)
Asks(q, b) == {i \in DOMAIN q : q[i].by = b /\ q[i].why # "revoke"}
Asked(b) == Cardinality(Asks(toAddon, b)) + Cardinality(Asks(served, b))
              + Cardinality(Asks(toDaemon, b)) + Cardinality(Asks(ready, b))

(* The answers a handler still waits for *)
Awaits(s) == IF s.pc \in {"idle", "grant", "recheck"} THEN 0
             ELSE IF s.pc = "purging" THEN s.n ELSE 1

(* A call is one the handler waits for. *)
AwaitedBy(c, s) ==
  \/ c.why = "open" /\ s.pc = "opening" /\ c.dev = s.dev
  \/ c.why = "close" /\ s.pc = "closing"
  \/ c.why = "late" /\ s.pc = "late"
  \/ c.why = "purge" /\ s.pc = "purging"
  \/ c.why = "cleanup" /\ s.pc = "cleaning"

Counted ==
  /\ \A b \in Bridge : Asked(b) = Awaits(ctl[b])
  /\ \A b \in Bridge : IF ctl[b].pc = "purging" THEN ctl[b].n >= 1 ELSE ctl[b].n = 0
  /\ \A c \in InFlight, b \in Bridge : (c.by = b /\ c.why # "revoke") => AwaitedBy(c, ctl[b])

(* What the daemon holds was opened over this connection or an earlier one *)
Opened ==
  /\ epoch \in Nat /\ DOMAIN opened \subseteq Token
  /\ \A t \in DOMAIN opened : opened[t].epoch \in Nat /\ opened[t].epoch <= epoch
  /\ (port = "down") => (toAddon = <<>> /\ served = <<>>)

(* Everyone knows the device of a session that the daemon holds. *)
On(t, d) == (t \in DOMAIN opened) => opened[t].dev = d
Devices ==
  /\ \A t \in DOMAIN owner : On(t, owner[t].dev)
  /\ \A t \in DOMAIN orphans : On(t, orphans[t])
  /\ \A c \in InFlight : (c.op = "close" \/ c.status = "ok") => On(c.tok, c.dev)
  /\ \A f \in Frame, d \in Device, t \in Token : (<<f, d, t>> \in duty) => On(t, d)
  /\ \A b \in Rechecks : On(ctl[b].tok, ctl[b].dev)
  /\ \A r \in Revoker, t \in Token : (t \in revoke[r].toks) => On(t, revoke[r].dev)

(* A close that succeeded has ended the session. *)
Confirmed == \A c \in InFlight : (c.op = "close" /\ c.status = "ok") => c.tok \notin DOMAIN opened

(* A session on a device whose removal is still to be told was opened      *)
(* since: its answer comes after the event.  An answer that is served is   *)
(* never such an event.                                                    *)
OfferedAfter(q, i, t) == \E j \in OffersAt(q) : j > i /\ q[j].tok = t
Young ==
  /\ \A i \in DOMAIN served : served[i].op # "gone"
  /\ \A i \in DOMAIN toAddon, t \in DOMAIN opened :
        (toAddon[i].op = "gone" /\ opened[t].dev = toAddon[i].dev /\ opened[t].epoch = epoch)
          => t \in Offers(served) \/ OfferedAfter(toAddon, i, t)

(* A session that is answered for: not by the page's own close, which may  *)
(* be refused.                                                             *)
Held(t) ==
  \/ t \in DOMAIN owner \/ t \in DOMAIN orphans \/ t \in Offered \/ Dying(t)
  \/ \E b \in Rechecks : ctl[b].tok = t
Answered == (port = "up") => \A t \in DOMAIN opened : opened[t].epoch = epoch => Held(t)

AllLive == \A c \in InFlight : c.live
Openers == \A c \in InFlight : (c.why = "open") => c.by \in Bridge

SessionsHeld ==
  /\ AllLive /\ Openers /\ Counted /\ Opened
  /\ Devices /\ Confirmed /\ Young /\ Answered
SessionInv == OwnershipInv /\ timeouts \in Nat /\ (timeouts = 0 => SessionsHeld)

---------------------------------------------------------------------------
(* Counting the calls of a bridge in the queues *)

LEMMA SameSize ==
  ASSUME NEW S, NEW T, IsFiniteSet(S), NEW f \in [S -> T],
         \A x, y \in S : f[x] = f[y] => x = y,
         \A y \in T : \E x \in S : f[x] = y
  PROVE  IsFiniteSet(T) /\ Cardinality(T) = Cardinality(S)
<1>1. f \in Surjection(S, T) /\ f \in Injection(S, T)
  BY DEF Surjection, Injection, IsInjective
<1> QED BY <1>1, FS_Surjection

LEMMA AsksFinite ==
  ASSUME NEW q \in Seq(Calls), NEW b
  PROVE  IsFiniteSet(Asks(q, b)) /\ Cardinality(Asks(q, b)) \in Nat
<1>1. DOMAIN q = 1..Len(q) /\ Len(q) \in Nat
  OBVIOUS
<1>2. IsFiniteSet(1..Len(q)) /\ Asks(q, b) \in SUBSET (1..Len(q))
  BY <1>1, FS_Interval DEF Asks
<1>3. IsFiniteSet(Asks(q, b))
  BY <1>2, FS_Subset
<1> QED BY <1>3, FS_CardinalityType

LEMMA AsksOfConcat ==
  ASSUME NEW s \in Seq(Calls), NEW u \in Seq(Calls), NEW b
  PROVE  Cardinality(Asks(s \o u, b)) = Cardinality(Asks(s, b)) + Cardinality(Asks(u, b))
<1> DEFINE v == s \o u
           n == Len(s)
           A == Asks(s, b)
           B == Asks(u, b)
           C == {n + i : i \in B}
           f == [i \in B |-> n + i]
<1>1. /\ DOMAIN v = 1..n + Len(u) /\ DOMAIN s = 1..n /\ DOMAIN u = 1..Len(u)
      /\ n \in Nat /\ Len(u) \in Nat
      /\ \A i \in 1..n : v[i] = s[i]
      /\ \A i \in 1..Len(u) : v[n + i] = u[i]
  OBVIOUS
<1> HIDE DEF v, n
<1>2. IsFiniteSet(A) /\ IsFiniteSet(B) /\ Cardinality(A) \in Nat /\ Cardinality(B) \in Nat
  BY AsksFinite
<1>3. IsFiniteSet(C) /\ Cardinality(C) = Cardinality(B)
  <2>1. B \subseteq Nat
    BY <1>1 DEF Asks
  <2>2. \A i \in B : f[i] = n + i
    OBVIOUS
  <2>3. f \in [B -> C] /\ \A y \in C : \E x \in B : f[x] = y
    OBVIOUS
  <2>4. \A x, y \in B : f[x] = f[y] => x = y
    BY <1>1, <2>1, <2>2
  <2> HIDE DEF f, B, C
  <2> QED BY <1>2, <2>3, <2>4, SameSize
<1>4. Asks(v, b) = A \cup C
  <2>1. ASSUME NEW i \in Asks(v, b) PROVE i \in A \cup C
    <3>1. i \in 1..n + Len(u) /\ v[i].by = b /\ v[i].why # "revoke"
      BY <1>1, <2>1 DEF Asks
    <3>2. CASE i <= n
      <4>1. i \in 1..n
        BY <1>1, <3>1, <3>2
      <4> QED BY <1>1, <3>1, <4>1 DEF Asks
    <3>3. CASE i > n
      <4> DEFINE k == i - n
      <4>1. k \in 1..Len(u) /\ i = n + k
        BY <1>1, <3>1, <3>3
      <4> HIDE DEF k
      <4>2. k \in B
        BY <1>1, <3>1, <4>1 DEF Asks
      <4> QED BY <4>1, <4>2
    <3> QED BY <1>1, <3>1, <3>2, <3>3
  <2>2. ASSUME NEW i \in A PROVE i \in Asks(v, b)
    <3>1. i \in 1..n /\ s[i].by = b /\ s[i].why # "revoke"
      BY <1>1, <2>2 DEF Asks
    <3>2. i \in 1..n + Len(u)
      BY <1>1, <3>1
    <3> QED BY <1>1, <3>1, <3>2 DEF Asks
  <2>3. ASSUME NEW i \in C PROVE i \in Asks(v, b)
    <3>1. PICK k \in B : i = n + k
      BY <2>3
    <3>2. k \in 1..Len(u) /\ u[k].by = b /\ u[k].why # "revoke"
      BY <1>1 DEF Asks
    <3>3. i \in 1..n + Len(u)
      BY <1>1, <3>1, <3>2
    <3> QED BY <1>1, <3>1, <3>2, <3>3 DEF Asks
  <2> QED BY <2>1, <2>2, <2>3
<1>5. A \cap C = {}
  <2>1. A \subseteq 1..n /\ B \subseteq 1..Len(u)
    BY <1>1 DEF Asks
  <2>2. \A i \in B : n + i \notin 1..n
    BY <1>1, <2>1
  <2> QED BY <2>1, <2>2
<1> HIDE DEF A, B, C
<1>6. Cardinality(A \cup C) = Cardinality(A) + Cardinality(C)
  <2>1. Cardinality(A \cup C) = Cardinality(A) + Cardinality(C) - Cardinality(A \cap C)
    BY <1>2, <1>3, FS_Union
  <2>2. Cardinality(A \cap C) = 0
    BY <1>5, FS_EmptySet
  <2> QED BY <1>2, <1>3, <2>1, <2>2
<1> QED BY <1>3, <1>4, <1>6 DEF v, A, B

LEMMA AsksOfNone ==
  ASSUME NEW q, NEW b, \A i \in DOMAIN q : q[i].by # b \/ q[i].why = "revoke"
  PROVE  Cardinality(Asks(q, b)) = 0
<1>1. Asks(q, b) = {}
  BY DEF Asks
<1> QED BY <1>1, FS_EmptySet

LEMMA AsksOfEmpty == \A b : Cardinality(Asks(<<>>, b)) = 0
<1> DEFINE e == <<>>
<1>1. DOMAIN e = {}
  OBVIOUS
<1> HIDE DEF e
<1>2. \A b : Cardinality(Asks(e, b)) = 0
  BY <1>1, AsksOfNone
<1> QED BY <1>2 DEF e

(* One call *)
LEMMA AsksOfOne ==
  ASSUME NEW c, NEW b
  PROVE  Cardinality(Asks(<<c>>, b)) = IF c.by = b /\ c.why # "revoke" THEN 1 ELSE 0
<1> DEFINE q == <<c>>
<1>1. DOMAIN q = {1} /\ q[1] = c
  OBVIOUS
<1> HIDE DEF q
<1>2. CASE c.by = b /\ c.why # "revoke"
  <2>1. Asks(q, b) = {1}
    BY <1>1, <1>2 DEF Asks
  <2> QED BY <1>2, <2>1, FS_Singleton DEF q
<1>3. CASE ~(c.by = b /\ c.why # "revoke")
  <2>1. Asks(q, b) = {}
    BY <1>1, <1>3 DEF Asks
  <2> QED BY <1>3, <2>1, FS_EmptySet DEF q
<1> QED BY <1>2, <1>3

(* The calls behind the first *)
LEMMA AsksOfTail ==
  ASSUME NEW q \in Seq(Calls), q # <<>>, NEW b
  PROVE  Cardinality(Asks(q, b))
           = Cardinality(Asks(Tail(q), b))
               + (IF Head(q).by = b /\ Head(q).why # "revoke" THEN 1 ELSE 0)
<1> DEFINE c == Head(q)
           one == <<c>>
           r == Tail(q)
           w == one \o r
<1>1. c \in Calls /\ r \in Seq(Calls) /\ one \in Seq(Calls) /\ q = w
  OBVIOUS
<1>2. Cardinality(Asks(one, b)) = IF c.by = b /\ c.why # "revoke" THEN 1 ELSE 0
  BY AsksOfOne
<1>3. Cardinality(Asks(r, b)) \in Nat
  BY <1>1, AsksFinite
<1> HIDE DEF c, one, r
<1>4. Cardinality(Asks(w, b)) = Cardinality(Asks(one, b)) + Cardinality(Asks(r, b))
  BY <1>1, AsksOfConcat
<1> HIDE DEF w
<1>5. Cardinality(Asks(q, b))
        = Cardinality(Asks(r, b)) + (IF c.by = b /\ c.why # "revoke" THEN 1 ELSE 0)
  BY <1>1, <1>2, <1>3, <1>4
<1> QED BY <1>5 DEF c, r

---------------------------------------------------------------------------
(* The calls in flight after a step, and what they were before *)

(* The same call, moved, or answered with an error *)
Same(c, e) ==
  /\ e.op = c.op /\ e.why = c.why /\ e.by = c.by /\ e.dev = c.dev /\ e.live = c.live
  /\ (e.op = "close") => (e.tok = c.tok)
  /\ (e.status = "ok") => (c.status = "ok" /\ e.tok = c.tok)

(* The calls G are some of F, and the calls N, which are new. *)
Comes(F, G, N) == \A e \in G : \E c \in F \cup N : Same(c, e)

LEMMA SameAsItself == \A c : Same(c, c)
BY DEF Same

(* A bridge that waits for nothing has no call in the queues. *)
LEMMA NotAsked ==
  ASSUME NEW p \in Seq(Calls), NEW q \in Seq(Calls), NEW s \in Seq(Calls), NEW u \in Seq(Calls), NEW b,
         Cardinality(Asks(p, b)) + Cardinality(Asks(q, b)) + Cardinality(Asks(s, b))
           + Cardinality(Asks(u, b)) = 0,
         NEW c \in Range(p) \cup Range(q) \cup Range(s) \cup Range(u)
  PROVE  c.by # b \/ c.why = "revoke"
<1>1. \A x \in Seq(Calls) : IsFiniteSet(Asks(x, b)) /\ Cardinality(Asks(x, b)) \in Nat
  BY AsksFinite
<1>2. /\ Cardinality(Asks(p, b)) = 0 /\ Cardinality(Asks(q, b)) = 0
      /\ Cardinality(Asks(s, b)) = 0 /\ Cardinality(Asks(u, b)) = 0
  <2>1. /\ Cardinality(Asks(p, b)) \in Nat /\ Cardinality(Asks(q, b)) \in Nat
        /\ Cardinality(Asks(s, b)) \in Nat /\ Cardinality(Asks(u, b)) \in Nat
    BY <1>1
  <2> QED BY <2>1
<1>3. Asks(p, b) = {} /\ Asks(q, b) = {} /\ Asks(s, b) = {} /\ Asks(u, b) = {}
  BY <1>1, <1>2, FS_EmptySet
<1>4. \A x : (Asks(x, b) = {}) => \A e \in Range(x) : e.by # b \/ e.why = "revoke"
  BY DEF Asks, Range
<1> QED BY <1>3, <1>4

(* A handler whose request is over, or begins, meets no answer of another. *)
LEMMA CountedKept ==
  ASSUME OwnershipInv, Queues', Counted, ctl' \in [Bridge -> CtlRec],
         NEW N, Comes(InFlight, InFlight', N),
         \A b \in Bridge : Asked(b)' = Awaits(ctl'[b]),
         \A b \in Bridge : IF ctl'[b].pc = "purging" THEN ctl'[b].n >= 1 ELSE ctl'[b].n = 0,
         \A c \in N, b \in Bridge : (c.by = b /\ c.why # "revoke") => AwaitedBy(c, ctl'[b]),
         \A b \in Bridge :
           \/ ctl'[b].pc = ctl[b].pc /\ ctl'[b].dev = ctl[b].dev
           \/ Awaits(ctl[b]) = 0 \/ Awaits(ctl'[b]) = 0
  PROVE  Counted'
<1>1. \A e \in InFlight', b \in Bridge : (e.by = b /\ e.why # "revoke") => AwaitedBy(e, ctl'[b])
  <2> SUFFICES ASSUME NEW e \in InFlight', NEW b \in Bridge, e.by = b, e.why # "revoke"
               PROVE  AwaitedBy(e, ctl'[b])
    OBVIOUS
  <2>1. PICK c \in InFlight \cup N : Same(c, e)
    BY DEF Comes
  <2>2. c.by = b /\ c.why = e.why /\ c.dev = e.dev
    BY <2>1 DEF Same
  <2>3. CASE c \in N
    <3>1. AwaitedBy(c, ctl'[b])
      BY <2>2, <2>3
    <3> QED BY <2>2, <3>1 DEF AwaitedBy
  <2>4. CASE c \in InFlight
    <3>1. AwaitedBy(c, ctl[b])
      BY <2>2, <2>4 DEF Counted
    <3>2. CASE ctl'[b].pc = ctl[b].pc /\ ctl'[b].dev = ctl[b].dev
      BY <2>2, <3>1, <3>2 DEF AwaitedBy
    <3>3. CASE Awaits(ctl[b]) = 0
      <4>1. Asked(b) = 0
        BY <3>3 DEF Counted
      <4>2. InFlight = Range(toAddon) \cup Range(served) \cup Range(toDaemon) \cup Range(ready)
        BY InFlightIs DEF OwnershipInv
      <4>3. /\ toAddon \in Seq(Calls) /\ served \in Seq(Calls) /\ toDaemon \in Seq(Calls)
            /\ ready \in Seq(Calls)
        BY DEF OwnershipInv, Shape, Queues
      <4>4. c.by # b \/ c.why = "revoke"
        BY <2>4, <4>1, <4>2, <4>3, NotAsked DEF Asked
      <4> QED BY <2>2, <4>4
    <3>4. CASE Awaits(ctl'[b]) = 0
      <4>1. Asked(b)' = 0
        BY <3>4
      <4>2. InFlight' = Range(toAddon') \cup Range(served') \cup Range(toDaemon') \cup Range(ready')
        BY NextInFlightIs
      <4>3. /\ toAddon' \in Seq(Calls) /\ served' \in Seq(Calls) /\ toDaemon' \in Seq(Calls)
            /\ ready' \in Seq(Calls)
        BY DEF Queues
      <4>4. e.by # b \/ e.why = "revoke"
        BY <4>1, <4>2, <4>3, NotAsked DEF Asked
      <4> QED BY <4>4
    <3> QED BY <3>2, <3>3, <3>4
  <2> QED BY <2>1, <2>3, <2>4
<1> QED BY <1>1 DEF Counted

(* sendFrame: the requests follow what is in the queues. *)
LEMMA SendComes ==
  ASSUME OwnershipInv, UNCHANGED <<toAddon, served>>,
         NEW calls \in Seq(Calls), NEW rdy \in Seq(Calls), Range(rdy) \subseteq Range(ready),
         \A c \in Range(calls) : c.status = "none", Distinct(rdy), Send(calls, rdy)
  PROVE  /\ Queues' /\ Comes(InFlight, InFlight', Range(calls))
         /\ Offers(ready') = Offers(rdy)
         /\ \A b : Cardinality(Asks(toDaemon', b)) + Cardinality(Asks(ready', b))
                     = Cardinality(Asks(toDaemon, b)) + Cardinality(Asks(rdy, b))
                         + Cardinality(Asks(calls, b))
         /\ \/ port' = port /\ epoch' = epoch
            \/ port = "down" /\ port' = "up" /\ epoch' = epoch + 1
<1>1. /\ toDaemon \in Seq(Calls) /\ toAddon \in Seq(Calls) /\ served \in Seq(Calls)
      /\ Connected /\ Offers(toDaemon) = {}
  BY DEF OwnershipInv, Shape, Queues, Fresh
<1>2. toDaemon' \in Seq(Calls) /\ ready' \in Seq(Calls) /\ Offers(ready') = Offers(rdy)
  BY <1>1, SendCalls
<1>3. Queues'
  BY <1>1, <1>2 DEF Queues
<1>4. /\ InFlight = Range(toAddon) \cup Range(served) \cup Range(toDaemon) \cup Range(ready)
      /\ InFlight' = Range(toAddon) \cup Range(served) \cup Range(toDaemon') \cup Range(ready')
  BY <1>3, InFlightIs, NextInFlightIs DEF OwnershipInv
<1>5. CASE /\ calls = <<>> \/ port = "up"
           /\ toDaemon' = toDaemon \o calls /\ ready' = rdy /\ UNCHANGED <<port, epoch>>
  <2> DEFINE all == toDaemon \o calls
  <2>1. /\ Range(all) = Range(toDaemon) \cup Range(calls)
        /\ \A b : Cardinality(Asks(all, b)) = Cardinality(Asks(toDaemon, b)) + Cardinality(Asks(calls, b))
    BY <1>1, RangeOfConcat, AsksOfConcat
  <2>2. toDaemon' = all
    BY <1>5
  <2> HIDE DEF all
  <2>3. Comes(InFlight, InFlight', Range(calls))
    BY <1>4, <1>5, <2>1, <2>2, SameAsItself DEF Comes
  <2>4. \A b : /\ Cardinality(Asks(toDaemon, b)) \in Nat /\ Cardinality(Asks(rdy, b)) \in Nat
               /\ Cardinality(Asks(calls, b)) \in Nat
    BY <1>1, AsksFinite
  <2>5. \A b : Cardinality(Asks(toDaemon', b)) + Cardinality(Asks(ready', b))
                 = Cardinality(Asks(toDaemon, b)) + Cardinality(Asks(rdy, b))
                     + Cardinality(Asks(calls, b))
    BY <1>5, <2>1, <2>2, <2>4
  <2> QED BY <1>2, <1>3, <1>5, <2>3, <2>5
<1>6. CASE /\ calls # <<>> /\ port = "down"
           /\ port' = "up" /\ epoch' = epoch + 1
           /\ ready' = Append(rdy, [Head(calls) EXCEPT !.status = "err"])
           /\ toDaemon' = Tail(calls)
  <2> DEFINE c0 == Head(calls)
             e0 == [c0 EXCEPT !.status = "err"]
             one == <<e0>>
             more == rdy \o one
             rest == Tail(calls)
  <2>1. rest \in Seq(Calls) /\ c0 \in Calls /\ Range(calls) = {c0} \cup Range(rest)
    BY <1>6, TailOf, RangeOfTail
  <2>2. \A b : Cardinality(Asks(calls, b))
                 = Cardinality(Asks(rest, b)) + (IF c0.by = b /\ c0.why # "revoke" THEN 1 ELSE 0)
    BY <1>6, AsksOfTail
  <2> HIDE DEF c0, rest
  <2>3. e0 \in Calls /\ Same(c0, e0) /\ e0.by = c0.by /\ e0.why = c0.why
    BY <2>1, StatusIsCall DEF Same
  <2>4. ready' = Append(rdy, e0) /\ toDaemon' = rest
    BY <1>6 DEF c0, rest
  <2> HIDE DEF e0
  <2>5. ready' = more /\ one \in Seq(Calls)
    BY <2>3, <2>4
  <2>6. \A b : Cardinality(Asks(one, b)) = IF e0.by = b /\ e0.why # "revoke" THEN 1 ELSE 0
    BY AsksOfOne
  <2>7. Range(one) = {e0}
    BY <2>3, OneCall
  <2> HIDE DEF one
  <2>8. /\ Range(more) = Range(rdy) \cup Range(one)
        /\ \A b : Cardinality(Asks(more, b)) = Cardinality(Asks(rdy, b)) + Cardinality(Asks(one, b))
    BY <2>5, RangeOfConcat, AsksOfConcat
  <2> HIDE DEF more
  <2>9. toDaemon = <<>> /\ \A b : Cardinality(Asks(toDaemon, b)) = 0
    BY <1>1, <1>6, AsksOfEmpty DEF Connected
  <2>10. \A b : /\ Cardinality(Asks(rest, b)) \in Nat /\ Cardinality(Asks(rdy, b)) \in Nat
                /\ Cardinality(Asks(calls, b)) \in Nat
    BY <2>1, AsksFinite
  <2>11. \A b : Cardinality(Asks(toDaemon', b)) + Cardinality(Asks(ready', b))
                  = Cardinality(Asks(toDaemon, b)) + Cardinality(Asks(rdy, b))
                      + Cardinality(Asks(calls, b))
    BY <2>2, <2>3, <2>4, <2>5, <2>6, <2>8, <2>9, <2>10
  <2>12. Comes(InFlight, InFlight', Range(calls))
    BY <1>4, <2>1, <2>3, <2>4, <2>5, <2>7, <2>8, SameAsItself DEF Comes
  <2> QED BY <1>2, <1>3, <1>6, <2>11, <2>12
<1> QED BY <1>5, <1>6 DEF Send

---------------------------------------------------------------------------
(* What a step must show *)

(* What the daemon holds is some of what it held. *)
Shrinks == \A t \in DOMAIN opened' : t \in DOMAIN opened /\ opened'[t] = opened[t]

(* The port stays, is lost, or is a new one. *)
PortMoves ==
  \/ port' = port /\ epoch' = epoch
  \/ port' = "down" /\ epoch' = epoch
  \/ epoch' = epoch + 1

(* Everyone is right about the devices that the daemon held. *)
Says(own, orp, dts, ct, rev) ==
  /\ \A t \in DOMAIN own : On(t, own[t].dev)
  /\ \A t \in DOMAIN orp : On(t, orp[t])
  /\ \A f \in Frame, d \in Device, t \in Token : (<<f, d, t>> \in dts) => On(t, d)
  /\ \A b \in Bridge : (ct[b].pc = "recheck") => On(ct[b].tok, ct[b].dev)
  /\ \A r \in Revoker, t \in Token : (t \in rev[r].toks) => On(t, rev[r].dev)

(* The same of the daemon after the step *)
NextOn(t, d) == (t \in DOMAIN opened') => opened'[t].dev = d

LEMMA SaysSo == ASSUME Devices PROVE Says(owner, orphans, duty, ctl, revoke)
BY DEF Devices, Says, Rechecks

(* New requests are not answered yet, and name the device. *)
News(N) ==
  \A c \in N : /\ c.live /\ c.status = "none" /\ ((c.op = "close") => On(c.tok, c.dev))
               /\ (c.why = "open") => c.by \in Bridge

CallsOn(F) == \A c \in F : (c.op = "close" \/ c.status = "ok") => On(c.tok, c.dev)

LEMMA FlightKept ==
  ASSUME SessionsHeld, Shrinks, NEW N, News(N), Comes(InFlight, InFlight', N)
  PROVE  AllLive' /\ Openers' /\ Confirmed' /\ CallsOn(InFlight')
<1> SUFFICES ASSUME NEW e \in InFlight'
             PROVE  /\ e.live /\ ((e.why = "open") => e.by \in Bridge)
                    /\ (e.op = "close" /\ e.status = "ok") => e.tok \notin DOMAIN opened'
                    /\ (e.op = "close" \/ e.status = "ok") => On(e.tok, e.dev)
  BY DEF AllLive, Openers, Confirmed, CallsOn
<1>1. PICK c \in InFlight \cup N : Same(c, e)
  BY DEF Comes
<1>2. CASE c \in InFlight
  <2>1. /\ c.live /\ ((c.why = "open") => c.by \in Bridge)
        /\ (c.op = "close" /\ c.status = "ok") => c.tok \notin DOMAIN opened
        /\ (c.op = "close" \/ c.status = "ok") => On(c.tok, c.dev)
    BY <1>2 DEF SessionsHeld, AllLive, Openers, Confirmed, Devices
  <2> QED BY <1>1, <2>1 DEF Same, Shrinks
<1>3. CASE c \in N
  <2>1. /\ c.live /\ c.status = "none" /\ ((c.op = "close") => On(c.tok, c.dev))
        /\ (c.why = "open") => c.by \in Bridge
    BY <1>3 DEF News
  <2> QED BY <1>1, <2>1 DEF Same
<1> QED BY <1>2, <1>3

LEMMA SessionsKept ==
  ASSUME OwnershipInv, SessionsHeld, Shrinks, PortMoves,
         (port' = "down") => (toAddon' = <<>> /\ served' = <<>>),
         AllLive', Openers', Confirmed', CallsOn(InFlight'), Counted', Young',
         Says(owner', orphans', duty', ctl', revoke'),
         \A t \in DOMAIN opened' :
           (port' = "up" /\ opened'[t].epoch = epoch' /\ Held(t)) => Held(t)'
  PROVE  SessionsHeld'
<1>1. /\ epoch \in Nat /\ DOMAIN opened \subseteq Token
      /\ \A t \in DOMAIN opened : opened[t].epoch \in Nat /\ opened[t].epoch <= epoch
  BY DEF SessionsHeld, Opened
<1>2. epoch' \in Nat /\ epoch <= epoch' /\ (epoch' = epoch \/ epoch' = epoch + 1)
  BY <1>1 DEF PortMoves
<1>3. \A t \in DOMAIN opened' : opened'[t].epoch \in Nat /\ opened'[t].epoch <= epoch
  BY <1>1 DEF Shrinks
<1>4. Opened'
  <2>1. DOMAIN opened' \subseteq Token
    BY <1>1 DEF Shrinks
  <2>2. \A t \in DOMAIN opened' : opened'[t].epoch <= epoch'
    BY <1>1, <1>2, <1>3
  <2> QED BY <1>2, <1>3, <2>1, <2>2 DEF Opened
<1>5. Devices'
  <2>1. \A t, d : On(t, d) => NextOn(t, d)
    BY DEF On, NextOn, Shrinks
  <2>2. \A t \in DOMAIN owner' : NextOn(t, owner'[t].dev)
    BY <2>1 DEF Says
  <2>3. \A t \in DOMAIN orphans' : NextOn(t, orphans'[t])
    BY <2>1 DEF Says
  <2>4. \A c \in InFlight' : (c.op = "close" \/ c.status = "ok") => NextOn(c.tok, c.dev)
    BY <2>1 DEF CallsOn
  <2>5. \A f \in Frame, d \in Device, t \in Token : (<<f, d, t>> \in duty') => NextOn(t, d)
    BY <2>1 DEF Says
  <2>6. \A b \in Rechecks' : NextOn(ctl'[b].tok, ctl'[b].dev)
    BY <2>1 DEF Says, Rechecks
  <2>7. \A r \in Revoker, t \in Token : (t \in revoke'[r].toks) => NextOn(t, revoke'[r].dev)
    BY <2>1 DEF Says
  <2> QED BY <2>2, <2>3, <2>4, <2>5, <2>6, <2>7 DEF Devices, On, NextOn
<1>6. Answered'
  <2> SUFFICES ASSUME port' = "up", NEW t \in DOMAIN opened', opened'[t].epoch = epoch'
               PROVE  Held(t)'
    BY DEF Answered
  <2>1. opened'[t].epoch <= epoch /\ opened'[t].epoch \in Nat
    BY <1>3
  <2>2. epoch' = epoch
    BY <1>1, <1>2, <2>1
  <2>3. port = "up"
    BY <1>1, <2>2 DEF PortMoves
  <2>4. t \in DOMAIN opened /\ opened[t].epoch = epoch
    BY <2>2 DEF Shrinks
  <2>5. Held(t)
    BY <2>3, <2>4 DEF SessionsHeld, Answered
  <2> QED BY <2>5
<1> QED BY <1>4, <1>5, <1>6 DEF SessionsHeld

(* Nothing moves between the daemon and the loop. *)
LEMMA YoungStays ==
  ASSUME SessionsHeld, UNCHANGED <<toAddon, served>>, Shrinks,
         \/ port' = port /\ epoch' = epoch
         \/ port = "down" /\ port' = "up" /\ epoch' = epoch + 1
  PROVE  Young' /\ PortMoves /\ ((port' = "down") => (toAddon' = <<>> /\ served' = <<>>))
<1>1. PortMoves
  BY DEF PortMoves
<1>2. (port' = "down") => (toAddon' = <<>> /\ served' = <<>>)
  BY DEF SessionsHeld, Opened
<1>3. Young'
  <2>1. \A i \in DOMAIN toAddon, t \in DOMAIN opened' :
          (toAddon[i].op = "gone" /\ opened'[t].dev = toAddon[i].dev /\ opened'[t].epoch = epoch')
            => t \in Offers(served) \/ OfferedAfter(toAddon, i, t)
    <3> SUFFICES ASSUME NEW i \in DOMAIN toAddon, NEW t \in DOMAIN opened',
                        toAddon[i].op = "gone", opened'[t].dev = toAddon[i].dev,
                        opened'[t].epoch = epoch'
                 PROVE  t \in Offers(served) \/ OfferedAfter(toAddon, i, t)
      OBVIOUS
    <3>1. /\ t \in DOMAIN opened /\ opened'[t] = opened[t] /\ epoch \in Nat
          /\ opened[t].epoch \in Nat /\ opened[t].epoch <= epoch
      BY DEF Shrinks, SessionsHeld, Opened
    <3>2. epoch' = epoch
      BY <3>1
    <3> QED BY <3>1, <3>2 DEF SessionsHeld, Young
  <2>2. \A i \in DOMAIN served' : served'[i].op # "gone"
    BY DEF SessionsHeld, Young
  <2> QED BY <2>1, <2>2 DEF Young, Offers, OffersAt, OfferedAfter
<1> QED BY <1>1, <1>2, <1>3

(* What is held stays held: by its owner, as an orphan, on its way, or     *)
(* because it is being closed.                                             *)
LEMMA HoldsOn ==
  ASSUME NEW N, NEW X, Crosses(InFlight, InFlight', N, X), NEW t, Held(t),
         \A c \in X : (c.op = "close" /\ c.why # "close" /\ c.tok = t) => Held(t)',
         (t \in DOMAIN owner) => Held(t)',
         (t \in DOMAIN orphans) => Held(t)',
         (t \in Offered) => Held(t)',
         \A b \in Rechecks : (ctl[b].tok = t) => Held(t)'
  PROVE  Held(t)'
<1>1. CASE Dying(t)
  <2>1. CASE \A c \in X : (c.op = "close" /\ c.why # "close") => c.tok # t
    <3>1. Dying(t)'
      BY <1>1, <2>1, DyingKept
    <3> QED BY <3>1 DEF Held
  <2> QED BY <2>1
<1> QED BY <1>1 DEF Held

---------------------------------------------------------------------------
(* A step of the loop: it sends requests, after the continuation it runs   *)

(* Where the requests of the bridges are after the step *)
Turns ==
  /\ ctl' \in [Bridge -> CtlRec]
  /\ \A b \in Bridge : IF ctl'[b].pc = "purging" THEN ctl'[b].n >= 1 ELSE ctl'[b].n = 0
  /\ \A b \in Bridge :
       \/ ctl'[b].pc = ctl[b].pc /\ ctl'[b].dev = ctl[b].dev
       \/ Awaits(ctl[b]) = 0 \/ Awaits(ctl'[b]) = 0

(* A bridge's new request is one that its handler waits for. *)
Awaited(N) == \A c \in N, b \in Bridge : (c.by = b /\ c.why # "revoke") => AwaitedBy(c, ctl'[b])

LEMMA LoopKept ==
  ASSUME OwnershipInv, SessionsHeld, UNCHANGED <<toAddon, served>>, Shrinks, Turns,
         NEW calls \in Seq(Calls), News(Range(calls)), Awaited(Range(calls)),
         NEW rdy \in Seq(Calls), Distinct(rdy), NEW X,
         Range(rdy) \subseteq Range(ready), Range(ready) \subseteq Range(rdy) \cup X,
         Send(calls, rdy),
         \A b \in Bridge : Awaits(ctl'[b]) + Cardinality(Asks(ready, b))
                             = Awaits(ctl[b]) + Cardinality(Asks(rdy, b)) + Cardinality(Asks(calls, b)),
         Says(owner', orphans', duty', ctl', revoke'),
         \A t \in DOMAIN opened' :
           /\ \A c \in X : (c.op = "close" /\ c.why # "close" /\ c.tok = t) => Held(t)'
           /\ (t \in DOMAIN owner) => Held(t)'
           /\ (t \in DOMAIN orphans) => Held(t)'
           /\ (t \in Offers(ready)) => (t \in Offers(rdy) \/ Held(t)')
           /\ \A b \in Rechecks : (ctl[b].tok = t) => Held(t)'
  PROVE  SessionsHeld'
<1>1. /\ Connected /\ Shape /\ Offers(toDaemon) = {}
      /\ toDaemon \in Seq(Calls) /\ ready \in Seq(Calls)
      /\ toAddon \in Seq(Calls) /\ served \in Seq(Calls)
  BY DEF OwnershipInv, Fresh, Shape, Queues
<1>2. \A c \in Range(calls) : c.status = "none"
  BY DEF News
<1>3. /\ Queues' /\ Comes(InFlight, InFlight', Range(calls))
      /\ Offers(ready') = Offers(rdy)
      /\ \A b : Cardinality(Asks(toDaemon', b)) + Cardinality(Asks(ready', b))
                  = Cardinality(Asks(toDaemon, b)) + Cardinality(Asks(rdy, b))
                      + Cardinality(Asks(calls, b))
      /\ \/ port' = port /\ epoch' = epoch
         \/ port = "down" /\ port' = "up" /\ epoch' = epoch + 1
  BY <1>2, SendComes
<1>4. Crosses(InFlight, InFlight', Range(calls), X)
  BY <1>1, <1>2, SendCrosses
<1>5. \A b \in Bridge : Asked(b)' = Awaits(ctl'[b])
  <2> SUFFICES ASSUME NEW b \in Bridge PROVE Asked(b)' = Awaits(ctl'[b])
    OBVIOUS
  <2>1. Asked(b)' = Cardinality(Asks(toAddon, b)) + Cardinality(Asks(served, b))
                      + Cardinality(Asks(toDaemon', b)) + Cardinality(Asks(ready', b))
    BY DEF Asked, Asks
  <2>2. Asked(b) = Awaits(ctl[b])
    BY DEF SessionsHeld, Counted
  <2>3. /\ Cardinality(Asks(toAddon, b)) \in Nat /\ Cardinality(Asks(served, b)) \in Nat
        /\ Cardinality(Asks(toDaemon, b)) \in Nat /\ Cardinality(Asks(ready, b)) \in Nat
        /\ Cardinality(Asks(rdy, b)) \in Nat /\ Cardinality(Asks(calls, b)) \in Nat
    BY <1>1, AsksFinite
  <2>4. /\ Cardinality(Asks(toDaemon', b)) \in Nat /\ Cardinality(Asks(ready', b)) \in Nat
    <3>1. toDaemon' \in Seq(Calls) /\ ready' \in Seq(Calls)
      BY <1>3 DEF Queues
    <3> QED BY <3>1, AsksFinite
  <2>5. Awaits(ctl'[b]) \in Nat /\ Awaits(ctl[b]) \in Nat
    BY <1>1 DEF Awaits, Turns, Shape, Records, CtlRec
  <2>6. /\ Cardinality(Asks(toDaemon', b)) + Cardinality(Asks(ready', b))
             = Cardinality(Asks(toDaemon, b)) + Cardinality(Asks(rdy, b)) + Cardinality(Asks(calls, b))
        /\ Awaits(ctl'[b]) + Cardinality(Asks(ready, b))
             = Awaits(ctl[b]) + Cardinality(Asks(rdy, b)) + Cardinality(Asks(calls, b))
    BY <1>3
  <2>7. Awaits(ctl[b]) = Cardinality(Asks(toAddon, b)) + Cardinality(Asks(served, b))
                           + Cardinality(Asks(toDaemon, b)) + Cardinality(Asks(ready, b))
    BY <2>2 DEF Asked
  <2> DEFINE a == Cardinality(Asks(toAddon, b))
             s == Cardinality(Asks(served, b))
             d == Cardinality(Asks(toDaemon, b))
             r == Cardinality(Asks(ready, b))
             y == Cardinality(Asks(rdy, b))
             n == Cardinality(Asks(calls, b))
             dd == Cardinality(Asks(toDaemon', b))
             rr == Cardinality(Asks(ready', b))
             w == Awaits(ctl[b])
             ww == Awaits(ctl'[b])
  <2>8. /\ a \in Nat /\ s \in Nat /\ d \in Nat /\ r \in Nat /\ y \in Nat /\ n \in Nat
        /\ dd \in Nat /\ rr \in Nat /\ w \in Nat /\ ww \in Nat
        /\ dd + rr = d + y + n /\ ww + r = w + y + n /\ w = a + s + d + r
    BY <2>3, <2>4, <2>5, <2>6, <2>7
  <2>9. Asked(b)' = a + s + dd + rr
    BY <2>1
  <2> HIDE DEF a, s, d, r, y, n, dd, rr, w, ww
  <2>10. a + s + dd + rr = ww
    BY <2>8
  <2>11. Asked(b)' = ww
    BY <2>9, <2>10
  <2> QED BY <2>11 DEF ww
<1>6. Counted'
  BY <1>3, <1>5, CountedKept DEF SessionsHeld, Turns, Awaited
<1>7. AllLive' /\ Openers' /\ Confirmed' /\ CallsOn(InFlight')
  BY <1>3, FlightKept
<1>8. Young' /\ PortMoves /\ ((port' = "down") => (toAddon' = <<>> /\ served' = <<>>))
  BY <1>3, YoungStays
<1>9. ASSUME NEW t \in DOMAIN opened', Held(t) PROVE Held(t)'
  <2>1. (t \in Offers(toAddon) \/ t \in Offers(served)) => Held(t)'
    BY DEF Held, Offered, Offers, OffersAt
  <2>2. (t \in Offers(rdy)) => Held(t)'
    <3>1. (t \in Offers(rdy)) => t \in Offered'
      BY <1>3 DEF Offered
    <3> QED BY <3>1 DEF Held
  <2>3. (t \in Offered) => Held(t)'
    BY <2>1, <2>2 DEF Offered
  <2> QED BY <1>4, <1>9, <2>3, HoldsOn
<1> QED BY <1>6, <1>7, <1>8, <1>9, SessionsKept

(* A new request of a handler, and nothing is settled or forgotten *)
LEMMA RequestKept ==
  ASSUME OwnershipInv, SessionsHeld, UNCHANGED <<toAddon, served, owner, orphans>>, Shrinks, Turns,
         NEW calls \in Seq(Calls), News(Range(calls)), Awaited(Range(calls)),
         Send(calls, ready),
         \A b \in Bridge : Awaits(ctl'[b]) = Awaits(ctl[b]) + Cardinality(Asks(calls, b)),
         Says(owner', orphans', duty', ctl', revoke'),
         \A b \in Rechecks : \/ ctl'[b].pc = "recheck" /\ ctl'[b].tok = ctl[b].tok
                             \/ Sent(Range(calls), ctl[b].tok)
  PROVE  SessionsHeld'
<1> DEFINE X == {}
<1>1. /\ Connected /\ Shape /\ Offers(toDaemon) = {} /\ ready \in Seq(Calls) /\ Distinct(ready)
  BY DEF OwnershipInv, Fresh, Shape, Queues
<1>2. \A c \in Range(calls) : c.status = "none"
  BY DEF News
<1>3. Range(ready) \subseteq Range(ready) /\ Range(ready) \subseteq Range(ready) \cup X
  OBVIOUS
<1>4. \A t : \A c \in X : (c.op = "close" /\ c.why # "close") => c.tok # t
  OBVIOUS
<1>4a. \A t : \A c \in X : (c.op = "close" /\ c.why # "close" /\ c.tok = t) => Held(t)'
  OBVIOUS
<1> HIDE DEF X
<1>5. Crosses(InFlight, InFlight', Range(calls), X)
  BY <1>1, <1>2, <1>3, SendCrosses
<1>6. \A t \in DOMAIN opened' :
        /\ (t \in DOMAIN owner) => Held(t)'
        /\ (t \in DOMAIN orphans) => Held(t)'
  BY DEF Held
<1>7. \A t \in DOMAIN opened', b \in Rechecks : (ctl[b].tok = t) => Held(t)'
  <2> SUFFICES ASSUME NEW t \in DOMAIN opened', NEW b \in Rechecks, ctl[b].tok = t PROVE Held(t)'
    OBVIOUS
  <2>1. CASE ctl'[b].pc = "recheck" /\ ctl'[b].tok = ctl[b].tok
    BY <2>1 DEF Held, Rechecks
  <2>2. CASE Sent(Range(calls), t)
    <3>1. Dying(t)'
      BY <1>4, <1>5, <2>2, DyingKept
    <3> QED BY <3>1 DEF Held
  <2> QED BY <2>1, <2>2
<1>8. \A b \in Bridge : Awaits(ctl'[b]) + Cardinality(Asks(ready, b))
                          = Awaits(ctl[b]) + Cardinality(Asks(ready, b)) + Cardinality(Asks(calls, b))
  <2> SUFFICES ASSUME NEW b \in Bridge
               PROVE  Awaits(ctl'[b]) + Cardinality(Asks(ready, b))
                          = Awaits(ctl[b]) + Cardinality(Asks(ready, b)) + Cardinality(Asks(calls, b))
    OBVIOUS
  <2>1. Cardinality(Asks(ready, b)) \in Nat /\ Cardinality(Asks(calls, b)) \in Nat
    BY <1>1, AsksFinite
  <2>2. Awaits(ctl[b]) \in Nat
    BY <1>1 DEF Awaits, Shape, Records, CtlRec
  <2>3. Awaits(ctl'[b]) = Awaits(ctl[b]) + Cardinality(Asks(calls, b))
    OBVIOUS
  <2> QED BY <2>1, <2>2, <2>3
<1> QED BY <1>1, <1>3, <1>4a, <1>6, <1>7, <1>8, LoopKept

---------------------------------------------------------------------------
(* Steps that send nothing *)

(* Only the port, the daemon's sessions, the grants, the frames, what the  *)
(* bridges' frames hold and the links may change.                          *)
LEMMA StillSessions ==
  ASSUME OwnershipInv, SessionsHeld, Shrinks,
         UNCHANGED <<toAddon, served, toDaemon, ready, ctl, revoke, owner, orphans, duty>>,
         \/ port' = port /\ epoch' = epoch
         \/ port = "down" /\ port' = "up" /\ epoch' = epoch + 1
  PROVE  SessionsHeld'
<1>1. InFlight' = InFlight
  BY DEF InFlight, Crossing
<1>2. Comes(InFlight, InFlight', {}) /\ News({})
  BY <1>1, SameAsItself DEF Comes, News
<1>3. AllLive' /\ Openers' /\ Confirmed' /\ CallsOn(InFlight')
  <2> DEFINE N == {}
  <2>1. Comes(InFlight, InFlight', N) /\ News(N)
    BY <1>2
  <2> HIDE DEF N
  <2> QED BY <2>1, FlightKept
<1>4. Young' /\ PortMoves /\ ((port' = "down") => (toAddon' = <<>> /\ served' = <<>>))
  BY YoungStays
<1>5. Counted'
  <2>1. \A b : Asked(b)' = Asked(b)
    BY DEF Asked, Asks
  <2> QED BY <1>1, <2>1 DEF SessionsHeld, Counted
<1>6. Says(owner', orphans', duty', ctl', revoke')
  BY SaysSo DEF SessionsHeld
<1>7. \A t \in DOMAIN opened' : Held(t) => Held(t)'
  BY <1>1 DEF Held, Offered, Offers, OffersAt, Dying, Rechecks
<1> QED BY <1>3, <1>4, <1>5, <1>6, <1>7, SessionsKept

LEMMA CalmSessions ==
  ASSUME OwnershipInv, SessionsHeld, Shrinks, Turns,
         UNCHANGED <<toAddon, served, toDaemon, ready, port, epoch, orphans>>,
         \A b \in Bridge : Awaits(ctl'[b]) = Awaits(ctl[b]),
         Says(owner', orphans', duty', ctl', revoke'),
         \A t \in DOMAIN opened' : (t \in DOMAIN owner) => Held(t)',
         \A t \in DOMAIN opened', b \in Rechecks : (ctl[b].tok = t) => Held(t)'
  PROVE  SessionsHeld'
<1> DEFINE X == {}
           calls == <<>>
<1>1. ready \in Seq(Calls) /\ Distinct(ready) /\ toDaemon \in Seq(Calls)
  BY DEF OwnershipInv, Fresh, Shape, Queues
<1>2. Range(ready) \subseteq Range(ready) /\ Range(ready) \subseteq Range(ready) \cup X
  OBVIOUS
<1>3. \A t : \A c \in X : (c.op = "close" /\ c.why # "close" /\ c.tok = t) => Held(t)'
  OBVIOUS
<1>4. calls \in Seq(Calls) /\ Range(calls) = {} /\ \A b : Cardinality(Asks(calls, b)) = 0
  BY RangeOfEmpty, AsksOfEmpty
<1>5. Send(calls, ready)
  <2>1. toDaemon \o calls = toDaemon
    BY <1>1
  <2> QED BY <2>1 DEF Send
<1> HIDE DEF X, calls
<1>6. News(Range(calls)) /\ Awaited(Range(calls))
  BY <1>4 DEF News, Awaited
<1>7. \A t \in DOMAIN opened' : (t \in DOMAIN orphans) => Held(t)'
  BY DEF Held
<1>8. \A b \in Bridge : Awaits(ctl'[b]) + Cardinality(Asks(ready, b))
                          = Awaits(ctl[b]) + Cardinality(Asks(ready, b)) + Cardinality(Asks(calls, b))
  <2> SUFFICES ASSUME NEW b \in Bridge
               PROVE  Awaits(ctl'[b]) + Cardinality(Asks(ready, b))
                          = Awaits(ctl[b]) + Cardinality(Asks(ready, b)) + Cardinality(Asks(calls, b))
    OBVIOUS
  <2>1. Cardinality(Asks(ready, b)) \in Nat /\ Cardinality(Asks(calls, b)) = 0
    BY <1>1, <1>4, AsksFinite
  <2>2. Awaits(ctl[b]) \in Nat
    BY DEF OwnershipInv, Awaits, Shape, Records, CtlRec
  <2>3. Awaits(ctl'[b]) = Awaits(ctl[b])
    OBVIOUS
  <2> QED BY <2>1, <2>2, <2>3
<1> QED BY <1>1, <1>2, <1>3, <1>4, <1>5, <1>6, <1>7, <1>8, LoopKept

(* The request of one bridge moves on. *)
LEMMA TurnsOne ==
  ASSUME OwnershipInv, SessionsHeld, NEW b \in Bridge, NEW c \in CtlRec, ctl' = [ctl EXCEPT ![b] = c],
         IF c.pc = "purging" THEN c.n >= 1 ELSE c.n = 0,
         \/ c.pc = ctl[b].pc /\ c.dev = ctl[b].dev
         \/ Awaits(ctl[b]) = 0 \/ Awaits(c) = 0
  PROVE  /\ Turns /\ ctl'[b] = c /\ \A x \in Bridge : (x # b) => ctl'[x] = ctl[x]
<1>1. ctl \in [Bridge -> CtlRec]
  BY DEF OwnershipInv, Shape, Records
<1>2. /\ ctl' \in [Bridge -> CtlRec] /\ ctl'[b] = c
      /\ \A x \in Bridge : (x # b) => ctl'[x] = ctl[x]
  BY <1>1
<1>3. \A x \in Bridge : IF ctl[x].pc = "purging" THEN ctl[x].n >= 1 ELSE ctl[x].n = 0
  BY DEF SessionsHeld, Counted
<1>4. \A x \in Bridge : IF ctl'[x].pc = "purging" THEN ctl'[x].n >= 1 ELSE ctl'[x].n = 0
  BY <1>2, <1>3
<1>5. \A x \in Bridge :
        \/ ctl'[x].pc = ctl[x].pc /\ ctl'[x].dev = ctl[x].dev
        \/ Awaits(ctl[x]) = 0 \/ Awaits(ctl'[x]) = 0
  BY <1>2
<1> QED BY <1>2, <1>4, <1>5 DEF Turns

LEMMA IdleAwaits == Idle \in CtlRec /\ Idle.n = 0 /\ Idle.pc = "idle" /\ Awaits(Idle) = 0
BY DEF Idle, CtlRec, Awaits

LEMMA OpenRequestHolds ==
  ASSUME OwnershipInv, SessionsHeld, NEW f \in Frame, NEW d \in Device, OpenRequest(f, d)
  PROVE  SessionsHeld'
<1> DEFINE b == BridgeOf[f]
           c == [Idle EXCEPT !.pc = "grant", !.frame = f, !.dev = d]
<1>1. b \in Bridge
  BY ShapeAssumption
<1>2. c \in CtlRec /\ c.pc = "grant" /\ c.n = 0 /\ Awaits(c) = 0
  BY DEF Idle, CtlRec, Awaits
<1>3. /\ ctl' = [ctl EXCEPT ![b] = c] /\ ctl[b].pc = "idle"
      /\ UNCHANGED <<granted, tabCount, owner, orphans, revoke, portVars, toAddon, losses,
                       timeouts, bridgeVars, daemonVars>>
  BY DEF OpenRequest, Usable
<1>4. UNCHANGED <<toAddon, served, toDaemon, ready, port, epoch, owner, orphans, revoke, duty, opened>>
  BY <1>3 DEF portVars, bridgeVars, daemonVars
<1>5. Awaits(ctl[b]) = 0
  BY <1>3 DEF Awaits
<1> HIDE DEF b, c
<1>6. Turns /\ ctl'[b] = c /\ \A x \in Bridge : (x # b) => ctl'[x] = ctl[x]
  BY <1>1, <1>2, <1>3, <1>5, TurnsOne
<1>7. \A x \in Bridge : Awaits(ctl'[x]) = Awaits(ctl[x])
  BY <1>2, <1>5, <1>6
<1>8. Says(owner', orphans', duty', ctl', revoke')
  <2>1. Says(owner, orphans, duty, ctl, revoke)
    BY SaysSo DEF SessionsHeld
  <2>2. \A x \in Bridge : (ctl'[x].pc = "recheck") => ctl'[x] = ctl[x]
    BY <1>2, <1>6
  <2> QED BY <1>4, <2>1, <2>2 DEF Says
<1>9. Shrinks
  BY <1>4 DEF Shrinks
<1>10. \A t \in DOMAIN opened' : (t \in DOMAIN owner) => Held(t)'
  BY <1>4 DEF Held
<1>11. \A t \in DOMAIN opened', x \in Rechecks : (ctl[x].tok = t) => Held(t)'
  BY <1>3, <1>6 DEF Held, Rechecks
<1> QED BY <1>4, <1>6, <1>7, <1>8, <1>9, <1>10, <1>11, CalmSessions

LEMMA OpenForbiddenHolds ==
  ASSUME OwnershipInv, SessionsHeld, NEW b \in Bridge, OpenForbidden(b)
  PROVE  SessionsHeld'
<1> DEFINE c == Idle
<1>1. c \in CtlRec /\ c.pc = "idle" /\ c.n = 0 /\ Awaits(c) = 0
  BY IdleAwaits
<1>2. /\ ctl' = [ctl EXCEPT ![b] = c] /\ ctl[b].pc = "grant"
      /\ UNCHANGED <<bgVars, revoke, portVars, toAddon, losses, timeouts, bridgeVars, daemonVars>>
  BY DEF OpenForbidden, GoIdle
<1>3. UNCHANGED <<toAddon, served, toDaemon, ready, port, epoch, owner, orphans, revoke, duty, opened>>
  BY <1>2 DEF bgVars, portVars, bridgeVars, daemonVars
<1>4. Awaits(ctl[b]) = 0
  BY <1>2 DEF Awaits
<1> HIDE DEF c
<1>5. Turns /\ ctl'[b] = c /\ \A x \in Bridge : (x # b) => ctl'[x] = ctl[x]
  BY <1>1, <1>2, <1>4, TurnsOne
<1>6. \A x \in Bridge : Awaits(ctl'[x]) = Awaits(ctl[x])
  BY <1>1, <1>4, <1>5
<1>7. Says(owner', orphans', duty', ctl', revoke')
  <2>1. Says(owner, orphans, duty, ctl, revoke)
    BY SaysSo DEF SessionsHeld
  <2>2. \A x \in Bridge : (ctl'[x].pc = "recheck") => ctl'[x] = ctl[x]
    BY <1>1, <1>5
  <2> QED BY <1>3, <2>1, <2>2 DEF Says
<1>8. Shrinks
  BY <1>3 DEF Shrinks
<1>9. \A t \in DOMAIN opened' : (t \in DOMAIN owner) => Held(t)'
  BY <1>3 DEF Held
<1>10. \A t \in DOMAIN opened', x \in Rechecks : (ctl[x].tok = t) => Held(t)'
  BY <1>2, <1>5 DEF Held, Rechecks
<1> QED BY <1>3, <1>5, <1>6, <1>7, <1>8, <1>9, <1>10, CalmSessions

(* The session gets its owner, or one of the bridge's to hand back. *)
LEMMA OpenRegisterHolds ==
  ASSUME OwnershipInv, SessionsHeld, NEW b \in Bridge, OpenRegister(b)
  PROVE  SessionsHeld'
<1> DEFINE c == Idle
           u == ctl[b].tok
           g == ctl[b].frame
           e == ctl[b].dev
           rec == [dev |-> e, frame |-> g]
<1>1. c \in CtlRec /\ c.pc = "idle" /\ c.n = 0 /\ Awaits(c) = 0
  BY IdleAwaits
<1>2. /\ ctl' = [ctl EXCEPT ![b] = c] /\ ctl[b].pc = "recheck"
      /\ owner' = Put(owner, u, rec)
      /\ duty' = duty \/ duty' = duty \cup {<<g, e, u>>}
      /\ UNCHANGED <<granted, orphans, revoke, portVars, toAddon, losses, timeouts, link,
                     frameState, removedTabs, daemonVars>>
  BY DEF OpenRegister, GoIdle, BridgeTakes
<1>3. UNCHANGED <<toAddon, served, toDaemon, ready, port, epoch, orphans, revoke, opened>>
  BY <1>2 DEF portVars, daemonVars
<1>4. Awaits(ctl[b]) = 0 /\ b \in Rechecks
  BY <1>2 DEF Awaits, Rechecks
<1>5. On(u, e) /\ rec.dev = e
  BY <1>4 DEF SessionsHeld, Devices
<1>6. /\ DOMAIN owner' = DOMAIN owner \cup {u} /\ owner'[u] = rec
      /\ \A t \in DOMAIN owner : (t # u) => owner'[t] = owner[t]
  <2> HIDE DEF u, rec
  <2>1. /\ DOMAIN Put(owner, u, rec) = DOMAIN owner \cup {u} /\ Put(owner, u, rec)[u] = rec
        /\ \A t \in DOMAIN owner : (t # u) => Put(owner, u, rec)[t] = owner[t]
    BY DEF Put
  <2> QED BY <1>2, <2>1
<1> HIDE DEF c
<1>7. Turns /\ ctl'[b] = c /\ \A x \in Bridge : (x # b) => ctl'[x] = ctl[x]
  BY <1>1, <1>2, <1>4, TurnsOne
<1>8. \A x \in Bridge : Awaits(ctl'[x]) = Awaits(ctl[x])
  BY <1>1, <1>4, <1>7
<1>9. Says(owner', orphans', duty', ctl', revoke')
  <2>1. Says(owner, orphans, duty, ctl, revoke)
    BY SaysSo DEF SessionsHeld
  <2>2. \A x \in Bridge : (ctl'[x].pc = "recheck") => ctl'[x] = ctl[x]
    BY <1>1, <1>7
  <2>3. \A t \in DOMAIN owner' : On(t, owner'[t].dev)
    <3> HIDE DEF u, e, rec
    <3> QED BY <1>5, <1>6, <2>1 DEF Says
  <2>4. \A f \in Frame, d \in Device, t \in Token : (<<f, d, t>> \in duty') => On(t, d)
    <3> HIDE DEF u, e, g
    <3> QED BY <1>2, <1>5, <2>1 DEF Says
  <2> QED BY <1>3, <2>1, <2>2, <2>3, <2>4 DEF Says
<1>10. Shrinks
  BY <1>3 DEF Shrinks
<1>11. \A t \in DOMAIN opened' : (t \in DOMAIN owner) => Held(t)'
  BY <1>6 DEF Held
<1>12. \A t \in DOMAIN opened', x \in Rechecks : (ctl[x].tok = t) => Held(t)'
  BY <1>6, <1>7 DEF Held, Rechecks
<1> QED BY <1>3, <1>7, <1>8, <1>9, <1>10, <1>11, <1>12, CalmSessions

(* The requests of the bridges stay where they are. *)
LEMMA TurnsNone ==
  ASSUME OwnershipInv, SessionsHeld, ctl' = ctl
  PROVE  Turns
<1>1. ctl' \in [Bridge -> CtlRec]
  BY DEF OwnershipInv, Shape, Records
<1> QED BY <1>1 DEF Turns, SessionsHeld, Counted

LEMMA RevokeStartHolds ==
  ASSUME OwnershipInv, SessionsHeld, NEW r \in Revoker, NEW o \in Origin, NEW D \in SUBSET Device,
         RevokeStart(r, o, D)
  PROVE  SessionsHeld'
<1> DEFINE rev == [pc |-> "ungrant", origin |-> o, todo |-> D, dev |-> None, toks |-> {}]
<1>1. /\ revoke' = [revoke EXCEPT ![r] = rev]
      /\ UNCHANGED <<bgVars, ctl, portVars, toAddon, losses, timeouts, bridgeVars, daemonVars>>
  BY DEF RevokeStart
<1>2. UNCHANGED <<toAddon, served, toDaemon, ready, port, epoch, owner, orphans, duty, ctl, opened>>
  BY <1>1 DEF bgVars, portVars, bridgeVars, daemonVars
<1>3. rev.toks = {}
  OBVIOUS
<1> HIDE DEF rev
<1>4. \A x \in Revoker : revoke'[x] = revoke[x] \/ revoke'[x].toks = {}
  <2>1. revoke \in [Revoker -> RevokeRec]
    BY DEF OwnershipInv, Shape, Records
  <2> QED BY <1>1, <1>3, <2>1
<1>5. Turns
  BY <1>2, TurnsNone
<1>6. Says(owner', orphans', duty', ctl', revoke')
  <2>1. Says(owner, orphans, duty, ctl, revoke)
    BY SaysSo DEF SessionsHeld
  <2>2. \A x \in Revoker, t \in Token : (t \in revoke'[x].toks) => On(t, revoke'[x].dev)
    BY <1>4, <2>1 DEF Says
  <2> QED BY <1>2, <2>1, <2>2 DEF Says
<1>7. Shrinks
  BY <1>2 DEF Shrinks
<1>8. \A t \in DOMAIN opened' : (t \in DOMAIN owner) => Held(t)'
  BY <1>2 DEF Held
<1>9. \A t \in DOMAIN opened', x \in Rechecks : (ctl[x].tok = t) => Held(t)'
  BY <1>2 DEF Held, Rechecks
<1> QED BY <1>2, <1>5, <1>6, <1>7, <1>8, <1>9, CalmSessions

(* Some of the daemon's sessions end. *)
LEMMA DropShrinks ==
  ASSUME NEW S, opened' = Drop(opened, S)
  PROVE  Shrinks
<1>1. /\ DOMAIN Drop(opened, S) = DOMAIN opened \ S
      /\ \A x \in DOMAIN opened \ S : Drop(opened, S)[x] = opened[x]
  BY DropAt
<1>2. DOMAIN opened' = DOMAIN opened \ S /\ \A x \in DOMAIN opened \ S : opened'[x] = opened[x]
  BY <1>1
<1> QED BY <1>2 DEF Shrinks

LEMMA WorldHolds ==
  ASSUME OwnershipInv, SessionsHeld,
         \/ \E o \in Origin, d \in Device : Pair(o, d)
         \/ \E b \in Bridge : BridgeUp(b)
         \/ \E f \in Frame : FrameDies(f)
         \/ \E f \in Frame, d \in Device : Notice(f, d)
         \/ DaemonEof \/ Connect
         \/ \E d \in Device : DeviceGone(d) \/ DeviceBack(d)
         \/ UNCHANGED vars
  PROVE  SessionsHeld'
<1> USE DEF bgVars, loopVars, portVars, bridgeVars, daemonVars
<1>0. (opened' = opened) => Shrinks
  BY DEF Shrinks
<1>1. CASE \E o \in Origin, d \in Device : Pair(o, d)
  BY <1>0, <1>1, StillSessions DEF Pair
<1>2. CASE \E b \in Bridge : BridgeUp(b)
  BY <1>0, <1>2, StillSessions DEF BridgeUp
<1>3. CASE \E f \in Frame : FrameDies(f)
  BY <1>0, <1>3, StillSessions DEF FrameDies
<1>4. CASE \E f \in Frame, d \in Device : Notice(f, d)
  BY <1>0, <1>4, StillSessions DEF Notice
<1>5. CASE DaemonEof
  <2>1. Shrinks
    BY <1>5, DropShrinks DEF DaemonEof
  <2> QED BY <1>5, <2>1, StillSessions DEF DaemonEof
<1>6. CASE \E d \in Device : DeviceGone(d) \/ DeviceBack(d)
  <2>1. Shrinks
    BY <1>0, <1>6, DropShrinks DEF DeviceGone, DeviceBack
  <2> QED BY <1>6, <2>1, StillSessions DEF DeviceGone, DeviceBack
<1>7. CASE UNCHANGED vars
  BY <1>0, <1>7, StillSessions DEF vars
<1>8. CASE Connect
  BY <1>0, <1>8, StillSessions DEF Connect
<1> QED BY <1>1, <1>2, <1>3, <1>4, <1>5, <1>6, <1>7, <1>8

---------------------------------------------------------------------------
(* Steps that send requests *)

(* A bridge's handler sends one request, and awaits it. *)
LEMMA AskHolds ==
  ASSUME OwnershipInv, SessionsHeld, UNCHANGED <<toAddon, served, owner, orphans, opened, revoke>>,
         duty' \subseteq duty, NEW b \in Bridge, Awaits(ctl[b]) = 0,
         NEW c \in CtlRec, ctl' = [ctl EXCEPT ![b] = c], Awaits(c) = 1, c.n = 0,
         c.pc \notin {"purging", "recheck"},
         NEW e \in Calls, e.by = b, e.why # "revoke", e.live, e.status = "none", AwaitedBy(e, c),
         (e.op = "close") => On(e.tok, e.dev),
         Send(<<e>>, ready),
         (ctl[b].pc = "recheck") => (e.op = "close" /\ e.why # "close" /\ e.tok = ctl[b].tok)
  PROVE  SessionsHeld'
<1> DEFINE calls == <<e>>
<1>1. calls \in Seq(Calls) /\ Range(calls) = {e} /\ Send(calls, ready)
  BY OneCall
<1>2. \A x : Cardinality(Asks(calls, x)) = IF e.by = x /\ e.why # "revoke" THEN 1 ELSE 0
  BY AsksOfOne
<1> HIDE DEF calls
<1>3. Turns /\ ctl'[b] = c /\ \A x \in Bridge : (x # b) => ctl'[x] = ctl[x]
  BY TurnsOne
<1>4. News(Range(calls)) /\ Awaited(Range(calls))
  <2>1. News(Range(calls))
    BY <1>1 DEF News
  <2>2. \A x \in Bridge : (e.by = x /\ e.why # "revoke") => AwaitedBy(e, ctl'[x])
    BY <1>3
  <2> QED BY <1>1, <2>1, <2>2 DEF Awaited
<1>5. \A x \in Bridge : Awaits(ctl'[x]) = Awaits(ctl[x]) + Cardinality(Asks(calls, x))
  <2> SUFFICES ASSUME NEW x \in Bridge
               PROVE  Awaits(ctl'[x]) = Awaits(ctl[x]) + Cardinality(Asks(calls, x))
    OBVIOUS
  <2>1. CASE x = b
    <3>1. Cardinality(Asks(calls, x)) = 1
      BY <1>2, <2>1
    <3> QED BY <1>3, <2>1, <3>1
  <2>2. CASE x # b
    <3>1. Cardinality(Asks(calls, x)) = 0 /\ ctl'[x] = ctl[x]
      BY <1>2, <1>3, <2>2
    <3>2. Awaits(ctl[x]) \in Nat
      BY DEF OwnershipInv, Awaits, Shape, Records, CtlRec
    <3> QED BY <3>1, <3>2
  <2> QED BY <2>1, <2>2
<1>6. Says(owner', orphans', duty', ctl', revoke')
  <2>1. Says(owner, orphans, duty, ctl, revoke)
    BY SaysSo DEF SessionsHeld
  <2>2. \A x \in Bridge : (ctl'[x].pc = "recheck") => ctl'[x] = ctl[x]
    BY <1>3
  <2> QED BY <2>1, <2>2 DEF Says
<1>7. Shrinks
  BY DEF Shrinks
<1>8. \A x \in Rechecks : \/ ctl'[x].pc = "recheck" /\ ctl'[x].tok = ctl[x].tok
                          \/ Sent(Range(calls), ctl[x].tok)
  BY <1>1, <1>3 DEF Rechecks, Sent
<1> QED BY <1>1, <1>3, <1>4, <1>5, <1>6, <1>7, <1>8, RequestKept

(* Requests that no bridge's handler awaits *)
LEMMA AsideHolds ==
  ASSUME OwnershipInv, SessionsHeld, UNCHANGED <<toAddon, served, owner, orphans, opened, ctl>>,
         duty' \subseteq duty, NEW calls \in Seq(Calls), News(Range(calls)), Send(calls, ready),
         \A c \in Range(calls) : c.by \notin Bridge \/ c.why = "revoke",
         \A r \in Revoker, t \in Token : (t \in revoke'[r].toks) => On(t, revoke'[r].dev)
  PROVE  SessionsHeld'
<1>1. Turns
  BY TurnsNone
<1>2. Awaited(Range(calls))
  BY DEF Awaited
<1>3. \A b \in Bridge : Awaits(ctl'[b]) = Awaits(ctl[b]) + Cardinality(Asks(calls, b))
  <2> SUFFICES ASSUME NEW b \in Bridge
               PROVE  Awaits(ctl'[b]) = Awaits(ctl[b]) + Cardinality(Asks(calls, b))
    OBVIOUS
  <2>1. \A i \in DOMAIN calls : calls[i].by # b \/ calls[i].why = "revoke"
    <3>1. \A i \in DOMAIN calls : calls[i] \in Range(calls)
      BY DEF Range
    <3> QED BY <3>1
  <2>2. Cardinality(Asks(calls, b)) = 0
    BY <2>1, AsksOfNone
  <2>3. Awaits(ctl[b]) \in Nat
    BY DEF OwnershipInv, Awaits, Shape, Records, CtlRec
  <2> QED BY <2>2, <2>3
<1>4. Says(owner', orphans', duty', ctl', revoke')
  <2>1. Says(owner, orphans, duty, ctl, revoke)
    BY SaysSo DEF SessionsHeld
  <2> QED BY <2>1 DEF Says
<1>5. Shrinks
  BY DEF Shrinks
<1>6. \A x \in Rechecks : ctl'[x].pc = "recheck" /\ ctl'[x].tok = ctl[x].tok
  BY DEF Rechecks
<1> QED BY <1>1, <1>2, <1>3, <1>4, <1>5, <1>6, RequestKept

LEMMA OpenSendHolds ==
  ASSUME OwnershipInv, SessionsHeld, NEW b \in Bridge, OpenSend(b)
  PROVE  SessionsHeld'
<1> DEFINE e == Call("open", ctl[b].dev, None, "open", b, FALSE)
           c == [ctl[b] EXCEPT !.pc = "opening"]
<1>1. /\ ctl[b].pc = "grant" /\ ctl' = [ctl EXCEPT ![b].pc = "opening"]
      /\ Send(<<e>>, ready)
      /\ UNCHANGED <<bgVars, revoke, toAddon, losses, timeouts, bridgeVars, daemonVars>>
  BY DEF OpenSend
<1>2. UNCHANGED <<toAddon, served, owner, orphans, opened, revoke, duty>>
  BY <1>1 DEF bgVars, bridgeVars, daemonVars
<1>3. ctl \in [Bridge -> CtlRec] /\ ctl[b] \in CtlRec /\ ctl[b].n = 0
  BY <1>1 DEF OwnershipInv, Shape, Records, SessionsHeld, Counted
<1>4. c \in CtlRec /\ c.pc = "opening" /\ c.dev = ctl[b].dev /\ c.n = 0
  BY <1>3 DEF CtlRec
<1>5. ctl' = [ctl EXCEPT ![b] = c]
  BY <1>1, <1>3
<1>6. /\ e.op = "open" /\ e.live = TRUE /\ e.status = "none" /\ e.why = "open" /\ e.by = b
      /\ e.dev = ctl[b].dev /\ e \in Calls
  <2>1. ctl[b].dev \in Device \cup {None}
    BY <1>3 DEF CtlRec
  <2> QED BY <2>1 DEF Call, Calls, Whys
<1> HIDE DEF e, c
<1>7. Awaits(ctl[b]) = 0 /\ Awaits(c) = 1 /\ AwaitedBy(e, c)
  BY <1>1, <1>4, <1>6 DEF Awaits, AwaitedBy
<1> QED BY <1>1, <1>2, <1>4, <1>5, <1>6, <1>7, AskHolds

LEMMA OpenCleanupHolds ==
  ASSUME OwnershipInv, SessionsHeld, NEW b \in Bridge, OpenCleanup(b)
  PROVE  SessionsHeld'
<1> DEFINE e == Cleanup(ctl[b].dev, ctl[b].tok, "late", b)
           c == [ctl[b] EXCEPT !.pc = "late"]
<1>1. /\ ctl[b].pc = "recheck" /\ ctl' = [ctl EXCEPT ![b].pc = "late"]
      /\ Send(<<e>>, ready)
      /\ UNCHANGED <<bgVars, revoke, toAddon, losses, timeouts, bridgeVars, daemonVars>>
  BY DEF OpenCleanup
<1>2. UNCHANGED <<toAddon, served, owner, orphans, opened, revoke, duty>>
  BY <1>1 DEF bgVars, bridgeVars, daemonVars
<1>3. /\ ctl \in [Bridge -> CtlRec] /\ ctl[b] \in CtlRec /\ ctl[b].n = 0
      /\ b \in Rechecks
  BY <1>1 DEF OwnershipInv, Shape, Records, SessionsHeld, Counted, Rechecks
<1>3a. ctl[b].tok \in Token /\ On(ctl[b].tok, ctl[b].dev)
  BY <1>3 DEF OwnershipInv, Handlers, SessionsHeld, Devices
<1>4. c \in CtlRec /\ c.pc = "late" /\ c.n = 0
  BY <1>3 DEF CtlRec
<1>5. ctl' = [ctl EXCEPT ![b] = c]
  BY <1>1, <1>3
<1>6. /\ e.op = "close" /\ e.live = TRUE /\ e.status = "none" /\ e.why = "late" /\ e.by = b
      /\ e.tok = ctl[b].tok /\ e.dev = ctl[b].dev /\ e \in Calls
  <2>1. ctl[b].dev \in Device \cup {None}
    BY <1>3 DEF CtlRec
  <2> QED BY <1>3a, <2>1 DEF Cleanup, Call, Calls, Whys
<1> HIDE DEF e, c
<1>7. Awaits(ctl[b]) = 0 /\ Awaits(c) = 1 /\ AwaitedBy(e, c)
  BY <1>1, <1>4, <1>6 DEF Awaits, AwaitedBy
<1> QED BY <1>1, <1>2, <1>3a, <1>4, <1>5, <1>6, <1>7, AskHolds

LEMMA CloseRequestHolds ==
  ASSUME OwnershipInv, SessionsHeld, NEW f \in Frame, NEW d \in Device, CloseRequest(f, d)
  PROVE  SessionsHeld'
<1> DEFINE b == BridgeOf[f]
           t == held[f][d]
           e == Call("close", d, t, "close", b, TRUE)
           c == [Idle EXCEPT !.pc = "closing", !.frame = f, !.dev = d, !.tok = t]
<1>1. /\ OwnedByFrame(t, f, d) /\ ctl[b].pc = "idle" /\ ctl' = [ctl EXCEPT ![b] = c]
      /\ Send(<<e>>, ready)
      /\ UNCHANGED <<bgVars, revoke, toAddon, losses, timeouts, bridgeVars, daemonVars>>
  BY DEF CloseRequest, Usable
<1>2. UNCHANGED <<toAddon, served, owner, orphans, opened, revoke, duty>>
  BY <1>1 DEF bgVars, bridgeVars, daemonVars
<1>3. t \in DOMAIN owner /\ t \in Token /\ b \in Bridge /\ On(t, d)
  <2>1. t \in DOMAIN owner /\ owner[t].dev = d
    BY <1>1 DEF OwnedByFrame
  <2>2. On(t, owner[t].dev)
    BY <2>1 DEF SessionsHeld, Devices
  <2> QED BY <2>1, <2>2, ShapeAssumption DEF OwnershipInv, Shape, Records
<1> HIDE DEF t
<1>4. c \in CtlRec /\ c.pc = "closing" /\ c.n = 0
  BY <1>3 DEF CtlRec, Idle
<1>6. /\ e.op = "close" /\ e.live = TRUE /\ e.status = "none" /\ e.why = "close" /\ e.by = b
      /\ e.tok = t /\ e.dev = d /\ e \in Calls
  BY <1>3 DEF Call, Calls, Whys
<1> HIDE DEF e, c, b
<1>7. Awaits(ctl[b]) = 0 /\ Awaits(c) = 1 /\ AwaitedBy(e, c)
  BY <1>1, <1>4, <1>6 DEF Awaits, AwaitedBy
<1> QED BY <1>1, <1>2, <1>3, <1>4, <1>6, <1>7, AskHolds

LEMMA CleanupSessionHolds ==
  ASSUME OwnershipInv, SessionsHeld, NEW b \in Bridge, NEW f \in Frame, NEW d \in Device, NEW t \in Token,
         CleanupSession(b, f, d, t)
  PROVE  SessionsHeld'
<1> DEFINE e == Cleanup(d, t, "cleanup", b)
           c == [Idle EXCEPT !.pc = "cleaning"]
<1>1. /\ <<f, d, t>> \in duty /\ duty' = duty \ {<<f, d, t>>} /\ ctl' = [ctl EXCEPT ![b] = c]
      /\ ctl[b].pc = "idle" /\ Send(<<e>>, ready)
      /\ UNCHANGED <<bgVars, revoke, toAddon, losses, timeouts, link, frameState, held, removedTabs,
                   daemonVars>>
  BY DEF CleanupSession, Usable
<1>2. UNCHANGED <<toAddon, served, owner, orphans, opened, revoke>> /\ duty' \subseteq duty
  BY <1>1 DEF bgVars, daemonVars
<1>3. On(t, d)
  BY <1>1 DEF SessionsHeld, Devices
<1>4. c \in CtlRec /\ c.pc = "cleaning" /\ c.n = 0
  BY DEF CtlRec, Idle
<1>6. /\ e.op = "close" /\ e.live = TRUE /\ e.status = "none" /\ e.why = "cleanup" /\ e.by = b
      /\ e.tok = t /\ e.dev = d /\ e \in Calls
  BY DEF Cleanup, Call, Calls, Whys
<1> HIDE DEF e, c
<1>7. Awaits(ctl[b]) = 0 /\ Awaits(c) = 1 /\ AwaitedBy(e, c)
  BY <1>1, <1>4, <1>6 DEF Awaits, AwaitedBy
<1> QED BY <1>1, <1>2, <1>3, <1>4, <1>6, <1>7, AskHolds

---------------------------------------------------------------------------
(* Purges and retries *)

(* One call for each of the sessions, on its device *)
LEMMA PurgesAre ==
  ASSUME OwnershipInv, SessionsHeld, NEW S \in SUBSET DOMAIN owner, NEW by \in Bridge \cup {None},
         NEW calls \in Cleanups(S, "purge", by)
  PROVE  /\ calls \in Seq(Calls) /\ News(Range(calls))
         /\ DOMAIN calls = 1..Cardinality(S) /\ IsFiniteSet(S) /\ Cardinality(S) \in Nat
         /\ \A c \in Range(calls) : c.by = by /\ c.why = "purge"
<1> DEFINE C(t) == Cleanup(owner[t].dev, t, "purge", by)
<1>1. PICK q \in SetToSeqs(S) : calls = [i \in DOMAIN q |-> C(q[i])]
  BY DEF Cleanups
<1>2. IsFiniteSet(S) /\ Cardinality(S) \in Nat
  BY FS_Subset, FS_CardinalityType DEF OwnershipInv, Shape, Records
<1>3. q \in [1..Cardinality(S) -> S]
  BY <1>2 DEF SetToSeqs
<1>4. calls \in Seq(Calls)
  BY CleanupsAre DEF OwnershipInv
<1>5. \A t \in S : /\ C(t).op = "close" /\ C(t).live /\ C(t).status = "none" /\ C(t).by = by
                   /\ C(t).why = "purge" /\ C(t).tok = t /\ C(t).dev = owner[t].dev
  BY DEF Cleanup, Call
<1>6. \A t \in S : On(t, owner[t].dev)
  BY DEF SessionsHeld, Devices
<1> HIDE DEF C
<1>7. /\ DOMAIN calls = 1..Cardinality(S)
      /\ \A i \in DOMAIN calls : q[i] \in S /\ calls[i] = C(q[i])
  BY <1>1, <1>3
<1>8. \A c \in Range(calls) : \E t \in S : c = C(t)
  BY <1>7 DEF Range
<1>9. News(Range(calls)) /\ \A c \in Range(calls) : c.by = by /\ c.why = "purge"
  BY <1>5, <1>6, <1>8 DEF News
<1> QED BY <1>2, <1>4, <1>7, <1>9

LEMMA FrameDestroyedHolds ==
  ASSUME OwnershipInv, SessionsHeld, NEW f \in Frame, FrameDestroyed(f)
  PROVE  SessionsHeld'
<1> DEFINE b == BridgeOf[f]
           S == {t \in DOMAIN owner : owner[t].frame = f}
           n == Cardinality(S)
           c == IF S = {} THEN Idle ELSE [Idle EXCEPT !.pc = "purging", !.n = n]
<1>1. /\ ctl' = [ctl EXCEPT ![b] = c] /\ ctl[b].pc = "idle"
      /\ UNCHANGED <<granted, owner, orphans, revoke, toAddon, losses, timeouts, link, held, duty,
                     removedTabs, daemonVars>>
  BY DEF FrameDestroyed, Usable
<1>2. PICK calls \in Cleanups(S, "purge", b) : Send(calls, ready)
  BY DEF FrameDestroyed
<1>3. UNCHANGED <<toAddon, served, owner, orphans, opened, revoke, duty>>
  BY <1>1 DEF daemonVars
<1>4. b \in Bridge /\ S \in SUBSET DOMAIN owner /\ b \in Bridge \cup {None}
  BY ShapeAssumption
<1> HIDE DEF b, S
<1>5. /\ calls \in Seq(Calls) /\ News(Range(calls)) /\ DOMAIN calls = 1..n
      /\ IsFiniteSet(S) /\ n \in Nat
      /\ \A x \in Range(calls) : x.by = b /\ x.why = "purge"
  BY <1>2, <1>4, PurgesAre
<1>6. (S # {}) => n >= 1
  BY <1>5, FS_EmptySet
<1>7. (S = {}) => n = 0
  BY FS_EmptySet
<1>8. /\ c \in CtlRec /\ Awaits(c) = n /\ (S # {} => c.pc = "purging")
      /\ (IF c.pc = "purging" THEN c.n >= 1 ELSE c.n = 0) /\ c.pc # "recheck"
  <2> HIDE DEF n
  <2>1. CASE S = {}
    BY <1>7, <2>1, IdleAwaits
  <2>2. CASE S # {}
    <3>1. /\ c \in CtlRec /\ c.pc = "purging" /\ c.n = n
      BY <1>5, <2>2 DEF Idle, CtlRec
    <3> HIDE DEF c
    <3> QED BY <1>6, <2>2, <3>1 DEF Awaits
  <2> QED BY <2>1, <2>2
<1>9. Awaits(ctl[b]) = 0
  BY <1>1 DEF Awaits
<1> HIDE DEF c
<1>10. Turns /\ ctl'[b] = c /\ \A x \in Bridge : (x # b) => ctl'[x] = ctl[x]
  BY <1>1, <1>4, <1>8, <1>9, TurnsOne
<1>11. \A i \in DOMAIN calls : calls[i].by = b /\ calls[i].why = "purge"
  BY <1>5 DEF Range
<1>12. Cardinality(Asks(calls, b)) = n
  <2>1. Asks(calls, b) = 1..n
    BY <1>5, <1>11 DEF Asks
  <2> HIDE DEF n
  <2>2. Cardinality(1..n) = n
    BY <1>5, FS_Interval
  <2> QED BY <2>1, <2>2
<1>13. \A x \in Bridge : (x # b) => Cardinality(Asks(calls, x)) = 0
  BY <1>11, AsksOfNone
<1>14. \A x \in Bridge : Awaits(ctl'[x]) = Awaits(ctl[x]) + Cardinality(Asks(calls, x))
  <2> SUFFICES ASSUME NEW x \in Bridge
               PROVE  Awaits(ctl'[x]) = Awaits(ctl[x]) + Cardinality(Asks(calls, x))
    OBVIOUS
  <2> HIDE DEF n
  <2>1. CASE x = b
    BY <1>5, <1>8, <1>9, <1>10, <1>12, <2>1
  <2>2. CASE x # b
    <3>1. Cardinality(Asks(calls, x)) = 0 /\ ctl'[x] = ctl[x]
      BY <1>10, <1>13, <2>2
    <3>2. Awaits(ctl[x]) \in Nat
      BY DEF OwnershipInv, Awaits, Shape, Records, CtlRec
    <3> QED BY <3>1, <3>2
  <2> QED BY <2>1, <2>2
<1>15. Awaited(Range(calls))
  <2> SUFFICES ASSUME NEW x \in Range(calls) PROVE AwaitedBy(x, ctl'[b])
    BY <1>5 DEF Awaited
  <2>1. PICK i \in DOMAIN calls : x = calls[i]
    BY DEF Range
  <2>2. n # 0
    <3> HIDE DEF n
    <3> QED BY <1>5, <2>1
  <2>3. c.pc = "purging"
    BY <1>7, <1>8, <2>2
  <2> QED BY <1>5, <1>10, <2>3 DEF AwaitedBy
<1>16. Says(owner', orphans', duty', ctl', revoke')
  <2>1. Says(owner, orphans, duty, ctl, revoke)
    BY SaysSo DEF SessionsHeld
  <2>2. \A x \in Bridge : (ctl'[x].pc = "recheck") => ctl'[x] = ctl[x]
    BY <1>8, <1>10
  <2> QED BY <1>3, <2>1, <2>2 DEF Says
<1>17. Shrinks
  BY <1>3 DEF Shrinks
<1>18. \A x \in Rechecks : ctl'[x].pc = "recheck" /\ ctl'[x].tok = ctl[x].tok
  BY <1>1, <1>10 DEF Rechecks
<1> QED BY <1>2, <1>3, <1>5, <1>10, <1>14, <1>15, <1>16, <1>17, <1>18, RequestKept

(* A purge by the loop itself *)
LEMMA PurgeHolds ==
  ASSUME OwnershipInv, SessionsHeld, UNCHANGED <<toAddon, served, owner, orphans, opened, ctl, revoke>>,
         duty' \subseteq duty, NEW S \in SUBSET DOMAIN owner,
         \E calls \in Cleanups(S, "purge", None) : Send(calls, ready)
  PROVE  SessionsHeld'
<1>1. PICK calls \in Cleanups(S, "purge", None) : Send(calls, ready)
  OBVIOUS
<1>2. /\ calls \in Seq(Calls) /\ News(Range(calls))
      /\ \A x \in Range(calls) : x.by = None /\ x.why = "purge"
  <2>1. None \in Bridge \cup {None}
    OBVIOUS
  <2> QED BY <1>1, <2>1, PurgesAre
<1>3. None \notin Bridge
  BY ShapeAssumption
<1>4. \A c \in Range(calls) : c.by \notin Bridge \/ c.why = "revoke"
  BY <1>2, <1>3
<1>5. \A r \in Revoker, t \in Token : (t \in revoke'[r].toks) => On(t, revoke'[r].dev)
  BY DEF SessionsHeld, Devices
<1> QED BY <1>1, <1>2, <1>4, <1>5, AsideHolds

LEMMA BridgeGoneHolds ==
  ASSUME OwnershipInv, SessionsHeld, NEW b \in Bridge, BridgeGone(b)
  PROVE  SessionsHeld'
<1> DEFINE S == {t \in DOMAIN owner : BridgeOf[owner[t].frame] = b}
<1>1. /\ \E calls \in Cleanups(S, "purge", None) : Send(calls, ready)
      /\ duty' = {k \in duty : BridgeOf[k[1]] # b}
      /\ UNCHANGED <<granted, owner, orphans, loopVars, toAddon, losses, timeouts, frameState,
                       held, removedTabs, daemonVars>>
  BY DEF BridgeGone
<1>2. UNCHANGED <<toAddon, served, owner, orphans, opened, ctl, revoke>> /\ duty' \subseteq duty
  BY <1>1 DEF daemonVars, loopVars
<1>3. S \in SUBSET DOMAIN owner
  OBVIOUS
<1> HIDE DEF S
<1> QED BY <1>1, <1>2, <1>3, PurgeHolds

LEMMA TabRemovedHolds ==
  ASSUME OwnershipInv, SessionsHeld, NEW tab \in Tab, TabRemoved(tab)
  PROVE  SessionsHeld'
<1> DEFINE S == {t \in DOMAIN owner : TabOfFrame(owner[t].frame) = tab}
<1>1. /\ \E calls \in Cleanups(S, "purge", None) : Send(calls, ready)
      /\ UNCHANGED <<granted, owner, orphans, loopVars, toAddon, losses, timeouts, link,
                       frameState, held, duty, daemonVars>>
  BY DEF TabRemoved
<1>2. UNCHANGED <<toAddon, served, owner, orphans, opened, ctl, revoke, duty>>
  BY <1>1 DEF daemonVars, loopVars
<1>3. S \in SUBSET DOMAIN owner
  OBVIOUS
<1> HIDE DEF S
<1> QED BY <1>1, <1>2, <1>3, PurgeHolds

LEMMA RetryOrphansHolds ==
  ASSUME OwnershipInv, SessionsHeld, RetryOrphans
  PROVE  SessionsHeld'
<1> DEFINE S == DOMAIN orphans
           C(t) == Cleanup(orphans[t], t, "retry", None)
<1>1. PICK q \in SetToSeqs(S) : Send([i \in DOMAIN q |-> C(q[i])], ready)
  BY DEF RetryOrphans
<1> DEFINE calls == [i \in DOMAIN q |-> C(q[i])]
<1>2. UNCHANGED <<toAddon, served, owner, orphans, opened, ctl, revoke, duty>>
  BY DEF RetryOrphans, bgVars, loopVars, bridgeVars, daemonVars
<1>3. q \in Seq(S) /\ Range(q) = S
  BY SeqOfSet DEF OwnershipInv, Shape, Records
<1>4. \A t \in S : /\ C(t) \in Calls /\ C(t).op = "close" /\ C(t).live /\ C(t).status = "none"
                   /\ C(t).by = None /\ C(t).tok = t /\ On(t, C(t).dev) /\ C(t).why = "retry"
  <2> SUFFICES ASSUME NEW t \in S
               PROVE  /\ C(t) \in Calls /\ C(t).op = "close" /\ C(t).live /\ C(t).status = "none"
                      /\ C(t).by = None /\ C(t).tok = t /\ On(t, C(t).dev) /\ C(t).why = "retry"
    OBVIOUS
  <2>1. t \in Token /\ orphans[t] \in Device \cup {None}
    BY DEF OwnershipInv, Shape, Records
  <2>2. On(t, orphans[t])
    BY DEF SessionsHeld, Devices
  <2> QED BY <2>1, <2>2 DEF Cleanup, Call, Calls, Whys
<1> HIDE DEF C
<1>5. DOMAIN q = 1..Len(q) /\ Len(q) \in Nat /\ \A i \in DOMAIN q : q[i] \in S
  BY <1>3
<1>6. calls \in Seq(Calls) /\ \A c \in Range(calls) : \E t \in S : c = C(t)
  <2>1. calls \in [1..Len(q) -> Calls]
    BY <1>4, <1>5
  <2>2. DOMAIN calls = DOMAIN q /\ \A i \in DOMAIN q : calls[i] = C(q[i])
    OBVIOUS
  <2> HIDE DEF calls
  <2> QED BY <1>5, <2>1, <2>2 DEF Range
<1>7. Send(calls, ready)
  BY <1>1
<1> HIDE DEF calls, S
<1>8. News(Range(calls)) /\ \A c \in Range(calls) : c.by = None
  BY <1>4, <1>6 DEF News
<1>9. \A c \in Range(calls) : c.by \notin Bridge \/ c.why = "revoke"
  BY <1>8, ShapeAssumption
<1>10. \A r \in Revoker, t \in Token : (t \in revoke'[r].toks) => On(t, revoke'[r].dev)
  BY <1>2 DEF SessionsHeld, Devices
<1>11. duty' \subseteq duty
  BY <1>2
<1> QED BY <1>2, <1>6, <1>7, <1>8, <1>9, <1>10, <1>11, AsideHolds

---------------------------------------------------------------------------
(* Revocations *)

(* The next close of a revocation names the device of its session. *)
LEMMA RevokesAre ==
  ASSUME revoke \in [Revoker -> RevokeRec], NEW r \in Revoker, NEW rev \in RevokeRec,
         rev.toks \subseteq Token, NEW own, NEW rdy, RevokeNext(r, rev, own, rdy),
         \A t \in rev.toks : On(t, rev.dev),
         \A x \in Revoker, t \in Token : (t \in revoke[x].toks) => On(t, revoke[x].dev)
  PROVE  \E calls :
           /\ calls \in Seq(Calls) /\ News(Range(calls)) /\ Send(calls, rdy)
           /\ \A c \in Range(calls) : c.why = "revoke"
           /\ \A x \in Revoker, t \in Token : (t \in revoke'[x].toks) => On(t, revoke'[x].dev)
<1>1. CASE \E t \in rev.toks :
             /\ revoke' = [revoke EXCEPT ![r] = [rev EXCEPT !.pc = "closing", !.toks = @ \ {t}]]
             /\ tabCount' = IF t \in DOMAIN own THEN Unregister({t}, own) ELSE tabCount
             /\ Send(<<Call("close", rev.dev, t, "revoke", r, t \in DOMAIN own)>>, rdy)
  <2> PICK t \in rev.toks :
             /\ revoke' = [revoke EXCEPT ![r] = [rev EXCEPT !.pc = "closing", !.toks = @ \ {t}]]
             /\ tabCount' = IF t \in DOMAIN own THEN Unregister({t}, own) ELSE tabCount
             /\ Send(<<Call("close", rev.dev, t, "revoke", r, t \in DOMAIN own)>>, rdy)
    BY <1>1
  <2> DEFINE e == Call("close", rev.dev, t, "revoke", r, t \in DOMAIN own)
             calls == <<e>>
             new == [rev EXCEPT !.pc = "closing", !.toks = @ \ {t}]
  <2>1. /\ e.op = "close" /\ e.live = TRUE /\ e.status = "none" /\ e.why = "revoke"
        /\ e.tok = t /\ e.dev = rev.dev /\ e \in Calls
    <3>1. rev.dev \in Device \cup {None} /\ t \in Token
      BY DEF RevokeRec
    <3> QED BY <3>1 DEF Call, Calls, Whys
  <2>2. Send(calls, rdy) /\ revoke' = [revoke EXCEPT ![r] = new]
    OBVIOUS
  <2>3. new.toks \subseteq rev.toks /\ new.dev = rev.dev
    BY DEF RevokeRec
  <2> HIDE DEF e, new
  <2>4. calls \in Seq(Calls) /\ Range(calls) = {e}
    BY <2>1, OneCall
  <2> HIDE DEF calls
  <2>5. \A x \in Revoker : revoke'[x] = IF x = r THEN new ELSE revoke[x]
    BY <2>2
  <2>6. \A x \in Revoker, u \in Token : (u \in revoke'[x].toks) => On(u, revoke'[x].dev)
    BY <2>3, <2>5
  <2>7. News(Range(calls)) /\ \A c \in Range(calls) : c.why = "revoke"
    BY <2>1, <2>4 DEF News
  <2> QED BY <2>2, <2>4, <2>6, <2>7
<1>2. CASE /\ rev.toks = {}
           /\ revoke' = [revoke EXCEPT ![r] = IF rev.todo = {} THEN NoRevoke
                                              ELSE [rev EXCEPT !.pc = "ungrant"]]
           /\ tabCount' = tabCount
           /\ Send(<<>>, rdy)
  <2> DEFINE new == IF rev.todo = {} THEN NoRevoke ELSE [rev EXCEPT !.pc = "ungrant"]
             calls == <<>>
  <2>1. new.toks = {}
    BY <1>2 DEF NoRevoke, RevokeRec
  <2>2. revoke' = [revoke EXCEPT ![r] = new]
    BY <1>2
  <2> HIDE DEF new
  <2>3. \A x \in Revoker : revoke'[x] = IF x = r THEN new ELSE revoke[x]
    BY <2>2
  <2>4. \A x \in Revoker, u \in Token : (u \in revoke'[x].toks) => On(u, revoke'[x].dev)
    BY <2>1, <2>3
  <2>5. calls \in Seq(Calls) /\ Range(calls) = {} /\ Send(calls, rdy)
    BY <1>2, RangeOfEmpty
  <2> HIDE DEF calls
  <2>6. News(Range(calls)) /\ \A c \in Range(calls) : c.why = "revoke"
    BY <2>5 DEF News
  <2> QED BY <2>4, <2>5, <2>6
<1> QED BY <1>1, <1>2 DEF RevokeNext

LEMMA RevokeDeviceHolds ==
  ASSUME OwnershipInv, SessionsHeld, NEW r \in Revoker, RevokeDevice(r)
  PROVE  SessionsHeld'
<1>1. PICK d \in revoke[r].todo :
        LET mine == {t \in DOMAIN owner : owner[t].dev = d
                                            /\ OriginOf[owner[t].frame] = revoke[r].origin}
        IN  /\ granted' = granted \ {<<revoke[r].origin, d>>}
            /\ RevokeNext(r, [revoke[r] EXCEPT !.todo = @ \ {d}, !.dev = d, !.toks = mine],
                          owner, ready)
  BY DEF RevokeDevice
<1> DEFINE mine == {t \in DOMAIN owner : owner[t].dev = d
                                           /\ OriginOf[owner[t].frame] = revoke[r].origin}
           rev == [revoke[r] EXCEPT !.todo = @ \ {d}, !.dev = d, !.toks = mine]
<1>2. UNCHANGED <<toAddon, served, owner, orphans, opened, ctl, duty>>
  BY DEF RevokeDevice, bridgeVars, daemonVars
<1>3. revoke \in [Revoker -> RevokeRec] /\ revoke[r] \in RevokeRec
  BY DEF OwnershipInv, Shape, Records
<1>4. rev \in RevokeRec /\ rev.toks = mine /\ rev.dev = d /\ mine \subseteq Token
  <2>1. mine \in SUBSET Token /\ d \in Device
    BY <1>3 DEF OwnershipInv, Shape, Records, RevokeRec
  <2> HIDE DEF mine
  <2> QED BY <1>3, <2>1 DEF RevokeRec
<1>5. RevokeNext(r, rev, owner, ready)
  BY <1>1
<1>6. \A t \in mine : On(t, d)
  BY DEF SessionsHeld, Devices
<1> HIDE DEF mine, rev
<1>7. \A x \in Revoker, t \in Token : (t \in revoke[x].toks) => On(t, revoke[x].dev)
  BY DEF SessionsHeld, Devices
<1>8. \A t \in rev.toks : On(t, rev.dev)
  BY <1>4, <1>6
<1>9. \E calls : /\ calls \in Seq(Calls) /\ News(Range(calls)) /\ Send(calls, ready)
                 /\ \A c \in Range(calls) : c.why = "revoke"
                 /\ \A x \in Revoker, t \in Token : (t \in revoke'[x].toks) => On(t, revoke'[x].dev)
  BY <1>3, <1>4, <1>5, <1>7, <1>8, RevokesAre
<1>10. PICK calls : /\ calls \in Seq(Calls) /\ News(Range(calls)) /\ Send(calls, ready)
                    /\ \A c \in Range(calls) : c.why = "revoke"
                    /\ \A x \in Revoker, t \in Token : (t \in revoke'[x].toks) => On(t, revoke'[x].dev)
  BY <1>9
<1>11. duty' \subseteq duty
  BY <1>2
<1> QED BY <1>2, <1>10, <1>11, AsideHolds

---------------------------------------------------------------------------
(* Answers: the continuation of the call c, which was settled first *)

LEMMA AnswerHolds ==
  ASSUME OwnershipInv, SessionsHeld, ready # <<>>, NEW c, c = Head(ready),
         UNCHANGED <<toAddon, served, opened>>, Turns,
         NEW calls \in Seq(Calls), News(Range(calls)), Awaited(Range(calls)), Send(calls, Tail(ready)),
         \A b \in Bridge : Awaits(ctl'[b]) + (IF c.by = b /\ c.why # "revoke" THEN 1 ELSE 0)
                             = Awaits(ctl[b]) + Cardinality(Asks(calls, b)),
         Says(owner', orphans', duty', ctl', revoke'),
         \A t \in DOMAIN opened' :
           /\ (c.op = "close" /\ c.why # "close" /\ c.tok = t) => Held(t)'
           /\ (t \in DOMAIN owner) => Held(t)'
           /\ (t \in DOMAIN orphans) => Held(t)'
           /\ (c.op = "open" /\ c.status = "ok" /\ c.tok = t) => Held(t)'
           /\ \A b \in Rechecks : (ctl[b].tok = t) => Held(t)'
  PROVE  SessionsHeld'
<1> DEFINE rdy == Tail(ready)
           X == {c}
<1>1. ready \in Seq(Calls) /\ Distinct(ready)
  BY DEF OwnershipInv, Fresh, Shape, Queues
<1>2. rdy \in Seq(Calls) /\ Range(ready) = X \cup Range(rdy) /\ Distinct(rdy)
  BY <1>1, TailOf, RangeOfTail, OffersOfTail
<1>3. \A b : Cardinality(Asks(ready, b))
               = Cardinality(Asks(rdy, b)) + (IF c.by = b /\ c.why # "revoke" THEN 1 ELSE 0)
  BY <1>1, AsksOfTail
<1>4. \A t \in Offers(ready) : t \in Offers(rdy) \/ (c.op = "open" /\ c.status = "ok" /\ c.tok = t)
  <2> SUFFICES ASSUME NEW i \in OffersAt(ready), ready[i].tok \notin Offers(rdy)
               PROVE  c.op = "open" /\ c.status = "ok" /\ c.tok = ready[i].tok
    BY DEF Offers
  <2>1. i \in DOMAIN ready /\ ready[i].op = "open" /\ ready[i].status = "ok"
    BY DEF OffersAt
  <2>2. CASE i = 1
    BY <1>1, <2>1, <2>2, TailOf
  <2>3. CASE i # 1
    <3>1. i - 1 \in DOMAIN rdy /\ (i - 1) + 1 = i
      BY <1>1, <2>1, <2>3, TailOf
    <3>2. rdy[i - 1] = ready[(i - 1) + 1]
      BY <1>1, <3>1, TailOf
    <3>3. i - 1 \in OffersAt(rdy) /\ rdy[i - 1].tok = ready[i].tok
      BY <2>1, <3>1, <3>2 DEF OffersAt
    <3> QED BY <3>3 DEF Offers
  <2> QED BY <2>2, <2>3
<1>5. Shrinks
  BY DEF Shrinks
<1>6. Send(calls, rdy)
  OBVIOUS
<1> HIDE DEF rdy
<1>7. \A b \in Bridge : Awaits(ctl'[b]) + Cardinality(Asks(ready, b))
                          = Awaits(ctl[b]) + Cardinality(Asks(rdy, b)) + Cardinality(Asks(calls, b))
  <2> SUFFICES ASSUME NEW b \in Bridge
               PROVE  Awaits(ctl'[b]) + Cardinality(Asks(ready, b))
                          = Awaits(ctl[b]) + Cardinality(Asks(rdy, b)) + Cardinality(Asks(calls, b))
    OBVIOUS
  <2> DEFINE k == IF c.by = b /\ c.why # "revoke" THEN 1 ELSE 0
             r == Cardinality(Asks(ready, b))
             y == Cardinality(Asks(rdy, b))
             n == Cardinality(Asks(calls, b))
             w == Awaits(ctl[b])
             ww == Awaits(ctl'[b])
  <2>1. w \in Nat /\ ww \in Nat
    BY DEF OwnershipInv, Awaits, Shape, Records, CtlRec, Turns
  <2>2. y \in Nat /\ n \in Nat
    BY <1>2, AsksFinite
  <2>3. k \in Nat /\ r = y + k /\ ww + k = w + n
    BY <1>3
  <2> HIDE DEF k, r, y, n, w, ww
  <2>4. ww + r = w + y + n
    BY <2>1, <2>2, <2>3
  <2> QED BY <2>4 DEF r, y, n, w, ww
<1>8. Range(rdy) \subseteq Range(ready) /\ Range(ready) \subseteq Range(rdy) \cup X
  BY <1>2
<1>9. \A t \in DOMAIN opened' :
           /\ \A e \in X : (e.op = "close" /\ e.why # "close" /\ e.tok = t) => Held(t)'
           /\ (t \in DOMAIN owner) => Held(t)'
           /\ (t \in DOMAIN orphans) => Held(t)'
           /\ (t \in Offers(ready)) => (t \in Offers(rdy) \/ Held(t)')
           /\ \A b \in Rechecks : (ctl[b].tok = t) => Held(t)'
  BY <1>4
<1> HIDE DEF X
<1> QED BY <1>2, <1>5, <1>6, <1>7, <1>8, <1>9, LoopKept

(* A confirmed close forgets the session, which is gone; any other keeps   *)
(* it as an orphan.                                                        *)
LEMMA AfterCleanupHolds ==
  ASSUME OwnershipInv, SessionsHeld, opened' = opened, NEW c \in Calls, c \in InFlight,
         c.op = "close", AfterCleanup(c)
  PROVE  /\ \A t \in DOMAIN owner' : On(t, owner'[t].dev)
         /\ \A t \in DOMAIN orphans' : On(t, orphans'[t])
         /\ \A t \in DOMAIN opened' :
              (c.tok = t \/ t \in DOMAIN owner \/ t \in DOMAIN orphans) => Held(t)'
<1> DEFINE S == {c.tok}
           more == Put(orphans, c.tok, c.dev)
<1>1. On(c.tok, c.dev) /\ ((c.status = "ok") => c.tok \notin DOMAIN opened)
  BY DEF SessionsHeld, Devices, Confirmed
<1>2. Says(owner, orphans, duty, ctl, revoke)
  BY SaysSo DEF SessionsHeld
<1>3. /\ DOMAIN Drop(owner, S) = DOMAIN owner \ S
      /\ \A x \in DOMAIN owner \ S : Drop(owner, S)[x] = owner[x]
      /\ DOMAIN Drop(orphans, S) = DOMAIN orphans \ S
      /\ \A x \in DOMAIN orphans \ S : Drop(orphans, S)[x] = orphans[x]
  BY DropAt
<1>4. /\ DOMAIN more = DOMAIN orphans \cup {c.tok} /\ more[c.tok] = c.dev
      /\ \A x \in DOMAIN orphans : (x # c.tok) => more[x] = orphans[x]
  BY DEF Put
<1>5. \/ owner' = Drop(owner, S) \/ owner' = owner
  BY DEF AfterCleanup
<1>6. /\ (c.status = "ok") => orphans' = Drop(orphans, S)
      /\ (c.status # "ok") => \/ orphans' = orphans /\ c.tok \in DOMAIN orphans
                              \/ orphans' = more
  BY DEF AfterCleanup
<1> HIDE DEF more
<1>7. /\ \A t \in DOMAIN owner' : t \in DOMAIN owner /\ owner'[t] = owner[t]
      /\ \A t \in DOMAIN owner : t # c.tok => t \in DOMAIN owner'
  BY <1>3, <1>5
<1>8. \A t \in DOMAIN owner' : On(t, owner'[t].dev)
  BY <1>2, <1>7 DEF Says
<1>9. \A t \in DOMAIN orphans' : On(t, orphans'[t])
  BY <1>1, <1>2, <1>3, <1>4, <1>6 DEF Says
<1>10. ASSUME NEW t \in DOMAIN opened', c.tok = t \/ t \in DOMAIN owner \/ t \in DOMAIN orphans
       PROVE  t \in DOMAIN owner' \/ t \in DOMAIN orphans'
  <2>1. CASE c.tok = t
    <3>1. c.status # "ok"
      BY <1>1, <2>1
    <3> QED BY <1>4, <1>6, <2>1, <3>1
  <2>2. CASE c.tok # t /\ t \in DOMAIN owner
    BY <1>7, <2>2
  <2>3. CASE c.tok # t /\ t \in DOMAIN orphans
    BY <1>3, <1>4, <1>6, <2>3
  <2> QED BY <1>10, <2>1, <2>2, <2>3
<1>11. \A t \in DOMAIN opened' :
         (c.tok = t \/ t \in DOMAIN owner \/ t \in DOMAIN orphans) => Held(t)'
  BY <1>10 DEF Held
<1> QED BY <1>8, <1>9, <1>11

(* The first of the settled calls is one its handler waits for. *)
LEMMA HeadAwaited ==
  ASSUME OwnershipInv, SessionsHeld, ready # <<>>, NEW c, c = Head(ready)
  PROVE  /\ c \in Calls /\ c \in InFlight
         /\ (c.why = "open") => c.by \in Bridge
         /\ (c.by \in Bridge /\ c.why # "revoke") => AwaitedBy(c, ctl[c.by])
         /\ (c.op = "close" \/ c.status = "ok") => On(c.tok, c.dev)
<1>1. c \in Calls /\ c \in InFlight
  BY HeadIsCall DEF OwnershipInv
<1> QED BY <1>1 DEF SessionsHeld, Openers, Counted, Devices

(* The handler that awaited the answer is idle again. *)
LEMMA SettledTurns ==
  ASSUME OwnershipInv, SessionsHeld, NEW b, GoIdle(b),
         (b \in Bridge) => Awaits(ctl[b]) = 1
  PROVE  /\ Turns
         /\ \A x \in Bridge : Awaits(ctl'[x]) + (IF b = x THEN 1 ELSE 0) = Awaits(ctl[x])
         /\ \A x \in Bridge : (ctl'[x].pc = "recheck") => ctl'[x] = ctl[x]
         /\ \A x \in Rechecks : ctl'[x] = ctl[x]
<1> DEFINE c == Idle
<1>1. c \in CtlRec /\ c.pc = "idle" /\ c.n = 0 /\ Awaits(c) = 0 /\ ctl' = [ctl EXCEPT ![b] = c]
  BY IdleAwaits DEF GoIdle
<1> HIDE DEF c
<1>2. \A x \in Bridge : Awaits(ctl[x]) \in Nat
  BY DEF OwnershipInv, Awaits, Shape, Records, CtlRec
<1>3. CASE b \in Bridge
  <2>1. Turns /\ ctl'[b] = c /\ \A x \in Bridge : (x # b) => ctl'[x] = ctl[x]
    BY <1>1, <1>3, TurnsOne
  <2>2. ctl[b].pc # "recheck"
    BY <1>3 DEF Awaits
  <2>3. \A x \in Bridge : Awaits(ctl'[x]) + (IF b = x THEN 1 ELSE 0) = Awaits(ctl[x])
    <3> SUFFICES ASSUME NEW x \in Bridge
                 PROVE  Awaits(ctl'[x]) + (IF b = x THEN 1 ELSE 0) = Awaits(ctl[x])
      OBVIOUS
    <3>1. CASE x = b
      BY <1>1, <1>3, <2>1, <3>1
    <3>2. CASE x # b
      BY <1>2, <2>1, <3>2
    <3> QED BY <3>1, <3>2
  <2> QED BY <1>1, <2>1, <2>2, <2>3 DEF Rechecks
<1>4. CASE b \notin Bridge
  <2>1. ctl' = ctl
    BY <1>1, <1>4 DEF OwnershipInv, Shape, Records
  <2>2. Turns
    BY <2>1, TurnsNone
  <2>3. \A x \in Bridge : Awaits(ctl'[x]) + (IF b = x THEN 1 ELSE 0) = Awaits(ctl[x])
    BY <1>2, <1>4, <2>1
  <2> QED BY <2>1, <2>2, <2>3
<1> QED BY <1>3, <1>4

LEMMA OpenAnsweredHolds ==
  ASSUME OwnershipInv, SessionsHeld, ready # <<>>, NEW c, c = Head(ready), OpenAnswered(c),
         UNCHANGED <<toAddon, losses, timeouts, daemonVars>>
  PROVE  SessionsHeld'
<1> DEFINE calls == <<>>
           b == c.by
           new == [ctl[b] EXCEPT !.pc = "recheck", !.tok = c.tok]
           k == IF c.status = "ok" THEN new ELSE Idle
<1>1. /\ c \in Calls /\ b \in Bridge /\ AwaitedBy(c, ctl[b]) /\ c.why = "open"
      /\ (c.status = "ok") => On(c.tok, c.dev)
  BY HeadAwaited DEF OpenAnswered
<1>2. c.op = "open" /\ ((c.status = "ok") => c.tok \in Token)
  BY <1>1, CallIs DEF OpenAnswered
<1>3. /\ Send(calls, Tail(ready)) /\ ctl' = [ctl EXCEPT ![b] = k]
      /\ UNCHANGED <<bgVars, revoke, bridgeVars>>
  BY DEF OpenAnswered
<1>4. UNCHANGED <<toAddon, served, opened, duty, owner, orphans, revoke>>
  BY <1>3 DEF bgVars, bridgeVars, daemonVars
<1>5. ctl[b] \in CtlRec /\ ctl[b].pc = "opening" /\ ctl[b].dev = c.dev /\ ctl[b].n = 0
  <2>1. ctl[b].pc = "opening" /\ ctl[b].dev = c.dev
    BY <1>1 DEF AwaitedBy
  <2> QED BY <1>1, <2>1 DEF OwnershipInv, Shape, Records, SessionsHeld, Counted
<1>6. Awaits(ctl[b]) = 1
  BY <1>5 DEF Awaits
<1>7. (c.status = "ok") => /\ new \in CtlRec /\ new.pc = "recheck" /\ new.tok = c.tok
                           /\ new.dev = c.dev /\ new.n = 0 /\ Awaits(new) = 0
  <2> SUFFICES ASSUME c.status = "ok"
               PROVE  /\ new \in CtlRec /\ new.pc = "recheck" /\ new.tok = c.tok
                      /\ new.dev = c.dev /\ new.n = 0 /\ Awaits(new) = 0
    OBVIOUS
  <2>1. /\ new \in CtlRec /\ new.pc = "recheck" /\ new.tok = c.tok /\ new.dev = c.dev /\ new.n = 0
    BY <1>2, <1>5 DEF CtlRec
  <2> HIDE DEF new
  <2> QED BY <2>1 DEF Awaits
<1> HIDE DEF new
<1>8. /\ k \in CtlRec /\ k.pc # "purging" /\ k.n = 0 /\ Awaits(k) = 0
      /\ (k.pc = "recheck") => (c.status = "ok" /\ k.tok = c.tok /\ k.dev = c.dev)
      /\ (c.status = "ok") => (k.pc = "recheck" /\ k.tok = c.tok)
  BY <1>7, IdleAwaits
<1> HIDE DEF k
<1>9. Turns /\ ctl'[b] = k /\ \A x \in Bridge : (x # b) => ctl'[x] = ctl[x]
  BY <1>1, <1>3, <1>8, TurnsOne
<1>10. calls \in Seq(Calls) /\ Range(calls) = {} /\ \A x : Cardinality(Asks(calls, x)) = 0
  BY RangeOfEmpty, AsksOfEmpty
<1> HIDE DEF calls
<1>11. News(Range(calls)) /\ Awaited(Range(calls))
  BY <1>10 DEF News, Awaited
<1>12. \A x \in Bridge : Awaits(ctl'[x]) + (IF c.by = x /\ c.why # "revoke" THEN 1 ELSE 0)
                           = Awaits(ctl[x]) + Cardinality(Asks(calls, x))
  <2> SUFFICES ASSUME NEW x \in Bridge
               PROVE  Awaits(ctl'[x]) + (IF b = x THEN 1 ELSE 0) = Awaits(ctl[x])
    <3>1. \A x \in Bridge : Awaits(ctl[x]) \in Nat
      BY DEF OwnershipInv, Awaits, Shape, Records, CtlRec
    <3> QED BY <1>1, <1>10, <3>1
  <2>1. CASE x = b
    BY <1>6, <1>8, <1>9, <2>1
  <2>2. CASE x # b
    <3>1. Awaits(ctl[x]) \in Nat
      BY DEF OwnershipInv, Awaits, Shape, Records, CtlRec
    <3> QED BY <1>9, <2>2, <3>1
  <2> QED BY <2>1, <2>2
<1>13. Says(owner', orphans', duty', ctl', revoke')
  <2>1. Says(owner, orphans, duty, ctl, revoke)
    BY SaysSo DEF SessionsHeld
  <2>2. \A x \in Bridge : (ctl'[x].pc = "recheck") => On(ctl'[x].tok, ctl'[x].dev)
    <3> SUFFICES ASSUME NEW x \in Bridge, ctl'[x].pc = "recheck"
                 PROVE  On(ctl'[x].tok, ctl'[x].dev)
      OBVIOUS
    <3>1. CASE x = b
      BY <1>1, <1>8, <1>9, <3>1
    <3>2. CASE x # b
      BY <1>9, <2>1, <3>2 DEF Says
    <3> QED BY <3>1, <3>2
  <2> QED BY <1>4, <2>1, <2>2 DEF Says
<1>14. \A t \in DOMAIN opened' :
           /\ (c.op = "close" /\ c.why # "close" /\ c.tok = t) => Held(t)'
           /\ (t \in DOMAIN owner) => Held(t)'
           /\ (t \in DOMAIN orphans) => Held(t)'
  BY <1>2, <1>4 DEF Held
<1>15. \A t \in DOMAIN opened' : (c.op = "open" /\ c.status = "ok" /\ c.tok = t) => Held(t)'
  BY <1>1, <1>8, <1>9 DEF Held, Rechecks
<1>16. \A t \in DOMAIN opened', x \in Rechecks : (ctl[x].tok = t) => Held(t)'
  BY <1>5, <1>9 DEF Held, Rechecks
<1>17. \A t \in DOMAIN opened' :
           /\ (c.op = "close" /\ c.why # "close" /\ c.tok = t) => Held(t)'
           /\ (t \in DOMAIN owner) => Held(t)'
           /\ (t \in DOMAIN orphans) => Held(t)'
           /\ (c.op = "open" /\ c.status = "ok" /\ c.tok = t) => Held(t)'
  BY <1>14, <1>15
<1>18. Send(calls, Tail(ready)) /\ Turns
  BY <1>3, <1>9
<1> HIDE DEF b
<1>19. UNCHANGED <<toAddon, served, opened>>
  BY <1>4
<1>20. calls \in Seq(Calls)
  BY <1>10
<1>21. News(Range(calls)) /\ Awaited(Range(calls)) /\ Send(calls, Tail(ready)) /\ Turns
  BY <1>11, <1>18
<1> QED BY <1>12, <1>13, <1>16, <1>17, <1>19, <1>20, <1>21, AnswerHolds

(* The page's own close: refused, the session stays with its owner. *)
LEMMA CloseAnsweredHolds ==
  ASSUME OwnershipInv, SessionsHeld, ready # <<>>, NEW c, c = Head(ready), CloseAnswered(c),
         UNCHANGED <<toAddon, losses, timeouts, daemonVars>>
  PROVE  SessionsHeld'
<1> DEFINE calls == <<>>
           S == {c.tok}
<1>1. /\ c \in Calls /\ c \in InFlight /\ c.why = "close"
      /\ (c.by \in Bridge) => AwaitedBy(c, ctl[c.by])
  BY HeadAwaited DEF CloseAnswered
<1>2. c.op = "close"
  BY <1>1, CallIs
<1>3. /\ Send(calls, Tail(ready)) /\ GoIdle(c.by)
      /\ \/ c.status = "ok" /\ owner' = Drop(owner, S)
         \/ owner' = owner
      /\ UNCHANGED <<granted, frames, orphans, revoke, link, duty, removedTabs>>
  BY DEF CloseAnswered
<1>4. UNCHANGED <<toAddon, served, opened, orphans, duty, revoke>>
  BY <1>3 DEF daemonVars
<1>5. (c.by \in Bridge) => Awaits(ctl[c.by]) = 1
  BY <1>1 DEF AwaitedBy, Awaits
<1>6. /\ Turns
      /\ \A x \in Bridge : Awaits(ctl'[x]) + (IF c.by = x THEN 1 ELSE 0) = Awaits(ctl[x])
      /\ \A x \in Bridge : (ctl'[x].pc = "recheck") => ctl'[x] = ctl[x]
      /\ \A x \in Rechecks : ctl'[x] = ctl[x]
  BY <1>3, <1>5, SettledTurns
<1>7. (c.status = "ok") => c.tok \notin DOMAIN opened
  BY <1>1, <1>2 DEF SessionsHeld, Confirmed
<1>8. /\ \A t \in DOMAIN owner' : t \in DOMAIN owner /\ owner'[t] = owner[t]
      /\ \A t \in DOMAIN owner : t \in DOMAIN owner' \/ t \notin DOMAIN opened
  <2>1. /\ DOMAIN Drop(owner, S) = DOMAIN owner \ S
        /\ \A x \in DOMAIN owner \ S : Drop(owner, S)[x] = owner[x]
    BY DropAt
  <2>2. CASE c.status = "ok" /\ owner' = Drop(owner, S)
    BY <1>7, <2>1, <2>2
  <2>3. CASE owner' = owner
    BY <2>3
  <2> QED BY <1>3, <2>2, <2>3
<1>9. Says(owner', orphans', duty', ctl', revoke')
  <2>1. Says(owner, orphans, duty, ctl, revoke)
    BY SaysSo DEF SessionsHeld
  <2>2. \A t \in DOMAIN owner' : On(t, owner'[t].dev)
    BY <1>8, <2>1 DEF Says
  <2> QED BY <1>4, <1>6, <2>1, <2>2 DEF Says
<1>10. calls \in Seq(Calls) /\ Range(calls) = {} /\ \A x : Cardinality(Asks(calls, x)) = 0
  BY RangeOfEmpty, AsksOfEmpty
<1> HIDE DEF calls
<1>11. News(Range(calls)) /\ Awaited(Range(calls))
  BY <1>10 DEF News, Awaited
<1>12. \A x \in Bridge : Awaits(ctl'[x]) + (IF c.by = x /\ c.why # "revoke" THEN 1 ELSE 0)
                           = Awaits(ctl[x]) + Cardinality(Asks(calls, x))
  <2>1. \A x \in Bridge : Awaits(ctl[x]) \in Nat
    BY DEF OwnershipInv, Awaits, Shape, Records, CtlRec
  <2> QED BY <1>1, <1>6, <1>10, <2>1
<1>13. \A t \in DOMAIN opened' :
           /\ (c.op = "close" /\ c.why # "close" /\ c.tok = t) => Held(t)'
           /\ (t \in DOMAIN owner) => Held(t)'
           /\ (t \in DOMAIN orphans) => Held(t)'
           /\ (c.op = "open" /\ c.status = "ok" /\ c.tok = t) => Held(t)'
  BY <1>1, <1>2, <1>4, <1>8 DEF Held
<1>14. \A t \in DOMAIN opened', x \in Rechecks : (ctl[x].tok = t) => Held(t)'
  BY <1>6 DEF Held, Rechecks
<1> QED BY <1>3, <1>4, <1>6, <1>9, <1>10, <1>11, <1>12, <1>13, <1>14, AnswerHolds

(* What the handler does that awaited a close for clean-up *)
LEMMA CleanupTurns ==
  ASSUME OwnershipInv, SessionsHeld, NEW c, c.why \in {"late", "cleanup", "purge", "retry"},
         (c.by \in Bridge) => AwaitedBy(c, ctl[c.by]),
         \/ c.by \in Bridge /\ ctl[c.by].n <= 1 /\ GoIdle(c.by)
         \/ c.by \in Bridge /\ ctl[c.by].n > 1 /\ ctl' = [ctl EXCEPT ![c.by].n = @ - 1]
         \/ c.by = None /\ ctl' = ctl
  PROVE  /\ Turns
         /\ \A x \in Bridge : Awaits(ctl'[x]) + (IF c.by = x THEN 1 ELSE 0) = Awaits(ctl[x])
         /\ \A x \in Bridge : (ctl'[x].pc = "recheck") => ctl'[x] = ctl[x]
         /\ \A x \in Rechecks : ctl'[x] = ctl[x]
<1> DEFINE b == c.by
<1>1. \A x \in Bridge : /\ Awaits(ctl[x]) \in Nat /\ ctl[x] \in CtlRec /\ ctl[x].n \in Nat
                        /\ IF ctl[x].pc = "purging" THEN ctl[x].n >= 1 ELSE ctl[x].n = 0
  BY DEF OwnershipInv, Awaits, Shape, Records, CtlRec, SessionsHeld, Counted
<1>2. CASE b \in Bridge /\ ctl[b].n <= 1 /\ GoIdle(b)
  <2>1. ctl[b].pc = "purging" \/ ctl[b].pc = "late" \/ ctl[b].pc = "cleaning"
    BY <1>2 DEF AwaitedBy
  <2>2. Awaits(ctl[b]) = 1
    BY <1>1, <1>2, <2>1 DEF Awaits
  <2> QED BY <1>2, <2>2, SettledTurns
<1>3. CASE b \in Bridge /\ ctl[b].n > 1 /\ ctl' = [ctl EXCEPT ![b].n = @ - 1]
  <2> DEFINE m == ctl[b].n
             new == [ctl[b] EXCEPT !.n = m - 1]
  <2>1. ctl[b].pc = "purging" /\ m \in Nat /\ m > 1 /\ m - 1 \in Nat /\ m - 1 >= 1
    BY <1>1, <1>3
  <2>2. /\ new \in CtlRec /\ new.pc = "purging" /\ new.n = m - 1 /\ new.dev = ctl[b].dev
    BY <1>1, <1>3, <2>1 DEF CtlRec
  <2>3. ctl' = [ctl EXCEPT ![b] = new]
    BY <1>3 DEF OwnershipInv, Shape, Records
  <2>4. Awaits(ctl[b]) = m
    BY <2>1 DEF Awaits
  <2> HIDE DEF new, m
  <2>5. Awaits(new) = m - 1
    BY <2>2 DEF Awaits
  <2>6. Turns /\ ctl'[b] = new /\ \A x \in Bridge : (x # b) => ctl'[x] = ctl[x]
    BY <1>3, <2>1, <2>2, <2>3, TurnsOne
  <2>7. \A x \in Bridge : Awaits(ctl'[x]) + (IF b = x THEN 1 ELSE 0) = Awaits(ctl[x])
    <3> SUFFICES ASSUME NEW x \in Bridge
                 PROVE  Awaits(ctl'[x]) + (IF b = x THEN 1 ELSE 0) = Awaits(ctl[x])
      OBVIOUS
    <3>1. CASE x = b
      BY <2>1, <2>4, <2>5, <2>6, <3>1
    <3>2. CASE x # b
      BY <1>1, <2>6, <3>2
    <3> QED BY <3>1, <3>2
  <2> QED BY <2>1, <2>2, <2>6, <2>7 DEF Rechecks
<1>4. CASE b = None /\ ctl' = ctl
  <2>1. Turns /\ b \notin Bridge
    BY <1>4, TurnsNone, ShapeAssumption
  <2>2. \A x \in Bridge : Awaits(ctl'[x]) + (IF b = x THEN 1 ELSE 0) = Awaits(ctl[x])
    BY <1>1, <1>4, <2>1
  <2> QED BY <1>4, <2>1, <2>2
<1> QED BY <1>2, <1>3, <1>4

LEMMA CleanupAnsweredHolds ==
  ASSUME OwnershipInv, SessionsHeld, ready # <<>>, NEW c, c = Head(ready), CleanupAnswered(c),
         UNCHANGED <<toAddon, losses, timeouts, daemonVars>>
  PROVE  SessionsHeld'
<1> DEFINE calls == <<>>
<1>1. /\ c.why \in {"late", "cleanup", "purge", "retry"} /\ AfterCleanup(c)
      /\ \/ c.by \in Bridge /\ ctl[c.by].n <= 1 /\ GoIdle(c.by)
         \/ c.by \in Bridge /\ ctl[c.by].n > 1 /\ ctl' = [ctl EXCEPT ![c.by].n = @ - 1]
         \/ c.by = None /\ ctl' = ctl
      /\ Send(calls, Tail(ready))
      /\ UNCHANGED <<granted, tabCount, frames, revoke, bridgeVars>>
  BY DEF CleanupAnswered
<1>2. /\ c \in Calls /\ c \in InFlight
      /\ (c.by \in Bridge) => AwaitedBy(c, ctl[c.by])
  BY <1>1, HeadAwaited
<1>3. c.op = "close"
  BY <1>1, <1>2, CallIs
<1>4. UNCHANGED <<toAddon, served, opened, duty, revoke>>
  BY <1>1 DEF daemonVars, bridgeVars
<1>5. /\ Turns
      /\ \A x \in Bridge : Awaits(ctl'[x]) + (IF c.by = x THEN 1 ELSE 0) = Awaits(ctl[x])
      /\ \A x \in Bridge : (ctl'[x].pc = "recheck") => ctl'[x] = ctl[x]
      /\ \A x \in Rechecks : ctl'[x] = ctl[x]
  BY <1>1, <1>2, CleanupTurns
<1>6. /\ \A t \in DOMAIN owner' : On(t, owner'[t].dev)
      /\ \A t \in DOMAIN orphans' : On(t, orphans'[t])
      /\ \A t \in DOMAIN opened' :
           (c.tok = t \/ t \in DOMAIN owner \/ t \in DOMAIN orphans) => Held(t)'
  BY <1>1, <1>2, <1>3, <1>4, AfterCleanupHolds
<1>7. Says(owner', orphans', duty', ctl', revoke')
  <2>1. Says(owner, orphans, duty, ctl, revoke)
    BY SaysSo DEF SessionsHeld
  <2> QED BY <1>4, <1>5, <1>6, <2>1 DEF Says
<1>8. calls \in Seq(Calls) /\ Range(calls) = {} /\ \A x : Cardinality(Asks(calls, x)) = 0
  BY RangeOfEmpty, AsksOfEmpty
<1> HIDE DEF calls
<1>9. News(Range(calls)) /\ Awaited(Range(calls))
  BY <1>8 DEF News, Awaited
<1>10. \A x \in Bridge : Awaits(ctl'[x]) + (IF c.by = x /\ c.why # "revoke" THEN 1 ELSE 0)
                           = Awaits(ctl[x]) + Cardinality(Asks(calls, x))
  <2>1. \A x \in Bridge : Awaits(ctl[x]) \in Nat
    BY DEF OwnershipInv, Awaits, Shape, Records, CtlRec
  <2> QED BY <1>1, <1>5, <1>8, <2>1
<1>11. \A t \in DOMAIN opened' :
           /\ (c.op = "close" /\ c.why # "close" /\ c.tok = t) => Held(t)'
           /\ (t \in DOMAIN owner) => Held(t)'
           /\ (t \in DOMAIN orphans) => Held(t)'
           /\ (c.op = "open" /\ c.status = "ok" /\ c.tok = t) => Held(t)'
  BY <1>3, <1>6
<1>12. \A t \in DOMAIN opened', x \in Rechecks : (ctl[x].tok = t) => Held(t)'
  BY <1>5 DEF Held, Rechecks
<1> QED BY <1>1, <1>4, <1>5, <1>7, <1>8, <1>9, <1>10, <1>11, <1>12, AnswerHolds

LEMMA RevokeAnsweredHolds ==
  ASSUME OwnershipInv, SessionsHeld, ready # <<>>, NEW c, c = Head(ready), RevokeAnswered(c),
         UNCHANGED <<toAddon, losses, timeouts, daemonVars>>
  PROVE  SessionsHeld'
<1> DEFINE r == c.by
           rev == revoke[r]
           rdy == Tail(ready)
<1>1. /\ c.why = "revoke" /\ AfterCleanup(c) /\ RevokeNext(r, rev, owner', rdy)
      /\ UNCHANGED <<granted, frames, ctl, bridgeVars>>
  BY DEF RevokeAnswered
<1>2. c \in Calls /\ c \in InFlight
  BY HeadAwaited
<1>3. c.op = "close" /\ r \in Revoker
  BY <1>1, <1>2, CallIs
<1>4. UNCHANGED <<toAddon, served, opened, duty, ctl>>
  BY <1>1 DEF daemonVars, bridgeVars
<1>5. Turns
  BY <1>4, TurnsNone
<1>6. /\ \A t \in DOMAIN owner' : On(t, owner'[t].dev)
      /\ \A t \in DOMAIN orphans' : On(t, orphans'[t])
      /\ \A t \in DOMAIN opened' :
           (c.tok = t \/ t \in DOMAIN owner \/ t \in DOMAIN orphans) => Held(t)'
  BY <1>1, <1>2, <1>3, <1>4, AfterCleanupHolds
<1>7. /\ revoke \in [Revoker -> RevokeRec] /\ rev \in RevokeRec /\ rev.toks \subseteq Token
  <2>1. revoke \in [Revoker -> RevokeRec] /\ rev \in RevokeRec
    BY <1>3 DEF OwnershipInv, Shape, Records
  <2> QED BY <2>1 DEF RevokeRec
<1>8. /\ \A x \in Revoker, t \in Token : (t \in revoke[x].toks) => On(t, revoke[x].dev)
      /\ \A t \in rev.toks : On(t, rev.dev)
  <2>1. \A x \in Revoker, t \in Token : (t \in revoke[x].toks) => On(t, revoke[x].dev)
    BY DEF SessionsHeld, Devices
  <2> QED BY <1>3, <1>7, <2>1
<1> HIDE DEF r
<1>9. \E calls : /\ calls \in Seq(Calls) /\ News(Range(calls)) /\ Send(calls, rdy)
                 /\ \A e \in Range(calls) : e.why = "revoke"
                 /\ \A x \in Revoker, t \in Token : (t \in revoke'[x].toks) => On(t, revoke'[x].dev)
  <2> DEFINE own == owner'
  <2>1. RevokeNext(r, rev, own, rdy)
    BY <1>1
  <2> HIDE DEF own, rev, rdy
  <2> QED BY <1>3, <1>7, <1>8, <2>1, RevokesAre
<1>10. PICK calls : /\ calls \in Seq(Calls) /\ News(Range(calls)) /\ Send(calls, rdy)
                    /\ \A e \in Range(calls) : e.why = "revoke"
                    /\ \A x \in Revoker, t \in Token : (t \in revoke'[x].toks) => On(t, revoke'[x].dev)
  BY <1>9
<1>11. Says(owner', orphans', duty', ctl', revoke')
  <2>1. Says(owner, orphans, duty, ctl, revoke)
    BY SaysSo DEF SessionsHeld
  <2> QED BY <1>4, <1>6, <1>10, <2>1 DEF Says
<1>12. Awaited(Range(calls))
  BY <1>10 DEF Awaited
<1>13. \A x \in Bridge : Awaits(ctl'[x]) + (IF c.by = x /\ c.why # "revoke" THEN 1 ELSE 0)
                           = Awaits(ctl[x]) + Cardinality(Asks(calls, x))
  <2>1. \A i \in DOMAIN calls : calls[i].why = "revoke"
    BY <1>10 DEF Range
  <2>2. \A x \in Bridge : Cardinality(Asks(calls, x)) = 0
    BY <2>1, AsksOfNone
  <2>3. \A x \in Bridge : Awaits(ctl[x]) \in Nat
    BY DEF OwnershipInv, Awaits, Shape, Records, CtlRec
  <2> QED BY <1>1, <1>4, <2>2, <2>3
<1>14. \A t \in DOMAIN opened' :
           /\ (c.op = "close" /\ c.why # "close" /\ c.tok = t) => Held(t)'
           /\ (t \in DOMAIN owner) => Held(t)'
           /\ (t \in DOMAIN orphans) => Held(t)'
           /\ (c.op = "open" /\ c.status = "ok" /\ c.tok = t) => Held(t)'
  BY <1>3, <1>6
<1>15. \A t \in DOMAIN opened', x \in Rechecks : (ctl[x].tok = t) => Held(t)'
  BY <1>4 DEF Held, Rechecks
<1>16. Send(calls, Tail(ready))
  BY <1>10
<1> QED BY <1>4, <1>5, <1>10, <1>11, <1>12, <1>13, <1>14, <1>15, <1>16, AnswerHolds

LEMMA ResumeHolds == ASSUME OwnershipInv, SessionsHeld, Resume PROVE SessionsHeld'
<1> DEFINE c == Head(ready)
<1>1. /\ ready # <<>> /\ UNCHANGED <<toAddon, losses, timeouts, daemonVars>>
      /\ OpenAnswered(c) \/ CloseAnswered(c) \/ CleanupAnswered(c) \/ RevokeAnswered(c)
  BY DEF Resume
<1>2. c = Head(ready)
  OBVIOUS
<1> HIDE DEF c
<1> QED BY <1>1, <1>2, OpenAnsweredHolds, CloseAnsweredHolds, CleanupAnsweredHolds, RevokeAnsweredHolds

---------------------------------------------------------------------------
(* The port: what it carries moves on *)

(* The handlers stay where they are, and so does what they wait for. *)
LEMMA MovesCounted ==
  ASSUME OwnershipInv, SessionsHeld, Queues', ctl' = ctl, NEW N, Comes(InFlight, InFlight', N),
         \A b \in Bridge : Asked(b)' = Asked(b),
         \A c \in N, b \in Bridge : (c.by = b /\ c.why # "revoke") => AwaitedBy(c, ctl[b])
  PROVE  Counted'
<1>1. Turns
  BY TurnsNone
<1>2. \A b \in Bridge : Asked(b)' = Awaits(ctl'[b])
  BY DEF SessionsHeld, Counted
<1> QED BY <1>1, <1>2, CountedKept DEF SessionsHeld, Turns

(* The event of a removal is no answer that a bridge waits for. *)
LEMMA EventOfNone ==
  ASSUME OwnershipInv, SessionsHeld, NEW c \in InFlight, c \in Calls, c.op = "gone"
  PROVE  c.by \notin Bridge /\ c.why = "event"
<1>1. c.why = "event"
  BY DEF Calls
<1> QED BY <1>1 DEF SessionsHeld, Counted, AwaitedBy

(* The device of the event is forgotten: a session that is opened on it    *)
(* has its answer behind the event.                                        *)
LEMMA ClearDeviceHolds ==
  ASSUME OwnershipInv, SessionsHeld, NEW d, ClearDevice(d), 1 \in DOMAIN toAddon,
         toAddon[1].op = "gone", toAddon[1].dev = d, opened' = opened, epoch' = epoch,
         Offered \subseteq Offered'
  PROVE  /\ DOMAIN owner' \subseteq DOMAIN owner /\ \A t \in DOMAIN owner' : owner'[t] = owner[t]
         /\ DOMAIN orphans' \subseteq DOMAIN orphans /\ \A t \in DOMAIN orphans' : orphans'[t] = orphans[t]
         /\ \A t \in DOMAIN opened' :
              (opened'[t].epoch = epoch' /\ (t \in DOMAIN owner \/ t \in DOMAIN orphans)) => Held(t)'
<1> DEFINE A == {t \in DOMAIN owner : owner[t].dev = d}
           B == {t \in DOMAIN orphans : orphans[t] = d}
<1>1. owner' = Drop(owner, A) /\ orphans' = Drop(orphans, B)
  BY DEF ClearDevice
<1>2. /\ \A t \in DOMAIN owner : (t \in A) => owner[t].dev = d
      /\ \A t \in DOMAIN orphans : (t \in B) => orphans[t] = d
  OBVIOUS
<1> HIDE DEF A, B
<1>3. /\ DOMAIN Drop(owner, A) = DOMAIN owner \ A
      /\ \A x \in DOMAIN owner \ A : Drop(owner, A)[x] = owner[x]
      /\ DOMAIN Drop(orphans, B) = DOMAIN orphans \ B
      /\ \A x \in DOMAIN orphans \ B : Drop(orphans, B)[x] = orphans[x]
  BY DropAt
<1>4. /\ DOMAIN owner' = DOMAIN owner \ A /\ \A t \in DOMAIN owner' : owner'[t] = owner[t]
      /\ DOMAIN orphans' = DOMAIN orphans \ B /\ \A t \in DOMAIN orphans' : orphans'[t] = orphans[t]
  BY <1>1, <1>3
<1>5. ASSUME NEW t \in DOMAIN opened', opened'[t].epoch = epoch',
             t \in DOMAIN owner \/ t \in DOMAIN orphans
      PROVE  Held(t)'
  <2>1. CASE t \in DOMAIN owner' \/ t \in DOMAIN orphans'
    BY <2>1 DEF Held
  <2>2. CASE t \notin DOMAIN owner' /\ t \notin DOMAIN orphans'
    <3>1. (t \in DOMAIN owner /\ owner[t].dev = d) \/ (t \in DOMAIN orphans /\ orphans[t] = d)
      BY <1>2, <1>4, <1>5, <2>2
    <3>2. opened[t].dev = d /\ t \in DOMAIN opened /\ opened[t].epoch = epoch
      BY <1>5, <3>1 DEF SessionsHeld, Devices, On
    <3>3. t \in Offers(served) \/ OfferedAfter(toAddon, 1, t)
      BY <3>2 DEF SessionsHeld, Young
    <3>4. t \in Offered
      BY <3>3 DEF Offered, OfferedAfter, Offers
    <3> QED BY <3>4 DEF Held
  <2> QED BY <2>1, <2>2
<1> QED BY <1>4, <1>5

LEMMA ReceiveHolds == ASSUME OwnershipInv, SessionsHeld, Receive PROVE SessionsHeld'
<1> DEFINE c == Head(toAddon)
           one == <<c>>
           rest == Tail(toAddon)
           N == {}
<1>1. /\ ready = <<>> /\ toAddon # <<>> /\ toAddon' = rest
      /\ UNCHANGED <<ctl, revoke, port, epoch, toDaemon, duty, opened, served>>
  BY DEF Receive, Quiet, loopVars, bridgeVars, daemonVars
<1>2. toAddon \in Seq(Calls) /\ served \in Seq(Calls) /\ toDaemon \in Seq(Calls) /\ ready \in Seq(Calls)
  BY DEF OwnershipInv, Shape, Queues
<1>3. /\ rest \in Seq(Calls) /\ c \in Calls /\ Range(toAddon) = {c} \cup Range(rest)
      /\ c = toAddon[1] /\ 1 \in DOMAIN toAddon
      /\ DOMAIN toAddon = 1..Len(toAddon) /\ Len(toAddon) \in Nat
      /\ \A i \in DOMAIN rest : i + 1 \in DOMAIN toAddon /\ rest[i] = toAddon[i + 1]
      /\ \A i \in DOMAIN toAddon : i = 1 \/ i - 1 \in DOMAIN rest
  BY <1>1, <1>2, TailOf, RangeOfTail
<1>4. \A b : Cardinality(Asks(toAddon, b))
               = Cardinality(Asks(rest, b)) + (IF c.by = b /\ c.why # "revoke" THEN 1 ELSE 0)
  BY <1>1, <1>2, AsksOfTail
<1>5. \/ c.op = "gone" /\ ClearDevice(c.dev) /\ ready' = ready
      \/ c.op # "gone" /\ ready' = one /\ UNCHANGED <<owner, orphans>>
      \/ c.op # "gone" /\ ~c.live
  BY DEF Receive
<1>6. \A b : Cardinality(Asks(one, b)) = IF c.by = b /\ c.why # "revoke" THEN 1 ELSE 0
  BY AsksOfOne
<1>7. one \in Seq(Calls) /\ Range(one) = {c} /\ DOMAIN one = {1} /\ one[1] = c
  <2>1. DOMAIN one = {1} /\ one[1] = c
    OBVIOUS
  <2> HIDE DEF one
  <2> QED BY <1>3, <2>1, OneCall DEF one
<1> HIDE DEF c, one, rest
<1>8. c \in InFlight /\ InFlight = Range(toAddon) \cup Range(served) \cup Range(toDaemon) \cup Range(ready)
  BY <1>3, InFlightIs DEF OwnershipInv
<1>9. c.live /\ Range(ready) = {} /\ \A b : Cardinality(Asks(ready, b)) = 0
  BY <1>1, <1>8, RangeOfEmpty, AsksOfEmpty DEF SessionsHeld, AllLive
<1>10. \/ c.op = "gone" /\ ClearDevice(c.dev) /\ ready' = ready
       \/ c.op # "gone" /\ ready' = one /\ UNCHANGED <<owner, orphans>>
  BY <1>5, <1>9
<1>11. Queues'
  BY <1>1, <1>2, <1>3, <1>7, <1>10 DEF Queues
<1>12. InFlight' = Range(rest) \cup Range(served) \cup Range(toDaemon) \cup Range(ready')
  BY <1>1, <1>11, NextInFlightIs
<1>13. /\ \A e \in InFlight' : e \in InFlight
       /\ \A e \in InFlight : e \in InFlight' \/ e.op = "gone"
  BY <1>3, <1>7, <1>8, <1>9, <1>10, <1>12
<1>14. Comes(InFlight, InFlight', N) /\ News(N) /\ N = {}
  BY <1>13, SameAsItself DEF Comes, News
<1>15. \A b \in Bridge : Asked(b)' = Asked(b)
  <2> SUFFICES ASSUME NEW b \in Bridge PROVE Asked(b)' = Asked(b)
    OBVIOUS
  <2>1. Asked(b)' = Cardinality(Asks(rest, b)) + Cardinality(Asks(served, b))
                      + Cardinality(Asks(toDaemon, b)) + Cardinality(Asks(ready', b))
    BY <1>1 DEF Asked, Asks
  <2>2. /\ Cardinality(Asks(rest, b)) \in Nat /\ Cardinality(Asks(served, b)) \in Nat
        /\ Cardinality(Asks(toDaemon, b)) \in Nat
    BY <1>2, <1>3, AsksFinite
  <2>3. Cardinality(Asks(rest, b)) + Cardinality(Asks(ready', b)) = Cardinality(Asks(toAddon, b))
    <3>1. CASE c.op = "gone" /\ ready' = ready
      <4>1. c.by # b
        BY <1>3, <1>8, <3>1, EventOfNone
      <4> QED BY <1>4, <1>9, <2>2, <3>1, <4>1
    <3>2. CASE ready' = one
      BY <1>4, <1>6, <2>2, <3>2
    <3> QED BY <1>10, <3>1, <3>2
  <2>4. Asked(b) = Cardinality(Asks(toAddon, b)) + Cardinality(Asks(served, b))
                     + Cardinality(Asks(toDaemon, b))
    <3>1. Asked(b) = Cardinality(Asks(toAddon, b)) + Cardinality(Asks(served, b))
                       + Cardinality(Asks(toDaemon, b)) + 0
      BY <1>9 DEF Asked
    <3>2. Cardinality(Asks(toAddon, b)) \in Nat
      BY <1>2, AsksFinite
    <3> QED BY <2>2, <3>1, <3>2
  <2>5. Cardinality(Asks(ready', b)) \in Nat
    BY <1>11, AsksFinite DEF Queues
  <2> DEFINE a == Cardinality(Asks(toAddon, b))
             s == Cardinality(Asks(served, b))
             d == Cardinality(Asks(toDaemon, b))
             x == Cardinality(Asks(rest, b))
             y == Cardinality(Asks(ready', b))
  <2>6. /\ s \in Nat /\ d \in Nat /\ x \in Nat /\ y \in Nat /\ x + y = a
        /\ Asked(b)' = x + s + d + y /\ Asked(b) = a + s + d
    BY <2>1, <2>2, <2>3, <2>4, <2>5
  <2> HIDE DEF a, s, d, x, y
  <2> QED BY <2>6
<1>16. Counted'
  <2>1. \A e \in N, b \in Bridge : (e.by = b /\ e.why # "revoke") => AwaitedBy(e, ctl[b])
    BY <1>14
  <2> HIDE DEF N
  <2> QED BY <1>1, <1>11, <1>14, <1>15, <2>1, MovesCounted
<1>17. Shrinks /\ PortMoves
  BY <1>1 DEF Shrinks, PortMoves
<1>18. AllLive' /\ Openers' /\ Confirmed' /\ CallsOn(InFlight')
  <2> HIDE DEF N
  <2> QED BY <1>14, <1>17, FlightKept
<1>19. (port' = "down") => (toAddon' = <<>> /\ served' = <<>>)
  BY <1>1 DEF SessionsHeld, Opened
<1>20. Young'
  <2>1. ASSUME NEW i \in DOMAIN rest, NEW t \in DOMAIN opened, rest[i].op = "gone",
               opened[t].dev = rest[i].dev, opened[t].epoch = epoch
        PROVE  t \in Offers(served) \/ OfferedAfter(rest, i, t)
    <3>1. i + 1 \in DOMAIN toAddon /\ rest[i] = toAddon[i + 1] /\ i \in Nat
      BY <1>3
    <3>2. t \in Offers(served) \/ OfferedAfter(toAddon, i + 1, t)
      BY <2>1, <3>1 DEF SessionsHeld, Young
    <3>3. ASSUME OfferedAfter(toAddon, i + 1, t) PROVE OfferedAfter(rest, i, t)
      <4>1. PICK j \in OffersAt(toAddon) : j > i + 1 /\ toAddon[j].tok = t
        BY <3>3 DEF OfferedAfter
      <4> DEFINE k == j - 1
      <4>2. j \in DOMAIN toAddon /\ j \in Nat /\ toAddon[j].op = "open" /\ toAddon[j].status = "ok"
        BY <1>3, <4>1 DEF OffersAt
      <4>3. k \in DOMAIN rest /\ k + 1 = j /\ k > i
        BY <1>3, <3>1, <4>1, <4>2
      <4> HIDE DEF k
      <4>4. rest[k] = toAddon[j]
        BY <1>3, <4>3
      <4> QED BY <4>1, <4>2, <4>3, <4>4 DEF OfferedAfter, OffersAt
    <3> QED BY <3>2, <3>3
  <2>2. /\ \A i \in DOMAIN toAddon', t \in DOMAIN opened' :
             (toAddon'[i].op = "gone" /\ opened'[t].dev = toAddon'[i].dev /\ opened'[t].epoch = epoch')
               => t \in Offers(served) \/ OfferedAfter(rest, i, t)
    BY <1>1, <2>1
  <2>3. \A i \in DOMAIN served' : served'[i].op # "gone"
    BY <1>1 DEF SessionsHeld, Young
  <2> QED BY <1>1, <2>2, <2>3 DEF Young, Offers, OffersAt, OfferedAfter
<1>21. Offered \subseteq Offered'
  <2>1. ASSUME NEW t \in Offers(toAddon) PROVE t \in Offers(rest) \/ t \in Offers(ready')
    <3>1. PICK j \in DOMAIN toAddon : toAddon[j].op = "open" /\ toAddon[j].status = "ok" /\ toAddon[j].tok = t
      BY <2>1 DEF Offers, OffersAt
    <3>2. CASE j = 1
      <4>1. ready' = one
        BY <1>3, <1>10, <3>1, <3>2
      <4>2. t \in Offers(one)
        BY <1>3, <1>7, <3>1, <3>2 DEF Offers, OffersAt
      <4> QED BY <4>1, <4>2
    <3>3. CASE j # 1
      <4> DEFINE k == j - 1
      <4>1. k \in DOMAIN rest /\ k + 1 = j
        BY <1>3, <3>3
      <4> HIDE DEF k
      <4>2. rest[k] = toAddon[j]
        BY <1>3, <4>1
      <4>3. k \in OffersAt(rest)
        BY <3>1, <4>1, <4>2 DEF OffersAt
      <4> QED BY <3>1, <4>2, <4>3 DEF Offers
    <3> QED BY <3>2, <3>3
  <2>2. Offers(ready) = {}
    BY <1>1, RangeOfEmpty
  <2> QED BY <1>1, <2>1, <2>2 DEF Offered
<1>22. /\ \A t \in DOMAIN owner' : t \in DOMAIN owner /\ owner'[t] = owner[t]
       /\ \A t \in DOMAIN orphans' : t \in DOMAIN orphans /\ orphans'[t] = orphans[t]
       /\ \A t \in DOMAIN opened' :
            (opened'[t].epoch = epoch' /\ (t \in DOMAIN owner \/ t \in DOMAIN orphans)) => Held(t)'
  <2>1. CASE c.op = "gone" /\ ClearDevice(c.dev)
    BY <1>1, <1>3, <1>21, <2>1, ClearDeviceHolds
  <2>2. CASE UNCHANGED <<owner, orphans>>
    BY <2>2 DEF Held
  <2> QED BY <1>10, <2>1, <2>2
<1>23. Says(owner', orphans', duty', ctl', revoke')
  <2>1. Says(owner, orphans, duty, ctl, revoke)
    BY SaysSo DEF SessionsHeld
  <2> QED BY <1>1, <1>22, <2>1 DEF Says
<1>24. \A t \in DOMAIN opened' : (port' = "up" /\ opened'[t].epoch = epoch' /\ Held(t)) => Held(t)'
  <2>1. \A t : Dying(t) => Dying(t)'
    BY <1>13 DEF Dying
  <2>2. \A t : (\E b \in Rechecks : ctl[b].tok = t) => Held(t)'
    BY <1>1 DEF Held, Rechecks
  <2> QED BY <1>21, <1>22, <2>1, <2>2 DEF Held
<1> QED BY <1>16, <1>17, <1>18, <1>19, <1>20, <1>23, <1>24, SessionsKept

---------------------------------------------------------------------------
(* The daemon *)

(* A request becomes its answer. *)
LEMMA ServedMoves ==
  ASSUME OwnershipInv, SessionsHeld, served = <<>>, toDaemon # <<>>, toDaemon' = Tail(toDaemon),
         NEW c, c = Head(toDaemon), c.op # "gone", NEW e \in Calls, served' = <<e>>,
         e.op = c.op, e.why = c.why, e.by = c.by, e.live = c.live, e.dev = c.dev,
         (c.op = "close") => (e.tok = c.tok),
         UNCHANGED <<ctl, port, epoch, ready, toAddon>>
  PROVE  /\ Counted' /\ AllLive' /\ Openers' /\ c \in InFlight /\ port = "up"
         /\ \A x \in InFlight' : x \in InFlight \/ x = e
         /\ Offers(served) = {} /\ Offered \subseteq Offered'
         /\ (e.op = "open" /\ e.status = "ok") => e.tok \in Offers(served')
         /\ \A t : Dying(t) => Dying(t)'
         /\ \A i \in DOMAIN served' : served'[i].op # "gone"
<1> DEFINE one == <<e>>
           rest == Tail(toDaemon)
           N == {e}
<1>1. /\ toAddon \in Seq(Calls) /\ served \in Seq(Calls) /\ toDaemon \in Seq(Calls) /\ ready \in Seq(Calls)
      /\ Offers(toDaemon) = {}
  BY DEF OwnershipInv, Shape, Queues, Fresh
<1>2. rest \in Seq(Calls) /\ c \in Calls /\ Range(toDaemon) = {c} \cup Range(rest)
  BY <1>1, TailOf, RangeOfTail
<1>3. \A b : Cardinality(Asks(toDaemon, b))
               = Cardinality(Asks(rest, b)) + (IF c.by = b /\ c.why # "revoke" THEN 1 ELSE 0)
  BY <1>1, AsksOfTail
<1>4. \A b : Cardinality(Asks(one, b)) = IF e.by = b /\ e.why # "revoke" THEN 1 ELSE 0
  BY AsksOfOne
<1>5. one \in Seq(Calls) /\ Range(one) = {e} /\ DOMAIN one = {1} /\ one[1] = e
  <2>1. DOMAIN one = {1} /\ one[1] = e
    OBVIOUS
  <2> HIDE DEF one
  <2> QED BY <2>1, OneCall DEF one
<1>6. served' = one /\ toDaemon' = rest
  OBVIOUS
<1> HIDE DEF one, rest
<1>7. Queues'
  BY <1>1, <1>2, <1>5, <1>6 DEF Queues
<1>8. /\ Offers(served) = {} /\ Range(served) = {} /\ \A b : Cardinality(Asks(served, b)) = 0
  BY RangeOfEmpty, AsksOfEmpty
<1>9. InFlight = Range(toAddon) \cup {c} \cup Range(rest) \cup Range(ready)
  BY <1>2, <1>8, InFlightIs DEF OwnershipInv
<1>10. InFlight' = Range(toAddon) \cup {e} \cup Range(rest) \cup Range(ready)
  BY <1>5, <1>6, <1>7, NextInFlightIs
<1>11. Comes(InFlight, InFlight', N)
  BY <1>9, <1>10, SameAsItself DEF Comes
<1>12. \A b \in Bridge : Asked(b)' = Asked(b)
  <2> SUFFICES ASSUME NEW b \in Bridge PROVE Asked(b)' = Asked(b)
    OBVIOUS
  <2> DEFINE a == Cardinality(Asks(toAddon, b))
             s == Cardinality(Asks(served, b))
             d == Cardinality(Asks(toDaemon, b))
             r == Cardinality(Asks(ready, b))
             x == Cardinality(Asks(one, b))
             y == Cardinality(Asks(rest, b))
  <2>1. a \in Nat /\ r \in Nat /\ y \in Nat /\ s = 0 /\ d = y + x /\ x \in Nat
    <3>1. Cardinality(Asks(one, b)) \in Nat /\ Cardinality(Asks(rest, b)) \in Nat
      BY <1>2, <1>5, AsksFinite
    <3>2. Cardinality(Asks(toAddon, b)) \in Nat /\ Cardinality(Asks(ready, b)) \in Nat
      BY <1>1, AsksFinite
    <3> QED BY <1>3, <1>4, <1>8, <3>1, <3>2
  <2>2. Asked(b)' = a + x + y + r
    BY <1>6 DEF Asked, Asks
  <2>3. Asked(b) = a + s + d + r
    BY DEF Asked
  <2> HIDE DEF a, s, d, r, x, y
  <2>4. a + x + y + r = a + s + d + r
    BY <2>1
  <2> QED BY <2>2, <2>3, <2>4
<1>13. Counted'
  <2>1. \A x \in N, b \in Bridge : (x.by = b /\ x.why # "revoke") => AwaitedBy(x, ctl[b])
    <3> SUFFICES ASSUME NEW b \in Bridge, e.by = b, e.why # "revoke" PROVE AwaitedBy(e, ctl[b])
      OBVIOUS
    <3>1. c \in InFlight
      BY <1>9
    <3>2. AwaitedBy(c, ctl[b])
      BY <3>1 DEF SessionsHeld, Counted
    <3> QED BY <3>2 DEF AwaitedBy
  <2> HIDE DEF N
  <2> QED BY <1>7, <1>11, <1>12, <2>1, MovesCounted
<1>14. AllLive' /\ Openers'
  BY <1>9, <1>10 DEF SessionsHeld, AllLive, Openers
<1>15. port = "up"
  BY DEF OwnershipInv, Connected
<1>16. Offered \subseteq Offered'
  BY <1>8 DEF Offered, Offers, OffersAt
<1>17. (e.op = "open" /\ e.status = "ok") => e.tok \in Offers(served')
  BY <1>5, <1>6 DEF Offers, OffersAt
<1>18. \A t : Dying(t) => Dying(t)'
  BY <1>9, <1>10 DEF Dying
<1>19. \A i \in DOMAIN served' : served'[i].op # "gone"
  BY <1>5, <1>6
<1> QED BY <1>8, <1>9, <1>10, <1>13, <1>14, <1>15, <1>16, <1>17, <1>18, <1>19

(* No new session: an open failed, or a close was refused or has ended its *)
(* session.                                                                *)
LEMMA ServedHolds ==
  ASSUME OwnershipInv, SessionsHeld, served = <<>>, toDaemon # <<>>, toDaemon' = Tail(toDaemon),
         NEW c, c = Head(toDaemon), c.op # "gone", NEW e \in Calls, served' = <<e>>,
         e.op = c.op, e.why = c.why, e.by = c.by, e.live = c.live, e.dev = c.dev, e.tok = c.tok,
         (e.op = "open") => e.status = "err",
         (e.op = "close" /\ e.status = "ok") => e.tok \notin DOMAIN opened',
         Shrinks, UNCHANGED <<owner, orphans, ctl, revoke, port, epoch, ready, toAddon, duty>>
  PROVE  SessionsHeld'
<1>1. /\ Counted' /\ AllLive' /\ Openers' /\ c \in InFlight /\ port = "up"
      /\ \A x \in InFlight' : x \in InFlight \/ x = e
      /\ Offers(served) = {} /\ Offered \subseteq Offered'
      /\ \A t : Dying(t) => Dying(t)'
      /\ \A i \in DOMAIN served' : served'[i].op # "gone"
  BY ServedMoves
<1>2. Confirmed'
  BY <1>1 DEF SessionsHeld, Confirmed, Shrinks
<1>3. CallsOn(InFlight')
  <2>1. (c.op = "close") => On(c.tok, c.dev)
    BY <1>1 DEF SessionsHeld, Devices
  <2>2. (e.op = "close" \/ e.status = "ok") => On(e.tok, e.dev)
    <3>1. e.op = "open" \/ e.op = "close"
      BY CallIs
    <3> QED BY <2>1, <3>1
  <2> QED BY <1>1, <2>2 DEF SessionsHeld, Devices, CallsOn
<1>4. PortMoves /\ ((port' = "down") => (toAddon' = <<>> /\ served' = <<>>))
  BY <1>1 DEF PortMoves
<1>5. Young'
  <2>1. \A i \in DOMAIN toAddon, t \in DOMAIN opened' :
          (toAddon[i].op = "gone" /\ opened'[t].dev = toAddon[i].dev /\ opened'[t].epoch = epoch)
            => OfferedAfter(toAddon, i, t)
    BY <1>1 DEF SessionsHeld, Young, Shrinks
  <2> QED BY <1>1, <2>1 DEF Young, OffersAt, OfferedAfter
<1>6. Says(owner', orphans', duty', ctl', revoke')
  BY SaysSo DEF SessionsHeld
<1>7. \A t \in DOMAIN opened' : (port' = "up" /\ opened'[t].epoch = epoch' /\ Held(t)) => Held(t)'
  BY <1>1 DEF Held, Rechecks
<1> QED BY <1>1, <1>2, <1>3, <1>4, <1>5, <1>6, <1>7, SessionsKept

(* A session is opened: its answer is the only place that mentions it. *)
LEMMA MintedHolds ==
  ASSUME OwnershipInv, SessionsHeld, served = <<>>, toDaemon # <<>>, toDaemon' = Tail(toDaemon),
         NEW c, c = Head(toDaemon), c \in Calls, c.op = "open", NEW t \in Token, t \notin Mentioned,
         NEW e, e = [c EXCEPT !.status = "ok", !.tok = t], served' = <<e>>,
         opened' = Put(opened, t, [dev |-> c.dev, epoch |-> epoch]),
         UNCHANGED <<owner, orphans, ctl, revoke, port, epoch, ready, toAddon, duty>>
  PROVE  SessionsHeld'
<1> DEFINE new == [dev |-> c.dev, epoch |-> epoch]
<1>1. new.epoch = epoch /\ new.dev = c.dev
  OBVIOUS
<1> HIDE DEF new
<1>2. /\ DOMAIN opened' = DOMAIN opened \cup {t} /\ opened'[t] = new
      /\ \A x \in DOMAIN opened : (x # t) => opened'[x] = opened[x]
  <2>1. opened' = Put(opened, t, new)
    BY DEF new
  <2>2. /\ DOMAIN Put(opened, t, new) = DOMAIN opened \cup {t} /\ Put(opened, t, new)[t] = new
        /\ \A x \in DOMAIN opened : (x # t) => Put(opened, t, new)[x] = opened[x]
    BY DEF Put
  <2> QED BY <2>1, <2>2
<1>3. /\ e \in Calls /\ e.op = "open" /\ e.tok = t /\ e.status = "ok"
  BY MintedIsCall
<1>4. e.op = c.op /\ e.why = c.why /\ e.by = c.by /\ e.live = c.live /\ e.dev = c.dev
  BY DEF Calls
<1>5. /\ Counted' /\ AllLive' /\ Openers' /\ c \in InFlight /\ port = "up"
      /\ \A x \in InFlight' : x \in InFlight \/ x = e
      /\ Offers(served) = {} /\ Offered \subseteq Offered'
      /\ t \in Offers(served')
      /\ \A x : Dying(x) => Dying(x)'
      /\ \A i \in DOMAIN served' : served'[i].op # "gone"
  <2>1. c.op # "gone" /\ ((c.op = "close") => (e.tok = c.tok))
    OBVIOUS
  <2>2. UNCHANGED <<ctl, port, epoch, ready, toAddon>>
    OBVIOUS
  <2> QED BY <1>3, <1>4, <2>1, <2>2, ServedMoves
<1>6. /\ \A x \in InFlight : x.tok # t
      /\ t \notin DOMAIN owner /\ t \notin DOMAIN orphans /\ t \notin DOMAIN opened
      /\ \A f \in Frame, d \in Device : <<f, d, t>> \notin duty
      /\ \A r \in Revoker : t \notin revoke[r].toks
      /\ \A b \in Bridge : ctl[b].tok # t
  <2>1. /\ \A i \in DOMAIN Crossing : Crossing[i].tok # t
        /\ \A i \in DOMAIN ready : ready[i].tok # t
    BY DEF Mentioned
  <2>2. \A x \in InFlight : x.tok # t
    BY <2>1 DEF InFlight, Range
  <2>3. /\ t \notin DOMAIN owner /\ t \notin DOMAIN orphans /\ t \notin DOMAIN opened
        /\ \A b \in Bridge : ctl[b].tok # t
        /\ \A r \in Revoker : t \notin revoke[r].toks
    BY DEF Mentioned
  <2>4. \A f \in Frame, d \in Device : <<f, d, t>> \notin duty
    <3> SUFFICES ASSUME NEW f \in Frame, NEW d \in Device, <<f, d, t>> \in duty PROVE FALSE
      OBVIOUS
    <3> DEFINE k == <<f, d, t>>
    <3>1. k[3] = t /\ k \in duty
      OBVIOUS
    <3> HIDE DEF k
    <3> QED BY <3>1 DEF Mentioned
  <2> QED BY <2>2, <2>3, <2>4
<1>7. \A x, d : (x # t /\ On(x, d)) => NextOn(x, d)
  BY <1>2 DEF On, NextOn
<1>8. NextOn(t, c.dev)
  BY <1>1, <1>2 DEF NextOn
<1>9. Opened'
  <2>1. /\ epoch \in Nat /\ DOMAIN opened \subseteq Token
        /\ \A x \in DOMAIN opened : opened[x].epoch \in Nat /\ opened[x].epoch <= epoch
    BY DEF SessionsHeld, Opened
  <2>2. \A x \in DOMAIN opened' : opened'[x].epoch \in Nat /\ opened'[x].epoch <= epoch
    BY <1>1, <1>2, <2>1
  <2> QED BY <1>2, <1>5, <2>1, <2>2 DEF Opened
<1>10. Devices'
  <2>1. \A x \in DOMAIN owner' : NextOn(x, owner'[x].dev)
    BY <1>6, <1>7 DEF SessionsHeld, Devices
  <2>2. \A x \in DOMAIN orphans' : NextOn(x, orphans'[x])
    BY <1>6, <1>7 DEF SessionsHeld, Devices
  <2>3. \A x \in InFlight' : (x.op = "close" \/ x.status = "ok") => NextOn(x.tok, x.dev)
    <3>1. NextOn(e.tok, e.dev)
      BY <1>3, <1>4, <1>8
    <3> QED BY <1>5, <1>6, <1>7, <3>1 DEF SessionsHeld, Devices
  <2>4. \A f \in Frame, d \in Device, x \in Token : (<<f, d, x>> \in duty') => NextOn(x, d)
    BY <1>6, <1>7 DEF SessionsHeld, Devices
  <2>5. \A b \in Rechecks' : NextOn(ctl'[b].tok, ctl'[b].dev)
    BY <1>6, <1>7 DEF SessionsHeld, Devices, Rechecks
  <2>6. \A r \in Revoker, x \in Token : (x \in revoke'[r].toks) => NextOn(x, revoke'[r].dev)
    BY <1>6, <1>7 DEF SessionsHeld, Devices
  <2> QED BY <2>1, <2>2, <2>3, <2>4, <2>5, <2>6 DEF Devices, On, NextOn
<1>11. Confirmed'
  <2>1. \A x \in InFlight' : (x.op = "close" /\ x.status = "ok") => x.tok \notin DOMAIN opened'
    BY <1>2, <1>3, <1>5, <1>6 DEF SessionsHeld, Confirmed
  <2> QED BY <2>1 DEF Confirmed
<1>12. Young'
  <2>1. \A i \in DOMAIN toAddon, x \in DOMAIN opened' :
          (toAddon[i].op = "gone" /\ opened'[x].dev = toAddon[i].dev /\ opened'[x].epoch = epoch)
            => x \in Offers(served') \/ OfferedAfter(toAddon, i, x)
    BY <1>2, <1>5 DEF SessionsHeld, Young
  <2> QED BY <1>5, <2>1 DEF Young, Offers, OffersAt, OfferedAfter
<1>13. Answered'
  <2> SUFFICES ASSUME NEW x \in DOMAIN opened', opened'[x].epoch = epoch PROVE Held(x)'
    BY DEF Answered
  <2>1. CASE x = t
    BY <1>5, <2>1 DEF Held, Offered
  <2>2. CASE x # t
    <3>1. Held(x)
      BY <1>2, <1>5, <2>2 DEF SessionsHeld, Answered
    <3> QED BY <1>5, <3>1 DEF Held, Rechecks
  <2> QED BY <2>1, <2>2
<1> QED BY <1>5, <1>9, <1>10, <1>11, <1>12, <1>13 DEF SessionsHeld

LEMMA DaemonServeHolds == ASSUME OwnershipInv, SessionsHeld, DaemonServe PROVE SessionsHeld'
<1> DEFINE c == Head(toDaemon)
<1>1. /\ served = <<>> /\ toDaemon # <<>> /\ toDaemon' = Tail(toDaemon)
      /\ (c.op = "open" /\ ServeOpen(c)) \/ (c.op = "close" /\ ServeClose(c))
      /\ UNCHANGED <<bgVars, loopVars, port, epoch, ready, toAddon, bridgeVars>>
  BY DEF DaemonServe
<1>2. UNCHANGED <<owner, orphans, ctl, revoke, port, epoch, ready, toAddon, duty>>
  BY <1>1 DEF bgVars, loopVars, bridgeVars
<1>3. c \in Calls /\ c = Head(toDaemon)
  <2>1. toDaemon \in Seq(Calls)
    BY DEF OwnershipInv, Shape, Queues
  <2> QED BY <1>1, <2>1, TailOf
<1> HIDE DEF c
<1>4. CASE /\ c.op = "open"
           /\ \E t \in Token \ Mentioned :
                /\ opened' = Put(opened, t, [dev |-> c.dev, epoch |-> epoch])
                /\ served' = <<[c EXCEPT !.status = "ok", !.tok = t]>>
  <2>1. PICK t \in Token \ Mentioned :
             /\ opened' = Put(opened, t, [dev |-> c.dev, epoch |-> epoch])
             /\ served' = <<[c EXCEPT !.status = "ok", !.tok = t]>>
    BY <1>4
  <2> DEFINE e == [c EXCEPT !.status = "ok", !.tok = t]
  <2>2. e = [c EXCEPT !.status = "ok", !.tok = t] /\ served' = <<e>> /\ t \in Token /\ t \notin Mentioned
    BY <2>1
  <2> HIDE DEF e
  <2> QED BY <1>1, <1>2, <1>3, <1>4, <2>1, <2>2, MintedHolds
<1>5. ASSUME Shrinks, c.op # "gone", NEW st \in {"ok", "err"}, served' = <<[c EXCEPT !.status = st]>>,
             (c.op = "open") => st = "err",
             (c.op = "close" /\ st = "ok") => c.tok \notin DOMAIN opened'
      PROVE  SessionsHeld'
  <2> DEFINE e == [c EXCEPT !.status = st]
  <2>1. /\ e \in Calls /\ e.op = c.op /\ e.tok = c.tok /\ e.why = c.why /\ e.by = c.by
        /\ e.owned = c.owned /\ e.live = c.live /\ e.status = st /\ e.dev = c.dev
    BY <1>3, <1>5 DEF Calls
  <2>2. served' = <<e>>
    BY <1>5
  <2> HIDE DEF e
  <2>3. (e.op = "open") => e.status = "err"
    BY <1>5, <2>1
  <2>4. (e.op = "close" /\ e.status = "ok") => e.tok \notin DOMAIN opened'
    BY <1>5, <2>1
  <2> QED BY <1>1, <1>2, <1>3, <1>5, <2>1, <2>2, <2>3, <2>4, ServedHolds
<1>6. CASE c.op = "open" /\ opened' = opened /\ served' = <<[c EXCEPT !.status = "err"]>>
  <2> DEFINE st == "err"
  <2>1. st \in {"ok", "err"} /\ served' = <<[c EXCEPT !.status = st]>> /\ st = "err"
    BY <1>6
  <2> HIDE DEF st
  <2>2. Shrinks
    BY <1>6 DEF Shrinks
  <2> QED BY <1>5, <1>6, <2>1, <2>2
<1>7. CASE c.op = "close" /\ opened' = opened /\ served' = <<[c EXCEPT !.status = "err"]>>
  <2> DEFINE st == "err"
  <2>1. st \in {"ok", "err"} /\ served' = <<[c EXCEPT !.status = st]>> /\ st # "ok"
    BY <1>7
  <2> HIDE DEF st
  <2>2. Shrinks
    BY <1>7 DEF Shrinks
  <2> QED BY <1>5, <1>7, <2>1, <2>2
<1>8. CASE c.op = "close" /\ opened' = Drop(opened, {c.tok}) /\ served' = <<[c EXCEPT !.status = "ok"]>>
  <2> DEFINE st == "ok"
             S == {c.tok}
  <2>1. st \in {"ok", "err"} /\ served' = <<[c EXCEPT !.status = st]>> /\ opened' = Drop(opened, S)
        /\ c.tok \in S
    BY <1>8
  <2> HIDE DEF st, S
  <2>2. Shrinks
    BY <2>1, DropShrinks
  <2>3. c.tok \notin DOMAIN opened'
    <3>1. DOMAIN Drop(opened, S) = DOMAIN opened \ S
      BY DropAt
    <3> QED BY <2>1, <3>1
  <2> QED BY <1>5, <1>8, <2>1, <2>2, <2>3
<1> QED BY <1>1, <1>4, <1>6, <1>7, <1>8 DEF ServeOpen, ServeClose

LEMMA DaemonAnswerHolds == ASSUME OwnershipInv, SessionsHeld, DaemonAnswer PROVE SessionsHeld'
<1> DEFINE all == toAddon \o served
           N == {}
<1>1. /\ toAddon' = all /\ served' = <<>>
      /\ UNCHANGED <<owner, orphans, ctl, revoke, port, epoch, ready, toDaemon, duty, opened>>
  BY DEF DaemonAnswer, bgVars, loopVars, portVars, bridgeVars
<1>2. /\ toAddon \in Seq(Calls) /\ served \in Seq(Calls) /\ toDaemon \in Seq(Calls) /\ ready \in Seq(Calls)
  BY DEF OwnershipInv, Shape, Queues
<1>3. /\ all \in Seq(Calls) /\ Range(all) = Range(toAddon) \cup Range(served)
      /\ Offers(all) = Offers(toAddon) \cup Offers(served)
      /\ \A b : Cardinality(Asks(all, b)) = Cardinality(Asks(toAddon, b)) + Cardinality(Asks(served, b))
  BY <1>2, RangeOfConcat, OffersOfConcat, AsksOfConcat
<1>4. /\ DOMAIN all = 1..Len(toAddon) + Len(served)
      /\ DOMAIN toAddon = 1..Len(toAddon) /\ DOMAIN served = 1..Len(served)
      /\ Len(toAddon) \in Nat /\ Len(served) \in Nat
      /\ \A i \in 1..Len(toAddon) : all[i] = toAddon[i]
      /\ \A i \in 1..Len(served) : all[Len(toAddon) + i] = served[i]
  BY <1>2
<1> HIDE DEF all
<1>5. /\ Offers(served') = {} /\ Range(served') = {} /\ served' \in Seq(Calls)
      /\ \A b : Cardinality(Asks(served', b)) = 0
  BY <1>1, RangeOfEmpty, AsksOfEmpty
<1>6. Queues'
  BY <1>1, <1>2, <1>3, <1>5 DEF Queues
<1>7. InFlight' = InFlight
  <2>1. InFlight = Range(toAddon) \cup Range(served) \cup Range(toDaemon) \cup Range(ready)
    BY InFlightIs DEF OwnershipInv
  <2>2. InFlight' = Range(toAddon') \cup Range(served') \cup Range(toDaemon') \cup Range(ready')
    BY <1>6, NextInFlightIs
  <2> QED BY <1>1, <1>3, <1>5, <2>1, <2>2
<1>8. Comes(InFlight, InFlight', N) /\ News(N) /\ N = {}
  BY <1>7, SameAsItself DEF Comes, News
<1>9. \A b \in Bridge : Asked(b)' = Asked(b)
  <2> SUFFICES ASSUME NEW b \in Bridge PROVE Asked(b)' = Asked(b)
    OBVIOUS
  <2> DEFINE a == Cardinality(Asks(toAddon, b))
             s == Cardinality(Asks(served, b))
             d == Cardinality(Asks(toDaemon, b))
             r == Cardinality(Asks(ready, b))
             x == Cardinality(Asks(all, b))
             y == Cardinality(Asks(served', b))
  <2>1. a \in Nat /\ s \in Nat /\ d \in Nat /\ r \in Nat
    BY <1>2, AsksFinite
  <2>2. x = a + s /\ y = 0
    BY <1>3, <1>5
  <2>3. Asked(b)' = x + y + d + r
    BY <1>1 DEF Asked, Asks
  <2>4. Asked(b) = a + s + d + r
    BY DEF Asked
  <2> HIDE DEF a, s, d, r, x, y
  <2>5. x + y + d + r = a + s + d + r
    BY <2>1, <2>2
  <2> QED BY <2>3, <2>4, <2>5
<1>10. \A e \in N, b \in Bridge : (e.by = b /\ e.why # "revoke") => AwaitedBy(e, ctl[b])
  BY <1>8
<1>11. Shrinks /\ PortMoves
  BY <1>1 DEF Shrinks, PortMoves
<1> HIDE DEF N
<1>12. Counted'
  BY <1>1, <1>6, <1>8, <1>9, <1>10, MovesCounted
<1>13. AllLive' /\ Openers' /\ Confirmed' /\ CallsOn(InFlight')
  BY <1>8, <1>11, FlightKept
<1>14. (port' = "down") => (toAddon' = <<>> /\ served' = <<>>)
  <2> SUFFICES ASSUME port = "down" PROVE toAddon' = <<>> /\ served' = <<>>
    BY <1>1
  <2>1. toAddon = <<>> /\ served = <<>>
    BY DEF SessionsHeld, Opened
  <2> QED BY <1>1, <2>1 DEF all
<1>15. Young'
  <2>1. ASSUME NEW i \in DOMAIN all, NEW t \in DOMAIN opened, all[i].op = "gone",
               opened[t].dev = all[i].dev, opened[t].epoch = epoch
        PROVE  OfferedAfter(all, i, t)
    <3>1. i \in 1..Len(toAddon) /\ all[i] = toAddon[i]
      <4>1. CASE i <= Len(toAddon)
        BY <1>4, <4>1
      <4>2. CASE ~(i <= Len(toAddon))
        <5> DEFINE k == i - Len(toAddon)
        <5>1. k \in 1..Len(served) /\ i = Len(toAddon) + k
          BY <1>4, <4>2
        <5> HIDE DEF k
        <5>2. all[i] = served[k]
          BY <1>4, <5>1
        <5>3. served[k].op # "gone"
          BY <1>4, <5>1 DEF SessionsHeld, Young
        <5> QED BY <2>1, <5>2, <5>3
      <4> QED BY <4>1, <4>2
    <3>2. t \in Offers(served) \/ OfferedAfter(toAddon, i, t)
      BY <1>4, <2>1, <3>1 DEF SessionsHeld, Young
    <3>3. ASSUME t \in Offers(served) PROVE OfferedAfter(all, i, t)
      <4>1. PICK j \in DOMAIN served : served[j].op = "open" /\ served[j].status = "ok" /\ served[j].tok = t
        BY <3>3 DEF Offers, OffersAt
      <4> DEFINE k == Len(toAddon) + j
      <4>2. k \in DOMAIN all /\ k > i
        BY <1>4, <3>1, <4>1
      <4>3. all[k] = served[j]
        BY <1>4, <4>1
      <4> HIDE DEF k
      <4> QED BY <4>1, <4>2, <4>3 DEF OfferedAfter, OffersAt
    <3>4. ASSUME OfferedAfter(toAddon, i, t) PROVE OfferedAfter(all, i, t)
      <4>1. PICK j \in OffersAt(toAddon) : j > i /\ toAddon[j].tok = t
        BY <3>4 DEF OfferedAfter
      <4>2. j \in DOMAIN all /\ all[j] = toAddon[j]
        BY <1>4, <4>1 DEF OffersAt
      <4> QED BY <4>1, <4>2 DEF OfferedAfter, OffersAt
    <3> QED BY <3>2, <3>3, <3>4
  <2>2. \A i \in DOMAIN toAddon', t \in DOMAIN opened' :
          (toAddon'[i].op = "gone" /\ opened'[t].dev = toAddon'[i].dev /\ opened'[t].epoch = epoch')
            => OfferedAfter(all, i, t)
    BY <1>1, <2>1
  <2>3. \A i \in DOMAIN served' : served'[i].op # "gone"
    BY <1>1
  <2> QED BY <1>1, <2>2, <2>3 DEF Young, OffersAt, OfferedAfter
<1>16. Says(owner', orphans', duty', ctl', revoke')
  BY <1>1, SaysSo DEF SessionsHeld
<1>17. \A t \in DOMAIN opened' : (port' = "up" /\ opened'[t].epoch = epoch' /\ Held(t)) => Held(t)'
  <2>1. Offered' = Offered
    BY <1>1, <1>3, <1>5 DEF Offered
  <2>2. \A t : Dying(t) => Dying(t)'
    BY <1>7 DEF Dying
  <2> QED BY <1>1, <2>1, <2>2 DEF Held, Rechecks
<1> QED BY <1>11, <1>12, <1>13, <1>14, <1>15, <1>16, <1>17, SessionsKept

(* The event is queued: no session is open on its device. *)
LEMMA EventSentHolds ==
  ASSUME OwnershipInv, SessionsHeld, NEW d \in Device, EventSent(d)
  PROVE  SessionsHeld'
<1> DEFINE e == Call("gone", d, None, "event", None, FALSE)
           S == SessionsOn(d)
           one == <<e>>
           all == toAddon \o one
           N == {e}
<1>1. /\ opened' = Drop(opened, S)
      /\ \/ port = "up" /\ toAddon' = Append(toAddon, e)
         \/ toAddon' = toAddon
      /\ UNCHANGED <<owner, orphans, ctl, revoke, port, epoch, ready, toDaemon, duty, served>>
  BY DEF EventSent, bgVars, loopVars, portVars, bridgeVars
<1>2. /\ toAddon \in Seq(Calls) /\ served \in Seq(Calls) /\ toDaemon \in Seq(Calls) /\ ready \in Seq(Calls)
  BY DEF OwnershipInv, Shape, Queues
<1>3. /\ e \in Calls /\ e.op = "gone" /\ e.status = "none" /\ e.live /\ e.dev = d /\ e.by \notin Bridge
      /\ e.why = "event"
  BY GoneIsCall, ShapeAssumption DEF Call
<1> HIDE DEF e
<1>4. /\ Append(toAddon, e) = all /\ DOMAIN all = 1..Len(toAddon) + 1 /\ DOMAIN toAddon = 1..Len(toAddon)
      /\ Len(toAddon) \in Nat /\ all[Len(toAddon) + 1] = e
      /\ \A i \in 1..Len(toAddon) : all[i] = toAddon[i]
  BY <1>2, <1>3
<1>5. one \in Seq(Calls) /\ Range(one) = {e}
  BY <1>3, OneCall
<1>6. \A b \in Bridge : Cardinality(Asks(one, b)) = 0
  BY <1>3, AsksOfOne
<1> HIDE DEF one
<1>7. /\ all \in Seq(Calls) /\ Range(all) = Range(toAddon) \cup {e}
      /\ Offers(toAddon) \subseteq Offers(all)
      /\ \A b : Cardinality(Asks(all, b)) = Cardinality(Asks(toAddon, b)) + Cardinality(Asks(one, b))
  BY <1>2, <1>5, RangeOfConcat, OffersOfConcat, AsksOfConcat
<1> HIDE DEF all
<1>8. /\ Shrinks /\ PortMoves
      /\ \A t \in DOMAIN opened' : opened'[t].dev # d
  <2>1. DOMAIN Drop(opened, S) = DOMAIN opened \ S
    <3> HIDE DEF S
    <3> QED BY DropAt
  <2>2. Shrinks
    <3> HIDE DEF S
    <3> QED BY <1>1, DropShrinks
  <2>3. \A t \in DOMAIN opened' : opened'[t].dev # d
    BY <1>1, <2>1, <2>2 DEF SessionsOn, Shrinks
  <2> QED BY <1>1, <2>2, <2>3 DEF PortMoves
<1> HIDE DEF S
<1>9. (port' = "down") => (toAddon' = <<>> /\ served' = <<>>)
  BY <1>1 DEF SessionsHeld, Opened
<1>10. (toAddon' = all \/ toAddon' = toAddon) /\ toAddon' \in Seq(Calls)
  BY <1>1, <1>2, <1>4, <1>7
<1>11. Queues'
  BY <1>1, <1>2, <1>10 DEF Queues
<1>12. InFlight \subseteq InFlight' /\ InFlight' \subseteq InFlight \cup {e}
  <2>1. InFlight = Range(toAddon) \cup Range(served) \cup Range(toDaemon) \cup Range(ready)
    BY InFlightIs DEF OwnershipInv
  <2>2. InFlight' = Range(toAddon') \cup Range(served') \cup Range(toDaemon') \cup Range(ready')
    BY <1>11, NextInFlightIs
  <2> QED BY <1>1, <1>7, <1>10, <2>1, <2>2
<1>13. Comes(InFlight, InFlight', N) /\ News(N)
  BY <1>3, <1>12, SameAsItself DEF Comes, News
<1>14. \A b \in Bridge : Asked(b)' = Asked(b)
  <2> SUFFICES ASSUME NEW b \in Bridge PROVE Asked(b)' = Asked(b)
    OBVIOUS
  <2>1. Cardinality(Asks(toAddon', b)) = Cardinality(Asks(toAddon, b))
    <3>1. Cardinality(Asks(toAddon, b)) \in Nat
      BY <1>2, AsksFinite
    <3> QED BY <1>6, <1>7, <1>10, <3>1
  <2>2. Asked(b)' = Cardinality(Asks(toAddon', b)) + Cardinality(Asks(served, b))
                      + Cardinality(Asks(toDaemon, b)) + Cardinality(Asks(ready, b))
    BY <1>1 DEF Asked, Asks
  <2> QED BY <2>1, <2>2 DEF Asked
<1>15. \A x \in N, b \in Bridge : (x.by = b /\ x.why # "revoke") => AwaitedBy(x, ctl[b])
  BY <1>3
<1> HIDE DEF N
<1>16. Counted'
  BY <1>1, <1>11, <1>13, <1>14, <1>15, MovesCounted
<1>17. AllLive' /\ Openers' /\ Confirmed' /\ CallsOn(InFlight')
  BY <1>8, <1>13, FlightKept
<1>18. Young'
  <2>1. ASSUME NEW i \in DOMAIN toAddon, NEW t \in DOMAIN opened', toAddon[i].op = "gone",
               opened'[t].dev = toAddon[i].dev, opened'[t].epoch = epoch
        PROVE  t \in Offers(served) \/ OfferedAfter(toAddon, i, t)
    BY <1>8, <2>1 DEF SessionsHeld, Young, Shrinks
  <2>2. \A i \in DOMAIN served' : served'[i].op # "gone"
    BY <1>1 DEF SessionsHeld, Young
  <2>3. CASE toAddon' = toAddon
    <3>1. \A i \in DOMAIN toAddon', t \in DOMAIN opened' :
            (toAddon'[i].op = "gone" /\ opened'[t].dev = toAddon'[i].dev /\ opened'[t].epoch = epoch')
              => t \in Offers(served) \/ OfferedAfter(toAddon, i, t)
      BY <1>1, <2>1, <2>3
    <3> QED BY <1>1, <2>2, <2>3, <3>1 DEF Young, Offers, OffersAt, OfferedAfter
  <2>4. CASE toAddon' = all
    <3>1. ASSUME NEW i \in DOMAIN all, NEW t \in DOMAIN opened', all[i].op = "gone",
                 opened'[t].dev = all[i].dev, opened'[t].epoch = epoch
          PROVE  t \in Offers(served) \/ OfferedAfter(all, i, t)
      <4>1. i # Len(toAddon) + 1
        BY <1>3, <1>4, <1>8, <3>1
      <4>2. i \in DOMAIN toAddon /\ all[i] = toAddon[i]
        BY <1>4, <4>1
      <4>3. t \in Offers(served) \/ OfferedAfter(toAddon, i, t)
        BY <2>1, <3>1, <4>2
      <4>4. ASSUME OfferedAfter(toAddon, i, t) PROVE OfferedAfter(all, i, t)
        <5>1. PICK j \in OffersAt(toAddon) : j > i /\ toAddon[j].tok = t
          BY <4>4 DEF OfferedAfter
        <5>2. j \in DOMAIN all /\ all[j] = toAddon[j]
          BY <1>4, <5>1 DEF OffersAt
        <5> QED BY <5>1, <5>2 DEF OfferedAfter, OffersAt
      <4> QED BY <4>3, <4>4
    <3>2. \A i \in DOMAIN toAddon', t \in DOMAIN opened' :
            (toAddon'[i].op = "gone" /\ opened'[t].dev = toAddon'[i].dev /\ opened'[t].epoch = epoch')
              => t \in Offers(served) \/ OfferedAfter(all, i, t)
      BY <1>1, <2>4, <3>1
    <3> QED BY <1>1, <2>2, <2>4, <3>2 DEF Young, Offers, OffersAt, OfferedAfter
  <2> QED BY <1>10, <2>3, <2>4
<1>19. Says(owner', orphans', duty', ctl', revoke')
  BY <1>1, SaysSo DEF SessionsHeld
<1>20. \A t \in DOMAIN opened' : (port' = "up" /\ opened'[t].epoch = epoch' /\ Held(t)) => Held(t)'
  <2>1. Offers(toAddon) \subseteq Offers(toAddon')
    BY <1>7, <1>10
  <2>2. Offered \subseteq Offered'
    BY <1>1, <2>1 DEF Offered
  <2>3. \A t : Dying(t) => Dying(t)'
    BY <1>12 DEF Dying
  <2> QED BY <1>1, <2>2, <2>3 DEF Held, Rechecks
<1> QED BY <1>8, <1>9, <1>16, <1>17, <1>18, <1>19, <1>20, SessionsKept

(* The port is lost: each request that waits in it is answered with an     *)
(* error, once.                                                            *)
LEMMA PortLostHolds == ASSUME OwnershipInv, SessionsHeld, PortLost PROVE SessionsHeld'
<1> DEFINE S == {i \in DOMAIN Crossing : Crossing[i].live /\ Crossing[i].op # "gone"}
           E(i) == [Crossing[i] EXCEPT !.status = "err"]
           N == {}
           two == toAddon \o served
<1>1. PICK at \in SetToSeqs(S) : /\ \A i, j \in DOMAIN at : i < j => at[i] < at[j]
                                 /\ ready' = [i \in DOMAIN at |-> E(at[i])]
  BY DEF PortLost
<1>2. /\ toDaemon' = <<>> /\ served' = <<>> /\ toAddon' = <<>> /\ ClearAuthority /\ ready = <<>>
      /\ \/ port' = "down" /\ epoch' = epoch
         \/ port' = "up" /\ epoch' = epoch + 1
      /\ UNCHANGED <<ctl, revoke, duty, opened>>
  BY DEF PortLost, Quiet, loopVars, bridgeVars
<1>3. /\ toAddon \in Seq(Calls) /\ served \in Seq(Calls) /\ toDaemon \in Seq(Calls) /\ ready \in Seq(Calls)
  BY DEF OwnershipInv, Shape, Queues
<1>4. /\ DOMAIN Crossing = 1..Len(Crossing) /\ Len(Crossing) \in Nat
      /\ \A i \in DOMAIN Crossing : Crossing[i] \in InFlight /\ Crossing[i] \in Calls
  BY CrossingAt DEF OwnershipInv
<1>5. IsFiniteSet(S)
  <2>1. IsFiniteSet(1..Len(Crossing))
    BY <1>4, FS_Interval
  <2>2. S \subseteq 1..Len(Crossing)
    BY <1>4
  <2> QED BY <2>1, <2>2, FS_Subset
<1>6. at \in Seq(S) /\ Range(at) = S
  BY <1>1, <1>5, SeqOfSet
<1>7. \A i \in S : /\ E(i) \in Calls /\ E(i).status = "err" /\ E(i).op = Crossing[i].op
                   /\ E(i).tok = Crossing[i].tok /\ E(i).why = Crossing[i].why
                   /\ E(i).by = Crossing[i].by /\ E(i).live = Crossing[i].live
                   /\ E(i).dev = Crossing[i].dev
  BY <1>4, StatusIsCall
<1>8. \A i \in S : i \in DOMAIN Crossing /\ Same(Crossing[i], E(i))
  BY <1>7 DEF Same
<1>9. \A i \in DOMAIN Crossing : i \in S \/ Crossing[i].op = "gone"
  BY <1>4 DEF SessionsHeld, AllLive
<1> HIDE DEF S, E
<1>10. DOMAIN at = 1..Len(at) /\ Len(at) \in Nat /\ \A i \in DOMAIN at : at[i] \in S
  BY <1>6
<1>11. ready' \in Seq(Calls)
  <2>1. ready' \in [1..Len(at) -> Calls]
    BY <1>1, <1>7, <1>10
  <2> QED BY <1>10, <2>1
<1>12. /\ Range(toDaemon') = {} /\ Range(served') = {} /\ Range(toAddon') = {}
       /\ toDaemon' \in Seq(Calls) /\ served' \in Seq(Calls) /\ toAddon' \in Seq(Calls)
       /\ \A b : /\ Cardinality(Asks(toDaemon', b)) = 0 /\ Cardinality(Asks(served', b)) = 0
                 /\ Cardinality(Asks(toAddon', b)) = 0 /\ Cardinality(Asks(ready, b)) = 0
  BY <1>2, RangeOfEmpty, AsksOfEmpty
<1>13. Queues'
  BY <1>11, <1>12 DEF Queues
<1>14. InFlight' = Range(ready')
  BY <1>12, <1>13, NextInFlightIs
<1>15. Comes(InFlight, InFlight', N) /\ News(N) /\ N = {}
  <2>1. ASSUME NEW e \in InFlight' PROVE \E c \in InFlight : Same(c, e)
    <3>1. PICK j \in DOMAIN at : e = E(at[j])
      BY <1>1, <1>14, <2>1 DEF Range
    <3>2. at[j] \in S /\ Crossing[at[j]] \in InFlight
      BY <1>4, <1>8, <1>10
    <3> QED BY <1>8, <3>1, <3>2
  <2> QED BY <2>1 DEF Comes, News
<1>16. ASSUME NEW b \in Bridge PROVE Cardinality(Asks(ready', b)) = Cardinality(Asks(Crossing, b))
  <2> DEFINE P == Asks(ready', b)
             Q == Asks(Crossing, b)
             f == [j \in P |-> at[j]]
  <2>1. \A j \in P : j \in DOMAIN at /\ at[j] \in Q
    <3> SUFFICES ASSUME NEW j \in P PROVE j \in DOMAIN at /\ at[j] \in Q
      OBVIOUS
    <3>1. j \in DOMAIN at /\ ready'[j] = E(at[j]) /\ ready'[j].by = b /\ ready'[j].why # "revoke"
      BY <1>1 DEF Asks
    <3>2. at[j] \in S
      BY <1>10, <3>1
    <3> QED BY <1>7, <1>8, <3>1, <3>2 DEF Asks
  <2>2. \A i \in Q : \E j \in P : at[j] = i
    <3> SUFFICES ASSUME NEW i \in Q PROVE \E j \in P : at[j] = i
      OBVIOUS
    <3>1. i \in DOMAIN Crossing /\ Crossing[i].by = b /\ Crossing[i].why # "revoke"
      BY DEF Asks
    <3>2. Crossing[i].op # "gone"
      BY <1>4, <3>1, EventOfNone
    <3>3. i \in S
      BY <1>9, <3>1, <3>2
    <3>4. PICK j \in DOMAIN at : at[j] = i
      BY <1>6, <3>3 DEF Range
    <3>5. ready'[j] = E(i) /\ j \in DOMAIN ready'
      BY <1>1, <3>4
    <3>6. ready'[j].by = b /\ ready'[j].why # "revoke"
      BY <1>7, <3>1, <3>3, <3>5
    <3>7. j \in P
      BY <3>5, <3>6 DEF Asks
    <3> QED BY <3>4, <3>7
  <2>3. \A x, y \in P : at[x] = at[y] => x = y
    <3> SUFFICES ASSUME NEW x \in P, NEW y \in P, x # y PROVE at[x] # at[y]
      OBVIOUS
    <3>1. x \in DOMAIN at /\ y \in DOMAIN at /\ at[x] \in S /\ at[y] \in S
      BY <1>10, <2>1
    <3>2. x \in Nat /\ y \in Nat /\ at[x] \in Nat /\ at[y] \in Nat
      BY <1>4, <1>8, <1>10, <3>1
    <3>3. at[x] < at[y] \/ at[y] < at[x]
      BY <1>1, <3>1, <3>2
    <3> QED BY <3>2, <3>3
  <2>4. IsFiniteSet(P)
    BY <1>11, AsksFinite
  <2> HIDE DEF P, Q
  <2>5. f \in [P -> Q] /\ \A j \in P : f[j] = at[j]
    BY <2>1
  <2> HIDE DEF f
  <2>6. (\A x, y \in P : f[x] = f[y] => x = y) /\ (\A y \in Q : \E x \in P : f[x] = y)
    BY <2>2, <2>3, <2>5
  <2>7. Cardinality(Q) = Cardinality(P)
    BY <2>4, <2>5, <2>6, SameSize
  <2> QED BY <2>7 DEF P, Q
<1>17. \A b \in Bridge : Asked(b)' = Asked(b)
  <2> SUFFICES ASSUME NEW b \in Bridge PROVE Asked(b)' = Asked(b)
    OBVIOUS
  <2>1. two \in Seq(Calls) /\ Crossing = two \o toDaemon
    BY <1>3 DEF Crossing
  <2>2. Cardinality(Asks(two, b)) = Cardinality(Asks(toAddon, b)) + Cardinality(Asks(served, b))
    BY <1>3, AsksOfConcat
  <2> HIDE DEF two
  <2>3. Cardinality(Asks(two \o toDaemon, b)) = Cardinality(Asks(two, b)) + Cardinality(Asks(toDaemon, b))
    BY <1>3, <2>1, AsksOfConcat
  <2> DEFINE a == Cardinality(Asks(toAddon, b))
             s == Cardinality(Asks(served, b))
             d == Cardinality(Asks(toDaemon, b))
             r == Cardinality(Asks(ready', b))
  <2>4. a \in Nat /\ s \in Nat /\ d \in Nat /\ r \in Nat
    BY <1>3, <1>11, AsksFinite
  <2>5. r = a + s + d
    BY <1>16, <2>1, <2>2, <2>3
  <2>6. Asked(b)' = Cardinality(Asks(toAddon', b)) + Cardinality(Asks(served', b))
                      + Cardinality(Asks(toDaemon', b)) + r
    BY DEF Asked, Asks
  <2>7. Asked(b) = a + s + d + Cardinality(Asks(ready, b))
    BY DEF Asked
  <2>8. Asked(b)' = 0 + 0 + 0 + r /\ Asked(b) = a + s + d + 0
    BY <1>12, <2>6, <2>7
  <2> HIDE DEF a, s, d, r
  <2> QED BY <2>4, <2>5, <2>8
<1>18. Shrinks /\ PortMoves
  BY <1>2 DEF Shrinks, PortMoves
<1>19. \A e \in N, b \in Bridge : (e.by = b /\ e.why # "revoke") => AwaitedBy(e, ctl[b])
  BY <1>15
<1> HIDE DEF N
<1>20. Counted'
  BY <1>2, <1>13, <1>15, <1>17, <1>19, MovesCounted
<1>21. AllLive' /\ Openers' /\ Confirmed' /\ CallsOn(InFlight')
  BY <1>15, <1>18, FlightKept
<1>22. Young'
  <2>1. DOMAIN toAddon' = {} /\ DOMAIN served' = {}
    BY <1>2
  <2> QED BY <2>1 DEF Young
<1>23. Says(owner', orphans', duty', ctl', revoke')
  <2>1. DOMAIN owner' = {} /\ DOMAIN orphans' = {}
    <3>1. /\ DOMAIN Drop(owner, Token) = DOMAIN owner \ Token
          /\ DOMAIN Drop(orphans, Token) = DOMAIN orphans \ Token
      BY DropAt
    <3> QED BY <1>2, <3>1 DEF ClearAuthority, OwnershipInv, Shape, Records
  <2>2. Says(owner, orphans, duty, ctl, revoke)
    BY SaysSo DEF SessionsHeld
  <2> QED BY <1>2, <2>1, <2>2 DEF Says
<1>24. \A t \in DOMAIN opened' : (port' = "up" /\ opened'[t].epoch = epoch' /\ Held(t)) => Held(t)'
  <2>1. ASSUME NEW t \in DOMAIN opened', port' = "up", opened'[t].epoch = epoch' PROVE FALSE
    <3>1. epoch' = epoch + 1 /\ opened[t].epoch = epoch'
      BY <1>2, <2>1
    <3>2. epoch \in Nat /\ opened[t].epoch \in Nat /\ opened[t].epoch <= epoch
      BY <1>2 DEF SessionsHeld, Opened
    <3> QED BY <3>1, <3>2
  <2> QED BY <2>1
<1> QED BY <1>2, <1>18, <1>20, <1>21, <1>22, <1>23, <1>24, SessionsKept

---------------------------------------------------------------------------
(* The invariant holds of every state *)

LEMMA InitSession == Init => SessionInv
<1> SUFFICES ASSUME Init PROVE SessionInv
  OBVIOUS
<1>1. OwnershipInv /\ timeouts \in Nat
  BY InitOwned DEF Init
<1>2. /\ toAddon = <<>> /\ served = <<>> /\ toDaemon = <<>> /\ ready = <<>>
      /\ duty = {} /\ epoch = 1
      /\ DOMAIN owner = {} /\ DOMAIN orphans = {} /\ DOMAIN opened = {}
      /\ ctl = [b \in Bridge |-> Idle] /\ revoke = [r \in Revoker |-> NoRevoke]
  BY DEF Init
<1>3. InFlight = {}
  <2>1. InFlight = Range(toAddon) \cup Range(served) \cup Range(toDaemon) \cup Range(ready)
    BY <1>1, InFlightIs DEF OwnershipInv
  <2>2. /\ Range(toAddon) = {} /\ Range(served) = {} /\ Range(toDaemon) = {} /\ Range(ready) = {}
    BY <1>2, RangeOfEmpty
  <2> QED BY <2>1, <2>2
<1>4. AllLive /\ Openers /\ Confirmed
  BY <1>3 DEF AllLive, Openers, Confirmed
<1>5. Counted
  <2>1. /\ \A b \in Bridge : Awaits(ctl[b]) = 0 /\ ctl[b].n = 0 /\ ctl[b].pc # "purging"
    BY <1>2, IdleAwaits
  <2>2. /\ \A b : /\ Cardinality(Asks(toAddon, b)) = 0 /\ Cardinality(Asks(served, b)) = 0
                  /\ Cardinality(Asks(toDaemon, b)) = 0 /\ Cardinality(Asks(ready, b)) = 0
    BY <1>2, AsksOfEmpty
  <2>3. \A b : Asked(b) = 0
    BY <2>2 DEF Asked
  <2> QED BY <1>3, <2>1, <2>3 DEF Counted
<1>6. Opened
  BY <1>2 DEF Opened
<1>7. Devices /\ Answered
  BY <1>2 DEF Devices, On, Answered
<1>8. Young
  <2>1. DOMAIN toAddon = {} /\ DOMAIN served = {}
    BY <1>2
  <2> QED BY <2>1 DEF Young
<1> QED BY <1>1, <1>4, <1>5, <1>6, <1>7, <1>8 DEF SessionInv, SessionsHeld

(* Only the deadline of a request counts as one. *)
LEMMA DeadlinesOnly ==
  ASSUME [Next]_vars, ~TimeOut
  PROVE  timeouts' = timeouts
<1>1. CASE \/ Resume \/ Receive \/ PortLost \/ Connect \/ DaemonServe \/ DaemonAnswer \/ DaemonEof
           \/ RetryOrphans
  BY <1>1 DEF Resume, Receive, PortLost, Connect, DaemonServe, DaemonAnswer, DaemonEof, RetryOrphans
<1>2. ASSUME NEW b \in Bridge, OpenForbidden(b) \/ OpenSend(b) \/ OpenRegister(b) \/ OpenCleanup(b)
                                 \/ BridgeUp(b) \/ BridgeGone(b)
      PROVE  timeouts' = timeouts
  BY <1>2 DEF OpenForbidden, OpenSend, OpenRegister, OpenCleanup, BridgeUp, BridgeGone
<1>3. ASSUME NEW f \in Frame, FrameDies(f) \/ FrameDestroyed(f)
      PROVE  timeouts' = timeouts
  BY <1>3 DEF FrameDies, FrameDestroyed
<1>4. ASSUME NEW f \in Frame, NEW d \in Device, OpenRequest(f, d) \/ CloseRequest(f, d) \/ Notice(f, d)
      PROVE  timeouts' = timeouts
  BY <1>4 DEF OpenRequest, CloseRequest, Notice
<1>5. ASSUME NEW b \in Bridge, NEW f \in Frame, NEW d \in Device, NEW t \in Token, CleanupSession(b, f, d, t)
      PROVE  timeouts' = timeouts
  BY <1>5 DEF CleanupSession
<1>6. ASSUME NEW tab \in Tab, TabRemoved(tab) PROVE timeouts' = timeouts
  BY <1>6 DEF TabRemoved
<1>7. ASSUME NEW r \in Revoker, NEW o \in Origin, NEW D \in SUBSET Device, RevokeStart(r, o, D)
      PROVE  timeouts' = timeouts
  BY <1>7 DEF RevokeStart
<1>8. ASSUME NEW r \in Revoker, RevokeDevice(r) PROVE timeouts' = timeouts
  BY <1>8 DEF RevokeDevice
<1>9. ASSUME NEW o \in Origin, NEW d \in Device, Pair(o, d) PROVE timeouts' = timeouts
  BY <1>9 DEF Pair
<1>10. ASSUME NEW d \in Device, DeviceGone(d) \/ EventSent(d) \/ DeviceBack(d)
       PROVE  timeouts' = timeouts
  BY <1>10 DEF DeviceGone, EventSent, DeviceBack
<1>11. CASE UNCHANGED vars
  BY <1>11 DEF vars
<1> QED BY <1>1, <1>2, <1>3, <1>4, <1>5, <1>6, <1>7, <1>8, <1>9, <1>10, <1>11 DEF Next

LEMMA NextHolds ==
  ASSUME OwnershipInv, SessionsHeld, [Next]_vars, ~TimeOut
  PROVE  SessionsHeld'
<1>1. CASE Resume \/ Receive \/ PortLost \/ DaemonServe \/ DaemonAnswer \/ RetryOrphans
  BY <1>1, ResumeHolds, ReceiveHolds, PortLostHolds, DaemonServeHolds, DaemonAnswerHolds,
     RetryOrphansHolds
<1>2. CASE \/ \E o \in Origin, d \in Device : Pair(o, d)
           \/ \E b \in Bridge : BridgeUp(b)
           \/ \E f \in Frame : FrameDies(f)
           \/ \E f \in Frame, d \in Device : Notice(f, d)
           \/ DaemonEof \/ Connect
           \/ \E d \in Device : DeviceGone(d) \/ DeviceBack(d)
           \/ UNCHANGED vars
  BY <1>2, WorldHolds
<1>3. ASSUME NEW b \in Bridge,
             OpenForbidden(b) \/ OpenSend(b) \/ OpenRegister(b) \/ OpenCleanup(b) \/ BridgeGone(b)
      PROVE  SessionsHeld'
  BY <1>3, OpenForbiddenHolds, OpenSendHolds, OpenRegisterHolds, OpenCleanupHolds, BridgeGoneHolds
<1>4. ASSUME NEW f \in Frame, FrameDestroyed(f)
      PROVE  SessionsHeld'
  BY <1>4, FrameDestroyedHolds
<1>5. ASSUME NEW f \in Frame, NEW d \in Device, OpenRequest(f, d) \/ CloseRequest(f, d)
      PROVE  SessionsHeld'
  BY <1>5, OpenRequestHolds, CloseRequestHolds
<1>6. ASSUME NEW b \in Bridge, NEW f \in Frame, NEW d \in Device, NEW t \in Token,
             CleanupSession(b, f, d, t)
      PROVE  SessionsHeld'
  BY <1>6, CleanupSessionHolds
<1>7. ASSUME NEW tab \in Tab, TabRemoved(tab)
      PROVE  SessionsHeld'
  BY <1>7, TabRemovedHolds
<1>8. ASSUME NEW r \in Revoker, NEW o \in Origin, NEW D \in SUBSET Device, RevokeStart(r, o, D)
      PROVE  SessionsHeld'
  BY <1>8, RevokeStartHolds
<1>9. ASSUME NEW r \in Revoker, RevokeDevice(r)
      PROVE  SessionsHeld'
  BY <1>9, RevokeDeviceHolds
<1>10. ASSUME NEW d \in Device, EventSent(d)
       PROVE  SessionsHeld'
  BY <1>10, EventSentHolds
<1> QED BY <1>1, <1>2, <1>3, <1>4, <1>5, <1>6, <1>7, <1>8, <1>9, <1>10 DEF Next

(* In every state until a request has timed out, each bridge has as many   *)
(* requests on their way as it waits for, everyone is right about the      *)
(* device of a session, a session is forgotten only when it has ended, and *)
(* each session of the connection is answered for (sendFrame, handleOpen,  *)
(* closeForCleanup, clearDeviceOwnership).                                 *)
THEOREM SessionInvCorrect == Spec => []SessionInv
<1>1. Init => SessionInv
  BY InitSession
<1>2. SessionInv /\ [Next]_vars => SessionInv'
  <2> SUFFICES ASSUME SessionInv, [Next]_vars PROVE SessionInv'
    OBVIOUS
  <2>1. OwnershipInv'
    BY NextOwned DEF SessionInv
  <2>2. timeouts \in Nat
    BY DEF SessionInv
  <2>3. CASE TimeOut
    <3>1. timeouts' = timeouts + 1
      BY <2>3 DEF TimeOut
    <3>2. timeouts' \in Nat /\ timeouts' # 0
      BY <2>2, <3>1
    <3> QED BY <2>1, <3>2 DEF SessionInv
  <2>4. CASE ~TimeOut
    <3>1. timeouts' = timeouts
      BY <2>4, DeadlinesOnly
    <3>2. (timeouts = 0) => SessionsHeld'
      BY <2>4, NextHolds DEF SessionInv
    <3> QED BY <2>1, <2>2, <3>1, <3>2 DEF SessionInv
  <2> QED BY <2>3, <2>4
<1> QED BY <1>1, <1>2, PTL DEF Spec

(* No session that the daemon holds for the connection is lost, as long as *)
(* no request has timed out: it has an owner or is an orphan, or its open  *)
(* or its close is in progress, whatever devices, frames, tabs and ports   *)
(* are lost, and whenever (deviceSessions, orphanCleanup, closeForCleanup, *)
(* clearAuthorityOwnership).                                               *)
THEOREM NoLostCorrect == Spec => [](timeouts = 0 => NoLostSession)
<1>1. SessionInv => (timeouts = 0 => NoLostSession)
  <2> SUFFICES ASSUME SessionInv, timeouts = 0, port = "up",
                      NEW t \in DOMAIN opened, opened[t].epoch = epoch
               PROVE  Tracked(t)
    BY DEF NoLostSession
  <2>1. SessionsHeld /\ OwnershipInv
    BY DEF SessionInv
  <2>2. Held(t)
    BY <2>1 DEF SessionsHeld, Answered
  <2>3. CASE t \in DOMAIN owner \/ t \in DOMAIN orphans
    BY <2>3 DEF Tracked
  <2>4. CASE t \in Offered
    <3>1. InFlight = Range(toAddon) \cup Range(served) \cup Range(toDaemon) \cup Range(ready)
      BY <2>1, InFlightIs DEF OwnershipInv
    <3>2. \E c \in InFlight : c.op = "open" /\ c.status = "ok" /\ c.tok = t
      BY <2>4, <3>1 DEF Offered, Offers, OffersAt, Range
    <3>3. OpenPending(t)
      BY <2>1, <3>2 DEF OpenPending, SessionsHeld, AllLive
    <3> QED BY <3>3 DEF Tracked
  <2>5. CASE Dying(t)
    BY <2>5, DyingIsClosing DEF Tracked
  <2>6. CASE \E b \in Rechecks : ctl[b].tok = t
    <3>1. OpenPending(t)
      BY <2>6 DEF OpenPending, Rechecks
    <3> QED BY <3>1 DEF Tracked
  <2> QED BY <2>2, <2>3, <2>4, <2>5, <2>6 DEF Held
<1> QED BY <1>1, SessionInvCorrect, PTL
=============================================================================
