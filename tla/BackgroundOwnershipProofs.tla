---------------------- MODULE BackgroundOwnershipProofs -----------------------
(***************************************************************************)
(* Theorems about BackgroundOwnership: which sessions the background       *)
(* closes, and why, for every number of tabs, bridges, frames, devices,    *)
(* tokens and revokers, and with every message of the native-messaging     *)
(* port lost, late or timed out.                                           *)
(*                                                                         *)
(* What the proofs turn on is that a session token is in one place before  *)
(* it has an owner: the answer to an open is on its way, or the handler    *)
(* that awaited it looks at the grant again, and until then nothing else   *)
(* of the background knows the token (Fresh).  So a close, a purge or a    *)
(* revocation that is under way never meets a session registered after it. *)
(***************************************************************************)
EXTENDS BackgroundOwnership, FiniteSetTheorems, TLAPS

---------------------------------------------------------------------------
(* The invariant *)

(* The requests, answers and events that cross the port: what a call asks  *)
(* for agrees with why it was sent, a close names a session, and so does   *)
(* the answer to an open that succeeded.                                   *)
Calls ==
  {c \in [op : {"open", "close", "gone"}, dev : Device \cup {None}, tok : Token \cup {None},
          why : Whys, by : Bridge \cup Revoker \cup {None}, owned : BOOLEAN, live : BOOLEAN,
          status : {"none", "ok", "err"}] :
     /\ (c.why = "open") = (c.op = "open")
     /\ (c.why \notin {"open", "event"}) = (c.op = "close")
     /\ ((c.op = "close") => c.tok \in Token)
     /\ ((c.why = "revoke") => c.by \in Revoker)
     /\ ((c.op = "open" /\ c.status = "ok") => c.tok \in Token)}

Queues == /\ toAddon \in Seq(Calls) /\ served \in Seq(Calls)
          /\ toDaemon \in Seq(Calls) /\ ready \in Seq(Calls)

Records ==
  /\ granted \subseteq Origin \X Device
  /\ DOMAIN owner \subseteq Token /\ IsFiniteSet(DOMAIN owner)
  /\ \A t \in DOMAIN owner : owner[t] \in OwnerRec
  /\ DOMAIN orphans \subseteq Token /\ IsFiniteSet(DOMAIN orphans)
  /\ \A t \in DOMAIN orphans : orphans[t] \in Device \cup {None}
  /\ DOMAIN frames \subseteq Frame
  /\ \A f \in DOMAIN frames : frames[f] \in {"active", "retired"}
  /\ ctl \in [Bridge -> CtlRec] /\ revoke \in [Revoker -> RevokeRec]
  /\ link \in [Bridge -> {"new", "up", "gone"}]
  /\ duty \subseteq Frame \X Device \X Token

Shape == Queues /\ Records

(* The answer to an open that succeeded: it offers a session. *)
OffersAt(q) == {i \in DOMAIN q : q[i].op = "open" /\ q[i].status = "ok"}
Offers(q) == {q[i].tok : i \in OffersAt(q)}
Distinct(q) == \A i, j \in OffersAt(q) : q[i].tok = q[j].tok => i = j

(* The bridges whose open was answered and is looked at a second time *)
Rechecks == {b \in Bridge : ctl[b].pc = "recheck"}

Offered == Offers(toAddon) \cup Offers(served) \cup Offers(ready)
CloseToks == {c.tok : c \in {x \in InFlight : x.op = "close"}}
RevokeToks == UNION {revoke[r].toks : r \in Revoker}
DutyToks == {k[3] : k \in duty}

(* What the background, its bridges and its requests know a session by *)
Known == DOMAIN owner \cup DOMAIN orphans \cup DutyToks \cup RevokeToks \cup CloseToks

(* Where handlers are: a bridge asks for its own frames, the answer it     *)
(* looks at names a session, a revoker has tokens only between two closes. *)
Handlers ==
  /\ \A b \in Bridge : (ctl[b].frame # None) => BridgeOf[ctl[b].frame] = b
  /\ \A b \in Rechecks : ctl[b].tok \in Token
  /\ \A r \in Revoker : (revoke[r].toks # {}) => (revoke[r].pc = "closing")

(* A session that is offered is offered once, and is not known yet. *)
Fresh ==
  /\ Offers(toDaemon) = {}
  /\ Distinct(toAddon) /\ Distinct(served) /\ Distinct(ready)
  /\ Offers(toAddon) \cap Offers(served) = {}
  /\ Offers(toAddon) \cap Offers(ready) = {}
  /\ Offers(served) \cap Offers(ready) = {}
  /\ \A b \in Rechecks : ctl[b].tok \notin Offered
  /\ \A a, b \in Rechecks : ctl[a].tok = ctl[b].tok => a = b
  /\ Offered \cap Known = {}
  /\ \A b \in Rechecks : ctl[b].tok \notin Known

(* What has an owner, or is offered one, is of the connection that is up.  *)
Current(t) == (t \in DOMAIN opened) => opened[t].epoch = epoch
Connected ==
  /\ port \in {"up", "down"}
  /\ (port = "down") => (toDaemon = <<>> /\ DOMAIN owner = {} /\ Offered = {})
  /\ \A t \in DOMAIN owner \cup Offered : Current(t)
  /\ \A b \in Rechecks : (ctl[b].frame \in DOMAIN frames /\ frames[ctl[b].frame] = "active")
                           => (port = "up" /\ Current(ctl[b].tok))

(* A frame that will never own a session again *)
Retired(f) == (f \in DOMAIN frames /\ frames[f] = "retired") \/ link[BridgeOf[f]] = "gone"

(* A close that ends the session whatever the answer is: not the page's    *)
(* own, which leaves the session with its owner when the daemon refuses.   *)
Dying(t) == \E c \in InFlight : c.op = "close" /\ c.tok = t /\ c.live /\ c.why # "close"

Ungranted(t) == <<OriginOf[owner[t].frame], owner[t].dev>> \notin granted

Ending ==
  /\ \A c \in InFlight : (c.op = "close" /\ c.tok \in DOMAIN owner) => c.owned
  /\ \A t \in DOMAIN owner : Retired(owner[t].frame) => Dying(t)
  /\ \A t \in DOMAIN owner : Ungranted(t) => (Dying(t) \/ t \in RevokeToks)
  /\ PurgeOnlyRetired
  /\ \A f \in DOMAIN frames : (link[BridgeOf[f]] = "gone") => (frames[f] = "retired")
  /\ \A t \in DOMAIN owner : owner[t].frame \in DOMAIN frames
                               \/ TabOfFrame(owner[t].frame) \in removedTabs

OwnershipInv == Shape /\ Handlers /\ Fresh /\ Connected /\ Ending

---------------------------------------------------------------------------
(* Sequences of calls *)

LEMMA RangeOfAppend ==
  ASSUME NEW S, NEW s \in Seq(S), NEW e \in S
  PROVE  Append(s, e) \in Seq(S) /\ Range(Append(s, e)) = Range(s) \cup {e}
<1>1. /\ Append(s, e) \in Seq(S) /\ DOMAIN Append(s, e) = 1..Len(s) + 1 /\ DOMAIN s = 1..Len(s)
      /\ Len(s) \in Nat
      /\ \A i \in 1..Len(s) : Append(s, e)[i] = s[i]
      /\ Append(s, e)[Len(s) + 1] = e
  OBVIOUS
<1>2. 1..Len(s) + 1 = 1..Len(s) \cup {Len(s) + 1}
  BY <1>1
<1> QED BY <1>1, <1>2 DEF Range

LEMMA RangeOfConcat ==
  ASSUME NEW S, NEW s \in Seq(S), NEW u \in Seq(S)
  PROVE  s \o u \in Seq(S) /\ Range(s \o u) = Range(s) \cup Range(u)
<1>1. /\ s \o u \in Seq(S) /\ DOMAIN (s \o u) = 1..Len(s) + Len(u)
      /\ DOMAIN s = 1..Len(s) /\ DOMAIN u = 1..Len(u) /\ Len(s) \in Nat /\ Len(u) \in Nat
      /\ \A i \in 1..Len(s) : (s \o u)[i] = s[i]
      /\ \A i \in 1..Len(u) : (s \o u)[Len(s) + i] = u[i]
  OBVIOUS
<1>2. \A i \in 1..Len(s) + Len(u) : i \in 1..Len(s) \/ i - Len(s) \in 1..Len(u)
  BY <1>1
<1>3. \A i \in 1..Len(s) : i \in 1..Len(s) + Len(u)
  BY <1>1
<1>4. \A i \in 1..Len(u) : Len(s) + i \in 1..Len(s) + Len(u)
  BY <1>1
<1>5. \A i \in 1..Len(s) + Len(u) : (s \o u)[i] \in Range(s) \cup Range(u)
  <2> SUFFICES ASSUME NEW i \in 1..Len(s) + Len(u)
               PROVE  (s \o u)[i] \in Range(s) \cup Range(u)
    OBVIOUS
  <2>1. CASE i \in 1..Len(s)
    BY <1>1, <2>1 DEF Range
  <2>2. CASE i - Len(s) \in 1..Len(u)
    <3>1. Len(s) + (i - Len(s)) = i
      BY <1>1
    <3>2. (s \o u)[i] = u[i - Len(s)]
      BY <1>1, <2>2, <3>1
    <3> QED BY <1>1, <2>2, <3>2 DEF Range
  <2> QED BY <1>2, <2>1, <2>2
<1>6. \A i \in DOMAIN s : s[i] \in Range(s \o u)
  BY <1>1, <1>3 DEF Range
<1>7. \A i \in DOMAIN u : u[i] \in Range(s \o u)
  BY <1>1, <1>4 DEF Range
<1>8. \A x \in Range(s \o u) : x \in Range(s) \cup Range(u)
  BY <1>1, <1>5 DEF Range
<1>9. \A x \in Range(s) \cup Range(u) : x \in Range(s \o u)
  BY <1>6, <1>7 DEF Range
<1> QED BY <1>1, <1>8, <1>9

LEMMA TailOf ==
  ASSUME NEW S, NEW s \in Seq(S), s # <<>>
  PROVE  /\ Tail(s) \in Seq(S) /\ Head(s) \in S /\ Head(s) = s[1]
         /\ DOMAIN s = 1..Len(s) /\ Len(s) \in Nat \ {0}
         /\ DOMAIN Tail(s) = 1..Len(s) - 1
         /\ \A i \in DOMAIN Tail(s) : i + 1 \in DOMAIN s /\ Tail(s)[i] = s[i + 1]
         /\ \A i \in DOMAIN s : i = 1 \/ i - 1 \in DOMAIN Tail(s)
<1>1. /\ DOMAIN s = 1..Len(s) /\ Len(s) \in Nat \ {0}
      /\ Tail(s) \in Seq(S) /\ Len(Tail(s)) = Len(s) - 1
      /\ Head(s) = s[1]
  OBVIOUS
<1>2. DOMAIN Tail(s) = 1..Len(s) - 1
  BY <1>1
<1>3. \A i \in 1..Len(s) - 1 : i + 1 \in 1..Len(s) /\ Tail(s)[i] = s[i + 1]
  <2>1. \A i \in 1..Len(s) - 1 : i + 1 \in 1..Len(s)
    BY <1>1
  <2>2. \A i \in 1..Len(s) - 1 : Tail(s)[i] = s[i + 1]
    OBVIOUS
  <2> QED BY <2>1, <2>2
<1>4. \A i \in 1..Len(s) : i = 1 \/ i - 1 \in 1..Len(s) - 1
  BY <1>1
<1>5. Head(s) \in S
  BY <1>1
<1> QED BY <1>1, <1>2, <1>3, <1>4, <1>5

LEMMA RangeOfTail ==
  ASSUME NEW S, NEW s \in Seq(S), s # <<>>
  PROVE  Range(s) = {Head(s)} \cup Range(Tail(s))
<1>1. \A i \in DOMAIN Tail(s) : Tail(s)[i] \in Range(s)
  BY TailOf DEF Range
<1>2. \A i \in DOMAIN s : s[i] = Head(s) \/ s[i] \in Range(Tail(s))
  <2> SUFFICES ASSUME NEW i \in DOMAIN s, i # 1 PROVE s[i] \in Range(Tail(s))
    BY TailOf
  <2>1. i - 1 \in DOMAIN Tail(s) /\ i \in Nat /\ (i - 1) + 1 = i
    BY TailOf
  <2>2. Tail(s)[i - 1] = s[i]
    BY <2>1, TailOf
  <2> QED BY <2>1, <2>2 DEF Range
<1>3. Head(s) \in Range(s)
  <2>1. 1 \in DOMAIN s /\ Head(s) = s[1]
    BY TailOf
  <2> QED BY <2>1 DEF Range
<1> QED BY <1>1, <1>2, <1>3 DEF Range

(* What the first of them and the rest offer *)
LEMMA OffersOfTail ==
  ASSUME NEW S, NEW s \in Seq(S), s # <<>>, Distinct(s)
  PROVE  /\ Offers(Tail(s)) \subseteq Offers(s) /\ Distinct(Tail(s))
         /\ (Head(s).op = "open" /\ Head(s).status = "ok")
              => Head(s).tok \in Offers(s) /\ Head(s).tok \notin Offers(Tail(s))
<1>1. \A i \in OffersAt(Tail(s)) : i + 1 \in OffersAt(s) /\ Tail(s)[i] = s[i + 1] /\ i \in 1..Len(s) - 1
  BY TailOf DEF OffersAt
<1>2. Len(s) \in Nat
  BY TailOf
<1>3. Offers(Tail(s)) \subseteq Offers(s)
  BY <1>1 DEF Offers
<1>4. Distinct(Tail(s))
  <2> SUFFICES ASSUME NEW i \in OffersAt(Tail(s)), NEW j \in OffersAt(Tail(s)),
                      Tail(s)[i].tok = Tail(s)[j].tok
               PROVE  i = j
    BY DEF Distinct
  <2>1. i + 1 = j + 1
    BY <1>1 DEF Distinct
  <2> QED BY <1>1, <1>2, <2>1
<1>5. ASSUME Head(s).op = "open", Head(s).status = "ok"
      PROVE  Head(s).tok \in Offers(s) /\ Head(s).tok \notin Offers(Tail(s))
  <2>1. 1 \in OffersAt(s) /\ s[1] = Head(s)
    BY <1>5, TailOf DEF OffersAt
  <2>2. ASSUME NEW i \in OffersAt(Tail(s)), Tail(s)[i].tok = Head(s).tok PROVE FALSE
    <3>1. i + 1 = 1
      BY <1>1, <2>1, <2>2 DEF Distinct
    <3> QED BY <1>1, <1>2, <3>1
  <2> QED BY <2>1, <2>2 DEF Offers
<1> QED BY <1>3, <1>4, <1>5

LEMMA OffersOfConcat ==
  ASSUME NEW S, NEW s \in Seq(S), NEW u \in Seq(S)
  PROVE  /\ Offers(s \o u) = Offers(s) \cup Offers(u)
         /\ (Distinct(s) /\ Distinct(u) /\ Offers(s) \cap Offers(u) = {}) => Distinct(s \o u)
<1> DEFINE v == s \o u
<1>1. /\ DOMAIN v = 1..Len(s) + Len(u)
      /\ DOMAIN s = 1..Len(s) /\ DOMAIN u = 1..Len(u) /\ Len(s) \in Nat /\ Len(u) \in Nat
      /\ \A i \in 1..Len(s) : v[i] = s[i]
      /\ \A i \in 1..Len(u) : v[Len(s) + i] = u[i]
  OBVIOUS
<1>2. \A i \in OffersAt(v) :
        \/ i \in OffersAt(s) /\ v[i] = s[i]
        \/ i - Len(s) \in OffersAt(u) /\ v[i] = u[i - Len(s)]
  <2> SUFFICES ASSUME NEW i \in OffersAt(v), i \notin 1..Len(s)
               PROVE  i - Len(s) \in OffersAt(u) /\ v[i] = u[i - Len(s)]
    BY <1>1 DEF OffersAt
  <2> HIDE DEF v
  <2>1. i \in 1..Len(s) + Len(u)
    BY <1>1 DEF OffersAt
  <2>2. i - Len(s) \in 1..Len(u) /\ Len(s) + (i - Len(s)) = i
    BY <1>1, <2>1
  <2>3. v[i] = u[i - Len(s)]
    BY <1>1, <2>2
  <2> QED BY <1>1, <2>2, <2>3 DEF OffersAt
<1>3. \A i \in OffersAt(s) : i \in OffersAt(v) /\ v[i] = s[i]
  <2> SUFFICES ASSUME NEW i \in OffersAt(s) PROVE i \in OffersAt(v) /\ v[i] = s[i]
    OBVIOUS
  <2> HIDE DEF v
  <2>1. i \in 1..Len(s) + Len(u) /\ i \in 1..Len(s)
    BY <1>1 DEF OffersAt
  <2> QED BY <1>1, <2>1 DEF OffersAt
<1>4. \A i \in OffersAt(u) : Len(s) + i \in OffersAt(v) /\ v[Len(s) + i] = u[i]
  <2> SUFFICES ASSUME NEW i \in OffersAt(u)
               PROVE  Len(s) + i \in OffersAt(v) /\ v[Len(s) + i] = u[i]
    OBVIOUS
  <2> HIDE DEF v
  <2>1. i \in 1..Len(u) /\ Len(s) + i \in 1..Len(s) + Len(u)
    BY <1>1 DEF OffersAt
  <2> QED BY <1>1, <2>1 DEF OffersAt
<1>5. \A i \in OffersAt(v) : i \in Int
  <2> HIDE DEF v
  <2> QED BY <1>1 DEF OffersAt
<1> HIDE DEF v
<1>6. Offers(v) = Offers(s) \cup Offers(u)
  BY <1>2, <1>3, <1>4 DEF Offers
<1>7. ASSUME Distinct(s), Distinct(u), Offers(s) \cap Offers(u) = {} PROVE Distinct(v)
  <2> SUFFICES ASSUME NEW i \in OffersAt(v), NEW j \in OffersAt(v), v[i].tok = v[j].tok
               PROVE  i = j
    BY DEF Distinct
  <2>1. CASE i \in OffersAt(s) /\ v[i] = s[i] /\ j \in OffersAt(s) /\ v[j] = s[j]
    BY <1>7, <2>1 DEF Distinct
  <2>2. CASE i - Len(s) \in OffersAt(u) /\ v[i] = u[i - Len(s)]
             /\ j - Len(s) \in OffersAt(u) /\ v[j] = u[j - Len(s)]
    <3>1. i - Len(s) = j - Len(s)
      BY <1>7, <2>2 DEF Distinct
    <3> QED BY <1>1, <1>5, <3>1
  <2>3. CASE i \in OffersAt(s) /\ v[i] = s[i] /\ j - Len(s) \in OffersAt(u) /\ v[j] = u[j - Len(s)]
    BY <1>7, <2>3 DEF Offers
  <2>4. CASE j \in OffersAt(s) /\ v[j] = s[j] /\ i - Len(s) \in OffersAt(u) /\ v[i] = u[i - Len(s)]
    BY <1>7, <2>4 DEF Offers
  <2> QED BY <1>2, <2>1, <2>2, <2>3, <2>4
<1> QED BY <1>6, <1>7 DEF v

LEMMA NoOffers ==
  ASSUME NEW s, \A i \in DOMAIN s : ~(s[i].op = "open" /\ s[i].status = "ok")
  PROVE  Offers(s) = {} /\ Distinct(s)
BY DEF Offers, OffersAt, Distinct

---------------------------------------------------------------------------
(* Calls *)

LEMMA GoneIsCall ==
  ASSUME NEW d \in Device
  PROVE  Call("gone", d, None, "event", None, FALSE) \in Calls
BY DEF Call, Calls, Whys

LEMMA CallIs ==
  ASSUME NEW c \in Calls
  PROVE  /\ c.op \in {"open", "close", "gone"} /\ c.dev \in Device \cup {None}
         /\ c.tok \in Token \cup {None} /\ c.owned \in BOOLEAN /\ c.live \in BOOLEAN
         /\ c.status \in {"none", "ok", "err"}
         /\ (c.why = "open") <=> (c.op = "open")
         /\ (c.why \notin {"open", "event"}) <=> (c.op = "close")
         /\ ((c.op = "close") => c.tok \in Token)
         /\ ((c.why = "revoke") => c.by \in Revoker)
         /\ ((c.op = "open" /\ c.status = "ok") => c.tok \in Token)
BY DEF Calls

(* The same call with another status, or forgotten *)
LEMMA StatusIsCall ==
  ASSUME NEW c \in Calls, NEW st \in {"none", "ok", "err"},
         (c.op = "open" /\ st = "ok") => c.tok \in Token
  PROVE  LET e == [c EXCEPT !.status = st]
         IN  /\ e \in Calls /\ e.op = c.op /\ e.tok = c.tok /\ e.why = c.why /\ e.by = c.by
             /\ e.owned = c.owned /\ e.live = c.live /\ e.status = st /\ e.dev = c.dev
BY DEF Calls

LEMMA LiveIsCall ==
  ASSUME NEW c \in Calls, NEW l \in BOOLEAN
  PROVE  LET e == [c EXCEPT !.live = l]
         IN  /\ e \in Calls /\ e.op = c.op /\ e.tok = c.tok /\ e.why = c.why /\ e.by = c.by
             /\ e.owned = c.owned /\ e.live = l /\ e.status = c.status /\ e.dev = c.dev
BY DEF Calls

LEMMA MintedIsCall ==
  ASSUME NEW c \in Calls, NEW t \in Token, c.op = "open"
  PROVE  LET e == [c EXCEPT !.status = "ok", !.tok = t]
         IN  /\ e \in Calls /\ e.op = "open" /\ e.tok = t /\ e.status = "ok"
BY DEF Calls

---------------------------------------------------------------------------
(* The calls that are in flight, before and after a step *)

(* The same close, on another part of its way *)
Alike(c, e) == e.op = c.op /\ e.tok = c.tok /\ e.why = c.why /\ e.owned = c.owned

(* From the calls F to the calls G: the calls N are sent, those of X are   *)
(* answered, and every other close goes on.                                *)
Crosses(F, G, N, X) ==
  /\ \A e \in G : (e.op = "close") => \E c \in F \cup N : Alike(c, e)
  /\ \A c \in (F \ X) \cup N : (c.op = "close" /\ c.live) => \E e \in G : e.live /\ Alike(c, e)

LEMMA StayCrosses ==
  ASSUME NEW F PROVE Crosses(F, F, {}, {})
BY DEF Crosses, Alike

LEMMA FlightIs ==
  ASSUME NEW s \in Seq(Calls), NEW u \in Seq(Calls), NEW v \in Seq(Calls), NEW w
  PROVE  Range(s \o u \o v) \cup Range(w)
           = Range(s) \cup Range(u) \cup Range(v) \cup Range(w)
<1> DEFINE x == s \o u
<1>1. x \in Seq(Calls) /\ Range(x) = Range(s) \cup Range(u)
  BY RangeOfConcat
<1>2. Range(x \o v) = Range(x) \cup Range(v)
  <2> HIDE DEF x
  <2> QED BY <1>1, RangeOfConcat
<1> QED BY <1>1, <1>2

LEMMA InFlightIs ==
  ASSUME Shape
  PROVE  InFlight = Range(toAddon) \cup Range(served) \cup Range(toDaemon) \cup Range(ready)
BY FlightIs DEF Shape, Queues, InFlight, Crossing

LEMMA NextInFlightIs ==
  ASSUME Queues'
  PROVE  InFlight' = Range(toAddon') \cup Range(served') \cup Range(toDaemon') \cup Range(ready')
BY FlightIs DEF Queues, InFlight, Crossing

---------------------------------------------------------------------------
(* Sending *)

(* Range of the empty sequence *)
LEMMA RangeOfEmpty == Range(<<>>) = {} /\ Offers(<<>>) = {} /\ Distinct(<<>>) /\ <<>> \in Seq(Calls)
<1>1. DOMAIN <<>> = {} /\ <<>> \in Seq(Calls)
  OBVIOUS
<1> QED BY <1>1, NoOffers DEF Range

LEMMA OneCall ==
  ASSUME NEW c \in Calls
  PROVE  <<c>> \in Seq(Calls) /\ Range(<<c>>) = {c}
<1>1. <<c>> \in Seq(Calls) /\ DOMAIN <<c>> = {1} /\ <<c>>[1] = c
  OBVIOUS
<1> QED BY <1>1 DEF Range

LEMMA NoneOffered ==
  ASSUME NEW q \in Seq(Calls), \A c \in Range(q) : c.status # "ok"
  PROVE  Offers(q) = {} /\ Distinct(q)
<1>1. \A i \in DOMAIN q : q[i] \in Range(q)
  BY DEF Range
<1> QED BY <1>1, NoOffers

(* sendFrame for each request: over the port that is up, or the first one  *)
(* finds none, which connects, and its promise is rejected.                *)
LEMMA SendCalls ==
  ASSUME toDaemon \in Seq(Calls), Connected, Offers(toDaemon) = {},
         NEW calls \in Seq(Calls), NEW rdy \in Seq(Calls),
         \A c \in Range(calls) : c.status = "none", Distinct(rdy), Send(calls, rdy)
  PROVE  /\ toDaemon' \in Seq(Calls) /\ ready' \in Seq(Calls)
         /\ Offers(toDaemon') = {} /\ Offers(ready') = Offers(rdy) /\ Distinct(ready')
         /\ port' \in {"up", "down"}
         /\ (port = "up" => (port' = "up" /\ epoch' = epoch))
         /\ (port' = "down" => toDaemon' = <<>>)
         /\ \A e \in Range(toDaemon') \cup Range(ready') :
              \E c \in Range(toDaemon) \cup Range(rdy) \cup Range(calls) : Alike(c, e)
         /\ \A c \in Range(toDaemon) \cup Range(rdy) \cup Range(calls) :
              \E e \in Range(toDaemon') \cup Range(ready') : e.live = c.live /\ Alike(c, e)
<1>1. \A c : Alike(c, c)
  BY DEF Alike
<1>2. CASE /\ calls = <<>> \/ port = "up"
           /\ toDaemon' = toDaemon \o calls /\ ready' = rdy /\ UNCHANGED <<port, epoch>>
  <2>1. toDaemon' \in Seq(Calls) /\ Range(toDaemon') = Range(toDaemon) \cup Range(calls)
    BY <1>2, RangeOfConcat
  <2>2. Offers(calls) = {}
    BY NoneOffered
  <2>3. Offers(toDaemon') = {}
    BY <1>2, <2>2, OffersOfConcat
  <2>4. port' = "down" => toDaemon' = <<>>
    <3> SUFFICES ASSUME port' = "down" PROVE toDaemon' = <<>>
      OBVIOUS
    <3>1. calls = <<>> /\ toDaemon = <<>>
      BY <1>2 DEF Connected
    <3> QED BY <1>2, <3>1
  <2>5. \A e \in Range(toDaemon') \cup Range(ready') :
          \E c \in Range(toDaemon) \cup Range(rdy) \cup Range(calls) : Alike(c, e)
    BY <1>1, <1>2, <2>1
  <2>6. \A c \in Range(toDaemon) \cup Range(rdy) \cup Range(calls) :
          \E e \in Range(toDaemon') \cup Range(ready') : e.live = c.live /\ Alike(c, e)
    BY <1>1, <1>2, <2>1
  <2>7. ready' \in Seq(Calls) /\ Offers(ready') = Offers(rdy) /\ Distinct(ready')
    BY <1>2
  <2>8. port' \in {"up", "down"} /\ (port = "up" => (port' = "up" /\ epoch' = epoch))
    BY <1>2 DEF Connected
  <2> QED BY <2>1, <2>3, <2>4, <2>5, <2>6, <2>7, <2>8
<1>3. CASE /\ calls # <<>> /\ port = "down"
           /\ port' = "up" /\ epoch' = epoch + 1
           /\ ready' = Append(rdy, [Head(calls) EXCEPT !.status = "err"])
           /\ toDaemon' = Tail(calls)
  <2> DEFINE c0 == Head(calls)
             e0 == [c0 EXCEPT !.status = "err"]
  <2>1. /\ Tail(calls) \in Seq(Calls) /\ c0 \in Calls
        /\ Range(calls) = {c0} \cup Range(Tail(calls))
    BY <1>3, TailOf, RangeOfTail
  <2>2. /\ e0 \in Calls /\ Alike(c0, e0) /\ e0.live = c0.live /\ e0.status = "err"
    <3> HIDE DEF c0
    <3> QED BY <2>1, StatusIsCall DEF Alike
  <2> HIDE DEF c0, e0
  <2>3. toDaemon = <<>> /\ Range(toDaemon) = {}
    BY <1>3, RangeOfEmpty DEF Connected
  <2>4. ready' = Append(rdy, e0)
    BY <1>3 DEF c0, e0
  <2>5. ready' \in Seq(Calls) /\ Range(ready') = Range(rdy) \cup {e0}
    BY <2>2, <2>4, RangeOfAppend
  <2>6. Offers(ready') = Offers(rdy) /\ Distinct(ready')
    <3> DEFINE one == <<e0>>
    <3>1. one \in Seq(Calls) /\ Range(one) = {e0}
      BY <2>2, OneCall
    <3>3. Append(rdy, e0) = rdy \o one
      BY <2>2
    <3> HIDE DEF one
    <3>2. Offers(one) = {} /\ Distinct(one)
      BY <2>2, <3>1, NoneOffered
    <3>4. /\ Offers(rdy \o one) = Offers(rdy) \cup Offers(one)
          /\ (Distinct(rdy) /\ Distinct(one) /\ Offers(rdy) \cap Offers(one) = {})
               => Distinct(rdy \o one)
      BY <3>1, OffersOfConcat
    <3>5. ready' = rdy \o one
      BY <2>4, <3>3
    <3> QED BY <3>2, <3>4, <3>5
  <2>7. toDaemon' \in Seq(Calls) /\ Offers(toDaemon') = {}
    BY <1>3, <2>1, NoneOffered
  <2>8. \A e \in Range(toDaemon') \cup Range(ready') :
          \E c \in Range(toDaemon) \cup Range(rdy) \cup Range(calls) : Alike(c, e)
    BY <1>1, <1>3, <2>1, <2>2, <2>5
  <2>9. \A c \in Range(toDaemon) \cup Range(rdy) \cup Range(calls) :
          \E e \in Range(toDaemon') \cup Range(ready') : e.live = c.live /\ Alike(c, e)
    BY <1>1, <1>3, <2>1, <2>2, <2>3, <2>5
  <2>10. port' = "up" /\ port = "down"
    BY <1>3
  <2> QED BY <2>5, <2>6, <2>7, <2>8, <2>9, <2>10
<1> QED BY <1>2, <1>3 DEF Send

LEMMA SendCrosses ==
  ASSUME Shape, Connected, Offers(toDaemon) = {}, UNCHANGED <<toAddon, served>>,
         NEW calls \in Seq(Calls), NEW rdy \in Seq(Calls), NEW X,
         \A c \in Range(calls) : c.status = "none", Distinct(rdy), Send(calls, rdy),
         Range(rdy) \subseteq Range(ready), Range(ready) \subseteq Range(rdy) \cup X
  PROVE  Queues' /\ Crosses(InFlight, InFlight', Range(calls), X)
<1>1. toDaemon \in Seq(Calls) /\ toAddon \in Seq(Calls) /\ served \in Seq(Calls)
  BY DEF Shape, Queues
<1>2. /\ toDaemon' \in Seq(Calls) /\ ready' \in Seq(Calls)
      /\ \A e \in Range(toDaemon') \cup Range(ready') :
           \E c \in Range(toDaemon) \cup Range(rdy) \cup Range(calls) : Alike(c, e)
      /\ \A c \in Range(toDaemon) \cup Range(rdy) \cup Range(calls) :
           \E e \in Range(toDaemon') \cup Range(ready') : e.live = c.live /\ Alike(c, e)
  BY <1>1, SendCalls
<1>3. Queues'
  BY <1>1, <1>2 DEF Queues
<1>4. InFlight' = Range(toAddon) \cup Range(served) \cup Range(toDaemon') \cup Range(ready')
  BY <1>3, NextInFlightIs
<1>5. InFlight = Range(toAddon) \cup Range(served) \cup Range(toDaemon) \cup Range(ready)
  BY InFlightIs
<1>6. \A c : Alike(c, c)
  BY DEF Alike
<1>7. \A e \in InFlight' : \E c \in InFlight \cup Range(calls) : Alike(c, e)
  BY <1>2, <1>4, <1>5, <1>6
<1>8. \A c \in (InFlight \ X) \cup Range(calls) : c.live => \E e \in InFlight' : e.live /\ Alike(c, e)
  BY <1>2, <1>4, <1>5, <1>6
<1> QED BY <1>3, <1>7, <1>8 DEF Crosses

---------------------------------------------------------------------------
(* What keeps the invariant *)

(* Nothing new is known but T. *)
LEMMA KnownKept ==
  ASSUME NEW N, NEW X, NEW T, Crosses(InFlight, InFlight', N, X),
         DOMAIN owner' \subseteq Known \cup T, DOMAIN orphans' \subseteq Known \cup T,
         DutyToks' \subseteq Known \cup T, RevokeToks' \subseteq Known \cup T,
         \A c \in N : c.op = "close" => c.tok \in Known \cup T
  PROVE  Known' \subseteq Known \cup T
<1>1. \A e \in InFlight' : e.op = "close" => e.tok \in Known \cup T
  <2> SUFFICES ASSUME NEW e \in InFlight', e.op = "close" PROVE e.tok \in Known \cup T
    OBVIOUS
  <2>1. PICK c \in InFlight \cup N : Alike(c, e)
    BY DEF Crosses
  <2>2. c.op = "close" /\ c.tok = e.tok
    BY <2>1 DEF Alike
  <2>3. CASE c \in N
    BY <2>2, <2>3
  <2>4. CASE c \in InFlight
    BY <2>2, <2>4 DEF Known, CloseToks
  <2> QED BY <2>3, <2>4
<1>2. CloseToks' \subseteq Known \cup T
  BY <1>1 DEF CloseToks
<1> QED BY <1>2 DEF Known

(* No bridge begins to look at an open a second time. *)
LooksOn == \A b \in Bridge : ctl'[b].pc = "recheck" =>
             ctl[b].pc = "recheck" /\ ctl'[b].tok = ctl[b].tok

(* Nothing new is offered, and nothing offered becomes known. *)
LEMMA FreshKept ==
  ASSUME NEW T, Fresh, Offers(toDaemon') = {},
         Offers(toAddon') \subseteq Offers(toAddon), Distinct(toAddon'),
         Offers(served') \subseteq Offers(served), Distinct(served'),
         Offers(ready') \subseteq Offers(ready), Distinct(ready'),
         LooksOn, Known' \subseteq Known \cup T,
         T \cap Offered' = {}, \A b \in Rechecks' : ctl'[b].tok \notin T
  PROVE  Fresh'
<1>1. Offered' \subseteq Offered
  BY DEF Offered
<1>2. \A b \in Rechecks' : b \in Rechecks /\ ctl'[b].tok = ctl[b].tok
  BY DEF Rechecks, LooksOn
<1>3. /\ Offers(toAddon') \cap Offers(served') = {}
      /\ Offers(toAddon') \cap Offers(ready') = {}
      /\ Offers(served') \cap Offers(ready') = {}
  BY DEF Fresh
<1>4. \A b \in Rechecks' : ctl'[b].tok \notin Offered' /\ ctl'[b].tok \notin Known'
  BY <1>1, <1>2 DEF Fresh
<1>5. \A a, b \in Rechecks' : ctl'[a].tok = ctl'[b].tok => a = b
  BY <1>2 DEF Fresh
<1>6. Offered' \cap Known' = {}
  BY <1>1 DEF Fresh
<1> QED BY <1>3, <1>4, <1>5, <1>6 DEF Fresh

(* Active again: a bridge looks at an open for a frame that was active.    *)
ActiveAt(b) == ctl[b].frame \in DOMAIN frames /\ frames[ctl[b].frame] = "active"

(* What the daemon holds is of the connection it was of. *)
EpochsKept == \A t \in DOMAIN opened' : t \in DOMAIN opened /\ opened'[t].epoch = opened[t].epoch

LEMMA ConnectedKept ==
  ASSUME Connected, port' \in {"up", "down"},
         port = "up" => port' = "up" /\ epoch' = epoch,
         port' = "down" => toDaemon' = <<>>,
         DOMAIN owner' \subseteq DOMAIN owner, Offered' \subseteq Offered, EpochsKept,
         \A b \in Rechecks' : ActiveAt(b)' => b \in Rechecks /\ ActiveAt(b) /\ ctl'[b].tok = ctl[b].tok
  PROVE  Connected'
<1>1. ASSUME port = "up"
      PROVE  \A t : Current(t) => (t \in DOMAIN opened' => opened'[t].epoch = epoch')
  BY <1>1 DEF Current, EpochsKept
<1>2. \A t \in DOMAIN owner' \cup Offered' :
        (t \in DOMAIN opened' => opened'[t].epoch = epoch')
  <2> SUFFICES ASSUME NEW t \in DOMAIN owner' \cup Offered'
               PROVE  t \in DOMAIN opened' => opened'[t].epoch = epoch'
    OBVIOUS
  <2>1. port = "up" /\ Current(t)
    BY DEF Connected
  <2> QED BY <1>1, <2>1
<1>3. port' = "down" => (DOMAIN owner' = {} /\ Offered' = {})
  BY DEF Connected
<1>4. \A b \in Rechecks' : ActiveAt(b)' =>
        /\ port' = "up"
        /\ (ctl'[b].tok \in DOMAIN opened' => opened'[ctl'[b].tok].epoch = epoch')
  <2> SUFFICES ASSUME NEW b \in Rechecks', ActiveAt(b)'
               PROVE  /\ port' = "up"
                      /\ (ctl'[b].tok \in DOMAIN opened' => opened'[ctl'[b].tok].epoch = epoch')
    OBVIOUS
  <2>1. port = "up" /\ Current(ctl[b].tok) /\ ctl'[b].tok = ctl[b].tok
    BY DEF Connected, ActiveAt
  <2> QED BY <1>1, <2>1
<1>5. (\A t \in DOMAIN owner \cup Offered : Current(t))'
  BY <1>2 DEF Current
<1>6. (\A b \in Rechecks : ActiveAt(b) => (port = "up" /\ Current(ctl[b].tok)))'
  BY <1>4 DEF Current
<1> QED BY <1>3, <1>5, <1>6 DEF Connected, ActiveAt

(* A frame whose sessions may be purged *)
Purgeable(f) == (f \in DOMAIN frames /\ frames[f] = "retired") \/ TabOfFrame(f) \in removedTabs

LEMMA PurgeIs ==
  PurgeOnlyRetired <=>
    \A c \in InFlight : (c.why = "purge" /\ c.tok \in DOMAIN owner) => Purgeable(owner[c.tok].frame)
BY DEF PurgeOnlyRetired, Purgeable

(* One of the calls ends the session, whatever the answer is. *)
Sent(N, t) == \E c \in N : c.op = "close" /\ c.tok = t /\ c.live /\ c.why # "close"

LEMMA NextInFlightCalls ==
  ASSUME Queues', NEW c \in InFlight'
  PROVE  c \in Calls
<1>1. \A s \in Seq(Calls) : \A x \in Range(s) : x \in Calls
  BY DEF Range
<1> QED BY <1>1, NextInFlightIs DEF Queues

(* A close goes on unless it is answered. *)
LEMMA DyingKept ==
  ASSUME NEW N, NEW X, Crosses(InFlight, InFlight', N, X), NEW t,
         \A c \in X : (c.op = "close" /\ c.why # "close") => c.tok # t,
         Dying(t) \/ Sent(N, t)
  PROVE  Dying(t)'
<1>1. PICK c \in (InFlight \ X) \cup N : c.op = "close" /\ c.tok = t /\ c.live /\ c.why # "close"
  <2>1. CASE Sent(N, t)
    BY <2>1 DEF Sent
  <2>2. CASE Dying(t)
    <3>1. PICK c \in InFlight : c.op = "close" /\ c.tok = t /\ c.live /\ c.why # "close"
      BY <2>2 DEF Dying
    <3> QED BY <3>1
  <2> QED BY <2>1, <2>2
<1>2. PICK e \in InFlight' : e.live /\ Alike(c, e)
  BY <1>1 DEF Crosses
<1>3. e.op = "close" /\ e.tok = t /\ e.live /\ e.why # "close"
  BY <1>1, <1>2 DEF Alike
<1> QED BY <1>2, <1>3 DEF Dying

LEMMA EndingKept ==
  ASSUME Ending, Queues', NEW N, NEW X, Crosses(InFlight, InFlight', N, X),
         DOMAIN owner' \subseteq DOMAIN owner, \A t \in DOMAIN owner' : owner'[t] = owner[t],
         \A c \in X : (c.op = "close" /\ c.why # "close") => c.tok \notin DOMAIN owner',
         \A c \in N : (c.op = "close" /\ c.tok \in DOMAIN owner') => c.owned,
         \A c \in N, f \in Frame :
           (c.why = "purge" /\ c.tok \in DOMAIN owner' /\ f = owner[c.tok].frame) => Purgeable(f)',
         \A f \in Frame : Purgeable(f) => Purgeable(f)',
         \A t \in DOMAIN owner' : owner[t].frame \in Frame,
         \A t \in DOMAIN owner', f \in Frame :
           (owner[t].frame = f /\ Retired(f)') => Retired(f) \/ Sent(N, t),
         \A t \in DOMAIN owner' :
           Ungranted(t)' => Ungranted(t) \/ Sent(N, t) \/ t \in RevokeToks',
         \A t \in DOMAIN owner' : t \in RevokeToks => t \in RevokeToks' \/ Sent(N, t),
         \A f \in DOMAIN frames' : link'[BridgeOf[f]] = "gone" => frames'[f] = "retired",
         \A t \in DOMAIN owner' : owner[t].frame \in DOMAIN frames'
                                    \/ TabOfFrame(owner[t].frame) \in removedTabs'
  PROVE  Ending'
<1>1. \A c \in InFlight' : (c.op = "close" /\ c.tok \in DOMAIN owner') => c.owned
  <2> SUFFICES ASSUME NEW e \in InFlight', e.op = "close", e.tok \in DOMAIN owner' PROVE e.owned
    OBVIOUS
  <2>1. PICK c \in InFlight \cup N : Alike(c, e)
    BY DEF Crosses
  <2>2. c.op = "close" /\ c.tok = e.tok /\ c.owned = e.owned
    BY <2>1 DEF Alike
  <2>3. c.owned
    BY <2>1, <2>2 DEF Ending
  <2> QED BY <2>2, <2>3
<1>2. \A t \in DOMAIN owner' : (Dying(t) \/ Sent(N, t)) => Dying(t)'
  BY DyingKept
<1>3. \A t \in DOMAIN owner', f \in Frame : (owner[t].frame = f /\ Retired(f)') => Dying(t)'
  BY <1>2 DEF Ending
<1>4. \A t \in DOMAIN owner' : Ungranted(t)' => (Dying(t)' \/ t \in RevokeToks')
  BY <1>2 DEF Ending
<1>5. \A c \in InFlight', f \in Frame :
        (c.why = "purge" /\ c.tok \in DOMAIN owner' /\ f = owner[c.tok].frame) => Purgeable(f)'
  <2> SUFFICES ASSUME NEW e \in InFlight', NEW f \in Frame, e.why = "purge",
                      e.tok \in DOMAIN owner', f = owner[e.tok].frame
               PROVE  Purgeable(f)'
    OBVIOUS
  <2>1. e.op = "close"
    <3>1. e \in Calls
      BY NextInFlightCalls
    <3> QED BY <3>1, CallIs
  <2>2. PICK c \in InFlight \cup N : Alike(c, e)
    BY <2>1 DEF Crosses
  <2>3. c.why = "purge" /\ c.tok = e.tok
    BY <2>2 DEF Alike
  <2>4. CASE c \in N
    BY <2>3, <2>4
  <2>5. CASE c \in InFlight
    <3>1. Purgeable(f)
      BY <2>3, <2>5, PurgeIs DEF Ending
    <3> QED BY <3>1
  <2> QED BY <2>2, <2>4, <2>5
<1>6. (\A t \in DOMAIN owner : Retired(owner[t].frame) => Dying(t))'
  <2> SUFFICES ASSUME NEW t \in DOMAIN owner' PROVE (Retired(owner[t].frame) => Dying(t))'
    OBVIOUS
  <2>1. PICK f \in Frame : f = owner[t].frame
    OBVIOUS
  <2>2. f = owner'[t].frame
    BY <2>1
  <2>3. Retired(f)' => Dying(t)'
    BY <1>3, <2>1
  <2> QED BY <2>2, <2>3 DEF Retired
<1>7. (\A c \in InFlight : (c.why = "purge" /\ c.tok \in DOMAIN owner)
                             => Purgeable(owner[c.tok].frame))'
  <2> SUFFICES ASSUME NEW c \in InFlight', c.why = "purge", c.tok \in DOMAIN owner'
               PROVE  Purgeable(owner[c.tok].frame)'
    OBVIOUS
  <2>1. PICK f \in Frame : f = owner[c.tok].frame
    OBVIOUS
  <2>2. f = owner'[c.tok].frame
    BY <2>1
  <2>3. Purgeable(f)'
    BY <1>5, <2>1
  <2> QED BY <2>2, <2>3 DEF Purgeable
<1>8. PurgeOnlyRetired'
  BY <1>7 DEF PurgeOnlyRetired, Purgeable
<1>9. \A t \in DOMAIN owner' : owner'[t].frame \in DOMAIN frames'
                                 \/ TabOfFrame(owner'[t].frame) \in removedTabs'
  OBVIOUS
<1> QED BY <1>1, <1>4, <1>6, <1>8, <1>9 DEF Ending

(* The port that is up stays. *)
PortKept == /\ port' \in {"up", "down"}
            /\ port = "up" => (port' = "up" /\ epoch' = epoch)

(* A step that leaves the queues, the port and the owners alone *)
LEMMA CalmKept ==
  ASSUME OwnershipInv, PortKept,
         UNCHANGED <<toAddon, served, toDaemon, ready, owner, orphans, duty, removedTabs>>,
         EpochsKept, Records', Handlers', RevokeToks' = RevokeToks, LooksOn,
         \A b \in Rechecks' : ActiveAt(b)' => ActiveAt(b),
         \A f \in Frame : Purgeable(f) => Purgeable(f)',
         \A f \in Frame : Retired(f)' => Retired(f),
         granted \subseteq granted',
         \A f \in DOMAIN frames' : link'[BridgeOf[f]] = "gone" => frames'[f] = "retired",
         DOMAIN frames \subseteq DOMAIN frames'
  PROVE  OwnershipInv'
<1>1. Queues'
  BY DEF OwnershipInv, Shape, Queues
<1>2. InFlight' = InFlight
  BY DEF InFlight, Crossing
<1>3. Crosses(InFlight, InFlight', {}, {})
  BY <1>2, StayCrosses
<1>4. /\ Offers(toAddon') = Offers(toAddon) /\ Offers(served') = Offers(served)
      /\ Offers(ready') = Offers(ready) /\ Offers(toDaemon') = {}
      /\ Distinct(toAddon') /\ Distinct(served') /\ Distinct(ready') /\ Offered' = Offered
  BY DEF OwnershipInv, Fresh, Offered
<1>5. Known' \subseteq Known \cup {}
  BY <1>2 DEF Known, CloseToks, DutyToks
<1>6. Fresh'
  BY <1>4, <1>5, FreshKept DEF OwnershipInv
<1>7. Connected'
  <2>1. port' \in {"up", "down"} /\ (port = "up" => (port' = "up" /\ epoch' = epoch))
        /\ (port' = "down" => toDaemon' = <<>>)
    BY DEF OwnershipInv, Connected, PortKept
  <2>2. \A b \in Rechecks' : ActiveAt(b)' => b \in Rechecks /\ ActiveAt(b) /\ ctl'[b].tok = ctl[b].tok
    BY DEF LooksOn, Rechecks
  <2> QED BY <1>4, <2>1, <2>2, ConnectedKept DEF OwnershipInv
<1>8. Ending'
  <2>1. \A t \in DOMAIN owner' : owner[t].frame \in Frame
    BY DEF OwnershipInv, Shape, Records, OwnerRec
  <2>2. \A t \in DOMAIN owner' : Ungranted(t)' => Ungranted(t)
    BY DEF Ungranted
  <2>3. \A t \in DOMAIN owner' : owner[t].frame \in DOMAIN frames'
                                    \/ TabOfFrame(owner[t].frame) \in removedTabs'
    BY DEF OwnershipInv, Ending
  <2> QED BY <1>1, <1>3, <2>1, <2>2, <2>3, EndingKept DEF OwnershipInv
<1> QED BY <1>1, <1>6, <1>7, <1>8 DEF OwnershipInv, Shape

(* A step that sends calls and changes no owner *)
LEMMA SendKept ==
  ASSUME OwnershipInv, UNCHANGED <<toAddon, served, owner, orphans, opened>>,
         NEW calls \in Seq(Calls), Send(calls, ready), Records', Handlers', LooksOn, NEW T,
         \A c \in Range(calls) : c.status = "none" /\ c.live,
         \A c \in Range(calls) : c.op = "close" => c.tok \in Known \cup T
                                                     /\ c.owned = (c.tok \in DOMAIN owner),
         DutyToks' \subseteq Known, RevokeToks' \subseteq Known,
         T \cap Offered = {}, \A b \in Rechecks' : ctl'[b].tok \notin T,
         \A b \in Rechecks' : ActiveAt(b)' => ActiveAt(b),
         \A c \in Range(calls), f \in Frame :
           (c.why = "purge" /\ c.tok \in DOMAIN owner /\ f = owner[c.tok].frame) => Purgeable(f)',
         \A f \in Frame : Purgeable(f) => Purgeable(f)',
         \A t \in DOMAIN owner, f \in Frame :
           (owner[t].frame = f /\ Retired(f)') => Retired(f) \/ Sent(Range(calls), t),
         \A t \in DOMAIN owner :
           Ungranted(t)' => Ungranted(t) \/ Sent(Range(calls), t) \/ t \in RevokeToks',
         \A t \in DOMAIN owner : t \in RevokeToks => t \in RevokeToks' \/ Sent(Range(calls), t),
         \A f \in DOMAIN frames' : link'[BridgeOf[f]] = "gone" => frames'[f] = "retired",
         \A t \in DOMAIN owner : owner[t].frame \in DOMAIN frames'
                                    \/ TabOfFrame(owner[t].frame) \in removedTabs'
  PROVE  OwnershipInv'
<1> USE DEF OwnershipInv
<1>1. /\ toDaemon \in Seq(Calls) /\ ready \in Seq(Calls) /\ Offers(toDaemon) = {}
      /\ Distinct(ready) /\ \A c \in Range(calls) : c.status = "none"
  BY DEF Shape, Queues, Fresh
<1>2. /\ Offers(toDaemon') = {} /\ Offers(ready') = Offers(ready) /\ Distinct(ready')
      /\ port' \in {"up", "down"}
      /\ (port = "up" => (port' = "up" /\ epoch' = epoch))
      /\ (port' = "down" => toDaemon' = <<>>)
  BY <1>1, SendCalls
<1>3. Queues' /\ Crosses(InFlight, InFlight', Range(calls), {})
  BY <1>1, SendCrosses
<1>4. /\ Offers(toAddon') = Offers(toAddon) /\ Offers(served') = Offers(served)
      /\ Distinct(toAddon') /\ Distinct(served') /\ Offered' = Offered
  BY <1>2 DEF Fresh, Offered
<1>5. Known' \subseteq Known \cup T
  <2>1. DOMAIN owner' \subseteq Known \cup T /\ DOMAIN orphans' \subseteq Known \cup T
    BY DEF Known
  <2> QED BY <1>3, <2>1, KnownKept
<1>6. Fresh'
  BY <1>2, <1>4, <1>5, FreshKept
<1>7. Connected'
  <2>1. \A b \in Rechecks' : ActiveAt(b)' => b \in Rechecks /\ ActiveAt(b) /\ ctl'[b].tok = ctl[b].tok
    BY DEF LooksOn, Rechecks
  <2>2. EpochsKept
    BY DEF EpochsKept
  <2> QED BY <1>2, <1>4, <2>1, <2>2, ConnectedKept
<1>8. Ending'
  <2>1. \A t \in DOMAIN owner' : owner[t].frame \in Frame
    BY DEF Shape, Records, OwnerRec
  <2>2. \A c \in Range(calls) : (c.op = "close" /\ c.tok \in DOMAIN owner') => c.owned
    OBVIOUS
  <2>3. \A c \in {} : (c.op = "close" /\ c.why # "close") => c.tok \notin DOMAIN owner'
    OBVIOUS
  <2>4. /\ Ending /\ DOMAIN owner' \subseteq DOMAIN owner
        /\ \A t \in DOMAIN owner' : owner'[t] = owner[t]
    OBVIOUS
  <2>5. \A c \in Range(calls), f \in Frame :
           (c.why = "purge" /\ c.tok \in DOMAIN owner' /\ f = owner[c.tok].frame) => Purgeable(f)'
    OBVIOUS
  <2> HIDE DEF OwnershipInv
  <2> QED BY <1>3, <2>1, <2>2, <2>3, <2>4, <2>5, EndingKept
<1> QED BY <1>3, <1>6, <1>7, <1>8 DEF Shape

---------------------------------------------------------------------------
(* Maps and handlers *)

LEMMA DropAt ==
  ASSUME NEW m, NEW S
  PROVE  /\ DOMAIN Drop(m, S) = DOMAIN m \ S
         /\ \A x \in DOMAIN m \ S : Drop(m, S)[x] = m[x]
BY DEF Drop, Restrict

LEMMA DropEpochs ==
  ASSUME NEW S, opened' = Drop(opened, S)
  PROVE  EpochsKept
<1>1. /\ DOMAIN Drop(opened, S) = DOMAIN opened \ S
      /\ \A x \in DOMAIN opened \ S : Drop(opened, S)[x] = opened[x]
  BY DropAt
<1>2. DOMAIN opened' = DOMAIN opened \ S /\ \A x \in DOMAIN opened \ S : opened'[x] = opened[x]
  BY <1>1
<1> QED BY <1>2 DEF EpochsKept

LEMMA SameEpochs == ASSUME opened' = opened PROVE EpochsKept
BY DEF EpochsKept

LEMMA IdleIs ==
  Idle \in CtlRec /\ Idle.pc = "idle" /\ Idle.frame = None
BY DEF Idle, CtlRec

(* The request of a bridge moves on, to anything but the second look. *)
LEMMA Turn ==
  ASSUME OwnershipInv, NEW b \in Bridge, NEW c \in CtlRec, ctl' = [ctl EXCEPT ![b] = c],
         revoke' = revoke, c.pc # "recheck", c.frame # None => BridgeOf[c.frame] = b
  PROVE  /\ ctl' \in [Bridge -> CtlRec] /\ Handlers' /\ LooksOn /\ RevokeToks' = RevokeToks
         /\ \A x \in Rechecks' : x \in Rechecks /\ x # b /\ ctl'[x] = ctl[x]
<1>1. ctl \in [Bridge -> CtlRec]
  BY DEF OwnershipInv, Shape, Records
<1>2. /\ ctl' \in [Bridge -> CtlRec] /\ ctl'[b] = c
      /\ \A x \in Bridge : x # b => ctl'[x] = ctl[x]
  BY <1>1
<1>3. \A x \in Rechecks' : x \in Rechecks /\ x # b /\ ctl'[x] = ctl[x]
  BY <1>2 DEF Rechecks
<1>4. LooksOn
  BY <1>2 DEF LooksOn
<1>5. Handlers'
  BY <1>2, <1>3 DEF OwnershipInv, Handlers
<1> QED BY <1>2, <1>3, <1>4, <1>5 DEF RevokeToks

LEMMA TurnIdle ==
  ASSUME OwnershipInv, NEW b \in Bridge, GoIdle(b), revoke' = revoke
  PROVE  /\ ctl' \in [Bridge -> CtlRec] /\ Handlers' /\ LooksOn /\ RevokeToks' = RevokeToks
         /\ \A x \in Rechecks' : x \in Rechecks /\ x # b /\ ctl'[x] = ctl[x]
BY IdleIs, Turn DEF GoIdle

LEMMA SamePort == ASSUME OwnershipInv, UNCHANGED <<port, epoch>> PROVE PortKept
BY DEF PortKept, OwnershipInv, Connected

(* No request moves. *)
LEMMA NoTurn ==
  ASSUME OwnershipInv, UNCHANGED <<ctl, revoke>>
  PROVE  /\ Handlers' /\ LooksOn /\ RevokeToks' = RevokeToks
         /\ \A x \in Rechecks' : x \in Rechecks /\ ctl'[x] = ctl[x]
BY DEF OwnershipInv, Handlers, LooksOn, RevokeToks, Rechecks

---------------------------------------------------------------------------
(* Steps that send nothing *)

LEMMA OpenRequestKept ==
  ASSUME OwnershipInv, NEW f \in Frame, NEW d \in Device, OpenRequest(f, d)
  PROVE  OwnershipInv'
<1> DEFINE b == BridgeOf[f]
           c == [Idle EXCEPT !.pc = "grant", !.frame = f, !.dev = d]
<1>1. b \in Bridge /\ f # None
  BY ShapeAssumption
<1>2. c \in CtlRec /\ c.pc = "grant" /\ c.frame = f
  BY DEF Idle, CtlRec
<1>3. /\ ctl' = [ctl EXCEPT ![b] = c] /\ frames' = Put(frames, f, "active") /\ link[b] = "up"
      /\ (f \in DOMAIN frames => frames[f] # "retired")
  BY DEF OpenRequest, Usable
<1>4. UNCHANGED <<granted, tabCount, owner, orphans, revoke, portVars, toAddon, losses,
                       timeouts, bridgeVars, daemonVars>>
  BY DEF OpenRequest
<1>5. UNCHANGED <<toAddon, served, toDaemon, ready, port, epoch, owner, orphans, duty, removedTabs,
                  link, granted, revoke, opened>>
  BY <1>4 DEF portVars, bridgeVars, daemonVars
<1> HIDE DEF b, c
<1>6. /\ ctl' \in [Bridge -> CtlRec] /\ Handlers' /\ LooksOn /\ RevokeToks' = RevokeToks
      /\ \A x \in Rechecks' : x \in Rechecks /\ x # b /\ ctl'[x] = ctl[x]
  BY <1>1, <1>2, <1>3, <1>5, Turn DEF b
<1>7. /\ DOMAIN frames' = DOMAIN frames \cup {f} /\ frames'[f] = "active"
      /\ \A x \in DOMAIN frames : x # f => frames'[x] = frames[x]
  <2>1. /\ DOMAIN Put(frames, f, "active") = DOMAIN frames \cup {f}
        /\ Put(frames, f, "active")[f] = "active"
        /\ \A x \in DOMAIN frames : x # f => Put(frames, f, "active")[x] = frames[x]
    BY DEF Put
  <2> QED BY <1>3, <2>1
<1>8. Records'
  BY <1>5, <1>6, <1>7 DEF OwnershipInv, Shape, Records
<1>9. \A x \in Rechecks' : ActiveAt(x)' => ActiveAt(x)
  <2> SUFFICES ASSUME NEW x \in Rechecks', ActiveAt(x)' PROVE ActiveAt(x)
    OBVIOUS
  <2>1. x \in Rechecks /\ x # b /\ ctl'[x] = ctl[x] /\ x \in Bridge
    BY <1>6 DEF Rechecks
  <2>2. ctl[x].frame # f
    BY <1>1, <2>1 DEF OwnershipInv, Handlers, b
  <2> QED BY <1>7, <2>1, <2>2 DEF ActiveAt
<1>10. \A x \in Frame : Purgeable(x) => Purgeable(x)'
  BY <1>3, <1>5, <1>7 DEF Purgeable
<1>11. \A x \in Frame : Retired(x)' => Retired(x)
  BY <1>5, <1>7 DEF Retired
<1>12. \A x \in DOMAIN frames' : link'[BridgeOf[x]] = "gone" => frames'[x] = "retired"
  BY <1>3, <1>5, <1>7 DEF OwnershipInv, Ending, b
<1>13. EpochsKept /\ PortKept
  BY <1>5, SameEpochs, SamePort
<1> QED BY <1>5, <1>6, <1>7, <1>8, <1>9, <1>10, <1>11, <1>12, <1>13, CalmKept

LEMMA OpenForbiddenKept ==
  ASSUME OwnershipInv, NEW b \in Bridge, OpenForbidden(b)
  PROVE  OwnershipInv'
<1>1. /\ GoIdle(b)
      /\ UNCHANGED <<bgVars, revoke, portVars, toAddon, bridgeVars, daemonVars>>
  BY DEF OpenForbidden
<1>2. UNCHANGED <<toAddon, served, toDaemon, ready, port, epoch, owner, orphans, duty, removedTabs,
                  link, granted, revoke, opened, frames>>
  BY <1>1 DEF bgVars, portVars, bridgeVars, daemonVars
<1>3. /\ ctl' \in [Bridge -> CtlRec] /\ Handlers' /\ LooksOn /\ RevokeToks' = RevokeToks
      /\ \A x \in Rechecks' : x \in Rechecks /\ x # b /\ ctl'[x] = ctl[x]
  BY <1>1, <1>2, TurnIdle
<1>4. Records'
  BY <1>2, <1>3 DEF OwnershipInv, Shape, Records
<1>5. \A x \in Rechecks' : ActiveAt(x)' => ActiveAt(x)
  BY <1>2, <1>3 DEF ActiveAt
<1>6. \A x \in Frame : (Purgeable(x) => Purgeable(x)') /\ (Retired(x)' => Retired(x))
  BY <1>2 DEF Purgeable, Retired
<1>7. EpochsKept /\ PortKept
  BY <1>2, SameEpochs, SamePort
<1> QED BY <1>2, <1>3, <1>4, <1>5, <1>6, <1>7, CalmKept DEF OwnershipInv, Ending

(* Steps of the pages, the user and the daemon that the background does    *)
(* not see                                                                 *)
LEMMA StillKept ==
  ASSUME OwnershipInv, EpochsKept, PortKept,
         UNCHANGED <<toAddon, served, toDaemon, ready, owner, orphans, frames, ctl,
                     revoke, duty, removedTabs>>,
         granted \subseteq granted', granted' \subseteq Origin \X Device,
         link' \in [Bridge -> {"new", "up", "gone"}],
         \A b \in Bridge : link'[b] = "gone" => link[b] = "gone"
  PROVE  OwnershipInv'
<1>1. /\ Handlers' /\ LooksOn /\ RevokeToks' = RevokeToks
      /\ \A x \in Rechecks' : x \in Rechecks /\ ctl'[x] = ctl[x]
  BY NoTurn
<1>2. Records'
  BY DEF OwnershipInv, Shape, Records
<1>3. \A x \in Rechecks' : ActiveAt(x)' => ActiveAt(x)
  BY <1>1 DEF ActiveAt
<1>4. \A x \in Frame : BridgeOf[x] \in Bridge
  BY ShapeAssumption
<1>5. \A x \in Frame : (Purgeable(x) => Purgeable(x)') /\ (Retired(x)' => Retired(x))
  BY <1>4 DEF Purgeable, Retired
<1>6. \A f \in DOMAIN frames' : link'[BridgeOf[f]] = "gone" => frames'[f] = "retired"
  BY <1>4 DEF OwnershipInv, Ending, Shape, Records
<1> QED BY <1>1, <1>2, <1>3, <1>5, <1>6, CalmKept

LEMMA WorldKept ==
  ASSUME OwnershipInv,
         \/ \E o \in Origin, d \in Device : Pair(o, d)
         \/ \E b \in Bridge : BridgeUp(b)
         \/ \E f \in Frame : FrameDies(f)
         \/ \E f \in Frame, d \in Device : Notice(f, d)
         \/ DaemonEof \/ Connect
         \/ \E d \in Device : DeviceGone(d) \/ DeviceBack(d)
         \/ UNCHANGED vars
  PROVE  OwnershipInv'
<1> USE DEF bgVars, loopVars, portVars, bridgeVars, daemonVars
<1>0. granted \subseteq Origin \X Device /\ link \in [Bridge -> {"new", "up", "gone"}]
  BY DEF OwnershipInv, Shape, Records
<1>1. CASE \E o \in Origin, d \in Device : Pair(o, d)
  <2> PICK o \in Origin : \E d \in Device : Pair(o, d)
    BY <1>1
  <2> PICK d \in Device : Pair(o, d)
    OBVIOUS
  <2>1. EpochsKept /\ PortKept
    BY SameEpochs, SamePort DEF Pair
  <2> QED BY <1>0, <2>1, StillKept DEF Pair
<1>2. CASE \E b \in Bridge : BridgeUp(b)
  <2> PICK b \in Bridge : BridgeUp(b)
    BY <1>2
  <2>1. EpochsKept /\ PortKept
    BY SameEpochs, SamePort DEF BridgeUp
  <2>2. link' \in [Bridge -> {"new", "up", "gone"}] /\ \A x \in Bridge : link'[x] = "gone" => link[x] = "gone"
    BY <1>0 DEF BridgeUp
  <2> QED BY <1>0, <2>1, <2>2, StillKept DEF BridgeUp
<1>3. CASE \E f \in Frame : FrameDies(f)
  <2>1. EpochsKept /\ PortKept
    BY <1>3, SameEpochs, SamePort DEF FrameDies
  <2> QED BY <1>0, <1>3, <2>1, StillKept DEF FrameDies
<1>4. CASE \E f \in Frame, d \in Device : Notice(f, d)
  <2>1. EpochsKept /\ PortKept
    BY <1>4, SameEpochs, SamePort DEF Notice
  <2> QED BY <1>0, <1>4, <2>1, StillKept DEF Notice
<1>5. CASE DaemonEof
  <2>1. EpochsKept /\ PortKept
    BY <1>5, DropEpochs, SamePort DEF DaemonEof
  <2> QED BY <1>0, <1>5, <2>1, StillKept DEF DaemonEof
<1>6. CASE \E d \in Device : DeviceGone(d) \/ DeviceBack(d)
  <2>1. EpochsKept /\ PortKept
    BY <1>6, DropEpochs, SameEpochs, SamePort DEF DeviceGone, DeviceBack
  <2> QED BY <1>0, <1>6, <2>1, StillKept DEF DeviceGone, DeviceBack
<1>7. CASE UNCHANGED vars
  <2>1. EpochsKept /\ PortKept
    BY <1>7, SameEpochs, SamePort DEF vars
  <2> QED BY <1>0, <1>7, <2>1, StillKept DEF vars
<1>8. CASE Connect
  <2>1. EpochsKept
    BY <1>8, SameEpochs DEF Connect
  <2>2. PortKept
    BY <1>8 DEF PortKept, Connect
  <2> QED BY <1>0, <1>8, <2>1, <2>2, StillKept DEF Connect
<1> QED BY <1>1, <1>2, <1>3, <1>4, <1>5, <1>6, <1>7, <1>8

LEMMA RevokeStartKept ==
  ASSUME OwnershipInv, NEW r \in Revoker, NEW o \in Origin, NEW D \in SUBSET Device,
         RevokeStart(r, o, D)
  PROVE  OwnershipInv'
<1> DEFINE rev == [pc |-> "ungrant", origin |-> o, todo |-> D, dev |-> None, toks |-> {}]
<1>1. /\ revoke' = [revoke EXCEPT ![r] = rev] /\ revoke[r].pc = "idle"
      /\ UNCHANGED <<bgVars, ctl, portVars, toAddon, losses, timeouts, bridgeVars, daemonVars>>
  BY DEF RevokeStart
<1>2. UNCHANGED <<toAddon, served, toDaemon, ready, port, epoch, owner, orphans, duty, removedTabs,
                  link, granted, ctl, opened, frames>>
  BY <1>1 DEF bgVars, portVars, bridgeVars, daemonVars
<1>3. rev \in RevokeRec /\ rev.toks = {}
  BY DEF RevokeRec
<1> HIDE DEF rev
<1>4. revoke \in [Revoker -> RevokeRec] /\ revoke[r].toks = {}
  BY <1>1 DEF OwnershipInv, Shape, Records, Handlers
<1>5. /\ revoke' \in [Revoker -> RevokeRec] /\ revoke'[r].toks = {}
      /\ \A x \in Revoker : x # r => revoke'[x] = revoke[x]
  BY <1>1, <1>3, <1>4
<1>6. RevokeToks' = RevokeToks
  BY <1>4, <1>5 DEF RevokeToks
<1>7. Records' /\ Handlers' /\ LooksOn /\ \A x \in Rechecks' : ActiveAt(x)' => ActiveAt(x)
  BY <1>2, <1>5 DEF OwnershipInv, Shape, Records, Handlers, LooksOn, Rechecks, ActiveAt
<1>8. \A x \in Frame : (Purgeable(x) => Purgeable(x)') /\ (Retired(x)' => Retired(x))
  BY <1>2 DEF Purgeable, Retired
<1>9. EpochsKept /\ PortKept
  BY <1>2, SameEpochs, SamePort
<1> QED BY <1>2, <1>6, <1>7, <1>8, <1>9, CalmKept DEF OwnershipInv, Ending

---------------------------------------------------------------------------
(* Steps that send requests *)

(* ... and change no grant, frame or revocation *)
LEMMA SendPlain ==
  ASSUME OwnershipInv,
         UNCHANGED <<toAddon, served, owner, orphans, opened, granted, frames, link, removedTabs,
                     revoke>>,
         duty' \subseteq duty, ctl' \in [Bridge -> CtlRec], Handlers', LooksOn,
         \A x \in Rechecks' : x \in Rechecks /\ ctl'[x] = ctl[x],
         NEW calls \in Seq(Calls), Send(calls, ready), NEW T,
         \A c \in Range(calls) : c.status = "none" /\ c.live /\ c.why # "purge",
         \A c \in Range(calls) : c.op = "close" => c.tok \in Known \cup T
                                                     /\ c.owned = (c.tok \in DOMAIN owner),
         T \cap Offered = {}, \A b \in Rechecks' : ctl'[b].tok \notin T
  PROVE  OwnershipInv'
<1>1. Records'
  BY DEF OwnershipInv, Shape, Records
<1>2. DutyToks' \subseteq Known
  BY DEF DutyToks, Known
<1>3. RevokeToks' = RevokeToks /\ RevokeToks \subseteq Known
  BY DEF RevokeToks, Known
<1>4. \A b \in Rechecks' : ActiveAt(b)' => ActiveAt(b)
  BY DEF ActiveAt
<1>5. \A f \in Frame : (Purgeable(f) => Purgeable(f)') /\ (Retired(f)' => Retired(f))
  BY DEF Purgeable, Retired
<1>6. \A t \in DOMAIN owner : Ungranted(t)' => Ungranted(t)
  BY DEF Ungranted
<1>7. /\ \A f \in DOMAIN frames' : link'[BridgeOf[f]] = "gone" => frames'[f] = "retired"
      /\ \A t \in DOMAIN owner : owner[t].frame \in DOMAIN frames'
                                    \/ TabOfFrame(owner[t].frame) \in removedTabs'
  BY DEF OwnershipInv, Ending
<1>8. \A c \in Range(calls), f \in Frame :
        (c.why = "purge" /\ c.tok \in DOMAIN owner /\ f = owner[c.tok].frame) => Purgeable(f)'
  OBVIOUS
<1> QED BY <1>1, <1>2, <1>3, <1>4, <1>5, <1>6, <1>7, <1>8, SendKept

(* ... or closes only sessions that are known *)
LEMMA SendKnown ==
  ASSUME OwnershipInv,
         UNCHANGED <<toAddon, served, owner, orphans, opened, granted, frames, link, removedTabs,
                     revoke>>,
         duty' \subseteq duty, ctl' \in [Bridge -> CtlRec], Handlers', LooksOn,
         \A x \in Rechecks' : x \in Rechecks /\ ctl'[x] = ctl[x],
         NEW calls \in Seq(Calls), Send(calls, ready),
         \A c \in Range(calls) : c.status = "none" /\ c.live /\ c.why # "purge",
         \A c \in Range(calls) : c.op = "close" => c.tok \in Known
                                                     /\ c.owned = (c.tok \in DOMAIN owner)
  PROVE  OwnershipInv'
<1> DEFINE T == {}
<1>1. T \cap Offered = {} /\ \A x \in Rechecks' : ctl'[x].tok \notin T
  OBVIOUS
<1>2. \A c \in Range(calls) : c.op = "close" => c.tok \in Known \cup T
                                                     /\ c.owned = (c.tok \in DOMAIN owner)
  OBVIOUS
<1> HIDE DEF T
<1> QED BY <1>1, <1>2, SendPlain

LEMMA OpenSendKept ==
  ASSUME OwnershipInv, NEW b \in Bridge, OpenSend(b)
  PROVE  OwnershipInv'
<1> DEFINE e == Call("open", ctl[b].dev, None, "open", b, FALSE)
           c == [ctl[b] EXCEPT !.pc = "opening"]
           calls == <<e>>
<1>1. /\ ctl[b].pc = "grant" /\ ctl' = [ctl EXCEPT ![b].pc = "opening"]
      /\ Send(calls, ready)
      /\ UNCHANGED <<bgVars, revoke, toAddon, losses, timeouts, bridgeVars, daemonVars>>
  BY DEF OpenSend
<1>2. UNCHANGED <<toAddon, served, owner, orphans, opened, granted, frames, link, removedTabs,
                  revoke, duty>>
  BY <1>1 DEF bgVars, bridgeVars, daemonVars
<1>3. ctl \in [Bridge -> CtlRec] /\ ctl[b] \in CtlRec
  BY DEF OwnershipInv, Shape, Records
<1>4. c \in CtlRec /\ c.pc = "opening" /\ c.frame = ctl[b].frame
  BY <1>3 DEF CtlRec
<1>5. ctl' = [ctl EXCEPT ![b] = c]
  BY <1>1, <1>3
<1>6. /\ e.op = "open" /\ e.live = TRUE /\ e.status = "none" /\ e.why = "open"
      /\ e \in Calls
  <2>1. ctl[b].dev \in Device \cup {None}
    BY <1>3 DEF CtlRec
  <2> QED BY <2>1 DEF Call, Calls, Whys
<1> HIDE DEF e, c
<1>7. calls \in Seq(Calls) /\ Range(calls) = {e}
  BY <1>6, OneCall
<1> HIDE DEF calls
<1>8. c.frame # None => BridgeOf[c.frame] = b
  BY <1>4 DEF OwnershipInv, Handlers
<1>9. /\ ctl' \in [Bridge -> CtlRec] /\ Handlers' /\ LooksOn
      /\ \A x \in Rechecks' : x \in Rechecks /\ x # b /\ ctl'[x] = ctl[x]
  BY <1>2, <1>4, <1>5, <1>8, Turn
<1>10. /\ \A x \in Range(calls) : x.status = "none" /\ x.live /\ x.why # "purge"
       /\ \A x \in Range(calls) : x.op = "close" => x.tok \in Known
                                                     /\ x.owned = (x.tok \in DOMAIN owner)
  BY <1>6, <1>7
<1> QED BY <1>1, <1>2, <1>7, <1>9, <1>10, SendKnown

LEMMA OpenCleanupKept ==
  ASSUME OwnershipInv, NEW b \in Bridge, OpenCleanup(b)
  PROVE  OwnershipInv'
<1> DEFINE e == Cleanup(ctl[b].dev, ctl[b].tok, "late", b)
           c == [ctl[b] EXCEPT !.pc = "late"]
           calls == <<e>>
           T == {ctl[b].tok}
<1>1. /\ ctl[b].pc = "recheck" /\ ctl' = [ctl EXCEPT ![b].pc = "late"]
      /\ Send(calls, ready)
      /\ UNCHANGED <<bgVars, revoke, toAddon, losses, timeouts, bridgeVars, daemonVars>>
  BY DEF OpenCleanup
<1>2. UNCHANGED <<toAddon, served, owner, orphans, opened, granted, frames, link, removedTabs,
                  revoke, duty>>
  BY <1>1 DEF bgVars, bridgeVars, daemonVars
<1>3. /\ ctl \in [Bridge -> CtlRec] /\ ctl[b] \in CtlRec /\ ctl[b].tok \in Token
      /\ b \in Rechecks
  BY <1>1 DEF OwnershipInv, Shape, Records, Handlers, Rechecks
<1>4. c \in CtlRec /\ c.pc = "late" /\ c.frame = ctl[b].frame
  BY <1>3 DEF CtlRec
<1>5. ctl' = [ctl EXCEPT ![b] = c]
  BY <1>1, <1>3
<1>6. /\ e.op = "close" /\ e.live = TRUE /\ e.status = "none" /\ e.why = "late"
      /\ e.tok = ctl[b].tok /\ e.owned = (ctl[b].tok \in DOMAIN owner) /\ e \in Calls
  <2>1. ctl[b].dev \in Device \cup {None}
    BY <1>3 DEF CtlRec
  <2> QED BY <1>3, <2>1 DEF Cleanup, Call, Calls, Whys
<1> HIDE DEF e, c
<1>7. calls \in Seq(Calls) /\ Range(calls) = {e}
  BY <1>6, OneCall
<1> HIDE DEF calls
<1>8. c.frame # None => BridgeOf[c.frame] = b
  BY <1>4 DEF OwnershipInv, Handlers
<1>9. /\ ctl' \in [Bridge -> CtlRec] /\ Handlers' /\ LooksOn
      /\ \A x \in Rechecks' : x \in Rechecks /\ x # b /\ ctl'[x] = ctl[x]
  BY <1>2, <1>4, <1>5, <1>8, Turn
<1>10. /\ \A x \in Range(calls) : x.status = "none" /\ x.live /\ x.why # "purge"
       /\ \A x \in Range(calls) : x.op = "close" => x.tok \in Known \cup T
                                                     /\ x.owned = (x.tok \in DOMAIN owner)
  BY <1>6, <1>7
<1>11. T \cap Offered = {} /\ \A x \in Rechecks' : ctl'[x].tok \notin T
  BY <1>3, <1>9 DEF OwnershipInv, Fresh
<1> HIDE DEF T
<1> QED BY <1>1, <1>2, <1>7, <1>9, <1>10, <1>11, SendPlain

LEMMA CloseRequestKept ==
  ASSUME OwnershipInv, NEW f \in Frame, NEW d \in Device, CloseRequest(f, d)
  PROVE  OwnershipInv'
<1> DEFINE b == BridgeOf[f]
           t == held[f][d]
           e == Call("close", d, t, "close", b, TRUE)
           c == [Idle EXCEPT !.pc = "closing", !.frame = f, !.dev = d, !.tok = t]
           calls == <<e>>
<1>1. /\ OwnedByFrame(t, f, d) /\ ctl' = [ctl EXCEPT ![b] = c]
      /\ Send(calls, ready)
      /\ UNCHANGED <<bgVars, revoke, toAddon, losses, timeouts, bridgeVars, daemonVars>>
  BY DEF CloseRequest
<1>2. UNCHANGED <<toAddon, served, owner, orphans, opened, granted, frames, link, removedTabs,
                  revoke, duty>>
  BY <1>1 DEF bgVars, bridgeVars, daemonVars
<1>3. t \in DOMAIN owner /\ t \in Token /\ b \in Bridge
  BY <1>1, ShapeAssumption DEF OwnershipInv, Shape, Records, OwnedByFrame
<1> HIDE DEF t
<1>4. c \in CtlRec /\ c.pc = "closing" /\ c.frame = f
  BY <1>3 DEF CtlRec, Idle
<1>6. /\ e.op = "close" /\ e.live = TRUE /\ e.status = "none" /\ e.why = "close"
      /\ e.tok = t /\ e.owned = TRUE /\ e \in Calls
  BY <1>3 DEF Call, Calls, Whys
<1> HIDE DEF e, c
<1>7. calls \in Seq(Calls) /\ Range(calls) = {e}
  BY <1>6, OneCall
<1> HIDE DEF calls
<1>9. /\ ctl' \in [Bridge -> CtlRec] /\ Handlers' /\ LooksOn
      /\ \A x \in Rechecks' : x \in Rechecks /\ x # b /\ ctl'[x] = ctl[x]
  BY <1>1, <1>2, <1>3, <1>4, Turn
<1>10. /\ \A x \in Range(calls) : x.status = "none" /\ x.live /\ x.why # "purge"
       /\ \A x \in Range(calls) : x.op = "close" => x.tok \in Known
                                                     /\ x.owned = (x.tok \in DOMAIN owner)
  BY <1>3, <1>6, <1>7 DEF Known
<1> QED BY <1>1, <1>2, <1>7, <1>9, <1>10, SendKnown

LEMMA CleanupSessionKept ==
  ASSUME OwnershipInv, NEW b \in Bridge, NEW f \in Frame, NEW d \in Device, NEW t \in Token,
         CleanupSession(b, f, d, t)
  PROVE  OwnershipInv'
<1> DEFINE e == Cleanup(d, t, "cleanup", b)
           c == [Idle EXCEPT !.pc = "cleaning"]
           calls == <<e>>
<1>1. /\ <<f, d, t>> \in duty /\ duty' = duty \ {<<f, d, t>>} /\ ctl' = [ctl EXCEPT ![b] = c]
      /\ Send(calls, ready)
      /\ UNCHANGED <<bgVars, revoke, toAddon, losses, timeouts, link, frameState, held, removedTabs,
                   daemonVars>>
  BY DEF CleanupSession
<1>2. UNCHANGED <<toAddon, served, owner, orphans, opened, granted, frames, link, removedTabs, revoke>>
  BY <1>1 DEF bgVars, daemonVars
<1>3. t \in DutyToks
  <2>1. <<f, d, t>>[3] = t
    OBVIOUS
  <2> QED BY <1>1, <2>1 DEF DutyToks
<1>4. c \in CtlRec /\ c.pc = "cleaning" /\ c.frame = None
  BY DEF CtlRec, Idle
<1>6. /\ e.op = "close" /\ e.live = TRUE /\ e.status = "none" /\ e.why = "cleanup"
      /\ e.tok = t /\ e.owned = (t \in DOMAIN owner) /\ e \in Calls
  BY DEF Cleanup, Call, Calls, Whys
<1> HIDE DEF e, c
<1>7. calls \in Seq(Calls) /\ Range(calls) = {e}
  BY <1>6, OneCall
<1> HIDE DEF calls
<1>9. /\ ctl' \in [Bridge -> CtlRec] /\ Handlers' /\ LooksOn
      /\ \A x \in Rechecks' : x \in Rechecks /\ x # b /\ ctl'[x] = ctl[x]
  BY <1>1, <1>2, <1>4, Turn
<1>10. /\ \A x \in Range(calls) : x.status = "none" /\ x.live /\ x.why # "purge"
       /\ \A x \in Range(calls) : x.op = "close" => x.tok \in Known
                                                     /\ x.owned = (x.tok \in DOMAIN owner)
  BY <1>3, <1>6, <1>7 DEF Known
<1>11. duty' \subseteq duty
  BY <1>1
<1> QED BY <1>1, <1>2, <1>7, <1>9, <1>10, <1>11, SendKnown

---------------------------------------------------------------------------
(* Purges *)

(* The elements of a finite set, one after the other *)
LEMMA SeqOfSet ==
  ASSUME NEW S, IsFiniteSet(S), NEW q \in SetToSeqs(S)
  PROVE  q \in Seq(S) /\ Range(q) = S
<1> DEFINE n == Cardinality(S)
<1>1. n \in Nat
  BY FS_CardinalityType
<1>2. q \in [1..n -> S] /\ \A i, j \in 1..n : i # j => q[i] # q[j]
  BY DEF SetToSeqs
<1>3. q \in Injection(1..n, S)
  BY <1>2 DEF Injection, IsInjective
<1>4. Cardinality(1..n) = n
  BY <1>1, FS_Interval
<1>5. q \in Surjection(1..n, S)
  BY <1>3, <1>4, FS_Injection
<1>6. \A t \in S : \E i \in 1..n : q[i] = t
  BY <1>5 DEF Surjection
<1>7. DOMAIN q = 1..n
  BY <1>2
<1>8. Range(q) = S
  BY <1>2, <1>6, <1>7 DEF Range
<1>9. q \in Seq(S)
  BY <1>1, <1>2
<1> QED BY <1>8, <1>9

LEMMA CleanupsAre ==
  ASSUME Shape, NEW S \in SUBSET DOMAIN owner, NEW by \in Bridge \cup {None},
         NEW calls \in Cleanups(S, "purge", by)
  PROVE  /\ calls \in Seq(Calls)
         /\ \A c \in Range(calls) : /\ c.op = "close" /\ c.live /\ c.status = "none"
                                    /\ c.why = "purge" /\ c.tok \in S /\ c.owned = TRUE
         /\ \A t \in S : Sent(Range(calls), t)
<1> DEFINE C(t) == Cleanup(owner[t].dev, t, "purge", by)
<1>1. PICK q \in SetToSeqs(S) : calls = [i \in DOMAIN q |-> C(q[i])]
  BY DEF Cleanups
<1>2. IsFiniteSet(S)
  BY FS_Subset DEF Shape, Records
<1>3. q \in Seq(S) /\ Range(q) = S
  BY <1>2, SeqOfSet
<1>4. \A t \in S : /\ C(t) \in Calls /\ C(t).op = "close" /\ C(t).live /\ C(t).status = "none"
                   /\ C(t).why = "purge" /\ C(t).tok = t /\ C(t).owned = TRUE
  <2> SUFFICES ASSUME NEW t \in S
               PROVE  /\ C(t) \in Calls /\ C(t).op = "close" /\ C(t).live /\ C(t).status = "none"
                      /\ C(t).why = "purge" /\ C(t).tok = t /\ C(t).owned = TRUE
    OBVIOUS
  <2>1. t \in Token /\ t \in DOMAIN owner /\ owner[t].dev \in Device
    BY DEF Shape, Records, OwnerRec
  <2> QED BY <2>1 DEF Cleanup, Call, Calls, Whys
<1> HIDE DEF C
<1>5. DOMAIN q = 1..Len(q) /\ Len(q) \in Nat /\ \A i \in DOMAIN q : q[i] \in S
  BY <1>3
<1>6. calls \in Seq(Calls) /\ DOMAIN calls = DOMAIN q /\ \A i \in DOMAIN q : calls[i] = C(q[i])
  <2>1. calls \in [1..Len(q) -> Calls]
    BY <1>1, <1>4, <1>5
  <2> QED BY <1>1, <1>5, <2>1
<1>7. \A c \in Range(calls) : \E t \in S : c = C(t)
  BY <1>5, <1>6 DEF Range
<1>8. \A t \in S : C(t) \in Range(calls)
  <2> SUFFICES ASSUME NEW t \in S PROVE C(t) \in Range(calls)
    OBVIOUS
  <2>1. PICK i \in DOMAIN q : q[i] = t
    BY <1>3 DEF Range
  <2> QED BY <1>6, <2>1 DEF Range
<1>9. \A c \in Range(calls) : /\ c.op = "close" /\ c.live /\ c.status = "none"
                              /\ c.why = "purge" /\ c.tok \in S /\ c.owned = TRUE
  BY <1>4, <1>7
<1>10. \A t \in S : Sent(Range(calls), t)
  BY <1>4, <1>8 DEF Sent
<1> QED BY <1>6, <1>9, <1>10

(* The sessions S are purged: their frames are gone. *)
LEMMA PurgeKept ==
  ASSUME OwnershipInv, NEW S \in SUBSET DOMAIN owner, NEW by \in Bridge \cup {None},
         NEW calls \in Cleanups(S, "purge", by), Send(calls, ready),
         UNCHANGED <<toAddon, served, owner, orphans, opened, granted>>,
         duty' \subseteq duty, Records', Handlers', LooksOn, RevokeToks' = RevokeToks,
         \A b \in Rechecks' : ActiveAt(b)' => ActiveAt(b),
         \A t \in S, f \in Frame : f = owner[t].frame => Purgeable(f)',
         \A f \in Frame : Purgeable(f) => Purgeable(f)',
         \A t \in DOMAIN owner, f \in Frame :
           (owner[t].frame = f /\ Retired(f)') => Retired(f) \/ t \in S,
         \A f \in DOMAIN frames' : link'[BridgeOf[f]] = "gone" => frames'[f] = "retired",
         \A t \in DOMAIN owner : owner[t].frame \in DOMAIN frames'
                                    \/ TabOfFrame(owner[t].frame) \in removedTabs'
  PROVE  OwnershipInv'
<1> DEFINE T == {}
<1>1. /\ calls \in Seq(Calls)
      /\ \A c \in Range(calls) : /\ c.op = "close" /\ c.live /\ c.status = "none"
                                 /\ c.why = "purge" /\ c.tok \in S /\ c.owned = TRUE
      /\ \A t \in S : Sent(Range(calls), t)
  BY CleanupsAre DEF OwnershipInv
<1>2. T \cap Offered = {} /\ \A x \in Rechecks' : ctl'[x].tok \notin T
  OBVIOUS
<1>3. \A c \in Range(calls) : c.op = "close" => c.tok \in Known \cup T
                                                     /\ c.owned = (c.tok \in DOMAIN owner)
  BY <1>1 DEF Known
<1> HIDE DEF T
<1>4. DutyToks' \subseteq Known /\ RevokeToks' \subseteq Known
  BY DEF Known, DutyToks
<1>5. \A c \in Range(calls), f \in Frame :
        (c.why = "purge" /\ c.tok \in DOMAIN owner /\ f = owner[c.tok].frame) => Purgeable(f)'
  BY <1>1
<1>6. \A t \in DOMAIN owner, f \in Frame :
        (owner[t].frame = f /\ Retired(f)') => Retired(f) \/ Sent(Range(calls), t)
  BY <1>1
<1>7. \A t \in DOMAIN owner : Ungranted(t)' => Ungranted(t)
  BY DEF Ungranted
<1>8. \A c \in Range(calls) : c.status = "none" /\ c.live
  BY <1>1
<1> QED BY <1>1, <1>2, <1>3, <1>4, <1>5, <1>6, <1>7, <1>8, SendKept

LEMMA FrameDestroyedKept ==
  ASSUME OwnershipInv, NEW f \in Frame, FrameDestroyed(f)
  PROVE  OwnershipInv'
<1> DEFINE b == BridgeOf[f]
           S == {t \in DOMAIN owner : owner[t].frame = f}
           c == IF S = {} THEN Idle ELSE [Idle EXCEPT !.pc = "purging", !.n = Cardinality(S)]
<1>1. /\ frames' = Put(frames, f, "retired") /\ ctl' = [ctl EXCEPT ![b] = c]
      /\ UNCHANGED <<granted, owner, orphans, revoke, toAddon, losses, timeouts, link, held, duty,
                     removedTabs, daemonVars>>
  BY DEF FrameDestroyed
<1>2. PICK calls \in Cleanups(S, "purge", b) : Send(calls, ready)
  BY DEF FrameDestroyed
<1>3. UNCHANGED <<toAddon, served, owner, orphans, opened, granted, revoke, duty, link, removedTabs>>
  BY <1>1 DEF daemonVars
<1>4. b \in Bridge /\ S \in SUBSET DOMAIN owner
  BY ShapeAssumption
<1>5. c \in CtlRec /\ c.pc # "recheck" /\ c.frame = None
  <2>1. IsFiniteSet(S)
    BY FS_Subset DEF OwnershipInv, Shape, Records
  <2>2. Cardinality(S) \in Nat
    BY <2>1, FS_CardinalityType
  <2> QED BY <2>2, IdleIs DEF CtlRec, Idle
<1>6. /\ DOMAIN frames' = DOMAIN frames \cup {f} /\ frames'[f] = "retired"
      /\ \A x \in DOMAIN frames : x # f => frames'[x] = frames[x]
  <2>1. /\ DOMAIN Put(frames, f, "retired") = DOMAIN frames \cup {f}
        /\ Put(frames, f, "retired")[f] = "retired"
        /\ \A x \in DOMAIN frames : x # f => Put(frames, f, "retired")[x] = frames[x]
    BY DEF Put
  <2> QED BY <1>1, <2>1
<1> HIDE DEF c
<1>7. /\ ctl' \in [Bridge -> CtlRec] /\ Handlers' /\ LooksOn /\ RevokeToks' = RevokeToks
      /\ \A x \in Rechecks' : x \in Rechecks /\ x # b /\ ctl'[x] = ctl[x]
  BY <1>1, <1>3, <1>4, <1>5, Turn
<1>8. Records'
  BY <1>3, <1>6, <1>7 DEF OwnershipInv, Shape, Records
<1>9. \A x \in Rechecks' : ActiveAt(x)' => ActiveAt(x)
  BY <1>6, <1>7 DEF ActiveAt
<1>10. \A t \in S, g \in Frame : g = owner[t].frame => Purgeable(g)'
  BY <1>6 DEF Purgeable
<1>11. \A g \in Frame : Purgeable(g) => Purgeable(g)'
  BY <1>3, <1>6 DEF Purgeable
<1>12. \A t \in DOMAIN owner, g \in Frame :
         (owner[t].frame = g /\ Retired(g)') => Retired(g) \/ t \in S
  BY <1>3, <1>6 DEF Retired
<1>13. \A g \in DOMAIN frames' : link'[BridgeOf[g]] = "gone" => frames'[g] = "retired"
  BY <1>3, <1>6 DEF OwnershipInv, Ending
<1>14. \A t \in DOMAIN owner : owner[t].frame \in DOMAIN frames'
                                    \/ TabOfFrame(owner[t].frame) \in removedTabs'
  BY <1>3, <1>6 DEF OwnershipInv, Ending
<1> HIDE DEF S, b
<1> QED BY <1>2, <1>3, <1>4, <1>7, <1>8, <1>9, <1>10, <1>11, <1>12, <1>13, <1>14, PurgeKept

LEMMA BridgeGoneKept ==
  ASSUME OwnershipInv, NEW b \in Bridge, BridgeGone(b)
  PROVE  OwnershipInv'
<1> DEFINE S == {t \in DOMAIN owner : BridgeOf[owner[t].frame] = b}
<1>1. /\ link' = [link EXCEPT ![b] = "gone"]
      /\ frames' = [f \in DOMAIN frames |-> IF BridgeOf[f] = b THEN "retired" ELSE frames[f]]
      /\ duty' = {k \in duty : BridgeOf[k[1]] # b}
      /\ UNCHANGED <<granted, owner, orphans, loopVars, toAddon, losses, timeouts, frameState,
                       held, removedTabs, daemonVars>>
  BY DEF BridgeGone
<1>2. PICK calls \in Cleanups(S, "purge", None) : Send(calls, ready)
  BY DEF BridgeGone
<1>3. UNCHANGED <<toAddon, served, owner, orphans, opened, granted, revoke, ctl, removedTabs>>
  BY <1>1 DEF daemonVars, loopVars
<1>4. S \in SUBSET DOMAIN owner /\ None \in Bridge \cup {None}
  OBVIOUS
<1>5. /\ link \in [Bridge -> {"new", "up", "gone"}] /\ link' \in [Bridge -> {"new", "up", "gone"}]
      /\ link'[b] = "gone" /\ \A x \in Bridge : x # b => link'[x] = link[x]
      /\ duty' \subseteq duty
  BY <1>1 DEF OwnershipInv, Shape, Records
<1>6. /\ DOMAIN frames' = DOMAIN frames
      /\ \A x \in DOMAIN frames : frames'[x] = IF BridgeOf[x] = b THEN "retired" ELSE frames[x]
  BY <1>1
<1>7. /\ Handlers' /\ LooksOn /\ RevokeToks' = RevokeToks
      /\ \A x \in Rechecks' : x \in Rechecks /\ ctl'[x] = ctl[x]
  BY <1>3, NoTurn
<1>8. Records'
  BY <1>3, <1>5, <1>6 DEF OwnershipInv, Shape, Records
<1>9. \A x \in Rechecks' : ActiveAt(x)' => ActiveAt(x)
  BY <1>6, <1>7 DEF ActiveAt
<1>10. \A t \in S, g \in Frame : g = owner[t].frame => Purgeable(g)'
  <2> SUFFICES ASSUME NEW t \in S, NEW g \in Frame, g = owner[t].frame PROVE Purgeable(g)'
    OBVIOUS
  <2>1. BridgeOf[g] = b /\ (g \in DOMAIN frames \/ TabOfFrame(g) \in removedTabs)
    BY DEF OwnershipInv, Ending
  <2> QED BY <1>3, <1>6, <2>1 DEF Purgeable
<1>11. \A g \in Frame : Purgeable(g) => Purgeable(g)'
  BY <1>3, <1>6 DEF Purgeable
<1>12. \A t \in DOMAIN owner, g \in Frame :
         (owner[t].frame = g /\ Retired(g)') => Retired(g) \/ t \in S
  <2>1. \A g \in Frame : BridgeOf[g] \in Bridge
    BY ShapeAssumption
  <2> QED BY <1>5, <1>6, <2>1 DEF Retired
<1>13. \A g \in DOMAIN frames' : link'[BridgeOf[g]] = "gone" => frames'[g] = "retired"
  <2>1. \A g \in DOMAIN frames : BridgeOf[g] \in Bridge
    BY ShapeAssumption DEF OwnershipInv, Shape, Records
  <2> QED BY <1>5, <1>6, <2>1 DEF OwnershipInv, Ending
<1>14. \A t \in DOMAIN owner : owner[t].frame \in DOMAIN frames'
                                    \/ TabOfFrame(owner[t].frame) \in removedTabs'
  BY <1>3, <1>6 DEF OwnershipInv, Ending
<1> HIDE DEF S
<1> QED BY <1>2, <1>3, <1>4, <1>5, <1>7, <1>8, <1>9, <1>10, <1>11, <1>12, <1>13, <1>14, PurgeKept

LEMMA TabRemovedKept ==
  ASSUME OwnershipInv, NEW tab \in Tab, TabRemoved(tab)
  PROVE  OwnershipInv'
<1> DEFINE S == {t \in DOMAIN owner : TabOfFrame(owner[t].frame) = tab}
           G == {f \in Frame : TabOfFrame(f) = tab}
<1>1. /\ removedTabs' = removedTabs \cup {tab} /\ frames' = Drop(frames, G)
      /\ UNCHANGED <<granted, owner, orphans, loopVars, toAddon, losses, timeouts, link,
                       frameState, held, duty, daemonVars>>
  BY DEF TabRemoved
<1>2. PICK calls \in Cleanups(S, "purge", None) : Send(calls, ready)
  BY DEF TabRemoved
<1>3. UNCHANGED <<toAddon, served, owner, orphans, opened, granted, revoke, ctl, link, duty>>
  BY <1>1 DEF daemonVars, loopVars
<1>4. S \in SUBSET DOMAIN owner /\ None \in Bridge \cup {None}
  OBVIOUS
<1>6. /\ DOMAIN frames' = DOMAIN frames \ G
      /\ \A x \in DOMAIN frames' : frames'[x] = frames[x]
  <2>1. /\ DOMAIN Drop(frames, G) = DOMAIN frames \ G
        /\ \A x \in DOMAIN frames \ G : Drop(frames, G)[x] = frames[x]
    BY DropAt
  <2> QED BY <1>1, <2>1
<1>7. /\ Handlers' /\ LooksOn /\ RevokeToks' = RevokeToks
      /\ \A x \in Rechecks' : x \in Rechecks /\ ctl'[x] = ctl[x]
  BY <1>3, NoTurn
<1>8. Records'
  BY <1>3, <1>6 DEF OwnershipInv, Shape, Records
<1>9. \A x \in Rechecks' : ActiveAt(x)' => ActiveAt(x)
  BY <1>6, <1>7 DEF ActiveAt
<1>10. \A t \in S, g \in Frame : g = owner[t].frame => Purgeable(g)'
  BY <1>1 DEF Purgeable
<1>11. \A g \in Frame : Purgeable(g) => Purgeable(g)'
  BY <1>1, <1>6 DEF Purgeable
<1>12. \A t \in DOMAIN owner, g \in Frame :
         (owner[t].frame = g /\ Retired(g)') => Retired(g) \/ t \in S
  BY <1>3, <1>6 DEF Retired
<1>13. \A g \in DOMAIN frames' : link'[BridgeOf[g]] = "gone" => frames'[g] = "retired"
  BY <1>3, <1>6 DEF OwnershipInv, Ending
<1>14. \A t \in DOMAIN owner : owner[t].frame \in DOMAIN frames'
                                    \/ TabOfFrame(owner[t].frame) \in removedTabs'
  BY <1>1, <1>6 DEF OwnershipInv, Ending
<1> HIDE DEF S
<1> QED BY <1>2, <1>3, <1>4, <1>7, <1>8, <1>9, <1>10, <1>11, <1>12, <1>13, <1>14, PurgeKept

LEMMA RetryOrphansKept ==
  ASSUME OwnershipInv, RetryOrphans
  PROVE  OwnershipInv'
<1> DEFINE S == DOMAIN orphans
           C(t) == Cleanup(orphans[t], t, "retry", None)
<1>1. PICK q \in SetToSeqs(S) : Send([i \in DOMAIN q |-> C(q[i])], ready)
  BY DEF RetryOrphans
<1> DEFINE calls == [i \in DOMAIN q |-> C(q[i])]
<1>2. UNCHANGED <<toAddon, served, owner, orphans, opened, granted, frames, link, removedTabs,
                  revoke, ctl, duty>>
  BY DEF RetryOrphans, bgVars, loopVars, bridgeVars, daemonVars
<1>3. q \in Seq(S) /\ Range(q) = S
  BY SeqOfSet DEF OwnershipInv, Shape, Records
<1>4. \A t \in S : /\ C(t) \in Calls /\ C(t).op = "close" /\ C(t).live /\ C(t).status = "none"
                   /\ C(t).why = "retry" /\ C(t).tok = t /\ C(t).owned = (t \in DOMAIN owner)
  <2> SUFFICES ASSUME NEW t \in S
               PROVE  /\ C(t) \in Calls /\ C(t).op = "close" /\ C(t).live /\ C(t).status = "none"
                      /\ C(t).why = "retry" /\ C(t).tok = t /\ C(t).owned = (t \in DOMAIN owner)
    OBVIOUS
  <2>1. t \in Token /\ orphans[t] \in Device \cup {None}
    BY DEF OwnershipInv, Shape, Records
  <2> QED BY <2>1 DEF Cleanup, Call, Calls, Whys
<1> HIDE DEF C
<1>5. DOMAIN q = 1..Len(q) /\ Len(q) \in Nat /\ \A i \in DOMAIN q : q[i] \in S
  BY <1>3
<1>6. calls \in Seq(Calls) /\ \A c \in Range(calls) : \E t \in S : c = C(t)
  <2>1. calls \in [1..Len(q) -> Calls]
    BY <1>4, <1>5
  <2>2. DOMAIN calls = DOMAIN q /\ \A i \in DOMAIN q : calls[i] = C(q[i])
    OBVIOUS
  <2> HIDE DEF calls
  <2> QED BY <1>5, <2>1, <2>2 DEF Range
<1>7. Send(calls, ready)
  BY <1>1
<1> HIDE DEF calls
<1>8. /\ \A x \in Range(calls) : x.status = "none" /\ x.live /\ x.why # "purge"
      /\ \A x \in Range(calls) : x.op = "close" => x.tok \in Known
                                                     /\ x.owned = (x.tok \in DOMAIN owner)
  <2>1. S \subseteq Known
    BY DEF Known
  <2> HIDE DEF S
  <2> QED BY <1>4, <1>6, <2>1
<1>9. /\ Handlers' /\ LooksOn
      /\ \A x \in Rechecks' : x \in Rechecks /\ ctl'[x] = ctl[x]
  BY <1>2, NoTurn
<1>10. ctl' \in [Bridge -> CtlRec]
  BY <1>2 DEF OwnershipInv, Shape, Records
<1> QED BY <1>2, <1>6, <1>7, <1>8, <1>9, <1>10, SendKnown


---------------------------------------------------------------------------
(* Revocations *)

(* What a revocation closes next: at most one of the tokens it collected.  *)
RevokeCalls(r, rev, own, calls) ==
  /\ calls \in Seq(Calls)
  /\ \A c \in Range(calls) : /\ c.op = "close" /\ c.live /\ c.status = "none" /\ c.why = "revoke"
                             /\ c.tok \in rev.toks /\ c.owned = (c.tok \in DOMAIN own)
  /\ revoke' \in [Revoker -> RevokeRec]
  /\ revoke'[r].toks \subseteq rev.toks
  /\ (revoke'[r].toks # {}) => (revoke'[r].pc = "closing")
  /\ \A x \in Revoker : (x # r) => (revoke'[x] = revoke[x])
  /\ \A t \in rev.toks : t \in revoke'[r].toks \/ Sent(Range(calls), t)

LEMMA RevokeNextIs ==
  ASSUME revoke \in [Revoker -> RevokeRec], NEW r \in Revoker, NEW rev \in RevokeRec,
         rev.toks \subseteq Token, NEW own, NEW rdy, RevokeNext(r, rev, own, rdy)
  PROVE  \E calls : RevokeCalls(r, rev, own, calls) /\ Send(calls, rdy)
<1>1. CASE \E t \in rev.toks :
             /\ revoke' = [revoke EXCEPT ![r] = [rev EXCEPT !.pc = "closing", !.toks = @ \ {t}]]
             /\ tabCount' = IF t \in DOMAIN own THEN Unregister({t}, own) ELSE tabCount
             /\ Send(<<Call("close", rev.dev, t, "revoke", r, t \in DOMAIN own)>>, rdy)
  <2> PICK t \in rev.toks :
             /\ revoke' = [revoke EXCEPT ![r] = [rev EXCEPT !.pc = "closing", !.toks = @ \ {t}]]
             /\ tabCount' = IF t \in DOMAIN own THEN Unregister({t}, own) ELSE tabCount
             /\ Send(<<Call("close", rev.dev, t, "revoke", r, t \in DOMAIN own)>>, rdy)
    BY <1>1
  <2> DEFINE e == Call("close", rev.dev, t, "revoke", r, t \in DOMAIN own)
             calls == <<e>>
             new == [rev EXCEPT !.pc = "closing", !.toks = @ \ {t}]
  <2>1. /\ e.op = "close" /\ e.live = TRUE /\ e.status = "none" /\ e.why = "revoke"
        /\ e.tok = t /\ e.owned = (t \in DOMAIN own) /\ e \in Calls
    <3>1. rev.dev \in Device \cup {None} /\ t \in Token
      BY DEF RevokeRec
    <3> QED BY <3>1 DEF Call, Calls, Whys
  <2>2. Send(calls, rdy) /\ revoke' = [revoke EXCEPT ![r] = new]
    OBVIOUS
  <2>3. new \in RevokeRec /\ new.toks = rev.toks \ {t} /\ new.pc = "closing"
    <3>1. rev.toks \ {t} \in SUBSET Token
      OBVIOUS
    <3> QED BY <3>1 DEF RevokeRec
  <2> HIDE DEF e, new
  <2>4. calls \in Seq(Calls) /\ Range(calls) = {e}
    BY <2>1, OneCall
  <2>5. /\ revoke' \in [Revoker -> RevokeRec] /\ revoke'[r] = new
        /\ \A x \in Revoker : x # r => revoke'[x] = revoke[x]
    BY <2>2, <2>3
  <2>6. Sent(Range(calls), t)
    BY <2>1, <2>4 DEF Sent
  <2> HIDE DEF calls
  <2>7. RevokeCalls(r, rev, own, calls)
    BY <2>1, <2>3, <2>4, <2>5, <2>6 DEF RevokeCalls
  <2> QED BY <2>2, <2>7
<1>2. CASE /\ rev.toks = {}
           /\ revoke' = [revoke EXCEPT ![r] = IF rev.todo = {} THEN NoRevoke
                                              ELSE [rev EXCEPT !.pc = "ungrant"]]
           /\ tabCount' = tabCount
           /\ Send(<<>>, rdy)
  <2> DEFINE new == IF rev.todo = {} THEN NoRevoke ELSE [rev EXCEPT !.pc = "ungrant"]
             calls == <<>>
  <2>1. new \in RevokeRec /\ new.toks = {}
    BY <1>2 DEF NoRevoke, RevokeRec
  <2>2. revoke' = [revoke EXCEPT ![r] = new]
    BY <1>2
  <2> HIDE DEF new
  <2>3. /\ revoke' \in [Revoker -> RevokeRec] /\ revoke'[r].toks = {}
        /\ \A x \in Revoker : x # r => revoke'[x] = revoke[x]
    BY <2>1, <2>2
  <2>4. calls \in Seq(Calls) /\ Range(calls) = {} /\ Send(calls, rdy)
    BY <1>2, RangeOfEmpty
  <2> HIDE DEF calls
  <2>5. RevokeCalls(r, rev, own, calls)
    BY <1>2, <2>3, <2>4 DEF RevokeCalls
  <2> QED BY <2>4, <2>5
<1> QED BY <1>1, <1>2 DEF RevokeNext

LEMMA RevokeDeviceKept ==
  ASSUME OwnershipInv, NEW r \in Revoker, RevokeDevice(r)
  PROVE  OwnershipInv'
<1>1. PICK d \in revoke[r].todo :
        LET mine == {t \in DOMAIN owner : owner[t].dev = d
                                            /\ OriginOf[owner[t].frame] = revoke[r].origin}
        IN  /\ granted' = granted \ {<<revoke[r].origin, d>>}
            /\ RevokeNext(r, [revoke[r] EXCEPT !.todo = @ \ {d}, !.dev = d, !.toks = mine],
                          owner, ready)
  BY DEF RevokeDevice
<1> DEFINE mine == {t \in DOMAIN owner : owner[t].dev = d
                                           /\ OriginOf[owner[t].frame] = revoke[r].origin}
           rev == [revoke[r] EXCEPT !.todo = @ \ {d}, !.dev = d, !.toks = mine]
           T == {}
<1>2. UNCHANGED <<toAddon, served, owner, orphans, opened, frames, link, removedTabs, ctl, duty>>
  BY DEF RevokeDevice, bridgeVars, daemonVars
<1>3. revoke \in [Revoker -> RevokeRec] /\ revoke[r] \in RevokeRec /\ revoke[r].toks = {}
  BY DEF OwnershipInv, Shape, Records, Handlers, RevokeDevice
<1>4. /\ rev \in RevokeRec /\ rev.toks = mine /\ mine \subseteq Token
  <2>1. mine \in SUBSET Token /\ d \in Device
    BY <1>3 DEF OwnershipInv, Shape, Records, RevokeRec
  <2> HIDE DEF mine
  <2> QED BY <1>3, <2>1 DEF RevokeRec
<1>5. RevokeNext(r, rev, owner, ready)
  BY <1>1
<1>6. /\ \A t \in DOMAIN owner : Ungranted(t)' => Ungranted(t) \/ t \in mine
      /\ granted' \subseteq granted
  BY <1>1, <1>2 DEF Ungranted
<1>7. mine \subseteq DOMAIN owner
  OBVIOUS
<1> HIDE DEF mine, rev
<1>8. PICK calls : RevokeCalls(r, rev, owner, calls) /\ Send(calls, ready)
  BY <1>3, <1>4, <1>5, RevokeNextIs
<1>9. calls \in Seq(Calls)
  BY <1>8 DEF RevokeCalls
<1>10. \A t \in mine : t \in RevokeToks' \/ Sent(Range(calls), t)
  BY <1>4, <1>8 DEF RevokeCalls, RevokeToks
<1>11. RevokeToks \subseteq RevokeToks' /\ RevokeToks' \subseteq RevokeToks \cup mine
  BY <1>3, <1>4, <1>8 DEF RevokeCalls, RevokeToks
<1>12. /\ Handlers' /\ LooksOn /\ \A x \in Rechecks' : ActiveAt(x)' => ActiveAt(x)
  BY <1>2, <1>8 DEF OwnershipInv, Handlers, RevokeCalls, LooksOn, Rechecks, ActiveAt
<1>13. Records'
  BY <1>2, <1>6, <1>8 DEF OwnershipInv, Shape, Records, RevokeCalls
<1>14. T \cap Offered = {} /\ \A x \in Rechecks' : ctl'[x].tok \notin T
  OBVIOUS
<1>15. \A c \in Range(calls) : c.op = "close" => c.tok \in Known \cup T
                                                   /\ c.owned = (c.tok \in DOMAIN owner)
  BY <1>4, <1>7, <1>8 DEF RevokeCalls, Known
<1> HIDE DEF T
<1>16. DutyToks' \subseteq Known /\ RevokeToks' \subseteq Known
  BY <1>2, <1>7, <1>11 DEF Known, DutyToks
<1>17. \A x \in Frame : (Purgeable(x) => Purgeable(x)') /\ (Retired(x)' => Retired(x))
  BY <1>2 DEF Purgeable, Retired
<1>18. \A c \in Range(calls) : c.status = "none" /\ c.live /\ c.why # "purge"
  BY <1>8 DEF RevokeCalls
<1>19. /\ \A f \in DOMAIN frames' : link'[BridgeOf[f]] = "gone" => frames'[f] = "retired"
       /\ \A t \in DOMAIN owner : owner[t].frame \in DOMAIN frames'
                                     \/ TabOfFrame(owner[t].frame) \in removedTabs'
  BY <1>2 DEF OwnershipInv, Ending
<1>20. \A t \in DOMAIN owner :
         /\ Ungranted(t)' => Ungranted(t) \/ Sent(Range(calls), t) \/ t \in RevokeToks'
         /\ t \in RevokeToks => t \in RevokeToks' \/ Sent(Range(calls), t)
  BY <1>6, <1>10, <1>11
<1>21. \A c \in Range(calls), f \in Frame :
         (c.why = "purge" /\ c.tok \in DOMAIN owner /\ f = owner[c.tok].frame) => Purgeable(f)'
  BY <1>18
<1> QED BY <1>2, <1>8, <1>9, <1>12, <1>13, <1>14, <1>15, <1>16, <1>17, <1>18, <1>19, <1>20, <1>21,
           SendKept

---------------------------------------------------------------------------
(* Answers *)

(* A continuation runs: its call is done with, and others may be sent.  A  *)
(* bridge that begins to look at an open a second time takes the session   *)
(* from the answer, which was the only one to offer it.                    *)
LEMMA AnswerKept ==
  ASSUME OwnershipInv, ready # <<>>, NEW c, c = Head(ready),
         UNCHANGED <<toAddon, served, opened, granted, frames, link, duty, removedTabs>>,
         NEW calls \in Seq(Calls), Send(calls, Tail(ready)), Records', Handlers',
         \A e \in Range(calls) : e.status = "none" /\ e.live /\ e.why # "purge",
         \A e \in Range(calls) : e.op = "close" => e.tok \in Known
                                                     /\ e.owned = (e.tok \in DOMAIN owner'),
         \A b \in Rechecks' :
           \/ b \in Rechecks /\ ctl'[b].tok = ctl[b].tok /\ ctl'[b].frame = ctl[b].frame
           \/ c.op = "open" /\ c.status = "ok" /\ ctl'[b].tok = c.tok /\ b = c.by,
         DOMAIN owner' \subseteq DOMAIN owner, \A t \in DOMAIN owner' : owner'[t] = owner[t],
         (c.op = "close" /\ c.why # "close") => c.tok \notin DOMAIN owner',
         DOMAIN orphans' \subseteq Known, RevokeToks' \subseteq Known,
         \A t \in DOMAIN owner' : t \in RevokeToks => t \in RevokeToks' \/ Sent(Range(calls), t)
  PROVE  OwnershipInv'
<1> DEFINE rdy == Tail(ready)
           X == {c}
           T == {}
<1>1. /\ toDaemon \in Seq(Calls) /\ ready \in Seq(Calls) /\ Offers(toDaemon) = {} /\ Distinct(ready)
      /\ Connected /\ Shape /\ Fresh /\ Ending
  BY DEF OwnershipInv, Shape, Queues, Fresh
<1>2. /\ rdy \in Seq(Calls) /\ Range(ready) = {c} \cup Range(rdy)
  BY <1>1, TailOf, RangeOfTail
<1>3. /\ Offers(rdy) \subseteq Offers(ready) /\ Distinct(rdy)
      /\ (c.op = "open" /\ c.status = "ok") => c.tok \in Offers(ready) /\ c.tok \notin Offers(rdy)
  BY <1>1, OffersOfTail
<1>4. Send(calls, rdy) /\ \A e \in Range(calls) : e.status = "none"
  OBVIOUS
<1>5. Range(rdy) \subseteq Range(ready) /\ Range(ready) \subseteq Range(rdy) \cup X
  BY <1>2
<1>6. UNCHANGED <<toAddon, served>>
  OBVIOUS
<1> HIDE DEF rdy, X
<1>7. /\ Offers(toDaemon') = {} /\ Offers(ready') = Offers(rdy) /\ Distinct(ready')
      /\ port' \in {"up", "down"}
      /\ (port = "up" => (port' = "up" /\ epoch' = epoch))
      /\ (port' = "down" => toDaemon' = <<>>)
  BY <1>1, <1>2, <1>3, <1>4, SendCalls
<1>8. Queues' /\ Crosses(InFlight, InFlight', Range(calls), X)
  BY <1>1, <1>2, <1>3, <1>4, <1>5, <1>6, SendCrosses
<1>9. Known' \subseteq Known
  <2>1. /\ DOMAIN owner' \subseteq Known \cup T /\ DOMAIN orphans' \subseteq Known \cup T
        /\ DutyToks' \subseteq Known \cup T /\ RevokeToks' \subseteq Known \cup T
    BY DEF Known, DutyToks
  <2>2. \A e \in Range(calls) : e.op = "close" => e.tok \in Known \cup T
    OBVIOUS
  <2>3. Known \cup T = Known
    OBVIOUS
  <2> HIDE DEF T
  <2>4. Known' \subseteq Known \cup T
    BY <1>8, <2>1, <2>2, KnownKept
  <2> QED BY <2>3, <2>4
<1>10. /\ Offers(toAddon') = Offers(toAddon) /\ Offers(served') = Offers(served)
       /\ Distinct(toAddon') /\ Distinct(served') /\ Offers(ready') \subseteq Offers(ready)
       /\ Offered' \subseteq Offered
       /\ (c.op = "open" /\ c.status = "ok") => c.tok \in Offered /\ c.tok \notin Offered'
  BY <1>1, <1>3, <1>7 DEF Fresh, Offered
<1>11. Fresh'
  <2>1. /\ Offers(toAddon') \cap Offers(served') = {}
        /\ Offers(toAddon') \cap Offers(ready') = {}
        /\ Offers(served') \cap Offers(ready') = {}
    BY <1>1, <1>10 DEF Fresh
  <2>2. Offered' \cap Known' = {}
    BY <1>1, <1>9, <1>10 DEF Fresh
  <2>3. \A b \in Rechecks' : ctl'[b].tok \notin Offered' /\ ctl'[b].tok \notin Known'
    BY <1>1, <1>9, <1>10 DEF Fresh
  <2>4. \A a, b \in Rechecks' : ctl'[a].tok = ctl'[b].tok => a = b
    BY <1>1, <1>10 DEF Fresh
  <2> QED BY <1>7, <1>10, <2>1, <2>2, <2>3, <2>4 DEF Fresh
<1>12. Connected'
  <2>1. \A t : (port = "up" /\ Current(t)) => Current(t)'
    BY <1>7 DEF Current
  <2>2. \A t \in DOMAIN owner \cup Offered : port = "up" /\ Current(t)
    BY <1>1 DEF Connected
  <2>3. \A t \in DOMAIN owner' \cup Offered' : port' = "up" /\ Current(t)'
    BY <1>7, <1>10, <2>1, <2>2
  <2>4. \A b \in Rechecks' : ActiveAt(b)' =>
          port' = "up" /\ (ctl'[b].tok \in DOMAIN opened' => opened'[ctl'[b].tok].epoch = epoch')
    <3> SUFFICES ASSUME NEW b \in Rechecks', ActiveAt(b)'
                 PROVE  port' = "up" /\ (ctl'[b].tok \in DOMAIN opened' => opened'[ctl'[b].tok].epoch = epoch')
      OBVIOUS
    <3>1. CASE b \in Rechecks /\ ctl'[b].tok = ctl[b].tok /\ ctl'[b].frame = ctl[b].frame
      <4>1. port = "up" /\ Current(ctl[b].tok)
        BY <1>1, <3>1 DEF Connected, ActiveAt
      <4> QED BY <1>7, <2>1, <3>1, <4>1 DEF Current
    <3>2. CASE c.op = "open" /\ c.status = "ok" /\ ctl'[b].tok = c.tok /\ b = c.by
      <4>1. port = "up" /\ Current(c.tok)
        BY <1>10, <2>2, <3>2
      <4> QED BY <1>7, <2>1, <3>2, <4>1 DEF Current
    <3> QED BY <3>1, <3>2
  <2>5. (\A t \in DOMAIN owner \cup Offered : Current(t))'
    BY <2>3 DEF Current
  <2>6. (\A b \in Rechecks : ActiveAt(b) => (port = "up" /\ Current(ctl[b].tok)))'
    BY <2>4 DEF Current
  <2>7. port' = "down" => (DOMAIN owner' = {} /\ Offered' = {})
    BY <2>3
  <2> QED BY <1>7, <2>5, <2>6, <2>7 DEF Connected, ActiveAt
<1>13. Ending'
  <2>1. \A t \in DOMAIN owner' : owner[t].frame \in Frame
    BY <1>1 DEF Shape, Records, OwnerRec
  <2>2. \A e \in Range(calls) : (e.op = "close" /\ e.tok \in DOMAIN owner') => e.owned
    OBVIOUS
  <2>3. \A e \in X : (e.op = "close" /\ e.why # "close") => e.tok \notin DOMAIN owner'
    BY DEF X
  <2>4. \A f \in Frame : (Purgeable(f) => Purgeable(f)') /\ (Retired(f)' => Retired(f))
    BY DEF Purgeable, Retired
  <2>5. \A t \in DOMAIN owner' : Ungranted(t)' => Ungranted(t)
    BY DEF Ungranted
  <2>6. /\ \A f \in DOMAIN frames' : link'[BridgeOf[f]] = "gone" => frames'[f] = "retired"
        /\ \A t \in DOMAIN owner' : owner[t].frame \in DOMAIN frames'
                                       \/ TabOfFrame(owner[t].frame) \in removedTabs'
    BY <1>1 DEF Ending
  <2> QED BY <1>1, <1>8, <2>1, <2>2, <2>3, <2>4, <2>5, <2>6, EndingKept
<1> QED BY <1>8, <1>11, <1>12, <1>13 DEF OwnershipInv, Shape

(* The call at the head of the settled ones *)
LEMMA HeadIsCall ==
  ASSUME Shape, ready # <<>>, NEW c, c = Head(ready)
  PROVE  c \in Calls /\ c \in InFlight
<1>1. ready \in Seq(Calls)
  BY DEF Shape, Queues
<1>2. c \in Calls /\ Range(ready) = {c} \cup Range(Tail(ready))
  BY <1>1, TailOf, RangeOfTail
<1> QED BY <1>2, InFlightIs

(* A close that does not come from the page takes the owner with it: it    *)
(* was captured when the close was sent (closeForCleanup).                 *)
LEMMA AfterCleanupIs ==
  ASSUME OwnershipInv, NEW c \in Calls, c \in InFlight, c.op = "close", AfterCleanup(c)
  PROVE  /\ DOMAIN owner' \subseteq DOMAIN owner /\ \A t \in DOMAIN owner' : owner'[t] = owner[t]
         /\ c.tok \notin DOMAIN owner' /\ IsFiniteSet(DOMAIN owner')
         /\ DOMAIN orphans' \subseteq DOMAIN orphans \cup {c.tok} /\ IsFiniteSet(DOMAIN orphans')
         /\ \A t \in DOMAIN orphans' : orphans'[t] \in Device \cup {None}
<1>1. /\ c.dev \in Device \cup {None} /\ c.tok \in Token
      /\ (c.tok \in DOMAIN owner => c.owned)
      /\ IsFiniteSet(DOMAIN owner) /\ IsFiniteSet(DOMAIN orphans)
      /\ \A t \in DOMAIN orphans : orphans[t] \in Device \cup {None}
  BY CallIs DEF OwnershipInv, Ending, Shape, Records
<1> DEFINE S == {c.tok}
<1>2. /\ DOMAIN Drop(owner, S) = DOMAIN owner \ S
      /\ \A x \in DOMAIN owner \ S : Drop(owner, S)[x] = owner[x]
      /\ DOMAIN Drop(orphans, S) = DOMAIN orphans \ S
      /\ \A x \in DOMAIN orphans \ S : Drop(orphans, S)[x] = orphans[x]
  BY DropAt
<1>3. /\ DOMAIN Put(orphans, c.tok, c.dev) = DOMAIN orphans \cup {c.tok}
      /\ Put(orphans, c.tok, c.dev)[c.tok] = c.dev
      /\ \A x \in DOMAIN orphans : x # c.tok => Put(orphans, c.tok, c.dev)[x] = orphans[x]
  BY DEF Put
<1>4. /\ DOMAIN owner' = DOMAIN owner \ S /\ \A t \in DOMAIN owner' : owner'[t] = owner[t]
  <2>1. CASE c.owned
    BY <1>2, <2>1 DEF AfterCleanup
  <2>2. CASE ~c.owned
    <3>1. owner' = owner /\ c.tok \notin DOMAIN owner
      BY <1>1, <2>2 DEF AfterCleanup
    <3> QED BY <3>1
  <2> QED BY <2>1, <2>2
<1>5. /\ DOMAIN orphans' \subseteq DOMAIN orphans \cup {c.tok}
      /\ \A t \in DOMAIN orphans' : orphans'[t] \in Device \cup {None}
  BY <1>1, <1>2, <1>3 DEF AfterCleanup
<1>6. IsFiniteSet(DOMAIN owner')
  BY <1>1, <1>4, FS_Subset
<1>7. IsFiniteSet(DOMAIN orphans \cup {c.tok})
  BY <1>1, FS_AddElement
<1>8. IsFiniteSet(DOMAIN orphans')
  BY <1>5, <1>7, FS_Subset
<1> QED BY <1>4, <1>5, <1>6, <1>8

(* The request of whoever it is comes to its end. *)
LEMMA SettledIdle ==
  ASSUME OwnershipInv, NEW b, GoIdle(b), revoke' = revoke
  PROVE  /\ ctl' \in [Bridge -> CtlRec] /\ Handlers' /\ RevokeToks' = RevokeToks
         /\ \A x \in Rechecks' : x \in Rechecks /\ ctl'[x] = ctl[x]
<1>1. CASE b \in Bridge
  BY <1>1, TurnIdle
<1>2. CASE b \notin Bridge
  <2>1. ctl \in [Bridge -> CtlRec]
    BY DEF OwnershipInv, Shape, Records
  <2>2. ctl' = ctl
    BY <1>2, <2>1 DEF GoIdle
  <2> QED BY <2>1, <2>2, NoTurn
<1> QED BY <1>1, <1>2

LEMMA OpenAnsweredKept ==
  ASSUME OwnershipInv, ready # <<>>, NEW c, c = Head(ready), OpenAnswered(c),
         UNCHANGED <<toAddon, losses, timeouts, daemonVars>>
  PROVE  OwnershipInv'
<1> DEFINE calls == <<>>
           new == [ctl[c.by] EXCEPT !.pc = "recheck", !.tok = c.tok]
<1>1. c \in Calls /\ c \in InFlight
  BY HeadIsCall DEF OwnershipInv
<1>2. c.op = "open" /\ (c.status = "ok" => c.tok \in Token)
  BY <1>1, CallIs DEF OpenAnswered
<1>3. /\ Send(calls, Tail(ready)) /\ ctl' = [ctl EXCEPT ![c.by] = IF c.status = "ok" THEN new ELSE Idle]
      /\ UNCHANGED <<bgVars, revoke, bridgeVars>>
  BY DEF OpenAnswered
<1>4. UNCHANGED <<toAddon, served, opened, granted, frames, link, duty, removedTabs, owner,
                  orphans, revoke>>
  BY <1>3 DEF bgVars, bridgeVars, daemonVars
<1>5. ctl \in [Bridge -> CtlRec]
  BY DEF OwnershipInv, Shape, Records
<1>6. ASSUME c.by \in Bridge, c.status = "ok"
      PROVE  new \in CtlRec /\ new.pc = "recheck" /\ new.tok = c.tok /\ new.frame = ctl[c.by].frame
  BY <1>2, <1>5, <1>6 DEF CtlRec
<1> HIDE DEF new
<1>7. /\ ctl' \in [Bridge -> CtlRec]
      /\ \A b \in Bridge : b # c.by => ctl'[b] = ctl[b]
      /\ c.by \in Bridge => ctl'[c.by] = IF c.status = "ok" THEN new ELSE Idle
  BY <1>3, <1>5, <1>6, IdleIs
<1>8. \A b \in Rechecks' :
        \/ b \in Rechecks /\ ctl'[b].tok = ctl[b].tok /\ ctl'[b].frame = ctl[b].frame
        \/ c.op = "open" /\ c.status = "ok" /\ ctl'[b].tok = c.tok /\ b = c.by
  BY <1>2, <1>6, <1>7, IdleIs DEF Rechecks
<1>9. Handlers'
  <2>1. \A b \in Bridge : (ctl'[b].frame # None) => BridgeOf[ctl'[b].frame] = b
    BY <1>6, <1>7, IdleIs DEF OwnershipInv, Handlers
  <2>2. \A b \in Rechecks' : ctl'[b].tok \in Token
    BY <1>2, <1>8 DEF OwnershipInv, Handlers
  <2> QED BY <1>4, <2>1, <2>2 DEF OwnershipInv, Handlers
<1>10. Records'
  BY <1>4, <1>7 DEF OwnershipInv, Shape, Records
<1>11. calls \in Seq(Calls) /\ Range(calls) = {}
  BY RangeOfEmpty
<1> HIDE DEF calls
<1>12. DOMAIN orphans' \subseteq Known /\ RevokeToks' \subseteq Known /\ RevokeToks' = RevokeToks
  BY <1>4 DEF Known, RevokeToks
<1>13. (c.op = "close" /\ c.why # "close") => c.tok \notin DOMAIN owner'
  BY <1>2
<1>14. DOMAIN owner' \subseteq DOMAIN owner /\ \A t \in DOMAIN owner' : owner'[t] = owner[t]
  BY <1>4
<1> QED BY <1>3, <1>4, <1>8, <1>9, <1>10, <1>11, <1>12, <1>13, <1>14, AnswerKept

LEMMA CloseAnsweredKept ==
  ASSUME OwnershipInv, ready # <<>>, NEW c, c = Head(ready), CloseAnswered(c),
         UNCHANGED <<toAddon, losses, timeouts, daemonVars>>
  PROVE  OwnershipInv'
<1> DEFINE calls == <<>>
           S == {c.tok}
<1>1. c \in Calls /\ c \in InFlight
  BY HeadIsCall DEF OwnershipInv
<1>2. /\ Send(calls, Tail(ready)) /\ GoIdle(c.by) /\ c.why = "close"
      /\ owner' = Drop(owner, S) \/ owner' = owner
      /\ UNCHANGED <<granted, frames, orphans, revoke, link, duty, removedTabs>>
  BY DEF CloseAnswered
<1>3. UNCHANGED <<toAddon, served, opened>>
  BY DEF daemonVars
<1>4. /\ ctl' \in [Bridge -> CtlRec] /\ Handlers' /\ RevokeToks' = RevokeToks
      /\ \A x \in Rechecks' : x \in Rechecks /\ ctl'[x] = ctl[x]
  BY <1>2, SettledIdle
<1>5. DOMAIN owner' \subseteq DOMAIN owner /\ \A t \in DOMAIN owner' : owner'[t] = owner[t]
  <2>1. /\ DOMAIN Drop(owner, S) = DOMAIN owner \ S
        /\ \A x \in DOMAIN owner \ S : Drop(owner, S)[x] = owner[x]
    BY DropAt
  <2> QED BY <1>2, <2>1
<1>6. IsFiniteSet(DOMAIN owner')
  BY <1>5, FS_Subset DEF OwnershipInv, Shape, Records
<1>7. Records'
  BY <1>2, <1>4, <1>5, <1>6 DEF OwnershipInv, Shape, Records
<1>8. calls \in Seq(Calls) /\ Range(calls) = {}
  BY RangeOfEmpty
<1> HIDE DEF calls, S
<1>9. DOMAIN orphans' \subseteq Known /\ RevokeToks' \subseteq Known
  BY <1>2, <1>4 DEF Known
<1> QED BY <1>2, <1>3, <1>4, <1>5, <1>7, <1>8, <1>9, AnswerKept

LEMMA CleanupAnsweredKept ==
  ASSUME OwnershipInv, ready # <<>>, NEW c, c = Head(ready), CleanupAnswered(c),
         UNCHANGED <<toAddon, losses, timeouts, daemonVars>>
  PROVE  OwnershipInv'
<1> DEFINE calls == <<>>
<1>1. c \in Calls /\ c \in InFlight
  BY HeadIsCall DEF OwnershipInv
<1>2. /\ Send(calls, Tail(ready)) /\ c.why \in {"late", "cleanup", "purge", "retry"}
      /\ AfterCleanup(c)
      /\ UNCHANGED <<granted, frames, revoke, bridgeVars>>
  BY DEF CleanupAnswered
<1>3. UNCHANGED <<toAddon, served, opened, granted, frames, link, duty, removedTabs, revoke>>
  BY <1>2 DEF daemonVars, bridgeVars
<1>4. c.op = "close" /\ c.tok \in Known /\ c.tok \in Token
  BY <1>1, <1>2, CallIs DEF Known, CloseToks
<1>5. /\ DOMAIN owner' \subseteq DOMAIN owner /\ \A t \in DOMAIN owner' : owner'[t] = owner[t]
      /\ c.tok \notin DOMAIN owner' /\ IsFiniteSet(DOMAIN owner')
      /\ DOMAIN orphans' \subseteq DOMAIN orphans \cup {c.tok} /\ IsFiniteSet(DOMAIN orphans')
      /\ \A t \in DOMAIN orphans' : orphans'[t] \in Device \cup {None}
  BY <1>1, <1>2, <1>4, AfterCleanupIs
<1>6. /\ ctl' \in [Bridge -> CtlRec] /\ Handlers' /\ RevokeToks' = RevokeToks
      /\ \A x \in Rechecks' : /\ x \in Rechecks /\ ctl'[x].tok = ctl[x].tok
                              /\ ctl'[x].frame = ctl[x].frame
  <2>1. CASE GoIdle(c.by)
    BY <1>3, <2>1, SettledIdle
  <2>2. CASE c.by \in Bridge /\ ctl[c.by].n > 1 /\ ctl' = [ctl EXCEPT ![c.by].n = @ - 1]
    <3> DEFINE new == [ctl[c.by] EXCEPT !.n = @ - 1]
    <3>1. ctl \in [Bridge -> CtlRec] /\ ctl[c.by] \in CtlRec
      BY <2>2 DEF OwnershipInv, Shape, Records
    <3>2. /\ new \in CtlRec /\ new.pc = ctl[c.by].pc /\ new.tok = ctl[c.by].tok
          /\ new.frame = ctl[c.by].frame
      BY <2>2, <3>1 DEF CtlRec
    <3>3. ctl' = [ctl EXCEPT ![c.by] = new]
      BY <2>2, <3>1
    <3> HIDE DEF new
    <3>4. /\ ctl' \in [Bridge -> CtlRec]
          /\ \A x \in Bridge : /\ ctl'[x].pc = ctl[x].pc /\ ctl'[x].tok = ctl[x].tok
                               /\ ctl'[x].frame = ctl[x].frame
      BY <2>2, <3>1, <3>2, <3>3
    <3>5. Rechecks' = Rechecks
      BY <3>4 DEF Rechecks
    <3> QED BY <1>3, <3>4, <3>5 DEF OwnershipInv, Handlers, RevokeToks, Rechecks
  <2>3. CASE ctl' = ctl
    <3>1. ctl' \in [Bridge -> CtlRec]
      BY <2>3 DEF OwnershipInv, Shape, Records
    <3> QED BY <1>3, <2>3, <3>1, NoTurn
  <2> QED BY <2>1, <2>2, <2>3 DEF CleanupAnswered
<1>7. Records'
  BY <1>3, <1>4, <1>5, <1>6 DEF OwnershipInv, Shape, Records
<1>8. calls \in Seq(Calls) /\ Range(calls) = {}
  BY RangeOfEmpty
<1> HIDE DEF calls
<1>9. DOMAIN orphans' \subseteq Known /\ RevokeToks' \subseteq Known
  BY <1>4, <1>5, <1>6 DEF Known
<1> QED BY <1>2, <1>3, <1>5, <1>6, <1>7, <1>8, <1>9, AnswerKept

(* The answer to a revoker's close, and the next token it collected *)
LEMMA RevokeAnsweredKept ==
  ASSUME OwnershipInv, ready # <<>>, NEW c, c = Head(ready), RevokeAnswered(c),
         UNCHANGED <<toAddon, losses, timeouts, daemonVars>>
  PROVE  OwnershipInv'
<1> DEFINE r == c.by
           rev == revoke[r]
           rdy == Tail(ready)
<1>1. c \in Calls /\ c \in InFlight
  BY HeadIsCall DEF OwnershipInv
<1>2. /\ c.why = "revoke" /\ AfterCleanup(c) /\ RevokeNext(r, rev, owner', rdy)
      /\ UNCHANGED <<granted, frames, ctl, bridgeVars>>
  BY DEF RevokeAnswered
<1>3. UNCHANGED <<toAddon, served, opened, granted, frames, link, duty, removedTabs, ctl>>
  BY <1>2 DEF daemonVars, bridgeVars
<1>4. c.op = "close" /\ c.tok \in Known /\ c.tok \in Token /\ r \in Revoker
  BY <1>1, <1>2, CallIs DEF Known, CloseToks
<1>5. /\ DOMAIN owner' \subseteq DOMAIN owner /\ \A t \in DOMAIN owner' : owner'[t] = owner[t]
      /\ c.tok \notin DOMAIN owner' /\ IsFiniteSet(DOMAIN owner')
      /\ DOMAIN orphans' \subseteq DOMAIN orphans \cup {c.tok} /\ IsFiniteSet(DOMAIN orphans')
      /\ \A t \in DOMAIN orphans' : orphans'[t] \in Device \cup {None}
  BY <1>1, <1>2, <1>4, AfterCleanupIs
<1>6. /\ revoke \in [Revoker -> RevokeRec] /\ rev \in RevokeRec /\ rev.toks \subseteq Token
      /\ rev.toks \subseteq RevokeToks
  <2>1. revoke \in [Revoker -> RevokeRec] /\ rev \in RevokeRec
    BY <1>4 DEF OwnershipInv, Shape, Records
  <2> QED BY <1>4, <2>1 DEF RevokeRec, RevokeToks
<1> HIDE DEF r, rdy
<1>7. \E calls : RevokeCalls(r, rev, owner', calls) /\ Send(calls, rdy)
  <2> DEFINE own == owner'
  <2>1. RevokeNext(r, rev, own, rdy)
    BY <1>2
  <2> HIDE DEF own, rev
  <2>2. \E calls : RevokeCalls(r, rev, own, calls) /\ Send(calls, rdy)
    BY <1>4, <1>6, <2>1, RevokeNextIs
  <2> QED BY <2>2 DEF own
<1>8. PICK calls : RevokeCalls(r, rev, owner', calls) /\ Send(calls, rdy)
  BY <1>7
<1>9. /\ calls \in Seq(Calls)
      /\ \A e \in Range(calls) : e.status = "none" /\ e.live /\ e.why # "purge"
      /\ \A e \in Range(calls) : e.op = "close" => e.tok \in Known
                                                    /\ e.owned = (e.tok \in DOMAIN owner')
  BY <1>6, <1>8 DEF RevokeCalls, Known
<1>10. \A t \in RevokeToks : t \in RevokeToks' \/ Sent(Range(calls), t)
  BY <1>4, <1>6, <1>8 DEF RevokeCalls, RevokeToks
<1>11. RevokeToks' \subseteq RevokeToks
  BY <1>4, <1>6, <1>8 DEF RevokeCalls, RevokeToks
<1>12. Handlers' /\ \A x \in Rechecks' : x \in Rechecks /\ ctl'[x] = ctl[x]
  BY <1>3, <1>8 DEF OwnershipInv, Handlers, RevokeCalls, Rechecks
<1>13. Records'
  BY <1>3, <1>4, <1>5, <1>8 DEF OwnershipInv, Shape, Records, RevokeCalls
<1>14. DOMAIN orphans' \subseteq Known /\ RevokeToks' \subseteq Known
  BY <1>4, <1>5, <1>11 DEF Known
<1>15. Send(calls, Tail(ready))
  BY <1>8 DEF rdy
<1> QED BY <1>3, <1>5, <1>9, <1>10, <1>12, <1>13, <1>14, <1>15, AnswerKept

LEMMA ResumeKept == ASSUME OwnershipInv, Resume PROVE OwnershipInv'
<1> DEFINE c == Head(ready)
<1>1. /\ ready # <<>> /\ UNCHANGED <<toAddon, losses, timeouts, daemonVars>>
      /\ OpenAnswered(c) \/ CloseAnswered(c) \/ CleanupAnswered(c) \/ RevokeAnswered(c)
  BY DEF Resume
<1>2. c = Head(ready)
  OBVIOUS
<1> HIDE DEF c
<1> QED BY <1>1, <1>2, OpenAnsweredKept, CloseAnsweredKept, CleanupAnsweredKept, RevokeAnsweredKept

---------------------------------------------------------------------------
(* Registration *)

(* The new owner's frame is active, its origin granted, and no close knows *)
(* the session yet.                                                        *)
LEMMA OpenRegisterKept ==
  ASSUME OwnershipInv, NEW b \in Bridge, OpenRegister(b)
  PROVE  OwnershipInv'
<1> DEFINE t == ctl[b].tok
           f == ctl[b].frame
           d == ctl[b].dev
           T == {t}
           rec == [dev |-> d, frame |-> f]
<1>1. /\ ctl[b].pc = "recheck" /\ Wanted(b) /\ GoIdle(b) /\ BridgeTakes(b)
      /\ owner' = Put(owner, t, rec) /\ frames' = Put(frames, f, "active")
      /\ UNCHANGED <<granted, orphans, revoke, portVars, toAddon, link, removedTabs, daemonVars>>
  BY DEF OpenRegister
<1>2. UNCHANGED <<toAddon, served, toDaemon, ready, port, epoch, orphans, removedTabs, link, granted,
                  revoke, opened>>
  BY <1>1 DEF portVars, daemonVars
<1>3. /\ f \in DOMAIN frames /\ frames[f] = "active" /\ f \in Frame /\ <<OriginOf[f], d>> \in granted
      /\ d \in Device /\ t \in Token /\ b \in Rechecks
  BY <1>1 DEF Wanted, OwnershipInv, Shape, Records, Handlers, Rechecks
<1>4. DOMAIN frames' = DOMAIN frames /\ \A x \in DOMAIN frames : frames'[x] = frames[x]
  <2>1. /\ DOMAIN Put(frames, f, "active") = DOMAIN frames \cup {f}
        /\ Put(frames, f, "active")[f] = "active"
        /\ \A x \in DOMAIN frames : x # f => Put(frames, f, "active")[x] = frames[x]
    BY DEF Put
  <2> QED BY <1>1, <1>3, <2>1
<1>5. rec \in OwnerRec /\ rec.frame = f /\ rec.dev = d
  BY <1>3 DEF OwnerRec
<1>6. duty' \subseteq duty \cup {<<f, d, t>>}
  BY <1>1 DEF BridgeTakes
<1>7. /\ ctl' \in [Bridge -> CtlRec] /\ Handlers' /\ LooksOn /\ RevokeToks' = RevokeToks
      /\ \A x \in Rechecks' : x \in Rechecks /\ x # b /\ ctl'[x] = ctl[x]
  BY <1>1, <1>2, TurnIdle
<1> HIDE DEF rec
<1>8. /\ DOMAIN owner' = DOMAIN owner \cup T /\ owner'[t] = rec
      /\ \A x \in DOMAIN owner : x # t => owner'[x] = owner[x]
  <2>1. /\ DOMAIN Put(owner, t, rec) = DOMAIN owner \cup T /\ Put(owner, t, rec)[t] = rec
        /\ \A x \in DOMAIN owner : x # t => Put(owner, t, rec)[x] = owner[x]
    BY DEF Put
  <2> QED BY <1>1, <2>1
<1>9. t \notin Offered /\ t \notin Known
  BY <1>3 DEF OwnershipInv, Fresh
<1>10. t \notin DOMAIN owner /\ \A c \in InFlight : c.op = "close" => c.tok # t
  BY <1>9 DEF Known, CloseToks
<1>11. \A x \in DOMAIN owner : owner'[x] = owner[x]
  BY <1>8, <1>10
<1>12. Queues' /\ InFlight' = InFlight
  BY <1>2 DEF OwnershipInv, Shape, Queues, InFlight, Crossing
<1>13. Records'
  <2>1. IsFiniteSet(DOMAIN owner')
    <3>1. IsFiniteSet(DOMAIN owner)
      BY DEF OwnershipInv, Shape, Records
    <3> QED BY <1>8, <3>1, FS_AddElement DEF T
  <2>2. duty' \subseteq Frame \X Device \X Token
    BY <1>3, <1>6 DEF OwnershipInv, Shape, Records
  <2>3. DOMAIN owner' \subseteq Token /\ \A x \in DOMAIN owner' : owner'[x] \in OwnerRec
    BY <1>3, <1>5, <1>8, <1>11 DEF OwnershipInv, Shape, Records
  <2> QED BY <1>2, <1>4, <1>7, <2>1, <2>2, <2>3 DEF OwnershipInv, Shape, Records
<1>14. Fresh'
  <2>1. Known' \subseteq Known \cup T
    <3>1. DutyToks' \subseteq DutyToks \cup T
      <4>1. <<f, d, t>>[3] = t
        OBVIOUS
      <4> QED BY <1>6, <4>1 DEF DutyToks
    <3>2. CloseToks' = CloseToks
      BY <1>12 DEF CloseToks
    <3> QED BY <1>2, <1>7, <1>8, <3>1, <3>2 DEF Known
  <2>2. /\ Offers(toAddon') \subseteq Offers(toAddon) /\ Offers(served') \subseteq Offers(served)
        /\ Offers(ready') \subseteq Offers(ready) /\ Offers(toDaemon') = {}
        /\ Distinct(toAddon') /\ Distinct(served') /\ Distinct(ready') /\ Offered' = Offered
    BY <1>2 DEF OwnershipInv, Fresh, Offered
  <2>3. T \cap Offered' = {}
    BY <1>9, <2>2
  <2>4. \A x \in Rechecks' : ctl'[x].tok \notin T
    BY <1>3, <1>7 DEF OwnershipInv, Fresh
  <2> HIDE DEF T
  <2> QED BY <1>7, <2>1, <2>2, <2>3, <2>4, FreshKept DEF OwnershipInv
<1>15. Connected'
  <2>1. \A x : Current(x)' <=> Current(x)
    BY <1>2 DEF Current
  <2>2. port = "up" /\ Current(t)
    BY <1>3 DEF OwnershipInv, Connected
  <2>3. Offered' = Offered
    BY <1>2 DEF Offered
  <2>4. \A x \in DOMAIN owner' \cup Offered' : Current(x)'
    BY <1>8, <2>1, <2>2, <2>3 DEF OwnershipInv, Connected
  <2>5. \A x \in Rechecks' : (ctl'[x].frame \in DOMAIN frames' /\ frames'[ctl'[x].frame] = "active")
                                => (port' = "up" /\ (ctl'[x].tok \in DOMAIN opened' =>
                                                       opened'[ctl'[x].tok].epoch = epoch'))
    BY <1>2, <1>4, <1>7, <2>2 DEF OwnershipInv, Connected, Current
  <2>6. (\A x \in DOMAIN owner \cup Offered : Current(x))'
    BY <2>4 DEF Current
  <2>7. port' = "up"
    BY <1>2, <2>2
  <2> QED BY <2>5, <2>6, <2>7 DEF Connected, Current
<1>16. Ending'
  <2> DEFINE R(x) == (x \in DOMAIN frames' /\ frames'[x] = "retired") \/ link'[BridgeOf[x]] = "gone"
  <2>1. \A c \in InFlight' : (c.op = "close" /\ c.tok \in DOMAIN owner') =>
            c.owned /\ c.tok \in DOMAIN owner /\ owner'[c.tok] = owner[c.tok]
    BY <1>8, <1>10, <1>11, <1>12 DEF OwnershipInv, Ending
  <2>2. ~R(f)
    BY <1>2, <1>3, <1>4 DEF OwnershipInv, Ending
  <2>3. \A x \in DOMAIN owner : R(owner[x].frame) => Retired(owner[x].frame)
    BY <1>2, <1>4 DEF Retired
  <2>4. \A x : Dying(x) => Dying(x)'
    BY <1>12 DEF Dying
  <2>5. (\A x \in DOMAIN owner : Retired(owner[x].frame) => Dying(x))'
    <3> SUFFICES ASSUME NEW x \in DOMAIN owner', R(owner'[x].frame) PROVE Dying(x)'
      BY DEF Retired
    <3>1. x \in DOMAIN owner
      BY <1>5, <1>8, <2>2
    <3>2. owner'[x] = owner[x]
      BY <1>11, <3>1
    <3>3. Dying(x)
      BY <2>3, <3>1, <3>2 DEF OwnershipInv, Ending
    <3> QED BY <2>4, <3>3
  <2>6. (\A x \in DOMAIN owner : Ungranted(x) => (Dying(x) \/ x \in RevokeToks))'
    <3> SUFFICES ASSUME NEW x \in DOMAIN owner',
                        <<OriginOf[owner'[x].frame], owner'[x].dev>> \notin granted'
                 PROVE  Dying(x)' \/ x \in RevokeToks'
      BY DEF Ungranted
    <3>1. x \in DOMAIN owner
      BY <1>2, <1>3, <1>5, <1>8
    <3>2. owner'[x] = owner[x]
      BY <1>11, <3>1
    <3>3. Dying(x) \/ x \in RevokeToks
      BY <1>2, <3>1, <3>2 DEF OwnershipInv, Ending, Ungranted
    <3> QED BY <1>7, <2>4, <3>3
  <2>7. PurgeOnlyRetired'
    <3>1. \A c \in InFlight' : (c.why = "purge" /\ c.tok \in DOMAIN owner') =>
             LET g == owner'[c.tok].frame
             IN  (g \in DOMAIN frames' /\ frames'[g] = "retired") \/ TabOfFrame(g) \in removedTabs'
      <4> SUFFICES ASSUME NEW c \in InFlight', c.why = "purge", c.tok \in DOMAIN owner',
                          NEW g, g = owner'[c.tok].frame
                   PROVE  (g \in DOMAIN frames' /\ frames'[g] = "retired")
                            \/ TabOfFrame(g) \in removedTabs'
        OBVIOUS
      <4>1. c.op = "close"
        BY <1>12, NextInFlightCalls, CallIs
      <4>2. c \in InFlight /\ c.tok \in DOMAIN owner /\ g = owner[c.tok].frame
        BY <1>12, <2>1, <4>1
      <4>3. Purgeable(g)
        BY <4>2, PurgeIs DEF OwnershipInv, Ending
      <4> QED BY <1>2, <1>4, <4>3 DEF Purgeable
    <3> QED BY <3>1 DEF PurgeOnlyRetired
  <2>8. \A x \in DOMAIN frames' : (link'[BridgeOf[x]] = "gone") => (frames'[x] = "retired")
    BY <1>2, <1>4 DEF OwnershipInv, Ending
  <2>9. \A x \in DOMAIN owner' : owner'[x].frame \in DOMAIN frames'
                                   \/ TabOfFrame(owner'[x].frame) \in removedTabs'
    <3> SUFFICES ASSUME NEW x \in DOMAIN owner' PROVE owner'[x].frame \in DOMAIN frames'
                                   \/ TabOfFrame(owner'[x].frame) \in removedTabs'
      OBVIOUS
    <3>1. CASE x \in DOMAIN owner
      <4>1. owner'[x] = owner[x] /\ (owner[x].frame \in DOMAIN frames
                                        \/ TabOfFrame(owner[x].frame) \in removedTabs)
        BY <1>11, <3>1 DEF OwnershipInv, Ending
      <4> QED BY <1>2, <1>4, <4>1
    <3>2. CASE x = t
      BY <1>3, <1>4, <1>5, <1>8, <3>2
    <3> QED BY <1>8, <3>1, <3>2
  <2>10. \A c \in InFlight' : (c.op = "close" /\ c.tok \in DOMAIN owner') => c.owned
    BY <2>1
  <2> QED BY <2>5, <2>6, <2>7, <2>8, <2>9, <2>10 DEF Ending
<1> QED BY <1>7, <1>12, <1>13, <1>14, <1>15, <1>16 DEF OwnershipInv, Shape

---------------------------------------------------------------------------
(* The messages of the port *)

(* A message goes on: nothing new is offered, and no close is lost. *)
LEMMA MoveKept ==
  ASSUME OwnershipInv, Queues', Records', EpochsKept,
         UNCHANGED <<ctl, revoke, granted, frames, link, duty, removedTabs, port, epoch>>,
         NEW N, NEW X, N = {}, X = {}, Crosses(InFlight, InFlight', N, X),
         port = "down" => toDaemon' = <<>>,
         Offers(toDaemon') = {}, Offered' \subseteq Offered,
         Distinct(toAddon'), Distinct(served'), Distinct(ready'),
         Offers(toAddon') \cap Offers(served') = {}, Offers(toAddon') \cap Offers(ready') = {},
         Offers(served') \cap Offers(ready') = {},
         DOMAIN owner' \subseteq DOMAIN owner, \A t \in DOMAIN owner' : owner'[t] = owner[t],
         DOMAIN orphans' \subseteq DOMAIN orphans
  PROVE  OwnershipInv'
<1>1. /\ Handlers' /\ LooksOn /\ RevokeToks' = RevokeToks
      /\ \A x \in Rechecks' : x \in Rechecks /\ ctl'[x] = ctl[x]
  BY NoTurn
<1>2. Known' \subseteq Known
  <2> DEFINE T == {}
  <2>1. /\ DOMAIN owner' \subseteq Known \cup T /\ DOMAIN orphans' \subseteq Known \cup T
        /\ DutyToks' \subseteq Known \cup T /\ RevokeToks' \subseteq Known \cup T
    BY <1>1 DEF Known, DutyToks
  <2>2. \A c \in N : c.op = "close" => c.tok \in Known \cup T
    OBVIOUS
  <2>3. Known \cup T = Known
    OBVIOUS
  <2> HIDE DEF T
  <2>4. Known' \subseteq Known \cup T
    BY <2>1, <2>2, KnownKept
  <2> QED BY <2>3, <2>4
<1>3. Fresh'
  <2>1. Offered' \cap Known' = {}
    BY <1>2 DEF OwnershipInv, Fresh
  <2>2. \A b \in Rechecks' : ctl'[b].tok \notin Offered' /\ ctl'[b].tok \notin Known'
    BY <1>1, <1>2 DEF OwnershipInv, Fresh
  <2>3. \A a, b \in Rechecks' : ctl'[a].tok = ctl'[b].tok => a = b
    BY <1>1 DEF OwnershipInv, Fresh
  <2> QED BY <2>1, <2>2, <2>3 DEF Fresh
<1>4. Connected'
  <2>1. /\ port' \in {"up", "down"} /\ (port = "up" => (port' = "up" /\ epoch' = epoch))
        /\ (port' = "down" => toDaemon' = <<>>)
    BY DEF OwnershipInv, Connected
  <2>2. \A b \in Rechecks' : ActiveAt(b)' => b \in Rechecks /\ ActiveAt(b) /\ ctl'[b].tok = ctl[b].tok
    BY <1>1 DEF ActiveAt
  <2> QED BY <2>1, <2>2, ConnectedKept DEF OwnershipInv
<1>5. Ending'
  <2>1. \A t \in DOMAIN owner' : owner[t].frame \in Frame
    BY DEF OwnershipInv, Shape, Records, OwnerRec
  <2>2. \A f \in Frame : (Purgeable(f) => Purgeable(f)') /\ (Retired(f)' => Retired(f))
    BY DEF Purgeable, Retired
  <2>3. \A t \in DOMAIN owner' : Ungranted(t)' => Ungranted(t)
    BY DEF Ungranted
  <2>4. /\ \A f \in DOMAIN frames' : link'[BridgeOf[f]] = "gone" => frames'[f] = "retired"
        /\ \A t \in DOMAIN owner' : owner[t].frame \in DOMAIN frames'
                                       \/ TabOfFrame(owner[t].frame) \in removedTabs'
    BY DEF OwnershipInv, Ending
  <2>5. /\ \A c \in X : (c.op = "close" /\ c.why # "close") => c.tok \notin DOMAIN owner'
        /\ \A c \in N : (c.op = "close" /\ c.tok \in DOMAIN owner') => c.owned
        /\ \A c \in N, f \in Frame :
             (c.why = "purge" /\ c.tok \in DOMAIN owner' /\ f = owner[c.tok].frame) => Purgeable(f)'
    OBVIOUS
  <2> QED BY <1>1, <2>1, <2>2, <2>3, <2>4, <2>5, EndingKept DEF OwnershipInv
<1> QED BY <1>1, <1>3, <1>4, <1>5 DEF OwnershipInv, Shape

(* No call is new, and none that is gone was a close somebody waits for.   *)
LEMMA MoveCrosses ==
  ASSUME NEW F, NEW G, \A e \in G : e \in F,
         \A c \in F : c \in G \/ c.op # "close" \/ ~c.live
  PROVE  Crosses(F, G, {}, {})
BY DEF Crosses, Alike

(* handleNativeMessage *)
LEMMA ReceiveKept == ASSUME OwnershipInv, Receive PROVE OwnershipInv'
<1> DEFINE c == Head(toAddon)
           one == <<c>>
           rest == Tail(toAddon)
           N == {}
           X == {}
<1>1. /\ ready = <<>> /\ toAddon # <<>> /\ toAddon' = rest
      /\ UNCHANGED <<granted, frames, loopVars, port, epoch, toDaemon, bridgeVars, daemonVars>>
  BY DEF Receive, Quiet
<1>2. UNCHANGED <<granted, frames, ctl, revoke, port, epoch, toDaemon, link, duty, removedTabs, opened,
                  served>>
  BY <1>1 DEF loopVars, bridgeVars, daemonVars
<1>3. \/ c.op = "gone" /\ ClearDevice(c.dev) /\ ready' = ready
      \/ c.op # "gone" /\ c.live /\ ready' = one /\ UNCHANGED <<tabCount, owner, orphans>>
      \/ c.op # "gone" /\ ~c.live /\ UNCHANGED <<ready, tabCount, owner, orphans>>
  BY DEF Receive
<1>4. /\ toAddon \in Seq(Calls) /\ served \in Seq(Calls) /\ toDaemon \in Seq(Calls) /\ ready \in Seq(Calls)
      /\ Distinct(toAddon) /\ Distinct(served) /\ Distinct(ready) /\ Offers(toDaemon) = {}
      /\ Offers(toAddon) \cap Offers(served) = {}
      /\ Offers(toAddon) \cap Offers(ready) = {} /\ Offers(served) \cap Offers(ready) = {}
  BY DEF OwnershipInv, Shape, Queues, Fresh
<1>5. rest \in Seq(Calls) /\ c \in Calls /\ Range(toAddon) = {c} \cup Range(rest)
  BY <1>1, <1>4, TailOf, RangeOfTail
<1>6. /\ Offers(rest) \subseteq Offers(toAddon) /\ Distinct(rest)
      /\ (c.op = "open" /\ c.status = "ok") => c.tok \in Offers(toAddon) /\ c.tok \notin Offers(rest)
  BY <1>1, <1>4, OffersOfTail
<1> HIDE DEF c, rest
<1>7. one \in Seq(Calls) /\ Range(one) = {c}
  BY <1>5, OneCall
<1>8. /\ Distinct(one) /\ \A t \in Offers(one) : c.op = "open" /\ c.status = "ok" /\ t = c.tok
  <2>1. DOMAIN one = {1} /\ one[1] = c
    OBVIOUS
  <2> HIDE DEF one
  <2> QED BY <2>1 DEF Distinct, Offers, OffersAt
<1> HIDE DEF one
<1>9. /\ ready' \in Seq(Calls) /\ Distinct(ready') /\ Range(ready) = {} /\ Offers(ready) = {}
      /\ \A t \in Offers(ready') : t \in Offers(toAddon) /\ t \notin Offers(rest)
      /\ Range(ready') \subseteq {c} /\ (c \in Range(ready') \/ c.op = "gone" \/ ~c.live)
  BY <1>1, <1>3, <1>4, <1>6, <1>7, <1>8, RangeOfEmpty
<1>10. Queues'
  BY <1>1, <1>2, <1>4, <1>5, <1>9 DEF Queues
<1>11. Crosses(InFlight, InFlight', N, X)
  <2>1. InFlight = Range(toAddon) \cup Range(served) \cup Range(toDaemon) \cup Range(ready)
    BY InFlightIs DEF OwnershipInv
  <2>2. InFlight' = Range(rest) \cup Range(served) \cup Range(toDaemon) \cup Range(ready')
    BY <1>1, <1>2, <1>10, NextInFlightIs
  <2>3. /\ \A e \in InFlight' : e \in InFlight
        /\ \A e \in InFlight : e \in InFlight' \/ e.op # "close" \/ ~e.live
    BY <1>5, <1>9, <2>1, <2>2
  <2> QED BY <2>3, MoveCrosses
<1>12. /\ DOMAIN owner' \subseteq DOMAIN owner /\ \A t \in DOMAIN owner' : owner'[t] = owner[t]
       /\ DOMAIN orphans' \subseteq DOMAIN orphans /\ \A t \in DOMAIN orphans' : orphans'[t] = orphans[t]
  <2>1. CASE ClearDevice(c.dev)
    <3> DEFINE A == {t \in DOMAIN owner : owner[t].dev = c.dev}
               B == {t \in DOMAIN orphans : orphans[t] = c.dev}
    <3>1. owner' = Drop(owner, A) /\ orphans' = Drop(orphans, B)
      BY <2>1 DEF ClearDevice
    <3> HIDE DEF A, B
    <3>2. /\ DOMAIN Drop(owner, A) = DOMAIN owner \ A
          /\ \A x \in DOMAIN owner \ A : Drop(owner, A)[x] = owner[x]
          /\ DOMAIN Drop(orphans, B) = DOMAIN orphans \ B
          /\ \A x \in DOMAIN orphans \ B : Drop(orphans, B)[x] = orphans[x]
      BY DropAt
    <3> QED BY <3>1, <3>2
  <2> QED BY <1>3, <2>1
<1>13. Records'
  <2>1. IsFiniteSet(DOMAIN owner') /\ IsFiniteSet(DOMAIN orphans')
    BY <1>12, FS_Subset DEF OwnershipInv, Shape, Records
  <2> QED BY <1>2, <1>12, <2>1 DEF OwnershipInv, Shape, Records
<1>14. /\ Offered' \subseteq Offered /\ Offers(toDaemon') = {}
       /\ Distinct(toAddon') /\ Distinct(served') /\ Distinct(ready')
       /\ Offers(toAddon') \cap Offers(served') = {} /\ Offers(toAddon') \cap Offers(ready') = {}
       /\ Offers(served') \cap Offers(ready') = {}
  BY <1>1, <1>2, <1>4, <1>6, <1>9 DEF Offered
<1>15. EpochsKept /\ (port = "down" => toDaemon' = <<>>) /\ N = {} /\ X = {}
  BY <1>2, SameEpochs DEF OwnershipInv, Connected
<1> HIDE DEF N, X
<1> QED BY <1>2, <1>10, <1>11, <1>12, <1>13, <1>14, <1>15, MoveKept

(* The calls q, from place n + 1 of the port on: the one at place i is      *)
(* forgotten, its answer will find nobody (sendFrame).                     *)
Forgotten(q, n, i) == [j \in DOMAIN q |-> [q[j] EXCEPT !.live = @ /\ n + j # i]]

Forgets(q, p, n, i) ==
  /\ p \in Seq(Calls) /\ Offers(p) = Offers(q) /\ (Distinct(q) => Distinct(p))
  /\ \A e \in Range(p) : \E c \in Range(q) : Alike(c, e)
  /\ \A j \in DOMAIN q : (n + j = i) \/ \E e \in Range(p) : e.live = q[j].live /\ Alike(q[j], e)

LEMMA ForgetsIs ==
  ASSUME NEW q \in Seq(Calls), NEW n \in Nat, NEW i \in Nat
  PROVE  Forgets(q, Forgotten(q, n, i), n, i)
<1> DEFINE p == Forgotten(q, n, i)
<1> DEFINE E(j) == [q[j] EXCEPT !.live = @ /\ n + j # i]
<1>1. DOMAIN q = 1..Len(q) /\ Len(q) \in Nat /\ \A j \in DOMAIN q : q[j] \in Calls
  OBVIOUS
<1>2. \A j \in DOMAIN q :
        /\ E(j) \in Calls /\ E(j).op = q[j].op /\ E(j).tok = q[j].tok /\ E(j).why = q[j].why
        /\ E(j).owned = q[j].owned /\ E(j).status = q[j].status
        /\ E(j).live = (q[j].live /\ n + j # i)
  <2> SUFFICES ASSUME NEW j \in DOMAIN q
               PROVE  /\ E(j) \in Calls /\ E(j).op = q[j].op /\ E(j).tok = q[j].tok
                      /\ E(j).why = q[j].why /\ E(j).owned = q[j].owned
                      /\ E(j).status = q[j].status /\ E(j).live = (q[j].live /\ n + j # i)
    OBVIOUS
  <2> DEFINE c == q[j]
             l == (c.live /\ n + j # i)
  <2>1. c \in Calls /\ l \in BOOLEAN /\ E(j) = [c EXCEPT !.live = l]
    BY <1>1
  <2> HIDE DEF c, l, E
  <2>2. LET e == [c EXCEPT !.live = l]
        IN  /\ e \in Calls /\ e.op = c.op /\ e.tok = c.tok /\ e.why = c.why /\ e.by = c.by
            /\ e.owned = c.owned /\ e.live = l /\ e.status = c.status /\ e.dev = c.dev
    BY <2>1, LiveIsCall
  <2> QED BY <2>1, <2>2 DEF c, l
<1>3. DOMAIN p = DOMAIN q /\ \A j \in DOMAIN q : p[j] = E(j)
  BY DEF Forgotten
<1> HIDE DEF E, p
<1>4. p \in Seq(Calls)
  <2>1. p = [j \in 1..Len(q) |-> E(j)]
    BY <1>1, <1>3 DEF E, Forgotten, p
  <2>2. p \in [1..Len(q) -> Calls]
    BY <1>1, <1>2, <2>1
  <2> QED BY <1>1, <2>2
<1>5. OffersAt(p) = OffersAt(q) /\ \A j \in OffersAt(q) : p[j].tok = q[j].tok
  BY <1>2, <1>3 DEF OffersAt
<1>6. Offers(p) = Offers(q) /\ (Distinct(q) => Distinct(p))
  BY <1>5 DEF Offers, Distinct
<1>7. \A e \in Range(p) : \E c \in Range(q) : Alike(c, e)
  BY <1>2, <1>3 DEF Range, Alike
<1>8. \A j \in DOMAIN q : n + j = i \/ \E e \in Range(p) : e.live = q[j].live /\ Alike(q[j], e)
  <2> SUFFICES ASSUME NEW j \in DOMAIN q, n + j # i
               PROVE  \E e \in Range(p) : e.live = q[j].live /\ Alike(q[j], e)
    OBVIOUS
  <2>1. p[j] \in Range(p) /\ q[j].live \in BOOLEAN
    BY <1>1, <1>3, CallIs DEF Range
  <2>2. p[j].live = q[j].live /\ Alike(q[j], p[j])
    BY <1>2, <1>3, <2>1 DEF Alike
  <2> QED BY <2>1, <2>2
<1> QED BY <1>4, <1>6, <1>7, <1>8 DEF Forgets, p

LEMMA ThreeAt ==
  ASSUME NEW S, NEW s \in Seq(S), NEW u \in Seq(S), NEW v \in Seq(S)
  PROVE  /\ s \o u \o v \in Seq(S)
         /\ \A j \in DOMAIN s : (s \o u \o v)[0 + j] = s[j]
         /\ \A j \in DOMAIN u : (s \o u \o v)[Len(s) + j] = u[j]
         /\ \A j \in DOMAIN v : (s \o u \o v)[Len(s) + Len(u) + j] = v[j]
         /\ Len(s) \in Nat /\ Len(u) \in Nat
<1> DEFINE x == s \o u
           y == x \o v
<1>1. /\ x \in Seq(S) /\ Len(x) = Len(s) + Len(u)
      /\ DOMAIN s = 1..Len(s) /\ DOMAIN u = 1..Len(u) /\ DOMAIN v = 1..Len(v)
      /\ Len(s) \in Nat /\ Len(u) \in Nat /\ Len(v) \in Nat
      /\ \A j \in 1..Len(s) : x[j] = s[j]
      /\ \A j \in 1..Len(u) : x[Len(s) + j] = u[j]
  OBVIOUS
<1> HIDE DEF x
<1>2. /\ y \in Seq(S) /\ \A j \in 1..Len(x) : y[j] = x[j]
      /\ \A j \in 1..Len(v) : y[Len(x) + j] = v[j]
  BY <1>1
<1> HIDE DEF y
<1>3. \A j \in DOMAIN s : y[0 + j] = s[j]
  <2> SUFFICES ASSUME NEW j \in DOMAIN s PROVE y[0 + j] = s[j]
    OBVIOUS
  <2>1. j \in 1..Len(x) /\ 0 + j = j
    BY <1>1
  <2> QED BY <1>1, <1>2, <2>1
<1>4. \A j \in DOMAIN u : y[Len(s) + j] = u[j]
  <2> SUFFICES ASSUME NEW j \in DOMAIN u PROVE y[Len(s) + j] = u[j]
    OBVIOUS
  <2>1. Len(s) + j \in 1..Len(x)
    BY <1>1
  <2> QED BY <1>1, <1>2, <2>1
<1>5. \A j \in DOMAIN v : y[Len(s) + Len(u) + j] = v[j]
  BY <1>1, <1>2
<1> QED BY <1>1, <1>2, <1>3, <1>4, <1>5 DEF x, y

(* Where in the port the calls of each part of it are *)
LEMMA CrossingAt ==
  ASSUME Shape
  PROVE  /\ \A j \in DOMAIN toAddon : Crossing[0 + j] = toAddon[j]
         /\ \A j \in DOMAIN served : Crossing[Len(toAddon) + j] = served[j]
         /\ \A j \in DOMAIN toDaemon : Crossing[Len(toAddon) + Len(served) + j] = toDaemon[j]
         /\ Len(toAddon) \in Nat /\ Len(served) \in Nat
         /\ DOMAIN Crossing = 1..Len(Crossing) /\ Len(Crossing) \in Nat
         /\ \A i \in DOMAIN Crossing : Crossing[i] \in InFlight /\ Crossing[i] \in Calls
<1>1. toAddon \in Seq(Calls) /\ served \in Seq(Calls) /\ toDaemon \in Seq(Calls)
  BY DEF Shape, Queues
<1>2. /\ Crossing \in Seq(Calls)
      /\ \A j \in DOMAIN toAddon : Crossing[0 + j] = toAddon[j]
      /\ \A j \in DOMAIN served : Crossing[Len(toAddon) + j] = served[j]
      /\ \A j \in DOMAIN toDaemon : Crossing[Len(toAddon) + Len(served) + j] = toDaemon[j]
      /\ Len(toAddon) \in Nat /\ Len(served) \in Nat
  BY <1>1, ThreeAt DEF Crossing
<1>3. /\ DOMAIN Crossing = 1..Len(Crossing) /\ Len(Crossing) \in Nat
      /\ \A i \in DOMAIN Crossing : Crossing[i] \in Calls
  BY <1>2
<1>4. \A i \in DOMAIN Crossing : Crossing[i] \in InFlight
  BY DEF InFlight, Range
<1> QED BY <1>2, <1>3, <1>4

LEMMA ErrIsCall ==
  ASSUME NEW c \in Calls
  PROVE  LET e == [c EXCEPT !.status = "err"]
         IN  /\ e \in Calls /\ e.op = c.op /\ e.tok = c.tok /\ e.why = c.why
             /\ e.owned = c.owned /\ e.live = c.live /\ e.status = "err"
BY DEF Calls

(* The deadline of sendFrame: the request is forgotten where it is, and    *)
(* its continuation is told of an error.                                   *)
LEMMA TimeOutKept == ASSUME OwnershipInv, TimeOut PROVE OwnershipInv'
<1>1. PICK i \in DOMAIN Crossing :
          LET c == Crossing[i]
              Forget(q, n) == [j \in DOMAIN q |-> [q[j] EXCEPT !.live = @ /\ n + j # i]]
          IN  /\ c.op # "gone" /\ c.live
              /\ toAddon' = Forget(toAddon, 0)
              /\ served' = Forget(served, Len(toAddon))
              /\ toDaemon' = Forget(toDaemon, Len(toAddon) + Len(served))
              /\ ready' = <<[c EXCEPT !.status = "err"]>>
  BY DEF TimeOut
<1> DEFINE c == Crossing[i]
           e0 == [c EXCEPT !.status = "err"]
           one == <<e0>>
           m == Len(toAddon) + Len(served)
           z == 0
           N == {}
           X == {}
<1>2. /\ ready = <<>>
      /\ UNCHANGED <<bgVars, loopVars, port, epoch, bridgeVars, opened>>
  BY DEF TimeOut, Quiet
<1>3. UNCHANGED <<granted, frames, ctl, revoke, port, epoch, link, duty, removedTabs, opened, owner,
                  orphans>>
  BY <1>2 DEF bgVars, loopVars, bridgeVars
<1>4. /\ toAddon \in Seq(Calls) /\ served \in Seq(Calls) /\ toDaemon \in Seq(Calls) /\ Shape
      /\ Distinct(toAddon) /\ Distinct(served) /\ Distinct(ready) /\ Offers(toDaemon) = {}
      /\ Offers(toAddon) \cap Offers(served) = {}
  BY DEF OwnershipInv, Shape, Queues, Fresh
<1>5. /\ \A j \in DOMAIN toAddon : Crossing[z + j] = toAddon[j]
      /\ \A j \in DOMAIN served : Crossing[Len(toAddon) + j] = served[j]
      /\ \A j \in DOMAIN toDaemon : Crossing[m + j] = toDaemon[j]
      /\ Len(toAddon) \in Nat /\ Len(served) \in Nat /\ i \in Nat /\ c \in InFlight /\ c \in Calls
  BY <1>4, CrossingAt
<1>6. m \in Nat /\ z \in Nat
  BY <1>5
<1>7. /\ toAddon' = Forgotten(toAddon, z, i)
      /\ served' = Forgotten(served, Len(toAddon), i)
      /\ toDaemon' = Forgotten(toDaemon, m, i)
      /\ ready' = one /\ c.live
  BY <1>1 DEF Forgotten
<1> HIDE DEF c, m, z
<1>8. /\ e0 \in Calls /\ Alike(c, e0) /\ e0.live /\ e0.status = "err"
  BY <1>5, <1>7, ErrIsCall DEF Alike
<1> HIDE DEF e0
<1>9. one \in Seq(Calls) /\ Range(one) = {e0}
  BY <1>8, OneCall
<1> HIDE DEF one
<1>10. Offers(one) = {} /\ Distinct(one)
  BY <1>8, <1>9, NoneOffered
<1>11. /\ toAddon' \in Seq(Calls) /\ Offers(toAddon') = Offers(toAddon) /\ Distinct(toAddon')
       /\ \A e \in Range(toAddon') : \E x \in Range(toAddon) : Alike(x, e)
       /\ \A j \in DOMAIN toAddon :
            z + j = i \/ \E e \in Range(toAddon') : e.live = toAddon[j].live /\ Alike(toAddon[j], e)
  <2>1. Forgets(toAddon, Forgotten(toAddon, z, i), z, i)
    BY <1>4, <1>5, <1>6, ForgetsIs
  <2>2. Forgets(toAddon, toAddon', z, i)
    BY <1>7, <2>1
  <2> QED BY <1>4, <2>2 DEF Forgets
<1>12. /\ served' \in Seq(Calls) /\ Offers(served') = Offers(served) /\ Distinct(served')
       /\ \A e \in Range(served') : \E x \in Range(served) : Alike(x, e)
       /\ \A j \in DOMAIN served :
            \/ Len(toAddon) + j = i
            \/ \E e \in Range(served') : e.live = served[j].live /\ Alike(served[j], e)
  <2>1. Forgets(served, Forgotten(served, Len(toAddon), i), Len(toAddon), i)
    BY <1>4, <1>5, <1>6, ForgetsIs
  <2>2. Forgets(served, served', Len(toAddon), i)
    BY <1>7, <2>1
  <2> QED BY <1>4, <2>2 DEF Forgets
<1>13. /\ toDaemon' \in Seq(Calls) /\ Offers(toDaemon') = {}
       /\ \A e \in Range(toDaemon') : \E x \in Range(toDaemon) : Alike(x, e)
       /\ \A j \in DOMAIN toDaemon :
            m + j = i \/ \E e \in Range(toDaemon') : e.live = toDaemon[j].live /\ Alike(toDaemon[j], e)
  <2>1. Forgets(toDaemon, Forgotten(toDaemon, m, i), m, i)
    BY <1>4, <1>5, <1>6, ForgetsIs
  <2>2. Forgets(toDaemon, toDaemon', m, i)
    BY <1>7, <2>1
  <2> QED BY <1>4, <2>2 DEF Forgets
<1>14. Queues'
  BY <1>7, <1>9, <1>11, <1>12, <1>13 DEF Queues
<1>15. Crosses(InFlight, InFlight', N, X)
  <2>1. InFlight = Range(toAddon) \cup Range(served) \cup Range(toDaemon) \cup Range(ready)
    BY InFlightIs DEF OwnershipInv
  <2>2. InFlight' = Range(toAddon') \cup Range(served') \cup Range(toDaemon') \cup Range(ready')
    BY <1>14, NextInFlightIs
  <2>3. Range(ready) = {} /\ Range(ready') = {e0}
    BY <1>2, <1>7, <1>9, RangeOfEmpty
  <2>4. \A e \in InFlight' : \E x \in InFlight : Alike(x, e)
    BY <1>5, <1>8, <1>11, <1>12, <1>13, <2>1, <2>2, <2>3
  <2>5. \A x \in Range(toAddon) : x.live => \E e \in InFlight' : e.live /\ Alike(x, e)
    <3> SUFFICES ASSUME NEW x \in Range(toAddon), x.live
                 PROVE  \E e \in InFlight' : e.live /\ Alike(x, e)
      OBVIOUS
    <3>1. PICK j \in DOMAIN toAddon : x = toAddon[j]
      BY DEF Range
    <3>2. CASE z + j = i
      <4>1. x = c
        BY <1>5, <3>1, <3>2 DEF c
      <4> QED BY <1>8, <2>2, <2>3, <4>1
    <3>3. CASE z + j # i
      BY <1>11, <2>2, <3>1, <3>3
    <3> QED BY <3>2, <3>3
  <2>6. \A x \in Range(served) : x.live => \E e \in InFlight' : e.live /\ Alike(x, e)
    <3> SUFFICES ASSUME NEW x \in Range(served), x.live
                 PROVE  \E e \in InFlight' : e.live /\ Alike(x, e)
      OBVIOUS
    <3>1. PICK j \in DOMAIN served : x = served[j]
      BY DEF Range
    <3>2. CASE Len(toAddon) + j = i
      <4>1. x = c
        BY <1>5, <3>1, <3>2 DEF c
      <4> QED BY <1>8, <2>2, <2>3, <4>1
    <3>3. CASE Len(toAddon) + j # i
      BY <1>12, <2>2, <3>1, <3>3
    <3> QED BY <3>2, <3>3
  <2>7. \A x \in Range(toDaemon) : x.live => \E e \in InFlight' : e.live /\ Alike(x, e)
    <3> SUFFICES ASSUME NEW x \in Range(toDaemon), x.live
                 PROVE  \E e \in InFlight' : e.live /\ Alike(x, e)
      OBVIOUS
    <3>1. PICK j \in DOMAIN toDaemon : x = toDaemon[j]
      BY DEF Range
    <3>2. CASE m + j = i
      <4>1. x = c
        BY <1>5, <3>1, <3>2 DEF c
      <4> QED BY <1>8, <2>2, <2>3, <4>1
    <3>3. CASE m + j # i
      BY <1>13, <2>2, <3>1, <3>3
    <3> QED BY <3>2, <3>3
  <2> QED BY <2>1, <2>3, <2>4, <2>5, <2>6, <2>7 DEF Crosses
<1>16. Records'
  BY <1>3 DEF OwnershipInv, Shape, Records
<1>17. /\ Offered' \subseteq Offered /\ Distinct(ready')
       /\ Offers(toAddon') \cap Offers(served') = {} /\ Offers(toAddon') \cap Offers(ready') = {}
       /\ Offers(served') \cap Offers(ready') = {}
  BY <1>4, <1>7, <1>10, <1>11, <1>12 DEF Offered
<1>18. EpochsKept /\ N = {} /\ X = {}
  BY <1>3, SameEpochs
<1>19. port = "down" => toDaemon' = <<>>
  <2> SUFFICES ASSUME toDaemon = <<>> PROVE toDaemon' = <<>>
    BY DEF OwnershipInv, Connected
  <2>1. DOMAIN toDaemon' = DOMAIN toDaemon
    BY <1>7 DEF Forgotten
  <2> QED BY <1>13, <2>1
<1>20. /\ DOMAIN owner' \subseteq DOMAIN owner /\ \A t \in DOMAIN owner' : owner'[t] = owner[t]
       /\ DOMAIN orphans' \subseteq DOMAIN orphans
  BY <1>3
<1> HIDE DEF N, X
<1> QED BY <1>3, <1>11, <1>12, <1>13, <1>14, <1>15, <1>16, <1>17, <1>18, <1>19, <1>20, MoveKept

(* retirePort: the queues are gone with the port, and so is all authority. *)
LEMMA PortLostKept == ASSUME OwnershipInv, PortLost PROVE OwnershipInv'
<1> DEFINE S == {i \in DOMAIN Crossing : Crossing[i].live /\ Crossing[i].op # "gone"}
           E(i) == [Crossing[i] EXCEPT !.status = "err"]
<1>1. PICK at \in SetToSeqs(S) : ready' = [i \in DOMAIN at |-> E(at[i])]
  BY DEF PortLost
<1>2. /\ toDaemon' = <<>> /\ served' = <<>> /\ toAddon' = <<>> /\ ClearAuthority
      /\ port' \in {"up", "down"}
      /\ UNCHANGED <<granted, loopVars, bridgeVars, opened>>
  BY DEF PortLost
<1>3. UNCHANGED <<granted, ctl, revoke, link, duty, removedTabs>>
  BY <1>2 DEF loopVars, bridgeVars
<1>4. /\ DOMAIN Crossing = 1..Len(Crossing) /\ Len(Crossing) \in Nat
      /\ \A i \in DOMAIN Crossing : Crossing[i] \in InFlight /\ Crossing[i] \in Calls
  BY CrossingAt DEF OwnershipInv
<1>5. IsFiniteSet(S)
  <2>1. IsFiniteSet(1..Len(Crossing))
    BY <1>4, FS_Interval
  <2>2. S \subseteq 1..Len(Crossing)
    BY <1>4
  <2> QED BY <2>1, <2>2, FS_Subset
<1>6. at \in Seq(S) /\ Range(at) = S
  BY <1>1, <1>5, SeqOfSet
<1>7. \A i \in S : E(i) \in Calls /\ E(i).status = "err" /\ Alike(Crossing[i], E(i))
  BY <1>4, StatusIsCall DEF Alike
<1>8. \A i \in S : i \in DOMAIN Crossing
  OBVIOUS
<1> HIDE DEF S, E
<1>9. DOMAIN at = 1..Len(at) /\ Len(at) \in Nat /\ \A i \in DOMAIN at : at[i] \in S
  BY <1>6
<1>10. ready' \in Seq(Calls)
  <2>1. ready' \in [1..Len(at) -> Calls]
    BY <1>1, <1>7, <1>9
  <2> QED BY <1>9, <2>1
<1>11. \A e \in Range(ready') : e.status = "err" /\ \E c \in InFlight : Alike(c, e)
  <2> SUFFICES ASSUME NEW e \in Range(ready')
               PROVE  e.status = "err" /\ \E c \in InFlight : Alike(c, e)
    OBVIOUS
  <2>1. PICK j \in DOMAIN at : e = E(at[j])
    BY <1>1 DEF Range
  <2>2. at[j] \in S /\ Crossing[at[j]] \in InFlight
    BY <1>4, <1>8, <1>9
  <2> QED BY <1>7, <2>1, <2>2
<1>12. Offers(ready') = {} /\ Distinct(ready')
  BY <1>10, <1>11, NoneOffered
<1>13. /\ Offers(toDaemon') = {} /\ Offers(served') = {} /\ Offers(toAddon') = {}
       /\ Distinct(toDaemon') /\ Distinct(served') /\ Distinct(toAddon')
       /\ Range(toDaemon') = {} /\ Range(served') = {} /\ Range(toAddon') = {}
       /\ toDaemon' \in Seq(Calls) /\ served' \in Seq(Calls) /\ toAddon' \in Seq(Calls)
  BY <1>2, RangeOfEmpty
<1>14. Queues'
  BY <1>10, <1>13 DEF Queues
<1>15. Offered' = {}
  BY <1>12, <1>13 DEF Offered
<1>16. InFlight' = Range(ready')
  BY <1>13, <1>14, NextInFlightIs
<1>17. DOMAIN owner' = {} /\ DOMAIN orphans' = {} /\ DOMAIN frames' = {}
  <2>1. /\ DOMAIN Drop(owner, Token) = DOMAIN owner \ Token
        /\ DOMAIN Drop(orphans, Token) = DOMAIN orphans \ Token
        /\ DOMAIN Drop(frames, Frame) = DOMAIN frames \ Frame
    BY DropAt
  <2> QED BY <1>2, <2>1 DEF ClearAuthority, OwnershipInv, Shape, Records
<1>18. Records'
  <2>1. IsFiniteSet(DOMAIN owner') /\ IsFiniteSet(DOMAIN orphans')
    BY <1>17, FS_EmptySet
  <2> QED BY <1>3, <1>17, <2>1 DEF OwnershipInv, Shape, Records
<1>19. /\ Handlers' /\ RevokeToks' = RevokeToks
       /\ \A x \in Rechecks' : x \in Rechecks /\ ctl'[x] = ctl[x]
  BY <1>3, NoTurn
<1>20. Known' \subseteq Known
  <2>1. \A c \in InFlight' : c.op = "close" => \E x \in InFlight : x.op = "close" /\ x.tok = c.tok
    BY <1>11, <1>16 DEF Alike
  <2>2. CloseToks' \subseteq CloseToks
    BY <2>1 DEF CloseToks
  <2>3. DutyToks' = DutyToks
    BY <1>3 DEF DutyToks
  <2> QED BY <1>17, <1>19, <2>2, <2>3 DEF Known
<1>21. Fresh'
  <2>1. /\ \A b \in Rechecks' : ctl'[b].tok \notin Known'
        /\ \A a, b \in Rechecks' : ctl'[a].tok = ctl'[b].tok => a = b
    BY <1>19, <1>20 DEF OwnershipInv, Fresh
  <2> QED BY <1>12, <1>13, <1>15, <2>1 DEF Fresh
<1>22. Connected'
  BY <1>2, <1>15, <1>17 DEF Connected
<1>23. Ending'
  BY <1>17 DEF Ending, PurgeOnlyRetired
<1> QED BY <1>14, <1>18, <1>19, <1>21, <1>22, <1>23 DEF OwnershipInv, Shape

---------------------------------------------------------------------------
(* The daemon *)

(* A session is opened: its token is new, and the answer is the first to   *)
(* mention it.                                                             *)
LEMMA MintedKept ==
  ASSUME OwnershipInv, served = <<>>, toDaemon # <<>>, toDaemon' = Tail(toDaemon),
         NEW c, c = Head(toDaemon), c.op = "open", NEW t \in Token, t \notin Mentioned,
         NEW e, e = [c EXCEPT !.status = "ok", !.tok = t], served' = <<e>>,
         opened' = Put(opened, t, [dev |-> c.dev, epoch |-> epoch]),
         UNCHANGED <<granted, owner, frames, orphans, ctl, revoke, port, epoch, ready, toAddon, link,
                     duty, removedTabs>>
  PROVE  OwnershipInv'
<1> DEFINE one == <<e>>
           rest == Tail(toDaemon)
<1>1. /\ toAddon \in Seq(Calls) /\ served \in Seq(Calls) /\ toDaemon \in Seq(Calls) /\ ready \in Seq(Calls)
      /\ Offers(toDaemon) = {} /\ Distinct(toDaemon)
  <2>1. /\ toAddon \in Seq(Calls) /\ served \in Seq(Calls) /\ toDaemon \in Seq(Calls)
        /\ ready \in Seq(Calls) /\ Offers(toDaemon) = {}
    BY DEF OwnershipInv, Shape, Queues, Fresh
  <2> QED BY <2>1 DEF Offers, Distinct
<1>2. rest \in Seq(Calls) /\ c \in Calls /\ Range(toDaemon) = {c} \cup Range(rest)
  BY <1>1, TailOf, RangeOfTail
<1>3. Offers(rest) = {}
  BY <1>1, OffersOfTail
<1>4. e \in Calls /\ e.op = "open" /\ e.tok = t /\ e.status = "ok"
  BY <1>2, MintedIsCall
<1>5. one \in Seq(Calls) /\ Range(one) = {e}
  BY <1>4, OneCall
<1>6. Offers(one) = {t} /\ Distinct(one)
  <2>1. DOMAIN one = {1} /\ one[1] = e
    OBVIOUS
  <2> HIDE DEF one
  <2>2. OffersAt(one) = {1}
    BY <1>4, <2>1 DEF OffersAt
  <2>3. one[1].tok = t
    BY <1>4, <2>1
  <2> QED BY <2>2, <2>3 DEF Distinct, Offers
<1>7. served' = one /\ toDaemon' = rest
  OBVIOUS
<1> HIDE DEF one, rest
<1>8. Queues'
  BY <1>1, <1>2, <1>5, <1>7 DEF Queues
<1>9. Offers(served) = {} /\ Range(served) = {}
  BY RangeOfEmpty
<1>10. InFlight = Range(toAddon) \cup {c} \cup Range(rest) \cup Range(ready)
  BY <1>2, <1>9, InFlightIs DEF OwnershipInv
<1>11. InFlight' = Range(toAddon) \cup {e} \cup Range(rest) \cup Range(ready)
  BY <1>5, <1>7, <1>8, NextInFlightIs
<1>12. \A x : x.op = "close" => (x \in InFlight <=> x \in InFlight')
  BY <1>4, <1>10, <1>11
<1>13. Records'
  BY DEF OwnershipInv, Shape, Records
<1>14. /\ Handlers' /\ RevokeToks' = RevokeToks
       /\ \A x \in Rechecks' : x \in Rechecks /\ ctl'[x] = ctl[x]
  BY NoTurn
<1>15. Known' = Known
  <2>1. CloseToks' = CloseToks
    BY <1>12 DEF CloseToks
  <2> QED BY <1>14, <2>1 DEF Known, DutyToks
<1>16. Offered' = Offered \cup {t}
  BY <1>6, <1>7, <1>9 DEF Offered
<1>17. /\ \A x \in InFlight : x.tok # t
       /\ t \notin DOMAIN owner /\ t \notin DOMAIN orphans /\ t \notin DutyToks /\ t \notin RevokeToks
       /\ \A b \in Bridge : ctl[b].tok # t
  <2>1. /\ \A i \in DOMAIN Crossing : Crossing[i].tok # t
        /\ \A i \in DOMAIN ready : ready[i].tok # t
    BY DEF Mentioned
  <2>2. \A x \in InFlight : x.tok # t
    BY <2>1 DEF InFlight, Range
  <2>3. /\ t \notin DOMAIN owner /\ t \notin DOMAIN orphans /\ t \notin DutyToks
        /\ t \notin RevokeToks /\ \A b \in Bridge : ctl[b].tok # t
    BY DEF Mentioned, DutyToks, RevokeToks
  <2> QED BY <2>2, <2>3
<1>18. t \notin Known
  BY <1>17 DEF Known, CloseToks
<1>19. t \notin Offers(toAddon) /\ t \notin Offers(ready)
  <2>1. \A i \in DOMAIN toAddon : toAddon[i] \in InFlight
    BY <1>10 DEF Range
  <2>2. \A i \in DOMAIN ready : ready[i] \in InFlight
    BY <1>10 DEF Range
  <2> QED BY <1>17, <2>1, <2>2 DEF Offers, OffersAt
<1>20. Fresh'
  <2>1. /\ Offers(toDaemon') = {} /\ Distinct(toAddon') /\ Distinct(served') /\ Distinct(ready')
        /\ Offers(toAddon') \cap Offers(served') = {}
        /\ Offers(toAddon') \cap Offers(ready') = {}
        /\ Offers(served') \cap Offers(ready') = {}
    BY <1>3, <1>6, <1>7, <1>19 DEF OwnershipInv, Fresh
  <2>2. Offered' \cap Known' = {}
    BY <1>15, <1>16, <1>18 DEF OwnershipInv, Fresh
  <2>3. /\ \A b \in Rechecks' : ctl'[b].tok \notin Offered' /\ ctl'[b].tok \notin Known'
        /\ \A a, b \in Rechecks' : ctl'[a].tok = ctl'[b].tok => a = b
    BY <1>14, <1>15, <1>16, <1>17 DEF OwnershipInv, Fresh, Rechecks
  <2> QED BY <2>1, <2>2, <2>3 DEF Fresh
<1>21. Connected'
  <2> DEFINE new == [dev |-> c.dev, epoch |-> epoch]
  <2>1. /\ DOMAIN opened' = DOMAIN opened \cup {t} /\ opened'[t].epoch = epoch
        /\ \A x \in DOMAIN opened : x # t => opened'[x] = opened[x]
    <3>1. new.epoch = epoch
      OBVIOUS
    <3> HIDE DEF new
    <3>2. opened' = Put(opened, t, new)
      BY DEF new
    <3>3. /\ DOMAIN Put(opened, t, new) = DOMAIN opened \cup {t} /\ Put(opened, t, new)[t] = new
          /\ \A x \in DOMAIN opened : x # t => Put(opened, t, new)[x] = opened[x]
      BY DEF Put
    <3> QED BY <3>1, <3>2, <3>3
  <2>2. \A x : Current(x) => (x \in DOMAIN opened' => opened'[x].epoch = epoch')
    BY <2>1 DEF Current
  <2>3. port = "up"
    BY DEF OwnershipInv, Connected
  <2>4. \A x \in DOMAIN owner' \cup Offered' : (x \in DOMAIN opened' => opened'[x].epoch = epoch')
    BY <1>16, <2>1, <2>2 DEF OwnershipInv, Connected
  <2>5. (\A x \in DOMAIN owner \cup Offered : Current(x))'
    BY <2>4 DEF Current
  <2>6. \A b \in Rechecks' : (ctl'[b].frame \in DOMAIN frames' /\ frames'[ctl'[b].frame] = "active")
                               => (port' = "up" /\ (ctl'[b].tok \in DOMAIN opened' =>
                                                      opened'[ctl'[b].tok].epoch = epoch'))
    BY <1>14, <2>2 DEF OwnershipInv, Connected
  <2>7. port' = "up"
    BY <2>3
  <2> QED BY <2>5, <2>6, <2>7 DEF Connected, Current
<1>22. Ending'
  <2> DEFINE N == {}
             X == {}
  <2>1. Crosses(InFlight, InFlight', N, X)
    BY <1>12 DEF Crosses, Alike
  <2>2. \A x \in DOMAIN owner' : owner[x].frame \in Frame
    BY DEF OwnershipInv, Shape, Records, OwnerRec
  <2>3. \A f \in Frame : (Purgeable(f) => Purgeable(f)') /\ (Retired(f)' => Retired(f))
    BY DEF Purgeable, Retired
  <2>4. \A x \in DOMAIN owner' : Ungranted(x)' => Ungranted(x)
    BY DEF Ungranted
  <2>5. /\ \A f \in DOMAIN frames' : link'[BridgeOf[f]] = "gone" => frames'[f] = "retired"
        /\ \A x \in DOMAIN owner' : owner[x].frame \in DOMAIN frames'
                                       \/ TabOfFrame(owner[x].frame) \in removedTabs'
    BY DEF OwnershipInv, Ending
  <2>6. /\ \A x \in X : (x.op = "close" /\ x.why # "close") => x.tok \notin DOMAIN owner'
        /\ \A x \in N : (x.op = "close" /\ x.tok \in DOMAIN owner') => x.owned
        /\ \A x \in N, f \in Frame :
             (x.why = "purge" /\ x.tok \in DOMAIN owner' /\ f = owner[x.tok].frame) => Purgeable(f)'
    OBVIOUS
  <2> HIDE DEF N, X
  <2> QED BY <1>8, <1>14, <2>1, <2>2, <2>3, <2>4, <2>5, <2>6, EndingKept DEF OwnershipInv
<1> QED BY <1>8, <1>13, <1>14, <1>20, <1>21, <1>22 DEF OwnershipInv, Shape

(* The daemon serves a request without a new session. *)
LEMMA ServedKept ==
  ASSUME OwnershipInv, served = <<>>, toDaemon # <<>>, toDaemon' = Tail(toDaemon),
         NEW c, c = Head(toDaemon), NEW e \in Calls, served' = <<e>>,
         e.op = c.op, e.tok = c.tok, e.why = c.why, e.owned = c.owned, e.live = c.live,
         e.op # "open" \/ e.status # "ok", EpochsKept,
         UNCHANGED <<granted, owner, frames, orphans, ctl, revoke, port, epoch, ready, toAddon, link,
                     duty, removedTabs>>
  PROVE  OwnershipInv'
<1> DEFINE one == <<e>>
           rest == Tail(toDaemon)
           N == {}
           X == {}
<1>1. /\ toAddon \in Seq(Calls) /\ served \in Seq(Calls) /\ toDaemon \in Seq(Calls) /\ ready \in Seq(Calls)
      /\ Offers(toDaemon) = {} /\ Distinct(toDaemon)
  <2>1. /\ toAddon \in Seq(Calls) /\ served \in Seq(Calls) /\ toDaemon \in Seq(Calls)
        /\ ready \in Seq(Calls) /\ Offers(toDaemon) = {}
    BY DEF OwnershipInv, Shape, Queues, Fresh
  <2> QED BY <2>1 DEF Offers, Distinct
<1>2. rest \in Seq(Calls) /\ c \in Calls /\ Range(toDaemon) = {c} \cup Range(rest)
  BY <1>1, TailOf, RangeOfTail
<1>3. Offers(rest) = {}
  BY <1>1, OffersOfTail
<1>4. one \in Seq(Calls) /\ Range(one) = {e}
  BY OneCall
<1>5. Offers(one) = {} /\ Distinct(one)
  <2>1. DOMAIN one = {1} /\ one[1] = e
    OBVIOUS
  <2> HIDE DEF one
  <2> QED BY <2>1 DEF Distinct, Offers, OffersAt
<1>6. served' = one /\ toDaemon' = rest
  OBVIOUS
<1> HIDE DEF one, rest
<1>7. Queues'
  BY <1>1, <1>2, <1>4, <1>6 DEF Queues
<1>8. Range(served) = {}
  BY RangeOfEmpty
<1>9. InFlight = Range(toAddon) \cup {c} \cup Range(rest) \cup Range(ready)
  BY <1>2, <1>8, InFlightIs DEF OwnershipInv
<1>10. InFlight' = Range(toAddon) \cup {e} \cup Range(rest) \cup Range(ready)
  BY <1>4, <1>6, <1>7, NextInFlightIs
<1>11. Crosses(InFlight, InFlight', N, X)
  BY <1>9, <1>10 DEF Crosses, Alike
<1>12. Records'
  BY DEF OwnershipInv, Shape, Records
<1>13. /\ Offers(toDaemon') = {} /\ Offers(served') = {} /\ Offered' \subseteq Offered
       /\ Distinct(toAddon') /\ Distinct(served') /\ Distinct(ready')
       /\ Offers(toAddon') \cap Offers(served') = {} /\ Offers(toAddon') \cap Offers(ready') = {}
       /\ Offers(served') \cap Offers(ready') = {}
  BY <1>3, <1>5, <1>6 DEF OwnershipInv, Fresh, Offered
<1>14. (port = "down" => toDaemon' = <<>>) /\ N = {} /\ X = {}
  BY DEF OwnershipInv, Connected
<1> HIDE DEF N, X
<1> QED BY <1>7, <1>11, <1>12, <1>13, <1>14, MoveKept

LEMMA DaemonServeKept == ASSUME OwnershipInv, DaemonServe PROVE OwnershipInv'
<1> DEFINE c == Head(toDaemon)
<1>1. /\ served = <<>> /\ toDaemon # <<>> /\ toDaemon' = Tail(toDaemon)
      /\ (c.op = "open" /\ ServeOpen(c)) \/ (c.op = "close" /\ ServeClose(c))
      /\ UNCHANGED <<bgVars, loopVars, port, epoch, ready, toAddon, bridgeVars>>
  BY DEF DaemonServe
<1>2. UNCHANGED <<granted, owner, frames, orphans, ctl, revoke, port, epoch, ready, toAddon, link,
                  duty, removedTabs>>
  BY <1>1 DEF bgVars, loopVars, bridgeVars
<1>3. c \in Calls /\ c = Head(toDaemon)
  <2>1. toDaemon \in Seq(Calls)
    BY DEF OwnershipInv, Shape, Queues
  <2> QED BY <1>1, <2>1, TailOf
<1> HIDE DEF c
<1>4. CASE \E t \in Token \ Mentioned :
             /\ opened' = Put(opened, t, [dev |-> c.dev, epoch |-> epoch])
             /\ served' = <<[c EXCEPT !.status = "ok", !.tok = t]>> /\ c.op = "open"
  <2>1. PICK t \in Token \ Mentioned :
             /\ opened' = Put(opened, t, [dev |-> c.dev, epoch |-> epoch])
             /\ served' = <<[c EXCEPT !.status = "ok", !.tok = t]>> /\ c.op = "open"
    BY <1>4
  <2> DEFINE e == [c EXCEPT !.status = "ok", !.tok = t]
  <2>2. e = [c EXCEPT !.status = "ok", !.tok = t] /\ served' = <<e>> /\ t \in Token /\ t \notin Mentioned
    BY <2>1
  <2> HIDE DEF e
  <2> QED BY <1>1, <1>2, <1>3, <2>1, <2>2, MintedKept
<1>5. CASE EpochsKept /\ served' = <<[c EXCEPT !.status = "err"]>>
  <2> DEFINE e == [c EXCEPT !.status = "err"]
  <2>1. /\ e \in Calls /\ e.op = c.op /\ e.tok = c.tok /\ e.why = c.why
        /\ e.owned = c.owned /\ e.live = c.live /\ e.status = "err"
    BY <1>3, ErrIsCall
  <2>2. served' = <<e>>
    BY <1>5
  <2> HIDE DEF e
  <2> QED BY <1>1, <1>2, <1>3, <1>5, <2>1, <2>2, ServedKept
<1>6. CASE EpochsKept /\ served' = <<[c EXCEPT !.status = "ok"]>> /\ c.op = "close"
  <2> DEFINE e == [c EXCEPT !.status = "ok"]
  <2>1. /\ e \in Calls /\ e.op = c.op /\ e.tok = c.tok /\ e.why = c.why
        /\ e.owned = c.owned /\ e.live = c.live /\ e.op # "open"
    BY <1>3, <1>6 DEF Calls
  <2>2. served' = <<e>>
    BY <1>6
  <2> HIDE DEF e
  <2> QED BY <1>1, <1>2, <1>3, <1>6, <2>1, <2>2, ServedKept
<1>7. ASSUME c.op = "open", ServeOpen(c)
      PROVE  \/ \E t \in Token \ Mentioned :
                  /\ opened' = Put(opened, t, [dev |-> c.dev, epoch |-> epoch])
                  /\ served' = <<[c EXCEPT !.status = "ok", !.tok = t]>> /\ c.op = "open"
             \/ EpochsKept /\ served' = <<[c EXCEPT !.status = "err"]>>
  <2>1. CASE opened' = opened /\ served' = <<[c EXCEPT !.status = "err"]>>
    BY <2>1, SameEpochs
  <2>2. CASE \E t \in Token \ Mentioned :
                  /\ opened' = Put(opened, t, [dev |-> c.dev, epoch |-> epoch])
                  /\ served' = <<[c EXCEPT !.status = "ok", !.tok = t]>>
    BY <1>7, <2>2
  <2> QED BY <1>7, <2>1, <2>2 DEF ServeOpen
<1>8. ASSUME c.op = "close", ServeClose(c)
      PROVE  EpochsKept /\ (served' = <<[c EXCEPT !.status = "err"]>>
                             \/ served' = <<[c EXCEPT !.status = "ok"]>>)
  <2> DEFINE S == {c.tok}
  <2>1. opened' = opened \/ opened' = Drop(opened, S)
    BY <1>8 DEF ServeClose
  <2> HIDE DEF S
  <2>2. EpochsKept
    BY <2>1, DropEpochs, SameEpochs
  <2>3. served' = <<[c EXCEPT !.status = "err"]>> \/ served' = <<[c EXCEPT !.status = "ok"]>>
    BY <1>8 DEF ServeClose
  <2> QED BY <2>2, <2>3
<1> QED BY <1>1, <1>4, <1>5, <1>6, <1>7, <1>8

LEMMA DaemonAnswerKept == ASSUME OwnershipInv, DaemonAnswer PROVE OwnershipInv'
<1> DEFINE N == {}
           X == {}
<1>1. /\ toAddon' = toAddon \o served /\ served' = <<>>
      /\ UNCHANGED <<granted, owner, frames, orphans, ctl, revoke, port, epoch, ready, toDaemon, link,
                     duty, removedTabs, opened>>
  BY DEF DaemonAnswer, bgVars, loopVars, portVars, bridgeVars
<1>2. /\ toAddon \in Seq(Calls) /\ served \in Seq(Calls) /\ toDaemon \in Seq(Calls) /\ ready \in Seq(Calls)
      /\ Distinct(toAddon) /\ Distinct(served) /\ Distinct(ready) /\ Offers(toDaemon) = {}
      /\ Offers(toAddon) \cap Offers(served) = {}
      /\ Offers(toAddon) \cap Offers(ready) = {} /\ Offers(served) \cap Offers(ready) = {}
  BY DEF OwnershipInv, Shape, Queues, Fresh
<1>3. toAddon' \in Seq(Calls) /\ Range(toAddon') = Range(toAddon) \cup Range(served)
  BY <1>1, <1>2, RangeOfConcat
<1>4. Offers(toAddon') = Offers(toAddon) \cup Offers(served) /\ Distinct(toAddon')
  BY <1>1, <1>2, OffersOfConcat
<1>5. /\ Offers(served') = {} /\ Distinct(served') /\ Range(served') = {} /\ served' \in Seq(Calls)
  BY <1>1, RangeOfEmpty
<1>6. Queues'
  BY <1>1, <1>2, <1>3, <1>5 DEF Queues
<1>7. InFlight' = InFlight
  <2>1. InFlight = Range(toAddon) \cup Range(served) \cup Range(toDaemon) \cup Range(ready)
    BY InFlightIs DEF OwnershipInv
  <2>2. InFlight' = Range(toAddon') \cup Range(served') \cup Range(toDaemon') \cup Range(ready')
    BY <1>6, NextInFlightIs
  <2> QED BY <1>1, <1>3, <1>5, <2>1, <2>2
<1>8. Crosses(InFlight, InFlight', N, X)
  BY <1>7, StayCrosses
<1>9. Records'
  BY <1>1 DEF OwnershipInv, Shape, Records
<1>10. /\ Offers(toDaemon') = {} /\ Offered' \subseteq Offered /\ Distinct(ready')
       /\ Offers(toAddon') \cap Offers(served') = {} /\ Offers(toAddon') \cap Offers(ready') = {}
       /\ Offers(served') \cap Offers(ready') = {}
  BY <1>1, <1>2, <1>4, <1>5 DEF Offered
<1>11. EpochsKept /\ (port = "down" => toDaemon' = <<>>) /\ N = {} /\ X = {}
  BY <1>1, SameEpochs DEF OwnershipInv, Connected
<1>12. /\ DOMAIN owner' \subseteq DOMAIN owner /\ \A t \in DOMAIN owner' : owner'[t] = owner[t]
       /\ DOMAIN orphans' \subseteq DOMAIN orphans
  BY <1>1
<1> HIDE DEF N, X
<1> QED BY <1>1, <1>4, <1>5, <1>6, <1>8, <1>9, <1>10, <1>11, <1>12, MoveKept

(* The event of a device that was removed is no answer to anything. *)
LEMMA EventSentKept ==
  ASSUME OwnershipInv, NEW d \in Device, EventSent(d)
  PROVE  OwnershipInv'
<1> DEFINE e == Call("gone", d, None, "event", None, FALSE)
           one == <<e>>
           N == {}
           X == {}
<1>1. /\ opened' = Drop(opened, SessionsOn(d))
      /\ toAddon' = Append(toAddon, e) \/ toAddon' = toAddon
      /\ UNCHANGED <<granted, owner, frames, orphans, ctl, revoke, port, epoch, ready, toDaemon, link,
                     duty, removedTabs, served>>
  BY DEF EventSent, bgVars, loopVars, portVars, bridgeVars
<1>2. /\ toAddon \in Seq(Calls) /\ served \in Seq(Calls) /\ toDaemon \in Seq(Calls) /\ ready \in Seq(Calls)
      /\ Distinct(toAddon) /\ Distinct(served) /\ Distinct(ready) /\ Offers(toDaemon) = {}
      /\ Offers(toAddon) \cap Offers(served) = {}
      /\ Offers(toAddon) \cap Offers(ready) = {} /\ Offers(served) \cap Offers(ready) = {}
  BY DEF OwnershipInv, Shape, Queues, Fresh
<1>3. e \in Calls /\ e.op = "gone" /\ e.status = "none"
  BY GoneIsCall DEF Call
<1> HIDE DEF e
<1>4. Append(toAddon, e) = toAddon \o one
  BY <1>2, <1>3
<1>5. one \in Seq(Calls) /\ Range(one) = {e}
  BY <1>3, OneCall
<1> HIDE DEF one
<1>6. Offers(one) = {} /\ Distinct(one)
  BY <1>3, <1>5, NoneOffered
<1>7. /\ toAddon' \in Seq(Calls) /\ Offers(toAddon') = Offers(toAddon) /\ Distinct(toAddon')
      /\ Range(toAddon) \subseteq Range(toAddon') /\ Range(toAddon') \subseteq Range(toAddon) \cup {e}
  <2>1. CASE toAddon' = Append(toAddon, e)
    <3> DEFINE more == toAddon \o one
    <3>1. /\ more \in Seq(Calls) /\ Range(more) = Range(toAddon) \cup Range(one)
          /\ Offers(more) = Offers(toAddon) \cup Offers(one)
          /\ (Distinct(toAddon) /\ Distinct(one) /\ Offers(toAddon) \cap Offers(one) = {}) => Distinct(more)
      BY <1>2, <1>5, RangeOfConcat, OffersOfConcat
    <3>2. toAddon' = more
      BY <1>4, <2>1
    <3> HIDE DEF more
    <3>3. Offers(more) = Offers(toAddon) /\ Distinct(more)
      BY <1>2, <1>6, <3>1
    <3> QED BY <1>5, <3>1, <3>2, <3>3
  <2>2. CASE toAddon' = toAddon
    BY <1>2, <2>2
  <2> QED BY <1>1, <2>1, <2>2
<1>8. Queues'
  BY <1>1, <1>2, <1>7 DEF Queues
<1>9. Crosses(InFlight, InFlight', N, X)
  <2>1. InFlight = Range(toAddon) \cup Range(served) \cup Range(toDaemon) \cup Range(ready)
    BY InFlightIs DEF OwnershipInv
  <2>2. InFlight' = Range(toAddon') \cup Range(served') \cup Range(toDaemon') \cup Range(ready')
    BY <1>8, NextInFlightIs
  <2>3. InFlight \subseteq InFlight' /\ InFlight' \subseteq InFlight \cup {e}
    BY <1>1, <1>7, <2>1, <2>2
  <2> QED BY <1>3, <2>3 DEF Crosses, Alike
<1>10. Records'
  BY <1>1 DEF OwnershipInv, Shape, Records
<1>11. /\ Offers(toDaemon') = {} /\ Offered' \subseteq Offered /\ Distinct(ready') /\ Distinct(served')
       /\ Offers(toAddon') \cap Offers(served') = {} /\ Offers(toAddon') \cap Offers(ready') = {}
       /\ Offers(served') \cap Offers(ready') = {}
  BY <1>1, <1>2, <1>7 DEF Offered
<1>12. EpochsKept /\ (port = "down" => toDaemon' = <<>>) /\ N = {} /\ X = {}
  BY <1>1, DropEpochs DEF OwnershipInv, Connected
<1>13. /\ DOMAIN owner' \subseteq DOMAIN owner /\ \A t \in DOMAIN owner' : owner'[t] = owner[t]
       /\ DOMAIN orphans' \subseteq DOMAIN orphans
  BY <1>1
<1> HIDE DEF N, X
<1> QED BY <1>1, <1>7, <1>8, <1>9, <1>10, <1>11, <1>12, <1>13, MoveKept

---------------------------------------------------------------------------
(* The invariant holds of every state, and what it says of the sessions *)

LEMMA InitOwned == Init => OwnershipInv
<1> SUFFICES ASSUME Init PROVE OwnershipInv
  OBVIOUS
<1>1. /\ toAddon = <<>> /\ served = <<>> /\ toDaemon = <<>> /\ ready = <<>>
      /\ granted = {} /\ duty = {} /\ port = "up" /\ removedTabs = {}
      /\ DOMAIN owner = {} /\ DOMAIN orphans = {} /\ DOMAIN frames = {} /\ DOMAIN opened = {}
      /\ ctl = [b \in Bridge |-> Idle] /\ revoke = [r \in Revoker |-> NoRevoke]
      /\ link = [b \in Bridge |-> "new"]
  BY DEF Init
<1>2. /\ Range(toAddon) = {} /\ Range(served) = {} /\ Range(toDaemon) = {} /\ Range(ready) = {}
      /\ Offers(toAddon) = {} /\ Offers(served) = {} /\ Offers(toDaemon) = {} /\ Offers(ready) = {}
      /\ Distinct(toAddon) /\ Distinct(served) /\ Distinct(ready) /\ Queues
  BY <1>1, RangeOfEmpty DEF Queues
<1>3. Rechecks = {} /\ RevokeToks = {} /\ (\A b \in Bridge : ctl[b].frame = None)
  BY <1>1, IdleIs DEF Rechecks, RevokeToks, NoRevoke
<1>4. Records
  <2>1. NoRevoke \in RevokeRec
    BY DEF NoRevoke, RevokeRec
  <2>2. ctl \in [Bridge -> CtlRec] /\ revoke \in [Revoker -> RevokeRec]
    BY <1>1, <2>1, IdleIs
  <2>3. IsFiniteSet(DOMAIN owner) /\ IsFiniteSet(DOMAIN orphans)
    BY <1>1, FS_EmptySet
  <2> QED BY <1>1, <2>2, <2>3 DEF Records
<1>5. InFlight = {}
  BY <1>2, <1>4, InFlightIs DEF Shape
<1>6. Handlers
  BY <1>1, <1>3 DEF Handlers, NoRevoke
<1>7. Offered = {} /\ Known = {}
  BY <1>1, <1>2, <1>3, <1>5 DEF Offered, Known, DutyToks, CloseToks
<1>8. Fresh
  BY <1>2, <1>3, <1>7 DEF Fresh
<1>9. Connected
  BY <1>1, <1>3, <1>7 DEF Connected, Current
<1>10. Ending
  BY <1>1, <1>5 DEF Ending, PurgeOnlyRetired
<1> QED BY <1>2, <1>4, <1>6, <1>8, <1>9, <1>10 DEF OwnershipInv, Shape

LEMMA NextOwned == OwnershipInv /\ [Next]_vars => OwnershipInv'
<1> SUFFICES ASSUME OwnershipInv, [Next]_vars PROVE OwnershipInv'
  OBVIOUS
<1>1. CASE Resume \/ Receive \/ TimeOut \/ PortLost \/ DaemonServe \/ DaemonAnswer \/ RetryOrphans
  BY <1>1, ResumeKept, ReceiveKept, TimeOutKept, PortLostKept, DaemonServeKept, DaemonAnswerKept,
     RetryOrphansKept
<1>2. CASE \/ \E o \in Origin, d \in Device : Pair(o, d)
           \/ \E b \in Bridge : BridgeUp(b)
           \/ \E f \in Frame : FrameDies(f)
           \/ \E f \in Frame, d \in Device : Notice(f, d)
           \/ DaemonEof \/ Connect
           \/ \E d \in Device : DeviceGone(d) \/ DeviceBack(d)
           \/ UNCHANGED vars
  BY <1>2, WorldKept
<1>3. ASSUME NEW b \in Bridge,
             OpenForbidden(b) \/ OpenSend(b) \/ OpenRegister(b) \/ OpenCleanup(b) \/ BridgeGone(b)
      PROVE  OwnershipInv'
  BY <1>3, OpenForbiddenKept, OpenSendKept, OpenRegisterKept, OpenCleanupKept, BridgeGoneKept
<1>4. ASSUME NEW f \in Frame, FrameDestroyed(f)
      PROVE  OwnershipInv'
  BY <1>4, FrameDestroyedKept
<1>5. ASSUME NEW f \in Frame, NEW d \in Device, OpenRequest(f, d) \/ CloseRequest(f, d)
      PROVE  OwnershipInv'
  BY <1>5, OpenRequestKept, CloseRequestKept
<1>6. ASSUME NEW b \in Bridge, NEW f \in Frame, NEW d \in Device, NEW t \in Token,
             CleanupSession(b, f, d, t)
      PROVE  OwnershipInv'
  BY <1>6, CleanupSessionKept
<1>7. ASSUME NEW tab \in Tab, TabRemoved(tab)
      PROVE  OwnershipInv'
  BY <1>7, TabRemovedKept
<1>8. ASSUME NEW r \in Revoker, NEW o \in Origin, NEW D \in SUBSET Device, RevokeStart(r, o, D)
      PROVE  OwnershipInv'
  BY <1>8, RevokeStartKept
<1>9. ASSUME NEW r \in Revoker, RevokeDevice(r)
      PROVE  OwnershipInv'
  BY <1>9, RevokeDeviceKept
<1>10. ASSUME NEW d \in Device, EventSent(d)
       PROVE  OwnershipInv'
  BY <1>10, EventSentKept
<1> QED BY <1>1, <1>2, <1>3, <1>4, <1>5, <1>6, <1>7, <1>8, <1>9, <1>10 DEF Next

(* In every state a session that is offered is known to nobody yet, what   *)
(* has an owner is of the connection that is up, and what should end is    *)
(* being closed (handleOpen, closeForCleanup, purgeFrame, purgeBridge,     *)
(* revokeDevices, clearAuthorityOwnership).                                *)
THEOREM OwnershipInvCorrect == Spec => []OwnershipInv
<1>1. Init => OwnershipInv
  BY InitOwned
<1>2. OwnershipInv /\ [Next]_vars => OwnershipInv'
  BY NextOwned
<1> QED BY <1>1, <1>2, PTL DEF Spec

LEMMA DyingIsClosing == ASSUME NEW t, Dying(t) PROVE Closing(t)
BY DEF Dying, Closing

(* A session whose origin lost the grant is on the list of a revoker or    *)
(* its close is under way: revokeDevices collects the sessions in the step *)
(* that takes the grant away, and handleOpen looks at the grant again      *)
(* before it registers one.                                                *)
THEOREM RevokedCorrect == Spec => []RevokedIsClosing
<1>1. OwnershipInv => RevokedIsClosing
  <2> SUFFICES ASSUME OwnershipInv, NEW t \in DOMAIN owner,
                      <<OriginOf[owner[t].frame], owner[t].dev>> \notin granted
               PROVE  \/ Closing(t)
                      \/ \E r \in Revoker : revoke[r].pc # "idle" /\ t \in revoke[r].toks
    BY DEF RevokedIsClosing
  <2>1. Dying(t) \/ t \in RevokeToks
    BY DEF OwnershipInv, Ending, Ungranted
  <2>2. CASE Dying(t)
    BY <2>2, DyingIsClosing
  <2>3. CASE t \in RevokeToks
    <3>1. PICK r \in Revoker : t \in revoke[r].toks
      BY <2>3 DEF RevokeToks
    <3>2. revoke[r].pc = "closing"
      BY <3>1 DEF OwnershipInv, Handlers
    <3> QED BY <3>1, <3>2
  <2> QED BY <2>1, <2>2, <2>3
<1> QED BY <1>1, OwnershipInvCorrect, PTL

(* A session whose frame was retired, or whose bridge is gone, is being    *)
(* closed: purgeFrame and purgeBridge send the close in the step that      *)
(* retires the frame, and handleOpen looks at the lifetime again.          *)
THEOREM RetiredCorrect == Spec => []RetiredIsClosing
<1>1. OwnershipInv => RetiredIsClosing
  BY DyingIsClosing DEF OwnershipInv, Ending, Retired, RetiredIsClosing
<1> QED BY <1>1, OwnershipInvCorrect, PTL

(* A purge never closes a session of a document that is still there        *)
(* (purgeFrame, purgeBridge, purgeTab).                                    *)
THEOREM PurgeCorrect == Spec => []PurgeOnlyRetired
<1>1. OwnershipInv => PurgeOnlyRetired
  BY DEF OwnershipInv, Ending
<1> QED BY <1>1, OwnershipInvCorrect, PTL

(* Nothing of a lost connection has an owner, not even a session whose     *)
(* open was answered just before (clearAuthorityOwnership, handleOpen).    *)
THEOREM OwnedCorrect == Spec => []OwnedByConnection
<1>1. OwnershipInv => OwnedByConnection
  BY DEF OwnershipInv, Connected, Current, OwnedByConnection
<1> QED BY <1>1, OwnershipInvCorrect, PTL
=============================================================================
