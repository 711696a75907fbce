-------------------------- MODULE FrameContextsProofs --------------------------
(***************************************************************************)
(* The bootstrap gate accepts one port per document, of that document, and *)
(* no session opened through a worker is lost, for any number of           *)
(* documents, offers, workers and tokens.                                  *)
(***************************************************************************)
EXTENDS FrameContexts, FiniteSetTheorems, WellFoundedInduction, TLAPS

-----------------------------------------------------------------------------
(* Types.  s is a state of the bridge, as in the operators of the gate. *)

CandRec == [port : Ports, live : BOOLEAN, expired : BOOLEAN]
CtxRec  == [doc : Nat, state : {"none", "live", "ending", "gone"}]
AskRec  == [op : {"open", "close", "drop", "clean", "purge"}, port : {0} \cup Ports,
            worker : Worker \cup {None}, tok : Token \cup {None}, serial : Nat]
PortMsg == {<<"gone">>, <<"response">>} \cup ({"worker", "drop"} \X Worker)
CallState == {"closed", "asked to open", "opening", "open", "asked to close", "closing"}
WorkerRec == [doc : Nat, run : BOOLEAN, asked : BOOLEAN, key : BOOLEAN, sent : BOOLEAN,
              call : CallState]

BridgeOK(s) ==
  /\ DOMAIN s = {"on", "serial", "target", "clean", "cands", "ctx", "source", "client",
                 "session", "control", "out"}
  /\ s.on \in BOOLEAN /\ s.serial \in Nat /\ s.target \in Nat /\ s.source \in {0} \cup Ports
  /\ s.cands \in Seq(CandRec) /\ s.ctx \in [Ports -> CtxRec] /\ s.control \in Seq(AskRec)
  /\ s.client \in [Worker -> {0} \cup Ports] /\ s.session \in [Worker -> Token \cup {None}]

StateOK ==
  /\ DOMAIN page = {"doc", "docs", "owner", "ready", "late", "worker"}
  /\ page.doc \in Nat /\ page.docs \in Nat /\ page.owner \in [Ports -> Nat]
  /\ page.worker \in [Worker -> WorkerRec]
  /\ posted \in Seq(Ports) /\ toBridge \in [Ports -> Seq(PortMsg)]
  /\ DOMAIN bg = {"live", "used"}

-----------------------------------------------------------------------------
(* The invariant of the gate *)

\* The contexts: each of the document whose port it has, one per document; the
\* document in the window has the one that is the source of the bridge.
ContextsOK(s) ==
  \A p \in Ports : s.ctx[p].doc # 0 =>
      /\ s.ctx[p].doc = page.owner[p]
      /\ \A q \in Ports \ {p} : s.ctx[q].doc # s.ctx[p].doc
      /\ s.ctx[p].doc = page.doc => s.source = p /\ Live(s, p)
      /\ s.on => s.ctx[p].doc \notin {s.target, page.doc}

\* The candidates: none of them has a context, and one that has answered its
\* probe, or still may, is of the target.
Asked(p) == \/ <<p, "probe">> \in toPage
            \/ \E i \in DOMAIN toBridge[p] : toBridge[p][i][1] = "response"
CandidatesOK(s) ==
  /\ s.on => s.target # 0
  /\ \A i \in DOMAIN s.cands :
       LET p == s.cands[i].port
       IN  /\ s.ctx[p].state = "none" /\ s.ctx[p].doc = 0 /\ page.owner[p] # 0
           /\ s.cands[i].live \/ Asked(p) => page.owner[p] = s.target
           /\ <<p, "probe">> \in s.out /\ page.owner[p] = page.doc => page.doc = s.target

\* The source is live, and a context that is being purged is not.
PurgesOK(s) ==
  /\ s.source # 0 => Live(s, s.source)
  /\ \A i \in DOMAIN s.control :
       s.control[i].op = "purge" => /\ s.control[i].port \in Ports
                                    /\ s.ctx[s.control[i].port].state \in {"ending", "gone"}

GateInv(s) == BridgeOK(s) /\ ContextsOK(s) /\ CandidatesOK(s) /\ PurgesOK(s)

\* A port nobody has offered, or whose offer is on its way, is unknown to the
\* bridge; only a document that has left says so.
Unknown(s, p) == /\ s.ctx[p].doc = 0 /\ s.ctx[p].state = "none" /\ <<p, "probe">> \notin s.out
                 /\ \A i \in DOMAIN s.cands : s.cands[i].port # p
Fresh(p) == Unknown(b, p) /\ ~Asked(p)
OffersOK ==
  /\ page.doc <= page.docs /\ \A p \in Ports : page.owner[p] <= page.docs
  /\ \A p \in Ports : page.owner[p] = 0 => Fresh(p)
  /\ \A p \in Ports : (\E i \in DOMAIN posted : posted[i] = p) => page.owner[p] # 0 /\ Fresh(p)
  /\ \A i, j \in DOMAIN posted : posted[i] = posted[j] => i = j
  /\ \A p \in Ports : \A i \in DOMAIN toBridge[p] :
       toBridge[p][i][1] = "gone" => page.owner[p] \notin {0, page.doc}

PortsInv == StateOK /\ b.out = {} /\ GateInv(b) /\ OffersOK

-----------------------------------------------------------------------------
(* The invariant of the sessions.  s is a state of the bridge, g of the    *)
(* background, k the workers, and N those the bridge has not heard of.     *)

Covered(s, g, t) ==
  \/ \E w \in Worker : s.session[w] = t /\ Registered(s, w)
  \/ \E i \in DOMAIN s.control :
       \/ s.control[i].op \in {"drop", "clean", "close"} /\ s.control[i].tok = t
       \/ s.control[i].op = "purge" /\ s.control[i].port = g.live[t]
AllCovered(s, g) == \A t \in DOMAIN g.live : Covered(s, g, t)

\* A client has a context, and its session is one of that context.
ClientsOK(s, g) ==
  \A w \in Worker : s.client[w] # 0 =>
      /\ Live(s, s.client[w])
      /\ s.session[w] \in DOMAIN g.live => g.live[s.session[w]] = s.client[w]

\* A worker has one call at a time, and no session before it has opened one.
CallsOK(s, k) ==
  /\ \A w \in Worker : k[w].call \in {"closed", "asked to open", "opening"} => s.session[w] = None
  /\ \A i \in DOMAIN s.control :
       LET r == s.control[i]
       IN  /\ r.op \in {"open", "close", "drop"} => r.worker \in Worker
           /\ r.op = "open" => k[r.worker].call = "opening"
           /\ r.op = "close" => k[r.worker].call = "closing"
  /\ \A i, j \in DOMAIN s.control :
       s.control[i].op \in {"open", "close"} /\ s.control[j].op \in {"open", "close"}
         /\ s.control[i].worker = s.control[j].worker => i = j

\* What ends the session of a worker names the one it has, and is served before
\* the next one is opened.
EndsOK(s, g) ==
  /\ \A i \in DOMAIN s.control :
       LET r == s.control[i]
       IN  r.op \in {"drop", "close"} /\ s.session[r.worker] \in DOMAIN g.live
             => r.tok = s.session[r.worker]
  /\ \A i, j \in DOMAIN s.control :
       s.control[i].op = "drop" /\ s.control[j].op = "open"
         /\ s.control[i].worker = s.control[j].worker => i < j

\* Tokens are not reused.
TokensOK(s, g) ==
  /\ DOMAIN g.live \subseteq g.used /\ g.used \subseteq Token
  /\ \A w \in Worker : s.session[w] \in g.used \cup {None}
  /\ \A i \in DOMAIN s.control : s.control[i].tok \in g.used \cup {None}

\* Nothing is known, or asked, of a worker the bridge has not heard of.
WorkersOK(s, N) ==
  \A w \in N : /\ s.client[w] = 0 /\ s.session[w] = None
               /\ \A i \in DOMAIN s.control :
                    s.control[i].op \in {"open", "close", "drop"} => s.control[i].worker # w

SessionsInv(s, g, k, N) ==
  /\ AllCovered(s, g) /\ ClientsOK(s, g) /\ CallsOK(s, k) /\ EndsOK(s, g)
  /\ TokensOK(s, g) /\ WorkersOK(s, N)

\* A worker is announced once, and does nothing before.
Announces(m, w) == m[1] = "worker" /\ m[2] = w
Announced(w) == \E p \in Ports : \E i \in DOMAIN toBridge[p] : Announces(toBridge[p][i], w)
NewWorkers == {w \in Worker : page.worker[w].doc = 0 \/ Announced(w)}
AnnouncedOK ==
  /\ \A w \in Worker : page.worker[w].doc = 0 =>
       page.worker[w].call = "closed" /\ ~page.worker[w].run /\ ~Announced(w)
  /\ \A w \in Worker : \A p, q \in Ports : \A i \in DOMAIN toBridge[p] : \A j \in DOMAIN toBridge[q] :
       Announces(toBridge[p][i], w) /\ Announces(toBridge[q][j], w) => p = q /\ i = j

FramesInv == PortsInv /\ SessionsInv(b, bg, page.worker, NewWorkers) /\ AnnouncedOK

-----------------------------------------------------------------------------
(* The operators of the gate: each keeps its invariant, leaves the ports it *)
(* does not know, and ends no context and no session (Grows).               *)

Grows(s, r) ==
  /\ r.client = s.client /\ r.session = s.session /\ r.control = s.control
  /\ \A p \in Ports : Live(s, p) => Live(r, p)
Leaves(s, r, P) == \A p \in Ports \ P : Unknown(s, p) => Unknown(r, p)

LEMMA EmptyCands == <<>> \in Seq(CandRec)
OBVIOUS

LEMMA NoPort == 0 \notin Ports
BY DEF Ports

\* Giving up a transition.
LEMMA FailKeeps ==
    ASSUME NEW s, GateInv(s)
    PROVE  GateInv(failTransition(s)) /\ Grows(s, failTransition(s)) /\ Leaves(s, failTransition(s), {})
<1> DEFINE r == failTransition(s)
<1>1. /\ BridgeOK(r) /\ r.ctx = s.ctx /\ r.source = s.source /\ r.on = FALSE /\ r.cands = <<>>
      /\ r.control = s.control /\ r.client = s.client /\ r.session = s.session /\ r.out = s.out
  BY EmptyCands DEF failTransition, GateInv, BridgeOK
<1> HIDE DEF r
<1>2. GateInv(r)
  BY <1>1 DEF GateInv, ContextsOK, CandidatesOK, PurgesOK, Live
<1>3. Grows(s, r) /\ Leaves(s, r, {})
  BY <1>1 DEF Grows, Leaves, Unknown, Live
<1> QED BY <1>2, <1>3 DEF r

\* The candidates are closed, and the target is the document in the window now.
LEMMA RetargetKeeps ==
    ASSUME NEW s, GateInv(s), StateOK, s.on, page.doc # 0
    PROVE  LET r == [s EXCEPT !.cands = <<>>, !.target = page.doc]
           IN  GateInv(r) /\ Grows(s, r) /\ Leaves(s, r, {})
<1> DEFINE r == [s EXCEPT !.cands = <<>>, !.target = page.doc]
<1>1. /\ BridgeOK(r) /\ r.ctx = s.ctx /\ r.source = s.source /\ r.on = s.on /\ r.cands = <<>>
      /\ r.control = s.control /\ r.target = page.doc
      /\ r.client = s.client /\ r.session = s.session /\ r.out = s.out
  BY EmptyCands DEF GateInv, BridgeOK, StateOK
<1> HIDE DEF r
<1>2. GateInv(r)
  BY <1>1 DEF GateInv, ContextsOK, CandidatesOK, PurgesOK, Live
<1>3. Grows(s, r) /\ Leaves(s, r, {})
  BY <1>1 DEF Grows, Leaves, Unknown, Live
<1> QED BY <1>2, <1>3 DEF r

\* Fewer candidates, or candidates with other deadlines, are as good.
LEMMA CandsKeep ==
    ASSUME NEW s, NEW c \in Seq(CandRec), GateInv(s),
           \A i \in DOMAIN c : \E j \in DOMAIN s.cands :
               /\ c[i].port = s.cands[j].port
               /\ c[i].live => s.cands[j].live \/ Asked(c[i].port)
    PROVE  LET r == [s EXCEPT !.cands = c] IN GateInv(r) /\ Grows(s, r) /\ Leaves(s, r, {})
<1> DEFINE r == [s EXCEPT !.cands = c]
<1>1. /\ BridgeOK(r) /\ r.ctx = s.ctx /\ r.source = s.source /\ r.on = s.on /\ r.cands = c
      /\ r.control = s.control /\ r.target = s.target /\ r.out = s.out
      /\ r.client = s.client /\ r.session = s.session
  BY DEF GateInv, BridgeOK
<1> HIDE DEF r
<1>2. ContextsOK(r) /\ PurgesOK(r)
  BY <1>1 DEF GateInv, ContextsOK, PurgesOK, Live
<1>3. CandidatesOK(r)
  <2> SUFFICES ASSUME NEW i \in DOMAIN c
               PROVE  /\ r.ctx[c[i].port].state = "none" /\ r.ctx[c[i].port].doc = 0
                      /\ page.owner[c[i].port] # 0
                      /\ (c[i].live \/ Asked(c[i].port)) => page.owner[c[i].port] = r.target
                      /\ (<<c[i].port, "probe">> \in r.out /\ page.owner[c[i].port] = page.doc)
                           => page.doc = r.target
    BY <1>1 DEF GateInv, CandidatesOK
  <2>1. PICK j \in DOMAIN s.cands : /\ c[i].port = s.cands[j].port
                                    /\ c[i].live => s.cands[j].live \/ Asked(c[i].port)
    OBVIOUS
  <2> QED BY <1>1, <2>1 DEF GateInv, CandidatesOK
<1>4. Grows(s, r) /\ Leaves(s, r, {})
  BY <1>1 DEF Grows, Leaves, Unknown, Live
<1> QED BY <1>1, <1>2, <1>3, <1>4 DEF GateInv, r

\* acceptBootstrapPort gives the target's own port its only context.
LEMMA AcceptKeeps ==
    ASSUME NEW s, GateInv(s), s.on, page.doc = s.target, NEW i \in DOMAIN s.cands, s.cands[i].live
    PROVE  LET r == acceptBootstrapPort(s, s.cands[i].port)
           IN  GateInv(r) /\ Grows(s, r) /\ Leaves(s, r, {})
<1> DEFINE p == s.cands[i].port  r == acceptBootstrapPort(s, p)
<1>0. s.cands[i] \in CandRec
  BY DEF GateInv, BridgeOK
<1>1. p \in Ports /\ s.target \in Nat
  BY <1>0 DEF GateInv, BridgeOK, CandRec
<1>2. s.ctx[p].doc = 0 /\ s.ctx[p].state = "none" /\ page.owner[p] = s.target /\ s.target # 0
  BY DEF GateInv, CandidatesOK
<1>3. ~Unknown(s, p)
  BY DEF Unknown
<1> HIDE DEF p
<1>4. /\ BridgeOK(r) /\ r.source = p /\ r.on = FALSE /\ r.cands = <<>> /\ r.control = s.control
      /\ r.ctx = [s.ctx EXCEPT ![p] = [doc |-> s.target, state |-> "live"]]
      /\ r.client = s.client /\ r.session = s.session /\ r.out = s.out \cup {<<p, "accepted">>}
  BY <1>1, EmptyCands DEF acceptBootstrapPort, GateInv, BridgeOK, CtxRec
<1> HIDE DEF r
<1>5. /\ r.ctx[p].doc = s.target /\ r.ctx[p].state = "live"
      /\ \A o \in Ports \ {p} : r.ctx[o] = s.ctx[o]
  BY <1>1, <1>4 DEF GateInv, BridgeOK
<1>6. \A o \in Ports \ {p} : s.ctx[o].doc # s.target
  BY <1>2 DEF GateInv, ContextsOK
<1>7. ContextsOK(r)
  BY <1>1, <1>2, <1>4, <1>5, <1>6 DEF GateInv, ContextsOK, Live
<1>8. CandidatesOK(r)
  BY <1>4 DEF CandidatesOK
<1>9. PurgesOK(r)
  BY <1>1, <1>2, <1>4, <1>5 DEF GateInv, PurgesOK, Live
<1>10. Grows(s, r)
  BY <1>1, <1>4, <1>5 DEF Grows, Live
<1>11. Leaves(s, r, {})
  BY <1>3, <1>4, <1>5 DEF Leaves, Unknown
<1> QED BY <1>4, <1>7, <1>8, <1>9, <1>10, <1>11 DEF GateInv, p, r

\* What leaves a prefix of the candidates out.
LEMMA SkipKeeps ==
    ASSUME NEW s, GateInv(s), NEW n \in Nat, n <= Len(s.cands)
    PROVE  LET c == SubSeq(s.cands, n + 1, Len(s.cands))
           IN  /\ c \in Seq(CandRec)
               /\ \A i \in DOMAIN c : i + n \in DOMAIN s.cands /\ c[i] = s.cands[i + n]
<1> DEFINE c == SubSeq(s.cands, n + 1, Len(s.cands))
<1>1. s.cands \in Seq(CandRec) /\ Len(s.cands) \in Nat /\ DOMAIN s.cands = 1..Len(s.cands)
  BY DEF GateInv, BridgeOK
<1>2. c = [i \in 1..(Len(s.cands) - n) |-> s.cands[i + n]]
  BY <1>1
<1>3. \A i \in 1..(Len(s.cands) - n) : i + n \in DOMAIN s.cands /\ s.cands[i + n] \in CandRec
  BY <1>1
<1>4. c \in Seq(CandRec)
  BY <1>1, <1>2, <1>3
<1> QED BY <1>1, <1>2, <1>3, <1>4

\* tryPromote: the expired are skipped, and the first one left is promoted, the
\* transition given up, or its target corrected.
LEMMA PromoteKeeps ==
    ASSUME NEW s, GateInv(s), StateOK
    PROVE  GateInv(tryPromote(s)) /\ Grows(s, tryPromote(s)) /\ Leaves(s, tryPromote(s), {})
<1> DEFINE gone == {i \in DOMAIN s.cands : \A j \in 1..i : s.cands[j].expired}
           n == Cardinality(gone)
           c == SubSeq(s.cands, n + 1, Len(s.cands))
           rest == [s EXCEPT !.cands = c]
           head == Head(rest.cands)
           r == tryPromote(s)
<1>1. s.cands \in Seq(CandRec) /\ Len(s.cands) \in Nat /\ DOMAIN s.cands = 1..Len(s.cands)
  BY DEF GateInv, BridgeOK
<1>2. n \in Nat /\ n <= Len(s.cands)
  <2>1. IsFiniteSet(1..Len(s.cands)) /\ Cardinality(1..Len(s.cands)) = Len(s.cands)
    BY <1>1, FS_Interval
  <2>2. IsFiniteSet(gone) /\ Cardinality(gone) <= Cardinality(1..Len(s.cands))
    BY <1>1, <2>1, FS_Subset
  <2> QED BY <2>1, <2>2, FS_CardinalityType
<1> HIDE DEF gone, n
<1>3. c \in Seq(CandRec) /\ \A i \in DOMAIN c : i + n \in DOMAIN s.cands /\ c[i] = s.cands[i + n]
  BY <1>2, SkipKeeps
<1>4. rest.cands = c /\ rest.on = s.on /\ rest.target = s.target
  BY DEF GateInv, BridgeOK
<1>5. r = CASE ~s.on \/ rest.cands = <<>> -> rest
            [] s.on /\ rest.cands # <<>> /\ (~head.live \/ ~s.clean) -> rest
            [] OTHER -> CASE page.doc = 0 -> failTransition(rest)
                          [] page.doc \notin {0, s.target} ->
                               [rest EXCEPT !.cands = <<>>, !.target = page.doc]
                          [] OTHER -> acceptBootstrapPort(rest, head.port)
  BY DEF tryPromote, gone, n
<1> HIDE DEF c
<1>6. GateInv(rest) /\ Grows(s, rest) /\ Leaves(s, rest, {})
  BY <1>3, CandsKeep
<1> HIDE DEF rest, r
<1>7. CASE ~s.on \/ c = <<>> \/ ~head.live \/ ~s.clean
  BY <1>4, <1>5, <1>6, <1>7 DEF r
<1>8. CASE s.on /\ c # <<>> /\ head.live /\ s.clean
  <2>1. 1 \in DOMAIN rest.cands /\ head = rest.cands[1]
    BY <1>3, <1>4, <1>8
  <2>2. CASE page.doc = 0
    <3>1. r = failTransition(rest)
      BY <1>4, <1>5, <1>8, <2>2
    <3>2. GateInv(r) /\ Grows(rest, r) /\ Leaves(rest, r, {})
      BY <1>6, <3>1, FailKeeps
    <3> QED BY <1>6, <3>2 DEF r, Grows, Leaves
  <2>3. CASE page.doc # 0 /\ page.doc # s.target
    <3>1. r = [rest EXCEPT !.cands = <<>>, !.target = page.doc]
      BY <1>4, <1>5, <1>8, <2>3
    <3>2. GateInv(r) /\ Grows(rest, r) /\ Leaves(rest, r, {})
      BY <1>4, <1>6, <1>8, <2>3, <3>1, RetargetKeeps
    <3> QED BY <1>6, <3>2 DEF r, Grows, Leaves
  <2>4. CASE page.doc # 0 /\ page.doc = s.target
    <3>1. r = acceptBootstrapPort(rest, rest.cands[1].port)
      BY <1>4, <1>5, <1>8, <2>1, <2>4
    <3>2. GateInv(r) /\ Grows(rest, r) /\ Leaves(rest, r, {})
      BY <1>4, <1>6, <1>8, <2>1, <2>4, <3>1, AcceptKeeps
    <3> QED BY <1>6, <3>2 DEF r, Grows, Leaves
  <2> QED BY <2>2, <2>3, <2>4
<1> QED BY <1>7, <1>8

\* addCandidate, in a transition to the document in the window.
LEMMA AddKeeps ==
    ASSUME NEW s, GateInv(s), s.on, s.target = page.doc, NEW p \in Ports, Unknown(s, p), ~Asked(p),
           page.owner[p] # 0
    PROVE  LET r == addCandidate(s, p) IN GateInv(r) /\ Grows(s, r) /\ Leaves(s, r, {p})
<1> DEFINE new == [port |-> p, live |-> FALSE, expired |-> FALSE]
           c == Append(s.cands, new)
           r == addCandidate(s, p)
<1>1. s.cands \in Seq(CandRec) /\ new \in CandRec
  BY DEF GateInv, BridgeOK, CandRec
<1>2. new.port = p /\ new.live = FALSE
  OBVIOUS
<1> HIDE DEF new
<1>3. /\ c \in Seq(CandRec)
      /\ \A i \in DOMAIN c : (i \in DOMAIN s.cands /\ c[i] = s.cands[i]) \/ c[i] = new
  BY <1>1
<1>4. /\ BridgeOK(r) /\ r.ctx = s.ctx /\ r.source = s.source /\ r.on = s.on /\ r.cands = c
      /\ r.control = s.control /\ r.target = s.target
      /\ r.client = s.client /\ r.session = s.session /\ r.out = s.out \cup {<<p, "probe">>}
  BY <1>1, <1>3 DEF addCandidate, GateInv, BridgeOK, new
<1> HIDE DEF c, r
<1>5. ContextsOK(r) /\ PurgesOK(r)
  BY <1>4 DEF GateInv, ContextsOK, PurgesOK, Live
<1>6. CandidatesOK(r)
  <2> SUFFICES ASSUME NEW i \in DOMAIN c
               PROVE  /\ r.ctx[c[i].port].state = "none" /\ r.ctx[c[i].port].doc = 0
                      /\ page.owner[c[i].port] # 0
                      /\ (c[i].live \/ Asked(c[i].port)) => page.owner[c[i].port] = r.target
                      /\ (<<c[i].port, "probe">> \in r.out /\ page.owner[c[i].port] = page.doc)
                           => page.doc = r.target
    BY <1>4 DEF GateInv, CandidatesOK
  <2>1. CASE c[i] = new
    BY <1>2, <1>4, <2>1 DEF Unknown
  <2>2. CASE i \in DOMAIN s.cands /\ c[i] = s.cands[i]
    BY <1>4, <2>2 DEF GateInv, CandidatesOK
  <2> QED BY <1>3, <2>1, <2>2
<1>7. Grows(s, r)
  BY <1>4 DEF Grows, Live
<1>8. Leaves(s, r, {p})
  BY <1>2, <1>3, <1>4 DEF Leaves, Unknown
<1> QED BY <1>4, <1>5, <1>6, <1>7, <1>8 DEF GateInv, r

\* destroyFrameContext, of a document that is not in the window.
Destroys(s, r, p) ==
  /\ r.session = s.session
  /\ r.client = [w \in Worker |-> IF s.client[w] = p THEN 0 ELSE s.client[w]]
  /\ \E x \in AskRec : /\ x.op = "purge" /\ x.port = p /\ x.tok = None
                       /\ r.control = Append(s.control, x)
  /\ \A q \in Ports \ {p} : Live(s, q) => Live(r, q)

LEMMA DestroyKeeps ==
    ASSUME NEW s, GateInv(s), NEW p \in Ports, s.ctx[p].doc = 0 \/ s.ctx[p].doc # page.doc
    PROVE  LET r == destroyFrameContext(s, p)
           IN  /\ GateInv(r) /\ Leaves(s, r, {})
               /\ Grows(s, r) \/ Destroys(s, r, p)
<1> DEFINE r == destroyFrameContext(s, p)
<1>1. CASE ~Live(s, p)
  <2>1. r = s
    BY <1>1 DEF destroyFrameContext
  <2>2. Grows(s, s) /\ Leaves(s, s, {})
    BY DEF Grows, Leaves
  <2> QED BY <2>1, <2>2
<1>2. CASE Live(s, p)
  <2> DEFINE x == [op |-> "purge", port |-> p, worker |-> None, tok |-> None,
                   serial |-> IF s.on /\ ~s.clean THEN s.serial ELSE 0]
             c == Append(s.control, x)
             k == [w \in Worker |-> IF s.client[w] = p THEN 0 ELSE s.client[w]]
             h == [s.ctx EXCEPT ![p] = [s.ctx[p] EXCEPT !.state = "ending"]]
  <2>1. x \in AskRec /\ x.op = "purge" /\ x.port = p /\ x.tok = None
    BY DEF GateInv, BridgeOK, AskRec
  <2>2. s.control \in Seq(AskRec) /\ s.client \in [Worker -> {0} \cup Ports] /\ s.ctx \in [Ports -> CtxRec]
    BY DEF GateInv, BridgeOK
  <2>3. r.control = c /\ r.client = k /\ r.ctx = h
    BY <1>2, <2>2 DEF destroyFrameContext, GateInv, BridgeOK
  <2>4. /\ r.source = (IF s.source = p THEN 0 ELSE s.source) /\ r.on = s.on /\ r.cands = s.cands
        /\ r.session = s.session /\ r.target = s.target /\ r.out = s.out /\ r.serial = s.serial
        /\ DOMAIN r = DOMAIN s
    BY <1>2 DEF destroyFrameContext, GateInv, BridgeOK
  <2>5. h \in [Ports -> CtxRec] /\ h[p].doc = s.ctx[p].doc /\ h[p].state = "ending"
        /\ \A q \in Ports \ {p} : h[q] = s.ctx[q]
    BY <2>2 DEF CtxRec
  <2> HIDE DEF x
  <2>6. /\ c \in Seq(AskRec)
        /\ \A i \in DOMAIN c : (i \in DOMAIN s.control /\ c[i] = s.control[i]) \/ c[i] = x
    BY <2>1, <2>2
  <2>7. k \in [Worker -> {0} \cup Ports]
    BY <2>2
  <2>8. Destroys(s, r, p)
    BY <2>1, <2>3, <2>4, <2>5 DEF Destroys, Live
  <2> HIDE DEF r, c, k, h
  <2>9. BridgeOK(r)
    BY <2>3, <2>4, <2>5, <2>6, <2>7 DEF GateInv, BridgeOK
  <2>10. ContextsOK(r)
    BY <2>3, <2>4, <2>5 DEF GateInv, ContextsOK, Live
  <2>11. CandidatesOK(r)
    <3>1. \A i \in DOMAIN s.cands : /\ s.cands[i].port \in Ports \ {p}
                                     /\ h[s.cands[i].port] = s.ctx[s.cands[i].port]
      <4> SUFFICES ASSUME NEW i \in DOMAIN s.cands
                   PROVE  s.cands[i].port \in Ports \ {p}
        BY <2>5
      <4>1. s.cands[i] \in CandRec
        BY DEF GateInv, BridgeOK
      <4> QED BY <1>2, <4>1 DEF GateInv, CandidatesOK, CandRec, Live
    <3> QED BY <2>3, <2>4, <3>1 DEF GateInv, CandidatesOK
  <2>12. PurgesOK(r)
    <3>1. r.source # 0 => r.source \in Ports \ {p} /\ Live(s, r.source)
      BY <2>4 DEF GateInv, BridgeOK, PurgesOK
    <3>2. \A i \in DOMAIN c : c[i].op = "purge" => /\ c[i].port \in Ports
                                                   /\ h[c[i].port].state \in {"ending", "gone"}
      <4> SUFFICES ASSUME NEW i \in DOMAIN c, c[i].op = "purge"
                   PROVE  c[i].port \in Ports /\ h[c[i].port].state \in {"ending", "gone"}
        OBVIOUS
      <4>1. CASE c[i] = x
        BY <2>1, <2>5, <4>1
      <4>2. CASE i \in DOMAIN s.control /\ c[i] = s.control[i]
        <5>1. c[i].port \in Ports /\ s.ctx[c[i].port].state \in {"ending", "gone"}
          BY <4>2 DEF GateInv, PurgesOK
        <5> QED BY <2>5, <5>1
      <4> QED BY <2>6, <4>1, <4>2
    <3> QED BY <2>3, <2>5, <3>1, <3>2 DEF PurgesOK, Live
  <2>13. Leaves(s, r, {})
    BY <1>2, <2>3, <2>4, <2>5 DEF Leaves, Unknown, Live
  <2> QED BY <2>8, <2>9, <2>10, <2>11, <2>12, <2>13 DEF GateInv, r
<1> QED BY <1>1, <1>2

\* startTransition, when the window has another document than the source.
LEMMA StartKeeps ==
    ASSUME NEW s, GateInv(s), StateOK, page.doc # 0, ~s.on,
           s.source # 0 => s.ctx[s.source].doc # page.doc,
           NEW p \in Ports, Unknown(s, p), ~Asked(p), page.owner[p] # 0
    PROVE  LET r == startTransition(s, p)
           IN  /\ GateInv(r) /\ Leaves(s, r, {p})
               /\ Grows(s, r) \/ \E q \in Ports : Destroys(s, r, q)
<1> DEFINE new == [s EXCEPT !.on = TRUE, !.serial = @ + 1, !.target = page.doc,
                            !.clean = s.source = 0, !.cands = <<>>]
           asked == addCandidate(new, p)
           r == startTransition(s, p)
<1>1. /\ BridgeOK(new) /\ new.ctx = s.ctx /\ new.source = s.source /\ new.on = TRUE /\ new.cands = <<>>
      /\ new.control = s.control /\ new.target = page.doc
      /\ new.client = s.client /\ new.session = s.session /\ new.out = s.out
  BY EmptyCands DEF GateInv, BridgeOK, StateOK
<1>2. r = IF s.source = 0 THEN asked ELSE destroyFrameContext(asked, s.source)
  BY DEF startTransition
<1>3. asked.ctx = new.ctx /\ asked.source = new.source
  BY DEF addCandidate, GateInv, BridgeOK
<1> HIDE DEF new
<1>4. ContextsOK(new)
  <2>1. \A q \in Ports : s.ctx[q].doc # 0 => s.ctx[q].doc # page.doc
    BY NoPort DEF GateInv, ContextsOK
  <2> QED BY <1>1, <2>1 DEF GateInv, ContextsOK, Live
<1>5. GateInv(new)
  BY <1>1, <1>4 DEF GateInv, CandidatesOK, PurgesOK, Live
<1>6. Unknown(new, p)
  BY <1>1 DEF Unknown
<1>7. GateInv(asked) /\ Grows(new, asked) /\ Leaves(new, asked, {p})
  BY <1>1, <1>5, <1>6, AddKeeps
<1>8. Grows(s, asked) /\ Leaves(s, asked, {p})
  BY <1>1, <1>7 DEF Grows, Leaves, Unknown, Live
<1> HIDE DEF asked, r
<1>9. CASE s.source = 0
  BY <1>2, <1>7, <1>8, <1>9 DEF r
<1>10. CASE s.source # 0
  <2>1. s.source \in Ports /\ asked.ctx[s.source].doc # page.doc
    BY <1>1, <1>3, <1>10 DEF GateInv, BridgeOK
  <2>2. /\ GateInv(r) /\ Leaves(asked, r, {})
        /\ Grows(asked, r) \/ Destroys(asked, r, s.source)
    BY <1>2, <1>7, <1>10, <2>1, DestroyKeeps
  <2>3. Leaves(s, r, {p})
    BY <1>8, <2>2 DEF Leaves
  <2>4. Grows(s, r) \/ Destroys(s, r, s.source)
    BY <1>8, <2>2 DEF Grows, Destroys
  <2> QED BY <2>1, <2>2, <2>3, <2>4 DEF r
<1> QED BY <1>9, <1>10

\* handleBootstrap, for an offer that arrives.
LEMMA OfferKeeps ==
    ASSUME NEW s, GateInv(s), StateOK,
           NEW p \in Ports, Unknown(s, p), ~Asked(p), page.owner[p] # 0
    PROVE  LET r == handleBootstrap(s, p)
           IN  /\ GateInv(r) /\ Leaves(s, r, {p})
               /\ Grows(s, r) \/ \E q \in Ports : Destroys(s, r, q)
<1> DEFINE r == handleBootstrap(s, p)
           same == \E i \in DOMAIN s.cands : s.cands[i].live
<1>0. Grows(s, s) /\ Leaves(s, s, {p})
  BY DEF Grows, Leaves
<1>1. CASE page.doc = 0 \/ (s.on /\ s.target = page.doc /\ same)
           \/ (~s.on /\ s.source # 0 /\ s.ctx[s.source].doc = page.doc)
  <2>1. r = s
    BY <1>1 DEF handleBootstrap, GateInv, BridgeOK
  <2> QED BY <1>0, <2>1
<1>2. CASE page.doc # 0 /\ s.on /\ s.target = page.doc /\ ~same
  <2>1. r = addCandidate(s, p)
    BY <1>2 DEF handleBootstrap, GateInv, BridgeOK
  <2> QED BY <1>2, <2>1, AddKeeps
<1>3. CASE page.doc # 0 /\ s.on /\ s.target # page.doc
  <2> DEFINE new == [s EXCEPT !.cands = <<>>, !.target = page.doc]
  <2>1. r = addCandidate(new, p)
    BY <1>3 DEF handleBootstrap, GateInv, BridgeOK
  <2>2. new.on /\ new.target = page.doc
    BY <1>3 DEF GateInv, BridgeOK
  <2> HIDE DEF new
  <2>3. GateInv(new) /\ Grows(s, new) /\ Leaves(s, new, {})
    BY <1>3, RetargetKeeps DEF new
  <2>4. Unknown(new, p)
    BY <2>3 DEF Leaves
  <2>5. GateInv(r) /\ Grows(new, r) /\ Leaves(new, r, {p})
    BY <2>1, <2>2, <2>3, <2>4, AddKeeps
  <2> HIDE DEF r
  <2>6. Grows(s, r) /\ Leaves(s, r, {p})
    BY <2>3, <2>5 DEF Grows, Leaves
  <2> QED BY <2>5, <2>6 DEF r
<1>4. CASE page.doc # 0 /\ ~s.on /\ (s.source = 0 \/ s.ctx[s.source].doc # page.doc)
  <2>1. r = startTransition(s, p)
    BY <1>4 DEF handleBootstrap, GateInv, BridgeOK
  <2> QED BY <1>4, <2>1, StartKeeps
<1> QED BY <1>1, <1>2, <1>3, <1>4

\* What only concerns clients, sessions and requests other than purges.
Same(s, r) ==
  /\ r.ctx = s.ctx /\ r.cands = s.cands /\ r.on = s.on /\ r.source = s.source /\ r.target = s.target
  /\ \A p \in Ports : <<p, "probe">> \in r.out => <<p, "probe">> \in s.out
  /\ \A i \in DOMAIN r.control :
       r.control[i].op = "purge" => \E j \in DOMAIN s.control : s.control[j] = r.control[i]

LEMMA SameKeeps ==
    ASSUME NEW s, GateInv(s), NEW r, BridgeOK(r), Same(s, r)
    PROVE  GateInv(r) /\ Leaves(s, r, {})
<1>1. ContextsOK(r)
  BY DEF GateInv, ContextsOK, Same, Live
<1>2. \A i \in DOMAIN s.cands : s.cands[i] \in CandRec
  BY DEF GateInv, BridgeOK
<1>3. CandidatesOK(r)
  <2> SUFFICES ASSUME NEW i \in DOMAIN s.cands,
                      <<s.cands[i].port, "probe">> \in r.out, page.owner[s.cands[i].port] = page.doc
               PROVE  page.doc = s.target
    BY DEF GateInv, CandidatesOK, Same
  <2>1. s.cands[i].port \in Ports
    BY <1>2 DEF CandRec
  <2> QED BY <2>1 DEF GateInv, CandidatesOK, Same
<1>4. PurgesOK(r)
  BY DEF GateInv, PurgesOK, Same, Live
<1>5. Leaves(s, r, {})
  BY DEF Leaves, Unknown, Same
<1> QED BY <1>1, <1>3, <1>4, <1>5 DEF GateInv

\* A message arrives on a port of the bridge (handlers of the client port).
LEMMA RegisterShape ==
    ASSUME NEW s, BridgeOK(s), NEW p \in Ports, NEW w
    PROVE  LET r == handleWorkerPortRequest(s, p, w)
           IN  BridgeOK(r) /\ Same(s, r)
<1> DEFINE r == handleWorkerPortRequest(s, p, w)
           c == [s.client EXCEPT ![w] = p]
<1>1. CASE ~Live(s, p)
  BY <1>1 DEF handleWorkerPortRequest, Same
<1>2. CASE Live(s, p)
  <2>1. c \in [Worker -> {0} \cup Ports]
    BY DEF BridgeOK
  <2>2. /\ DOMAIN r = DOMAIN s /\ r.on = s.on /\ r.serial = s.serial /\ r.target = s.target
        /\ r.source = s.source /\ r.cands = s.cands /\ r.ctx = s.ctx /\ r.control = s.control
        /\ r.client = c /\ r.session = s.session /\ r.out = s.out \cup {<<p, "worker", w>>}
    BY <1>2 DEF handleWorkerPortRequest, BridgeOK
  <2>3. \A q \in Ports : <<q, "probe">> # <<p, "worker", w>>
    OBVIOUS
  <2> HIDE DEF r, c
  <2>4. BridgeOK(r)
    BY <2>1, <2>2 DEF BridgeOK
  <2>5. Same(s, r)
    BY <2>2, <2>3 DEF Same
  <2> QED BY <2>4, <2>5 DEF r
<1> QED BY <1>1, <1>2

LEMMA UnregisterShape ==
    ASSUME NEW s, BridgeOK(s), NEW w
    PROVE  LET r == Unregister(s, w)
           IN  /\ BridgeOK(r) /\ Same(s, r) /\ r.control = s.control
               /\ r.client = [s.client EXCEPT ![w] = 0] /\ r.session = [s.session EXCEPT ![w] = None]
<1> DEFINE r == Unregister(s, w)
           c == [s.client EXCEPT ![w] = 0]
           d == [s.session EXCEPT ![w] = None]
<1>1. c \in [Worker -> {0} \cup Ports] /\ d \in [Worker -> Token \cup {None}]
  BY DEF BridgeOK
<1>2. /\ DOMAIN r = DOMAIN s /\ r.on = s.on /\ r.serial = s.serial /\ r.target = s.target
      /\ r.source = s.source /\ r.cands = s.cands /\ r.ctx = s.ctx /\ r.control = s.control
      /\ r.client = c /\ r.session = d /\ r.out = s.out
  BY DEF Unregister, BridgeOK
<1> HIDE DEF r, c, d
<1>3. BridgeOK(r)
  BY <1>1, <1>2 DEF BridgeOK
<1>4. Same(s, r)
  BY <1>2 DEF Same
<1> QED BY <1>2, <1>3, <1>4 DEF r, c, d

\* A request is appended; only destroyFrameContext asks for a purge.
LEMMA AskShape ==
    ASSUME NEW s, BridgeOK(s), NEW x \in AskRec, x.op # "purge"
    PROVE  LET r == [s EXCEPT !.control = Append(@, x)]
           IN  /\ BridgeOK(r) /\ Same(s, r) /\ r.control = Append(s.control, x)
               /\ r.client = s.client /\ r.session = s.session
<1> DEFINE r == [s EXCEPT !.control = Append(@, x)]
           c == Append(s.control, x)
<1>1. /\ c \in Seq(AskRec)
      /\ \A i \in DOMAIN c : (i \in DOMAIN s.control /\ c[i] = s.control[i]) \/ c[i] = x
  BY DEF BridgeOK
<1>2. /\ DOMAIN r = DOMAIN s /\ r.on = s.on /\ r.serial = s.serial /\ r.target = s.target
      /\ r.source = s.source /\ r.cands = s.cands /\ r.ctx = s.ctx /\ r.control = c
      /\ r.client = s.client /\ r.session = s.session /\ r.out = s.out
  BY DEF BridgeOK
<1> HIDE DEF r, c
<1>3. BridgeOK(r)
  BY <1>1, <1>2 DEF BridgeOK
<1>4. Same(s, r)
  BY <1>1, <1>2 DEF Same
<1> QED BY <1>2, <1>3, <1>4 DEF r, c

LEMMA RequestType ==
    ASSUME BridgeOK(b), NEW w \in Worker, NEW t \in Token \cup {None},
           NEW op \in {"open", "close", "drop"}
    PROVE  LET x == Request(op, w, t)
           IN  x \in AskRec /\ x.op = op /\ x.worker = w /\ x.tok = t /\ x.port = b.client[w]
BY DEF Request, BridgeOK, AskRec

LEMMA DropShape ==
    ASSUME BridgeOK(b), NEW w \in Worker
    PROVE  LET r == handleWorkerClientDestroyed(b, w) IN BridgeOK(r) /\ Same(b, r)
<1> DEFINE r == handleWorkerClientDestroyed(b, w)
<1>1. CASE ~Registered(b, w)
  BY <1>1 DEF handleWorkerClientDestroyed, Same
<1>2. CASE Registered(b, w) /\ b.session[w] = None
  <2>1. r = Unregister(b, w)
    BY <1>2 DEF handleWorkerClientDestroyed
  <2>2. BridgeOK(Unregister(b, w)) /\ Same(b, Unregister(b, w))
    BY UnregisterShape
  <2> QED BY <2>1, <2>2
<1>3. CASE Registered(b, w) /\ b.session[w] # None
  <2> DEFINE x == Request("drop", w, b.session[w])
  <2>1. r = [b EXCEPT !.control = Append(@, x)]
    BY <1>3 DEF handleWorkerClientDestroyed
  <2>2. x \in AskRec /\ x.op = "drop"
    BY RequestType DEF BridgeOK
  <2> HIDE DEF x
  <2>3. x.op # "purge"
    BY <2>2
  <2> HIDE DEF r
  <2>4. BridgeOK(r) /\ Same(b, r)
    BY <2>1, <2>2, <2>3, AskShape
  <2> QED BY <2>4 DEF r
<1> QED BY <1>1, <1>2, <1>3

\* The handler of a message on the port p of a document: that the document is
\* gone is true of it, and an answer is one to its probe.
LEMMA ArriveKeeps ==
    ASSUME GateInv(b), StateOK, NEW p \in Ports, NEW m \in PortMsg,
           m[1] = "gone" => b.ctx[p].doc = 0 \/ b.ctx[p].doc # page.doc,
           m[1] = "response" => Asked(p)
    PROVE  LET r == Arrives(b, p, m)
           IN  /\ GateInv(r) /\ Leaves(b, r, {})
               /\ \/ m[1] \notin {"worker", "drop", "gone"} /\ Grows(b, r)
                  \/ m[1] = "gone" /\ (Grows(b, r) \/ Destroys(b, r, p))
                  \/ m[1] = "worker" /\ m[2] \in Worker /\ r = handleWorkerPortRequest(b, p, m[2])
                  \/ m[1] = "drop" /\ m[2] \in Worker /\ r = handleWorkerClientDestroyed(b, m[2])
                  \/ m[1] = "drop" /\ r = b
<1> DEFINE r == Arrives(b, p, m)
           at == {i \in DOMAIN b.cands : b.cands[i].port = p /\ ~b.cands[i].expired}
           c == [i \in DOMAIN b.cands |->
                   IF i \in at THEN [b.cands[i] EXCEPT !.live = TRUE] ELSE b.cands[i]]
<1>0. Grows(b, b) /\ Leaves(b, b, {}) /\ BridgeOK(b)
  BY DEF Grows, Leaves, GateInv
<1>1. CASE m[1] = "response" /\ at # {}
  <2> DEFINE q == [b EXCEPT !.cands = c]
  <2>1. r = tryPromote(q)
    BY <1>1, <1>0 DEF Arrives, BridgeOK
  <2>2. c \in Seq(CandRec) /\ DOMAIN c = DOMAIN b.cands
    <3>1. \A i \in DOMAIN b.cands : b.cands[i] \in CandRec /\ [b.cands[i] EXCEPT !.live = TRUE] \in CandRec
      <4> TAKE i \in DOMAIN b.cands
      <4>1. b.cands[i] \in CandRec
        BY <1>0 DEF BridgeOK
      <4> QED BY <4>1 DEF CandRec
    <3>2. DOMAIN b.cands = 1..Len(b.cands) /\ Len(b.cands) \in Nat
      BY <1>0 DEF BridgeOK
    <3> DEFINE f(i) == IF i \in at THEN [b.cands[i] EXCEPT !.live = TRUE] ELSE b.cands[i]
    <3>3. \A i \in 1..Len(b.cands) : f(i) \in CandRec
      BY <3>1, <3>2
    <3>4. c = [i \in 1..Len(b.cands) |-> f(i)]
      BY <3>2
    <3> HIDE DEF f, at
    <3>5. [i \in 1..Len(b.cands) |-> f(i)] \in Seq(CandRec)
      BY <3>2, <3>3
    <3> QED BY <3>2, <3>4, <3>5
  <2>3. \A i \in DOMAIN c : \E j \in DOMAIN b.cands :
          /\ c[i].port = b.cands[j].port
          /\ c[i].live => b.cands[j].live \/ Asked(c[i].port)
    <3> SUFFICES ASSUME NEW i \in DOMAIN b.cands
                 PROVE  /\ c[i].port = b.cands[i].port
                        /\ c[i].live => b.cands[i].live \/ Asked(c[i].port)
      BY <2>2
    <3>1. b.cands[i] \in CandRec
      BY <1>0 DEF BridgeOK
    <3> QED BY <1>1, <3>1 DEF CandRec
  <2> HIDE DEF c
  <2>4. GateInv(q) /\ Grows(b, q) /\ Leaves(b, q, {})
    BY <2>2, <2>3, CandsKeep
  <2> HIDE DEF q, r
  <2>5. GateInv(r) /\ Grows(q, r) /\ Leaves(q, r, {})
    BY <2>1, <2>4, PromoteKeeps
  <2>6. Grows(b, r) /\ Leaves(b, r, {})
    BY <2>4, <2>5 DEF Grows, Leaves
  <2> QED BY <1>1, <2>5, <2>6 DEF r
<1>2. CASE m[1] = "gone"
  <2>1. r = destroyFrameContext(b, p)
    BY <1>2 DEF Arrives
  <2>2. GateInv(r) /\ Leaves(b, r, {}) /\ (Grows(b, r) \/ Destroys(b, r, p))
    BY <1>2, <2>1, DestroyKeeps
  <2> QED BY <1>2, <2>2
<1>3. CASE m[1] = "worker"
  <2>1. r = handleWorkerPortRequest(b, p, m[2]) /\ m[2] \in Worker
    BY <1>3 DEF Arrives, PortMsg
  <2>2. GateInv(r) /\ Leaves(b, r, {})
    BY <1>0, <2>1, RegisterShape, SameKeeps
  <2> QED BY <1>3, <2>1, <2>2
<1>4. CASE m[1] = "drop" /\ Live(b, p)
  <2>1. r = handleWorkerClientDestroyed(b, m[2]) /\ m[2] \in Worker
    BY <1>4 DEF Arrives, PortMsg
  <2>2. GateInv(r) /\ Leaves(b, r, {})
    BY <1>0, <2>1, DropShape, SameKeeps
  <2> QED BY <1>4, <2>1, <2>2
<1>5. CASE (m[1] = "drop" /\ ~Live(b, p)) \/ (m[1] = "response" /\ at = {})
  <2>1. r = b
    BY <1>5 DEF Arrives
  <2> QED BY <1>0, <1>5, <2>1
<1>6. m[1] \in {"gone", "response", "worker", "drop"}
  BY DEF PortMsg
<1> QED BY <1>1, <1>2, <1>3, <1>4, <1>5, <1>6

\* Runs: the step of the bridge ends, and what it sends is on its way.
LEMMA RunsKeep ==
    ASSUME NEW s, GateInv(s), Runs(s), page'.doc = page.doc, page'.owner = page.owner,
           \A p \in Ports : (\E i \in DOMAIN toBridge'[p] : toBridge'[p][i][1] = "response")
                              => \E i \in DOMAIN toBridge[p] : toBridge[p][i][1] = "response"
    PROVE  /\ GateInv(b)' /\ b'.out = {} /\ Grows(s, b') /\ Leaves(s, b', {})
           /\ \A p \in Ports : Asked(p)' => Asked(p) \/ <<p, "probe">> \in s.out
<1>1. /\ BridgeOK(b') /\ b'.ctx = s.ctx /\ b'.cands = s.cands /\ b'.on = s.on /\ b'.source = s.source
      /\ b'.target = s.target /\ b'.control = s.control /\ b'.client = s.client
      /\ b'.session = s.session /\ b'.out = {}
  BY DEF Runs, GateInv, BridgeOK
<1>2. \A p \in Ports : <<p, "probe">> \in toPage' =>
         <<p, "probe">> \in toPage \/ (<<p, "probe">> \in s.out /\ page.owner[p] = page.doc)
  BY DEF Runs
<1>3. ContextsOK(b)' /\ PurgesOK(b)'
  BY <1>1 DEF GateInv, ContextsOK, PurgesOK, Live
<1>4. CandidatesOK(b)'
  <2> SUFFICES ASSUME NEW i \in DOMAIN s.cands
               PROVE  (s.cands[i].live \/ Asked(s.cands[i].port)') => page.owner[s.cands[i].port] = s.target
    BY <1>1 DEF GateInv, CandidatesOK
  <2>1. s.cands[i] \in CandRec
    BY DEF GateInv, BridgeOK
  <2>2. s.cands[i].port \in Ports
    BY <2>1 DEF CandRec
  <2>3. Asked(s.cands[i].port)' => \/ Asked(s.cands[i].port)
                                   \/ <<s.cands[i].port, "probe">> \in s.out /\ page.owner[s.cands[i].port] = page.doc
    BY <1>2, <2>2 DEF Asked
  <2> QED BY <2>3 DEF GateInv, CandidatesOK
<1>5. Grows(s, b') /\ Leaves(s, b', {})
  BY <1>1 DEF Grows, Leaves, Unknown, Live
<1>6. \A p \in Ports : Asked(p)' => Asked(p) \/ <<p, "probe">> \in s.out
  BY <1>2 DEF Asked
<1> QED BY <1>1, <1>3, <1>4, <1>5, <1>6 DEF GateInv

-----------------------------------------------------------------------------
(* Every step keeps the invariant of the gate *)

\* A step of the bridge that handles what it knows of the ports, and maybe the
\* offers P, and leaves the window alone.
LEMMA BridgeStep ==
    ASSUME PortsInv, NEW s, NEW P, GateInv(s), Leaves(b, s, P), Runs(s),
           page'.doc = page.doc, page'.owner = page.owner, page'.docs = page.docs,
           \A p \in P : p \in Ports /\ page.owner[p] # 0,
           \A i \in DOMAIN posted' : /\ posted'[i] \notin P /\ posted'[i] \in Ports
                                     /\ \E j \in DOMAIN posted : posted'[i] = posted[j],
           \A i, j \in DOMAIN posted' : posted'[i] = posted'[j] => i = j,
           \A p \in Ports : \A i \in DOMAIN toBridge'[p] :
               \E j \in DOMAIN toBridge[p] : toBridge'[p][i] = toBridge[p][j]
    PROVE  GateInv(b)' /\ b'.out = {} /\ OffersOK'
<1>1. \A p \in Ports : (\E i \in DOMAIN toBridge'[p] : toBridge'[p][i][1] = "response")
                          => \E i \in DOMAIN toBridge[p] : toBridge[p][i][1] = "response"
  OBVIOUS
<1>2. /\ GateInv(b)' /\ b'.out = {} /\ Leaves(s, b', {})
      /\ \A p \in Ports : Asked(p)' => Asked(p) \/ <<p, "probe">> \in s.out
  BY <1>1, RunsKeep
<1>3. \A p \in Ports \ P : Fresh(p) => Fresh(p)'
  <2> SUFFICES ASSUME NEW p \in Ports \ P, Fresh(p)
               PROVE  Fresh(p)'
    OBVIOUS
  <2>1. Unknown(s, p) /\ Unknown(b', p)
    BY <1>2 DEF Leaves, Fresh
  <2>2. ~Asked(p)'
    BY <1>2, <2>1 DEF Fresh, Unknown
  <2> QED BY <2>1, <2>2 DEF Fresh, Unknown
<1>4. \A p \in Ports : page'.owner[p] = 0 => Fresh(p)'
  BY <1>3 DEF PortsInv, OffersOK
<1>5. \A p \in Ports : (\E i \in DOMAIN posted' : posted'[i] = p) => page'.owner[p] # 0 /\ Fresh(p)'
  BY <1>3 DEF PortsInv, OffersOK
<1>6. \A p \in Ports : \A i \in DOMAIN toBridge'[p] :
        toBridge'[p][i][1] = "gone" => page'.owner[p] \notin {0, page'.doc}
  BY DEF PortsInv, OffersOK
<1> QED BY <1>2, <1>4, <1>5, <1>6 DEF PortsInv, OffersOK

\* A step that leaves the bridge, the document in the window and the offers
\* alone, and adds to the ports neither an answer nor the end of the document.
LEMMA WindowStep ==
    ASSUME PortsInv, b' = b, page'.doc = page.doc, page'.owner = page.owner, page'.docs = page.docs,
           posted' = posted, \A p \in Ports : Asked(p)' => Asked(p),
           \A p \in Ports : \A i \in DOMAIN toBridge'[p] : toBridge'[p][i][1] = "gone" =>
               \E j \in DOMAIN toBridge[p] : toBridge[p][j][1] = "gone"
    PROVE  GateInv(b)' /\ b'.out = {} /\ OffersOK'
<1>1. /\ BridgeOK(b)' /\ ContextsOK(b)' /\ PurgesOK(b)'
  BY DEF PortsInv, GateInv, BridgeOK, ContextsOK, PurgesOK, Live
<1>2. CandidatesOK(b)'
  <2>1. \A i \in DOMAIN b.cands : b.cands[i].port \in Ports
    <3> TAKE i \in DOMAIN b.cands
    <3>1. b.cands[i] \in CandRec
      BY DEF PortsInv, GateInv, BridgeOK
    <3> QED BY <3>1 DEF CandRec
  <2> SUFFICES ASSUME NEW i \in DOMAIN b.cands
               PROVE  (b.cands[i].live \/ Asked(b.cands[i].port)') => page.owner[b.cands[i].port] = b.target
    BY DEF PortsInv, GateInv, CandidatesOK
  <2> QED BY <2>1 DEF PortsInv, GateInv, CandidatesOK
<1>3. \A p \in Ports : Fresh(p) => Fresh(p)'
  BY DEF Fresh, Unknown
<1>4. OffersOK'
  BY <1>3 DEF PortsInv, OffersOK
<1> QED BY <1>1, <1>2, <1>4 DEF PortsInv, GateInv

\* What a message that is added, or taken, changes of the messages on a port.
LEMMA SaysShape ==
    ASSUME StateOK, NEW p \in Ports, NEW m \in PortMsg, Says(p, m)
    PROVE  /\ toBridge' \in [Ports -> Seq(PortMsg)]
           /\ \A q \in Ports : \A i \in DOMAIN toBridge'[q] :
                \/ i \in DOMAIN toBridge[q] /\ toBridge'[q][i] = toBridge[q][i]
                \/ q = p /\ i = Len(toBridge[p]) + 1 /\ toBridge'[q][i] = m
           /\ \A q \in Ports \ {p} : toBridge'[q] = toBridge[q]
           /\ toBridge'[p] = Append(toBridge[p], m)
BY DEF StateOK, Says

LEMMA CallRec ==
    ASSUME NEW x \in WorkerRec, NEW c \in CallState
    PROVE  LET y == [x EXCEPT !.call = c]
           IN  y \in WorkerRec /\ y.doc = x.doc /\ y.run = x.run /\ y.call = c
BY DEF WorkerRec, CallState

LEMMA CalledShape ==
    ASSUME StateOK, NEW w,
           NEW c \in CallState, Called(w, c)
    PROVE  /\ DOMAIN page' = DOMAIN page /\ page'.worker \in [Worker -> WorkerRec]
           /\ page'.doc = page.doc /\ page'.docs = page.docs /\ page'.owner = page.owner
           /\ \A v \in Worker : /\ page'.worker[v].doc = page.worker[v].doc
                                /\ page'.worker[v].run = page.worker[v].run
                                /\ page'.worker[v].call = IF v = w THEN c ELSE page.worker[v].call
<1> DEFINE k == [page.worker EXCEPT ![w] = [page.worker[w] EXCEPT !.call = c]]
<1>1. /\ DOMAIN page' = DOMAIN page /\ page'.worker = k
      /\ page'.doc = page.doc /\ page'.docs = page.docs /\ page'.owner = page.owner
  BY DEF StateOK, Called
<1>2. \A v \in Worker : page.worker[v] \in WorkerRec
  BY DEF StateOK
<1>3. \A v \in Worker : k[v] = IF v = w THEN [page.worker[v] EXCEPT !.call = c] ELSE page.worker[v]
  BY DEF StateOK
<1>4. k \in [Worker -> WorkerRec]
  <2>1. \A v \in Worker : k[v] \in WorkerRec
    BY <1>2, <1>3, CallRec
  <2>2. k = [v \in Worker |-> k[v]]
    BY DEF StateOK
  <2> QED BY <2>1, <2>2
<1> HIDE DEF k
<1>5. \A v \in Worker : /\ k[v].doc = page.worker[v].doc /\ k[v].run = page.worker[v].run
                        /\ k[v].call = IF v = w THEN c ELSE page.worker[v].call
  <2> TAKE v \in Worker
  <2>1. CASE v # w
    BY <1>3, <2>1
  <2>2. CASE v = w
    <3>1. page.worker[v] \in WorkerRec /\ k[v] = [page.worker[v] EXCEPT !.call = c]
      BY <1>2, <1>3, <2>2
    <3> QED BY <2>2, <3>1, CallRec
  <2> QED BY <2>1, <2>2
<1> QED BY <1>1, <1>4, <1>5

\* The head of a port's messages is taken.
LEMMA TakesShape ==
    ASSUME StateOK, NEW p \in Ports, toBridge[p] # <<>>, toBridge' = [toBridge EXCEPT ![p] = Tail(@)]
    PROVE  /\ toBridge' \in [Ports -> Seq(PortMsg)]
           /\ Head(toBridge[p]) = toBridge[p][1] /\ 1 \in DOMAIN toBridge[p] /\ toBridge[p][1] \in PortMsg
           /\ \A q \in Ports \ {p} : toBridge'[q] = toBridge[q]
           /\ \A i \in DOMAIN toBridge'[p] : /\ i \in Nat \ {0} /\ i + 1 \in DOMAIN toBridge[p]
                                             /\ toBridge'[p][i] = toBridge[p][i + 1]
BY DEF StateOK

\* The offers that are left, when the first is handled.
LEMMA ReceiveOfferPorts == PortsInv /\ ReceiveOffer => PortsInv'
<1> SUFFICES ASSUME PortsInv, ReceiveOffer
             PROVE  PortsInv'
  OBVIOUS
<1> DEFINE p == Head(posted)
           s == handleBootstrap(b, p)
<1>1. /\ posted # <<>> /\ Runs(s) /\ posted' = Tail(posted) /\ UNCHANGED <<page, toBridge, bg>>
  BY DEF ReceiveOffer
<1>2. /\ posted \in Seq(Ports) /\ p = posted[1] /\ 1 \in DOMAIN posted /\ p \in Ports
      /\ posted' \in Seq(Ports)
      /\ \A i \in DOMAIN posted' : i \in Nat \ {0} /\ i + 1 \in DOMAIN posted /\ posted'[i] = posted[i + 1]
  BY <1>1 DEF PortsInv, StateOK
<1>3. page.owner[p] # 0 /\ Fresh(p) /\ \A i, j \in DOMAIN posted : posted[i] = posted[j] => i = j
  BY <1>2 DEF PortsInv, OffersOK
<1> HIDE DEF p
<1>4. GateInv(s) /\ Leaves(b, s, {p})
  BY <1>2, <1>3, OfferKeeps DEF PortsInv, Fresh
<1> HIDE DEF s
<1>5. /\ \A i \in DOMAIN posted' : /\ posted'[i] \notin {p} /\ posted'[i] \in Ports
                                   /\ \E j \in DOMAIN posted : posted'[i] = posted[j]
      /\ \A i, j \in DOMAIN posted' : posted'[i] = posted'[j] => i = j
  <2>1. \A i \in DOMAIN posted' : i + 1 # 1
    BY <1>2
  <2>2. \A i \in DOMAIN posted' : posted'[i] # p
    BY <1>2, <1>3, <2>1
  <2>3. \A i \in DOMAIN posted' : posted'[i] \in Ports
    BY <1>2
  <2> QED BY <1>2, <1>3, <2>2, <2>3
<1>6. GateInv(b)' /\ b'.out = {} /\ OffersOK'
  <2>1. \A q \in {p} : q \in Ports /\ page.owner[q] # 0
    BY <1>2, <1>3
  <2> QED BY <1>1, <1>4, <1>5, <2>1, BridgeStep
<1>7. StateOK'
  BY <1>1, <1>2 DEF PortsInv, StateOK
<1> QED BY <1>6, <1>7 DEF PortsInv

\* The same, for the steps of the bridge that leave the offers alone.
LEMMA OtherStep ==
    ASSUME PortsInv, NEW s, GateInv(s), Leaves(b, s, {}), Runs(s), posted' = posted,
           page'.doc = page.doc, page'.owner = page.owner, page'.docs = page.docs,
           \A p \in Ports : \A i \in DOMAIN toBridge'[p] :
               \E j \in DOMAIN toBridge[p] : toBridge'[p][i] = toBridge[p][j]
    PROVE  GateInv(b)' /\ b'.out = {} /\ OffersOK'
<1>1. /\ \A i \in DOMAIN posted' : /\ posted'[i] \notin {} /\ posted'[i] \in Ports
                                   /\ \E j \in DOMAIN posted : posted'[i] = posted[j]
      /\ \A i, j \in DOMAIN posted' : posted'[i] = posted'[j] => i = j
  BY DEF PortsInv, StateOK, OffersOK
<1>2. \A p \in {} : p \in Ports /\ page.owner[p] # 0
  OBVIOUS
<1> QED BY <1>1, <1>2, BridgeStep

LEMMA ReceivePorts == ASSUME NEW p \in Ports PROVE PortsInv /\ Receive(p) => PortsInv'
<1> SUFFICES ASSUME PortsInv, Receive(p)
             PROVE  PortsInv'
  OBVIOUS
<1> DEFINE m == Head(toBridge[p])
           s == Arrives(b, p, m)
<1>1. /\ toBridge[p] # <<>> /\ Runs(s) /\ toBridge' = [toBridge EXCEPT ![p] = Tail(@)]
      /\ UNCHANGED <<page, posted, bg>>
  BY DEF Receive
<1>2. /\ toBridge' \in [Ports -> Seq(PortMsg)] /\ m = toBridge[p][1] /\ 1 \in DOMAIN toBridge[p] /\ m \in PortMsg
      /\ \A q \in Ports \ {p} : toBridge'[q] = toBridge[q]
      /\ \A i \in DOMAIN toBridge'[p] : i + 1 \in DOMAIN toBridge[p] /\ toBridge'[p][i] = toBridge[p][i + 1]
  BY <1>1, TakesShape DEF PortsInv
<1> HIDE DEF m
<1>3. m[1] = "gone" => b.ctx[p].doc = 0 \/ b.ctx[p].doc # page.doc
  <2> SUFFICES ASSUME m[1] = "gone"
               PROVE  b.ctx[p].doc = 0 \/ b.ctx[p].doc # page.doc
    OBVIOUS
  <2>1. page.owner[p] \notin {0, page.doc}
    BY <1>2 DEF PortsInv, OffersOK
  <2>2. b.ctx[p].doc # 0 => b.ctx[p].doc = page.owner[p]
    BY DEF PortsInv, GateInv, ContextsOK
  <2> QED BY <2>1, <2>2
<1>4. m[1] = "response" => Asked(p)
  BY <1>2 DEF Asked
<1>5. GateInv(s) /\ Leaves(b, s, {})
  BY <1>2, <1>3, <1>4, ArriveKeeps DEF PortsInv
<1> HIDE DEF s
<1>6. \A q \in Ports : \A i \in DOMAIN toBridge'[q] :
        \E j \in DOMAIN toBridge[q] : toBridge'[q][i] = toBridge[q][j]
  BY <1>2
<1>7. GateInv(b)' /\ b'.out = {} /\ OffersOK'
  BY <1>1, <1>5, <1>6, OtherStep
<1>8. StateOK'
  BY <1>1, <1>2 DEF PortsInv, StateOK
<1> QED BY <1>7, <1>8 DEF PortsInv

LEMMA DeadlinePorts == ASSUME NEW p \in Ports PROVE PortsInv /\ Expire(p) => PortsInv'
<1> SUFFICES ASSUME PortsInv, Expire(p)
             PROVE  PortsInv'
  OBVIOUS
<1> DEFINE at == {i \in DOMAIN b.cands : b.cands[i].port = p /\ ~b.cands[i].live /\ ~b.cands[i].expired}
           f(i) == IF i \in at THEN [b.cands[i] EXCEPT !.expired = TRUE] ELSE b.cands[i]
           c == [i \in DOMAIN b.cands |-> f(i)]
           q == [b EXCEPT !.cands = c]
           s == tryPromote(q)
<1>0. BridgeOK(b) /\ StateOK /\ GateInv(b)
  BY DEF PortsInv, GateInv
<1>1. /\ Runs(s) /\ UNCHANGED <<posted, toBridge, bg>>
      /\ DOMAIN page' = DOMAIN page /\ page'.doc = page.doc /\ page'.docs = page.docs
      /\ page'.owner = page.owner /\ page'.worker = page.worker
  BY <1>0 DEF Expire, StateOK
<1>2. c \in Seq(CandRec) /\ DOMAIN c = DOMAIN b.cands
  <2>1. DOMAIN b.cands = 1..Len(b.cands) /\ Len(b.cands) \in Nat
    BY <1>0 DEF BridgeOK
  <2>2. \A i \in 1..Len(b.cands) : f(i) \in CandRec
    <3> TAKE i \in 1..Len(b.cands)
    <3>1. b.cands[i] \in CandRec
      BY <1>0, <2>1 DEF BridgeOK
    <3> QED BY <3>1 DEF CandRec
  <2>3. c = [i \in 1..Len(b.cands) |-> f(i)]
    BY <2>1
  <2> HIDE DEF f, c
  <2>4. [i \in 1..Len(b.cands) |-> f(i)] \in Seq(CandRec)
    BY <2>1, <2>2
  <2> QED BY <2>1, <2>3, <2>4
<1>3. \A i \in DOMAIN c : \E j \in DOMAIN b.cands :
        /\ c[i].port = b.cands[j].port
        /\ c[i].live => b.cands[j].live \/ Asked(c[i].port)
  <2> SUFFICES ASSUME NEW i \in DOMAIN b.cands
               PROVE  c[i].port = b.cands[i].port /\ c[i].live = b.cands[i].live
    BY <1>2
  <2>1. b.cands[i] \in CandRec
    BY <1>0 DEF BridgeOK
  <2> QED BY <2>1 DEF CandRec
<1> HIDE DEF c
<1>4. GateInv(q) /\ Leaves(b, q, {})
  BY <1>0, <1>2, <1>3, CandsKeep
<1> HIDE DEF q
<1>5. GateInv(s) /\ Leaves(q, s, {})
  BY <1>0, <1>4, PromoteKeeps
<1>6. Leaves(b, s, {})
  BY <1>4, <1>5 DEF Leaves
<1> HIDE DEF s
<1>7. GateInv(b)' /\ b'.out = {} /\ OffersOK'
  <2>1. \A o \in Ports : \A i \in DOMAIN toBridge'[o] :
          \E j \in DOMAIN toBridge[o] : toBridge'[o][i] = toBridge[o][j]
    BY <1>1
  <2> QED BY <1>1, <1>5, <1>6, <2>1, OtherStep
<1>8. StateOK'
  BY <1>0, <1>1 DEF StateOK
<1> QED BY <1>7, <1>8 DEF PortsInv

\* Requests of the workers.
LEMMA AskStep ==
    ASSUME PortsInv, NEW x \in AskRec, x.op # "purge", b' = [b EXCEPT !.control = Append(@, x)],
           NEW w, NEW c \in CallState, Called(w, c), UNCHANGED <<posted, toBridge, toPage, bg>>
    PROVE  PortsInv'
<1> DEFINE s == [b EXCEPT !.control = Append(@, x)]
<1>0. BridgeOK(b) /\ StateOK /\ GateInv(b) /\ b.out = {}
  BY DEF PortsInv, GateInv
<1>1. s.out = {} /\ s = [s EXCEPT !.out = {}]
  BY <1>0 DEF BridgeOK
<1>2. BridgeOK(s) /\ Same(b, s)
  BY <1>0, AskShape
<1>3. b' = s
  OBVIOUS
<1> HIDE DEF s
<1>4. Runs(s)
  BY <1>1, <1>3 DEF Runs
<1>5. GateInv(s) /\ Leaves(b, s, {})
  BY <1>0, <1>2, SameKeeps
<1>6. /\ DOMAIN page' = DOMAIN page /\ page'.worker \in [Worker -> WorkerRec]
      /\ page'.doc = page.doc /\ page'.docs = page.docs /\ page'.owner = page.owner
  BY <1>0, CalledShape
<1>7. GateInv(b)' /\ b'.out = {} /\ OffersOK'
  <2>1. \A o \in Ports : \A i \in DOMAIN toBridge'[o] :
          \E j \in DOMAIN toBridge[o] : toBridge'[o][i] = toBridge[o][j]
    OBVIOUS
  <2> QED BY <1>4, <1>5, <1>6, <2>1, OtherStep
<1>8. StateOK'
  BY <1>0, <1>6 DEF StateOK
<1> QED BY <1>7, <1>8 DEF PortsInv

LEMMA OpenRequestPorts == ASSUME NEW w \in Worker PROVE PortsInv /\ OpenRequest(w) => PortsInv'
<1> SUFFICES ASSUME PortsInv, OpenRequest(w)
             PROVE  PortsInv'
  OBVIOUS
<1> DEFINE x == Request("open", w, None)
<1>1. x \in AskRec /\ x.op = "open"
  BY RequestType DEF PortsInv, GateInv
<1>2. /\ b' = [b EXCEPT !.control = Append(@, x)] /\ Called(w, "opening")
      /\ UNCHANGED <<posted, toBridge, toPage, bg>>
  BY DEF OpenRequest
<1> HIDE DEF x
<1>3. x.op # "purge" /\ "opening" \in CallState
  BY <1>1 DEF CallState
<1> QED BY <1>1, <1>2, <1>3, AskStep

LEMMA CloseRequestPorts == ASSUME NEW w \in Worker PROVE PortsInv /\ CloseRequest(w) => PortsInv'
<1> SUFFICES ASSUME PortsInv, CloseRequest(w)
             PROVE  PortsInv'
  OBVIOUS
<1> DEFINE x == Request("close", w, b.session[w])
<1>1. x \in AskRec /\ x.op = "close"
  BY RequestType DEF PortsInv, GateInv, BridgeOK
<1>2. /\ b' = [b EXCEPT !.control = Append(@, x)] /\ Called(w, "closing")
      /\ UNCHANGED <<posted, toBridge, toPage, bg>>
  BY DEF CloseRequest
<1> HIDE DEF x
<1>3. x.op # "purge" /\ "closing" \in CallState
  BY <1>1 DEF CallState
<1> QED BY <1>1, <1>2, <1>3, AskStep

\* The request that is served.
LEMMA ServedShape ==
    ASSUME BridgeOK(b), b.control # <<>>
    PROVE  LET r == Head(b.control)
               s == [b EXCEPT !.control = Tail(@)]
           IN  /\ r \in AskRec /\ r = b.control[1] /\ 1 \in DOMAIN b.control
               /\ BridgeOK(s) /\ Same(b, s) /\ s.client = b.client /\ s.session = b.session
               /\ s.ctx = b.ctx /\ s.clean = b.clean
               /\ \A i \in DOMAIN s.control : /\ i \in Nat \ {0} /\ i + 1 \in DOMAIN b.control
                                              /\ s.control[i] = b.control[i + 1]
               /\ \A i \in DOMAIN b.control : i # 1 => /\ i - 1 \in DOMAIN s.control
                                                       /\ s.control[i - 1] = b.control[i]
<1> DEFINE s == [b EXCEPT !.control = Tail(@)]
           c == Tail(b.control)
           r == Head(b.control)
<1>1. /\ b.control \in Seq(AskRec) /\ c \in Seq(AskRec)
      /\ r \in AskRec /\ r = b.control[1] /\ 1 \in DOMAIN b.control
      /\ \A i \in DOMAIN c : i \in Nat \ {0} /\ i + 1 \in DOMAIN b.control /\ c[i] = b.control[i + 1]
      /\ \A i \in DOMAIN b.control : i # 1 => i - 1 \in DOMAIN c /\ c[i - 1] = b.control[i]
  BY DEF BridgeOK
<1>2. /\ DOMAIN s = DOMAIN b /\ s.on = b.on /\ s.serial = b.serial /\ s.target = b.target
      /\ s.source = b.source /\ s.cands = b.cands /\ s.ctx = b.ctx /\ s.control = c
      /\ s.client = b.client /\ s.session = b.session /\ s.out = b.out /\ s.clean = b.clean
  BY DEF BridgeOK
<1> HIDE DEF s, c, r
<1>3. BridgeOK(s)
  BY <1>1, <1>2 DEF BridgeOK
<1>4. Same(b, s)
  BY <1>1, <1>2 DEF Same
<1> QED BY <1>1, <1>2, <1>3, <1>4 DEF s, r

LEMMA SessionShape ==
    ASSUME NEW s, BridgeOK(s), NEW w, NEW t, w \in Worker => t \in Token \cup {None}
    PROVE  LET r == [s EXCEPT !.session[w] = t]
           IN  /\ BridgeOK(r) /\ Same(s, r) /\ r.control = s.control
               /\ r.client = s.client /\ r.session = [s.session EXCEPT ![w] = t]
<1> DEFINE r == [s EXCEPT !.session[w] = t]
           d == [s.session EXCEPT ![w] = t]
<1>1. d \in [Worker -> Token \cup {None}]
  BY DEF BridgeOK
<1>2. /\ DOMAIN r = DOMAIN s /\ r.on = s.on /\ r.serial = s.serial /\ r.target = s.target
      /\ r.source = s.source /\ r.cands = s.cands /\ r.ctx = s.ctx /\ r.control = s.control
      /\ r.client = s.client /\ r.session = d /\ r.out = s.out
  BY DEF BridgeOK
<1> HIDE DEF r, d
<1>3. BridgeOK(r)
  BY <1>1, <1>2 DEF BridgeOK
<1>4. Same(s, r)
  BY <1>2 DEF Same
<1> QED BY <1>2, <1>3, <1>4 DEF r, d

\* handleOpenSuccess keeps the session, or hands it back.
CleanRec(r, t) == [r EXCEPT !.op = "clean", !.tok = t]
LEMMA CleanType ==
    ASSUME NEW r \in AskRec, NEW t \in Token
    PROVE  LET x == CleanRec(r, t)
           IN  x \in AskRec /\ x.op = "clean" /\ x.tok = t /\ x.worker = r.worker
BY DEF CleanRec, AskRec

LEMMA OpenSuccessShape ==
    ASSUME NEW s, BridgeOK(s), NEW r \in AskRec, NEW t \in Token
    PROVE  LET q == handleOpenSuccess(s, r, t)
           IN  /\ BridgeOK(q) /\ Same(s, q) /\ q.client = s.client
               /\ IF Registered(s, r.worker) /\ s.client[r.worker] = r.port
                  THEN q.session = [s.session EXCEPT ![r.worker] = t] /\ q.control = s.control
                  ELSE q.session = s.session /\ q.control = Append(s.control, CleanRec(r, t))
<1> DEFINE q == handleOpenSuccess(s, r, t)
<1>1. CASE Registered(s, r.worker) /\ s.client[r.worker] = r.port
  <2>1. q = [s EXCEPT !.session[r.worker] = t]
    BY <1>1 DEF handleOpenSuccess
  <2> HIDE DEF q
  <2>2. /\ BridgeOK(q) /\ Same(s, q) /\ q.control = s.control
        /\ q.client = s.client /\ q.session = [s.session EXCEPT ![r.worker] = t]
    BY <2>1, SessionShape
  <2> QED BY <1>1, <2>2 DEF q
<1>2. CASE ~(Registered(s, r.worker) /\ s.client[r.worker] = r.port)
  <2> DEFINE x == CleanRec(r, t)
  <2>1. q = [s EXCEPT !.control = Append(@, x)]
    BY <1>2 DEF handleOpenSuccess, CleanRec
  <2>2. x \in AskRec /\ x.op # "purge"
    BY CleanType
  <2> HIDE DEF q, x
  <2>3. /\ BridgeOK(q) /\ Same(s, q) /\ q.control = Append(s.control, x)
        /\ q.client = s.client /\ q.session = s.session
    BY <2>1, <2>2, AskShape
  <2> QED BY <1>2, <2>3 DEF q, x
<1> QED BY <1>1, <1>2

\* What follows a purge.
Purged(s, r) ==
  [s EXCEPT !.ctx[r.port].state = "gone", !.clean = @ \/ (b.on /\ b.serial = r.serial)]
LEMMA PurgedKeeps ==
    ASSUME NEW s, GateInv(s), NEW r, r.port \in Ports, s.ctx[r.port].state \in {"ending", "gone"}
    PROVE  GateInv(Purged(s, r)) /\ Grows(s, Purged(s, r)) /\ Leaves(s, Purged(s, r), {})
<1> DEFINE p == r.port
           q == Purged(s, r)
           h == [s.ctx EXCEPT ![p] = [s.ctx[p] EXCEPT !.state = "gone"]]
<1>1. s.ctx \in [Ports -> CtxRec] /\ p \in Ports
  BY DEF GateInv, BridgeOK
<1>2. /\ DOMAIN q = DOMAIN s /\ q.on = s.on /\ q.serial = s.serial /\ q.target = s.target
      /\ q.source = s.source /\ q.cands = s.cands /\ q.ctx = h /\ q.control = s.control
      /\ q.client = s.client /\ q.session = s.session /\ q.out = s.out
  BY DEF Purged, GateInv, BridgeOK
<1>3. h \in [Ports -> CtxRec] /\ h[p].doc = s.ctx[p].doc /\ h[p].state = "gone"
      /\ \A o \in Ports \ {p} : h[o] = s.ctx[o]
  BY <1>1 DEF CtxRec
<1>4. s.ctx[p].state \in {"ending", "gone"}
  OBVIOUS
<1> HIDE DEF p, q, h
<1>5. BridgeOK(q)
  BY <1>2, <1>3 DEF GateInv, BridgeOK
<1>6. ContextsOK(q)
  BY <1>1, <1>2, <1>3, <1>4 DEF GateInv, ContextsOK, Live
<1>7. CandidatesOK(q)
  <2>1. \A i \in DOMAIN s.cands : /\ s.cands[i].port \in Ports \ {p}
                                  /\ h[s.cands[i].port] = s.ctx[s.cands[i].port]
    <3> SUFFICES ASSUME NEW i \in DOMAIN s.cands
                 PROVE  s.cands[i].port \in Ports \ {p}
      BY <1>3
    <3>1. s.cands[i] \in CandRec
      BY DEF GateInv, BridgeOK
    <3> QED BY <1>4, <3>1 DEF GateInv, CandidatesOK, CandRec
  <2> QED BY <1>2, <2>1 DEF GateInv, CandidatesOK
<1>8. PurgesOK(q)
  <2>1. s.source # 0 => s.source \in Ports \ {p} /\ Live(s, s.source)
    BY <1>4 DEF GateInv, BridgeOK, PurgesOK, Live
  <2> QED BY <1>1, <1>2, <1>3, <2>1 DEF GateInv, PurgesOK, Live
<1>9. Grows(s, q) /\ Leaves(s, q, {})
  BY <1>1, <1>2, <1>3, <1>4 DEF Grows, Leaves, Unknown, Live
<1> QED BY <1>5, <1>6, <1>7, <1>8, <1>9 DEF GateInv, q

LEMMA ServePorts == PortsInv /\ Serve => PortsInv'
<1> SUFFICES ASSUME PortsInv, Serve
             PROVE  PortsInv'
  OBVIOUS
<1> DEFINE r == Head(b.control)
           served == [b EXCEPT !.control = Tail(@)]
           w == r.worker
<1>0. BridgeOK(b) /\ StateOK /\ GateInv(b) /\ b.control # <<>> /\ UNCHANGED <<posted, toBridge>>
  BY DEF PortsInv, GateInv, Serve
<1>1. /\ r \in AskRec /\ r = b.control[1] /\ 1 \in DOMAIN b.control
      /\ BridgeOK(served) /\ Same(b, served) /\ served.ctx = b.ctx
  BY <1>0, ServedShape
<1>2. r.tok \in Token \cup {None}
  BY <1>1 DEF AskRec
<1>3. ASSUME NEW s, GateInv(s), Leaves(b, s, {}), Runs(s), DOMAIN bg' = DOMAIN bg,
             page' = page \/ \E c \in CallState : Called(w, c)
      PROVE  PortsInv'
  <2>1. /\ DOMAIN page' = DOMAIN page /\ page'.worker \in [Worker -> WorkerRec]
        /\ page'.doc = page.doc /\ page'.docs = page.docs /\ page'.owner = page.owner
    <3>1. CASE page' = page
      BY <1>0, <3>1 DEF StateOK
    <3>2. CASE \E c \in CallState : Called(w, c)
      BY <1>0, <3>2, CalledShape
    <3> QED BY <1>3, <3>1, <3>2
  <2>2. \A o \in Ports : \A i \in DOMAIN toBridge'[o] :
          \E j \in DOMAIN toBridge[o] : toBridge'[o][i] = toBridge[o][j]
    BY <1>0
  <2>3. GateInv(b)' /\ b'.out = {} /\ OffersOK'
    BY <1>0, <1>3, <2>1, <2>2, OtherStep
  <2>4. StateOK'
    BY <1>0, <1>3, <2>1 DEF StateOK
  <2> QED BY <2>3, <2>4 DEF PortsInv
<1>4. ASSUME NEW s, BridgeOK(s), Same(served, s)
      PROVE  GateInv(s) /\ Leaves(b, s, {})
  <2>1. GateInv(served) /\ Leaves(b, served, {})
    BY <1>0, <1>1, SameKeeps
  <2>2. GateInv(s) /\ Leaves(served, s, {})
    BY <1>4, <2>1, SameKeeps
  <2> QED BY <2>1, <2>2 DEF Leaves
<1>5. {"open", "closed"} \subseteq CallState /\ DOMAIN bg = {"live", "used"}
  BY <1>0 DEF CallState, StateOK
<1> HIDE DEF r, served
<1>6. CASE \E t \in Token \ bg.used :
              /\ r.op = "open"
              /\ Runs(handleOpenSuccess(served, r, t))
              /\ Called(w, IF Registered(b, w) /\ b.client[w] = r.port THEN "open" ELSE "closed")
              /\ bg' = [bg EXCEPT !.live = [x \in DOMAIN @ \cup {t} |-> IF x = t THEN r.port ELSE @[x]],
                                  !.used = @ \cup {t}]
  <2> PICK t \in Token \ bg.used :
              /\ Runs(handleOpenSuccess(served, r, t))
              /\ Called(w, IF Registered(b, w) /\ b.client[w] = r.port THEN "open" ELSE "closed")
              /\ bg' = [bg EXCEPT !.live = [x \in DOMAIN @ \cup {t} |-> IF x = t THEN r.port ELSE @[x]],
                                  !.used = @ \cup {t}]
    BY <1>6
  <2>1. \E c \in CallState : Called(w, c)
    BY <1>5
  <2>2. BridgeOK(handleOpenSuccess(served, r, t)) /\ Same(served, handleOpenSuccess(served, r, t))
    BY <1>1, OpenSuccessShape
  <2>3. DOMAIN bg' = DOMAIN bg
    BY <1>5
  <2>4. GateInv(handleOpenSuccess(served, r, t)) /\ Leaves(b, handleOpenSuccess(served, r, t), {})
    BY <1>4, <2>2
  <2> QED BY <1>3, <2>1, <2>3, <2>4
<1>7. CASE r.op = "open" /\ Runs(served) /\ Called(w, "closed") /\ bg' = bg
  <2>1. GateInv(served) /\ Leaves(b, served, {})
    BY <1>0, <1>1, SameKeeps
  <2> QED BY <1>3, <1>5, <1>7, <2>1
<1>8. CASE /\ r.op = "close" /\ r.tok \in DOMAIN bg.live
           /\ Runs([served EXCEPT !.session[w] = None])
           /\ Called(w, "closed") /\ bg' = [bg EXCEPT !.live = Ended(r.tok)]
  <2> DEFINE s == [served EXCEPT !.session[w] = None]
  <2>1. BridgeOK(s) /\ Same(served, s)
    BY <1>1, SessionShape
  <2>2. DOMAIN bg' = DOMAIN bg
    BY <1>5, <1>8
  <2>3. GateInv(s) /\ Leaves(b, s, {})
    BY <1>4, <2>1
  <2> QED BY <1>3, <1>5, <1>8, <2>2, <2>3
<1>9. CASE /\ r.op = "close" /\ r.tok \notin DOMAIN bg.live
           /\ Runs([served EXCEPT !.session[w] = IF r.tok = None THEN @ ELSE r.tok])
           /\ Called(w, "open") /\ bg' = bg
  <2> DEFINE t == IF r.tok = None THEN served.session[w] ELSE r.tok
             s == [served EXCEPT !.session[w] = t]
  <2>1. w \in Worker => t \in Token \cup {None}
    BY <1>1, <1>2 DEF BridgeOK
  <2>2. BridgeOK(s) /\ Same(served, s)
    BY <1>1, <2>1, SessionShape
  <2>3. GateInv(s) /\ Leaves(b, s, {})
    BY <1>4, <2>2
  <2> QED BY <1>3, <1>5, <1>9, <2>3
<1>10. CASE /\ r.op = "drop" /\ Runs(Unregister(served, w))
            /\ page' = page /\ bg' = [bg EXCEPT !.live = Ended(r.tok)]
  <2>1. BridgeOK(Unregister(served, w)) /\ Same(served, Unregister(served, w))
    BY <1>1, UnregisterShape
  <2>2. GateInv(Unregister(served, w)) /\ Leaves(b, Unregister(served, w), {})
    BY <1>4, <2>1
  <2>3. DOMAIN bg' = DOMAIN bg
    BY <1>5, <1>10
  <2> QED BY <1>3, <1>10, <2>2, <2>3
<1>11. CASE /\ r.op = "clean" /\ Runs(served) /\ page' = page /\ bg' = [bg EXCEPT !.live = Ended(r.tok)]
  <2>1. GateInv(served) /\ Leaves(b, served, {})
    BY <1>0, <1>1, SameKeeps
  <2>2. DOMAIN bg' = DOMAIN bg
    BY <1>5, <1>11
  <2> QED BY <1>3, <1>11, <2>1, <2>2
<1>12. CASE /\ r.op = "purge"
            /\ Runs(IF b.on /\ b.serial = r.serial THEN tryPromote(Purged(served, r)) ELSE Purged(served, r))
            /\ page' = page
            /\ bg' = [bg EXCEPT !.live = [x \in {y \in DOMAIN @ : @[y] # r.port} |-> @[x]]]
  <2> DEFINE q == Purged(served, r)
  <2>1. GateInv(served) /\ Leaves(b, served, {})
    BY <1>0, <1>1, SameKeeps
  <2>2. r.port \in Ports /\ served.ctx[r.port].state \in {"ending", "gone"}
    BY <1>0, <1>1, <1>12 DEF GateInv, PurgesOK
  <2>3. GateInv(q) /\ Leaves(served, q, {})
    BY <2>1, <2>2, PurgedKeeps
  <2> HIDE DEF q
  <2>4. GateInv(tryPromote(q)) /\ Leaves(q, tryPromote(q), {})
    BY <1>0, <2>3, PromoteKeeps
  <2>5. Leaves(b, q, {}) /\ Leaves(b, tryPromote(q), {})
    BY <2>1, <2>3, <2>4 DEF Leaves
  <2>6. DOMAIN bg' = DOMAIN bg
    BY <1>5, <1>12
  <2>7. Runs(q) \/ Runs(tryPromote(q))
    BY <1>12 DEF q
  <2> QED BY <1>3, <1>12, <2>3, <2>4, <2>5, <2>6, <2>7
<1> QED BY <1>6, <1>7, <1>8, <1>9, <1>10, <1>11, <1>12 DEF Serve, Purged, r, served

\* A set of numbers has a least one: the well-foundedness of < on Nat.
LEMMA LeastNumber ==
    ASSUME NEW T, T \subseteq Nat, T # {}
    PROVE  \E x \in T : \A y \in T : x <= y
<1> DEFINE R == OpToRel(<, Nat)
<1>1. \E x \in T : \A y \in T : ~ (<<y, x>> \in R)
  BY NatLessThanWellFounded, WFMin
<1>2. \A x, y \in Nat : y < x => <<y, x>> \in R
  BY DEF OpToRel
<1> HIDE DEF R
<1>3. PICK x \in T : \A y \in T : ~ (<<y, x>> \in R)
  BY <1>1
<1>4. \A y \in T : ~(y < x)
  BY <1>2, <1>3
<1>5. \A y \in T : x <= y
  BY <1>4
<1> QED BY <1>5

LEMMA OwnIsOwned == ASSUME NEW p \in Own PROVE p \in Ports /\ page.doc # 0 /\ page.owner[p] = page.doc
BY DEF Own, First

\* pagehide: what the window had on its way to the document is gone with it.
LEMMA LeavePorts == PortsInv /\ Leave => PortsInv'
<1> SUFFICES ASSUME PortsInv, Leave
             PROVE  PortsInv'
  OBVIOUS
<1> DEFINE k == [w \in Worker |-> [page.worker[w] EXCEPT !.run = FALSE]]
<1>0. StateOK /\ BridgeOK(b) /\ GateInv(b) /\ b.out = {}
  BY DEF PortsInv, GateInv
<1>1. /\ DOMAIN page' = DOMAIN page /\ page'.doc = 0 /\ page'.docs = page.docs
      /\ page'.owner = page.owner /\ page'.worker = k
      /\ toPage' = {} /\ posted' = posted /\ b' = b /\ bg' = bg
  BY <1>0 DEF Leave, StateOK
<1>2. k \in [Worker -> WorkerRec]
  <2>1. \A w \in Worker : page.worker[w] \in WorkerRec
    BY <1>0 DEF StateOK
  <2>2. \A w \in Worker : [page.worker[w] EXCEPT !.run = FALSE] \in WorkerRec
    <3> TAKE w \in Worker
    <3>1. page.worker[w] \in WorkerRec
      BY <2>1
    <3> QED BY <3>1 DEF WorkerRec
  <2> QED BY <2>2
<1>3. /\ toBridge' \in [Ports -> Seq(PortMsg)]
      /\ \A p \in Ports : \A i \in DOMAIN toBridge'[p] :
           \/ i \in DOMAIN toBridge[p] /\ toBridge'[p][i] = toBridge[p][i]
           \/ p \in Own /\ toBridge'[p][i] = <<"gone">>
  <2>1. <<"gone">> \in PortMsg
    BY DEF PortMsg
  <2>2. toBridge' = [p \in Ports |-> IF p \in Own THEN Append(toBridge[p], <<"gone">>) ELSE toBridge[p]]
    BY DEF Leave
  <2>3. \A p \in Ports : toBridge[p] \in Seq(PortMsg)
    BY <1>0 DEF StateOK
  <2>4. \A p \in Ports : Append(toBridge[p], <<"gone">>) \in Seq(PortMsg)
    BY <2>1, <2>3
  <2>5. toBridge' \in [Ports -> Seq(PortMsg)]
    BY <2>2, <2>3, <2>4
  <2>6. ASSUME NEW p \in Ports, NEW i \in DOMAIN toBridge'[p]
        PROVE  \/ i \in DOMAIN toBridge[p] /\ toBridge'[p][i] = toBridge[p][i]
               \/ p \in Own /\ toBridge'[p][i] = <<"gone">>
    BY <2>2, <2>3
  <2> QED BY <2>5, <2>6
<1> HIDE DEF k
<1>4. \A p \in Ports : Asked(p)' => Asked(p)
  BY <1>1, <1>3 DEF Asked
<1>5. BridgeOK(b)' /\ PurgesOK(b)'
  BY <1>0, <1>1 DEF GateInv, BridgeOK, PurgesOK, Live
<1>6. ContextsOK(b)'
  BY <1>0, <1>1 DEF GateInv, ContextsOK, Live
<1>7. CandidatesOK(b)'
  <2>1. \A i \in DOMAIN b.cands : b.cands[i].port \in Ports
    <3> TAKE i \in DOMAIN b.cands
    <3>1. b.cands[i] \in CandRec
      BY <1>0 DEF BridgeOK
    <3> QED BY <3>1 DEF CandRec
  <2> SUFFICES ASSUME NEW i \in DOMAIN b.cands
               PROVE  (b.cands[i].live \/ Asked(b.cands[i].port)') => page.owner[b.cands[i].port] = b.target
    BY <1>0, <1>1 DEF GateInv, CandidatesOK
  <2> QED BY <1>0, <1>1, <1>4, <2>1 DEF GateInv, CandidatesOK
<1>8. \A p \in Ports : Fresh(p) => Fresh(p)'
  BY <1>1, <1>4 DEF Fresh, Unknown
<1>9. \A p \in Ports : \A i \in DOMAIN toBridge'[p] :
        toBridge'[p][i][1] = "gone" => page'.owner[p] \notin {0, page'.doc}
  BY <1>1, <1>3, OwnIsOwned DEF PortsInv, OffersOK
<1>10. OffersOK'
  BY <1>0, <1>1, <1>8, <1>9 DEF PortsInv, OffersOK, StateOK
<1>11. StateOK'
  BY <1>0, <1>1, <1>2, <1>3 DEF StateOK
<1> QED BY <1>0, <1>1, <1>5, <1>6, <1>7, <1>10, <1>11 DEF PortsInv, GateInv

LEMMA LoadPorts == PortsInv /\ Load => PortsInv'
<1> SUFFICES ASSUME PortsInv, Load
             PROVE  PortsInv'
  OBVIOUS
<1>0. StateOK /\ BridgeOK(b) /\ GateInv(b) /\ b.out = {}
  BY DEF PortsInv, GateInv
<1>1. /\ DOMAIN page' = DOMAIN page /\ page'.doc = page.docs + 1 /\ page'.docs = page.docs + 1
      /\ page'.owner = page.owner /\ page'.worker = page.worker
      /\ toPage' = toPage /\ posted' = posted /\ b' = b /\ bg' = bg /\ toBridge' = toBridge
  BY <1>0 DEF Load, StateOK
<1>2. \A p \in Ports : page.owner[p] \in Nat /\ page.owner[p] # page'.doc
  BY <1>0, <1>1 DEF PortsInv, OffersOK, StateOK
<1>3. BridgeOK(b)' /\ PurgesOK(b)'
  BY <1>0, <1>1 DEF GateInv, BridgeOK, PurgesOK, Live
<1>4. ContextsOK(b)'
  BY <1>0, <1>1, <1>2 DEF GateInv, ContextsOK, Live
<1>5. CandidatesOK(b)'
  BY <1>0, <1>1 DEF GateInv, CandidatesOK, Asked
<1>6. \A p \in Ports : Fresh(p) => Fresh(p)'
  BY <1>1 DEF Fresh, Unknown, Asked
<1>7. OffersOK'
  BY <1>0, <1>1, <1>2, <1>6 DEF PortsInv, OffersOK, StateOK
<1>8. StateOK'
  BY <1>0, <1>1 DEF StateOK
<1> QED BY <1>0, <1>1, <1>3, <1>4, <1>5, <1>7, <1>8 DEF PortsInv, GateInv

\* The document posts the first port nobody has offered.
LEMMA OfferPorts == PortsInv /\ Offer => PortsInv'
<1> SUFFICES ASSUME PortsInv, Offer
             PROVE  PortsInv'
  OBVIOUS
<1> DEFINE free == {p \in Ports : page.owner[p] = 0}
           p == CHOOSE q \in free : \A r \in free : q <= r
           own == [page.owner EXCEPT ![p] = page.doc]
           after == Append(posted, p)
<1>0. StateOK /\ BridgeOK(b) /\ GateInv(b) /\ b.out = {}
  BY DEF PortsInv, GateInv
<1>1. /\ page.doc # 0 /\ DOMAIN page' = DOMAIN page /\ page'.doc = page.doc /\ page'.docs = page.docs
      /\ page'.owner = own /\ page'.worker = page.worker /\ posted' = after
      /\ toPage' = toPage /\ b' = b /\ bg' = bg /\ toBridge' = toBridge
  BY <1>0 DEF Offer, StateOK
<1>2. p \in Ports /\ page.owner[p] = 0
  <2>1. free # {} /\ free \subseteq Nat
    BY DEF Offer, Ports
  <2>2. \E q \in free : \A r \in free : q <= r
    BY <2>1, LeastNumber
  <2> HIDE DEF free
  <2>3. p \in free
    BY <2>2
  <2> QED BY <2>3 DEF free
<1> HIDE DEF free, p
<1>3. /\ own \in [Ports -> Nat] /\ own[p] = page.doc
      /\ \A q \in Ports \ {p} : own[q] = page.owner[q]
  BY <1>0, <1>2 DEF StateOK
<1>4. Fresh(p) /\ ~(\E i \in DOMAIN posted : posted[i] = p)
      /\ \A i \in DOMAIN toBridge[p] : toBridge[p][i][1] # "gone"
  BY <1>2 DEF PortsInv, OffersOK
<1>5. /\ after \in Seq(Ports)
      /\ \A i \in DOMAIN after : \/ i \in DOMAIN posted /\ after[i] = posted[i]
                                 \/ i = Len(posted) + 1 /\ after[i] = p
  BY <1>0, <1>2 DEF StateOK
<1> HIDE DEF own, after
<1>6. \A i \in DOMAIN b.cands : b.cands[i].port \in Ports \ {p}
  <2> TAKE i \in DOMAIN b.cands
  <2>1. b.cands[i] \in CandRec
    BY <1>0 DEF BridgeOK
  <2> QED BY <1>4, <2>1 DEF CandRec, Fresh, Unknown
<1>7. BridgeOK(b)' /\ PurgesOK(b)'
  BY <1>0, <1>1 DEF GateInv, BridgeOK, PurgesOK, Live
<1>8. ContextsOK(b)'
  <2>1. b.ctx[p].doc = 0
    BY <1>4 DEF Fresh, Unknown
  <2> QED BY <1>0, <1>1, <1>3, <2>1 DEF GateInv, ContextsOK, Live
<1>9. CandidatesOK(b)'
  BY <1>0, <1>1, <1>3, <1>6 DEF GateInv, CandidatesOK, Asked
<1>10. \A q \in Ports : Fresh(q) => Fresh(q)'
  BY <1>1 DEF Fresh, Unknown, Asked
<1>11. \A q \in Ports : page'.owner[q] <= page'.docs
  BY <1>0, <1>1, <1>3 DEF PortsInv, OffersOK
<1>12. \A q \in Ports : page'.owner[q] = 0 => Fresh(q)'
  BY <1>1, <1>3, <1>10 DEF PortsInv, OffersOK
<1>13. \A q \in Ports : (\E i \in DOMAIN posted' : posted'[i] = q) => page'.owner[q] # 0 /\ Fresh(q)'
  <2> SUFFICES ASSUME NEW q \in Ports, NEW i \in DOMAIN after, after[i] = q
               PROVE  page'.owner[q] # 0 /\ Fresh(q)'
    BY <1>1
  <2>1. CASE q = p
    BY <1>1, <1>3, <1>4, <1>10, <2>1
  <2>2. CASE q # p
    <3>1. i \in DOMAIN posted /\ posted[i] = q
      BY <1>5, <2>2
    <3>2. page.owner[q] # 0 /\ Fresh(q)
      BY <3>1 DEF PortsInv, OffersOK
    <3> QED BY <1>1, <1>3, <1>10, <2>2, <3>2
  <2> QED BY <2>1, <2>2
<1>14. \A i, j \in DOMAIN posted' : posted'[i] = posted'[j] => i = j
  <2> SUFFICES ASSUME NEW i \in DOMAIN after, NEW j \in DOMAIN after, after[i] = after[j]
               PROVE  i = j
    BY <1>1
  <2>1. \A k \in DOMAIN posted : posted[k] # p
    BY <1>4
  <2> QED BY <1>5, <2>1 DEF PortsInv, OffersOK
<1>15. \A q \in Ports : \A i \in DOMAIN toBridge'[q] :
         toBridge'[q][i][1] = "gone" => page'.owner[q] \notin {0, page'.doc}
  BY <1>1, <1>3, <1>4 DEF PortsInv, OffersOK
<1>16. OffersOK'
  BY <1>1, <1>11, <1>12, <1>13, <1>14, <1>15 DEF PortsInv, OffersOK
<1>17. StateOK'
  BY <1>0, <1>1, <1>3, <1>5 DEF StateOK
<1> QED BY <1>0, <1>1, <1>7, <1>8, <1>9, <1>16, <1>17 DEF PortsInv, GateInv

\* The polyfill answers its probe: what may be answered becomes an answer.
LEMMA AnswerProbePorts == ASSUME NEW p \in Ports PROVE PortsInv /\ AnswerProbe(p) => PortsInv'
<1> SUFFICES ASSUME PortsInv, AnswerProbe(p)
             PROVE  PortsInv'
  OBVIOUS
<1>0. StateOK /\ <<"response">> \in PortMsg
  BY DEF PortsInv, PortMsg
<1>1. /\ <<p, "probe">> \in toPage /\ toPage' = toPage \ {<<p, "probe">>} /\ Says(p, <<"response">>)
      /\ UNCHANGED <<page, posted, b, bg>>
  BY DEF AnswerProbe
<1>2. /\ toBridge' \in [Ports -> Seq(PortMsg)]
      /\ \A q \in Ports : \A i \in DOMAIN toBridge'[q] :
           \/ i \in DOMAIN toBridge[q] /\ toBridge'[q][i] = toBridge[q][i]
           \/ q = p /\ i = Len(toBridge[p]) + 1 /\ toBridge'[q][i] = <<"response">>
  BY <1>0, <1>1, SaysShape
<1>3. \A q \in Ports : Asked(q)' => Asked(q)
  BY <1>1, <1>2 DEF Asked
<1>4. \A q \in Ports : \A i \in DOMAIN toBridge'[q] : toBridge'[q][i][1] = "gone" =>
        \E j \in DOMAIN toBridge[q] : toBridge[q][j][1] = "gone"
  BY <1>2
<1>5. GateInv(b)' /\ b'.out = {} /\ OffersOK'
  BY <1>1, <1>3, <1>4, WindowStep
<1>6. StateOK'
  BY <1>0, <1>1, <1>2 DEF StateOK
<1> QED BY <1>5, <1>6 DEF PortsInv

\* What the steps of a worker w change of the window.
WorkerStep(w) ==
  /\ DOMAIN page' = DOMAIN page /\ page'.worker \in [Worker -> WorkerRec]
  /\ page'.doc = page.doc /\ page'.docs = page.docs /\ page'.owner = page.owner
  /\ \A v \in Worker \ {w} : page'.worker[v] = page.worker[v]

LEMMA AnnounceShape ==
    ASSUME StateOK, NEW w \in Worker, AnnounceWorker(w)
    PROVE  /\ WorkerStep(w) /\ page.worker[w].doc = 0 /\ page'.worker[w].doc = page.doc
           /\ page'.worker[w].call = "closed" /\ \E p \in Own : Says(p, <<"worker", w>>)
           /\ UNCHANGED <<posted, toPage, b, bg>>
<1> DEFINE x == [NoWorker EXCEPT !.doc = page.doc, !.run = TRUE, !.asked = TRUE]
           k == [page.worker EXCEPT ![w] = x]
<1>1. x \in WorkerRec /\ x.doc = page.doc /\ x.call = "closed"
  BY DEF NoWorker, WorkerRec, CallState, StateOK
<1> HIDE DEF x
<1>2. /\ DOMAIN page' = DOMAIN page /\ page'.worker = k
      /\ page'.doc = page.doc /\ page'.docs = page.docs /\ page'.owner = page.owner
      /\ page.worker[w].doc = 0
  BY DEF AnnounceWorker, StateOK, x
<1>3. k \in [Worker -> WorkerRec] /\ k[w] = x /\ \A v \in Worker \ {w} : k[v] = page.worker[v]
  BY <1>1 DEF StateOK
<1> HIDE DEF k
<1>4. (\E p \in Own : Says(p, <<"worker", w>>)) /\ UNCHANGED <<posted, toPage, b, bg>>
  BY DEF AnnounceWorker
<1> QED BY <1>1, <1>2, <1>3, <1>4 DEF WorkerStep

\* Two fields of a worker are set, neither of which says whose it is.
LEMMA FlagsShape ==
    ASSUME StateOK, NEW w \in Worker, NEW x \in WorkerRec,
           x.doc = page.worker[w].doc, x.call = page.worker[w].call,
           DOMAIN page' = DOMAIN page, page'.doc = page.doc, page'.docs = page.docs,
           page'.owner = page.owner, page'.worker = [page.worker EXCEPT ![w] = x]
    PROVE  /\ WorkerStep(w) /\ page'.worker[w].run = x.run
           /\ page'.worker[w].doc = page.worker[w].doc /\ page'.worker[w].call = page.worker[w].call
<1> DEFINE k == [page.worker EXCEPT ![w] = x]
<1>1. k \in [Worker -> WorkerRec] /\ k[w] = x /\ \A v \in Worker \ {w} : k[v] = page.worker[v]
  BY DEF StateOK
<1> HIDE DEF k
<1>2. page'.worker = k
  BY DEF k
<1> QED BY <1>1, <1>2 DEF WorkerStep

LEMMA WorkerKeyShape ==
    ASSUME StateOK, NEW w \in Worker, WorkerKey(w)
    PROVE  /\ WorkerStep(w) /\ page'.worker[w].doc = page.worker[w].doc
           /\ page'.worker[w].run = page.worker[w].run /\ page'.worker[w].call = page.worker[w].call
           /\ toBridge' = toBridge \/ \E p \in Own : Says(p, <<"drop", w>>)
           /\ toPage' \subseteq toPage /\ UNCHANGED <<posted, b, bg>>
<1> DEFINE y == page.worker[w]
           x == [y EXCEPT !.key = TRUE, !.sent = ~y.run]
<1>1. y \in WorkerRec
  BY DEF StateOK
<1>2. /\ page' = [page EXCEPT !.worker[w].key = TRUE, !.worker[w].sent = ~page.worker[w].run]
      /\ toBridge' = toBridge \/ \E p \in Own : Says(p, <<"drop", w>>)
      /\ toPage' \subseteq toPage /\ UNCHANGED <<posted, b, bg>>
  BY DEF WorkerKey
<1>3. /\ DOMAIN page' = DOMAIN page
      /\ page'.doc = page.doc /\ page'.docs = page.docs /\ page'.owner = page.owner
      /\ page'.worker = [page.worker EXCEPT ![w] = x]
  BY <1>2 DEF StateOK
<1> HIDE DEF y
<1>4. x \in WorkerRec /\ x.doc = y.doc /\ x.call = y.call /\ x.run = y.run
  BY <1>1 DEF WorkerRec
<1> HIDE DEF x
<1>5. /\ WorkerStep(w) /\ page'.worker[w].run = x.run
      /\ page'.worker[w].doc = page.worker[w].doc /\ page'.worker[w].call = page.worker[w].call
  BY <1>3, <1>4, FlagsShape DEF y
<1> QED BY <1>2, <1>4, <1>5 DEF y

LEMMA TerminateShape ==
    ASSUME StateOK, NEW w \in Worker, Terminate(w)
    PROVE  /\ WorkerStep(w) /\ page'.worker[w].doc = page.worker[w].doc
           /\ page'.worker[w].run = FALSE /\ page'.worker[w].call = page.worker[w].call
           /\ toBridge' = toBridge \/ \E p \in Own : Says(p, <<"drop", w>>)
           /\ toPage' \subseteq toPage /\ UNCHANGED <<posted, b, bg>>
<1> DEFINE y == page.worker[w]
           x == [y EXCEPT !.run = FALSE, !.sent = y.key]
<1>1. y \in WorkerRec
  BY DEF StateOK
<1>2. /\ page' = [page EXCEPT !.worker[w].run = FALSE, !.worker[w].sent = page.worker[w].key]
      /\ toBridge' = toBridge \/ \E p \in Own : Says(p, <<"drop", w>>)
      /\ UNCHANGED <<posted, toPage, b, bg>>
  BY DEF Terminate
<1>3. /\ DOMAIN page' = DOMAIN page
      /\ page'.doc = page.doc /\ page'.docs = page.docs /\ page'.owner = page.owner
      /\ page'.worker = [page.worker EXCEPT ![w] = x]
  BY <1>2 DEF StateOK
<1> HIDE DEF y
<1>4. x \in WorkerRec /\ x.doc = y.doc /\ x.call = y.call /\ x.run = FALSE
  BY <1>1 DEF WorkerRec
<1> HIDE DEF x
<1>5. /\ WorkerStep(w) /\ page'.worker[w].run = x.run
      /\ page'.worker[w].doc = page.worker[w].doc /\ page'.worker[w].call = page.worker[w].call
  BY <1>3, <1>4, FlagsShape DEF y
<1> QED BY <1>2, <1>4, <1>5

\* What a step of a worker says on a port is no answer and no farewell.
LEMMA WorkerStepPorts ==
    ASSUME PortsInv, NEW w \in Worker, WorkerStep(w), UNCHANGED <<posted, b, bg>>, toPage' \subseteq toPage,
           toBridge' = toBridge \/ \E p \in Own : Says(p, <<"drop", w>>) \/ Says(p, <<"worker", w>>)
    PROVE  PortsInv'
<1>0. StateOK
  BY DEF PortsInv
<1>1. /\ toBridge' \in [Ports -> Seq(PortMsg)]
      /\ \A q \in Ports : \A i \in DOMAIN toBridge'[q] :
           \/ i \in DOMAIN toBridge[q] /\ toBridge'[q][i] = toBridge[q][i]
           \/ toBridge'[q][i] \in {<<"drop", w>>, <<"worker", w>>}
  <2>1. CASE toBridge' = toBridge
    BY <1>0, <2>1 DEF StateOK
  <2>2. ASSUME NEW p \in Own, NEW m \in {<<"drop", w>>, <<"worker", w>>}, Says(p, m)
        PROVE  <1>1
    <3>1. p \in Ports /\ m \in PortMsg
      BY <2>2, OwnIsOwned DEF PortMsg
    <3> QED BY <1>0, <2>2, <3>1, SaysShape
  <2> QED BY <2>1, <2>2
<1>2. \A q \in Ports : Asked(q)' => Asked(q)
  BY <1>1 DEF Asked
<1>3. \A q \in Ports : \A i \in DOMAIN toBridge'[q] : toBridge'[q][i][1] = "gone" =>
        \E j \in DOMAIN toBridge[q] : toBridge[q][j][1] = "gone"
  BY <1>1
<1>4. GateInv(b)' /\ b'.out = {} /\ OffersOK'
  BY <1>2, <1>3, WindowStep DEF WorkerStep
<1>5. StateOK'
  BY <1>0, <1>1 DEF StateOK, WorkerStep
<1> QED BY <1>4, <1>5 DEF PortsInv

LEMMA WorkerCallsShape ==
    ASSUME StateOK, NEW w \in Worker, WorkerCalls(w)
    PROVE  /\ WorkerStep(w) /\ page'.worker[w].doc = page.worker[w].doc
           /\ page'.worker[w].run = page.worker[w].run /\ page.worker[w].run
           /\ \/ page.worker[w].call = "closed" /\ page'.worker[w].call = "asked to open"
              \/ page.worker[w].call = "open" /\ page'.worker[w].call = "asked to close"
           /\ UNCHANGED <<posted, toBridge, toPage, b, bg>>
<1>1. PICK c \in {"asked to open", "asked to close"} :
        /\ page.worker[w].run /\ Called(w, c)
        /\ \/ page.worker[w].call = "closed" /\ c = "asked to open"
           \/ page.worker[w].call = "open" /\ c = "asked to close"
  BY DEF WorkerCalls
<1>2. c \in CallState
  BY DEF CallState
<1> DEFINE x == [page.worker[w] EXCEPT !.call = c]
<1>3. page.worker[w] \in WorkerRec
  BY DEF StateOK
<1>4. x \in WorkerRec /\ x.doc = page.worker[w].doc /\ x.run = page.worker[w].run /\ x.call = c
  BY <1>2, <1>3, CallRec
<1> DEFINE k == [page.worker EXCEPT ![w] = x]
<1>5. /\ DOMAIN page' = DOMAIN page /\ page'.worker = k
      /\ page'.doc = page.doc /\ page'.docs = page.docs /\ page'.owner = page.owner
  BY <1>1 DEF Called, StateOK
<1> HIDE DEF x
<1>6. k \in [Worker -> WorkerRec] /\ k[w] = x /\ \A v \in Worker \ {w} : k[v] = page.worker[v]
  BY <1>4 DEF StateOK
<1> HIDE DEF k
<1>7. UNCHANGED <<posted, toBridge, toPage, b, bg>>
  BY DEF WorkerCalls
<1> QED BY <1>1, <1>4, <1>5, <1>6, <1>7 DEF WorkerStep

LEMMA BridgeReadyPorts == PortsInv /\ BridgeReady => PortsInv'
<1> SUFFICES ASSUME PortsInv, BridgeReady
             PROVE  PortsInv'
  OBVIOUS
<1>0. StateOK
  BY DEF PortsInv
<1>1. /\ DOMAIN page' = DOMAIN page /\ page'.worker = page.worker
      /\ page'.doc = page.doc /\ page'.docs = page.docs /\ page'.owner = page.owner
      /\ toPage' \subseteq toPage /\ UNCHANGED <<posted, toBridge, b, bg>>
  BY <1>0 DEF BridgeReady, StateOK
<1>2. \A q \in Ports : Asked(q)' => Asked(q)
  BY <1>1 DEF Asked
<1>3. GateInv(b)' /\ b'.out = {} /\ OffersOK'
  BY <1>1, <1>2, WindowStep
<1>4. StateOK'
  BY <1>0, <1>1 DEF StateOK
<1> QED BY <1>3, <1>4 DEF PortsInv

LEMMA InitPorts == Init => PortsInv
<1> SUFFICES ASSUME Init
             PROVE  PortsInv
  OBVIOUS
<1> DEFINE noctx == [p \in Ports |-> [doc |-> 0, state |-> "none"]]
           noworker == [w \in Worker |-> NoWorker]
<1>1. /\ DOMAIN page = {"doc", "docs", "owner", "ready", "late", "worker"}
      /\ page.doc = 1 /\ page.docs = 1 /\ page.owner = [p \in Ports |-> 0] /\ page.worker = noworker
      /\ posted = <<>> /\ toBridge = [p \in Ports |-> <<>>] /\ toPage = {} /\ DOMAIN bg = {"live", "used"}
  BY DEF Init
<1>2. /\ DOMAIN b = {"on", "serial", "target", "clean", "cands", "ctx", "source", "client",
                     "session", "control", "out"}
      /\ b.on = FALSE /\ b.serial = 0 /\ b.target = 0 /\ b.cands = <<>> /\ b.ctx = noctx /\ b.source = 0
      /\ b.client = [w \in Worker |-> 0] /\ b.session = [w \in Worker |-> None]
      /\ b.control = <<>> /\ b.out = {}
  BY DEF Init
<1>3. noctx \in [Ports -> CtxRec]
  BY DEF CtxRec
<1>4. noworker \in [Worker -> WorkerRec]
  <2>1. NoWorker \in WorkerRec
    BY DEF NoWorker, WorkerRec, CallState
  <2> QED BY <2>1
<1>5. <<>> \in Seq(AskRec) /\ <<>> \in Seq(Ports) /\ <<>> \in Seq(PortMsg)
  OBVIOUS
<1>6. \A p \in Ports : b.ctx[p].doc = 0 /\ b.ctx[p].state = "none"
  BY <1>2
<1> HIDE DEF noctx, noworker
<1>7. StateOK
  BY <1>1, <1>4, <1>5 DEF StateOK
<1>8. BridgeOK(b)
  <2>1. /\ b.client \in [Worker -> {0} \cup Ports] /\ b.session \in [Worker -> Token \cup {None}]
    BY <1>2
  <2>2. b.on \in BOOLEAN
    BY <1>2
  <2>3. b.serial \in Nat /\ b.target \in Nat /\ b.source \in {0} \cup Ports
    BY <1>2
  <2>4. b.cands \in Seq(CandRec) /\ b.ctx \in [Ports -> CtxRec] /\ b.control \in Seq(AskRec)
    BY <1>2, <1>3, <1>5, EmptyCands
  <2> QED BY <1>2, <2>1, <2>2, <2>3, <2>4 DEF BridgeOK
<1>9. ContextsOK(b) /\ CandidatesOK(b) /\ PurgesOK(b)
  BY <1>2, <1>6 DEF ContextsOK, CandidatesOK, PurgesOK
<1>10. \A p \in Ports : Fresh(p)
  BY <1>1, <1>2, <1>6 DEF Fresh, Unknown, Asked
<1>11. OffersOK
  BY <1>1, <1>10 DEF OffersOK
<1> QED BY <1>2, <1>7, <1>8, <1>9, <1>11 DEF PortsInv, GateInv

LEMMA WorkerPorts ==
    ASSUME NEW w \in Worker, PortsInv,
           AnnounceWorker(w) \/ WorkerKey(w) \/ Terminate(w) \/ WorkerCalls(w)
    PROVE  PortsInv'
<1>0. StateOK
  BY DEF PortsInv
<1>1. CASE AnnounceWorker(w)
  <2>1. WorkerStep(w) /\ (\E p \in Own : Says(p, <<"worker", w>>)) /\ UNCHANGED <<posted, toPage, b, bg>>
    BY <1>0, <1>1, AnnounceShape
  <2> QED BY <2>1, WorkerStepPorts
<1>2. CASE WorkerKey(w)
  <2>1. /\ WorkerStep(w) /\ toPage' \subseteq toPage /\ UNCHANGED <<posted, b, bg>>
        /\ toBridge' = toBridge \/ \E p \in Own : Says(p, <<"drop", w>>)
    BY <1>0, <1>2, WorkerKeyShape
  <2> QED BY <2>1, WorkerStepPorts
<1>3. CASE Terminate(w)
  <2>1. /\ WorkerStep(w) /\ toPage' \subseteq toPage /\ UNCHANGED <<posted, b, bg>>
        /\ toBridge' = toBridge \/ \E p \in Own : Says(p, <<"drop", w>>)
    BY <1>0, <1>3, TerminateShape
  <2> QED BY <2>1, WorkerStepPorts
<1>4. CASE WorkerCalls(w)
  <2>1. WorkerStep(w) /\ UNCHANGED <<posted, toBridge, toPage, b, bg>>
    BY <1>0, <1>4, WorkerCallsShape
  <2> QED BY <2>1, WorkerStepPorts
<1> QED BY <1>1, <1>2, <1>3, <1>4

LEMMA StutterPorts == PortsInv /\ UNCHANGED vars => PortsInv'
<1> SUFFICES ASSUME PortsInv, UNCHANGED vars
             PROVE  PortsInv'
  OBVIOUS
<1>1. UNCHANGED <<page, posted, toBridge, toPage, b, bg>>
  BY DEF vars
<1>2. \A q \in Ports : Asked(q)' => Asked(q)
  BY <1>1 DEF Asked
<1>3. GateInv(b)' /\ b'.out = {} /\ OffersOK'
  BY <1>1, <1>2, WindowStep
<1>4. StateOK'
  BY <1>1 DEF PortsInv, StateOK
<1> QED BY <1>3, <1>4 DEF PortsInv

\* The gate keeps its contexts, candidates and offers consistent.
THEOREM PortsInvCorrect == Spec => []PortsInv
<1>1. Init => PortsInv
  BY InitPorts
<1>2. PortsInv /\ [Next]_vars => PortsInv'
  <2> SUFFICES ASSUME PortsInv, [Next]_vars
               PROVE  PortsInv'
    OBVIOUS
  <2>1. CASE ReceiveOffer
    BY <2>1, ReceiveOfferPorts
  <2>2. CASE Deadline
    BY <2>2, DeadlinePorts DEF Deadline
  <2>3. CASE Serve
    BY <2>3, ServePorts
  <2>4. ASSUME NEW p \in Ports, Receive(p) \/ AnswerProbe(p)
        PROVE  PortsInv'
    BY <2>4, ReceivePorts, AnswerProbePorts
  <2>5. CASE Leave
    BY <2>5, LeavePorts
  <2>6. CASE Load
    BY <2>6, LoadPorts
  <2>7. CASE Offer
    BY <2>7, OfferPorts
  <2>8. CASE BridgeReady
    BY <2>8, BridgeReadyPorts
  <2>9. ASSUME NEW w \in Worker, OpenRequest(w) \/ CloseRequest(w)
        PROVE  PortsInv'
    BY <2>9, OpenRequestPorts, CloseRequestPorts
  <2>10. ASSUME NEW w \in Worker, AnnounceWorker(w) \/ WorkerKey(w) \/ Terminate(w) \/ WorkerCalls(w)
         PROVE  PortsInv'
    BY <2>10, WorkerPorts
  <2>11. CASE UNCHANGED vars
    BY <2>11, StutterPorts
  <2> QED BY <2>1, <2>2, <2>3, <2>4, <2>5, <2>6, <2>7, <2>8, <2>9, <2>10, <2>11 DEF Next
<1> QED BY <1>1, <1>2, PTL DEF Spec

\* The gate hears of documents only by the window's current identity, yet each
\* context is of the document that posted its port, and a document has one.
THEOREM PortsCorrect == Spec => []OnePortPerDocument
<1>1. PortsInv => OnePortPerDocument
  BY DEF PortsInv, GateInv, ContextsOK, OnePortPerDocument
<1> QED BY <1>1, PortsInvCorrect, PTL

-----------------------------------------------------------------------------
(* The sessions *)

\* A request that is appended.
LEMMA AppendShape ==
    ASSUME NEW s, NEW r, BridgeOK(s), NEW x \in AskRec, r.control = Append(s.control, x)
    PROVE  LET n == Len(s.control) + 1
           IN  /\ n \in DOMAIN r.control /\ r.control[n] = x /\ n \in Nat
               /\ \A i \in DOMAIN s.control : /\ i \in DOMAIN r.control /\ r.control[i] = s.control[i]
                                              /\ i \in Nat /\ i < n
               /\ \A i \in DOMAIN r.control : \/ i \in DOMAIN s.control /\ r.control[i] = s.control[i]
                                              \/ i = n
BY DEF BridgeOK

\* What keeps contexts, clients, sessions and requests keeps the rest.
LEMMA GrowsSessions ==
    ASSUME NEW s, NEW r, NEW g, NEW k, NEW l, NEW N, NEW M, BridgeOK(s), SessionsInv(s, g, k, N),
           Grows(s, r), M \subseteq N, \A w \in Worker : l[w].call = k[w].call
    PROVE  SessionsInv(r, g, l, M)
<1>1. \A w \in Worker : Registered(s, w) => Registered(r, w)
  BY DEF Registered, Grows, BridgeOK
<1>2. AllCovered(r, g)
  <2> SUFFICES ASSUME NEW t \in DOMAIN g.live
               PROVE  Covered(r, g, t)
    BY DEF AllCovered
  <2>1. Covered(s, g, t)
    BY DEF SessionsInv, AllCovered
  <2> QED BY <1>1, <2>1 DEF Covered, Grows
<1>3. ClientsOK(r, g)
  BY DEF SessionsInv, ClientsOK, Grows, BridgeOK
<1>4. CallsOK(r, l)
  BY DEF SessionsInv, CallsOK, Grows
<1>5. EndsOK(r, g) /\ TokensOK(r, g)
  BY DEF SessionsInv, EndsOK, TokensOK, Grows
<1>6. WorkersOK(r, M)
  BY DEF SessionsInv, WorkersOK, Grows
<1> QED BY <1>2, <1>3, <1>4, <1>5, <1>6 DEF SessionsInv

\* A request that is no call.
LEMMA AppendCalls ==
    ASSUME NEW s, NEW r, NEW k, BridgeOK(s), CallsOK(s, k), NEW x \in AskRec,
           x.op \notin {"open", "close"}, x.op = "drop" => x.worker \in Worker,
           r.control = Append(s.control, x), r.session = s.session
    PROVE  CallsOK(r, k)
<1> DEFINE n == Len(s.control) + 1
<1>1. /\ r.control[n] = x
      /\ \A i \in DOMAIN r.control : \/ i \in DOMAIN s.control /\ r.control[i] = s.control[i]
                                     \/ i = n
  BY AppendShape
<1> HIDE DEF n
<1>2. ASSUME NEW i \in DOMAIN r.control
      PROVE  /\ r.control[i].op \in {"open", "close", "drop"} => r.control[i].worker \in Worker
             /\ r.control[i].op = "open" => k[r.control[i].worker].call = "opening"
             /\ r.control[i].op = "close" => k[r.control[i].worker].call = "closing"
  BY <1>1, <1>2 DEF CallsOK
<1>3. ASSUME NEW i \in DOMAIN r.control, NEW j \in DOMAIN r.control,
             r.control[i].op \in {"open", "close"}, r.control[j].op \in {"open", "close"},
             r.control[i].worker = r.control[j].worker
      PROVE  i = j
  <2>1. /\ i \in DOMAIN s.control /\ r.control[i] = s.control[i]
        /\ j \in DOMAIN s.control /\ r.control[j] = s.control[j]
    BY <1>1, <1>3
  <2> QED BY <1>3, <2>1 DEF CallsOK
<1> QED BY <1>2, <1>3 DEF CallsOK

\* destroyFrameContext: the clients of the context lose it, and the background
\* is asked to end their sessions.
LEMMA DestroySessions ==
    ASSUME NEW s, NEW r, NEW g, NEW k, NEW N, BridgeOK(s), SessionsInv(s, g, k, N), N \subseteq Worker,
           NEW p \in Ports, Destroys(s, r, p)
    PROVE  SessionsInv(r, g, k, N)
<1> DEFINE n == Len(s.control) + 1
<1>1. PICK x \in AskRec : /\ x.op = "purge" /\ x.port = p /\ x.tok = None
                          /\ r.control = Append(s.control, x)
  BY DEF Destroys
<1>2. /\ n \in DOMAIN r.control /\ r.control[n] = x /\ n \in Nat
      /\ \A i \in DOMAIN s.control : /\ i \in DOMAIN r.control /\ r.control[i] = s.control[i]
                                     /\ i \in Nat /\ i < n
      /\ \A i \in DOMAIN r.control : \/ i \in DOMAIN s.control /\ r.control[i] = s.control[i]
                                     \/ i = n
  BY <1>1, AppendShape
<1> HIDE DEF n
<1>3. /\ r.session = s.session
      /\ \A w \in Worker : r.client[w] = IF s.client[w] = p THEN 0 ELSE s.client[w]
      /\ \A q \in Ports \ {p} : Live(s, q) => Live(r, q)
      /\ \A w \in Worker : s.client[w] \in {0} \cup Ports
  BY DEF Destroys, BridgeOK
<1>4. AllCovered(r, g)
  <2> SUFFICES ASSUME NEW t \in DOMAIN g.live
               PROVE  Covered(r, g, t)
    BY DEF AllCovered
  <2>1. Covered(s, g, t)
    BY DEF SessionsInv, AllCovered
  <2>2. ASSUME NEW w \in Worker, s.session[w] = t, Registered(s, w)
        PROVE  Covered(r, g, t)
    <3>1. CASE s.client[w] = p
      <4>1. g.live[t] = p
        BY <2>2, <3>1, NoPort DEF SessionsInv, ClientsOK
      <4> QED BY <1>1, <1>2, <4>1 DEF Covered
    <3>2. CASE s.client[w] # p
      <4>1. Registered(r, w)
        BY <1>3, <2>2, <3>2 DEF Registered
      <4> QED BY <1>3, <2>2, <4>1 DEF Covered
    <3> QED BY <3>1, <3>2
  <2>3. ASSUME NEW i \in DOMAIN s.control,
               \/ s.control[i].op \in {"drop", "clean", "close"} /\ s.control[i].tok = t
               \/ s.control[i].op = "purge" /\ s.control[i].port = g.live[t]
        PROVE  Covered(r, g, t)
    BY <1>2, <2>3 DEF Covered
  <2> QED BY <2>1, <2>2, <2>3 DEF Covered
<1>5. ClientsOK(r, g)
  BY <1>3 DEF SessionsInv, ClientsOK
<1>6. CallsOK(r, k)
  <2>1. CallsOK(s, k)
    BY DEF SessionsInv
  <2>2. x.op \notin {"open", "close", "drop"}
    BY <1>1
  <2> QED BY <1>1, <1>3, <2>1, <2>2, AppendCalls
<1>7. EndsOK(r, g)
  BY <1>1, <1>2, <1>3 DEF SessionsInv, EndsOK
<1>8. TokensOK(r, g)
  BY <1>1, <1>2, <1>3 DEF SessionsInv, TokensOK
<1>9. WorkersOK(r, N)
  <2> SUFFICES ASSUME NEW w \in N
               PROVE  /\ r.client[w] = 0 /\ r.session[w] = None
                      /\ \A i \in DOMAIN r.control :
                           r.control[i].op \in {"open", "close", "drop"} => r.control[i].worker # w
    BY DEF WorkersOK
  <2> QED BY <1>1, <1>2, <1>3 DEF SessionsInv, WorkersOK
<1> QED BY <1>4, <1>5, <1>6, <1>7, <1>8, <1>9 DEF SessionsInv

\* Sessions end in the background.
Fewer(g, h) == /\ DOMAIN h.live \subseteq DOMAIN g.live /\ h.used = g.used
               /\ \A t \in DOMAIN h.live : h.live[t] = g.live[t]
LEMMA FewerSessions ==
    ASSUME NEW s, NEW g, NEW h, NEW k, NEW N, SessionsInv(s, g, k, N), Fewer(g, h)
    PROVE  SessionsInv(s, h, k, N)
<1>1. AllCovered(s, h)
  BY DEF SessionsInv, AllCovered, Covered, Fewer
<1>2. ClientsOK(s, h) /\ EndsOK(s, h) /\ TokensOK(s, h)
  BY DEF SessionsInv, ClientsOK, EndsOK, TokensOK, Fewer
<1> QED BY <1>1, <1>2 DEF SessionsInv

\* A request is served that ends no session, or whose session has ended.
Covers(r, g, t) == \/ r.op \in {"drop", "clean", "close"} /\ r.tok = t
                   \/ r.op = "purge" /\ r.port = g.live[t]
LEMMA ServedSessions ==
    ASSUME BridgeOK(b), b.control # <<>>, NEW g, NEW k, NEW N, SessionsInv(b, g, k, N),
           \A t \in DOMAIN g.live : ~Covers(Head(b.control), g, t)
    PROVE  LET s == [b EXCEPT !.control = Tail(@)]
               w == Head(b.control).worker
           IN  /\ SessionsInv(s, g, k, N)
               /\ Head(b.control).op \in {"open", "close"} =>
                    \A i \in DOMAIN s.control : s.control[i].op \in {"open", "close"} => s.control[i].worker # w
               /\ Head(b.control).op = "open" =>
                    \A i \in DOMAIN s.control : s.control[i].op = "drop" => s.control[i].worker # w
<1> DEFINE s == [b EXCEPT !.control = Tail(@)]
           r == Head(b.control)
           w == r.worker
<1>1. /\ r = b.control[1] /\ 1 \in DOMAIN b.control
      /\ s.client = b.client /\ s.session = b.session /\ s.ctx = b.ctx
      /\ \A i \in DOMAIN s.control : /\ i \in Nat \ {0} /\ i + 1 \in DOMAIN b.control
                                     /\ s.control[i] = b.control[i + 1]
      /\ \A i \in DOMAIN b.control : i # 1 => i - 1 \in DOMAIN s.control /\ s.control[i - 1] = b.control[i]
  BY ServedShape
<1>2. \A t \in DOMAIN g.live : ~Covers(r, g, t)
  OBVIOUS
<1> HIDE DEF s, r, w
<1>3. AllCovered(s, g)
  <2> SUFFICES ASSUME NEW t \in DOMAIN g.live
               PROVE  Covered(s, g, t)
    BY DEF AllCovered
  <2>1. Covered(b, g, t)
    BY DEF SessionsInv, AllCovered
  <2>2. CASE \E v \in Worker : b.session[v] = t /\ Registered(b, v)
    BY <1>1, <2>2 DEF Covered, Registered, Live
  <2>3. ASSUME NEW i \in DOMAIN b.control, Covers(b.control[i], g, t)
        PROVE  Covered(s, g, t)
    <3>1. i # 1
      BY <1>1, <1>2, <2>3
    <3>2. i - 1 \in DOMAIN s.control /\ s.control[i - 1] = b.control[i]
      BY <1>1, <3>1
    <3> QED BY <2>3, <3>2 DEF Covered, Covers
  <2> QED BY <2>1, <2>2, <2>3 DEF Covered, Covers
<1>4. ClientsOK(s, g)
  BY <1>1 DEF SessionsInv, ClientsOK, Live
<1>5. CallsOK(s, k)
  <2>1. CallsOK(b, k)
    BY DEF SessionsInv
  <2>2. ASSUME NEW i \in DOMAIN s.control
        PROVE  /\ s.control[i].op \in {"open", "close", "drop"} => s.control[i].worker \in Worker
               /\ s.control[i].op = "open" => k[s.control[i].worker].call = "opening"
               /\ s.control[i].op = "close" => k[s.control[i].worker].call = "closing"
    <3>1. PICK j \in DOMAIN b.control : s.control[i] = b.control[j]
      BY <1>1
    <3> QED BY <2>1, <3>1 DEF CallsOK
  <2>3. ASSUME NEW i \in DOMAIN s.control, NEW j \in DOMAIN s.control,
               s.control[i].op \in {"open", "close"}, s.control[j].op \in {"open", "close"},
               s.control[i].worker = s.control[j].worker
        PROVE  i = j
    <3>1. /\ s.control[i] = b.control[i + 1] /\ i + 1 \in DOMAIN b.control /\ i \in Nat
          /\ s.control[j] = b.control[j + 1] /\ j + 1 \in DOMAIN b.control /\ j \in Nat
      BY <1>1
    <3> DEFINE m == i + 1  n == j + 1
    <3>2. m \in DOMAIN b.control /\ n \in DOMAIN b.control
          /\ s.control[i] = b.control[m] /\ s.control[j] = b.control[n]
      BY <3>1
    <3> HIDE DEF m, n
    <3>3. m = n
      BY <2>1, <2>3, <3>2 DEF CallsOK
    <3> QED BY <3>1, <3>3 DEF m, n
  <2> QED BY <1>1, <2>1, <2>2, <2>3 DEF CallsOK
<1>6. EndsOK(s, g)
  <2>1. EndsOK(b, g)
    BY DEF SessionsInv
  <2>2. ASSUME NEW i \in DOMAIN s.control, s.control[i].op \in {"drop", "close"},
               s.session[s.control[i].worker] \in DOMAIN g.live
        PROVE  s.control[i].tok = s.session[s.control[i].worker]
    BY <1>1, <2>1, <2>2 DEF EndsOK
  <2>3. ASSUME NEW i \in DOMAIN s.control, NEW j \in DOMAIN s.control,
               s.control[i].op = "drop", s.control[j].op = "open", s.control[i].worker = s.control[j].worker
        PROVE  i < j
    <3>1. i + 1 < j + 1
      BY <1>1, <2>1, <2>3 DEF EndsOK
    <3> QED BY <1>1, <3>1
  <2> QED BY <2>2, <2>3 DEF EndsOK
<1>7. TokensOK(s, g)
  BY <1>1 DEF SessionsInv, TokensOK
<1>8. WorkersOK(s, N)
  BY <1>1 DEF SessionsInv, WorkersOK
<1>9. ASSUME NEW i \in DOMAIN s.control, r.op \in {"open", "close"}, s.control[i].op \in {"open", "close"}
      PROVE  s.control[i].worker # w
  <2>1. i + 1 # 1
    BY <1>1
  <2> QED BY <1>1, <1>9, <2>1 DEF SessionsInv, CallsOK, w
<1>10. ASSUME NEW i \in DOMAIN s.control, r.op = "open", s.control[i].op = "drop"
       PROVE  s.control[i].worker # w
  <2>1. ~(i + 1 < 1)
    BY <1>1
  <2> QED BY <1>1, <1>10, <2>1 DEF SessionsInv, EndsOK, w
<1> QED BY <1>3, <1>4, <1>5, <1>6, <1>7, <1>8, <1>9, <1>10 DEF SessionsInv, s, r, w

\* The session of a worker that has none is set to one that has ended, or none,
\* and its client stays or goes.
LEMMA SetSessions ==
    ASSUME NEW s, NEW r, NEW g, NEW k, NEW N, BridgeOK(s), SessionsInv(s, g, k, N), N \subseteq Worker,
           NEW w \in Worker, NEW d,
           r.control = s.control, r.ctx = s.ctx, r.session = [s.session EXCEPT ![w] = d],
           r.client = s.client \/ r.client = [s.client EXCEPT ![w] = 0],
           s.session[w] \notin DOMAIN g.live, d \notin DOMAIN g.live, d \in g.used \cup {None},
           d = None \/ (w \notin N /\ k[w].call \notin {"closed", "asked to open", "opening"})
    PROVE  SessionsInv(r, g, k, N)
<1>1. /\ r.session[w] = d
      /\ \A v \in Worker \ {w} : r.session[v] = s.session[v] /\ r.client[v] = s.client[v]
      /\ r.client[w] \in {0, s.client[w]}
  BY DEF BridgeOK
<1>2. \A p : Live(r, p) <=> Live(s, p)
  BY DEF Live
<1>3. AllCovered(r, g)
  <2> SUFFICES ASSUME NEW t \in DOMAIN g.live
               PROVE  Covered(r, g, t)
    BY DEF AllCovered
  <2>1. Covered(s, g, t)
    BY DEF SessionsInv, AllCovered
  <2>2. ASSUME NEW v \in Worker, s.session[v] = t, Registered(s, v)
        PROVE  Covered(r, g, t)
    <3>1. v # w
      BY <2>2
    <3>2. r.session[v] = t /\ Registered(r, v)
      BY <1>1, <1>2, <2>2, <3>1 DEF Registered
    <3> QED BY <3>2 DEF Covered
  <2> QED BY <2>1, <2>2 DEF Covered
<1>4. ClientsOK(r, g)
  <2> SUFFICES ASSUME NEW v \in Worker, r.client[v] # 0
               PROVE  /\ Live(r, r.client[v])
                      /\ r.session[v] \in DOMAIN g.live => g.live[r.session[v]] = r.client[v]
    BY DEF ClientsOK
  <2> QED BY <1>1, <1>2 DEF SessionsInv, ClientsOK
<1>5. CallsOK(r, k)
  <2>1. \A v \in Worker : k[v].call \in {"closed", "asked to open", "opening"} => r.session[v] = None
    BY <1>1 DEF SessionsInv, CallsOK
  <2> QED BY <2>1 DEF SessionsInv, CallsOK
<1>6. EndsOK(r, g)
  <2>1. ASSUME NEW i \in DOMAIN s.control, s.control[i].op \in {"drop", "close"},
               r.session[s.control[i].worker] \in DOMAIN g.live
        PROVE  s.control[i].tok = r.session[s.control[i].worker]
    <3>1. s.control[i].worker \in Worker
      BY <2>1 DEF SessionsInv, CallsOK
    <3>2. s.control[i].worker # w
      BY <1>1, <2>1
    <3> QED BY <1>1, <2>1, <3>1, <3>2 DEF SessionsInv, EndsOK
  <2> QED BY <2>1 DEF SessionsInv, EndsOK
<1>7. TokensOK(r, g)
  BY <1>1 DEF SessionsInv, TokensOK
<1>8. WorkersOK(r, N)
  <2> SUFFICES ASSUME NEW v \in N
               PROVE  r.client[v] = 0 /\ r.session[v] = None
    BY DEF SessionsInv, WorkersOK
  <2>1. s.client[v] = 0 /\ s.session[v] = None
    BY DEF SessionsInv, WorkersOK
  <2>2. CASE v = w
    BY <1>1, <2>1, <2>2
  <2>3. CASE v # w
    BY <1>1, <2>1, <2>3
  <2> QED BY <2>2, <2>3
<1> QED BY <1>3, <1>4, <1>5, <1>6, <1>7, <1>8 DEF SessionsInv

LEMMA NoneIsNoToken == None \notin Token
BY FrameAssumption

\* A worker is registered with the context it was announced for.
LEMMA RegisterSessions ==
    ASSUME NEW s, NEW g, NEW k, NEW N, BridgeOK(s), SessionsInv(s, g, k, N), N \subseteq Worker,
           NEW w \in N, NEW p \in Ports
    PROVE  SessionsInv(handleWorkerPortRequest(s, p, w), g, k, N \ {w})
<1> DEFINE r == handleWorkerPortRequest(s, p, w)
<1>1. CASE ~Live(s, p)
  <2>1. r = s /\ Grows(s, s)
    BY <1>1 DEF handleWorkerPortRequest, Grows
  <2>2. SessionsInv(s, g, k, N \ {w})
    <3>1. N \ {w} \subseteq N
      OBVIOUS
    <3> QED BY <2>1, <3>1, GrowsSessions
  <2> QED BY <2>1, <2>2
<1>2. CASE Live(s, p)
  <2>1. /\ r.ctx = s.ctx /\ r.control = s.control /\ r.session = s.session
        /\ r.client = [s.client EXCEPT ![w] = p]
    BY <1>2 DEF handleWorkerPortRequest, BridgeOK
  <2> HIDE DEF r
  <2>2. /\ r.client[w] = p
        /\ \A v \in Worker \ {w} : r.client[v] = s.client[v]
    BY <2>1 DEF BridgeOK
  <2>3. s.client[w] = 0 /\ s.session[w] = None /\ None \notin DOMAIN g.live
    BY NoneIsNoToken DEF SessionsInv, WorkersOK, TokensOK
  <2>4. \A q : Live(r, q) <=> Live(s, q)
    BY <2>1 DEF Live
  <2>5. AllCovered(r, g)
    <3> SUFFICES ASSUME NEW t \in DOMAIN g.live
                 PROVE  Covered(r, g, t)
      BY DEF AllCovered
    <3>1. Covered(s, g, t)
      BY DEF SessionsInv, AllCovered
    <3>2. ASSUME NEW v \in Worker, s.session[v] = t, Registered(s, v)
          PROVE  Covered(r, g, t)
      <4>1. v # w
        BY <2>3, <3>2
      <4>2. r.session[v] = t /\ Registered(r, v)
        BY <2>1, <2>2, <2>4, <3>2, <4>1 DEF Registered
      <4> QED BY <4>2 DEF Covered
    <3> QED BY <2>1, <3>1, <3>2 DEF Covered
  <2>6. ClientsOK(r, g)
    BY <1>2, <2>1, <2>2, <2>3, <2>4 DEF SessionsInv, ClientsOK
  <2>7. CallsOK(r, k) /\ EndsOK(r, g) /\ TokensOK(r, g)
    BY <2>1 DEF SessionsInv, CallsOK, EndsOK, TokensOK
  <2>8. WorkersOK(r, N \ {w})
    BY <2>1, <2>2 DEF SessionsInv, WorkersOK
  <2> QED BY <2>5, <2>6, <2>7, <2>8 DEF SessionsInv, r
<1> QED BY <1>1, <1>2

\* A request of a worker the bridge has heard of.
LEMMA AskSessions ==
    ASSUME NEW s, NEW r, NEW g, NEW k, NEW l, NEW N, BridgeOK(s), SessionsInv(s, g, k, N),
           NEW x \in AskRec, r.control = Append(s.control, x), r.ctx = s.ctx,
           r.client = s.client, r.session = s.session, x.op # "purge",
           x.tok \in g.used \cup {None},
           x.op \in {"drop", "close"} => x.tok = s.session[x.worker],
           x.op = "drop" => /\ x.worker \in Worker
                            /\ \A i \in DOMAIN s.control : s.control[i].op = "open" => s.control[i].worker # x.worker,
           x.op \in {"open", "close"} =>
             /\ x.worker \in Worker
             /\ \A i \in DOMAIN s.control : s.control[i].op \in {"open", "close"} => s.control[i].worker # x.worker,
           x.op \in {"open", "close", "drop"} => x.worker \notin N,
           \A w \in Worker : \/ l[w].call = k[w].call
                             \/ w = x.worker /\ x.op \in {"open", "close"},
           x.op = "open" => l[x.worker].call = "opening" /\ s.session[x.worker] = None,
           x.op = "close" => l[x.worker].call = "closing"
    PROVE  SessionsInv(r, g, l, N)
<1> DEFINE n == Len(s.control) + 1
<1>1. /\ n \in DOMAIN r.control /\ r.control[n] = x /\ n \in Nat
      /\ \A i \in DOMAIN s.control : /\ i \in DOMAIN r.control /\ r.control[i] = s.control[i]
                                     /\ i \in Nat /\ i < n
      /\ \A i \in DOMAIN r.control : \/ i \in DOMAIN s.control /\ r.control[i] = s.control[i]
                                     \/ i = n
  BY AppendShape
<1> HIDE DEF n
<1>2. \A p : Live(r, p) <=> Live(s, p)
  BY DEF Live
<1>3. AllCovered(r, g)
  <2> SUFFICES ASSUME NEW t \in DOMAIN g.live
               PROVE  Covered(r, g, t)
    BY DEF AllCovered
  <2>1. Covered(s, g, t)
    BY DEF SessionsInv, AllCovered
  <2>2. \A w \in Worker : Registered(s, w) => Registered(r, w)
    BY <1>2 DEF Registered
  <2> QED BY <1>1, <2>1, <2>2 DEF Covered
<1>4. ClientsOK(r, g)
  BY <1>2 DEF SessionsInv, ClientsOK
<1>5. CallsOK(r, l)
  <2>1. CallsOK(s, k)
    BY DEF SessionsInv
  <2>2. \A w \in Worker : l[w].call \in {"closed", "asked to open", "opening"} => r.session[w] = None
    BY <2>1 DEF CallsOK
  <2>3. ASSUME NEW i \in DOMAIN r.control
        PROVE  /\ r.control[i].op \in {"open", "close", "drop"} => r.control[i].worker \in Worker
               /\ r.control[i].op = "open" => l[r.control[i].worker].call = "opening"
               /\ r.control[i].op = "close" => l[r.control[i].worker].call = "closing"
    <3>1. CASE i = n
      BY <1>1, <3>1
    <3>2. CASE i \in DOMAIN s.control /\ r.control[i] = s.control[i]
      BY <2>1, <3>2 DEF CallsOK
    <3> QED BY <1>1, <3>1, <3>2
  <2>4. ASSUME NEW i \in DOMAIN r.control, NEW j \in DOMAIN r.control,
               r.control[i].op \in {"open", "close"}, r.control[j].op \in {"open", "close"},
               r.control[i].worker = r.control[j].worker
        PROVE  i = j
    <3>1. CASE i = n \/ j = n
      BY <1>1, <2>4, <3>1
    <3>2. CASE /\ i \in DOMAIN s.control /\ r.control[i] = s.control[i]
               /\ j \in DOMAIN s.control /\ r.control[j] = s.control[j]
      BY <2>1, <2>4, <3>2 DEF CallsOK
    <3> QED BY <1>1, <3>1, <3>2
  <2> QED BY <2>2, <2>3, <2>4 DEF CallsOK
<1>6. EndsOK(r, g)
  <2>1. EndsOK(s, g)
    BY DEF SessionsInv
  <2>2. ASSUME NEW i \in DOMAIN r.control, r.control[i].op \in {"drop", "close"},
               r.session[r.control[i].worker] \in DOMAIN g.live
        PROVE  r.control[i].tok = r.session[r.control[i].worker]
    BY <1>1, <2>1, <2>2 DEF EndsOK
  <2>3. ASSUME NEW i \in DOMAIN r.control, NEW j \in DOMAIN r.control,
               r.control[i].op = "drop", r.control[j].op = "open", r.control[i].worker = r.control[j].worker
        PROVE  i < j
    <3>1. i # n
      BY <1>1, <2>3
    <3>2. i \in DOMAIN s.control /\ r.control[i] = s.control[i] /\ i < n
      BY <1>1, <3>1
    <3> QED BY <1>1, <2>1, <2>3, <3>2 DEF EndsOK
  <2> QED BY <2>2, <2>3 DEF EndsOK
<1>7. TokensOK(r, g)
  BY <1>1 DEF SessionsInv, TokensOK
<1>8. WorkersOK(r, N)
  <2> SUFFICES ASSUME NEW w \in N
               PROVE  /\ r.client[w] = 0 /\ r.session[w] = None
                      /\ \A i \in DOMAIN r.control :
                           r.control[i].op \in {"open", "close", "drop"} => r.control[i].worker # w
    BY DEF WorkersOK
  <2> QED BY <1>1 DEF SessionsInv, WorkersOK
<1> QED BY <1>3, <1>4, <1>5, <1>6, <1>7, <1>8 DEF SessionsInv

\* A new session, of the context p, that its worker holds or a request hands back.
Opens(g, h, t, p) ==
  /\ h.used = g.used \cup {t} /\ DOMAIN h.live = DOMAIN g.live \cup {t} /\ h.live[t] = p
  /\ \A x \in DOMAIN g.live \ {t} : h.live[x] = g.live[x]

LEMMA OpenedSessions ==
    ASSUME NEW s, NEW r, NEW g, NEW h, NEW k, NEW l, NEW N, BridgeOK(s), SessionsInv(s, g, k, N),
           N \subseteq Worker, NEW w \in Worker, NEW t \in Token \ g.used, Opens(g, h, t, s.client[w]),
           Registered(s, w), r.control = s.control, r.ctx = s.ctx, r.client = s.client,
           r.session = [s.session EXCEPT ![w] = t], s.session[w] = None,
           \A i \in DOMAIN s.control :
               s.control[i].op \in {"open", "close", "drop"} => s.control[i].worker # w,
           l[w].call = "open", \A v \in Worker \ {w} : l[v].call = k[v].call
    PROVE  SessionsInv(r, h, l, N)
<1>1. r.session[w] = t /\ \A v \in Worker \ {w} : r.session[v] = s.session[v]
  BY DEF BridgeOK
<1>2. \A p : Live(r, p) <=> Live(s, p)
  BY DEF Live
<1>3. \A v \in Worker : Registered(r, v) <=> Registered(s, v)
  BY <1>2 DEF Registered
<1>4. /\ t # None /\ t \notin DOMAIN g.live /\ None \notin DOMAIN h.live
      /\ \A v \in Worker : s.session[v] # t
  BY NoneIsNoToken DEF SessionsInv, TokensOK, Opens
<1>5. AllCovered(r, h)
  <2> SUFFICES ASSUME NEW u \in DOMAIN h.live
               PROVE  Covered(r, h, u)
    BY DEF AllCovered
  <2>1. CASE u = t
    BY <1>1, <1>3, <2>1 DEF Covered
  <2>2. CASE u # t
    <3>1. u \in DOMAIN g.live /\ h.live[u] = g.live[u] /\ Covered(s, g, u)
      BY <2>2 DEF Opens, SessionsInv, AllCovered
    <3>2. ASSUME NEW v \in Worker, s.session[v] = u, Registered(s, v)
          PROVE  Covered(r, h, u)
      <4>1. v # w
        BY <1>4, <3>2
      <4> QED BY <1>1, <1>3, <3>2, <4>1 DEF Covered
    <3> QED BY <3>1, <3>2 DEF Covered
  <2> QED BY <2>1, <2>2
<1>6. ClientsOK(r, h)
  <2> SUFFICES ASSUME NEW v \in Worker, s.client[v] # 0
               PROVE  /\ Live(s, s.client[v])
                      /\ r.session[v] \in DOMAIN h.live => h.live[r.session[v]] = s.client[v]
    BY <1>2 DEF ClientsOK
  <2>1. CASE v = w
    BY <1>1, <2>1 DEF SessionsInv, ClientsOK, Opens
  <2>2. CASE v # w
    BY <1>1, <1>4, <2>2 DEF SessionsInv, ClientsOK, Opens
  <2> QED BY <2>1, <2>2
<1>7. CallsOK(r, l)
  <2>1. CallsOK(s, k)
    BY DEF SessionsInv
  <2>2. ASSUME NEW v \in Worker, l[v].call \in {"closed", "asked to open", "opening"}
        PROVE  r.session[v] = None
    <3>1. v # w
      BY <2>2
    <3> QED BY <1>1, <2>1, <2>2, <3>1 DEF CallsOK
  <2>3. ASSUME NEW i \in DOMAIN s.control
        PROVE  /\ s.control[i].op \in {"open", "close", "drop"} => s.control[i].worker \in Worker
               /\ s.control[i].op = "open" => l[s.control[i].worker].call = "opening"
               /\ s.control[i].op = "close" => l[s.control[i].worker].call = "closing"
    BY <2>1 DEF CallsOK
  <2> QED BY <2>1, <2>2, <2>3 DEF CallsOK
<1>8. EndsOK(r, h)
  <2>1. EndsOK(s, g)
    BY DEF SessionsInv
  <2>2. ASSUME NEW i \in DOMAIN s.control, s.control[i].op \in {"drop", "close"},
               r.session[s.control[i].worker] \in DOMAIN h.live
        PROVE  s.control[i].tok = r.session[s.control[i].worker]
    <3> DEFINE v == s.control[i].worker
    <3>1. v \in Worker \ {w}
      BY <2>2 DEF SessionsInv, CallsOK
    <3>2. r.session[v] = s.session[v] /\ s.session[v] \in DOMAIN g.live
      BY <1>1, <1>4, <2>2, <3>1 DEF Opens
    <3> QED BY <2>1, <2>2, <3>2 DEF EndsOK
  <2> QED BY <2>1, <2>2 DEF EndsOK
<1>9. TokensOK(r, h)
  BY <1>1 DEF SessionsInv, TokensOK, Opens
<1>10. WorkersOK(r, N)
  <2> SUFFICES ASSUME NEW v \in N
               PROVE  r.session[v] = None
    BY DEF SessionsInv, WorkersOK
  <2>1. v # w
    BY DEF SessionsInv, WorkersOK, Registered
  <2> QED BY <1>1, <2>1 DEF SessionsInv, WorkersOK
<1> QED BY <1>5, <1>6, <1>7, <1>8, <1>9, <1>10 DEF SessionsInv

\* handleOpenSuccess for a client that is gone.
LEMMA HandedBackSessions ==
    ASSUME NEW s, NEW r, NEW g, NEW h, NEW k, NEW N, BridgeOK(s), SessionsInv(s, g, k, N),
           NEW p, NEW t \in Token \ g.used, Opens(g, h, t, p),
           NEW x \in AskRec, x.op = "clean", x.tok = t, r.control = Append(s.control, x), r.ctx = s.ctx,
           r.client = s.client, r.session = s.session
    PROVE  SessionsInv(r, h, k, N)
<1> DEFINE n == Len(s.control) + 1
<1>1. /\ n \in DOMAIN r.control /\ r.control[n] = x /\ n \in Nat
      /\ \A i \in DOMAIN s.control : /\ i \in DOMAIN r.control /\ r.control[i] = s.control[i]
                                     /\ i \in Nat /\ i < n
      /\ \A i \in DOMAIN r.control : \/ i \in DOMAIN s.control /\ r.control[i] = s.control[i]
                                     \/ i = n
  BY AppendShape
<1> HIDE DEF n
<1>2. \A q : Live(r, q) <=> Live(s, q)
  BY DEF Live
<1>3. \A v \in Worker : Registered(r, v) <=> Registered(s, v)
  BY <1>2 DEF Registered
<1>4. t \notin DOMAIN g.live /\ \A v \in Worker : s.session[v] # t
  BY NoneIsNoToken DEF SessionsInv, TokensOK
<1>5. AllCovered(r, h)
  <2> SUFFICES ASSUME NEW u \in DOMAIN h.live
               PROVE  Covered(r, h, u)
    BY DEF AllCovered
  <2>1. CASE u = t
    BY <1>1, <2>1 DEF Covered
  <2>2. CASE u # t
    <3>1. u \in DOMAIN g.live /\ h.live[u] = g.live[u] /\ Covered(s, g, u)
      BY <2>2 DEF Opens, SessionsInv, AllCovered
    <3> QED BY <1>1, <1>3, <3>1 DEF Covered
  <2> QED BY <2>1, <2>2
<1>6. ClientsOK(r, h)
  BY <1>2, <1>4 DEF SessionsInv, ClientsOK, Opens
<1>7. CallsOK(r, k)
  <2>1. CallsOK(s, k)
    BY DEF SessionsInv
  <2> QED BY <2>1, AppendCalls
<1>8. EndsOK(r, h)
  <2>1. EndsOK(s, g)
    BY DEF SessionsInv
  <2>2. ASSUME NEW i \in DOMAIN r.control, r.control[i].op \in {"drop", "close"},
               r.session[r.control[i].worker] \in DOMAIN h.live
        PROVE  r.control[i].tok = r.session[r.control[i].worker]
    <3>1. i \in DOMAIN s.control /\ r.control[i] = s.control[i]
      BY <1>1, <2>2
    <3>2. s.control[i].worker \in Worker
      BY <2>2, <3>1 DEF SessionsInv, CallsOK
    <3>3. s.session[s.control[i].worker] \in DOMAIN g.live
      BY <1>4, <2>2, <3>1, <3>2 DEF Opens
    <3> QED BY <2>1, <2>2, <3>1, <3>3 DEF EndsOK
  <2>3. ASSUME NEW i \in DOMAIN r.control, NEW j \in DOMAIN r.control,
               r.control[i].op = "drop", r.control[j].op = "open", r.control[i].worker = r.control[j].worker
        PROVE  i < j
    <3>1. /\ i \in DOMAIN s.control /\ r.control[i] = s.control[i]
          /\ j \in DOMAIN s.control /\ r.control[j] = s.control[j]
      BY <1>1, <2>3
    <3> QED BY <2>1, <2>3, <3>1 DEF EndsOK
  <2> QED BY <2>2, <2>3 DEF EndsOK
<1>9. TokensOK(r, h)
  BY <1>1 DEF SessionsInv, TokensOK, Opens
<1>10. WorkersOK(r, N)
  BY <1>1 DEF SessionsInv, WorkersOK
<1> QED BY <1>5, <1>6, <1>7, <1>8, <1>9, <1>10 DEF SessionsInv

\* A call of a worker with no request on its way.
LEMMA CallSessions ==
    ASSUME NEW s, NEW g, NEW k, NEW l, NEW N, SessionsInv(s, g, k, N), NEW w \in Worker,
           \A v \in Worker \ {w} : l[v].call = k[v].call,
           \A i \in DOMAIN s.control : s.control[i].op \in {"open", "close"} => s.control[i].worker # w,
           l[w].call \in {"closed", "asked to open", "opening"} => s.session[w] = None
    PROVE  SessionsInv(s, g, l, N)
<1>1. CallsOK(s, k)
  BY DEF SessionsInv
<1>2. \A v \in Worker : l[v].call \in {"closed", "asked to open", "opening"} => s.session[v] = None
  BY <1>1 DEF CallsOK
<1>3. ASSUME NEW i \in DOMAIN s.control
      PROVE  /\ s.control[i].op \in {"open", "close", "drop"} => s.control[i].worker \in Worker
             /\ s.control[i].op = "open" => l[s.control[i].worker].call = "opening"
             /\ s.control[i].op = "close" => l[s.control[i].worker].call = "closing"
  BY <1>1 DEF CallsOK
<1>4. CallsOK(s, l)
  BY <1>1, <1>2, <1>3 DEF CallsOK
<1> QED BY <1>4 DEF SessionsInv

-----------------------------------------------------------------------------
(* Every step keeps the invariant of the sessions *)

LEMMA RunsGrow ==
    ASSUME NEW s, BridgeOK(s), Runs(s)
    PROVE  Grows(s, b') /\ b'.ctx = s.ctx
BY DEF Runs, Grows, BridgeOK, Live

\* The end of a step of the bridge, or of a step that leaves it alone.
LEMMA EndSessions ==
    ASSUME NEW s, NEW k, NEW N, BridgeOK(s), SessionsInv(s, bg', k, N), Grows(s, b'),
           \A w \in Worker : page'.worker[w].call = k[w].call, NewWorkers' \subseteq N
    PROVE  SessionsInv(b, bg, page.worker, NewWorkers)'
<1>1. SessionsInv(b', bg', page'.worker, NewWorkers')
  BY GrowsSessions
<1> QED BY <1>1 DEF SessionsInv, AllCovered, Covered, ClientsOK, CallsOK, EndsOK, TokensOK, WorkersOK,
                    Registered, Live

\* Announcements that are not added.
LEMMA AnnouncedStep ==
    ASSUME AnnouncedOK,
           \A w \in Worker : /\ page'.worker[w].doc = page.worker[w].doc
                             /\ page.worker[w].doc = 0 => /\ page'.worker[w].call = page.worker[w].call
                                                          /\ page'.worker[w].run => page.worker[w].run,
           \A p \in Ports : \A i \in DOMAIN toBridge'[p] :
               \/ i \in DOMAIN toBridge[p] /\ toBridge'[p][i] = toBridge[p][i]
               \/ toBridge'[p][i][1] # "worker"
    PROVE  AnnouncedOK' /\ NewWorkers' \subseteq NewWorkers
<1>1. \A w \in Worker : Announced(w)' => Announced(w)
  BY DEF Announced, Announces
<1>2. \A w \in Worker : page'.worker[w].doc = 0 =>
        page'.worker[w].call = "closed" /\ ~page'.worker[w].run /\ ~Announced(w)'
  BY <1>1 DEF AnnouncedOK
<1>3. ASSUME NEW w \in Worker, NEW p \in Ports, NEW q \in Ports,
             NEW i \in DOMAIN toBridge'[p], NEW j \in DOMAIN toBridge'[q],
             Announces(toBridge'[p][i], w), Announces(toBridge'[q][j], w)
      PROVE  p = q /\ i = j
  <2>1. /\ i \in DOMAIN toBridge[p] /\ Announces(toBridge[p][i], w)
        /\ j \in DOMAIN toBridge[q] /\ Announces(toBridge[q][j], w)
    BY <1>3 DEF Announces
  <2> QED BY <2>1 DEF AnnouncedOK
<1>4. AnnouncedOK'
  BY <1>2, <1>3 DEF AnnouncedOK, Announces
<1> QED BY <1>1, <1>4 DEF NewWorkers

LEMMA ReceiveOfferSessions == FramesInv /\ ReceiveOffer => SessionsInv(b, bg, page.worker, NewWorkers)' /\ AnnouncedOK'
<1> SUFFICES ASSUME FramesInv, ReceiveOffer
             PROVE  SessionsInv(b, bg, page.worker, NewWorkers)' /\ AnnouncedOK'
  OBVIOUS
<1> DEFINE p == Head(posted)
           s == handleBootstrap(b, p)
           N == NewWorkers
<1>0. PortsInv /\ SessionsInv(b, bg, page.worker, N) /\ N \subseteq Worker /\ AnnouncedOK
  BY DEF FramesInv, NewWorkers
<1>1. /\ posted # <<>> /\ Runs(s) /\ UNCHANGED <<page, toBridge, bg>>
  BY DEF ReceiveOffer
<1>2. posted \in Seq(Ports) /\ p = posted[1] /\ 1 \in DOMAIN posted /\ p \in Ports
  BY <1>0, <1>1 DEF PortsInv, StateOK
<1>3. page.owner[p] # 0 /\ Fresh(p)
  BY <1>0, <1>2 DEF PortsInv, OffersOK
<1> HIDE DEF p
<1>4. GateInv(s) /\ (Grows(b, s) \/ \E q \in Ports : Destroys(b, s, q))
  BY <1>0, <1>2, <1>3, OfferKeeps DEF PortsInv, Fresh
<1> HIDE DEF s
<1>5. BridgeOK(b) /\ BridgeOK(s)
  BY <1>0, <1>4 DEF PortsInv, GateInv
<1>6. AnnouncedOK' /\ NewWorkers' \subseteq N
  BY <1>0, <1>1, AnnouncedStep
<1> HIDE DEF N
<1>7. SessionsInv(s, bg, page.worker, N)
  BY <1>0, <1>4, <1>5, GrowsSessions, DestroySessions
<1>8. Grows(s, b')
  BY <1>1, <1>5, RunsGrow
<1>9. SessionsInv(b, bg, page.worker, NewWorkers)'
  <2>1. SessionsInv(s, bg', page.worker, N) /\ \A w \in Worker : page'.worker[w].call = page.worker[w].call
    BY <1>1, <1>7
  <2> QED BY <1>5, <1>6, <1>8, <2>1, EndSessions
<1> QED BY <1>6, <1>9

\* handleWorkerClientDestroyed: the client is forgotten when its session is over.
LEMMA DropSessions ==
    ASSUME BridgeOK(b), NEW k, NEW N, SessionsInv(b, bg, k, N), N \subseteq Worker, NEW w \in Worker
    PROVE  SessionsInv(handleWorkerClientDestroyed(b, w), bg, k, N)
<1> DEFINE r == handleWorkerClientDestroyed(b, w)
<1>1. CASE ~Registered(b, w)
  BY <1>1 DEF handleWorkerClientDestroyed
<1>2. CASE Registered(b, w) /\ b.session[w] = None
  <2>1. r = Unregister(b, w)
    BY <1>2 DEF handleWorkerClientDestroyed
  <2>2. /\ Unregister(b, w).control = b.control /\ Unregister(b, w).ctx = b.ctx
        /\ Unregister(b, w).client = [b.client EXCEPT ![w] = 0]
        /\ Unregister(b, w).session = [b.session EXCEPT ![w] = None]
    BY UnregisterShape DEF Same
  <2>3. b.session[w] \notin DOMAIN bg.live /\ None \notin DOMAIN bg.live
    BY <1>2, NoneIsNoToken DEF SessionsInv, TokensOK
  <2>4. None \in bg.used \cup {None}
    OBVIOUS
  <2>5. SessionsInv(Unregister(b, w), bg, k, N)
    BY <2>2, <2>3, <2>4, SetSessions
  <2> QED BY <2>1, <2>5
<1>3. CASE Registered(b, w) /\ b.session[w] # None
  <2> DEFINE x == Request("drop", w, b.session[w])
  <2>1. r = [b EXCEPT !.control = Append(@, x)]
    BY <1>3 DEF handleWorkerClientDestroyed
  <2>2. x \in AskRec /\ x.op = "drop" /\ x.worker = w /\ x.tok = b.session[w]
    BY RequestType DEF BridgeOK
  <2> HIDE DEF x, r
  <2>3. r.control = Append(b.control, x) /\ r.client = b.client /\ r.session = b.session /\ r.ctx = b.ctx
    BY <2>1 DEF BridgeOK
  <2>4. x.op # "purge" /\ x.op \notin {"open", "close"} /\ x.tok \in bg.used \cup {None} /\ x.tok = b.session[x.worker]
    BY <2>2 DEF SessionsInv, TokensOK
  <2>5. \A i \in DOMAIN b.control : b.control[i].op = "open" => b.control[i].worker # w
    <3> SUFFICES ASSUME NEW i \in DOMAIN b.control, b.control[i].op = "open", b.control[i].worker = w
                 PROVE  FALSE
      OBVIOUS
    <3>1. k[w].call = "opening"
      BY DEF SessionsInv, CallsOK
    <3>2. b.session[w] = None
      BY <3>1 DEF SessionsInv, CallsOK
    <3> QED BY <1>3, <3>2
  <2>6. w \notin N
    BY <1>3 DEF SessionsInv, WorkersOK, Registered
  <2>7. \A v \in Worker : k[v].call = k[v].call
    OBVIOUS
  <2>8. SessionsInv(r, bg, k, N)
    BY <2>2, <2>3, <2>4, <2>5, <2>6, <2>7, AskSessions
  <2> QED BY <2>8 DEF r
<1> QED BY <1>1, <1>2, <1>3

\* The head of a port's messages is handled, and is not announced again.
LEMMA TakenAnnounced ==
    ASSUME StateOK, AnnouncedOK, NEW p \in Ports, toBridge[p] # <<>>,
           toBridge' = [toBridge EXCEPT ![p] = Tail(@)], page' = page
    PROVE  /\ AnnouncedOK' /\ NewWorkers' \subseteq NewWorkers
           /\ \A w \in Worker : Announces(Head(toBridge[p]), w) => w \in NewWorkers /\ w \notin NewWorkers'
<1>1. /\ Head(toBridge[p]) = toBridge[p][1] /\ 1 \in DOMAIN toBridge[p]
      /\ \A q \in Ports \ {p} : toBridge'[q] = toBridge[q]
      /\ \A i \in DOMAIN toBridge'[p] : /\ i \in Nat \ {0} /\ i + 1 \in DOMAIN toBridge[p]
                                        /\ toBridge'[p][i] = toBridge[p][i + 1]
  BY TakesShape
<1> DEFINE before(q, i) == IF q = p THEN i + 1 ELSE i
<1>2. ASSUME NEW q \in Ports, NEW i \in DOMAIN toBridge'[q]
      PROVE  /\ before(q, i) \in DOMAIN toBridge[q] /\ toBridge'[q][i] = toBridge[q][before(q, i)]
             /\ q = p => i \in Nat \ {0} /\ before(q, i) # 1
  BY <1>1
<1>3. \A w \in Worker : Announced(w)' => Announced(w)
  <2> SUFFICES ASSUME NEW w \in Worker, NEW q \in Ports, NEW i \in DOMAIN toBridge'[q],
                      Announces(toBridge'[q][i], w)
               PROVE  Announced(w)
    BY DEF Announced, Announces
  <2>1. /\ before(q, i) \in DOMAIN toBridge[q] /\ Announces(toBridge[q][before(q, i)], w)
    BY <1>2
  <2> QED BY <2>1 DEF Announced
<1>4. \A w \in Worker : Announces(Head(toBridge[p]), w) => Announced(w) /\ ~Announced(w)'
  <2> SUFFICES ASSUME NEW w \in Worker, Announces(toBridge[p][1], w)
               PROVE  Announced(w) /\ ~Announced(w)'
    BY <1>1
  <2>1. Announced(w)
    BY <1>1 DEF Announced
  <2>2. ASSUME NEW q \in Ports, NEW i \in DOMAIN toBridge'[q], Announces(toBridge'[q][i], w)
        PROVE  FALSE
    <3>1. before(q, i) \in DOMAIN toBridge[q] /\ Announces(toBridge[q][before(q, i)], w)
      BY <1>2, <2>2
    <3>2. q = p /\ before(q, i) = 1
      BY <1>1, <3>1 DEF AnnouncedOK
    <3> QED BY <1>2, <3>2
  <2> QED BY <2>1, <2>2 DEF Announced, Announces
<1>5. ASSUME NEW w \in Worker, NEW q \in Ports, NEW o \in Ports,
             NEW i \in DOMAIN toBridge'[q], NEW j \in DOMAIN toBridge'[o],
             Announces(toBridge'[q][i], w), Announces(toBridge'[o][j], w)
      PROVE  q = o /\ i = j
  <2>1. /\ before(q, i) \in DOMAIN toBridge[q] /\ Announces(toBridge[q][before(q, i)], w)
        /\ before(o, j) \in DOMAIN toBridge[o] /\ Announces(toBridge[o][before(o, j)], w)
    BY <1>2, <1>5
  <2>2. q = o /\ before(q, i) = before(o, j)
    BY <2>1 DEF AnnouncedOK
  <2>3. CASE q = p
    BY <1>2, <2>2, <2>3
  <2>4. CASE q # p
    BY <2>2, <2>4
  <2> QED BY <2>3, <2>4
<1>6. AnnouncedOK'
  <2>1. \A w \in Worker : page'.worker[w].doc = 0 =>
          page'.worker[w].call = "closed" /\ ~page'.worker[w].run /\ ~Announced(w)'
    BY <1>3 DEF AnnouncedOK
  <2> QED BY <1>5, <2>1 DEF AnnouncedOK, Announces
<1>7. \A w \in Worker : Announces(Head(toBridge[p]), w) => page.worker[w].doc # 0
  BY <1>4 DEF AnnouncedOK
<1> QED BY <1>3, <1>4, <1>6, <1>7 DEF NewWorkers

LEMMA ReceiveSessions ==
    ASSUME NEW p \in Ports
    PROVE  FramesInv /\ Receive(p) => SessionsInv(b, bg, page.worker, NewWorkers)' /\ AnnouncedOK'
<1> SUFFICES ASSUME FramesInv, Receive(p)
             PROVE  SessionsInv(b, bg, page.worker, NewWorkers)' /\ AnnouncedOK'
  OBVIOUS
<1> DEFINE m == Head(toBridge[p])
           s == Arrives(b, p, m)
           N == NewWorkers
           M == N \ {w \in Worker : Announces(m, w)}
<1>0. /\ PortsInv /\ SessionsInv(b, bg, page.worker, N) /\ N \subseteq Worker /\ AnnouncedOK
      /\ BridgeOK(b) /\ StateOK /\ GateInv(b)
  BY DEF FramesInv, NewWorkers, PortsInv, GateInv
<1>1. /\ toBridge[p] # <<>> /\ Runs(s) /\ toBridge' = [toBridge EXCEPT ![p] = Tail(@)]
      /\ UNCHANGED <<page, posted, bg>>
  BY DEF Receive
<1>2. m = toBridge[p][1] /\ 1 \in DOMAIN toBridge[p] /\ m \in PortMsg
  BY <1>0, <1>1, TakesShape
<1>3. /\ AnnouncedOK' /\ NewWorkers' \subseteq M
      /\ \A w \in Worker : Announces(m, w) => w \in N
  BY <1>0, <1>1, TakenAnnounced
<1> HIDE DEF m
<1>4. m[1] = "gone" => b.ctx[p].doc = 0 \/ b.ctx[p].doc # page.doc
  <2> SUFFICES ASSUME m[1] = "gone"
               PROVE  b.ctx[p].doc = 0 \/ b.ctx[p].doc # page.doc
    OBVIOUS
  <2>1. page.owner[p] \notin {0, page.doc}
    BY <1>0, <1>2 DEF PortsInv, OffersOK
  <2> QED BY <1>0, <2>1 DEF GateInv, ContextsOK
<1>5. m[1] = "response" => Asked(p)
  BY <1>2 DEF Asked
<1>6. /\ GateInv(s)
      /\ \/ m[1] \notin {"worker", "drop", "gone"} /\ Grows(b, s)
         \/ m[1] = "gone" /\ (Grows(b, s) \/ Destroys(b, s, p))
         \/ m[1] = "worker" /\ m[2] \in Worker /\ s = handleWorkerPortRequest(b, p, m[2])
         \/ m[1] = "drop" /\ m[2] \in Worker /\ s = handleWorkerClientDestroyed(b, m[2])
         \/ m[1] = "drop" /\ s = b
  BY <1>0, <1>2, <1>4, <1>5, ArriveKeeps
<1> HIDE DEF s, N
<1>7. SessionsInv(s, bg, page.worker, M)
  <2>1. CASE m[1] = "worker"
    <3>1. m[2] \in N /\ s = handleWorkerPortRequest(b, p, m[2]) /\ M = N \ {m[2]}
      BY <1>3, <1>6, <2>1 DEF Announces
    <3> QED BY <1>0, <3>1, RegisterSessions
  <2>2. CASE m[1] # "worker"
    <3>1. M = N
      BY <2>2 DEF Announces
    <3>2. CASE Grows(b, s)
      BY <1>0, <3>1, <3>2, GrowsSessions
    <3>3. CASE Destroys(b, s, p)
      BY <1>0, <3>1, <3>3, DestroySessions
    <3>4. CASE s = handleWorkerClientDestroyed(b, m[2]) /\ m[2] \in Worker
      BY <1>0, <3>1, <3>4, DropSessions
    <3>5. CASE s = b
      BY <1>0, <3>1, <3>5
    <3> QED BY <1>6, <2>2, <3>2, <3>3, <3>4, <3>5
  <2> QED BY <2>1, <2>2
<1>8. BridgeOK(s) /\ Grows(s, b')
  BY <1>1, <1>6, RunsGrow DEF GateInv
<1> HIDE DEF M
<1>9. SessionsInv(s, bg', page.worker, M) /\ \A w \in Worker : page'.worker[w].call = page.worker[w].call
  BY <1>1, <1>7
<1>10. SessionsInv(b, bg, page.worker, NewWorkers)'
  BY <1>3, <1>8, <1>9, EndSessions
<1> QED BY <1>3, <1>10

LEMMA DeadlineSessions ==
    ASSUME NEW p \in Ports
    PROVE  FramesInv /\ Expire(p) => SessionsInv(b, bg, page.worker, NewWorkers)' /\ AnnouncedOK'
<1> SUFFICES ASSUME FramesInv, Expire(p)
             PROVE  SessionsInv(b, bg, page.worker, NewWorkers)' /\ AnnouncedOK'
  OBVIOUS
<1> DEFINE at == {i \in DOMAIN b.cands : b.cands[i].port = p /\ ~b.cands[i].live /\ ~b.cands[i].expired}
           f(i) == IF i \in at THEN [b.cands[i] EXCEPT !.expired = TRUE] ELSE b.cands[i]
           c == [i \in DOMAIN b.cands |-> f(i)]
           q == [b EXCEPT !.cands = c]
           s == tryPromote(q)
           N == NewWorkers
<1>0. /\ PortsInv /\ SessionsInv(b, bg, page.worker, N) /\ AnnouncedOK
      /\ BridgeOK(b) /\ StateOK /\ GateInv(b)
  BY DEF FramesInv, PortsInv, GateInv
<1>1. Runs(s) /\ UNCHANGED <<posted, toBridge, bg>> /\ page'.worker = page.worker
  BY <1>0 DEF Expire, StateOK
<1>2. c \in Seq(CandRec) /\ DOMAIN c = DOMAIN b.cands
  <2>1. DOMAIN b.cands = 1..Len(b.cands) /\ Len(b.cands) \in Nat
    BY <1>0 DEF BridgeOK
  <2>2. \A i \in 1..Len(b.cands) : f(i) \in CandRec
    <3> TAKE i \in 1..Len(b.cands)
    <3>1. b.cands[i] \in CandRec
      BY <1>0, <2>1 DEF BridgeOK
    <3> QED BY <3>1 DEF CandRec
  <2>3. c = [i \in 1..Len(b.cands) |-> f(i)]
    BY <2>1
  <2> HIDE DEF f, c
  <2>4. [i \in 1..Len(b.cands) |-> f(i)] \in Seq(CandRec)
    BY <2>1, <2>2
  <2> QED BY <2>1, <2>3, <2>4
<1>3. \A i \in DOMAIN c : \E j \in DOMAIN b.cands :
        /\ c[i].port = b.cands[j].port
        /\ c[i].live => b.cands[j].live \/ Asked(c[i].port)
  <2> SUFFICES ASSUME NEW i \in DOMAIN b.cands
               PROVE  c[i].port = b.cands[i].port /\ c[i].live = b.cands[i].live
    BY <1>2
  <2>1. b.cands[i] \in CandRec
    BY <1>0 DEF BridgeOK
  <2> QED BY <2>1 DEF CandRec
<1> HIDE DEF c
<1>4. GateInv(q) /\ Grows(b, q)
  BY <1>0, <1>2, <1>3, CandsKeep
<1> HIDE DEF q
<1>5. GateInv(s) /\ Grows(q, s)
  BY <1>0, <1>4, PromoteKeeps
<1> HIDE DEF s
<1>6. BridgeOK(s) /\ Grows(b, s) /\ Grows(s, b')
  BY <1>1, <1>4, <1>5, RunsGrow DEF GateInv, Grows
<1>7. AnnouncedOK' /\ NewWorkers' \subseteq N
  BY <1>0, <1>1, AnnouncedStep
<1> HIDE DEF N
<1>8. SessionsInv(s, bg', page.worker, N) /\ \A w \in Worker : page'.worker[w].call = page.worker[w].call
  <2>1. SessionsInv(s, bg, page.worker, N)
    BY <1>0, <1>6, GrowsSessions
  <2> QED BY <1>1, <2>1
<1>9. SessionsInv(b, bg, page.worker, NewWorkers)'
  BY <1>6, <1>7, <1>8, EndSessions
<1> QED BY <1>7, <1>9

\* A step that leaves the bridge alone.
LEMMA QuietSessions ==
    ASSUME FramesInv, UNCHANGED <<b, bg>>,
           \A w \in Worker : /\ page'.worker[w].doc = page.worker[w].doc
                             /\ page'.worker[w].call = page.worker[w].call
                             /\ page'.worker[w].run => page.worker[w].run,
           \A p \in Ports : \A i \in DOMAIN toBridge'[p] :
               \/ i \in DOMAIN toBridge[p] /\ toBridge'[p][i] = toBridge[p][i]
               \/ toBridge'[p][i][1] # "worker"
    PROVE  SessionsInv(b, bg, page.worker, NewWorkers)' /\ AnnouncedOK'
<1> DEFINE N == NewWorkers
<1>0. SessionsInv(b, bg, page.worker, N) /\ AnnouncedOK /\ BridgeOK(b)
  BY DEF FramesInv, PortsInv, GateInv
<1>1. AnnouncedOK' /\ NewWorkers' \subseteq N
  BY <1>0, AnnouncedStep
<1> HIDE DEF N
<1>2. Grows(b, b') /\ SessionsInv(b, bg', page.worker, N)
  BY <1>0 DEF Grows
<1>3. SessionsInv(b, bg, page.worker, NewWorkers)'
  BY <1>0, <1>1, <1>2, EndSessions
<1> QED BY <1>1, <1>3

\* A request of a worker's call, which the worker waits for.
CallAsked(w, x, c) ==
  /\ x.worker = w
  /\ \/ /\ x.op = "open" /\ x.tok = None
        /\ c = "opening" /\ page.worker[w].call = "asked to open"
     \/ /\ x.op = "close" /\ x.tok = b.session[w]
        /\ c = "closing" /\ page.worker[w].call = "asked to close"

LEMMA AskedSessions ==
    ASSUME FramesInv, NEW w \in Worker, NEW x \in AskRec, NEW c \in CallState, CallAsked(w, x, c),
           Called(w, c), b.client[w] # 0, b' = [b EXCEPT !.control = Append(@, x)],
           UNCHANGED <<posted, toBridge, toPage, bg>>
    PROVE  SessionsInv(b, bg, page.worker, NewWorkers)' /\ AnnouncedOK'
<1> DEFINE N == NewWorkers
           r == b'
           l == page'.worker
<1>0. /\ SessionsInv(b, bg, page.worker, N) /\ AnnouncedOK /\ BridgeOK(b) /\ StateOK
  BY DEF FramesInv, PortsInv, GateInv
<1>1. /\ b'.control = Append(b.control, x) /\ b'.ctx = b.ctx /\ b'.client = b.client
      /\ b'.session = b.session
  BY <1>0 DEF BridgeOK
<1>2. \A v \in Worker : /\ page'.worker[v].doc = page.worker[v].doc
                        /\ page'.worker[v].run = page.worker[v].run
                        /\ page'.worker[v].call = IF v = w THEN c ELSE page.worker[v].call
  BY <1>0, CalledShape
<1>3. w \notin N
  BY <1>0 DEF SessionsInv, WorkersOK
<1>4. page.worker[w].doc # 0
  BY <1>3 DEF NewWorkers
<1>5. AnnouncedOK' /\ NewWorkers' \subseteq N
  BY <1>0, <1>2, <1>4, AnnouncedStep
<1> HIDE DEF N
<1>6. \A i \in DOMAIN b.control : b.control[i].op \in {"open", "close"} => b.control[i].worker # x.worker
  BY <1>0 DEF SessionsInv, CallsOK, CallAsked
<1>7. \A v \in Worker : \/ l[v].call = page.worker[v].call
                        \/ v = x.worker /\ x.op \in {"open", "close"}
  BY <1>2 DEF CallAsked
<1>8. x.op = "open" => l[x.worker].call = "opening" /\ b.session[x.worker] = None
  BY <1>0, <1>2 DEF CallAsked, SessionsInv, CallsOK
<1>9. x.op = "close" => l[x.worker].call = "closing"
  BY <1>2 DEF CallAsked
<1>10. x.op \in {"drop", "close"} => x.tok = b.session[x.worker]
  BY DEF CallAsked
<1>11. /\ x.op # "purge" /\ x.op # "drop" /\ x.tok \in bg.used \cup {None}
       /\ x.worker \in Worker /\ x.worker \notin N
  BY <1>0, <1>3 DEF SessionsInv, TokensOK, CallAsked
<1>12. r.control = Append(b.control, x) /\ r.ctx = b.ctx /\ r.client = b.client /\ r.session = b.session
  BY <1>1
<1>13. SessionsInv(b, bg, page.worker, N) /\ BridgeOK(b)
  BY <1>0
<1>14. SessionsInv(r, bg, l, N)
  <2> HIDE DEF r, l
  <2> QED BY <1>6, <1>7, <1>8, <1>9, <1>10, <1>11, <1>12, <1>13, AskSessions
<1>15. SessionsInv(b', bg', page'.worker, NewWorkers')
  BY <1>5, <1>14 DEF SessionsInv, WorkersOK
<1>16. SessionsInv(b, bg, page.worker, NewWorkers)'
  BY <1>15 DEF SessionsInv, AllCovered, Covered, ClientsOK, CallsOK, EndsOK, TokensOK, WorkersOK,
                    Registered, Live
<1> QED BY <1>5, <1>16

LEMMA RequestSessions ==
    ASSUME NEW w \in Worker
    PROVE  FramesInv /\ (OpenRequest(w) \/ CloseRequest(w))
             => SessionsInv(b, bg, page.worker, NewWorkers)' /\ AnnouncedOK'
<1> SUFFICES ASSUME FramesInv, OpenRequest(w) \/ CloseRequest(w)
             PROVE  SessionsInv(b, bg, page.worker, NewWorkers)' /\ AnnouncedOK'
  OBVIOUS
<1>1. CASE OpenRequest(w)
  <2> DEFINE x == Request("open", w, None)
  <2>1. /\ page.worker[w].call = "asked to open" /\ b.client[w] # 0 /\ Called(w, "opening")
        /\ b' = [b EXCEPT !.control = Append(@, x)]
        /\ UNCHANGED <<posted, toBridge, toPage, bg>>
    BY <1>1 DEF OpenRequest
  <2>2. x \in AskRec /\ x.op = "open" /\ x.worker = w /\ x.tok = None
    BY RequestType DEF FramesInv, PortsInv, GateInv
  <2> HIDE DEF x
  <2>3. CallAsked(w, x, "opening") /\ "opening" \in CallState
    BY <2>1, <2>2 DEF CallAsked, CallState
  <2> QED BY <2>1, <2>2, <2>3, AskedSessions
<1>2. CASE CloseRequest(w)
  <2> DEFINE x == Request("close", w, b.session[w])
  <2>1. /\ page.worker[w].call = "asked to close" /\ b.client[w] # 0 /\ Called(w, "closing")
        /\ b' = [b EXCEPT !.control = Append(@, x)]
        /\ UNCHANGED <<posted, toBridge, toPage, bg>>
    BY <1>2 DEF CloseRequest
  <2>2. x \in AskRec /\ x.op = "close" /\ x.worker = w /\ x.tok = b.session[w]
    BY RequestType DEF FramesInv, PortsInv, GateInv, BridgeOK
  <2> HIDE DEF x
  <2>3. CallAsked(w, x, "closing") /\ "closing" \in CallState
    BY <2>1, <2>2 DEF CallAsked, CallState
  <2> QED BY <2>1, <2>2, <2>3, AskedSessions
<1> QED BY <1>1, <1>2

LEMMA WindowSessions ==
    ASSUME FramesInv,
           Leave \/ Load \/ Offer \/ BridgeReady \/ \E p \in Ports : AnswerProbe(p)
    PROVE  SessionsInv(b, bg, page.worker, NewWorkers)' /\ AnnouncedOK'
<1>0. StateOK
  BY DEF FramesInv, PortsInv
<1>1. CASE Leave
  <2>1. /\ UNCHANGED <<b, bg>>
        /\ page'.worker = [w \in Worker |-> [page.worker[w] EXCEPT !.run = FALSE]]
        /\ toBridge' = [p \in Ports |-> IF p \in Own THEN Append(toBridge[p], <<"gone">>) ELSE toBridge[p]]
    BY <1>0, <1>1 DEF Leave, StateOK
  <2>2. ASSUME NEW w \in Worker
        PROVE  /\ page'.worker[w].doc = page.worker[w].doc
               /\ page'.worker[w].call = page.worker[w].call
               /\ page'.worker[w].run = FALSE
    <3>1. page.worker[w] \in WorkerRec
      BY <1>0 DEF StateOK
    <3> QED BY <2>1, <3>1 DEF WorkerRec
  <2>3. ASSUME NEW p \in Ports, NEW i \in DOMAIN toBridge'[p]
        PROVE  \/ i \in DOMAIN toBridge[p] /\ toBridge'[p][i] = toBridge[p][i]
               \/ toBridge'[p][i] = <<"gone">>
    <3>1. toBridge[p] \in Seq(PortMsg)
      BY <1>0 DEF StateOK
    <3> QED BY <2>1, <3>1
  <2>4. \A p \in Ports : \A i \in DOMAIN toBridge'[p] :
           \/ i \in DOMAIN toBridge[p] /\ toBridge'[p][i] = toBridge[p][i]
           \/ toBridge'[p][i][1] # "worker"
    BY <2>3
  <2> QED BY <2>1, <2>2, <2>4, QuietSessions
<1>2. CASE Load \/ Offer \/ BridgeReady
  <2>1. page'.worker = page.worker /\ UNCHANGED <<toBridge, b, bg>>
    BY <1>0, <1>2 DEF Load, Offer, BridgeReady, StateOK
  <2> QED BY <2>1, QuietSessions
<1>3. ASSUME NEW p \in Ports, AnswerProbe(p)
      PROVE  SessionsInv(b, bg, page.worker, NewWorkers)' /\ AnnouncedOK'
  <2>1. Says(p, <<"response">>) /\ UNCHANGED <<page, b, bg>> /\ <<"response">> \in PortMsg
    BY <1>3 DEF AnswerProbe, PortMsg
  <2>2. \A q \in Ports : \A i \in DOMAIN toBridge'[q] :
           \/ i \in DOMAIN toBridge[q] /\ toBridge'[q][i] = toBridge[q][i]
           \/ toBridge'[q][i] = <<"response">>
    BY <1>0, <2>1, SaysShape
  <2>3. \A q \in Ports : \A i \in DOMAIN toBridge'[q] :
           \/ i \in DOMAIN toBridge[q] /\ toBridge'[q][i] = toBridge[q][i]
           \/ toBridge'[q][i][1] # "worker"
    BY <2>2
  <2> QED BY <2>1, <2>3, QuietSessions
<1> QED BY <1>1, <1>2, <1>3

\* The message that drops a client; the worker's call stays where it is.
LEMMA DroppedSessions ==
    ASSUME FramesInv, NEW w \in Worker, WorkerKey(w) \/ Terminate(w)
    PROVE  SessionsInv(b, bg, page.worker, NewWorkers)' /\ AnnouncedOK'
<1>0. StateOK
  BY DEF FramesInv, PortsInv
<1>1. /\ WorkerStep(w) /\ page'.worker[w].doc = page.worker[w].doc
      /\ page'.worker[w].run => page.worker[w].run
      /\ page'.worker[w].call = page.worker[w].call
      /\ toBridge' = toBridge \/ \E p \in Own : Says(p, <<"drop", w>>)
      /\ UNCHANGED <<b, bg>>
  BY <1>0, WorkerKeyShape, TerminateShape
<1>2. \A v \in Worker : /\ page'.worker[v].doc = page.worker[v].doc
                        /\ page'.worker[v].call = page.worker[v].call
                        /\ page'.worker[v].run => page.worker[v].run
  BY <1>1 DEF WorkerStep
<1>3. ASSUME NEW p \in Own, Says(p, <<"drop", w>>)
      PROVE  \A q \in Ports : \A i \in DOMAIN toBridge'[q] :
               \/ i \in DOMAIN toBridge[q] /\ toBridge'[q][i] = toBridge[q][i]
               \/ toBridge'[q][i] = <<"drop", w>>
  <2>1. p \in Ports /\ <<"drop", w>> \in PortMsg
    BY OwnIsOwned DEF PortMsg
  <2> QED BY <1>0, <1>3, <2>1, SaysShape
<1>4. \A q \in Ports : \A i \in DOMAIN toBridge'[q] :
        \/ i \in DOMAIN toBridge[q] /\ toBridge'[q][i] = toBridge[q][i]
        \/ toBridge'[q][i][1] # "worker"
  BY <1>1, <1>3
<1> QED BY <1>1, <1>2, <1>4, QuietSessions

\* A call is made by a worker that runs, and so has been announced.
LEMMA CalledSessions ==
    ASSUME FramesInv, NEW w \in Worker, WorkerCalls(w)
    PROVE  SessionsInv(b, bg, page.worker, NewWorkers)' /\ AnnouncedOK'
<1> DEFINE N == NewWorkers
           k == page.worker
           l == page'.worker
<1>0. SessionsInv(b, bg, k, N) /\ AnnouncedOK /\ BridgeOK(b) /\ StateOK
  BY DEF FramesInv, PortsInv, GateInv
<1>1. /\ WorkerStep(w) /\ l[w].doc = k[w].doc /\ l[w].run = k[w].run /\ k[w].run
      /\ \/ k[w].call = "closed" /\ l[w].call = "asked to open"
         \/ k[w].call = "open" /\ l[w].call = "asked to close"
      /\ UNCHANGED <<toBridge, b, bg>>
  BY <1>0, WorkerCallsShape
<1>2. k[w].doc # 0
  BY <1>0, <1>1 DEF AnnouncedOK
<1>3. AnnouncedOK' /\ NewWorkers' \subseteq N
  <2>1. \A v \in Worker : /\ page'.worker[v].doc = page.worker[v].doc
                          /\ page.worker[v].doc = 0 => /\ page'.worker[v].call = page.worker[v].call
                                                       /\ page'.worker[v].run => page.worker[v].run
    BY <1>1, <1>2 DEF WorkerStep
  <2>2. \A p \in Ports : \A i \in DOMAIN toBridge'[p] :
          \/ i \in DOMAIN toBridge[p] /\ toBridge'[p][i] = toBridge[p][i]
          \/ toBridge'[p][i][1] # "worker"
    BY <1>1
  <2> QED BY <1>0, <2>1, <2>2, AnnouncedStep
<1> HIDE DEF N
<1>4. \A i \in DOMAIN b.control : b.control[i].op \in {"open", "close"} => b.control[i].worker # w
  BY <1>0, <1>1 DEF SessionsInv, CallsOK
<1>5. l[w].call \in {"closed", "asked to open", "opening"} => b.session[w] = None
  BY <1>0, <1>1 DEF SessionsInv, CallsOK
<1>6. \A v \in Worker \ {w} : l[v].call = k[v].call
  BY <1>1 DEF WorkerStep
<1>7. SessionsInv(b, bg', l, N) /\ Grows(b, b')
  <2>1. SessionsInv(b, bg, l, N)
    <3> HIDE DEF k, l
    <3> QED BY <1>0, <1>4, <1>5, <1>6, CallSessions
  <2> QED BY <1>1, <2>1 DEF Grows
<1>8. \A v \in Worker : page'.worker[v].call = l[v].call
  OBVIOUS
<1>9. SessionsInv(b, bg, page.worker, NewWorkers)'
  <2> HIDE DEF l
  <2> QED BY <1>0, <1>3, <1>7, <1>8, EndSessions
<1> QED BY <1>3, <1>9

\* A worker is announced when nobody has heard of it.
LEMMA AnnounceSessions ==
    ASSUME FramesInv, NEW w \in Worker, AnnounceWorker(w)
    PROVE  SessionsInv(b, bg, page.worker, NewWorkers)' /\ AnnouncedOK'
<1> DEFINE N == NewWorkers
<1>0. SessionsInv(b, bg, page.worker, N) /\ AnnouncedOK /\ BridgeOK(b) /\ StateOK
  BY DEF FramesInv, PortsInv, GateInv
<1>1. /\ WorkerStep(w) /\ page.worker[w].doc = 0 /\ page'.worker[w].doc = page.doc
      /\ page'.worker[w].call = "closed" /\ UNCHANGED <<b, bg>>
  BY <1>0, AnnounceShape
<1>2. PICK p \in Own : Says(p, <<"worker", w>>)
  BY <1>0, AnnounceShape
<1> DEFINE m == <<"worker", w>>
           n == Len(toBridge[p]) + 1
<1>3. p \in Ports /\ page.doc # 0 /\ m \in PortMsg
  BY OwnIsOwned DEF PortMsg
<1>4. /\ \A q \in Ports : \A i \in DOMAIN toBridge'[q] :
           \/ i \in DOMAIN toBridge[q] /\ toBridge'[q][i] = toBridge[q][i]
           \/ q = p /\ i = n /\ toBridge'[q][i] = m
      /\ \A v \in Worker : Announces(m, v) => v = w
  <2>1. Says(p, m)
    BY <1>2
  <2>2. \A v \in Worker : Announces(m, v) => v = w
    BY DEF Announces
  <2> HIDE DEF m
  <2> QED BY <1>0, <1>3, <2>1, <2>2, SaysShape
<1> HIDE DEF m, n
<1>5. ~Announced(w) /\ page.worker[w].call = "closed"
  BY <1>0, <1>1 DEF AnnouncedOK
<1>6. \A v \in Worker \ {w} : Announced(v)' => Announced(v)
  <2> SUFFICES ASSUME NEW v \in Worker \ {w}, NEW q \in Ports, NEW i \in DOMAIN toBridge'[q],
                      Announces(toBridge'[q][i], v)
               PROVE  Announced(v)
    BY DEF Announced, Announces
  <2>1. i \in DOMAIN toBridge[q] /\ toBridge'[q][i] = toBridge[q][i]
    BY <1>4
  <2> QED BY <2>1 DEF Announced
<1>7. ASSUME NEW v \in Worker, NEW q \in Ports, NEW o \in Ports,
             NEW i \in DOMAIN toBridge'[q], NEW j \in DOMAIN toBridge'[o],
             Announces(toBridge'[q][i], v), Announces(toBridge'[o][j], v)
      PROVE  q = o /\ i = j
  <2>1. CASE v = w
    <3>1. q = p /\ i = n
      BY <1>4, <1>5, <1>7, <2>1 DEF Announced
    <3>2. o = p /\ j = n
      BY <1>4, <1>5, <1>7, <2>1 DEF Announced
    <3> QED BY <3>1, <3>2
  <2>2. CASE v # w
    <3>1. i \in DOMAIN toBridge[q] /\ toBridge'[q][i] = toBridge[q][i]
      BY <1>4, <1>7, <2>2
    <3>2. j \in DOMAIN toBridge[o] /\ toBridge'[o][j] = toBridge[o][j]
      BY <1>4, <1>7, <2>2
    <3>3. Announces(toBridge[q][i], v) /\ Announces(toBridge[o][j], v)
      BY <1>7, <3>1, <3>2
    <3> QED BY <1>0, <3>1, <3>2, <3>3 DEF AnnouncedOK
  <2> QED BY <2>1, <2>2
<1>8. \A v \in Worker : page'.worker[v].doc = 0 => v # w /\ page'.worker[v] = page.worker[v]
  BY <1>1, <1>3 DEF WorkerStep
<1>9. AnnouncedOK'
  <2>1. \A v \in Worker : page'.worker[v].doc = 0 =>
          page'.worker[v].call = "closed" /\ ~page'.worker[v].run /\ ~Announced(v)'
    BY <1>0, <1>6, <1>8 DEF AnnouncedOK
  <2> QED BY <1>7, <2>1 DEF AnnouncedOK, Announces
<1>10. NewWorkers' \subseteq N
  <2> SUFFICES ASSUME NEW v \in Worker, page'.worker[v].doc = 0 \/ Announced(v)'
               PROVE  page.worker[v].doc = 0 \/ Announced(v)
    BY DEF NewWorkers
  <2> QED BY <1>1, <1>6, <1>8
<1> HIDE DEF N
<1>11. \A v \in Worker : page'.worker[v].call = page.worker[v].call
  BY <1>1, <1>5 DEF WorkerStep
<1>12. SessionsInv(b, bg', page.worker, N) /\ Grows(b, b')
  BY <1>0, <1>1 DEF Grows
<1>13. SessionsInv(b, bg, page.worker, NewWorkers)'
  BY <1>0, <1>10, <1>11, <1>12, EndSessions
<1> QED BY <1>9, <1>13

\* The request r that is served, and the bridge s without it.
Serves(r, s) == b.control # <<>> /\ r = Head(b.control) /\ s = [b EXCEPT !.control = Tail(@)]

LEMMA ServesFacts ==
    ASSUME FramesInv, NEW r, NEW s, Serves(r, s)
    PROVE  /\ r \in AskRec /\ BridgeOK(s) /\ Same(b, s) /\ GateInv(s)
           /\ s.client = b.client /\ s.session = b.session /\ s.ctx = b.ctx
           /\ r.op \in {"open", "close", "drop"} => r.worker \in Worker /\ r.worker \notin NewWorkers
           /\ r.op = "open" => b.session[r.worker] = None
           /\ r.op = "close" => page.worker[r.worker].call = "closing"
           /\ r.op \in {"drop", "close"} /\ b.session[r.worker] \in DOMAIN bg.live
                => r.tok = b.session[r.worker]
           /\ r.op = "purge" => r.port \in Ports /\ b.ctx[r.port].state \in {"ending", "gone"}
           /\ r.tok \in bg.used \cup {None}
<1>0. SessionsInv(b, bg, page.worker, NewWorkers) /\ BridgeOK(b) /\ GateInv(b)
  BY DEF FramesInv, PortsInv, GateInv
<1>1. /\ r \in AskRec /\ r = b.control[1] /\ 1 \in DOMAIN b.control
      /\ BridgeOK(s) /\ Same(b, s) /\ s.client = b.client /\ s.session = b.session /\ s.ctx = b.ctx
  <2>1. /\ Head(b.control) \in AskRec /\ Head(b.control) = b.control[1] /\ 1 \in DOMAIN b.control
        /\ BridgeOK([b EXCEPT !.control = Tail(@)]) /\ Same(b, [b EXCEPT !.control = Tail(@)])
        /\ [b EXCEPT !.control = Tail(@)].client = b.client
        /\ [b EXCEPT !.control = Tail(@)].session = b.session
        /\ [b EXCEPT !.control = Tail(@)].ctx = b.ctx
    BY <1>0, ServedShape DEF Serves
  <2> QED BY <2>1 DEF Serves
<1>2. GateInv(s)
  BY <1>0, <1>1, SameKeeps
<1>3. /\ r.op \in {"open", "close", "drop"} => r.worker \in Worker
      /\ r.op = "open" => page.worker[r.worker].call = "opening"
      /\ r.op = "close" => page.worker[r.worker].call = "closing"
  BY <1>0, <1>1 DEF SessionsInv, CallsOK
<1>4. r.op = "open" => b.session[r.worker] = None
  BY <1>0, <1>3 DEF SessionsInv, CallsOK
<1>5. r.op \in {"open", "close", "drop"} => r.worker \notin NewWorkers
  BY <1>0, <1>1 DEF SessionsInv, WorkersOK
<1>6. r.op \in {"drop", "close"} /\ b.session[r.worker] \in DOMAIN bg.live => r.tok = b.session[r.worker]
  BY <1>0, <1>1 DEF SessionsInv, EndsOK
<1>7. r.op = "purge" => r.port \in Ports /\ b.ctx[r.port].state \in {"ending", "gone"}
  BY <1>0, <1>1 DEF GateInv, PurgesOK
<1>8. r.tok \in bg.used \cup {None}
  BY <1>0, <1>1 DEF SessionsInv, TokensOK
<1> QED BY <1>1, <1>2, <1>3, <1>4, <1>5, <1>6, <1>7, <1>8

LEMMA ServesSessions ==
    ASSUME FramesInv, NEW r, NEW s, Serves(r, s), NEW g, Fewer(bg, g),
           \A t \in DOMAIN g.live : ~Covers(r, g, t)
    PROVE  /\ SessionsInv(s, g, page.worker, NewWorkers)
           /\ r.op \in {"open", "close"} =>
                \A i \in DOMAIN s.control : s.control[i].op \in {"open", "close"} => s.control[i].worker # r.worker
           /\ r.op = "open" =>
                \A i \in DOMAIN s.control : s.control[i].op = "drop" => s.control[i].worker # r.worker
<1> DEFINE N == NewWorkers
           k == page.worker
<1>0. SessionsInv(b, bg, k, N) /\ BridgeOK(b) /\ b.control # <<>>
  BY DEF FramesInv, PortsInv, GateInv, Serves
<1> HIDE DEF N, k
<1>1. SessionsInv(b, g, k, N)
  BY <1>0, FewerSessions
<1>2. \A t \in DOMAIN g.live : ~Covers(Head(b.control), g, t)
  BY DEF Serves
<1>3. LET q == [b EXCEPT !.control = Tail(@)]
          w == Head(b.control).worker
      IN  /\ SessionsInv(q, g, k, N)
          /\ Head(b.control).op \in {"open", "close"} =>
               \A i \in DOMAIN q.control : q.control[i].op \in {"open", "close"} => q.control[i].worker # w
          /\ Head(b.control).op = "open" =>
               \A i \in DOMAIN q.control : q.control[i].op = "drop" => q.control[i].worker # w
  BY <1>0, <1>1, <1>2, ServedSessions
<1> QED BY <1>3 DEF Serves, N, k

\* What follows in the bridge, and the answer to the worker whose call it was.
LEMMA AnsweredSessions ==
    ASSUME FramesInv, NEW s, BridgeOK(s), Runs(s), toBridge' = toBridge,
           NEW k, SessionsInv(s, bg', k, NewWorkers), \A v \in Worker : page'.worker[v].call = k[v].call,
           page' = page \/ \E w \in Worker \ NewWorkers : \E c \in CallState : Called(w, c)
    PROVE  SessionsInv(b, bg, page.worker, NewWorkers)' /\ AnnouncedOK'
<1> DEFINE N == NewWorkers
<1>0. AnnouncedOK /\ StateOK /\ SessionsInv(s, bg', k, N)
  BY DEF FramesInv, PortsInv
<1>1. \A v \in Worker : /\ page'.worker[v].doc = page.worker[v].doc
                        /\ page.worker[v].doc = 0 => /\ page'.worker[v].call = page.worker[v].call
                                                     /\ page'.worker[v].run => page.worker[v].run
  <2>1. CASE page' = page
    BY <2>1
  <2>2. ASSUME NEW w \in Worker \ NewWorkers, NEW c \in CallState, Called(w, c)
        PROVE  <1>1
    <3>1. \A v \in Worker : /\ page'.worker[v].doc = page.worker[v].doc
                            /\ page'.worker[v].run = page.worker[v].run
                            /\ page'.worker[v].call = IF v = w THEN c ELSE page.worker[v].call
      BY <1>0, <2>2, CalledShape
    <3>2. page.worker[w].doc # 0
      BY DEF NewWorkers
    <3> QED BY <3>1, <3>2
  <2> QED BY <2>1, <2>2
<1>2. AnnouncedOK' /\ NewWorkers' \subseteq N
  BY <1>0, <1>1, AnnouncedStep
<1> HIDE DEF N
<1>3. Grows(s, b')
  BY RunsGrow
<1>4. SessionsInv(b, bg, page.worker, NewWorkers)'
  BY <1>0, <1>2, <1>3, EndSessions
<1> QED BY <1>2, <1>4

LEMMA CallAnswered ==
    ASSUME FramesInv, NEW s, BridgeOK(s), Runs(s), toBridge' = toBridge,
           NEW w \in Worker \ NewWorkers, NEW c \in CallState, Called(w, c),
           SessionsInv(s, bg', page.worker, NewWorkers),
           \A i \in DOMAIN s.control : s.control[i].op \in {"open", "close"} => s.control[i].worker # w,
           c \in {"closed", "asked to open", "opening"} => s.session[w] = None
    PROVE  SessionsInv(b, bg, page.worker, NewWorkers)' /\ AnnouncedOK'
<1> DEFINE l == page'.worker
           k == page.worker
<1>1. \A v \in Worker : l[v].call = IF v = w THEN c ELSE k[v].call
  BY CalledShape DEF FramesInv, PortsInv
<1>2. l[w].call \in {"closed", "asked to open", "opening"} => s.session[w] = None
  BY <1>1
<1>3. \A v \in Worker \ {w} : l[v].call = k[v].call
  BY <1>1
<1>4. SessionsInv(s, bg', l, NewWorkers)
  <2>1. SessionsInv(s, bg', k, NewWorkers)
    OBVIOUS
  <2> HIDE DEF k, l
  <2> QED BY <1>2, <1>3, <2>1, CallSessions
<1>5. \A v \in Worker : page'.worker[v].call = l[v].call
  OBVIOUS
<1> HIDE DEF l
<1> QED BY <1>4, <1>5, AnsweredSessions

LEMMA OpenedServes ==
    ASSUME FramesInv, NEW r, NEW s, Serves(r, s), r.op = "open", toBridge' = toBridge,
           NEW t \in Token \ bg.used, Runs(handleOpenSuccess(s, r, t)),
           Called(r.worker, IF Registered(b, r.worker) /\ b.client[r.worker] = r.port
                            THEN "open" ELSE "closed"),
           bg' = [bg EXCEPT !.live = [x \in DOMAIN @ \cup {t} |-> IF x = t THEN r.port ELSE @[x]],
                            !.used = @ \cup {t}]
    PROVE  SessionsInv(b, bg, page.worker, NewWorkers)' /\ AnnouncedOK'
<1> DEFINE w == r.worker
           q == handleOpenSuccess(s, r, t)
           h == bg'
           k == page.worker
           l == page'.worker
           N == NewWorkers
<1>1. /\ r \in AskRec /\ BridgeOK(s) /\ s.client = b.client /\ s.session = b.session /\ s.ctx = b.ctx
      /\ w \in Worker \ N /\ b.session[w] = None
  BY ServesFacts
<1>2. /\ SessionsInv(s, bg, k, N)
      /\ \A i \in DOMAIN s.control : s.control[i].op \in {"open", "close", "drop"} => s.control[i].worker # w
  <2>1. Fewer(bg, bg) /\ \A u \in DOMAIN bg.live : ~Covers(r, bg, u)
    BY DEF Fewer, Covers
  <2> QED BY <2>1, ServesSessions
<1>3. Opens(bg, h, t, r.port) /\ StateOK
  BY DEF Opens, FramesInv, PortsInv, StateOK
<1>4. Registered(s, w) <=> Registered(b, w)
  BY <1>1 DEF Registered, Live
<1>5. /\ BridgeOK(q) /\ Same(s, q) /\ q.client = s.client
      /\ IF Registered(s, w) /\ s.client[w] = r.port
         THEN q.session = [s.session EXCEPT ![w] = t] /\ q.control = s.control
         ELSE q.session = s.session /\ q.control = Append(s.control, CleanRec(r, t))
  BY <1>1, OpenSuccessShape
<1> HIDE DEF q
<1>6. Runs(q) /\ q.ctx = s.ctx
  BY <1>5 DEF Same, q
<1>7. CASE Registered(b, w) /\ b.client[w] = r.port
  <2>1. Called(w, "open") /\ "open" \in CallState
    BY <1>7 DEF CallState
  <2>2. l[w].call = "open" /\ \A v \in Worker \ {w} : l[v].call = k[v].call
    BY <1>1, <1>3, <2>1, CalledShape
  <2>3. /\ q.session = [s.session EXCEPT ![w] = t] /\ q.control = s.control
        /\ Registered(s, w) /\ Opens(bg, h, t, s.client[w]) /\ s.session[w] = None
    BY <1>1, <1>3, <1>4, <1>5, <1>7
  <2>4. SessionsInv(q, h, l, N)
    <3>1. N \subseteq Worker
      BY DEF NewWorkers
    <3> HIDE DEF w, h, k, l, N
    <3> QED BY <1>1, <1>2, <1>5, <1>6, <2>2, <2>3, <3>1, OpenedSessions
  <2>5. \A v \in Worker : page'.worker[v].call = l[v].call
    OBVIOUS
  <2>6. \E v \in Worker \ NewWorkers : \E c \in CallState : Called(v, c)
    BY <1>1, <2>1
  <2>7. SessionsInv(q, bg', l, NewWorkers) /\ BridgeOK(q) /\ Runs(q)
    BY <1>5, <1>6, <2>4
  <2> HIDE DEF l
  <2> QED BY <2>5, <2>6, <2>7, AnsweredSessions
<1>8. CASE ~(Registered(b, w) /\ b.client[w] = r.port)
  <2> DEFINE x == CleanRec(r, t)
  <2>1. Called(w, "closed") /\ "closed" \in CallState
    BY <1>8 DEF CallState
  <2>2. x \in AskRec /\ x.op = "clean" /\ x.tok = t
    BY <1>1, CleanType
  <2> HIDE DEF x
  <2>3. q.session = s.session /\ q.control = Append(s.control, x)
    BY <1>1, <1>4, <1>5, <1>8 DEF x
  <2>4. SessionsInv(q, h, k, N)
    <3> HIDE DEF w, h, k, l, N
    <3> QED BY <1>1, <1>2, <1>3, <1>5, <1>6, <2>2, <2>3, HandedBackSessions
  <2>5. \A i \in DOMAIN q.control : q.control[i].op \in {"open", "close"} => q.control[i].worker # w
    <3> DEFINE n == Len(s.control) + 1
    <3>1. /\ q.control[n] = x
          /\ \A i \in DOMAIN q.control : \/ i \in DOMAIN s.control /\ q.control[i] = s.control[i]
                                         \/ i = n
      BY <1>1, <2>2, <2>3, AppendShape
    <3> HIDE DEF n
    <3> QED BY <1>2, <2>2, <3>1
  <2>6. q.session[w] = None
    BY <1>1, <2>3
  <2>7. /\ SessionsInv(q, bg', page.worker, NewWorkers) /\ BridgeOK(q) /\ Runs(q)
        /\ w \in Worker \ NewWorkers
    BY <1>1, <1>5, <1>6, <2>4
  <2> HIDE DEF w
  <2> QED BY <2>1, <2>5, <2>6, <2>7, CallAnswered
<1> QED BY <1>7, <1>8

LEMMA NotOpenedServes ==
    ASSUME FramesInv, NEW r, NEW s, Serves(r, s), r.op = "open", toBridge' = toBridge,
           Runs(s), Called(r.worker, "closed"), bg' = bg
    PROVE  SessionsInv(b, bg, page.worker, NewWorkers)' /\ AnnouncedOK'
<1> DEFINE w == r.worker
           N == NewWorkers
<1>1. /\ BridgeOK(s) /\ s.session = b.session /\ w \in Worker \ N /\ b.session[w] = None
  BY ServesFacts
<1>2. /\ SessionsInv(s, bg, page.worker, N)
      /\ \A i \in DOMAIN s.control : s.control[i].op \in {"open", "close"} => s.control[i].worker # w
  <2>1. Fewer(bg, bg) /\ \A u \in DOMAIN bg.live : ~Covers(r, bg, u)
    BY DEF Fewer, Covers
  <2> QED BY <2>1, ServesSessions
<1>3. "closed" \in CallState /\ SessionsInv(s, bg', page.worker, N) /\ s.session[w] = None
  BY <1>1, <1>2 DEF CallState
<1> QED BY <1>1, <1>2, <1>3, CallAnswered

\* The sessions that are left when one, or those of a port, end.
LEMMA EndedFewer ==
    ASSUME StateOK, NEW t, bg' = [bg EXCEPT !.live = Ended(t)]
    PROVE  Fewer(bg, bg') /\ t \notin DOMAIN bg'.live
BY DEF StateOK, Ended, Fewer

\* The session of a worker is set.
SetTo(s, q, w, d) == q = [s EXCEPT !.session[w] = d]
LEMMA SetToShape ==
    ASSUME NEW s, NEW q, NEW w, NEW d, BridgeOK(s), SetTo(s, q, w, d),
           w \in Worker => d \in Token \cup {None}
    PROVE  /\ BridgeOK(q) /\ q.ctx = s.ctx /\ q.control = s.control /\ q.client = s.client
           /\ q.session = [s.session EXCEPT ![w] = d]
<1> DEFINE o == [s EXCEPT !.session[w] = d]
<1>1. /\ BridgeOK(o) /\ Same(s, o) /\ o.control = s.control /\ o.client = s.client
      /\ o.session = [s.session EXCEPT ![w] = d]
  BY SessionShape
<1>2. q = o
  BY DEF SetTo
<1> HIDE DEF o
<1> QED BY <1>1, <1>2 DEF Same

LEMMA ClosedServes ==
    ASSUME FramesInv, NEW r, NEW s, Serves(r, s), r.op = "close", toBridge' = toBridge,
           NEW q, SetTo(s, q, r.worker, None), Runs(q), Called(r.worker, "closed"),
           Fewer(bg, bg'), r.tok \notin DOMAIN bg'.live
    PROVE  SessionsInv(b, bg, page.worker, NewWorkers)' /\ AnnouncedOK'
<1> DEFINE w == r.worker
           h == bg'
           k == page.worker
           N == NewWorkers
<1>1. /\ BridgeOK(s) /\ s.session = b.session /\ w \in Worker \ N
      /\ b.session[w] \in DOMAIN bg.live => r.tok = b.session[w]
  BY ServesFacts
<1>2. /\ SessionsInv(s, h, k, N)
      /\ \A i \in DOMAIN s.control : s.control[i].op \in {"open", "close"} => s.control[i].worker # w
  <2>1. \A u \in DOMAIN bg'.live : ~Covers(r, bg', u)
    BY DEF Covers
  <2> QED BY <2>1, ServesSessions
<1>3. /\ BridgeOK(q) /\ q.ctx = s.ctx /\ q.control = s.control /\ q.client = s.client
      /\ q.session = [s.session EXCEPT ![w] = None]
  BY <1>1, SetToShape
<1>4. q.session[w] = None
  BY <1>1, <1>3 DEF BridgeOK
<1>5. SessionsInv(q, h, k, N)
  <2>1. s.session[w] \notin DOMAIN h.live
    BY <1>1 DEF Fewer
  <2>2. None \notin DOMAIN h.live /\ None \in h.used \cup {None}
    BY <1>2, NoneIsNoToken DEF SessionsInv, TokensOK
  <2>3. N \subseteq Worker
    BY DEF NewWorkers
  <2> HIDE DEF w, h, k, N
  <2> QED BY <1>1, <1>2, <1>3, <2>1, <2>2, <2>3, SetSessions
<1>6. /\ BridgeOK(q) /\ SessionsInv(q, bg', page.worker, NewWorkers)
      /\ w \in Worker \ NewWorkers /\ Called(w, "closed") /\ "closed" \in CallState
      /\ \A i \in DOMAIN q.control : q.control[i].op \in {"open", "close"} => q.control[i].worker # w
  BY <1>1, <1>2, <1>3, <1>5 DEF CallState
<1> HIDE DEF w
<1> QED BY <1>4, <1>6, CallAnswered

\* close() of a session the background does not have: it is kept as it was.
Kept(s, r, d) == d = IF r.tok = None THEN s.session[r.worker] ELSE r.tok
LEMMA NotClosedServes ==
    ASSUME FramesInv, NEW r, NEW s, Serves(r, s), r.op = "close", toBridge' = toBridge,
           NEW d, Kept(s, r, d), NEW q, SetTo(s, q, r.worker, d), Runs(q), Called(r.worker, "open"),
           bg' = bg, r.tok \notin DOMAIN bg.live
    PROVE  SessionsInv(b, bg, page.worker, NewWorkers)' /\ AnnouncedOK'
<1> DEFINE w == r.worker
           k == page.worker
           N == NewWorkers
<1>1. /\ r \in AskRec /\ BridgeOK(s) /\ s.session = b.session /\ w \in Worker \ N
      /\ b.session[w] \in DOMAIN bg.live => r.tok = b.session[w]
      /\ k[w].call = "closing" /\ r.tok \in bg.used \cup {None}
  BY ServesFacts
<1>2. /\ SessionsInv(s, bg, k, N)
      /\ \A i \in DOMAIN s.control : s.control[i].op \in {"open", "close"} => s.control[i].worker # w
  <2>1. Fewer(bg, bg) /\ \A u \in DOMAIN bg.live : ~Covers(r, bg, u)
    BY DEF Fewer, Covers
  <2> QED BY <2>1, ServesSessions
<1>3. s.session[w] \notin DOMAIN bg.live /\ d \notin DOMAIN bg.live /\ d \in bg.used \cup {None}
  BY <1>1, <1>2 DEF SessionsInv, TokensOK, Kept
<1>4. w \in Worker => d \in Token \cup {None}
  BY <1>2, <1>3 DEF SessionsInv, TokensOK
<1>5. /\ BridgeOK(q) /\ q.ctx = s.ctx /\ q.control = s.control /\ q.client = s.client
      /\ q.session = [s.session EXCEPT ![w] = d]
  <2>1. BridgeOK(s) /\ SetTo(s, q, w, d)
    BY <1>1
  <2> HIDE DEF w
  <2> QED BY <1>4, <2>1, SetToShape
<1>6. SessionsInv(q, bg, k, N)
  <2>1. N \subseteq Worker /\ k[w].call \notin {"closed", "asked to open", "opening"}
    BY <1>1 DEF NewWorkers
  <2> HIDE DEF w, k, N
  <2> QED BY <1>1, <1>2, <1>3, <1>5, <2>1, SetSessions
<1>7. /\ BridgeOK(q) /\ SessionsInv(q, bg', page.worker, NewWorkers)
      /\ w \in Worker \ NewWorkers /\ Called(w, "open") /\ "open" \in CallState
      /\ \A i \in DOMAIN q.control : q.control[i].op \in {"open", "close"} => q.control[i].worker # w
  BY <1>1, <1>2, <1>5, <1>6 DEF CallState
<1>8. "open" \in {"closed", "asked to open", "opening"} => q.session[w] = None
  OBVIOUS
<1> HIDE DEF w
<1> QED BY <1>7, <1>8, CallAnswered

\* A client is dropped, or a session handed back.
LEMMA DroppedServes ==
    ASSUME FramesInv, NEW r, NEW s, Serves(r, s), toBridge' = toBridge, page' = page,
           NEW q, Runs(q), (r.op = "drop" /\ q = Unregister(s, r.worker)) \/ (r.op = "clean" /\ q = s),
           Fewer(bg, bg'), r.tok \notin DOMAIN bg'.live
    PROVE  SessionsInv(b, bg, page.worker, NewWorkers)' /\ AnnouncedOK'
<1> DEFINE w == r.worker
           h == bg'
           k == page.worker
           N == NewWorkers
<1>1. /\ BridgeOK(s) /\ s.session = b.session
      /\ r.op = "drop" => /\ w \in Worker \ N
                          /\ b.session[w] \in DOMAIN bg.live => r.tok = b.session[w]
  BY ServesFacts
<1>2. SessionsInv(s, h, k, N)
  <2>1. \A u \in DOMAIN bg'.live : ~Covers(r, bg', u)
    BY DEF Covers
  <2> QED BY <2>1, ServesSessions
<1>3. BridgeOK(q) /\ SessionsInv(q, h, k, N)
  <2>1. CASE r.op = "clean"
    BY <1>1, <1>2, <2>1
  <2>2. CASE r.op = "drop"
    <3>1. /\ BridgeOK(q) /\ q.ctx = s.ctx /\ q.control = s.control
          /\ q.client = [s.client EXCEPT ![w] = 0] /\ q.session = [s.session EXCEPT ![w] = None]
      <4>1. q = Unregister(s, w) /\ BridgeOK(s)
        BY <1>1, <2>2
      <4>2. /\ BridgeOK(Unregister(s, w)) /\ Same(s, Unregister(s, w))
            /\ Unregister(s, w).control = s.control
            /\ Unregister(s, w).client = [s.client EXCEPT ![w] = 0]
            /\ Unregister(s, w).session = [s.session EXCEPT ![w] = None]
        BY <4>1, UnregisterShape
      <4> QED BY <4>1, <4>2 DEF Same
    <3>2. s.session[w] \notin DOMAIN h.live
      BY <1>1, <2>2 DEF Fewer
    <3>3. None \notin DOMAIN h.live /\ None \in h.used \cup {None}
      BY <1>2, NoneIsNoToken DEF SessionsInv, TokensOK
    <3>4. N \subseteq Worker /\ w \in Worker
      BY <1>1, <2>2 DEF NewWorkers
    <3>5. SessionsInv(q, h, k, N)
      <4> HIDE DEF w, h, k, N
      <4> QED BY <1>1, <1>2, <3>1, <3>2, <3>3, <3>4, SetSessions
    <3> QED BY <3>1, <3>5
  <2> QED BY <2>1, <2>2
<1>4. \A v \in Worker : page'.worker[v].call = k[v].call
  OBVIOUS
<1> HIDE DEF k
<1> QED BY <1>3, <1>4, AnsweredSessions

\* The background has purged a context.
LEMMA PurgedServes ==
    ASSUME FramesInv, NEW r, NEW s, Serves(r, s), r.op = "purge", toBridge' = toBridge, page' = page,
           NEW q, Runs(q), q = Purged(s, r) \/ q = tryPromote(Purged(s, r)),
           Fewer(bg, bg'), \A t \in DOMAIN bg'.live : bg'.live[t] # r.port
    PROVE  SessionsInv(b, bg, page.worker, NewWorkers)' /\ AnnouncedOK'
<1> DEFINE k == page.worker
           N == NewWorkers
           o == Purged(s, r)
<1>0. StateOK
  BY DEF FramesInv, PortsInv
<1>1. /\ BridgeOK(s) /\ GateInv(s) /\ s.ctx = b.ctx
      /\ r.port \in Ports /\ b.ctx[r.port].state \in {"ending", "gone"}
  BY ServesFacts
<1>2. SessionsInv(s, bg', k, N)
  <2>1. \A u \in DOMAIN bg'.live : ~Covers(r, bg', u)
    BY DEF Covers
  <2> QED BY <2>1, ServesSessions
<1>3. GateInv(o) /\ Grows(s, o)
  BY <1>1, PurgedKeeps
<1> HIDE DEF o
<1>4. GateInv(tryPromote(o)) /\ Grows(o, tryPromote(o))
  BY <1>0, <1>3, PromoteKeeps
<1>5. BridgeOK(q) /\ Grows(s, q)
  BY <1>3, <1>4 DEF GateInv, Grows, o
<1>6. \A v \in Worker : page'.worker[v].call = k[v].call
  OBVIOUS
<1>7. SessionsInv(q, bg', k, N)
  <2> HIDE DEF k, N
  <2> QED BY <1>1, <1>2, <1>5, GrowsSessions
<1> HIDE DEF k
<1> QED BY <1>5, <1>6, <1>7, AnsweredSessions

LEMMA ServeSessions == FramesInv /\ Serve => SessionsInv(b, bg, page.worker, NewWorkers)' /\ AnnouncedOK'
<1> SUFFICES ASSUME FramesInv, Serve
             PROVE  SessionsInv(b, bg, page.worker, NewWorkers)' /\ AnnouncedOK'
  OBVIOUS
<1> DEFINE r == Head(b.control)
           served == [b EXCEPT !.control = Tail(@)]
           w == r.worker
<1>0. Serves(r, served) /\ toBridge' = toBridge /\ StateOK
  BY DEF Serve, Serves, FramesInv, PortsInv
<1> HIDE DEF r, served
<1>1. CASE \E t \in Token \ bg.used :
              /\ r.op = "open"
              /\ Runs(handleOpenSuccess(served, r, t))
              /\ Called(w, IF Registered(b, w) /\ b.client[w] = r.port THEN "open" ELSE "closed")
              /\ bg' = [bg EXCEPT !.live = [x \in DOMAIN @ \cup {t} |-> IF x = t THEN r.port ELSE @[x]],
                                  !.used = @ \cup {t}]
  BY <1>0, <1>1, OpenedServes
<1>2. CASE r.op = "open" /\ Runs(served) /\ Called(w, "closed") /\ bg' = bg
  BY <1>0, <1>2, NotOpenedServes
<1>3. CASE /\ r.op = "close" /\ r.tok \in DOMAIN bg.live
           /\ Runs([served EXCEPT !.session[w] = None])
           /\ Called(w, "closed") /\ bg' = [bg EXCEPT !.live = Ended(r.tok)]
  <2> DEFINE q == [served EXCEPT !.session[w] = None]
  <2>1. SetTo(served, q, r.worker, None) /\ Runs(q)
    BY <1>3 DEF SetTo
  <2>2. Fewer(bg, bg') /\ r.tok \notin DOMAIN bg'.live
    BY <1>0, <1>3, EndedFewer
  <2> HIDE DEF q
  <2> QED BY <1>0, <1>3, <2>1, <2>2, ClosedServes
<1>4. CASE /\ r.op = "close" /\ r.tok \notin DOMAIN bg.live
           /\ Runs([served EXCEPT !.session[w] = IF r.tok = None THEN @ ELSE r.tok])
           /\ Called(w, "open") /\ bg' = bg
  <2> DEFINE d == IF r.tok = None THEN served.session[w] ELSE r.tok
             q == [served EXCEPT !.session[w] = d]
  <2>1. Kept(served, r, d) /\ SetTo(served, q, r.worker, d) /\ Runs(q)
    BY <1>4 DEF Kept, SetTo
  <2> HIDE DEF d, q
  <2> QED BY <1>0, <1>4, <2>1, NotClosedServes
<1>5. CASE /\ r.op = "drop" /\ Runs(Unregister(served, w))
           /\ page' = page /\ bg' = [bg EXCEPT !.live = Ended(r.tok)]
  <2>1. Fewer(bg, bg') /\ r.tok \notin DOMAIN bg'.live
    BY <1>0, <1>5, EndedFewer
  <2> DEFINE q == Unregister(served, w)
  <2>2. /\ Runs(q) /\ page' = page
        /\ (r.op = "drop" /\ q = Unregister(served, r.worker)) \/ (r.op = "clean" /\ q = served)
    BY <1>5
  <2> HIDE DEF q, w
  <2> QED BY <1>0, <2>1, <2>2, DroppedServes
<1>6. CASE /\ r.op = "clean" /\ Runs(served) /\ page' = page /\ bg' = [bg EXCEPT !.live = Ended(r.tok)]
  <2>1. Fewer(bg, bg') /\ r.tok \notin DOMAIN bg'.live
    BY <1>0, <1>6, EndedFewer
  <2> QED BY <1>0, <1>6, <2>1, DroppedServes
<1>7. CASE /\ r.op = "purge"
           /\ Runs(IF b.on /\ b.serial = r.serial THEN tryPromote(Purged(served, r)) ELSE Purged(served, r))
           /\ page' = page
           /\ bg' = [bg EXCEPT !.live = [x \in {y \in DOMAIN @ : @[y] # r.port} |-> @[x]]]
  <2> DEFINE o == Purged(served, r)
             q == IF b.on /\ b.serial = r.serial THEN tryPromote(o) ELSE o
  <2>1. Runs(q) /\ (q = Purged(served, r) \/ q = tryPromote(Purged(served, r)))
    BY <1>7
  <2>2. Fewer(bg, bg') /\ \A t \in DOMAIN bg'.live : bg'.live[t] # r.port
    BY <1>0, <1>7 DEF StateOK, Fewer
  <2> HIDE DEF o, q
  <2> QED BY <1>0, <1>7, <2>1, <2>2, PurgedServes
<1> QED BY <1>1, <1>2, <1>3, <1>4, <1>5, <1>6, <1>7 DEF Serve, Purged, r, served

-----------------------------------------------------------------------------
(* The sessions of the frames *)

LEMMA InitSessions == Init => SessionsInv(b, bg, page.worker, NewWorkers) /\ AnnouncedOK
<1> SUFFICES ASSUME Init
             PROVE  SessionsInv(b, bg, page.worker, NewWorkers) /\ AnnouncedOK
  OBVIOUS
<1>1. /\ \A w \in Worker : /\ page.worker[w].doc = 0 /\ page.worker[w].run = FALSE
                           /\ page.worker[w].call = "closed"
      /\ \A p \in Ports : toBridge[p] = <<>>
  BY DEF Init, NoWorker
<1>2. /\ \A w \in Worker : b.client[w] = 0 /\ b.session[w] = None
      /\ b.control = <<>> /\ DOMAIN bg.live = {} /\ bg.used = {}
  BY DEF Init
<1>3. AnnouncedOK
  BY <1>1 DEF AnnouncedOK, Announced
<1>4. AllCovered(b, bg) /\ ClientsOK(b, bg) /\ WorkersOK(b, NewWorkers)
  BY <1>2 DEF AllCovered, ClientsOK, WorkersOK, NewWorkers
<1>5. DOMAIN b.control = {}
  BY <1>2
<1>6. CallsOK(b, page.worker) /\ EndsOK(b, bg) /\ TokensOK(b, bg)
  BY <1>2, <1>5 DEF CallsOK, EndsOK, TokensOK
<1> QED BY <1>3, <1>4, <1>6 DEF SessionsInv

\* What the bridge, the workers and the background keep of the sessions agrees.
THEOREM FramesInvCorrect == Spec => []FramesInv
<1> DEFINE I == SessionsInv(b, bg, page.worker, NewWorkers) /\ AnnouncedOK
<1>1. Init => FramesInv
  BY InitPorts, InitSessions DEF FramesInv
<1>2. FramesInv /\ [Next]_vars => I'
  <2> SUFFICES ASSUME FramesInv, [Next]_vars
               PROVE  I'
    OBVIOUS
  <2>1. CASE ReceiveOffer
    BY <2>1, ReceiveOfferSessions
  <2>2. CASE Deadline
    BY <2>2, DeadlineSessions DEF Deadline
  <2>3. CASE Serve
    BY <2>3, ServeSessions
  <2>4. ASSUME NEW p \in Ports, Receive(p)
        PROVE  I'
    BY <2>4, ReceiveSessions
  <2>5. CASE Leave \/ Load \/ Offer \/ BridgeReady \/ \E p \in Ports : AnswerProbe(p)
    BY <2>5, WindowSessions
  <2>6. ASSUME NEW w \in Worker, OpenRequest(w) \/ CloseRequest(w)
        PROVE  I'
    BY <2>6, RequestSessions
  <2>7. ASSUME NEW w \in Worker, AnnounceWorker(w) \/ WorkerKey(w) \/ Terminate(w) \/ WorkerCalls(w)
        PROVE  I'
    BY <2>7, AnnounceSessions, DroppedSessions, CalledSessions
  <2>8. CASE UNCHANGED vars
    <3>1. UNCHANGED <<page, toBridge, b, bg>>
      BY <2>8 DEF vars
    <3> QED BY <3>1, QuietSessions
  <2> QED BY <2>1, <2>2, <2>3, <2>4, <2>5, <2>6, <2>7, <2>8 DEF Next
<1>3. FramesInv /\ PortsInv' /\ I' => FramesInv'
  BY DEF FramesInv
<1> QED BY <1>1, <1>2, <1>3, PortsInvCorrect, PTL DEF Spec

\* A session opened through a worker is held for a client that is registered, or
\* what ends it is on its way: documents that leave, workers that are terminated
\* and answers that come too late lose none.
THEOREM SessionsCorrect == Spec => []NoLostSession
<1>1. FramesInv => NoLostSession
  BY DEF FramesInv, SessionsInv, AllCovered, Covered, NoLostSession
<1> QED BY <1>1, FramesInvCorrect, PTL

=============================================================================
