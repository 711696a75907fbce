---------------------------- MODULE FrameContexts ----------------------------
(***************************************************************************)
(* How the documents of one window get a port to the bridge, and what the  *)
(* bridge keeps for it: the bootstrap gate (bootstrap-lifetime.js), the    *)
(* frame contexts and the page-created workers with the polyfill           *)
(* (bridge.js, main/index.js).  Documents follow each other in the window  *)
(* and the gate sees which one is current, never which one posted an offer.*)
(***************************************************************************)
EXTENDS Naturals, Sequences, FiniteSets

CONSTANTS MaxDocs,     \* bound: documents of the window
          MaxPorts,    \* bound: offered ports; the first of a document is its polyfill's
          Worker,      \* workers the documents may create
          Token,       \* session tokens
          None,        \* no token
          MaxExpiries  \* bound: polyfills that answer later than the time limit

ASSUME FrameAssumption ==
  /\ {MaxDocs, MaxPorts, MaxExpiries} \subseteq Nat /\ None \notin Token

Ports == 1..MaxPorts

VARIABLES page,      \* the window: its document, the ports offered, its workers
          posted,    \* offers on their way to the bridge's window
          toBridge,  \* messages on each port
          toPage,    \* messages to the current document, at most one of a kind
          b,         \* the bridge
          bg         \* the background: session -> port of the frame it belongs to

vars == <<page, posted, toBridge, toPage, b, bg>>

(* The port of a document's polyfill, and of the current one. *)
First(d) == {p \in Ports : page.owner[p] = d /\ \A q \in 1..(p - 1) : page.owner[q] # d}
Own == IF page.doc = 0 THEN {} ELSE First(page.doc)

NoWorker == [doc |-> 0, run |-> FALSE, asked |-> FALSE, key |-> FALSE,
             sent |-> FALSE, call |-> "closed"]

Init ==
  /\ page = [doc |-> 1, docs |-> 1, owner |-> [p \in Ports |-> 0],
             ready |-> {}, late |-> {}, worker |-> [w \in Worker |-> NoWorker]]
  /\ posted = <<>> /\ toBridge = [p \in Ports |-> <<>>] /\ toPage = {}
  /\ b = [on |-> FALSE, serial |-> 0, target |-> 0, clean |-> FALSE, cands |-> <<>>,
          ctx |-> [p \in Ports |-> [doc |-> 0, state |-> "none"]], source |-> 0,
          client |-> [w \in Worker |-> 0], session |-> [w \in Worker |-> None],
          control |-> <<>>, out |-> {}]
  /\ bg = [live |-> <<>>, used |-> {}]

---------------------------------------------------------------------------
(* The gate.  s is the bridge's state; the window's current identity is    *)
(* page.doc, 0 between two documents.                                      *)

Live(s, p) == s.ctx[p].state = "live"
Candidates(s) == {s.cands[i].port : i \in DOMAIN s.cands}

failTransition(s) == [s EXCEPT !.on = FALSE, !.cands = <<>>]

(* createFrameContext; the other candidates are closed *)
acceptBootstrapPort(s, p) ==
  [s EXCEPT !.ctx[p] = [doc |-> s.target, state |-> "live"], !.source = p,
            !.on = FALSE, !.cands = <<>>, !.out = @ \cup {<<p, "accepted">>}]

(* Faulty variant: a candidate need not have answered its probe. *)
MutTrustOffer(s) ==
  IF s.cands = <<>> \/ ~s.clean \/ page.doc # s.target THEN s
  ELSE acceptBootstrapPort(s, Head(s.cands).port)

(* Faulty variant: an expired candidate at the head is not skipped. *)
MutHeadBlocks(s) ==
  IF s.cands = <<>> \/ ~Head(s.cands).live \/ ~s.clean THEN s
  ELSE IF page.doc # s.target THEN [s EXCEPT !.cands = <<>>, !.target = page.doc]
  ELSE acceptBootstrapPort(s, Head(s.cands).port)

(* The first candidate that has not expired is promoted, if it answered    *)
(* and the previous document is cleaned up.  Candidates have the identity  *)
(* of the target: they are closed whenever it changes.                     *)
tryPromote(s) ==
  LET gone == {i \in DOMAIN s.cands : \A j \in 1..i : s.cands[j].expired}
      rest == [s EXCEPT !.cands = SubSeq(@, Cardinality(gone) + 1, Len(@))]
      head == Head(rest.cands)
  IN  CASE ~s.on \/ rest.cands = <<>> -> rest
        [] s.on /\ rest.cands # <<>> /\ (~head.live \/ ~s.clean) -> rest
        [] OTHER -> CASE page.doc = 0 -> failTransition(rest)
                      [] page.doc \notin {0, s.target} ->
                           [rest EXCEPT !.cands = <<>>, !.target = page.doc]
                      [] OTHER -> acceptBootstrapPort(rest, head.port)

(* A challenge is sent and a deadline set. *)
addCandidate(s, p) ==
  [s EXCEPT !.cands = Append(@, [port |-> p, live |-> FALSE, expired |-> FALSE]),
            !.out = @ \cup {<<p, "probe">>}]

(* destroyFrameContext, up to its first await: the context is taken out of *)
(* the maps, with its clients, and the background is asked to purge it.    *)
destroyFrameContext(s, p) ==
  IF ~Live(s, p) THEN s
  ELSE [s EXCEPT !.ctx[p].state = "ending",
                 !.source = IF @ = p THEN 0 ELSE @,
                 !.client = [w \in Worker |-> IF @[w] = p THEN 0 ELSE @[w]],
                 !.control = Append(@, [op |-> "purge", port |-> p, worker |-> None,
                                        tok |-> None,
                                        serial |-> IF s.on /\ ~s.clean THEN s.serial ELSE 0])]

startTransition(s, p) ==
  LET new == [s EXCEPT !.on = TRUE, !.serial = @ + 1, !.target = page.doc,
                       !.clean = s.source = 0, !.cands = <<>>]
      asked == addCandidate(new, p)
  IN  IF s.source = 0 THEN asked ELSE destroyFrameContext(asked, s.source)

handleBootstrap(s, p) ==
  LET same == \E i \in DOMAIN s.cands : s.cands[i].live
  IN  CASE page.doc = 0 -> s
        [] page.doc # 0 /\ s.on /\ s.target = page.doc ->
             IF same THEN s ELSE addCandidate(s, p)
        [] page.doc # 0 /\ s.on /\ s.target # page.doc ->
             addCandidate([s EXCEPT !.cands = <<>>, !.target = page.doc], p)
        [] page.doc # 0 /\ ~s.on /\ s.source # 0 /\ s.ctx[s.source].doc = page.doc -> s
        [] OTHER -> startTransition(s, p)

---------------------------------------------------------------------------
(* Workers of the page, as clients of the bridge                           *)

Request(op, w, tok) ==
  [op |-> op, port |-> b.client[w], worker |-> w, tok |-> tok, serial |-> 0]

(* clientForPort: the worker is registered with a context that lives. *)
Registered(s, w) == s.client[w] # 0 /\ Live(s, s.client[w])

handleWorkerPortRequest(s, p, w) ==
  IF ~Live(s, p) THEN s
  ELSE [s EXCEPT !.client[w] = p, !.out = @ \cup {<<p, "worker", w>>}]

(* Its session is closed first, if it has one. *)
Unregister(s, w) == [s EXCEPT !.client[w] = 0, !.session[w] = None]
handleWorkerClientDestroyed(s, w) ==
  CASE ~Registered(s, w) -> s
    [] Registered(s, w) /\ s.session[w] = None -> Unregister(s, w)
    [] OTHER -> [s EXCEPT !.control = Append(@, Request("drop", w, s.session[w]))]

(* What arrives on a port: an answer to its probe, or the messages of the  *)
(* document it was accepted for.                                           *)
Arrives(s, p, m) ==
  LET at == {i \in DOMAIN s.cands : s.cands[i].port = p /\ ~s.cands[i].expired}
  IN  CASE m[1] = "response" /\ at # {} ->
             tryPromote([s EXCEPT !.cands = [i \in DOMAIN @ |->
                           IF i \in at THEN [@[i] EXCEPT !.live = TRUE] ELSE @[i]]])
        [] m[1] = "gone"   -> destroyFrameContext(s, p)
        [] m[1] = "worker" -> handleWorkerPortRequest(s, p, m[2])
        [] m[1] = "drop" /\ Live(s, p) -> handleWorkerClientDestroyed(s, m[2])
        [] OTHER -> s

---------------------------------------------------------------------------
(* Steps of the bridge *)

Runs(s) ==
  /\ b' = [s EXCEPT !.out = {}]
  /\ toPage' = toPage \cup {m \in s.out : page.doc # 0 /\ page.owner[m[1]] = page.doc}

ReceiveOffer ==
  /\ posted # <<>>
  /\ Runs(handleBootstrap(b, Head(posted)))
  /\ posted' = Tail(posted)
  /\ UNCHANGED <<page, toBridge, bg>>

Receive(p) ==
  /\ toBridge[p] # <<>>
  /\ Runs(Arrives(b, p, Head(toBridge[p])))
  /\ toBridge' = [toBridge EXCEPT ![p] = Tail(@)]
  /\ UNCHANGED <<page, posted, bg>>

(* The deadline of a probe.  It is meant for dead documents; a polyfill    *)
(* that lives and misses it is recorded as late.                           *)
Expire(p) ==
  LET at == {i \in DOMAIN b.cands :
               b.cands[i].port = p /\ ~b.cands[i].live /\ ~b.cands[i].expired}
      alive == p \in Own
  IN  /\ at # {} /\ (alive => Cardinality(page.late) < MaxExpiries)
      /\ Runs(tryPromote([b EXCEPT !.cands = [i \in DOMAIN @ |->
                IF i \in at THEN [@[i] EXCEPT !.expired = TRUE] ELSE @[i]]]))
      /\ page' = [page EXCEPT !.late = IF alive THEN @ \cup {p} ELSE @]
      /\ UNCHANGED <<posted, toBridge, bg>>

Deadline == \E p \in Ports : Expire(p)

---------------------------------------------------------------------------
(* open() and close() of a worker                                          *)

Called(w, call) == page' = [page EXCEPT !.worker[w].call = call]

OpenRequest(w) ==
  /\ page.worker[w].call = "asked to open" /\ b.client[w] # 0
  /\ Called(w, "opening")
  /\ b' = [b EXCEPT !.control = Append(@, Request("open", w, None))]
  /\ UNCHANGED <<posted, toBridge, toPage, bg>>

CloseRequest(w) ==
  /\ page.worker[w].call = "asked to close" /\ b.client[w] # 0
  /\ Called(w, "closing")
  /\ b' = [b EXCEPT !.control = Append(@, Request("close", w, b.session[w]))]
  /\ UNCHANGED <<posted, toBridge, toPage, bg>>

Ended(t) == [x \in DOMAIN bg.live \ {t} |-> bg.live[x]]

(* Faulty variant: the client is not looked up again after the await. *)
MutTrustClient(s, r, t) == [s EXCEPT !.session[r.worker] = t]

(* The client must still be the one that asked; otherwise the session is   *)
(* handed back.                                                            *)
handleOpenSuccess(s, r, t) ==
  IF Registered(s, r.worker) /\ s.client[r.worker] = r.port
  THEN [s EXCEPT !.session[r.worker] = t]
  ELSE [s EXCEPT !.control = Append(@, [r EXCEPT !.op = "clean", !.tok = t])]

(* The background serves the serialized requests of the bridge; what       *)
(* follows in the bridge is the continuation of the request's await.       *)
Serve ==
  LET r == Head(b.control)
      served == [b EXCEPT !.control = Tail(@)]
      w == r.worker
  IN  /\ b.control # <<>>
      /\ \/ \E t \in Token \ bg.used :
              /\ r.op = "open"
              /\ Runs(handleOpenSuccess(served, r, t))
              /\ Called(w, IF Registered(b, w) /\ b.client[w] = r.port
                           THEN "open" ELSE "closed")
              /\ bg' = [bg EXCEPT !.live = [x \in DOMAIN @ \cup {t} |->
                                              IF x = t THEN r.port ELSE @[x]],
                                  !.used = @ \cup {t}]
         \/ /\ r.op = "open"
            /\ Runs(served) /\ Called(w, "closed") /\ bg' = bg
         \/ /\ r.op = "close" /\ r.tok \in DOMAIN bg.live
            /\ Runs([served EXCEPT !.session[w] = None])
            /\ Called(w, "closed") /\ bg' = [bg EXCEPT !.live = Ended(r.tok)]
         \/ /\ r.op = "close" /\ r.tok \notin DOMAIN bg.live
            /\ Runs([served EXCEPT !.session[w] = IF r.tok = None THEN @ ELSE r.tok])
            /\ Called(w, "open") /\ bg' = bg
         \/ /\ r.op = "drop"
            /\ Runs(Unregister(served, w))
            /\ page' = page /\ bg' = [bg EXCEPT !.live = Ended(r.tok)]
         \/ /\ r.op = "clean"
            /\ Runs(served) /\ page' = page /\ bg' = [bg EXCEPT !.live = Ended(r.tok)]
         \/ /\ r.op = "purge"
            /\ LET done == [served EXCEPT !.ctx[r.port].state = "gone",
                              !.clean = @ \/ (b.on /\ b.serial = r.serial)]
               IN  Runs(IF b.on /\ b.serial = r.serial THEN tryPromote(done) ELSE done)
            /\ page' = page
            /\ bg' = [bg EXCEPT !.live = [x \in {y \in DOMAIN @ : @[y] # r.port} |-> @[x]]]
      /\ UNCHANGED <<posted, toBridge>>

---------------------------------------------------------------------------
(* The window.  Leave is pagehide: the polyfill tells its port, and the    *)
(* workers of the document end with it.                                    *)

Leave ==
  /\ page.doc # 0
  /\ page' = [page EXCEPT !.doc = 0, !.worker = [w \in Worker |->
                [@[w] EXCEPT !.run = FALSE]]]
  /\ toBridge' = [p \in Ports |-> IF p \in Own THEN Append(toBridge[p], <<"gone">>)
                                  ELSE toBridge[p]]
  /\ toPage' = {}
  /\ UNCHANGED <<posted, b, bg>>

Load ==
  /\ page.doc = 0 /\ page.docs < MaxDocs
  /\ page' = [page EXCEPT !.doc = page.docs + 1, !.docs = @ + 1]
  /\ UNCHANGED <<posted, toBridge, toPage, b, bg>>

(* A document posts a port; a script of the page may do so again. *)
Offer ==
  LET free == {p \in Ports : page.owner[p] = 0}
      p == CHOOSE q \in free : \A r \in free : q <= r
  IN  /\ page.doc # 0 /\ free # {}
      /\ page' = [page EXCEPT !.owner[p] = page.doc]
      /\ posted' = Append(posted, p)
      /\ UNCHANGED <<toBridge, toPage, b, bg>>

Says(p, m) == toBridge' = [toBridge EXCEPT ![p] = Append(@, m)]

(* handleBootstrapProbe *)
AnswerProbe(p) ==
  /\ <<p, "probe">> \in toPage
  /\ toPage' = toPage \ {<<p, "probe">>}
  /\ Says(p, <<"response">>)
  /\ UNCHANGED <<page, posted, b, bg>>

(* handleBootstrapAccepted resolves bridgeReady. *)
BridgeReady ==
  \E p \in Own :
    /\ <<p, "accepted">> \in toPage
    /\ toPage' = toPage \ {<<p, "accepted">>}
    /\ page' = [page EXCEPT !.ready = @ \cup {page.doc}]
    /\ UNCHANGED <<posted, toBridge, b, bg>>

(* PatchedWorker: a worker posts its port, which is passed on. *)
AnnounceWorker(w) ==
  /\ page.doc \in page.ready /\ page.worker[w].doc = 0
  /\ page' = [page EXCEPT !.worker[w] = [NoWorker EXCEPT !.doc = page.doc, !.run = TRUE,
                                                         !.asked = TRUE]]
  /\ \E p \in Own : Says(p, <<"worker", w>>)
  /\ UNCHANGED <<posted, toPage, b, bg>>

(* The response names the client; if the worker was terminated meanwhile   *)
(* the bridge is told now.                                                 *)
WorkerKey(w) ==
  \E p \in Own :
    /\ <<p, "worker", w>> \in toPage
    /\ toPage' = toPage \ {<<p, "worker", w>>}
    /\ page' = [page EXCEPT !.worker[w].key = TRUE,
                            !.worker[w].sent = ~page.worker[w].run]
    /\ IF page.worker[w].run THEN toBridge' = toBridge ELSE Says(p, <<"drop", w>>)
    /\ UNCHANGED <<posted, b, bg>>

(* destroyWorkerClient, from terminate() *)
Terminate(w) ==
  \E p \in Own :
    /\ page.worker[w].doc = page.doc /\ page.worker[w].run
    /\ page' = [page EXCEPT !.worker[w].run = FALSE,
                            !.worker[w].sent = page.worker[w].key]
    /\ IF page.worker[w].key THEN Says(p, <<"drop", w>>) ELSE toBridge' = toBridge
    /\ UNCHANGED <<posted, toPage, b, bg>>

WorkerCalls(w) ==
  /\ page.worker[w].run
  /\ \/ page.worker[w].call = "closed" /\ Called(w, "asked to open")
     \/ page.worker[w].call = "open" /\ Called(w, "asked to close")
  /\ UNCHANGED <<posted, toBridge, toPage, b, bg>>

Next ==
  \/ ReceiveOffer \/ Deadline \/ Serve
  \/ \E p \in Ports : Receive(p) \/ AnswerProbe(p)
  \/ Leave \/ Load \/ Offer \/ BridgeReady
  \/ \E w \in Worker : \/ OpenRequest(w) \/ CloseRequest(w) \/ AnnounceWorker(w)
                       \/ WorkerKey(w) \/ Terminate(w) \/ WorkerCalls(w)

Spec == Init /\ [][Next]_vars

(* Messages are delivered, requests served, deadlines kept, and a polyfill *)
(* answers its probe; nobody has to offer, navigate or call.               *)
FairSpec ==
  /\ Spec /\ WF_vars(ReceiveOffer) /\ WF_vars(Deadline) /\ WF_vars(Serve)
  /\ \A p \in Ports : WF_vars(Receive(p)) /\ WF_vars(p \in Own /\ AnswerProbe(p))
  /\ WF_vars(BridgeReady) /\ \A w \in Worker : WF_vars(WorkerKey(w))

---------------------------------------------------------------------------
(* Nothing is left unsent, the window's context and those of the worker    *)
(* clients are live, and sessions are tokens.                              *)
TypeOK ==
  /\ b.out = {} /\ b.source \in {0} \cup {p \in Ports : Live(b, p)}
  /\ \A p \in Ports : b.ctx[p].state \in {"none", "live", "ending", "gone"}
  /\ \A w \in Worker : b.client[w] \in {0} \cup {p \in Ports : Live(b, p)}
  /\ b.session \in [Worker -> Token \cup {None}]

(* The gate hears of documents only by the window's current identity, yet  *)
(* the port it accepts for a document is one that document offered (an     *)
(* offer of an older document handled after a navigation cannot answer),   *)
(* and it accepts one only, however often the document offers.             *)
OnePortPerDocument ==
  \A p \in Ports : b.ctx[p].doc # 0 =>
    /\ b.ctx[p].doc = page.owner[p]
    /\ \A q \in Ports \ {p} : b.ctx[q].doc # b.ctx[p].doc

(* A session opened through a worker is held for a client that is still    *)
(* registered, or a request of the bridge that ends it is on its way.      *)
NoLostSession ==
  \A t \in DOMAIN bg.live :
    \/ \E w \in Worker : b.session[w] = t /\ Registered(b, w)
    \/ \E i \in DOMAIN b.control :
         \/ b.control[i].op \in {"drop", "clean", "close"} /\ b.control[i].tok = t
         \/ b.control[i].op = "purge" /\ b.control[i].port = bg.live[t]

(* The document in the window that offered its port, without a context.    *)
Unconnected == /\ Own # {} /\ page.late = {}
               /\ \A p \in Ports : b.ctx[p].doc # page.doc

(* No document waits for ever to be connected, unless its own answer was   *)
(* late: the time limits of dead predecessors, their cleanup and rejected  *)
(* duplicates delay it, no more.                                           *)
OfferAccepted == []<>~Unconnected
=============================================================================
