--------------------------- MODULE WorkerTransport ---------------------------
(***************************************************************************)
(* The plane's worker (content/isolated/worker/index.js) and the transport *)
(* it runs, a WebSocket (utils/websocket.js) or a WebTransport             *)
(* (utils/webtransport.js).  The page sends requests over the data port    *)
(* once the plane is ready; the transport connects, fails and reconnects   *)
(* under them.  Two names serve all connections, the current one and the   *)
(* one before: what an old connection still has to say is said of its name.*)
(* Addresses, frames and delays are left out; timers fire at any time.     *)
(***************************************************************************)
EXTENDS Naturals, Sequences, FiniteSets

CONSTANTS Req,        \* requests of the page
          MaxPreOpen, \* MAX_PREOPEN: requests queued while not connected
          Kinds       \* transports the run looks at, of "ws" and "wt"

ASSUME TransportAssumption == MaxPreOpen \in Nat /\ Kinds \subseteq {"ws", "wt"}

VARIABLES t,    \* the worker and its transport
          net,  \* phase of each connection: none, connecting, up, down
          ev,   \* events of connections on their way, <<what, connection>>
          req   \* requests: new, queued, sent, replied

vars == <<t, net, ev, req>>

Conn == {1, 2}
Other(c) == 3 - c
Failures == {"closed", "auth-failed"}

Init ==
  /\ \E kind \in Kinds :
       t = [kind |-> kind, started |-> FALSE, last |-> 2, cur |-> 0, connect |-> FALSE,
            open |-> FALSE, writer |-> 0, closedHandled |-> TRUE, failed |-> FALSE,
            auth |-> FALSE, orphan |-> FALSE, reconnect |-> FALSE,
            preOpen |-> <<>>, pending |-> {}, told |-> {}]
  /\ net = [c \in Conn |-> "none"] /\ ev = {} /\ req = [r \in Req |-> "new"]

---------------------------------------------------------------------------
(* A step of the worker: s is the state it leaves, the answers it gave and *)
(* the requests it queued or sent are read off pending and preOpen.        *)

Queued(s) == {s.preOpen[i] : i \in DOMAIN s.preOpen}
Sent(s) == {x[1] : x \in s.pending}
Runs(s) ==
  /\ t' = s
  /\ req' = [r \in Req |-> CASE r \in Sent(s) -> "sent"
                             [] r \in Queued(s) -> "queued"
                             [] r \notin Sent(s) \cup Queued(s)
                                  /\ req[r] \in {"queued", "sent"} -> "replied"
                             [] OTHER -> req[r]]

isOpen(s) == IF s.kind = "ws" THEN s.cur # 0 /\ net[s.cur] = "up"
             ELSE s.open /\ s.writer # 0

(* handleSend, handleReceiveFeature: a frame is written and waited for. *)
SendFrames(s, rs) ==
  LET used == IF s.kind = "ws" THEN s.cur ELSE s.writer
  IN  [s EXCEPT !.pending = @ \cup {<<r, used>> : r \in rs}]

(* Faulty variant: what was queued while the transport reconnected is not  *)
(* sent when it is ready again.                                            *)
MutHoldQueue(s) == [s EXCEPT !.told = @ \cup {"ready"}]

(* The plane is ready (again), and what was queued meanwhile is sent. *)
onReady(s) ==
  LET told == [s EXCEPT !.told = @ \cup {"ready"}, !.preOpen = <<>>]
  IN  IF isOpen(s) THEN SendFrames(told, Queued(s)) ELSE [told EXCEPT !.preOpen = s.preOpen]

(* Faulty variant: requests survive the connection they were sent on. *)
MutKeepRequests(s, willReconnect) == s

(* Everything that waits is rejected; the bridge hears of it only when     *)
(* nothing more will be tried.                                             *)
onClosed(s, willReconnect) ==
  [s EXCEPT !.told = IF willReconnect THEN @ ELSE @ \cup {"closed"},
            !.pending = {}, !.preOpen = <<>>]

onAuthFailed(s) == [s EXCEPT !.told = @ \cup {"auth-failed"}]

---------------------------------------------------------------------------
(* Connecting *)

scheduleReconnect(s) == IF s.connect THEN [s EXCEPT !.reconnect = TRUE] ELSE s

(* A name is used again when its last connection has nothing left to say.  *)
Free(c) == net[c] \in {"none", "down"} /\ \A e \in ev : e[2] # c

(* doConnect; the constructor of the WebTransport may throw *)
DoConnect(s) ==
  LET c == Other(s.last)
  IN  \/ /\ Free(c)
         /\ net' = [net EXCEPT ![c] = "connecting"] /\ ev' = ev
         /\ Runs([s EXCEPT !.cur = c, !.last = c, !.closedHandled = FALSE, !.failed = FALSE])
      \/ /\ s.kind = "wt"
         /\ Runs(onClosed([s EXCEPT !.cur = 0, !.closedHandled = TRUE,
                                    !.failed = FALSE], FALSE))
         /\ UNCHANGED <<net, ev>>

Connect == ~t.started /\ DoConnect([t EXCEPT !.started = TRUE, !.connect = TRUE])
Reconnect == t.reconnect /\ DoConnect([t EXCEPT !.reconnect = FALSE])

---------------------------------------------------------------------------
(* WebSocket *)

WsOpen(c) ==
  /\ t.kind = "ws" /\ <<"ready", c>> \in ev
  /\ ev' = ev \ {<<"ready", c>>} /\ UNCHANGED net
  /\ Runs(onReady(t))

(* onclose, with one of the two codes for a bad token or another *)
WsClose(c) ==
  /\ t.kind = "ws" /\ <<"closed", c>> \in ev /\ <<"ready", c>> \notin ev
  /\ ev' = ev \ {<<"closed", c>>} /\ UNCHANGED net
  /\ LET shut == [t EXCEPT !.cur = 0]
     IN  \/ Runs(onAuthFailed([shut EXCEPT !.connect = FALSE]))
         \/ Runs(scheduleReconnect(onClosed(shut, TRUE)))

---------------------------------------------------------------------------
(* WebTransport *)

Down(s) == [s EXCEPT !.cur = 0, !.open = FALSE, !.writer = 0]

(* Faulty variant: an attempt that failed is not repeated. *)
MutGiveUp(s) ==
  IF s.failed \/ ~s.connect THEN s
  ELSE onClosed([Down(s) EXCEPT !.failed = TRUE, !.closedHandled = TRUE], TRUE)

failTransport(s) ==
  IF s.failed \/ ~s.connect THEN s
  ELSE scheduleReconnect(onClosed([Down(s) EXCEPT !.failed = TRUE,
                                                  !.closedHandled = TRUE], TRUE))
(* It closes the session, if there is one. *)
ClosesSession(s) == IF s.failed \/ ~s.connect THEN {} ELSE {s.cur} \ {0}
FailTransport(e) ==
  LET cut == {c \in ClosesSession(t) : net[c] # "down"}
  IN  /\ Runs(failTransport(t))
      /\ net' = [c \in Conn |-> IF c \in cut THEN "down" ELSE net[c]]
      /\ ev' = (ev \ e) \cup {<<"closed", c>> : c \in cut}

handleClosed(s) ==
  LET shut == [Down(s) EXCEPT !.closedHandled = TRUE, !.auth = FALSE]
  IN  CASE s.closedHandled \/ s.cur = 0 -> s
        [] ~(s.closedHandled \/ s.cur = 0) /\ (~s.open \/ s.auth) -> onAuthFailed(shut)
        [] OTHER -> scheduleReconnect(onClosed(shut, TRUE))

(* ready: the stream is asked for within a second during which a close     *)
(* counts as a refused token.  The timer of the attempt before is not      *)
(* cleared when that one failed, and ends this second early.               *)
WtReady(c) ==
  /\ t.kind = "wt" /\ <<"ready", c>> \in ev
  /\ IF t.cur = 0 THEN Runs(t) /\ ev' = ev \ {<<"ready", c>>}
     ELSE /\ Runs([t EXCEPT !.open = TRUE, !.orphan = @ \/ t.auth, !.auth = TRUE])
          /\ ev' = (ev \ {<<"ready", c>>}) \cup {<<"attach", t.cur>>}
  /\ UNCHANGED net

WtRefused(c) ==
  /\ t.kind = "wt" /\ <<"refused", c>> \in ev
  /\ ev' = ev \ {<<"refused", c>>} /\ UNCHANGED net
  /\ Runs(onAuthFailed([Down(t) EXCEPT !.closedHandled = TRUE]))

(* attachStream, after its await *)
WtAttached(c) ==
  /\ t.kind = "wt" /\ <<"attach", c>> \in ev
  /\ \/ /\ net[c] = "up" /\ UNCHANGED net /\ ev' = ev \ {<<"attach", c>>}
        /\ Runs(IF t.cur = 0 THEN t ELSE onReady([t EXCEPT !.auth = FALSE, !.writer = c]))
     \/ FailTransport({<<"attach", c>>})

WtClosed(c) ==
  /\ t.kind = "wt" /\ <<"closed", c>> \in ev
  /\ ev' = ev \ {<<"closed", c>>} /\ UNCHANGED net
  /\ Runs(handleClosed(t))

(* A write of the stream is rejected. *)
WriteFails == t.kind = "wt" /\ t.pending # {} /\ FailTransport({})

AuthTimer ==
  /\ t.auth \/ t.orphan
  /\ \/ t.auth /\ t' = [t EXCEPT !.auth = FALSE]
     \/ t.orphan /\ t' = [t EXCEPT !.auth = FALSE, !.orphan = t.auth]
  /\ UNCHANGED <<net, ev, req>>

---------------------------------------------------------------------------
(* Requests of the page *)

(* handleDataPortMessage: queued while not connected, refused ("busy") when *)
(* the queue is full; a saturated socket takes no frame.                   *)
Send(r) ==
  /\ req[r] = "new" /\ "ready" \in t.told
  /\ CASE isOpen(t) -> \/ /\ t' = SendFrames(t, {r})
                          /\ req' = [req EXCEPT ![r] = "sent"]
                       \/ /\ t.kind = "ws" /\ t' = t
                          /\ req' = [req EXCEPT ![r] = "replied"]
       [] ~isOpen(t) /\ Len(t.preOpen) < MaxPreOpen ->
             /\ t' = [t EXCEPT !.preOpen = Append(@, r)]
             /\ req' = [req EXCEPT ![r] = "queued"]
       [] OTHER -> t' = t /\ req' = [req EXCEPT ![r] = "replied"]
  /\ UNCHANGED <<net, ev>>

(* The daemon's response, or the 30 s deadline of registerPending. *)
Answered(r) ==
  /\ \E c \in Conn : <<r, c>> \in t.pending /\ net[c] = "up"
  /\ Runs([t EXCEPT !.pending = {x \in @ : x[1] # r}]) /\ UNCHANGED <<net, ev>>

Deadline(r) ==
  /\ r \in Sent(t)
  /\ Runs([t EXCEPT !.pending = {x \in @ : x[1] # r}]) /\ UNCHANGED <<net, ev>>

---------------------------------------------------------------------------
(* The network and the daemon *)

Settles(c) ==
  /\ net[c] = "connecting"
  /\ \/ net' = [net EXCEPT ![c] = "up"] /\ ev' = ev \cup {<<"ready", c>>}
     \/ /\ net' = [net EXCEPT ![c] = "down"]
        /\ ev' = ev \cup {<<"closed", c>>}
                   \cup {e \in {<<"refused", c>>} : t.kind = "wt"}
  /\ UNCHANGED <<t, req>>

Drops(c) ==
  /\ net[c] = "up"
  /\ net' = [net EXCEPT ![c] = "down"] /\ ev' = ev \cup {<<"closed", c>>}
  /\ UNCHANGED <<t, req>>

Event(c) == WsOpen(c) \/ WsClose(c) \/ WtReady(c) \/ WtRefused(c) \/ WtAttached(c) \/ WtClosed(c)

Next ==
  \/ Connect \/ Reconnect \/ WriteFails \/ AuthTimer
  \/ \E c \in Conn : Event(c) \/ Settles(c) \/ Drops(c)
  \/ \E r \in Req : Send(r) \/ Answered(r) \/ Deadline(r)

Spec == Init /\ [][Next]_vars

(* Timers fire, connection attempts and streams settle, events arrive.     *)
FairSpec ==
  /\ Spec /\ WF_vars(Connect) /\ WF_vars(Reconnect)
  /\ \A c \in Conn : WF_vars(Event(c)) /\ WF_vars(Settles(c))
  /\ \A r \in Req : WF_vars(Deadline(r))

---------------------------------------------------------------------------
(* The worker's fields, the connections and their events are of their      *)
(* kinds.                                                                  *)
WorkerState ==
  [kind : {"ws", "wt"}, started : BOOLEAN, last : Conn, cur : {0} \cup Conn,
   connect : BOOLEAN, open : BOOLEAN, writer : {0} \cup Conn,
   closedHandled : BOOLEAN, failed : BOOLEAN, auth : BOOLEAN, orphan : BOOLEAN,
   reconnect : BOOLEAN, preOpen : Seq(Req), pending : SUBSET (Req \X Conn),
   told : SUBSET (Failures \cup {"ready"})]
Said == {"ready", "closed", "refused", "attach"} \X Conn

TypeOK ==
  /\ t \in WorkerState /\ net \in [Conn -> {"none", "connecting", "up", "down"}]
  /\ ev \subseteq Said /\ req \in [Req -> {"new", "queued", "sent", "replied"}]

(* The transport never stops trying in silence: without a connection it    *)
(* has a reconnect timer, or it has told the bridge, which then recovers.  *)
NeverIdle ==
  t.started /\ t.cur = 0 => t.reconnect \/ t.told \cap Failures # {}

(* No request waits for a dead connection: the one it was written to is    *)
(* up, or its end is still to be handled and rejects the request, whatever *)
(* late events of earlier connections did to the transport meanwhile; if   *)
(* not, the bridge has been told and the page drops the plane.             *)
PendingIsAnswerable ==
  \A x \in t.pending : net[x[2]] = "up" \/ <<"closed", x[2]>> \in ev
                        \/ t.told \cap Failures # {}

(* Every request is replied to, over any number of lost connections, or    *)
(* the bridge is told that the plane is gone.                              *)
RequestSettles ==
  \A r \in Req : req[r] \in {"queued", "sent"} ~>
                   req[r] = "replied" \/ t.told \cap Failures # {}
=============================================================================
