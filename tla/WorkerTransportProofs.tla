------------------------ MODULE WorkerTransportProofs -------------------------
(***************************************************************************)
(* Theorems about WorkerTransport, for any number of requests, queues of   *)
(* any length and any number of lost connections.                          *)
(***************************************************************************)
EXTENDS WorkerTransport, TLAPS


(* The bridge has been told that this transport is over. *)
Over(s) == s.told \cap Failures # {}

(* An operator that says s became r keeps these fields, and tells no less. *)
SameLink(s, r) ==
  /\ r.kind = s.kind /\ r.started = s.started /\ r.connect = s.connect
  /\ r.cur = s.cur /\ r.closedHandled = s.closedHandled /\ r.writer = s.writer
  /\ Over(s) => Over(r)

(* The connection is given up: nothing waits for it, or the bridge knows,  *)
(* and either trying goes on or the bridge knows.                          *)
Cut(s, r) ==
  /\ r.kind = s.kind /\ r.started = s.started /\ (r.connect = s.connect \/ Over(r))
  /\ r.connect => s.connect
  /\ r.cur = 0 /\ (r.kind = "wt" => r.writer = 0 /\ r.closedHandled)
  /\ Over(s) => Over(r)
  /\ r.pending = {} \/ Over(r)
  /\ \/ r.reconnect = s.reconnect /\ Over(r)
     \/ r.reconnect = (s.connect \/ s.reconnect)

---------------------------------------------------------------------------
(* What the operators of the worker and of its transport return            *)

LEMMA SetsType ==
  /\ <<>> \in Seq(Req) /\ {} \in SUBSET (Req \X Conn)
  /\ \A T \in SUBSET (Failures \cup {"ready"}) :
       /\ T \cup {"ready"} \in SUBSET (Failures \cup {"ready"})
       /\ T \cup {"closed"} \in SUBSET (Failures \cup {"ready"})
       /\ T \cup {"auth-failed"} \in SUBSET (Failures \cup {"ready"})
BY DEF Failures

(* Everything that waits is rejected. *)
LEMMA OnClosedResult ==
  ASSUME NEW s \in WorkerState, NEW w \in BOOLEAN, NEW r, r = onClosed(s, w)
  PROVE  /\ r \in WorkerState /\ SameLink(s, r) /\ r.reconnect = s.reconnect
         /\ r.pending = {} /\ (~w => Over(r))
<1> DEFINE said == IF w THEN s.told ELSE s.told \cup {"closed"}
<1>1. said \in SUBSET (Failures \cup {"ready"})
  BY SetsType DEF WorkerState
<1>2. s.told \subseteq said /\ (~w => "closed" \in said)
  OBVIOUS
<1>3. r = [s EXCEPT !.told = said, !.pending = {}, !.preOpen = <<>>]
  BY DEF onClosed
<1> HIDE DEF said
<1>4. r \in WorkerState
  BY <1>1, <1>3, SetsType DEF WorkerState
<1>5. r.told = said /\ r.pending = {} /\ r.reconnect = s.reconnect
  BY <1>3 DEF WorkerState
<1>6. /\ r.kind = s.kind /\ r.started = s.started /\ r.connect = s.connect
      /\ r.cur = s.cur /\ r.closedHandled = s.closedHandled /\ r.writer = s.writer
  BY <1>3 DEF WorkerState
<1> QED BY <1>2, <1>4, <1>5, <1>6 DEF SameLink, Over, Failures

(* The bridge is told that the token was refused. *)
LEMMA OnAuthFailedResult ==
  ASSUME NEW s \in WorkerState, NEW r, r = onAuthFailed(s)
  PROVE  /\ r \in WorkerState /\ SameLink(s, r) /\ r.reconnect = s.reconnect
         /\ r.pending = s.pending /\ Over(r)
<1> DEFINE said == s.told \cup {"auth-failed"}
<1>1. said \in SUBSET (Failures \cup {"ready"})
  BY SetsType DEF WorkerState
<1>2. s.told \subseteq said /\ "auth-failed" \in said
  OBVIOUS
<1>3. r = [s EXCEPT !.told = said]
  BY DEF onAuthFailed
<1> HIDE DEF said
<1>4. r \in WorkerState
  BY <1>1, <1>3 DEF WorkerState
<1>5. r.told = said /\ r.pending = s.pending /\ r.reconnect = s.reconnect
  BY <1>3 DEF WorkerState
<1>6. /\ r.kind = s.kind /\ r.started = s.started /\ r.connect = s.connect
      /\ r.cur = s.cur /\ r.closedHandled = s.closedHandled /\ r.writer = s.writer
  BY <1>3 DEF WorkerState
<1> QED BY <1>2, <1>4, <1>5, <1>6 DEF SameLink, Over, Failures

(* A transport that still wants to be connected has a timer. *)
LEMMA ScheduleResult ==
  ASSUME NEW s \in WorkerState, NEW r, r = scheduleReconnect(s)
  PROVE  /\ r \in WorkerState /\ SameLink(s, r) /\ r.pending = s.pending
         /\ r.reconnect = (s.connect \/ s.reconnect)
<1> DEFINE on == [s EXCEPT !.reconnect = TRUE]
<1>1. on \in WorkerState
  BY DEF WorkerState
<1>2. on.pending = s.pending /\ on.told = s.told /\ on.reconnect = TRUE
  BY DEF WorkerState
<1>3. /\ on.kind = s.kind /\ on.started = s.started /\ on.connect = s.connect
      /\ on.cur = s.cur /\ on.closedHandled = s.closedHandled /\ on.writer = s.writer
  BY DEF WorkerState
<1>4. s.connect \in BOOLEAN /\ s.reconnect \in BOOLEAN
  BY DEF WorkerState
<1>5. r = IF s.connect THEN on ELSE s
  BY DEF scheduleReconnect
<1> HIDE DEF on
<1>6. CASE s.connect
  BY <1>1, <1>2, <1>3, <1>5, <1>6 DEF SameLink, Over
<1>7. CASE ~s.connect
  BY <1>4, <1>5, <1>7 DEF SameLink, Over
<1> QED BY <1>6, <1>7

(* Frames are written to the connection that is open. *)
LEMMA SendFramesResult ==
  ASSUME NEW s \in WorkerState, NEW rs \in SUBSET Req, isOpen(s),
         NEW r, r = SendFrames(s, rs)
  PROVE  /\ r \in WorkerState /\ SameLink(s, r) /\ r.reconnect = s.reconnect
         /\ \E c \in Conn : /\ r.pending = s.pending \cup (rs \X {c})
                            /\ c = IF s.kind = "ws" THEN s.cur ELSE s.writer
                            /\ s.kind = "ws" => net[c] = "up"
<1> DEFINE used == IF s.kind = "ws" THEN s.cur ELSE s.writer
           all == s.pending \cup (rs \X {used})
<1>1. used \in Conn /\ (s.kind = "ws" => net[used] = "up")
  BY DEF isOpen, WorkerState
<1>2. all \in SUBSET (Req \X Conn)
  BY <1>1 DEF WorkerState
<1>3. r = [s EXCEPT !.pending = all]
  <2>1. {<<x, used>> : x \in rs} = rs \X {used}
    OBVIOUS
  <2> QED BY <2>1, Zenon DEF SendFrames
<1> HIDE DEF all
<1>4. r \in WorkerState
  BY <1>2, <1>3 DEF WorkerState
<1>5. r.told = s.told /\ r.pending = all /\ r.reconnect = s.reconnect
  BY <1>3 DEF WorkerState
<1>6. /\ r.kind = s.kind /\ r.started = s.started /\ r.connect = s.connect
      /\ r.cur = s.cur /\ r.closedHandled = s.closedHandled /\ r.writer = s.writer
  BY <1>3 DEF WorkerState
<1> QED BY <1>1, <1>4, <1>5, <1>6 DEF SameLink, Over, all

(* What was queued is sent on the connection that is open. *)
LEMMA OnReadyResult ==
  ASSUME NEW s \in WorkerState, NEW r, r = onReady(s)
  PROVE  /\ r \in WorkerState /\ SameLink(s, r) /\ r.reconnect = s.reconnect
         /\ \A x \in r.pending :
              \/ x \in s.pending
              \/ /\ x[2] = IF s.kind = "ws" THEN s.cur ELSE s.writer
                 /\ s.kind = "ws" => net[x[2]] = "up"
<1> DEFINE said == s.told \cup {"ready"}
           told == [s EXCEPT !.told = said, !.preOpen = <<>>]
           kept == [told EXCEPT !.preOpen = s.preOpen]
<1>1. said \in SUBSET (Failures \cup {"ready"}) /\ s.told \subseteq said
  BY SetsType DEF WorkerState
<1> HIDE DEF said
<1>2. told \in WorkerState
  BY <1>1, SetsType DEF WorkerState
<1>3. told.told = said /\ told.pending = s.pending /\ told.reconnect = s.reconnect
  BY DEF WorkerState
<1>4. /\ told.kind = s.kind /\ told.started = s.started /\ told.connect = s.connect
      /\ told.cur = s.cur /\ told.closedHandled = s.closedHandled
      /\ told.writer = s.writer /\ told.open = s.open
  BY DEF WorkerState
<1>5. kept \in WorkerState
  BY <1>2 DEF WorkerState
<1>6. kept.told = said /\ kept.pending = s.pending /\ kept.reconnect = s.reconnect
  BY <1>2, <1>3 DEF WorkerState
<1>7. /\ kept.kind = s.kind /\ kept.started = s.started /\ kept.connect = s.connect
      /\ kept.cur = s.cur /\ kept.closedHandled = s.closedHandled
      /\ kept.writer = s.writer
  BY <1>2, <1>4 DEF WorkerState
<1>8. r = IF isOpen(s) THEN SendFrames(told, Queued(s)) ELSE kept
  BY DEF onReady, said
<1> HIDE DEF told, kept
<1>9. Queued(s) \subseteq Req
  <2>1. s.preOpen \in Seq(Req)
    BY DEF WorkerState
  <2> QED BY <2>1 DEF Queued
<1>10. isOpen(s) => isOpen(told)
  BY <1>4 DEF isOpen
<1>11. CASE isOpen(s)
  <2>1. isOpen(told) /\ r = SendFrames(told, Queued(s)) /\ Queued(s) \in SUBSET Req
    BY <1>8, <1>9, <1>10, <1>11
  <2>2. r \in WorkerState /\ SameLink(told, r) /\ r.reconnect = told.reconnect
    BY <1>2, <2>1, SendFramesResult
  <2>3. PICK c \in Conn : /\ r.pending = told.pending \cup (Queued(s) \X {c})
                          /\ c = IF told.kind = "ws" THEN told.cur ELSE told.writer
                          /\ told.kind = "ws" => net[c] = "up"
    BY <1>2, <2>1, SendFramesResult
  <2>4. \A x \in Queued(s) \X {c} : x[2] = c
    OBVIOUS
  <2> QED BY <1>1, <1>3, <1>4, <2>2, <2>3, <2>4 DEF SameLink, Over
<1>12. CASE ~isOpen(s)
  BY <1>1, <1>5, <1>6, <1>7, <1>8, <1>12 DEF SameLink, Over
<1> QED BY <1>11, <1>12

(* The transport's fields of a connection that is down *)
LEMMA DownResult ==
  ASSUME NEW s \in WorkerState
  PROVE  /\ Down(s) \in WorkerState /\ Down(s).cur = 0 /\ Down(s).writer = 0
         /\ Down(s).kind = s.kind /\ Down(s).started = s.started
         /\ Down(s).connect = s.connect /\ Down(s).reconnect = s.reconnect
         /\ Down(s).told = s.told /\ Down(s).pending = s.pending
BY DEF Down, WorkerState

LEMMA FailTransportResult ==
  ASSUME NEW s \in WorkerState, NEW r, r = failTransport(s)
  PROVE  r \in WorkerState /\ (r = s \/ Cut(s, r))
<1> DEFINE down == Down(s)
           shut == [down EXCEPT !.failed = TRUE, !.closedHandled = TRUE]
           told == onClosed(shut, TRUE)
<1>1. down \in WorkerState
  BY DownResult
<1>2. shut \in WorkerState
  BY <1>1 DEF WorkerState
<1>3. /\ shut.cur = down.cur /\ shut.writer = down.writer /\ shut.kind = down.kind
      /\ shut.started = down.started /\ shut.connect = down.connect
      /\ shut.reconnect = down.reconnect /\ shut.told = down.told /\ shut.closedHandled
  BY <1>1 DEF WorkerState
<1>4. r = IF s.failed \/ ~s.connect THEN s ELSE scheduleReconnect(told)
  BY DEF failTransport
<1>5. /\ shut.cur = 0 /\ shut.writer = 0 /\ shut.kind = s.kind /\ shut.started = s.started
      /\ shut.connect = s.connect /\ shut.reconnect = s.reconnect /\ shut.told = s.told
  BY <1>3, DownResult
<1> HIDE DEF down, shut
<1>6. /\ told \in WorkerState /\ SameLink(shut, told) /\ told.reconnect = shut.reconnect
      /\ told.pending = {}
  BY <1>2, OnClosedResult
<1> HIDE DEF told
<1>7. CASE s.failed \/ ~s.connect
  BY <1>4, <1>7
<1>8. CASE ~(s.failed \/ ~s.connect)
  <2>1. /\ r \in WorkerState /\ SameLink(told, r) /\ r.pending = told.pending
        /\ r.reconnect = (told.connect \/ told.reconnect)
    BY <1>4, <1>6, <1>8, ScheduleResult
  <2> QED BY <1>3, <1>5, <1>6, <2>1 DEF Cut, SameLink, Over
<1> QED BY <1>7, <1>8

LEMMA HandleClosedResult ==
  ASSUME NEW s \in WorkerState, NEW r, r = handleClosed(s)
  PROVE  r \in WorkerState /\ ((r = s /\ (s.closedHandled \/ s.cur = 0)) \/ Cut(s, r))
<1> DEFINE down == Down(s)
           shut == [down EXCEPT !.closedHandled = TRUE, !.auth = FALSE]
           told == onClosed(shut, TRUE)
<1>1. down \in WorkerState
  BY DownResult
<1>2. shut \in WorkerState
  BY <1>1 DEF WorkerState
<1>3. /\ shut.cur = down.cur /\ shut.writer = down.writer /\ shut.kind = down.kind
      /\ shut.started = down.started /\ shut.connect = down.connect
      /\ shut.reconnect = down.reconnect /\ shut.told = down.told /\ shut.closedHandled
  BY <1>1 DEF WorkerState
<1>4. \/ r = s /\ (s.closedHandled \/ s.cur = 0)
      \/ r = onAuthFailed(shut)
      \/ r = scheduleReconnect(told)
  BY DEF handleClosed
<1>5. /\ shut.cur = 0 /\ shut.writer = 0 /\ shut.kind = s.kind /\ shut.started = s.started
      /\ shut.connect = s.connect /\ shut.reconnect = s.reconnect /\ shut.told = s.told
  BY <1>3, DownResult
<1> HIDE DEF down, shut
<1>6. /\ told \in WorkerState /\ SameLink(shut, told) /\ told.reconnect = shut.reconnect
      /\ told.pending = {}
  BY <1>2, OnClosedResult
<1> HIDE DEF told
<1>7. CASE r = s /\ (s.closedHandled \/ s.cur = 0)
  BY <1>7
<1>8. CASE r = onAuthFailed(shut)
  <2>1. r \in WorkerState /\ SameLink(shut, r) /\ r.reconnect = shut.reconnect /\ Over(r)
    BY <1>2, <1>8, OnAuthFailedResult
  <2> QED BY <1>3, <1>5, <2>1 DEF Cut, SameLink, Over
<1>9. CASE r = scheduleReconnect(told)
  <2>1. /\ r \in WorkerState /\ SameLink(told, r) /\ r.pending = told.pending
        /\ r.reconnect = (told.connect \/ told.reconnect)
    BY <1>6, <1>9, ScheduleResult
  <2> QED BY <1>3, <1>5, <1>6, <2>1 DEF Cut, SameLink, Over
<1> QED BY <1>4, <1>7, <1>8, <1>9

---------------------------------------------------------------------------
(* The inductive invariant *)

(* Trying ends only when the bridge has been told, and a reconnect timer   *)
(* is one of a transport that was connected before and is not now.         *)
Trying(s) ==
  /\ s.started /\ s.cur = 0 => s.reconnect \/ Over(s)
  /\ s.started /\ ~s.connect => Over(s)
  /\ s.reconnect => s.started /\ s.cur = 0
  /\ ~s.started => s.cur = 0 /\ ~s.connect

(* A WebTransport whose close was handled has neither connection nor       *)
(* writer and has rejected what it waited for, so the close events it then *)
(* ignores end nobody's connection.                                        *)
Shut(s) ==
  s.kind = "wt" =>
    /\ s.closedHandled <=> s.cur = 0
    /\ s.cur = 0 => s.writer = 0 /\ (s.pending = {} \/ Over(s))

(* What is waited for, and what a WebTransport writes to, is a connection  *)
(* that is up or whose end is still to be heard of.                        *)
Alive(c, n, e) == n[c] = "up" \/ <<"closed", c>> \in e
Answerable(s, n, e) ==
  /\ \A x \in s.pending : Alive(x[2], n, e) \/ Over(s)
  /\ s.kind = "wt" /\ s.writer # 0 => Alive(s.writer, n, e) \/ Over(s)

IInv == TypeOK /\ Trying(t) /\ Shut(t) /\ Answerable(t, net, ev)

Phases == {"none", "connecting", "up", "down"}

LEMMA RunsResult ==
  ASSUME TypeOK, NEW s, Runs(s)
  PROVE  t' = s /\ req' \in [Req -> {"new", "queued", "sent", "replied"}]
BY DEF TypeOK, Runs

(* A connection that is given up *)
LEMMA CutKeeps ==
  ASSUME NEW s \in WorkerState, NEW r \in WorkerState, Trying(s), Cut(s, r), NEW n, NEW e
  PROVE  Trying(r) /\ Shut(r) /\ Answerable(r, n, e)
<1>1. /\ s.connect \in BOOLEAN /\ s.reconnect \in BOOLEAN /\ s.started \in BOOLEAN
      /\ r.connect \in BOOLEAN /\ r.reconnect \in BOOLEAN /\ r.started \in BOOLEAN
      /\ r.closedHandled \in BOOLEAN
  BY DEF WorkerState
<1>2. Trying(r)
  BY <1>1 DEF Trying, Cut
<1>3. Shut(r)
  BY <1>1 DEF Shut, Cut
<1>4. Answerable(r, n, e)
  BY DEF Answerable, Cut
<1> QED BY <1>2, <1>3, <1>4

(* A connection that stays, with what is waited for or less of it, while   *)
(* no connection that was alive is forgotten                               *)
LEMMA LinkKeeps ==
  ASSUME NEW s \in WorkerState, NEW r \in WorkerState, Trying(s), Shut(s),
         SameLink(s, r), r.reconnect = s.reconnect,
         NEW n, NEW e, NEW n2, NEW e2, Answerable(s, n, e),
         \A c \in Conn : Alive(c, n, e) => Alive(c, n2, e2),
         \A x \in r.pending : \/ x \in s.pending
                              \/ (s.kind = "ws" \/ s.cur # 0) /\ Alive(x[2], n2, e2)
  PROVE  Trying(r) /\ Shut(r) /\ Answerable(r, n2, e2)
<1>1. Trying(r)
  BY DEF Trying, SameLink
<1>2. Shut(r)
  BY DEF Shut, SameLink
<1>3. \A x \in s.pending : x[2] \in Conn
  BY DEF WorkerState
<1>4. s.writer \in {0} \cup Conn
  BY DEF WorkerState
<1>5. Answerable(r, n2, e2)
  <2>1. \A x \in r.pending : Alive(x[2], n2, e2) \/ Over(r)
    BY <1>3 DEF Answerable, SameLink
  <2>2. r.kind = "wt" /\ r.writer # 0 => Alive(r.writer, n2, e2) \/ Over(r)
    BY <1>4 DEF Answerable, SameLink
  <2> QED BY <2>1, <2>2 DEF Answerable
<1> QED BY <1>1, <1>2, <1>5

LEMMA InitInv == Init => IInv
<1> SUFFICES ASSUME Init PROVE IInv
  OBVIOUS
<1>1. PICK kind \in Kinds :
        t = [kind |-> kind, started |-> FALSE, last |-> 2, cur |-> 0, connect |-> FALSE,
             open |-> FALSE, writer |-> 0, closedHandled |-> TRUE, failed |-> FALSE,
             auth |-> FALSE, orphan |-> FALSE, reconnect |-> FALSE,
             preOpen |-> <<>>, pending |-> {}, told |-> {}]
  BY DEF Init
<1>2. kind \in {"ws", "wt"}
  BY TransportAssumption DEF TransportAssumption
<1>3. t \in WorkerState
  BY <1>1, <1>2, SetsType DEF WorkerState, Conn
<1>4. Trying(t) /\ Shut(t) /\ Answerable(t, net, ev)
  BY <1>1 DEF Trying, Shut, Answerable
<1>5. TypeOK
  BY <1>3 DEF Init, TypeOK
<1> QED BY <1>4, <1>5 DEF IInv

---------------------------------------------------------------------------
(* Every action preserves it. *)

(* A name that is free is nobody's connection that is alive, so the new    *)
(* connection of that name is awaited by nothing.                          *)
LEMMA DoConnectInv ==
  ASSUME TypeOK, NEW s \in WorkerState, DoConnect(s),
         s.started, s.cur = 0, ~s.reconnect, s.connect \/ Over(s),
         Shut(s), Answerable(s, net, ev)
  PROVE  IInv'
<1> DEFINE c == Other(s.last)
           new == [s EXCEPT !.cur = c, !.last = c, !.closedHandled = FALSE, !.failed = FALSE]
           none == [s EXCEPT !.cur = 0, !.closedHandled = TRUE, !.failed = FALSE]
<1>1. c \in Conn
  BY DEF Other, Conn, WorkerState
<1> HIDE DEF c
<1>2. CASE /\ Free(c) /\ Runs(new)
           /\ net' = [net EXCEPT ![c] = "connecting"] /\ ev' = ev
  <2>1. new \in WorkerState
    BY <1>1 DEF WorkerState
  <2>2. /\ new.cur = c /\ new.closedHandled = FALSE /\ new.kind = s.kind
        /\ new.started = s.started /\ new.connect = s.connect /\ new.told = s.told
        /\ new.reconnect = s.reconnect /\ new.pending = s.pending /\ new.writer = s.writer
    BY DEF WorkerState
  <2> HIDE DEF new
  <2>3. t' = new /\ req' \in [Req -> {"new", "queued", "sent", "replied"}]
    BY <1>2, RunsResult
  <2>4. c # 0
    BY <1>1 DEF Conn
  <2>5. Trying(new) /\ Shut(new)
    BY <2>2, <2>4 DEF Trying, Shut, Over
  <2>6. ~Alive(c, net, ev)
    BY <1>2 DEF Free, Alive
  <2>7. \A x \in Conn : Alive(x, net, ev) => Alive(x, net', ev')
    BY <1>2, <2>6 DEF Alive, TypeOK
  <2>8. (\A x \in s.pending : x[2] \in Conn) /\ s.writer \in {0} \cup Conn
    BY DEF WorkerState
  <2>9. Answerable(new, net', ev')
    BY <2>2, <2>7, <2>8 DEF Answerable, Over
  <2>10. net' \in [Conn -> Phases] /\ ev' \subseteq Said
    BY <1>2 DEF TypeOK, Phases
  <2> QED BY <2>1, <2>3, <2>5, <2>9, <2>10 DEF IInv, TypeOK, Phases
<1>3. CASE s.kind = "wt" /\ Runs(onClosed(none, FALSE)) /\ UNCHANGED <<net, ev>>
  <2>1. none \in WorkerState
    BY DEF WorkerState
  <2>2. /\ none.cur = 0 /\ none.closedHandled = TRUE /\ none.kind = s.kind
        /\ none.started = s.started /\ none.connect = s.connect
        /\ none.reconnect = s.reconnect /\ none.writer = s.writer
    BY DEF WorkerState
  <2> DEFINE r == onClosed(none, FALSE)
  <2> HIDE DEF none
  <2>3. /\ r \in WorkerState /\ SameLink(none, r) /\ r.reconnect = none.reconnect
        /\ r.pending = {} /\ Over(r)
    BY <2>1, OnClosedResult
  <2> HIDE DEF r
  <2>4. t' = r /\ req' \in [Req -> {"new", "queued", "sent", "replied"}]
    BY <1>3, RunsResult DEF r
  <2>5. s.writer = 0
    BY <1>3 DEF Shut
  <2>6. Trying(r) /\ Shut(r) /\ Answerable(r, net', ev')
    BY <2>2, <2>3, <2>5 DEF Trying, Shut, Answerable, SameLink
  <2> QED BY <1>3, <2>3, <2>4, <2>6 DEF IInv, TypeOK
<1> QED BY <1>2, <1>3 DEF DoConnect, c

LEMMA ConnectInv == IInv /\ Connect => IInv'
<1> SUFFICES ASSUME IInv, Connect PROVE IInv'
  OBVIOUS
<1> DEFINE s == [t EXCEPT !.started = TRUE, !.connect = TRUE]
<1>1. s \in WorkerState
  BY DEF IInv, TypeOK, WorkerState
<1>2. /\ s.started /\ s.connect /\ s.cur = t.cur /\ s.reconnect = t.reconnect
      /\ s.kind = t.kind /\ s.told = t.told /\ s.pending = t.pending
      /\ s.writer = t.writer /\ s.closedHandled = t.closedHandled
  BY DEF IInv, TypeOK, WorkerState
<1> HIDE DEF s
<1>3. ~t.started /\ DoConnect(s)
  BY DEF Connect, s
<1>4. t.cur = 0 /\ ~t.reconnect
  BY <1>3 DEF IInv, Trying
<1>5. Shut(s) /\ Answerable(s, net, ev)
  BY <1>2 DEF IInv, Shut, Answerable, Over
<1> QED BY <1>1, <1>2, <1>3, <1>4, <1>5, DoConnectInv DEF IInv

LEMMA ReconnectInv == IInv /\ Reconnect => IInv'
<1> SUFFICES ASSUME IInv, Reconnect PROVE IInv'
  OBVIOUS
<1> DEFINE s == [t EXCEPT !.reconnect = FALSE]
<1>1. s \in WorkerState
  BY DEF IInv, TypeOK, WorkerState
<1>2. /\ s.started = t.started /\ s.connect = t.connect /\ s.cur = t.cur
      /\ s.reconnect = FALSE /\ s.kind = t.kind /\ s.told = t.told
      /\ s.pending = t.pending /\ s.writer = t.writer
      /\ s.closedHandled = t.closedHandled
  BY DEF IInv, TypeOK, WorkerState
<1> HIDE DEF s
<1>3. t.reconnect /\ DoConnect(s)
  BY DEF Reconnect, s
<1>4. t.cur = 0 /\ t.started /\ (t.connect \/ Over(t))
  BY <1>3 DEF IInv, Trying
<1>5. Shut(s) /\ Answerable(s, net, ev) /\ (s.connect \/ Over(s))
  BY <1>2, <1>4 DEF IInv, Shut, Answerable, Over
<1> QED BY <1>1, <1>2, <1>3, <1>4, <1>5, DoConnectInv DEF IInv

(* A step that gives the connection up *)
LEMMA CutInv ==
  ASSUME IInv, NEW r \in WorkerState, Cut(t, r), Runs(r),
         net' \in [Conn -> Phases], ev' \subseteq Said
  PROVE  IInv'
<1>1. t' = r /\ req' \in [Req -> {"new", "queued", "sent", "replied"}]
  BY RunsResult DEF IInv
<1>2. Trying(r) /\ Shut(r) /\ Answerable(r, net', ev')
  BY CutKeeps DEF IInv, TypeOK
<1> QED BY <1>1, <1>2 DEF IInv, TypeOK, Phases

(* A step that keeps it, from a state s that differs from the worker's in  *)
(* what the invariant does not see                                         *)
LEMMA LinkFromInv ==
  ASSUME NEW s \in WorkerState, Trying(s), Shut(s), Answerable(s, net, ev),
         NEW r \in WorkerState, t' = r,
         req' \in [Req -> {"new", "queued", "sent", "replied"}],
         SameLink(s, r), r.reconnect = s.reconnect,
         net' \in [Conn -> Phases], ev' \subseteq Said,
         \A c \in Conn : Alive(c, net, ev) => Alive(c, net', ev'),
         \A x \in r.pending : \/ x \in s.pending
                              \/ (s.kind = "ws" \/ s.cur # 0) /\ Alive(x[2], net', ev')
  PROVE  IInv'
<1>1. Trying(r) /\ Shut(r) /\ Answerable(r, net', ev')
  BY LinkKeeps
<1> QED BY <1>1 DEF IInv, TypeOK, Phases

LEMMA LinkInv ==
  ASSUME IInv, NEW r \in WorkerState, t' = r,
         req' \in [Req -> {"new", "queued", "sent", "replied"}],
         SameLink(t, r), r.reconnect = t.reconnect,
         net' \in [Conn -> Phases], ev' \subseteq Said,
         \A c \in Conn : Alive(c, net, ev) => Alive(c, net', ev'),
         \A x \in r.pending : \/ x \in t.pending
                              \/ (t.kind = "ws" \/ t.cur # 0) /\ Alive(x[2], net', ev')
  PROVE  IInv'
<1>1. t \in WorkerState /\ Trying(t) /\ Shut(t) /\ Answerable(t, net, ev)
  BY DEF IInv, TypeOK
<1> QED BY <1>1, LinkFromInv

LEMMA WsOpenInv ==
  ASSUME IInv, NEW c \in Conn, WsOpen(c) PROVE IInv'
<1> DEFINE r == onReady(t)
<1>1. t \in WorkerState /\ TypeOK
  BY DEF IInv, TypeOK
<1>2. /\ r \in WorkerState /\ SameLink(t, r) /\ r.reconnect = t.reconnect
      /\ \A x \in r.pending :
           \/ x \in t.pending
           \/ /\ x[2] = IF t.kind = "ws" THEN t.cur ELSE t.writer
              /\ t.kind = "ws" => net[x[2]] = "up"
  BY <1>1, OnReadyResult
<1> HIDE DEF r
<1>3. Runs(r) /\ t.kind = "ws" /\ ev' = ev \ {<<"ready", c>>} /\ UNCHANGED net
  BY DEF WsOpen, r
<1>4. t' = r /\ req' \in [Req -> {"new", "queued", "sent", "replied"}]
  BY <1>1, <1>3, RunsResult
<1>5. \A x \in Conn : Alive(x, net, ev) => Alive(x, net', ev')
  BY <1>3 DEF Alive
<1>6. \A x \in r.pending : x \in t.pending \/ (t.kind = "ws" /\ Alive(x[2], net', ev'))
  BY <1>2, <1>3 DEF Alive
<1>7. net' \in [Conn -> Phases] /\ ev' \subseteq Said
  BY <1>1, <1>3 DEF TypeOK, Phases
<1> QED BY <1>2, <1>4, <1>5, <1>6, <1>7, LinkInv

LEMMA WsCloseInv ==
  ASSUME IInv, NEW c \in Conn, WsClose(c) PROVE IInv'
<1> DEFINE shut == [t EXCEPT !.cur = 0]
           off == [shut EXCEPT !.connect = FALSE]
           told == onClosed(shut, TRUE)
<1>1. t \in WorkerState /\ TypeOK
  BY DEF IInv, TypeOK
<1>2. shut \in WorkerState
  BY <1>1 DEF WorkerState
<1>3. /\ shut.kind = t.kind /\ shut.started = t.started /\ shut.connect = t.connect
      /\ shut.cur = 0 /\ shut.told = t.told /\ shut.reconnect = t.reconnect
  BY <1>1 DEF WorkerState
<1> HIDE DEF shut
<1>4. off \in WorkerState
  BY <1>2 DEF WorkerState
<1>5. /\ off.kind = shut.kind /\ off.started = shut.started /\ off.connect = FALSE
      /\ off.cur = shut.cur /\ off.told = shut.told /\ off.reconnect = shut.reconnect
  BY <1>2 DEF WorkerState
<1> HIDE DEF off
<1>6. /\ t.kind = "ws" /\ ev' = ev \ {<<"closed", c>>} /\ UNCHANGED net
      /\ Runs(onAuthFailed(off)) \/ Runs(scheduleReconnect(told))
  BY DEF WsClose, shut, off
<1>7. net' \in [Conn -> Phases] /\ ev' \subseteq Said
  BY <1>1, <1>6 DEF TypeOK, Phases
<1>8. CASE Runs(onAuthFailed(off))
  <2> DEFINE r == onAuthFailed(off)
  <2>1. r \in WorkerState /\ SameLink(off, r) /\ r.reconnect = off.reconnect /\ Over(r)
    BY <1>4, OnAuthFailedResult
  <2> HIDE DEF r
  <2>2. Cut(t, r)
    BY <1>3, <1>5, <1>6, <2>1 DEF Cut, SameLink
  <2> QED BY <1>7, <1>8, <2>1, <2>2, CutInv DEF r
<1>9. CASE Runs(scheduleReconnect(told))
  <2>1. told \in WorkerState /\ SameLink(shut, told) /\ told.reconnect = shut.reconnect
        /\ told.pending = {}
    BY <1>2, OnClosedResult
  <2> HIDE DEF told
  <2> DEFINE r == scheduleReconnect(told)
  <2>2. /\ r \in WorkerState /\ SameLink(told, r) /\ r.pending = told.pending
        /\ r.reconnect = (told.connect \/ told.reconnect)
    BY <2>1, ScheduleResult
  <2> HIDE DEF r
  <2>3. Cut(t, r)
    BY <1>3, <1>6, <2>1, <2>2 DEF Cut, SameLink, Over
  <2> QED BY <1>7, <1>9, <2>2, <2>3, CutInv DEF r
<1> QED BY <1>6, <1>8, <1>9

(* A failed write or stream: the session is closed, and its close event is *)
(* on its way.                                                             *)
LEMMA FailTransportInv ==
  ASSUME IInv, NEW e, e \subseteq {"attach"} \X Conn, FailTransport(e) PROVE IInv'
<1> DEFINE r == failTransport(t)
           cut == {c \in ClosesSession(t) : net[c] # "down"}
<1>1. t \in WorkerState /\ TypeOK
  BY DEF IInv, TypeOK
<1>2. r \in WorkerState /\ (r = t \/ Cut(t, r))
  BY <1>1, FailTransportResult
<1>3. cut \subseteq Conn
  BY <1>1 DEF ClosesSession, WorkerState
<1> HIDE DEF r, cut
<1>4. /\ Runs(r) /\ net' = [c \in Conn |-> IF c \in cut THEN "down" ELSE net[c]]
      /\ ev' = (ev \ e) \cup {<<"closed", c>> : c \in cut}
  BY DEF FailTransport, r, cut
<1>5. net' \in [Conn -> Phases] /\ ev' \subseteq Said
  <2>1. {<<"closed", c>> : c \in cut} \subseteq Said
    BY <1>3 DEF Said
  <2> QED BY <1>1, <1>4, <2>1 DEF TypeOK, Phases
<1>6. CASE Cut(t, r)
  BY <1>2, <1>4, <1>5, <1>6, CutInv
<1>7. CASE r = t
  <2>1. \A c \in Conn : Alive(c, net, ev) => Alive(c, net', ev')
    BY <1>4 DEF Alive
  <2>2. t' = r /\ req' \in [Req -> {"new", "queued", "sent", "replied"}]
    BY <1>1, <1>4, RunsResult
  <2>3. SameLink(t, r) /\ r.reconnect = t.reconnect
    BY <1>7 DEF SameLink
  <2> QED BY <1>2, <1>5, <1>7, <2>1, <2>2, <2>3, LinkInv
<1> QED BY <1>2, <1>6, <1>7

LEMMA WtReadyInv ==
  ASSUME IInv, NEW c \in Conn, WtReady(c) PROVE IInv'
<1> DEFINE both == t.orphan \/ t.auth
           up == [t EXCEPT !.open = TRUE, !.orphan = both, !.auth = TRUE]
<1>1. t \in WorkerState /\ TypeOK
  BY DEF IInv, TypeOK
<1> HIDE DEF both
<1>2. up \in WorkerState
  <2>1. both \in BOOLEAN
    BY DEF both
  <2> QED BY <1>1, <2>1 DEF WorkerState
<1>3. SameLink(t, up) /\ up.reconnect = t.reconnect /\ up.pending = t.pending
  BY <1>1 DEF WorkerState, SameLink, Over
<1> HIDE DEF up
<1>4. /\ UNCHANGED net
      /\ \/ Runs(t) /\ ev' = ev \ {<<"ready", c>>}
         \/ t.cur # 0 /\ Runs(up) /\ ev' = (ev \ {<<"ready", c>>}) \cup {<<"attach", t.cur>>}
  BY DEF WtReady, up, both
<1>5. net' \in [Conn -> Phases] /\ ev' \subseteq Said
  BY <1>1, <1>4 DEF TypeOK, Phases, Said, WorkerState
<1>6. \A x \in Conn : Alive(x, net, ev) => Alive(x, net', ev')
  BY <1>4 DEF Alive
<1>7. PICK r \in {t, up} : t' = r /\ req' \in [Req -> {"new", "queued", "sent", "replied"}]
  BY <1>1, <1>4, RunsResult
<1>8. /\ r \in WorkerState /\ SameLink(t, r) /\ r.reconnect = t.reconnect
      /\ r.pending = t.pending
  BY <1>1, <1>2, <1>3, <1>7 DEF SameLink
<1> QED BY <1>5, <1>6, <1>7, <1>8, LinkInv

LEMMA WtRefusedInv ==
  ASSUME IInv, NEW c \in Conn, WtRefused(c) PROVE IInv'
<1> DEFINE down == Down(t)
           shut == [down EXCEPT !.closedHandled = TRUE]
           r == onAuthFailed(shut)
<1>1. t \in WorkerState /\ TypeOK
  BY DEF IInv, TypeOK
<1>2. down \in WorkerState
  BY <1>1, DownResult
<1>3. shut \in WorkerState
  BY <1>2 DEF WorkerState
<1>4. /\ shut.cur = down.cur /\ shut.writer = down.writer /\ shut.kind = down.kind
      /\ shut.started = down.started /\ shut.connect = down.connect
      /\ shut.reconnect = down.reconnect /\ shut.told = down.told /\ shut.closedHandled
  BY <1>2 DEF WorkerState
<1>5. /\ down.cur = 0 /\ down.writer = 0 /\ down.kind = t.kind /\ down.started = t.started
      /\ down.connect = t.connect /\ down.reconnect = t.reconnect /\ down.told = t.told
  BY <1>1, DownResult
<1> HIDE DEF down, shut
<1>6. r \in WorkerState /\ SameLink(shut, r) /\ r.reconnect = shut.reconnect /\ Over(r)
  BY <1>3, OnAuthFailedResult
<1> HIDE DEF r
<1>7. Runs(r) /\ ev' = ev \ {<<"refused", c>>} /\ UNCHANGED net
  BY DEF WtRefused, r, shut, down
<1>8. Cut(t, r)
  BY <1>4, <1>5, <1>6 DEF Cut, SameLink
<1>9. net' \in [Conn -> Phases] /\ ev' \subseteq Said
  BY <1>1, <1>7 DEF TypeOK, Phases
<1> QED BY <1>6, <1>7, <1>8, <1>9, CutInv

(* The stream of a connection that is up becomes the writer, and what was  *)
(* queued is sent on it.                                                   *)
LEMMA AttachedInv ==
  ASSUME IInv, NEW c \in Conn, t.cur # 0, net[c] = "up", UNCHANGED net,
         ev' = ev \ {<<"attach", c>>},
         Runs(onReady([t EXCEPT !.auth = FALSE, !.writer = c]))
  PROVE  IInv'
<1> DEFINE s == [t EXCEPT !.auth = FALSE, !.writer = c]
           r == onReady(s)
<1>1. t \in WorkerState /\ TypeOK
  BY DEF IInv, TypeOK
<1>2. s \in WorkerState
  BY <1>1 DEF WorkerState
<1>3. /\ s.kind = t.kind /\ s.started = t.started /\ s.connect = t.connect
      /\ s.cur = t.cur /\ s.closedHandled = t.closedHandled /\ s.writer = c
      /\ s.told = t.told /\ s.reconnect = t.reconnect /\ s.pending = t.pending
  BY <1>1 DEF WorkerState
<1> HIDE DEF s
<1>4. /\ r \in WorkerState /\ SameLink(s, r) /\ r.reconnect = s.reconnect
      /\ \A x \in r.pending :
           \/ x \in s.pending
           \/ /\ x[2] = IF s.kind = "ws" THEN s.cur ELSE s.writer
              /\ s.kind = "ws" => net[x[2]] = "up"
  BY <1>2, OnReadyResult
<1> HIDE DEF r
<1>5. t' = r /\ req' \in [Req -> {"new", "queued", "sent", "replied"}]
  BY <1>1, RunsResult DEF r, s
<1>6. Trying(s) /\ Shut(s)
  BY <1>3 DEF IInv, Trying, Shut, Over
<1>7. Alive(c, net, ev)
  BY DEF Alive
<1>8. Answerable(s, net, ev)
  BY <1>3, <1>7 DEF IInv, Answerable, Over
<1>9. \A x \in Conn : Alive(x, net, ev) => Alive(x, net', ev')
  BY DEF Alive
<1>10. \A x \in r.pending : \/ x \in s.pending
                            \/ (s.kind = "ws" \/ s.cur # 0) /\ Alive(x[2], net', ev')
  BY <1>3, <1>4 DEF Alive
<1>11. r \in WorkerState /\ SameLink(s, r) /\ r.reconnect = s.reconnect
  BY <1>4
<1>12. net' \in [Conn -> Phases] /\ ev' \subseteq Said
  BY <1>1 DEF TypeOK, Phases
<1> QED BY <1>2, <1>5, <1>6, <1>8, <1>9, <1>10, <1>11, <1>12, LinkFromInv

LEMMA WtAttachedInv ==
  ASSUME IInv, NEW c \in Conn, WtAttached(c) PROVE IInv'
<1> DEFINE up == [t EXCEPT !.auth = FALSE, !.writer = c]
<1>1. t \in WorkerState /\ TypeOK
  BY DEF IInv, TypeOK
<1>2. \/ /\ net[c] = "up" /\ UNCHANGED net /\ ev' = ev \ {<<"attach", c>>}
         /\ Runs(IF t.cur = 0 THEN t ELSE onReady(up))
      \/ FailTransport({<<"attach", c>>})
  BY DEF WtAttached
<1>3. CASE FailTransport({<<"attach", c>>})
  <2>1. {<<"attach", c>>} \subseteq {"attach"} \X Conn
    OBVIOUS
  <2> QED BY <1>3, <2>1, FailTransportInv
<1>4. CASE /\ net[c] = "up" /\ UNCHANGED net /\ ev' = ev \ {<<"attach", c>>}
           /\ t.cur = 0 /\ Runs(t)
  <2>1. t' = t /\ req' \in [Req -> {"new", "queued", "sent", "replied"}]
    BY <1>1, <1>4, RunsResult
  <2>2. SameLink(t, t)
    BY DEF SameLink
  <2>3. \A x \in Conn : Alive(x, net, ev) => Alive(x, net', ev')
    BY <1>4 DEF Alive
  <2>4. net' \in [Conn -> Phases] /\ ev' \subseteq Said
    BY <1>1, <1>4 DEF TypeOK, Phases
  <2> QED BY <1>1, <2>1, <2>2, <2>3, <2>4, LinkInv
<1>5. CASE /\ net[c] = "up" /\ UNCHANGED net /\ ev' = ev \ {<<"attach", c>>}
           /\ t.cur # 0 /\ Runs(onReady(up))
  BY <1>5, AttachedInv
<1> QED BY <1>2, <1>3, <1>4, <1>5

(* The end of a connection is heard of: a WebTransport that handled its    *)
(* close already waits for nothing; any other gives its connection up.     *)
LEMMA WtClosedInv ==
  ASSUME IInv, NEW c \in Conn, WtClosed(c) PROVE IInv'
<1> DEFINE r == handleClosed(t)
<1>1. t \in WorkerState /\ TypeOK
  BY DEF IInv, TypeOK
<1>2. r \in WorkerState /\ ((r = t /\ (t.closedHandled \/ t.cur = 0)) \/ Cut(t, r))
  BY <1>1, HandleClosedResult
<1> HIDE DEF r
<1>3. /\ t.kind = "wt" /\ Runs(r) /\ ev' = ev \ {<<"closed", c>>} /\ UNCHANGED net
  BY DEF WtClosed, r
<1>4. net' \in [Conn -> Phases] /\ ev' \subseteq Said
  BY <1>1, <1>3 DEF TypeOK, Phases
<1>5. CASE Cut(t, r)
  BY <1>2, <1>3, <1>4, <1>5, CutInv
<1>6. CASE r = t /\ (t.closedHandled \/ t.cur = 0)
  <2>1. t' = t /\ req' \in [Req -> {"new", "queued", "sent", "replied"}]
    BY <1>1, <1>3, <1>6, RunsResult
  <2>2. t.writer = 0 /\ (t.pending = {} \/ Over(t))
    BY <1>1, <1>3, <1>6 DEF IInv, Shut
  <2>3. Answerable(t, net', ev')
    BY <2>2 DEF Answerable
  <2> QED BY <1>1, <1>4, <2>1, <2>3 DEF IInv, TypeOK, Phases
<1> QED BY <1>2, <1>5, <1>6

LEMMA WriteFailsInv == IInv /\ WriteFails => IInv'
<1> SUFFICES ASSUME IInv, WriteFails PROVE IInv'
  OBVIOUS
<1>1. FailTransport({}) /\ {} \subseteq {"attach"} \X Conn
  BY DEF WriteFails
<1> QED BY <1>1, FailTransportInv

LEMMA AuthTimerInv == IInv /\ AuthTimer => IInv'
<1> SUFFICES ASSUME IInv, AuthTimer PROVE IInv'
  OBVIOUS
<1> DEFINE one == [t EXCEPT !.auth = FALSE]
           two == [t EXCEPT !.auth = FALSE, !.orphan = t.auth]
<1>1. t \in WorkerState /\ TypeOK
  BY DEF IInv, TypeOK
<1>2. one \in WorkerState /\ two \in WorkerState
  <2>1. t.auth \in BOOLEAN
    BY <1>1 DEF WorkerState
  <2> QED BY <1>1, <2>1 DEF WorkerState
<1>3. /\ SameLink(t, one) /\ one.reconnect = t.reconnect /\ one.pending = t.pending
      /\ SameLink(t, two) /\ two.reconnect = t.reconnect /\ two.pending = t.pending
  BY <1>1 DEF WorkerState, SameLink, Over
<1> HIDE DEF one, two
<1>4. t' \in {one, two} /\ UNCHANGED <<net, ev, req>>
  BY DEF AuthTimer, one, two
<1>5. PICK r \in {one, two} : t' = r
  BY <1>4
<1>6. /\ r \in WorkerState /\ SameLink(t, r) /\ r.reconnect = t.reconnect
      /\ r.pending = t.pending
  BY <1>2, <1>3, <1>5
<1>7. \A c \in Conn : Alive(c, net, ev) => Alive(c, net', ev')
  BY <1>4 DEF Alive
<1>8. /\ req' \in [Req -> {"new", "queued", "sent", "replied"}]
      /\ net' \in [Conn -> Phases] /\ ev' \subseteq Said
  BY <1>1, <1>4 DEF TypeOK, Phases
<1> QED BY <1>5, <1>6, <1>7, <1>8, LinkInv

(* A frame is written only to a connection that is alive. *)
LEMMA SendInv ==
  ASSUME IInv, NEW x \in Req, Send(x) PROVE IInv'
<1> DEFINE sent == SendFrames(t, {x})
           more == Append(t.preOpen, x)
           queued == [t EXCEPT !.preOpen = more]
<1>1. t \in WorkerState /\ TypeOK
  BY DEF IInv, TypeOK
<1>2. UNCHANGED <<net, ev>>
  BY DEF Send
<1>3. /\ req' \in [Req -> {"new", "queued", "sent", "replied"}]
      /\ net' \in [Conn -> Phases] /\ ev' \subseteq Said
  BY <1>1 DEF Send, TypeOK, Phases
<1>4. \A c \in Conn : Alive(c, net, ev) => Alive(c, net', ev')
  BY <1>2 DEF Alive
<1>5. \/ isOpen(t) /\ t' = sent
      \/ t' = queued
      \/ t' = t
  BY DEF Send
<1>6. CASE isOpen(t) /\ t' = sent
  <2> DEFINE r == sent
  <2>1. {x} \in SUBSET Req
    OBVIOUS
  <2>2. r \in WorkerState /\ SameLink(t, r) /\ r.reconnect = t.reconnect
    BY <1>1, <1>6, <2>1, SendFramesResult
  <2>3. PICK c \in Conn : /\ r.pending = t.pending \cup ({x} \X {c})
                          /\ c = IF t.kind = "ws" THEN t.cur ELSE t.writer
                          /\ t.kind = "ws" => net[c] = "up"
    BY <1>1, <1>6, <2>1, SendFramesResult
  <2> HIDE DEF r, sent
  <2>4. CASE t.kind = "ws"
    <3>1. Alive(c, net', ev')
      BY <1>2, <2>3, <2>4 DEF Alive
    <3>2. \A y \in r.pending : y \in t.pending \/ (t.kind = "ws" /\ Alive(y[2], net', ev'))
      BY <2>3, <2>4, <3>1
    <3> QED BY <1>3, <1>4, <1>6, <2>2, <3>2, LinkInv DEF r
  <2>5. CASE t.kind # "ws"
    <3>1. t.kind = "wt" /\ c = t.writer /\ c # 0
      BY <1>1, <2>3, <2>5 DEF WorkerState, Conn
    <3>2. t.cur # 0
      BY <3>1 DEF IInv, Shut
    <3>3. Alive(c, net, ev) \/ Over(t)
      BY <3>1 DEF IInv, Answerable
    <3>4. CASE Alive(c, net, ev)
      <4>1. \A y \in r.pending : y \in t.pending \/ (t.cur # 0 /\ Alive(y[2], net', ev'))
        BY <1>4, <2>3, <3>2, <3>4
      <4> QED BY <1>3, <1>4, <1>6, <2>2, <4>1, LinkInv DEF r
    <3>5. CASE Over(t)
      <4>1. Over(r) /\ Trying(r) /\ Shut(r)
        BY <2>2, <3>2, <3>5 DEF IInv, Trying, Shut, SameLink
      <4>2. Answerable(r, net', ev')
        BY <4>1 DEF Answerable
      <4> QED BY <1>3, <1>6, <2>2, <4>1, <4>2 DEF IInv, TypeOK, Phases, r
    <3> QED BY <3>3, <3>4, <3>5
  <2> QED BY <2>4, <2>5
<1>7. CASE t' = queued
  <2>1. t.preOpen \in Seq(Req)
    BY <1>1 DEF WorkerState
  <2>2. more \in Seq(Req)
    BY <2>1
  <2> HIDE DEF more
  <2>3. queued \in WorkerState
    BY <1>1, <2>2 DEF WorkerState
  <2>4. SameLink(t, queued) /\ queued.reconnect = t.reconnect /\ queued.pending = t.pending
    BY <1>1 DEF WorkerState, SameLink, Over
  <2> HIDE DEF queued
  <2> QED BY <1>3, <1>4, <1>7, <2>3, <2>4, LinkInv
<1>8. CASE t' = t
  <2>1. SameLink(t, t)
    BY DEF SameLink
  <2> QED BY <1>1, <1>3, <1>4, <1>8, <2>1, LinkInv
<1> QED BY <1>5, <1>6, <1>7, <1>8

(* A request is answered, or its own deadline rejects it. *)
LEMMA SettledInv ==
  ASSUME IInv, NEW x \in Req, Answered(x) \/ Deadline(x) PROVE IInv'
<1> DEFINE fewer == {y \in t.pending : y[1] # x}
           r == [t EXCEPT !.pending = fewer]
<1>1. t \in WorkerState /\ TypeOK
  BY DEF IInv, TypeOK
<1>2. fewer \in SUBSET (Req \X Conn) /\ fewer \subseteq t.pending
  BY <1>1 DEF WorkerState
<1>3. Runs(r) /\ UNCHANGED <<net, ev>>
  BY DEF Answered, Deadline
<1> HIDE DEF fewer
<1>4. r \in WorkerState
  BY <1>1, <1>2 DEF WorkerState
<1>5. SameLink(t, r) /\ r.reconnect = t.reconnect /\ r.pending = fewer
  BY <1>1 DEF WorkerState, SameLink, Over
<1> HIDE DEF r
<1>6. t' = r /\ req' \in [Req -> {"new", "queued", "sent", "replied"}]
  BY <1>1, <1>3, RunsResult
<1>7. \A c \in Conn : Alive(c, net, ev) => Alive(c, net', ev')
  BY <1>3 DEF Alive
<1>8. net' \in [Conn -> Phases] /\ ev' \subseteq Said
  BY <1>1, <1>3 DEF TypeOK, Phases
<1> QED BY <1>2, <1>4, <1>5, <1>6, <1>7, <1>8, LinkInv

(* What the network does: an end that is not heard of yet is an event. *)
LEMMA NetworkInv ==
  ASSUME IInv, NEW c \in Conn, Settles(c) \/ Drops(c) PROVE IInv'
<1>1. t \in WorkerState /\ TypeOK
  BY DEF IInv, TypeOK
<1>2. UNCHANGED <<t, req>>
  BY DEF Settles, Drops
<1>3. net' \in [Conn -> Phases] /\ ev' \subseteq Said
  BY <1>1 DEF Settles, Drops, TypeOK, Phases, Said
<1>4. \A x \in Conn : Alive(x, net, ev) => Alive(x, net', ev')
  BY <1>1 DEF Settles, Drops, TypeOK, Alive
<1>5. SameLink(t, t) /\ t' = t
  BY <1>2 DEF SameLink
<1>6. req' \in [Req -> {"new", "queued", "sent", "replied"}]
  BY <1>1, <1>2 DEF TypeOK
<1> QED BY <1>1, <1>3, <1>4, <1>5, <1>6, LinkInv

LEMMA NextInv == IInv /\ [Next]_vars => IInv'
<1> SUFFICES ASSUME IInv, [Next]_vars PROVE IInv'
  OBVIOUS
<1>1. CASE Connect
  BY <1>1, ConnectInv
<1>2. CASE Reconnect
  BY <1>2, ReconnectInv
<1>3. CASE WriteFails
  BY <1>3, WriteFailsInv
<1>4. CASE AuthTimer
  BY <1>4, AuthTimerInv
<1>5. CASE \E c \in Conn : Event(c)
  BY <1>5, WsOpenInv, WsCloseInv, WtReadyInv, WtRefusedInv, WtAttachedInv, WtClosedInv
     DEF Event
<1>6. CASE \E c \in Conn : Settles(c) \/ Drops(c)
  BY <1>6, NetworkInv
<1>7. CASE \E x \in Req : Send(x)
  BY <1>7, SendInv
<1>8. CASE \E x \in Req : Answered(x) \/ Deadline(x)
  BY <1>8, SettledInv
<1>9. CASE UNCHANGED vars
  BY <1>9 DEF vars, IInv, TypeOK, Trying, Shut, Answerable, Alive, Over
<1> QED BY <1>1, <1>2, <1>3, <1>4, <1>5, <1>6, <1>7, <1>8, <1>9 DEF Next

---------------------------------------------------------------------------
(* Every reachable state is well typed and satisfies the invariant: for    *)
(* any number of requests and of connections lost, refused or renewed      *)
(* (websocket.js, webtransport.js).                                        *)
THEOREM TransportInvariant == Spec => []IInv
<1>1. Init => IInv
  BY InitInv
<1>2. IInv /\ [Next]_vars => IInv'
  BY NextInv
<1> QED BY <1>1, <1>2, PTL DEF Spec

(* The transport never stops in silence: without a connection it has a     *)
(* reconnect timer, or the bridge has been told and recovers               *)
(* (scheduleReconnect, onClosed, onAuthFailed).                            *)
THEOREM NeverIdleCorrect == Spec => []NeverIdle
<1>1. IInv => NeverIdle
  BY DEF IInv, Trying, NeverIdle, Over
<1> QED BY <1>1, TransportInvariant, PTL

(* No request waits for a connection whose end was handled already, in     *)
(* spite of the stale events that a WebTransport takes for its own, unless *)
(* the bridge has been told (handleClosed, failTransport).                 *)
THEOREM PendingCorrect == Spec => []PendingIsAnswerable
<1>1. IInv => PendingIsAnswerable
  BY DEF IInv, Answerable, Alive, PendingIsAnswerable, Over
<1> QED BY <1>1, TransportInvariant, PTL
=============================================================================
