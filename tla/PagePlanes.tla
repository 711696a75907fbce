----------------------------- MODULE PagePlanes -----------------------------
(***************************************************************************)
(* The page and the bridge together, with the background, the workers and  *)
(* the transports as their environment: the life of one device's data      *)
(* plane, from open() over failures and mode changes to close().           *)
(***************************************************************************)
EXTENDS BridgePlanes

Init == DeviceInit /\ BridgeInit

---------------------------------------------------------------------------
(* Answers of the page to the bridge *)

(* A late answer finds no pending spawn. *)
handleSpawnWorkerResponse(s, m) ==
  LET Answers(t) ==
        CASE s.task[t].pc = "spawning" /\ s.task[t].gen = m.gen ->
               [s EXCEPT !.task[t].pc = "spawned", !.task[t].res = IF m.ok THEN 1 ELSE 0]
          [] s.task[t].pc \in {"tail", "hash"} /\ s.task[t].old = m.gen ->
               [s EXCEPT !.task[t].old = 0]
          [] OTHER -> s
  IN  IF m.id[1] = "task" THEN Answers(m.id[2]) ELSE s

handlePlaneResponse(s, m) ==
  LET ts == {t \in Task : s.task[t].pc = "connecting" /\ s.task[t].gen = m.gen}
      woken == [s EXCEPT !.task = [t \in Task |->
                  IF t \in ts THEN [@[t] EXCEPT !.pc = "connected",
                                                !.res = IF m.ok THEN 1 ELSE 0]
                  ELSE @[t]]]
  IN  IF ts # {} /\ m.ok THEN markPlaneReady(woken, m.gen) ELSE woken

handleDataPlaneEvent(s, m) ==
  IF ~s.live \/ s.gen # m.gen THEN s
  ELSE handleWorkerErrorEvent([s EXCEPT !.inPage = FALSE], m.gen)

dispatchPortMessage(s, m) ==
  CASE m.type = "open"     -> IF s.live THEN handleOpenRequest(s, m) ELSE s
    [] m.type = "close"    -> IF s.live THEN handleCloseRequest(s, m) ELSE s
    [] m.type = "wait"     -> handlePlaneReadyRequest(s, m)
    [] m.type = "dataPort" -> handleDataPortRequest(s, m)
    [] m.type = "spawned"  -> handleSpawnWorkerResponse(s, m)
    [] m.type = "planeResponse" -> handlePlaneResponse(s, m)
    [] m.type = "planeEvent"    -> handleDataPlaneEvent(s, m)
    [] m.type = "workerError"   -> handleWorkerErrorEvent(s, m.gen)
    [] m.type = "gone"     -> destroyFrameContext(s)

Ready == Settled(b) /\ FreeTasks(b) # {}

BridgeReceive ==
  /\ Ready /\ toBridge # <<>>
  /\ Runs(dispatchPortMessage(b, Head(toBridge)))
  /\ toBridge' = Tail(toBridge)
  /\ UNCHANGED <<d, bg>>

BridgeContinues ==
  /\ \E t \in Task : ~Waiting(b.task[t]) /\ Runs(Continue(b, t))
  /\ UNCHANGED <<d, toBridge, bg>>

BridgeAsks ==
  /\ Settled(b)
  /\ \E t \in Task :
       \/ AskWorkerSpawn(t)
       \/ AskInPagePlane(t)
  /\ bg' = bg
  /\ UNCHANGED <<d, toBridge>>

---------------------------------------------------------------------------
(* The background *)

Spent(what) == [bg EXCEPT ![what] = @ + 1]

Answered(t, tok, res) ==
  LET served == [b EXCEPT !.control = Tail(@)]
  IN  Runs(IF t = 0 THEN served
           ELSE Return([served EXCEPT !.task[t].tok = tok], t, res))

(* An open is granted a new session or refused; a close and a change of    *)
(* mode need a live session; the daemon may refuse either.                 *)
BackgroundAnswers ==
  /\ Settled(b) /\ b.control # <<>>
  /\ LET r == Head(b.control)
     IN  \/ \E k \in Token \ bg.used :
              /\ r.op = "open" /\ Answered(r.task, k, 1)
              /\ bg' = [bg EXCEPT !.live = @ \cup {k}, !.used = @ \cup {k}]
         \/ /\ r.op \in {"close", "plane"} /\ r.tok \in bg.live
            /\ Answered(r.task, r.tok, 1)
            /\ bg' = IF r.op = "close" THEN [bg EXCEPT !.live = @ \ {r.tok}] ELSE bg
         \/ /\ r.op \in {"close", "plane"} /\ r.tok \notin bg.live
            /\ Answered(r.task, r.tok, 0) /\ bg' = bg
         \/ /\ r.op \in {"open", "close", "plane"} /\ bg.failures < MaxFailures
            /\ Answered(r.task, r.tok, 0) /\ bg' = Spent("failures")
         \/ /\ r.op \in {"clean", "gone"}
            /\ Answered(r.task, r.tok, 1)
            /\ bg' = [bg EXCEPT !.live = IF r.op = "gone" THEN {} ELSE @ \ {r.tok}]
  /\ UNCHANGED <<d, toBridge>>

(* The device disappears or its grant is revoked: its sessions are over    *)
(* and the bridge is sent an event, which no other message waits for.      *)
LifetimeLost ==
  /\ Settled(b) /\ bg.losses < MaxLosses
  /\ \E how \in {"disconnect", "revoked"} :
       bg' = [Spent("losses") EXCEPT !.live = {}, !.events = Append(@, how)]
  /\ UNCHANGED <<d, toBridge, toPage, onPort, b>>

handleBackgroundEvent ==
  /\ Ready /\ bg.events # <<>>
  /\ Runs(reconcileFrameDevice(b, Head(bg.events)))
  /\ bg' = [bg EXCEPT !.events = Tail(@)]
  /\ UNCHANGED <<d, toBridge>>

SettingsChange ==
  /\ Ready /\ bg.switches < MaxSwitches
  /\ \E mode \in SwitchTo \ {b.mode} : Runs(applyDataPlane(b, mode))
  /\ bg' = Spent("switches")
  /\ UNCHANGED <<d, toBridge>>

---------------------------------------------------------------------------
(* Workers, transports and reports *)

(* The worker behind the control port: both ends were wired to each other. *)
WorkerConnected ==
  /\ b.worker.up /\ b.worker.real
  /\ d.worker.gen = b.worker.gen /\ d.worker.port = b.worker.gen

WorkerReady ==
  /\ Settled(b) /\ WorkerConnected /\ b.ready # b.worker.gen
  /\ Runs(markPlaneReady(b, b.worker.gen))
  /\ UNCHANGED <<d, toBridge, bg>>

(* 'closed' or 'auth-failed' *)
WorkerFails ==
  /\ Ready /\ WorkerConnected /\ bg.failures < MaxFailures
  /\ Runs(handleWorkerErrorEvent(b, b.worker.gen))
  /\ bg' = Spent("failures")
  /\ UNCHANGED <<d, toBridge>>

WorkerCrashes ==
  /\ Settled(b) /\ bg.failures < MaxFailures
  /\ WorkerError
  /\ bg' = Spent("failures") /\ UNCHANGED b

TransportLost ==
  /\ Settled(b) /\ bg.failures < MaxFailures
  /\ PlaneLost
  /\ bg' = Spent("failures") /\ UNCHANGED b

WorkerAnswers ==
  /\ Settled(b)
  /\ \E w \in {x \in onPort : x.sent} :
       /\ w.gen = d.worker.port /\ d.alive
       /\ onPort' = (onPort \ {w}) \cup {[w EXCEPT !.sent = FALSE]}
  /\ UNCHANGED <<d, toBridge, toPage, b, bg>>

(* onDataPortMessage: an NM report goes out over the runtime port. *)
onDataPortMessage ==
  /\ Settled(b)
  /\ \E w \in {x \in onPort : x.sent} :
       /\ [gen |-> w.gen, own |-> TRUE] \in b.ports
       /\ b' = [ensureRuntimeDataPort(b) EXCEPT
                  !.pending = @ \cup {[gen |-> w.gen, report |-> w.report]}]
       /\ onPort' = onPort \ {w}
  /\ UNCHANGED <<d, toBridge, toPage, bg>>

handleWorkerReportResponse(s, p) ==
  [s EXCEPT !.pending = @ \ {p},
            !.back = @ \cup {[gen |-> x.gen, report |-> x.report, sent |-> FALSE] :
                               x \in {y \in {p} : [gen |-> y.gen, own |-> TRUE] \in s.ports}}]

RuntimePortAnswers ==
  /\ Settled(b)
  /\ \E p \in b.pending :
       Runs(maybeDisconnectRuntimeDataPort(handleWorkerReportResponse(b, p)))
  /\ UNCHANGED <<d, toBridge, bg>>

---------------------------------------------------------------------------
(* Timers of the bridge *)

Expires(s) == Runs(s) /\ bg' = Spent("expiries") /\ UNCHANGED <<d, toBridge>>

BridgeTimer ==
  /\ Ready
  /\ \/ /\ bg.expiries < MaxExpiries
        /\ \E w \in b.timers : WaitExpires(w)
        /\ bg' = Spent("expiries") /\ UNCHANGED <<d, toBridge>>
     \/ \E t \in Task :
          /\ bg.expiries < MaxExpiries \/ ~d.alive
          /\ \/ b.task[t].pc = "spawning"
                /\ Expires([b EXCEPT !.task[t].pc = "spawned", !.task[t].res = 0])
             \/ b.task[t].old # 0 /\ b.task[t].pc \in {"tail", "hash"}
                /\ Expires([b EXCEPT !.task[t].old = 0])
             \/ b.task[t].pc = "connecting"
                /\ Expires([b EXCEPT !.task[t].pc = "connected", !.task[t].res = 0,
                                     !.inPage = FALSE])

---------------------------------------------------------------------------
PageCalls ==
  /\ Settled(b)
  /\ \/ \E i \in Opens : Open(i)
     \/ \E i \in Closes : Close(i)
     \/ \E r \in Report : SendReport(r)
  /\ UNCHANGED <<b, bg>>

PageLeaves == Settled(b) /\ PageHide /\ UNCHANGED <<b, bg>>

PageRuns ==
  /\ Settled(b)
  /\ \/ PageReceive
     \/ \E ok \in {TRUE} \cup {x \in {FALSE} : bg.failures < MaxFailures} : CreateWorker(ok)
     \/ PlaneUp
     \/ handleReportResult
     \/ \E r \in Report : InPageAnswered(r)
  /\ UNCHANGED <<b, bg>>

PageTimeout ==
  Settled(b) /\ (\E id \in RequestIds : RequestTimeout(id)) /\ UNCHANGED <<b, bg>>

Next ==
  \/ BridgeReceive \/ BridgeContinues \/ BridgeAsks
  \/ BackgroundAnswers \/ LifetimeLost \/ handleBackgroundEvent \/ SettingsChange
  \/ WorkerReady \/ WorkerFails \/ WorkerCrashes \/ TransportLost
  \/ WorkerAnswers \/ onDataPortMessage \/ RuntimePortAnswers
  \/ BridgeTimer
  \/ PageCalls \/ PageLeaves \/ PageRuns \/ PageTimeout

Spec == Init /\ [][Next]_vars

FairSpec ==
  Spec /\ WF_vars(BridgeReceive) /\ WF_vars(BridgeContinues) /\ WF_vars(BridgeAsks)
       /\ WF_vars(BackgroundAnswers) /\ WF_vars(handleBackgroundEvent)
       /\ WF_vars(WorkerReady) /\ WF_vars(WorkerAnswers)
       /\ WF_vars(onDataPortMessage) /\ WF_vars(RuntimePortAnswers)
       /\ WF_vars(PageRuns) /\ WF_vars(BridgeTimer)

---------------------------------------------------------------------------
(* Sessions, modes, queued requests and reports are of their kinds, a       *)
(* stretch of bridge code leaves nothing unsent, and a waiter always has a *)
(* timer (pendingPlaneReady).                                              *)
TypeOK ==
  /\ b.session \in Token \cup {None} /\ b.mode \in Modes
  /\ b.control \in Seq([op : {"open", "close", "plane", "clean", "gone"},
                        tok : Token \cup {None}, task : Task \cup {0}, mode : Modes])
  /\ b.out = <<>> /\ b.late = <<>> /\ b.back = {}
  /\ b.waiter \in b.timers \cup {NoWaiter}
  /\ d.report \in [Report -> {"new", "pending", "inpage", "settled"}]
  /\ d.gen \in Nat /\ d.port \in Nat /\ b.gen \in Nat

(* Nothing is on its way between the page, the bridge and the background. *)
Quiet ==
  /\ toBridge = <<>> /\ toPage = <<>> /\ d.spawns = <<>> /\ bg.events = <<>>
  /\ \A t \in Task : b.task[t] = Idle
  /\ b.control = <<>> /\ b.waiter = NoWaiter

(* A plane the bridge reports ready is the one of the current generation,  *)
(* with both of its ends: no late answer of an older plane, and no despawn *)
(* in its tail, leaves readyGenerations and planeReadiness apart.          *)
ReadyIsCurrent ==
  b.ready # 0 => /\ b.ready = b.gen
                 /\ b.readiness = [gen |-> b.gen, local |-> TRUE, auth |-> TRUE]

(* Whatever the page, the bridge or a message still names is a generation  *)
(* that has begun: spawnGen survives every despawn, so that the next       *)
(* generation of the device is one no late answer, port, worker or timer   *)
(* can be taken for.                                                       *)
NoFutureGeneration ==
  /\ {d.gen, d.port, d.worker.gen, d.worker.port, d.plane.gen, d.unavailGen,
      b.worker.gen, b.record, b.waiter.gen} \subseteq 0..b.gen
  /\ \A q \in {toBridge, toPage, d.spawns} :
       \A i \in 1..Len(q) : q[i].gen \in 0..b.gen
  /\ \A x \in onPort \cup b.ports \cup b.pending \cup b.timers : x.gen \in 0..b.gen
  /\ \A t \in Task : {b.task[t].gen, b.task[t].old} \subseteq 0..b.gen

(* Once everything has settled, a device the page believes ready has a     *)
(* plane the bridge believes ready, of the same generation (planeReady     *)
(* against readyGenerations and spawnGen).  It speaks of the runs in which *)
(* the page gave up on no request and the mode changed once at most: two   *)
(* changes in quick succession leave two respawns of one plane under way.  *)
PageReadyIsReady ==
  Quiet /\ d.alive /\ d.timeouts = 0 /\ bg.switches <= 1 /\ d.opened /\ d.ready =>
    b.ready = d.gen /\ b.ready = b.gen

(* A device the page holds open has a session in the bridge: whatever ends *)
(* the session (close, loss, revocation, an open undone) reaches the page. *)
OpenHasSession ==
  Quiet /\ d.alive /\ d.timeouts = 0 /\ d.opened => b.session # None

(* Once everything has settled, the session the bridge holds and the one   *)
(* the background answers for are the same: no token of an ended session   *)
(* is kept, and no session is left behind by an open that failed half-way, *)
(* was handed back (cleanupSession) or timed out, whichever came last.  It *)
(* speaks of the runs with one close() at most and without a loss: the     *)
(* second of two closes puts an ended token back, and an event of a loss   *)
(* names no token.                                                         *)
SessionsAgree ==
  Quiet /\ bg.losses = 0 /\ Cardinality({i \in Closes : d.close[i] # "new"}) <= 1 =>
    bg.live = {b.session} \ {None}

(* A worker the page runs for the device is the one the bridge knows: a    *)
(* spawn that was overtaken by a newer generation is terminated.           *)
NoOrphanWorker == Quiet /\ d.alive => d.worker.gen \in {0, b.worker.gen}

(* Every open() the page waits for is settled by answers and by the timers *)
(* of the bridge alone, through every failure of a worker or transport,    *)
(* while the device is not lost (the page's own 30 s limit is not used).   *)
OpenSettles == \A i \in Opens :
  d.open[i] = "asked" ~>
    d.open[i] \in {"opened", "failed"} \/ ~d.alive \/ bg.losses > 0

(* A report has no time limit in the page: its promise settles because an  *)
(* answer comes or because every loss of its channel rejects it.           *)
ReportSettles == \A r \in Report :
  d.report[r] \in {"pending", "inpage"} ~> d.report[r] = "settled" \/ ~d.alive

=============================================================================
