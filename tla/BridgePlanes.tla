---------------------------- MODULE BridgePlanes ----------------------------
(***************************************************************************)
(* content/isolated/bridge.js, the data plane of one device for one client *)
(* (the window of one frame).  The bridge is one thread: an async function *)
(* is a task whose steps are the stretches between two awaits, and a task  *)
(* that may continue runs before the next message, as microtasks do.  A    *)
(* task keeps the awaits it returns to (ret).  The background serves the   *)
(* serialized control port one request at a time; how it keeps sessions is *)
(* BackgroundOwnership's matter, here it grants and ends tokens.           *)
(***************************************************************************)
EXTENDS PolyfillDevice

CONSTANTS Token,        \* session tokens the background may hand out
          None,         \* no token
          Task,         \* tasks of the bridge; 0 is none
          StartModes,   \* data planes the settings may name at the start
          SwitchTo,     \* modes the user may select
          MaxSwitches,  \* bound: changes of the settings
          MaxFailures,  \* bound: transports and workers that fail
          MaxLosses,    \* bound: devices lost and grants revoked
          MaxExpiries   \* bound: 10 s timers of the bridge that expire

Modes == {"nm", "worker", "inpage"}
ASSUME BridgeAssumption ==
  /\ None \notin Token /\ 0 \notin Task /\ StartModes \subseteq Modes /\ SwitchTo \subseteq Modes
  /\ {MaxSwitches, MaxFailures, MaxLosses, MaxExpiries} \subseteq Nat

VARIABLES b,   \* the bridge
          bg   \* the background: live sessions, and the budget of faults

vars == <<d, toBridge, toPage, onPort, b, bg>>

NoWaiter == [gen |-> 0, id |-> NoId, tok |-> None]
NoReady  == [gen |-> 0, local |-> FALSE, auth |-> FALSE]
NoWorker == [gen |-> 0, up |-> FALSE, real |-> FALSE]
Idle == [pc |-> "idle", ret |-> <<>>, tok |-> None, gen |-> 0, old |-> 0,
         id |-> NoId, rewire |-> FALSE, retire |-> FALSE, keep |-> FALSE,
         res |-> 0, nmTry |-> FALSE, mode |-> "nm"]

BridgeInit ==
  /\ \E mode \in StartModes :
     b = [live |-> TRUE, session |-> None, mode |-> mode,
          gen |-> 0, readiness |-> NoReady, ready |-> 0,
          waiter |-> NoWaiter, timers |-> {},
          worker |-> NoWorker, record |-> 0, params |-> FALSE,
          inPage |-> FALSE, nm |-> FALSE, ports |-> {},
          tries |-> 0, runtimePort |-> FALSE, pending |-> {},
          control |-> <<>>, task |-> [t \in Task |-> Idle],
          out |-> <<>>, late |-> <<>>, back |-> {}]
  /\ bg = [live |-> {}, used |-> {}, events |-> <<>>,
           switches |-> 0, failures |-> 0, losses |-> 0, expiries |-> 0]

---------------------------------------------------------------------------
(* One stretch of bridge code: s is the state it leaves, with the messages *)
(* it posted (out), those posted by the promises it resolved (late) and    *)
(* the results it put on data ports (back).                                *)

Runs(s) ==
  /\ b' = [s EXCEPT !.out = <<>>, !.late = <<>>, !.back = {}]
  /\ toPage' = toPage \o s.out \o s.late
  /\ onPort' = onPort \cup s.back

Put(s, m)   == [s EXCEPT !.out = Append(@, m)]
Later(s, m) == [s EXCEPT !.late = Append(@, m)]

(* Answers of a destroyed frame have no port to go to. *)
replyToPage(s, id, ok, gen) ==
  IF s.live THEN Put(s, Msg("response", id, gen, ok)) ELSE s
Resolve(s, id, ok) ==
  IF s.live THEN Later(s, Msg("response", id, 0, ok)) ELSE s

---------------------------------------------------------------------------
(* Generations and readiness                                               *)

(* Faulty variants: the waiter is dropped without an answer; it is kept     *)
(* when its timer is cleared.                                              *)
MutDropWaiter(s) ==
  [s EXCEPT !.gen = @ + 1, !.ready = 0, !.waiter = NoWaiter,
            !.readiness = [NoReady EXCEPT !.gen = s.gen + 1], !.timers = @ \ {s.waiter}]

(* A waiter for an earlier generation is told that it is stale. *)
beginPlaneGeneration(s) ==
  LET n == [s EXCEPT !.gen = @ + 1, !.ready = 0, !.waiter = NoWaiter,
                     !.readiness = [NoReady EXCEPT !.gen = s.gen + 1],
                     !.timers = @ \ {s.waiter}]
  IN  IF s.waiter = NoWaiter THEN n ELSE Resolve(n, s.waiter.id, FALSE)

notifyPlaneReady(s, g) ==
  IF s.gen = g /\ s.live THEN Put(s, Msg("planeReady", NoId, g, TRUE)) ELSE s
notifyPlaneUnavailable(s, g) ==
  IF s.gen = g /\ s.live THEN Put(s, Msg("planeGone", NoId, g, TRUE)) ELSE s

(* Faulty variant: readiness of an older generation counts. *)
MutAnyGeneration(s, g, which) ==
  LET now == [s.readiness EXCEPT !.gen = g, ![which] = TRUE]
  IN  IF now.local /\ now.auth
      THEN notifyPlaneReady([s EXCEPT !.readiness = now, !.ready = g], g)
      ELSE [s EXCEPT !.readiness = now]

(* The plane is ready once the page has wired its end (local) and the      *)
(* bridge has its transport (auth).                                        *)
markPlanePrerequisite(s, g, which) ==
  LET had == IF s.readiness.gen = g THEN s.readiness ELSE [NoReady EXCEPT !.gen = g]
      now == [had EXCEPT ![which] = TRUE]
      set == [s EXCEPT !.readiness = now, !.ready = g]
      told == IF s.ready = g THEN set ELSE notifyPlaneReady(set, g)
  IN  CASE s.gen # g -> s
        [] s.gen = g /\ ~(now.local /\ now.auth) -> [s EXCEPT !.readiness = now]
        [] OTHER -> IF s.waiter.gen # g THEN told
                    ELSE Resolve([told EXCEPT !.waiter = NoWaiter,
                                              !.timers = @ \ {s.waiter}],
                                 s.waiter.id, TRUE)

markPlaneReady(s, g) ==
  markPlanePrerequisite(markPlanePrerequisite(s, g, "local"), g, "auth")
markPlaneLocalReady(s, g) == markPlanePrerequisite(s, g, "local")
markPlaneAuthoritativeReady(s, g) == markPlanePrerequisite(s, g, "auth")

(* The runtime data port is shared by all NM planes of the device. *)
ensureRuntimeDataPort(s) == [s EXCEPT !.runtimePort = TRUE]
maybeDisconnectRuntimeDataPort(s) ==
  IF s.nm \/ s.tries > 0 \/ s.pending # {} THEN s
  ELSE [s EXCEPT !.runtimePort = FALSE]
discardFailedOpenDataPort(s) ==
  IF s.session # None \/ s.tries > 0 THEN s ELSE maybeDisconnectRuntimeDataPort(s)

---------------------------------------------------------------------------
(* Tasks                                                                   *)

Goto(s, t, pc)    == [s EXCEPT !.task[t].pc = pc]
Await(s, t, next) == [s EXCEPT !.task[t].ret = <<next>> \o @]
Return(s, t, v)   == [s EXCEPT !.task[t].pc = Head(s.task[t].ret),
                               !.task[t].ret = Tail(@), !.task[t].res = v]
End(s, t)         == [s EXCEPT !.task[t] = Idle]

(* sendBackgroundRequest: queued; one request is served at a time. *)
sendBackgroundRequest(s, t, op, next) ==
  [Goto(Await(s, t, next), t, "background") EXCEPT
     !.control = Append(@, [op |-> op, tok |-> s.task[t].tok, task |-> t, mode |-> "nm"])]
SendAndForget(s, op, tok, mode) ==
  [s EXCEPT !.control = Append(@, [op |-> op, tok |-> tok, task |-> 0, mode |-> mode])]

(* The states in which a task waits for somebody else. *)
Waiting(r) == \/ r.pc \in {"idle", "background", "hash", "plane hash",
                           "spawning", "connecting"}
              \/ r.pc = "tail" /\ r.old # 0
Settled(s) == \A t \in Task : Waiting(s.task[t])

(* A handler that becomes a task takes a free one. *)
FreeTasks(s) == {t \in Task : s.task[t].pc = "idle"}
NextTask(s) == CHOOSE t \in FreeTasks(s) : TRUE
Start(s, r) == [s EXCEPT !.task[NextTask(s)] = r]

---------------------------------------------------------------------------
(* despawnDataPlane: the synchronous part ends the generation and asks the *)
(* page to terminate the worker; the tail, after the answer, clears what   *)
(* is kept for the plane, of whatever generation it now is.                *)

despawnDataPlane(s, t, notify, next) ==
  LET told == IF notify /\ s.gen # 0 THEN notifyPlaneUnavailable(s, s.gen) ELSE s
      new  == beginPlaneGeneration(told)
      cut  == IF s.inPage
              THEN Put([new EXCEPT !.inPage = FALSE],
                       Msg("disconnectPlane", NoId, s.gen, TRUE))
              ELSE new
      old  == IF s.worker.gen # 0 THEN s.worker.gen ELSE s.record
      off  == [Goto(Await(cut, t, next), t, "tail") EXCEPT
                 !.worker = NoWorker, !.record = 0, !.task[t].old = old]
  IN  IF old = 0 THEN off
      ELSE Put(off, Msg("terminate", <<"task", t>>, old, TRUE))

(* Faulty variant: the generation is forgotten with the rest of the plane. *)
MutForgetGeneration(s, t) ==
  LET plain == [s EXCEPT !.pending = {}, !.ports = {}, !.params = FALSE, !.nm = FALSE,
                         !.ready = 0, !.readiness = NoReady, !.gen = 0]
  IN  Return(maybeDisconnectRuntimeDataPort(plain), t, 0)

DespawnTail(s, t) ==
  LET keep == s.task[t].keep
      cleared ==
        [s EXCEPT !.ports = IF keep THEN @ ELSE {},
                  !.back = @ \cup {[gen |-> p.gen, report |-> p.report, sent |-> FALSE] :
                                     p \in {x \in s.pending : keep}},
                  !.pending = {},
                  !.task = [u \in Task |-> IF @[u].pc = "connecting"
                                           THEN [@[u] EXCEPT !.pc = "connected", !.res = 0]
                                           ELSE @[u]],
                  !.params = FALSE, !.nm = FALSE, !.ready = 0, !.readiness = NoReady]
  IN  Return(maybeDisconnectRuntimeDataPort(cleared), t, 0)

---------------------------------------------------------------------------
(* spawnDataPlane and what it awaits                                       *)

spawnDataPlane(s, t) ==
  LET new == beginPlaneGeneration(s)
      own == [new EXCEPT !.task[t].gen = new.gen]
      old == IF s.worker.gen # 0 THEN s.worker.gen ELSE s.record
      off == [Goto(own, t, "hash") EXCEPT
                !.worker = NoWorker, !.record = 0, !.params = IF old = 0 THEN @ ELSE FALSE,
                !.task[t].old = old]
  IN  CASE s.mode = "inpage" -> Goto(own, t, "plane hash")
        [] s.mode # "inpage" /\ old = 0 -> off
        [] OTHER -> Put(off, Msg("terminate", <<"task", t>>, old, TRUE))

(* The end of spawnDataPlane: without a plane it falls back to NM, when    *)
(* the generation is still its own.                                        *)
SpawnDone(s, t, ok) ==
  LET r == s.task[t]
  IN  CASE ok -> Return(s, t, r.gen)
        [] ~ok /\ s.gen = r.gen ->
             Goto([s EXCEPT !.task[t].retire = FALSE], t, "fallback")
        [] OTHER -> Return(s, t, r.gen)

(* spawnWorker: auth hash, spawn mode and bundle are awaited, then the     *)
(* page is asked; no hash or a CSP that allows no worker means no worker.  *)
AskWorkerSpawn(t) ==
  /\ b.task[t].pc = "hash" /\ b.task[t].old = 0
  /\ \/ Runs(Put(Goto(b, t, "spawning"),
                 Msg("spawn", <<"task", t>>, b.task[t].gen, TRUE)))
     \/ bg.failures < MaxFailures /\ Runs(SpawnDone(b, t, FALSE))

(* Faulty variant: a worker that was overtaken is left running. *)
MutKeepOvertaken(s, t) ==
  LET g == s.task[t].gen
      n == [s EXCEPT !.worker = [NoWorker EXCEPT !.gen = g], !.record = g, !.params = TRUE]
  IN  CASE s.task[t].res = 0 \/ s.gen # g -> SpawnDone(s, t, FALSE)
        [] OTHER -> SpawnDone(IF s.task[t].rewire
                              THEN Put(n, Msg("wire", NoId, g, TRUE)) ELSE n, t, TRUE)

WorkerSpawned(s, t) ==
  LET g == s.task[t].gen
  IN  CASE s.task[t].res = 0 -> SpawnDone(s, t, FALSE)
        [] s.task[t].res # 0 /\ s.gen # g ->
             SpawnDone(Put(s, Msg("terminate", NoId, g, TRUE)), t, FALSE)
        [] OTHER -> LET n == [s EXCEPT !.worker = [NoWorker EXCEPT !.gen = g],
                                       !.record = g, !.params = TRUE]
                    IN  SpawnDone(IF s.task[t].rewire
                                  THEN Put(n, Msg("wire", NoId, g, TRUE)) ELSE n, t, TRUE)

(* spawnInPageDataPlane *)
AskInPagePlane(t) ==
  /\ b.task[t].pc = "plane hash"
  /\ \/ Runs(Put([Goto(b, t, "connecting") EXCEPT !.inPage = TRUE],
                 Msg("connect", <<"task", t>>, b.task[t].gen, TRUE)))
     \/ bg.failures < MaxFailures /\ Runs(SpawnDone(b, t, FALSE))

---------------------------------------------------------------------------
(* fallbackToNm *)

FallbackToNm(s, t) ==
  CASE s.gen # s.task[t].gen -> Return(s, t, 0)
    [] s.gen = s.task[t].gen /\ s.task[t].retire ->
         despawnDataPlane(s, t, TRUE, "ask nm")
    [] OTHER -> Goto(s, t, "ask nm")

AskNm(s, t) ==
  LET g == IF s.task[t].retire THEN s.gen ELSE s.task[t].gen
      own == [s EXCEPT !.task[t].gen = g]
  IN  IF ~s.live \/ s.gen # g THEN Return(s, t, 0)
      ELSE sendBackgroundRequest(ensureRuntimeDataPort(own), t, "plane", "nm told")

NmTold(s, t) ==
  LET r == s.task[t]
      mine == s.gen = r.gen
      nm == markPlaneAuthoritativeReady([s EXCEPT !.nm = TRUE], r.gen)
  IN  CASE ~mine -> Return(s, t, 0)
        [] mine /\ r.res = 0 -> despawnDataPlane(s, t, FALSE, "nm refused")
        [] mine /\ r.res # 0 /\ ~s.live -> despawnDataPlane(s, t, FALSE, "null")
        [] OTHER -> Return(IF r.rewire THEN Put(nm, Msg("wire", NoId, r.gen, TRUE))
                           ELSE nm, t, r.gen)

NmRefused(s, t) == Return(notifyPlaneUnavailable(s, s.gen), t, 0)

---------------------------------------------------------------------------
(* recoverDataPlane, from a failed worker or in-page transport             *)

handleWorkerErrorEvent(s, g) ==
  IF ~s.live \/ s.gen # g THEN s
  ELSE LET t == NextTask(s)
           new == Start(s, [Idle EXCEPT !.tok = s.session, !.rewire = TRUE,
                                        !.ret = <<"end">>])
       IN  IF s.session = None THEN despawnDataPlane(new, t, FALSE, "end")
           ELSE despawnDataPlane(new, t, TRUE, "recover")

Recover(s, t) ==
  LET own == [s EXCEPT !.task[t].gen = s.gen, !.task[t].retire = FALSE]
  IN  CASE ~s.live -> End(s, t)
        [] s.live /\ s.mode = "nm" -> Goto(own, t, "fallback")
        [] OTHER -> spawnDataPlane(own, t)

---------------------------------------------------------------------------
(* open and close requests of the page                                     *)

handleOpenRequest(s, m) ==
  LET t == NextTask(s)
      nm == s.mode = "nm" \/ s.nm
      new == Start(s, [Idle EXCEPT !.id = m.id, !.nmTry = nm])
  IN  sendBackgroundRequest(
        IF nm THEN [ensureRuntimeDataPort(new) EXCEPT !.tries = @ + 1] ELSE new,
        t, "open", "opened")

releaseNmOpenAttempt(s, t) ==
  [s EXCEPT !.tries = IF s.task[t].nmTry THEN @ - 1 ELSE @, !.task[t].nmTry = FALSE]

OpenRefused(s, t) ==
  LET r == s.task[t]
  IN  End(replyToPage(discardFailedOpenDataPort(releaseNmOpenAttempt(s, t)),
                      r.id, FALSE, 0), t)

handleOpenSuccess(s, t) ==
  LET held == [s EXCEPT !.session = s.task[t].tok]
      nm == beginPlaneGeneration(held)
      ready == markPlaneAuthoritativeReady(
                 ensureRuntimeDataPort([nm EXCEPT !.nm = TRUE]), nm.gen)
  IN  CASE ~s.live -> Goto([s EXCEPT !.task[t].res = 0], t, "accepted")
        [] s.live /\ (s.mode = "nm" \/ s.nm) ->
             Goto([ready EXCEPT !.task[t].res = nm.gen], t, "accepted")
        [] OTHER -> spawnDataPlane(Await(held, t, "accepted"), t)

Opened(s, t) == IF s.task[t].tok = None THEN OpenRefused(s, t) ELSE handleOpenSuccess(s, t)

(* No generation: the session is handed back. *)
OpenAccepted(s, t) ==
  IF s.task[t].res # 0
  THEN End(replyToPage(releaseNmOpenAttempt(s, t), s.task[t].id, TRUE, s.task[t].res), t)
  ELSE despawnDataPlane([s EXCEPT !.session = None], t, FALSE, "hand back")
(* Faulty variant: the session of a frame that has no plane is kept. *)
MutKeepGrant(s, t) == Goto(s, t, "handed back")

HandBack(s, t) == sendBackgroundRequest(s, t, "clean", "handed back")
HandedBack(s, t) ==
  LET done == releaseNmOpenAttempt(discardFailedOpenDataPort(s), t)
  IN  End(replyToPage(done, s.task[t].id, FALSE, 0), t)

handleCloseRequest(s, m) ==
  sendBackgroundRequest(Start(s, [Idle EXCEPT !.id = m.id, !.tok = s.session]),
                        NextTask(s), "close", "close answered")

CloseAnsweredByBackground(s, t) ==
  LET r == s.task[t]
  IN  IF r.res # 0
      THEN despawnDataPlane([s EXCEPT !.session = None], t, FALSE, "closed")
      ELSE End(replyToPage([s EXCEPT !.session = IF r.tok # None THEN r.tok ELSE @],
                           r.id, FALSE, 0), t)
handleCloseSuccess(s, t) == End(replyToPage(s, s.task[t].id, TRUE, 0), t)

---------------------------------------------------------------------------
(* waitDataPlaneReady: answered when the generation is ready or replaced.  *)

waitForPlaneReady(s, id, g, tok) ==
  CASE ~s.live -> s
    [] s.live /\ s.gen # g -> replyToPage(s, id, FALSE, 0)
    [] s.live /\ s.gen = g /\ s.ready = g -> replyToPage(s, id, TRUE, 0)
    [] OTHER -> LET w == [gen |-> g, id |-> id, tok |-> tok]
                IN  [s EXCEPT !.waiter = w, !.timers = @ \cup {w}]

handlePlaneReadyRequest(s, m) ==
  IF s.session = None THEN replyToPage(s, m.id, FALSE, 0)
  ELSE waitForPlaneReady(s, m.id, m.gen, s.session)

(* Its 10 s timer retires the generation and falls back to NM. *)
WaitExpires(w) ==
  LET s == [b EXCEPT !.timers = @ \ {w}]
      t == NextTask(s)
      cur == [s EXCEPT !.waiter = NoWaiter]
  IN  Runs(CASE s.waiter.gen # w.gen -> s
             [] s.waiter.gen = w.gen /\ s.gen # w.gen -> replyToPage(cur, w.id, FALSE, 0)
             [] OTHER -> Goto(Start(cur, [Idle EXCEPT !.tok = w.tok, !.id = w.id,
                                !.gen = w.gen, !.rewire = TRUE, !.retire = TRUE,
                                !.ret = <<"fell back">>]), t, "fallback"))
FellBack(s, t) ==
  LET r == s.task[t]
  IN  End(IF r.res = 0 THEN replyToPage(s, r.id, FALSE, 0)
          ELSE waitForPlaneReady(s, r.id, r.res, r.tok), t)

---------------------------------------------------------------------------
(* dataPort: the control port of the worker whose generation it is, or the *)
(* page's own port of an NM plane.                                         *)

handleDataPortRequest(s, m) ==
  CASE ~s.live \/ s.gen # m.gen -> s
    [] s.live /\ s.gen = m.gen /\ s.worker.gen = m.gen ->
         [s EXCEPT !.worker = [gen |-> m.gen, up |-> TRUE, real |-> m.ok /\ s.params],
                   !.params = FALSE]
    [] OTHER -> markPlaneLocalReady([s EXCEPT !.ports = @ \cup {[gen |-> m.gen, own |-> ~m.ok]}],
                                    m.gen)

---------------------------------------------------------------------------
(* The device is lost, the daemon is reset or the grant is revoked.        *)

reconcileFrameDevice(s, how) ==
  LET t == NextTask(s)
      new == Start(s, [Idle EXCEPT !.id = <<how, 0>>])
  IN  IF s.session = None THEN s
      ELSE despawnDataPlane([new EXCEPT !.session = None], t, FALSE, "lost")
(* Faulty variant: the page is not told. *)
MutSilentLoss(s, t) == End(s, t)

Lost(s, t) ==
  End(IF s.live THEN Put(s, Msg("event", s.task[t].id, 0, TRUE)) ELSE s, t)

(* destroyFrameContext: the background closes the sessions of the frame,   *)
(* then the plane goes.                                                    *)
rejectPendingSpawns(s) ==
  [s EXCEPT !.task = [u \in Task |->
     CASE @[u].pc = "spawning" -> [@[u] EXCEPT !.pc = "spawned", !.res = 0]
       [] @[u].pc \in {"tail", "hash"} -> [@[u] EXCEPT !.old = 0]
       [] OTHER -> @[u]]]
destroyFrameContext(s) ==
  IF ~s.live THEN s
  ELSE sendBackgroundRequest(Start(rejectPendingSpawns([s EXCEPT !.live = FALSE]),
                                   [Idle EXCEPT !.tok = s.session]),
                             NextTask(s), "gone", "purged")
Purged(s, t) == despawnDataPlane(s, t, FALSE, "destroyed")
Destroyed(s, t) == End([s EXCEPT !.session = None], t)

---------------------------------------------------------------------------
(* The user selects another data plane (or worker setting) for the origin. *)

applyDataPlane(s, mode) ==
  LET set == [s EXCEPT !.mode = mode]
      t == NextTask(set)
      new == Start(set, [Idle EXCEPT !.tok = s.session, !.mode = mode,
                                     !.keep = TRUE, !.rewire = TRUE])
  IN  IF s.session = None \/ ~s.live THEN set
      ELSE despawnDataPlane(new, t, TRUE, "switch")

(* Only planes whose session is still there are respawned; every device    *)
(* that was open is told to the background.                                *)
respawnPlanesForMode(s, t) ==
  LET r == s.task[t]
      told == SendAndForget(s, "plane", r.tok, r.mode)
      again == [told EXCEPT !.task[t].keep = FALSE, !.task[t].tok = s.session,
                            !.task[t].ret = <<"end">>]
  IN  IF s.session = None \/ ~s.live THEN End(told, t) ELSE spawnDataPlane(again, t)

SwitchPlane(s, t) ==
  IF s.task[t].mode = "nm" THEN sendBackgroundRequest(s, t, "plane", "switched")
  ELSE respawnPlanesForMode(s, t)

SwitchedToNm(s, t) ==
  LET plain == [s EXCEPT !.task[t].keep = FALSE]
      nm == markPlaneAuthoritativeReady(
              ensureRuntimeDataPort([s EXCEPT !.nm = TRUE]), s.gen)
  IN  IF s.task[t].res = 0 THEN despawnDataPlane(plain, t, FALSE, "switch refused")
      ELSE End(IF s.live THEN Put(nm, Msg("wire", NoId, s.gen, TRUE)) ELSE nm, t)
SwitchRefused(s, t) == End(notifyPlaneUnavailable(s, s.gen), t)

---------------------------------------------------------------------------
(* Next step of a task that may continue *)

Continue(s, t) ==
  LET pc == s.task[t].pc
  IN  CASE pc = "tail"      -> DespawnTail(s, t)
        [] pc = "spawned"   -> WorkerSpawned(s, t)
        [] pc = "connected" -> SpawnDone(s, t, s.task[t].res # 0)
        [] pc = "fallback"  -> FallbackToNm(s, t)
        [] pc = "ask nm"    -> AskNm(s, t)
        [] pc = "nm told"   -> NmTold(s, t)
        [] pc = "nm refused" -> NmRefused(s, t)
        [] pc = "null"      -> Return(s, t, 0)
        [] pc = "recover"   -> Recover(s, t)
        [] pc = "opened"    -> Opened(s, t)
        [] pc = "accepted"  -> OpenAccepted(s, t)
        [] pc = "hand back" -> HandBack(s, t)
        [] pc = "handed back" -> HandedBack(s, t)
        [] pc = "close answered" -> CloseAnsweredByBackground(s, t)
        [] pc = "closed"    -> handleCloseSuccess(s, t)
        [] pc = "fell back" -> FellBack(s, t)
        [] pc = "lost"      -> Lost(s, t)
        [] pc = "purged"    -> Purged(s, t)
        [] pc = "destroyed" -> Destroyed(s, t)
        [] pc = "switch"    -> SwitchPlane(s, t)
        [] pc = "switched"  -> SwitchedToNm(s, t)
        [] pc = "switch refused" -> SwitchRefused(s, t)
        [] pc = "end"       -> End(s, t)
=============================================================================
