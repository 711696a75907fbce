-------------------------- MODULE PagePlanesProofs --------------------------
(***************************************************************************)
(* Proofs about one device's data plane, for every set of tokens and tasks *)
(* and every number of opens, closes, faults and timers.                   *)
(***************************************************************************)
EXTENDS PagePlanes, Integers, TLAPS

-----------------------------------------------------------------------------
(* Readiness *)

\* The maps of bridge.js that say which generation is current and which is
\* ready: spawnGen, planeReadiness and readyGenerations (673-677).
HasReadiness(s) == {"gen", "readiness", "ready", "waiter", "timers"} \subseteq DOMAIN s

\* A ready plane is the one of the current generation, and both of its ends
\* have said so; a waiter's timer runs.  Generation k has begun.
ReadyInv(s, k) ==
    /\ HasReadiness(s) /\ s.gen \in Nat /\ k <= s.gen
    /\ s.readiness \in [gen : Nat, local : BOOLEAN, auth : BOOLEAN]
    /\ s.ready # 0 => /\ s.ready = s.gen
                      /\ s.readiness = [gen |-> s.gen, local |-> TRUE, auth |-> TRUE]
    /\ s.waiter \in s.timers \cup {NoWaiter}

\* Messages, awaits and requests leave readiness alone.
LEMMA AsideSteps ==
    ASSUME NEW k \in Nat, NEW s, ReadyInv(s, k)
    PROVE  /\ \A m : ReadyInv(Put(s, m), k) /\ ReadyInv(Later(s, m), k)
           /\ \A t, pc : ReadyInv(Goto(s, t, pc), k) /\ ReadyInv(Await(s, t, pc), k)
           /\ \A t, v : ReadyInv(Return(s, t, v), k)
           /\ \A t : ReadyInv(End(s, t), k) /\ \A r : ReadyInv(Start(s, r), k)
           /\ \A id, ok, g : ReadyInv(replyToPage(s, id, ok, g), k) /\ ReadyInv(Resolve(s, id, ok), k)
           /\ \A g : ReadyInv(notifyPlaneReady(s, g), k) /\ ReadyInv(notifyPlaneUnavailable(s, g), k)
           /\ ReadyInv(ensureRuntimeDataPort(s), k) /\ ReadyInv(maybeDisconnectRuntimeDataPort(s), k)
           /\ ReadyInv(discardFailedOpenDataPort(s), k)
           /\ \A t, op, next : ReadyInv(sendBackgroundRequest(s, t, op, next), k)
           /\ \A op, tok, mode : ReadyInv(SendAndForget(s, op, tok, mode), k)
           /\ \A t : ReadyInv(releaseNmOpenAttempt(s, t), k)
           /\ ReadyInv(rejectPendingSpawns(s), k)
BY DEF ReadyInv, HasReadiness, Put, Later, Goto, Await, Return, End, Start, replyToPage, Resolve,
       notifyPlaneReady, notifyPlaneUnavailable, ensureRuntimeDataPort, maybeDisconnectRuntimeDataPort,
       discardFailedOpenDataPort, sendBackgroundRequest, SendAndForget, releaseNmOpenAttempt,
       rejectPendingSpawns

-----------------------------------------------------------------------------
(* Generations, prerequisites and the tail of a despawn *)

LEMMA NewReadiness ==
    ASSUME NEW g \in Nat
    PROVE  [NoReady EXCEPT !.gen = g] = [gen |-> g, local |-> FALSE, auth |-> FALSE]
<1> DEFINE r == [NoReady EXCEPT !.gen = g]
<1>1. /\ r \in [gen : Nat, local : BOOLEAN, auth : BOOLEAN]
      /\ r.gen = g /\ r.local = FALSE /\ r.auth = FALSE
  BY DEF NoReady
<1> HIDE DEF r
<1>2. r = [gen |-> r.gen, local |-> r.local, auth |-> r.auth]
  BY <1>1
<1>3. r = [gen |-> g, local |-> FALSE, auth |-> FALSE]
  BY <1>1, <1>2
<1> QED
  BY <1>3 DEF r

\* A new generation is not ready, and nothing it needs is there.
LEMMA BeginReady ==
    ASSUME NEW k \in Nat, NEW s, ReadyInv(s, k)
    PROVE  ReadyInv(beginPlaneGeneration(s), k)
<1> DEFINE n == [s EXCEPT !.gen = @ + 1, !.ready = 0, !.waiter = NoWaiter,
                          !.readiness = [NoReady EXCEPT !.gen = s.gen + 1],
                          !.timers = @ \ {s.waiter}]
<1>1. ReadyInv(n, k)
  <2>1. [NoReady EXCEPT !.gen = s.gen + 1] = [gen |-> s.gen + 1, local |-> FALSE, auth |-> FALSE]
    BY NewReadiness DEF ReadyInv
  <2>2. /\ n.gen = s.gen + 1 /\ n.ready = 0
        /\ n.readiness = [gen |-> s.gen + 1, local |-> FALSE, auth |-> FALSE]
        /\ HasReadiness(n) /\ n.waiter = NoWaiter
    BY <2>1 DEF ReadyInv, HasReadiness
  <2> HIDE DEF n
  <2> QED
    BY <2>2 DEF ReadyInv
<1>2. beginPlaneGeneration(s) \in {n, Resolve(n, s.waiter.id, FALSE)}
  BY DEF beginPlaneGeneration, n
<1> HIDE DEF n
<1>3. ReadyInv(Resolve(n, s.waiter.id, FALSE), k)
  BY <1>1, AsideSteps
<1> QED
  BY <1>1, <1>2, <1>3

\* Only the current generation gains a prerequisite, and it is ready once it
\* has both.
LEMMA MarkReady ==
    ASSUME NEW k \in Nat, NEW s, ReadyInv(s, k), NEW g, NEW which \in {"local", "auth"}
    PROVE  ReadyInv(markPlanePrerequisite(s, g, which), k)
<1> DEFINE had == IF s.readiness.gen = g THEN s.readiness ELSE [NoReady EXCEPT !.gen = g]
           now == [had EXCEPT ![which] = TRUE]
           set == [s EXCEPT !.readiness = now, !.ready = g]
           told == IF s.ready = g THEN set ELSE notifyPlaneReady(set, g)
           off == [told EXCEPT !.waiter = NoWaiter, !.timers = @ \ {s.waiter}]
<1>1. CASE s.gen # g
  BY <1>1 DEF markPlanePrerequisite
<1>2. CASE s.gen = g /\ ~(now.local /\ now.auth)
  <2>1. markPlanePrerequisite(s, g, which) = [s EXCEPT !.readiness = now]
    BY <1>2 DEF markPlanePrerequisite
  <2>2. now \in [gen : Nat, local : BOOLEAN, auth : BOOLEAN]
    BY <1>2 DEF ReadyInv, NoReady
  <2>3. s.ready = 0
    <3>1. SUFFICES ASSUME s.ready # 0 PROVE FALSE
      OBVIOUS
    <3>2. had = [gen |-> g, local |-> TRUE, auth |-> TRUE]
      BY <1>2, <3>1 DEF ReadyInv
    <3> QED
      BY <1>2, <3>2
  <2> HIDE DEF now
  <2> QED
    BY <2>1, <2>2, <2>3 DEF ReadyInv, HasReadiness
<1>3. CASE s.gen = g /\ now.local /\ now.auth
  <2>1. now = [gen |-> g, local |-> TRUE, auth |-> TRUE]
    <3>1. had \in [gen : Nat, local : BOOLEAN, auth : BOOLEAN] /\ had.gen = g
      BY <1>3 DEF ReadyInv, NoReady
    <3> HIDE DEF had
    <3>2. now \in [gen : Nat, local : BOOLEAN, auth : BOOLEAN] /\ now.gen = g
      BY <3>1
    <3> HIDE DEF now
    <3>3. now = [gen |-> now.gen, local |-> now.local, auth |-> now.auth]
      BY <3>2
    <3> QED
      BY <1>3, <3>2, <3>3
  <2>2. ReadyInv(set, k)
    <3> HIDE DEF now
    <3> QED
      BY <1>3, <2>1 DEF ReadyInv, HasReadiness
  <2>6. markPlanePrerequisite(s, g, which) = IF s.waiter.gen # g THEN told
                                             ELSE Resolve(off, s.waiter.id, TRUE)
    BY <1>3 DEF markPlanePrerequisite
  <2> HIDE DEF set
  <2>3. ReadyInv(told, k)
    BY <2>2, AsideSteps
  <2> HIDE DEF told
  <2>4. ReadyInv(off, k)
    BY <2>3 DEF ReadyInv, HasReadiness
  <2> HIDE DEF off
  <2>5. ReadyInv(Resolve(off, s.waiter.id, TRUE), k)
    BY <2>4, AsideSteps
  <2> QED
    BY <2>3, <2>5, <2>6
<1> QED
  BY <1>1, <1>2, <1>3

LEMMA MarkBothReady ==
    ASSUME NEW k \in Nat, NEW s, ReadyInv(s, k), NEW g
    PROVE  /\ ReadyInv(markPlaneReady(s, g), k)
           /\ ReadyInv(markPlaneLocalReady(s, g), k)
           /\ ReadyInv(markPlaneAuthoritativeReady(s, g), k)
BY MarkReady DEF markPlaneReady, markPlaneLocalReady, markPlaneAuthoritativeReady

\* The tail of a despawn clears readiness and readyGenerations together, of
\* whatever generation the plane now is.
LEMMA TailReady ==
    ASSUME NEW k \in Nat, NEW s, ReadyInv(s, k), NEW t
    PROVE  ReadyInv(DespawnTail(s, t), k)
<1> DEFINE keep == s.task[t].keep
           cleared ==
             [s EXCEPT !.ports = IF keep THEN @ ELSE {},
                       !.back = @ \cup {[gen |-> p.gen, report |-> p.report, sent |-> FALSE] :
                                          p \in {x \in s.pending : keep}},
                       !.pending = {},
                       !.task = [u \in Task |-> IF @[u].pc = "connecting"
                                                THEN [@[u] EXCEPT !.pc = "connected", !.res = 0]
                                                ELSE @[u]],
                       !.params = FALSE, !.nm = FALSE, !.ready = 0, !.readiness = NoReady]
<1>1. ReadyInv(cleared, k)
  BY DEF ReadyInv, HasReadiness, NoReady
<1>2. DespawnTail(s, t) = Return(maybeDisconnectRuntimeDataPort(cleared), t, 0)
  BY DEF DespawnTail
<1> HIDE DEF cleared
<1> QED
  BY <1>1, <1>2, AsideSteps

-----------------------------------------------------------------------------
(* The functions of the bridge, callees first *)

\* Whatever else the bridge keeps for a plane.
LEMMA OtherMaps ==
    ASSUME NEW k \in Nat, NEW s, ReadyInv(s, k), NEW v
    PROVE  /\ ReadyInv([s EXCEPT !.inPage = v], k) /\ ReadyInv([s EXCEPT !.worker = v], k)
           /\ ReadyInv([s EXCEPT !.record = v], k) /\ ReadyInv([s EXCEPT !.params = v], k)
           /\ ReadyInv([s EXCEPT !.task = v], k) /\ ReadyInv([s EXCEPT !.nm = v], k)
           /\ ReadyInv([s EXCEPT !.session = v], k) /\ ReadyInv([s EXCEPT !.ports = v], k)
           /\ ReadyInv([s EXCEPT !.tries = v], k) /\ ReadyInv([s EXCEPT !.mode = v], k)
           /\ ReadyInv([s EXCEPT !.live = v], k) /\ ReadyInv([s EXCEPT !.pending = v], k)
           /\ ReadyInv([s EXCEPT !.control = v], k) /\ ReadyInv([s EXCEPT !.out = v], k)
           /\ ReadyInv([s EXCEPT !.late = v], k) /\ ReadyInv([s EXCEPT !.back = v], k)
BY DEF ReadyInv, HasReadiness

LEMMA DespawnReady ==
    ASSUME NEW k \in Nat, NEW s, ReadyInv(s, k), NEW t, NEW notify, NEW next
    PROVE  ReadyInv(despawnDataPlane(s, t, notify, next), k)
<1> DEFINE told == IF notify /\ s.gen # 0 THEN notifyPlaneUnavailable(s, s.gen) ELSE s
           new  == beginPlaneGeneration(told)
           cut  == IF s.inPage
                   THEN Put([new EXCEPT !.inPage = FALSE], Msg("disconnectPlane", NoId, s.gen, TRUE))
                   ELSE new
           old  == IF s.worker.gen # 0 THEN s.worker.gen ELSE s.record
           off  == [Goto(Await(cut, t, next), t, "tail") EXCEPT
                      !.worker = NoWorker, !.record = 0, !.task[t].old = old]
<1>1. ReadyInv(new, k)
  BY AsideSteps, BeginReady
<1> HIDE DEF new
<1>2. ReadyInv(cut, k)
  BY <1>1, AsideSteps, OtherMaps
<1> HIDE DEF cut
<1>3. ReadyInv(off, k)
  BY <1>2, AsideSteps, OtherMaps
<1>4. despawnDataPlane(s, t, notify, next)
        \in {off, Put(off, Msg("terminate", <<"task", t>>, old, TRUE))}
  BY DEF despawnDataPlane, off, cut, new
<1> HIDE DEF off
<1> QED
  BY <1>3, <1>4, AsideSteps

LEMMA SpawnReady ==
    ASSUME NEW k \in Nat, NEW s, ReadyInv(s, k), NEW t
    PROVE  ReadyInv(spawnDataPlane(s, t), k)
<1>1. CASE s.mode = "inpage"
  BY <1>1, AsideSteps, OtherMaps, BeginReady DEF spawnDataPlane
<1>2. CASE s.mode # "inpage"
  BY <1>2, AsideSteps, OtherMaps, BeginReady DEF spawnDataPlane
<1> QED
  BY <1>1, <1>2

LEMMA SpawnDoneReady ==
    ASSUME NEW k \in Nat, NEW s, ReadyInv(s, k), NEW t, NEW ok \in BOOLEAN
    PROVE  ReadyInv(SpawnDone(s, t, ok), k)
BY AsideSteps, OtherMaps DEF SpawnDone

LEMMA WorkerSpawnedReady ==
    ASSUME NEW k \in Nat, NEW s, ReadyInv(s, k), NEW t
    PROVE  ReadyInv(WorkerSpawned(s, t), k)
BY AsideSteps, OtherMaps, SpawnDoneReady DEF WorkerSpawned

LEMMA FallbackReady ==
    ASSUME NEW k \in Nat, NEW s, ReadyInv(s, k), NEW t
    PROVE  /\ ReadyInv(FallbackToNm(s, t), k) /\ ReadyInv(AskNm(s, t), k)
           /\ ReadyInv(NmRefused(s, t), k)
<1>1. ReadyInv(FallbackToNm(s, t), k)
  BY AsideSteps, DespawnReady DEF FallbackToNm
<1>2. ReadyInv(AskNm(s, t), k)
  BY AsideSteps, OtherMaps DEF AskNm
<1>3. ReadyInv(NmRefused(s, t), k)
  BY AsideSteps DEF NmRefused
<1> QED
  BY <1>1, <1>2, <1>3

LEMMA NmToldReady ==
    ASSUME NEW k \in Nat, NEW s, ReadyInv(s, k), NEW t
    PROVE  ReadyInv(NmTold(s, t), k)
BY AsideSteps, OtherMaps, MarkBothReady, DespawnReady DEF NmTold

LEMMA WorkerErrorReady ==
    ASSUME NEW k \in Nat, NEW s, ReadyInv(s, k), NEW g
    PROVE  ReadyInv(handleWorkerErrorEvent(s, g), k)
BY AsideSteps, DespawnReady DEF handleWorkerErrorEvent

LEMMA RecoverReady ==
    ASSUME NEW k \in Nat, NEW s, ReadyInv(s, k), NEW t
    PROVE  ReadyInv(Recover(s, t), k)
BY AsideSteps, OtherMaps, SpawnReady DEF Recover

LEMMA OpenReady ==
    ASSUME NEW k \in Nat, NEW s, ReadyInv(s, k), NEW t
    PROVE  /\ \A m : ReadyInv(handleOpenRequest(s, m), k)
           /\ ReadyInv(Opened(s, t), k) /\ ReadyInv(OpenAccepted(s, t), k)
           /\ ReadyInv(HandBack(s, t), k) /\ ReadyInv(HandedBack(s, t), k)
<1>1. ASSUME NEW m PROVE ReadyInv(handleOpenRequest(s, m), k)
  BY AsideSteps, OtherMaps DEF handleOpenRequest
<1>2. ReadyInv(OpenRefused(s, t), k)
  BY AsideSteps DEF OpenRefused
<1>3. ReadyInv(handleOpenSuccess(s, t), k)
  BY AsideSteps, OtherMaps, BeginReady, MarkBothReady, SpawnReady DEF handleOpenSuccess
<1>4. ReadyInv(OpenAccepted(s, t), k)
  BY AsideSteps, OtherMaps, DespawnReady DEF OpenAccepted
<1>5. ReadyInv(HandBack(s, t), k) /\ ReadyInv(HandedBack(s, t), k)
  BY AsideSteps DEF HandBack, HandedBack
<1> QED
  BY <1>1, <1>2, <1>3, <1>4, <1>5 DEF Opened

LEMMA CloseReady ==
    ASSUME NEW k \in Nat, NEW s, ReadyInv(s, k), NEW t
    PROVE  /\ \A m : ReadyInv(handleCloseRequest(s, m), k)
           /\ ReadyInv(CloseAnsweredByBackground(s, t), k) /\ ReadyInv(handleCloseSuccess(s, t), k)
<1>1. ASSUME NEW m PROVE ReadyInv(handleCloseRequest(s, m), k)
  BY AsideSteps DEF handleCloseRequest
<1>2. ReadyInv(CloseAnsweredByBackground(s, t), k)
  BY AsideSteps, OtherMaps, DespawnReady DEF CloseAnsweredByBackground
<1>3. ReadyInv(handleCloseSuccess(s, t), k)
  BY AsideSteps DEF handleCloseSuccess
<1> QED
  BY <1>1, <1>2, <1>3

LEMMA WaitReady ==
    ASSUME NEW k \in Nat, NEW s, ReadyInv(s, k)
    PROVE  /\ \A id, g, tok : ReadyInv(waitForPlaneReady(s, id, g, tok), k)
           /\ \A m : ReadyInv(handlePlaneReadyRequest(s, m), k)
           /\ \A t : ReadyInv(FellBack(s, t), k)
<1>1. ASSUME NEW id, NEW g, NEW tok PROVE ReadyInv(waitForPlaneReady(s, id, g, tok), k)
  <2> DEFINE w == [gen |-> g, id |-> id, tok |-> tok]
             u == [s EXCEPT !.waiter = w, !.timers = @ \cup {w}]
  <2>1. waitForPlaneReady(s, id, g, tok)
          \in {s, replyToPage(s, id, FALSE, 0), replyToPage(s, id, TRUE, 0), u}
    BY DEF waitForPlaneReady
  <2> HIDE DEF w
  <2>2. ReadyInv(u, k)
    BY DEF ReadyInv, HasReadiness
  <2> HIDE DEF u
  <2> QED
    BY <2>1, <2>2, AsideSteps
<1>2. ASSUME NEW m PROVE ReadyInv(handlePlaneReadyRequest(s, m), k)
  BY <1>1, AsideSteps DEF handlePlaneReadyRequest
<1>3. ASSUME NEW t PROVE ReadyInv(FellBack(s, t), k)
  BY <1>1, AsideSteps DEF FellBack
<1> QED
  BY <1>1, <1>2, <1>3

LEMMA DataPortReady ==
    ASSUME NEW k \in Nat, NEW s, ReadyInv(s, k), NEW m
    PROVE  ReadyInv(handleDataPortRequest(s, m), k)
BY OtherMaps, MarkBothReady DEF handleDataPortRequest

LEMMA EndingReady ==
    ASSUME NEW k \in Nat, NEW s, ReadyInv(s, k)
    PROVE  /\ \A how : ReadyInv(reconcileFrameDevice(s, how), k)
           /\ \A t : ReadyInv(Lost(s, t), k) /\ ReadyInv(Purged(s, t), k) /\ ReadyInv(Destroyed(s, t), k)
           /\ ReadyInv(destroyFrameContext(s), k)
<1>1. ASSUME NEW how PROVE ReadyInv(reconcileFrameDevice(s, how), k)
  BY AsideSteps, OtherMaps, DespawnReady DEF reconcileFrameDevice
<1>2. ASSUME NEW t
      PROVE  ReadyInv(Lost(s, t), k) /\ ReadyInv(Purged(s, t), k) /\ ReadyInv(Destroyed(s, t), k)
  BY AsideSteps, OtherMaps, DespawnReady DEF Lost, Purged, Destroyed
<1>3. ReadyInv(destroyFrameContext(s), k)
  BY AsideSteps, OtherMaps DEF destroyFrameContext
<1> QED
  BY <1>1, <1>2, <1>3

LEMMA SwitchReady ==
    ASSUME NEW k \in Nat, NEW s, ReadyInv(s, k)
    PROVE  /\ \A mode : ReadyInv(applyDataPlane(s, mode), k)
           /\ \A t : ReadyInv(SwitchPlane(s, t), k) /\ ReadyInv(SwitchedToNm(s, t), k)
                     /\ ReadyInv(SwitchRefused(s, t), k)
<1>1. ASSUME NEW mode PROVE ReadyInv(applyDataPlane(s, mode), k)
  BY AsideSteps, OtherMaps, DespawnReady DEF applyDataPlane
<1>2. ASSUME NEW t PROVE ReadyInv(respawnPlanesForMode(s, t), k)
  BY AsideSteps, OtherMaps, SpawnReady DEF respawnPlanesForMode
<1>3. ASSUME NEW t PROVE ReadyInv(SwitchPlane(s, t), k)
  BY <1>2, AsideSteps DEF SwitchPlane
<1>4. ASSUME NEW t PROVE ReadyInv(SwitchedToNm(s, t), k)
  BY AsideSteps, OtherMaps, MarkBothReady, DespawnReady DEF SwitchedToNm
<1>5. ASSUME NEW t PROVE ReadyInv(SwitchRefused(s, t), k)
  BY AsideSteps DEF SwitchRefused
<1> QED
  BY <1>1, <1>3, <1>4, <1>5

\* The steps at which a task of the bridge may continue: those that finish a
\* handler, and those whose result the function that awaits them is given.
Outer == {"opened", "hand back", "handed back", "close answered", "closed",
          "fell back", "lost", "purged", "destroyed", "switch",
          "switched", "switch refused", "end"}
Inner == {"ask nm", "nm told", "nm refused", "null", "recover"}
Nested == Inner \cup {"tail", "spawned", "connected", "fallback"}

LEMMA ContinueReady ==
    ASSUME NEW k \in Nat, NEW s, ReadyInv(s, k), NEW t,
           s.task[t].pc \in Outer \cup Nested \cup {"accepted"}
    PROVE  ReadyInv(Continue(s, t), k)
<1> DEFINE pc == s.task[t].pc
<1>1. CASE pc = "tail"
  <2>1. Continue(s, t) = DespawnTail(s, t)
    BY <1>1 DEF Continue
  <2> QED
    BY <2>1, TailReady
<1>2. CASE pc = "spawned"
  <2>1. Continue(s, t) = WorkerSpawned(s, t)
    BY <1>2 DEF Continue
  <2> QED
    BY <2>1, WorkerSpawnedReady
<1>3. CASE pc = "connected"
  <2>1. Continue(s, t) = SpawnDone(s, t, s.task[t].res # 0)
    BY <1>3 DEF Continue
  <2> QED
    BY <2>1, SpawnDoneReady
<1>4. CASE pc = "fallback"
  <2>1. Continue(s, t) = FallbackToNm(s, t)
    BY <1>4 DEF Continue
  <2> QED
    BY <2>1, FallbackReady
<1>5. CASE pc = "ask nm"
  <2>1. Continue(s, t) = AskNm(s, t)
    BY <1>5 DEF Continue
  <2> QED
    BY <2>1, FallbackReady
<1>6. CASE pc = "nm told"
  <2>1. Continue(s, t) = NmTold(s, t)
    BY <1>6 DEF Continue
  <2> QED
    BY <2>1, NmToldReady
<1>7. CASE pc = "nm refused"
  <2>1. Continue(s, t) = NmRefused(s, t)
    BY <1>7 DEF Continue
  <2> QED
    BY <2>1, FallbackReady
<1>8. CASE pc = "null"
  <2>1. Continue(s, t) = Return(s, t, 0)
    BY <1>8 DEF Continue
  <2> QED
    BY <2>1, AsideSteps
<1>9. CASE pc = "recover"
  <2>1. Continue(s, t) = Recover(s, t)
    BY <1>9 DEF Continue
  <2> QED
    BY <2>1, RecoverReady
<1>10. CASE pc = "opened"
  <2>1. Continue(s, t) = Opened(s, t)
    BY <1>10 DEF Continue
  <2> QED
    BY <2>1, OpenReady
<1>11. CASE pc = "accepted"
  <2>1. Continue(s, t) = OpenAccepted(s, t)
    BY <1>11 DEF Continue
  <2> QED
    BY <2>1, OpenReady
<1>12. CASE pc = "hand back"
  <2>1. Continue(s, t) = HandBack(s, t)
    BY <1>12 DEF Continue
  <2> QED
    BY <2>1, OpenReady
<1>13. CASE pc = "handed back"
  <2>1. Continue(s, t) = HandedBack(s, t)
    BY <1>13 DEF Continue
  <2> QED
    BY <2>1, OpenReady
<1>14. CASE pc = "close answered"
  <2>1. Continue(s, t) = CloseAnsweredByBackground(s, t)
    BY <1>14 DEF Continue
  <2> QED
    BY <2>1, CloseReady
<1>15. CASE pc = "closed"
  <2>1. Continue(s, t) = handleCloseSuccess(s, t)
    BY <1>15 DEF Continue
  <2> QED
    BY <2>1, CloseReady
<1>16. CASE pc = "fell back"
  <2>1. Continue(s, t) = FellBack(s, t)
    BY <1>16 DEF Continue
  <2> QED
    BY <2>1, WaitReady
<1>17. CASE pc = "lost"
  <2>1. Continue(s, t) = Lost(s, t)
    BY <1>17 DEF Continue
  <2> QED
    BY <2>1, EndingReady
<1>18. CASE pc = "purged"
  <2>1. Continue(s, t) = Purged(s, t)
    BY <1>18 DEF Continue
  <2> QED
    BY <2>1, EndingReady
<1>19. CASE pc = "destroyed"
  <2>1. Continue(s, t) = Destroyed(s, t)
    BY <1>19 DEF Continue
  <2> QED
    BY <2>1, EndingReady
<1>20. CASE pc = "switch"
  <2>1. Continue(s, t) = SwitchPlane(s, t)
    BY <1>20 DEF Continue
  <2> QED
    BY <2>1, SwitchReady
<1>21. CASE pc = "switched"
  <2>1. Continue(s, t) = SwitchedToNm(s, t)
    BY <1>21 DEF Continue
  <2> QED
    BY <2>1, SwitchReady
<1>22. CASE pc = "switch refused"
  <2>1. Continue(s, t) = SwitchRefused(s, t)
    BY <1>22 DEF Continue
  <2> QED
    BY <2>1, SwitchReady
<1>23. CASE pc = "end"
  <2>1. Continue(s, t) = End(s, t)
    BY <1>23 DEF Continue
  <2> QED
    BY <2>1, AsideSteps
<1> QED
  BY <1>1, <1>2, <1>3, <1>4, <1>5, <1>6, <1>7, <1>8, <1>9, <1>10, <1>11, <1>12, <1>13, <1>14, <1>15, <1>16, <1>17, <1>18, <1>19, <1>20, <1>21, <1>22, <1>23 DEF Outer, Nested, Inner


-----------------------------------------------------------------------------
(* The bridge's maps are typed, name no generation that has not begun, and *)
(* a task that has been awaited knows the step that awaits it              *)

\* The generations a bridge whose spawnGen is g may name.
Past(g) == 0..g

LEMMA PastFacts ==
    ASSUME NEW g \in Nat
    PROVE  /\ 0 \in Past(g) /\ g \in Past(g) /\ Past(g) \subseteq Nat
           /\ Past(g) \subseteq Past(g + 1) /\ g + 1 \in Past(g + 1) /\ 1 \in Past(g + 1)
           /\ \A x \in Past(g) : Past(x) \subseteq Past(g)
           /\ \A x \in Nat : x <= g => Past(x) \subseteq Past(g)
BY DEF Past

Ids == ({"none", "open", "wait", "undo", "close", "drop", "teardown",
         "disconnect", "revoked"} \X Nat) \cup ({"task"} \X Task)
PageTypes == {"open", "close", "wait", "dataPort", "spawned", "planeResponse",
              "planeEvent", "workerError", "gone"}
BridgeTypes == {"response", "planeReady", "planeGone", "wire", "connect",
                "disconnectPlane", "spawn", "terminate", "event"}
PageMsg(G)   == [type : PageTypes, id : Ids, gen : Past(G), ok : BOOLEAN]
BridgeMsg(G) == [type : BridgeTypes, id : Ids, gen : Past(G), ok : BOOLEAN]

\* A task that waits, whose result the function that awaits it is given.
Awaits == {"background", "hash", "plane hash", "spawning", "connecting"}
Pcs == {"idle", "accepted"} \cup Awaits \cup Outer \cup Nested

\* The steps that await each other, the innermost first; the last one belongs
\* to the handler the task was started for.  An open awaits the plane of its
\* own generation, so the first one has begun.
Steps(G) == IF G = 0 THEN Outer \cup Inner ELSE Outer \cup Inner \cup {"accepted"}
Stacks(G) == {q \in Seq(Steps(G)) : q # <<>> => q[Len(q)] \in Outer \cup {"accepted"}}

TaskRec(G) == [pc : Pcs, ret : Stacks(G), tok : Token \cup {None}, gen : Past(G), old : Past(G),
               id : Ids, rewire : BOOLEAN, retire : BOOLEAN, keep : BOOLEAN,
               res : Nat, nmTry : BOOLEAN, mode : Modes]
\* What an accepted open reports to the page is a generation.
Tasks(G) == {r \in TaskRec(G) : /\ r.pc \in Awaits \cup Nested => r.ret # <<>>
                                /\ r.pc = "accepted" => r.res \in Past(G)}

Readiness == [gen : Nat, local : BOOLEAN, auth : BOOLEAN]
Waiter(G) == [gen : Past(G), id : Ids, tok : Token \cup {None}]
Worker(G) == [gen : Past(G), up : BOOLEAN, real : BOOLEAN]
Port(G) == [gen : Past(G), own : BOOLEAN]
Pending(G) == [gen : Past(G), report : Report]
Result(G) == [gen : Past(G), report : Report, sent : BOOLEAN]
Request == [op : {"open", "close", "plane", "clean", "gone"}, tok : Token \cup {None},
            task : Task \cup {0}, mode : Modes]

BridgeRec(G) == [live : BOOLEAN, session : Token \cup {None}, mode : Modes, gen : Nat,
                 readiness : Readiness, ready : Nat,
                 waiter : Waiter(G), timers : SUBSET Waiter(G),
                 worker : Worker(G), record : Past(G),
                 params : BOOLEAN, inPage : BOOLEAN, nm : BOOLEAN,
                 ports : SUBSET Port(G), tries : Int,
                 runtimePort : BOOLEAN, pending : SUBSET Pending(G),
                 control : Seq(Request), task : [Task -> Tasks(G)],
                 out : Seq(BridgeMsg(G)), late : Seq(BridgeMsg(G)), back : SUBSET Result(G)]

\* Every generation the bridge names has begun.
Typed(s) == s \in BridgeRec(s.gen)

LEMMA StepFacts ==
    ASSUME NEW G \in Nat
    PROVE  /\ Outer \cup Inner \subseteq Steps(G) /\ Steps(G) \subseteq Outer \cup Inner \cup {"accepted"}
           /\ Steps(G) \subseteq Steps(G + 1) /\ "accepted" \in Steps(G + 1)
           /\ "accepted" \in Steps(G) => 1 \in Past(G)
           /\ Outer \cap Inner = {} /\ "accepted" \notin Outer \cup Inner
<1>1. G + 1 # 0 /\ (G # 0 => 1 \in Past(G))
  BY DEF Past
<1>2. Outer \cap Inner = {} /\ "accepted" \notin Outer \cup Inner
  BY DEF Outer, Inner
<1> QED
  BY <1>1, <1>2 DEF Steps

LEMMA Stacked ==
    ASSUME NEW G \in Nat
    PROVE  /\ <<>> \in Stacks(G) /\ <<"end">> \in Stacks(G) /\ <<"fell back">> \in Stacks(G)
           /\ \A q \in Stacks(G), x \in Steps(G) :
                (x \in Inner => q # <<>>) => <<x>> \o q \in Stacks(G) /\ <<x>> \o q # <<>>
           /\ \A q \in Stacks(G) : q # <<>> =>
                /\ Head(q) \in Steps(G) /\ Tail(q) \in Stacks(G)
                /\ Head(q) \in Inner => Tail(q) # <<>>
<1> DEFINE S == Steps(G)
           O == Outer \cup {"accepted"}
<1>0. /\ Stacks(G) = {q \in Seq(S) : q # <<>> => q[Len(q)] \in O}
      /\ \A x \in S : x \notin Inner => x \in O
      /\ O \cap Inner = {} /\ Outer \subseteq S /\ Outer \subseteq O
  BY StepFacts DEF Stacks
<1> HIDE DEF S, O
<1>1. <<>> \in Stacks(G) /\ <<"end">> \in Stacks(G) /\ <<"fell back">> \in Stacks(G)
  <2>1. "end" \in Outer /\ "fell back" \in Outer
    BY DEF Outer
  <2>2. \A x \in S : <<x>> \in Seq(S) /\ Len(<<x>>) = 1 /\ <<x>>[1] = x
    OBVIOUS
  <2>3. <<>> \in Seq(S)
    OBVIOUS
  <2>4. \A x \in Outer : <<x>> \in Stacks(G)
    BY <1>0, <2>2
  <2> QED
    BY <1>0, <2>1, <2>3, <2>4
<1>2. ASSUME NEW q \in Stacks(G), NEW x \in S, x \in Inner => q # <<>>
      PROVE  <<x>> \o q \in Stacks(G) /\ <<x>> \o q # <<>>
  <2> DEFINE p == <<x>> \o q
  <2>1. q \in Seq(S) /\ (q # <<>> => q[Len(q)] \in O)
    BY <1>0
  <2>2. p \in Seq(S) /\ Len(p) = Len(q) + 1 /\ p[1] = x
        /\ \A i \in 1..Len(q) : p[i + 1] = q[i]
    BY <2>1
  <2>3. CASE q = <<>>
    <3>1. Len(q) = 0
      BY <2>3
    <3>2. x \in O
      BY <1>0, <2>3, <1>2
    <3>3. p[Len(p)] \in O /\ p # <<>>
      BY <2>2, <3>1, <3>2
    <3> HIDE DEF p
    <3> QED
      BY <1>0, <2>2, <3>3 DEF p
  <2>4. CASE q # <<>>
    <3>1. Len(q) \in Nat /\ Len(q) # 0
      BY <2>1, <2>4
    <3>2. p[Len(p)] = q[Len(q)]
      BY <2>2, <3>1
    <3>3. p # <<>>
      BY <2>2, <3>1
    <3> HIDE DEF p
    <3> QED
      BY <1>0, <2>1, <2>2, <2>4, <3>2, <3>3 DEF p
  <2> QED
    BY <2>3, <2>4
<1>3. ASSUME NEW q \in Stacks(G), q # <<>>
      PROVE  /\ Head(q) \in S /\ Tail(q) \in Stacks(G)
             /\ Head(q) \in Inner => Tail(q) # <<>>
  <2>1. q \in Seq(S) /\ q[Len(q)] \in O /\ Len(q) \in Nat /\ Len(q) # 0
    BY <1>0, <1>3
  <2>2. /\ Head(q) = q[1] /\ Head(q) \in S
        /\ Tail(q) \in Seq(S) /\ Len(Tail(q)) = Len(q) - 1
        /\ \A i \in 1..(Len(q) - 1) : Tail(q)[i] = q[i + 1]
    BY <2>1
  <2>3. Tail(q) # <<>> => Len(q) - 1 \in 1..(Len(q) - 1)
    BY <2>1, <2>2
  <2>4. Tail(q) # <<>> => Tail(q)[Len(Tail(q))] = q[Len(q)]
    BY <2>1, <2>2, <2>3
  <2>5. Tail(q) \in Stacks(G)
    BY <1>0, <2>1, <2>2, <2>4
  <2>6. Head(q) \in Inner => Len(q) # 1
    BY <1>0, <2>1, <2>2
  <2>7. Head(q) \in Inner => Tail(q) # <<>>
    <3>1. Len(q) # 1 => Len(Tail(q)) # 0
      BY <2>1, <2>2
    <3>2. \A p : p = <<>> => Len(p) = 0
      OBVIOUS
    <3> QED
      BY <2>6, <3>1, <3>2
  <2> QED
    BY <2>2, <2>5, <2>7
<1> QED
  BY <1>1, <1>2, <1>3 DEF S

\* What was begun stays begun.
LEMMA Widen ==
    ASSUME NEW G \in Nat, NEW H \in Nat, G <= H
    PROVE  /\ BridgeRec(G) \subseteq BridgeRec(H) /\ Tasks(G) \subseteq Tasks(H)
           /\ PageMsg(G) \subseteq PageMsg(H) /\ BridgeMsg(G) \subseteq BridgeMsg(H)
           /\ Seq(PageMsg(G)) \subseteq Seq(PageMsg(H)) /\ Seq(BridgeMsg(G)) \subseteq Seq(BridgeMsg(H))
           /\ Result(G) \subseteq Result(H)
<1>1. Past(G) \subseteq Past(H)
  BY PastFacts
<1>2. Steps(G) \subseteq Steps(H)
  BY DEF Steps
<1>3. Stacks(G) \subseteq Stacks(H)
  <2>1. Seq(Steps(G)) \subseteq Seq(Steps(H))
    BY <1>2
  <2> QED
    BY <2>1 DEF Stacks
<1>4. Tasks(G) \subseteq Tasks(H)
  <2>1. TaskRec(G) \subseteq TaskRec(H)
    BY <1>1, <1>3 DEF TaskRec
  <2> QED
    BY <1>1, <2>1 DEF Tasks
<1>5. /\ Waiter(G) \subseteq Waiter(H) /\ Worker(G) \subseteq Worker(H)
      /\ Port(G) \subseteq Port(H) /\ Pending(G) \subseteq Pending(H)
      /\ Result(G) \subseteq Result(H)
  BY <1>1 DEF Waiter, Worker, Port, Pending, Result
<1>6. PageMsg(G) \subseteq PageMsg(H) /\ BridgeMsg(G) \subseteq BridgeMsg(H)
  BY <1>1 DEF PageMsg, BridgeMsg
<1>7. Seq(PageMsg(G)) \subseteq Seq(PageMsg(H)) /\ Seq(BridgeMsg(G)) \subseteq Seq(BridgeMsg(H))
  BY <1>6
<1>8. [Task -> Tasks(G)] \subseteq [Task -> Tasks(H)]
  BY <1>4
<1>9. BridgeRec(G) \subseteq BridgeRec(H)
  <2> SUFFICES ASSUME NEW s \in BridgeRec(G) PROVE s \in BridgeRec(H)
    OBVIOUS
  <2>1. /\ s.timers \subseteq Waiter(H) /\ s.ports \subseteq Port(H)
        /\ s.pending \subseteq Pending(H) /\ s.back \subseteq Result(H)
        /\ s.task \in [Task -> Tasks(H)]
        /\ s.out \in Seq(BridgeMsg(H)) /\ s.late \in Seq(BridgeMsg(H))
        /\ s.waiter \in Waiter(H) /\ s.worker \in Worker(H) /\ s.record \in Past(H)
    BY <1>1, <1>5, <1>7, <1>8 DEF BridgeRec
  <2> QED
    BY <2>1 DEF BridgeRec
<1> QED
  BY <1>4, <1>5, <1>6, <1>7, <1>9

-----------------------------------------------------------------------------
(* A field of a typed bridge, or of a task, at a time *)

LEMMA FieldTypes ==
    ASSUME NEW G \in Nat, NEW s \in BridgeRec(G)
    PROVE  /\ \A v \in BOOLEAN : /\ [s EXCEPT !.live = v] \in BridgeRec(G)
                                 /\ [s EXCEPT !.params = v] \in BridgeRec(G)
                                 /\ [s EXCEPT !.inPage = v] \in BridgeRec(G)
                                 /\ [s EXCEPT !.nm = v] \in BridgeRec(G)
                                 /\ [s EXCEPT !.runtimePort = v] \in BridgeRec(G)
           /\ \A v \in Token \cup {None} : [s EXCEPT !.session = v] \in BridgeRec(G)
           /\ \A v \in Modes : [s EXCEPT !.mode = v] \in BridgeRec(G)
           /\ \A v \in Nat : /\ [s EXCEPT !.gen = v] \in BridgeRec(G)
                             /\ [s EXCEPT !.ready = v] \in BridgeRec(G)
           /\ \A v \in Past(G) : [s EXCEPT !.record = v] \in BridgeRec(G)
           /\ \A v \in Int : [s EXCEPT !.tries = v] \in BridgeRec(G)
           /\ \A v \in Readiness :
                [s EXCEPT !.readiness = v] \in BridgeRec(G)
           /\ \A v \in Waiter(G) : [s EXCEPT !.waiter = v] \in BridgeRec(G)
           /\ \A v \in SUBSET Waiter(G) : [s EXCEPT !.timers = v] \in BridgeRec(G)
           /\ \A v \in Worker(G) :
                [s EXCEPT !.worker = v] \in BridgeRec(G)
           /\ \A v \in SUBSET Port(G) : [s EXCEPT !.ports = v] \in BridgeRec(G)
           /\ \A v \in SUBSET Pending(G) : [s EXCEPT !.pending = v] \in BridgeRec(G)
           /\ \A v \in SUBSET Result(G) : [s EXCEPT !.back = v] \in BridgeRec(G)
           /\ \A v \in Seq(Request) : [s EXCEPT !.control = v] \in BridgeRec(G)
           /\ \A v \in [Task -> Tasks(G)] : [s EXCEPT !.task = v] \in BridgeRec(G)
           /\ \A v \in Seq(BridgeMsg(G)) : /\ [s EXCEPT !.out = v] \in BridgeRec(G)
                                      /\ [s EXCEPT !.late = v] \in BridgeRec(G)
<1>1. ASSUME NEW v \in BOOLEAN
      PROVE  /\ [s EXCEPT !.live = v] \in BridgeRec(G)
             /\ [s EXCEPT !.params = v] \in BridgeRec(G)
             /\ [s EXCEPT !.inPage = v] \in BridgeRec(G)
             /\ [s EXCEPT !.nm = v] \in BridgeRec(G)
             /\ [s EXCEPT !.runtimePort = v] \in BridgeRec(G)
  <2>1. [s EXCEPT !.live = v] \in BridgeRec(G)
    BY DEF BridgeRec
  <2>2. [s EXCEPT !.params = v] \in BridgeRec(G)
    BY DEF BridgeRec
  <2>3. [s EXCEPT !.inPage = v] \in BridgeRec(G)
    BY DEF BridgeRec
  <2>4. [s EXCEPT !.nm = v] \in BridgeRec(G)
    BY DEF BridgeRec
  <2>5. [s EXCEPT !.runtimePort = v] \in BridgeRec(G)
    BY DEF BridgeRec
  <2> QED
    BY <2>1, <2>2, <2>3, <2>4, <2>5
<1>2. ASSUME NEW v \in Token \cup {None}
      PROVE  [s EXCEPT !.session = v] \in BridgeRec(G)
  BY DEF BridgeRec
<1>3. ASSUME NEW v \in Modes
      PROVE  [s EXCEPT !.mode = v] \in BridgeRec(G)
  BY DEF BridgeRec
<1>4. ASSUME NEW v \in Nat
      PROVE  /\ [s EXCEPT !.gen = v] \in BridgeRec(G)
             /\ [s EXCEPT !.ready = v] \in BridgeRec(G)
  <2>1. [s EXCEPT !.gen = v] \in BridgeRec(G)
    BY DEF BridgeRec
  <2>2. [s EXCEPT !.ready = v] \in BridgeRec(G)
    BY DEF BridgeRec
  <2> QED
    BY <2>1, <2>2
<1>16. ASSUME NEW v \in Past(G)
       PROVE  [s EXCEPT !.record = v] \in BridgeRec(G)
  BY DEF BridgeRec
<1>5. ASSUME NEW v \in Int
      PROVE  [s EXCEPT !.tries = v] \in BridgeRec(G)
  BY DEF BridgeRec
<1>6. ASSUME NEW v \in Readiness
      PROVE  [s EXCEPT !.readiness = v] \in BridgeRec(G)
  BY DEF BridgeRec
<1>7. ASSUME NEW v \in Waiter(G)
      PROVE  [s EXCEPT !.waiter = v] \in BridgeRec(G)
  BY DEF BridgeRec
<1>8. ASSUME NEW v \in SUBSET Waiter(G)
      PROVE  [s EXCEPT !.timers = v] \in BridgeRec(G)
  BY DEF BridgeRec
<1>9. ASSUME NEW v \in Worker(G)
      PROVE  [s EXCEPT !.worker = v] \in BridgeRec(G)
  BY DEF BridgeRec
<1>10. ASSUME NEW v \in SUBSET Port(G)
      PROVE  [s EXCEPT !.ports = v] \in BridgeRec(G)
  BY DEF BridgeRec
<1>11. ASSUME NEW v \in SUBSET Pending(G)
      PROVE  [s EXCEPT !.pending = v] \in BridgeRec(G)
  BY DEF BridgeRec
<1>12. ASSUME NEW v \in SUBSET Result(G)
      PROVE  [s EXCEPT !.back = v] \in BridgeRec(G)
  BY DEF BridgeRec
<1>13. ASSUME NEW v \in Seq(Request)
      PROVE  [s EXCEPT !.control = v] \in BridgeRec(G)
  BY DEF BridgeRec
<1>14. ASSUME NEW v \in [Task -> Tasks(G)]
      PROVE  [s EXCEPT !.task = v] \in BridgeRec(G)
  BY DEF BridgeRec
<1>15. ASSUME NEW v \in Seq(BridgeMsg(G))
      PROVE  /\ [s EXCEPT !.out = v] \in BridgeRec(G)
             /\ [s EXCEPT !.late = v] \in BridgeRec(G)
  <2>1. [s EXCEPT !.out = v] \in BridgeRec(G)
    BY DEF BridgeRec
  <2>2. [s EXCEPT !.late = v] \in BridgeRec(G)
    BY DEF BridgeRec
  <2> QED
    BY <2>1, <2>2
<1> QED
  BY <1>1, <1>2, <1>3, <1>4, <1>5, <1>6, <1>7, <1>8, <1>9, <1>10, <1>11, <1>12, <1>13, <1>14, <1>15, <1>16

LEMMA TaskFields ==
    ASSUME NEW G \in Nat, NEW r \in Tasks(G)
    PROVE  /\ r \in TaskRec(G) /\ (r.pc \in Awaits \cup Nested => r.ret # <<>>)
           /\ r.pc = "accepted" => r.res \in Past(G)
           /\ \A v \in Past(G) : /\ [r EXCEPT !.gen = v] \in Tasks(G)
                                 /\ [r EXCEPT !.old = v] \in Tasks(G)
           /\ \A v \in Nat : (r.pc = "accepted" => v \in Past(G)) => [r EXCEPT !.res = v] \in Tasks(G)
           /\ \A v \in BOOLEAN : /\ [r EXCEPT !.retire = v] \in Tasks(G)
                                 /\ [r EXCEPT !.keep = v] \in Tasks(G)
                                 /\ [r EXCEPT !.nmTry = v] \in Tasks(G)
           /\ \A v \in Token \cup {None} : [r EXCEPT !.tok = v] \in Tasks(G)
           /\ \A v \in Stacks(G) : v # <<>> => [r EXCEPT !.ret = v] \in Tasks(G)
           /\ \A v \in Pcs : (v \in Awaits \cup Nested => r.ret # <<>>)
                             /\ (v = "accepted" => r.res \in Past(G)) => [r EXCEPT !.pc = v] \in Tasks(G)
<1>1. /\ r \in TaskRec(G) /\ (r.pc \in Awaits \cup Nested => r.ret # <<>>)
      /\ r.pc = "accepted" => r.res \in Past(G)
  BY DEF Tasks
<1>2. ASSUME NEW v \in Past(G)
      PROVE  [r EXCEPT !.gen = v] \in Tasks(G) /\ [r EXCEPT !.old = v] \in Tasks(G)
  BY <1>1 DEF Tasks, TaskRec
<1>7. ASSUME NEW v \in Nat, r.pc = "accepted" => v \in Past(G)
      PROVE  [r EXCEPT !.res = v] \in Tasks(G)
  BY <1>1, <1>7 DEF Tasks, TaskRec
<1>3. ASSUME NEW v \in BOOLEAN
      PROVE  /\ [r EXCEPT !.retire = v] \in Tasks(G) /\ [r EXCEPT !.keep = v] \in Tasks(G)
             /\ [r EXCEPT !.nmTry = v] \in Tasks(G)
  BY <1>1 DEF Tasks, TaskRec
<1>4. ASSUME NEW v \in Token \cup {None}
      PROVE  [r EXCEPT !.tok = v] \in Tasks(G)
  BY <1>1 DEF Tasks, TaskRec
<1>5. ASSUME NEW v \in Stacks(G), v # <<>>
      PROVE  [r EXCEPT !.ret = v] \in Tasks(G)
  BY <1>1, <1>5 DEF Tasks, TaskRec
<1>6. ASSUME NEW v \in Pcs, v \in Awaits \cup Nested => r.ret # <<>>,
             v = "accepted" => r.res \in Past(G)
      PROVE  [r EXCEPT !.pc = v] \in Tasks(G)
  BY <1>1, <1>6 DEF Tasks, TaskRec
<1> QED
  BY <1>1, <1>2, <1>3, <1>4, <1>5, <1>6, <1>7

LEMMA TaskTypes ==
    ASSUME NEW G \in Nat, NEW s \in BridgeRec(G), NEW t \in Task
    PROVE  /\ s.task[t] \in Tasks(G)
           /\ \A r \in Tasks(G) : [s EXCEPT !.task[t] = r] \in BridgeRec(G)
<1>1. s.task \in [Task -> Tasks(G)]
  BY DEF BridgeRec
<1>2. ASSUME NEW r \in Tasks(G)
      PROVE  [s EXCEPT !.task[t] = r] \in BridgeRec(G)
  <2>1. [s.task EXCEPT ![t] = r] \in [Task -> Tasks(G)]
    BY <1>1
  <2> QED
    BY <2>1, FieldTypes
<1> QED
  BY <1>1, <1>2

LEMMA IdleType ==
    ASSUME NEW G \in Nat
    PROVE  Idle \in Tasks(G)
<1>1. <<>> \in Stacks(G) /\ 0 \in Past(G)
  BY Stacked, PastFacts
<1> QED
  BY <1>1 DEF Idle, Tasks, TaskRec, Pcs, Ids, NoId, Modes, Nested, Awaits, Inner

-----------------------------------------------------------------------------
(* Stretches that neither move a task nor ask the background *)

\* A stretch that neither moves a task nor asks the background.
Same(s, u) == /\ Typed(u) /\ u.task = s.task /\ u.control = s.control
              /\ Past(s.gen) \subseteq Past(u.gen)

LEMMA SameChain ==
    ASSUME NEW s, NEW u, NEW v, Same(s, u), Same(u, v)
    PROVE  Same(s, v)
BY DEF Same

LEMMA Fields ==
    ASSUME NEW s, Typed(s)
    PROVE  /\ DOMAIN s = {"live", "session", "mode", "gen", "readiness", "ready", "waiter",
                          "timers", "worker", "record", "params", "inPage", "nm", "ports",
                          "tries", "runtimePort", "pending", "control", "task", "out",
                          "late", "back"}
           /\ s.live \in BOOLEAN /\ s.session \in Token \cup {None} /\ s.mode \in Modes
           /\ s.gen \in Nat /\ s.readiness \in Readiness
           /\ s.ready \in Nat /\ s.waiter \in Waiter(s.gen) /\ s.timers \in SUBSET Waiter(s.gen)
           /\ s.worker \in Worker(s.gen) /\ s.record \in Past(s.gen)
           /\ s.params \in BOOLEAN /\ s.inPage \in BOOLEAN /\ s.nm \in BOOLEAN
           /\ s.ports \in SUBSET Port(s.gen) /\ s.tries \in Int
           /\ s.runtimePort \in BOOLEAN /\ s.pending \in SUBSET Pending(s.gen)
           /\ s.control \in Seq(Request) /\ s.task \in [Task -> Tasks(s.gen)]
           /\ s.out \in Seq(BridgeMsg(s.gen)) /\ s.late \in Seq(BridgeMsg(s.gen)) /\ s.back \in SUBSET Result(s.gen)
BY DEF Typed, BridgeRec

LEMMA SameFields ==
    ASSUME NEW s, Typed(s)
    PROVE  /\ Same(s, s)
           /\ \A v \in BOOLEAN : /\ Same(s, [s EXCEPT !.live = v])
                                 /\ Same(s, [s EXCEPT !.params = v])
                                 /\ Same(s, [s EXCEPT !.inPage = v])
                                 /\ Same(s, [s EXCEPT !.nm = v])
                                 /\ Same(s, [s EXCEPT !.runtimePort = v])
           /\ \A v \in Token \cup {None} : Same(s, [s EXCEPT !.session = v])
           /\ \A v \in Modes : Same(s, [s EXCEPT !.mode = v])
           /\ \A v \in Nat : Same(s, [s EXCEPT !.ready = v])
           /\ \A v \in Past(s.gen) : Same(s, [s EXCEPT !.record = v])
           /\ \A v \in Int : Same(s, [s EXCEPT !.tries = v])
           /\ \A v \in Readiness :
                Same(s, [s EXCEPT !.readiness = v])
           /\ \A v \in Waiter(s.gen) : Same(s, [s EXCEPT !.waiter = v])
           /\ \A v \in SUBSET Waiter(s.gen) : Same(s, [s EXCEPT !.timers = v])
           /\ \A v \in Worker(s.gen) :
                Same(s, [s EXCEPT !.worker = v])
           /\ \A v \in SUBSET Port(s.gen) : Same(s, [s EXCEPT !.ports = v])
           /\ \A v \in SUBSET Pending(s.gen) : Same(s, [s EXCEPT !.pending = v])
           /\ \A v \in SUBSET Result(s.gen) : Same(s, [s EXCEPT !.back = v])
           /\ \A v \in Seq(BridgeMsg(s.gen)) : /\ Same(s, [s EXCEPT !.out = v])
                                        /\ Same(s, [s EXCEPT !.late = v])
<1>1. s \in BridgeRec(s.gen) /\ s.gen \in Nat /\ {"task", "control", "gen"} \subseteq DOMAIN s
  BY Fields DEF Typed
<1> QED
  BY <1>1, FieldTypes DEF Same, Typed

LEMMA Messages ==
    ASSUME NEW G \in Nat
    PROVE  /\ NoId \in Ids
           /\ \A t \in Task : <<"task", t>> \in Ids
           /\ \A type \in BridgeTypes, id \in Ids, gen \in Past(G), ok \in BOOLEAN :
                Msg(type, id, gen, ok) \in BridgeMsg(G)
           /\ {"response", "planeReady", "planeGone", "wire", "connect", "disconnectPlane", "spawn",
               "terminate", "event"} \subseteq BridgeTypes
           /\ \A g \in Past(G) : /\ Msg("disconnectPlane", NoId, g, TRUE) \in BridgeMsg(G)
                                 /\ Msg("terminate", NoId, g, TRUE) \in BridgeMsg(G)
                                 /\ Msg("wire", NoId, g, TRUE) \in BridgeMsg(G)
           /\ \A g \in Past(G), t \in Task : /\ Msg("terminate", <<"task", t>>, g, TRUE) \in BridgeMsg(G)
                                            /\ Msg("spawn", <<"task", t>>, g, TRUE) \in BridgeMsg(G)
                                            /\ Msg("connect", <<"task", t>>, g, TRUE) \in BridgeMsg(G)
           /\ \A id \in Ids : Msg("event", id, 0, TRUE) \in BridgeMsg(G)
<1>1. NoId \in Ids /\ \A t \in Task : <<"task", t>> \in Ids
  BY DEF NoId, Ids
<1>2. \A type \in BridgeTypes, id \in Ids, gen \in Past(G), ok \in BOOLEAN :
        Msg(type, id, gen, ok) \in BridgeMsg(G)
  BY DEF Msg, BridgeMsg
<1>3. {"response", "planeReady", "planeGone", "wire", "connect", "disconnectPlane", "spawn",
       "terminate", "event"} \subseteq BridgeTypes
  BY DEF BridgeTypes
<1>4. ASSUME NEW g \in Past(G)
      PROVE  /\ Msg("disconnectPlane", NoId, g, TRUE) \in BridgeMsg(G)
             /\ Msg("terminate", NoId, g, TRUE) \in BridgeMsg(G)
             /\ Msg("wire", NoId, g, TRUE) \in BridgeMsg(G)
  BY <1>1 DEF Msg, BridgeMsg, BridgeTypes
<1>5. ASSUME NEW g \in Past(G), NEW t \in Task
      PROVE  /\ Msg("terminate", <<"task", t>>, g, TRUE) \in BridgeMsg(G)
             /\ Msg("spawn", <<"task", t>>, g, TRUE) \in BridgeMsg(G)
             /\ Msg("connect", <<"task", t>>, g, TRUE) \in BridgeMsg(G)
  BY <1>1 DEF Msg, BridgeMsg, BridgeTypes
<1>6. ASSUME NEW id \in Ids
      PROVE  Msg("event", id, 0, TRUE) \in BridgeMsg(G)
  BY PastFacts DEF Msg, BridgeMsg, BridgeTypes
<1> QED
  BY <1>1, <1>2, <1>3, <1>4, <1>5, <1>6

LEMMA SameMessages ==
    ASSUME NEW s, Typed(s)
    PROVE  /\ \A m \in BridgeMsg(s.gen) : Same(s, Put(s, m)) /\ Same(s, Later(s, m))
           /\ \A id \in Ids, ok \in BOOLEAN :
                /\ \A gen \in Past(s.gen) : Same(s, replyToPage(s, id, ok, gen))
                /\ Same(s, Resolve(s, id, ok)) /\ Same(s, replyToPage(s, id, ok, 0))
           /\ \A g : /\ Same(s, notifyPlaneReady(s, g))
                     /\ Same(s, notifyPlaneUnavailable(s, g))
<1>1. s.out \in Seq(BridgeMsg(s.gen)) /\ s.late \in Seq(BridgeMsg(s.gen)) /\ s.gen \in Nat
      /\ 0 \in Past(s.gen) /\ s.gen \in Past(s.gen)
  BY Fields, PastFacts
<1>2. ASSUME NEW m \in BridgeMsg(s.gen)
      PROVE  Same(s, Put(s, m)) /\ Same(s, Later(s, m))
  <2>1. Append(s.out, m) \in Seq(BridgeMsg(s.gen)) /\ Append(s.late, m) \in Seq(BridgeMsg(s.gen))
    BY <1>1
  <2> QED
    BY <2>1, SameFields DEF Put, Later
<1>3. ASSUME NEW id \in Ids, NEW ok \in BOOLEAN, NEW gen \in Past(s.gen)
      PROVE  Same(s, replyToPage(s, id, ok, gen)) /\ Same(s, Resolve(s, id, ok))
  BY <1>1, <1>2, Messages, SameFields DEF replyToPage, Resolve
<1>4. ASSUME NEW g
      PROVE  Same(s, notifyPlaneReady(s, g)) /\ Same(s, notifyPlaneUnavailable(s, g))
  BY <1>1, <1>2, Messages, SameFields DEF notifyPlaneReady, notifyPlaneUnavailable
<1> QED
  BY <1>1, <1>2, <1>3, <1>4

LEMMA SamePort ==
    ASSUME NEW s, Typed(s)
    PROVE  /\ Same(s, ensureRuntimeDataPort(s)) /\ Same(s, maybeDisconnectRuntimeDataPort(s))
           /\ Same(s, discardFailedOpenDataPort(s))
BY SameFields DEF ensureRuntimeDataPort, maybeDisconnectRuntimeDataPort, discardFailedOpenDataPort

\* A begun generation: what the bridge named is of the past.
LEMMA SameBegin ==
    ASSUME NEW s, s.gen \in Nat, s \in BridgeRec(s.gen + 1)
    PROVE  /\ Typed(beginPlaneGeneration(s)) /\ beginPlaneGeneration(s).gen = s.gen + 1
           /\ beginPlaneGeneration(s).task = s.task
           /\ beginPlaneGeneration(s).control = s.control
           /\ Past(s.gen) \subseteq Past(beginPlaneGeneration(s).gen)
           /\ \A f \in {"mode", "worker", "record", "session", "inPage", "params"} :
                beginPlaneGeneration(s)[f] = s[f]
<1> DEFINE G == s.gen + 1
           n1 == [s EXCEPT !.gen = G]
           n2 == [n1 EXCEPT !.ready = 0]
           n3 == [n2 EXCEPT !.waiter = NoWaiter]
           n4 == [n3 EXCEPT !.readiness = [NoReady EXCEPT !.gen = s.gen + 1]]
           n == [n4 EXCEPT !.timers = @ \ {s.waiter}]
           F == {"mode", "worker", "record", "session", "inPage", "params", "live",
                 "task", "control", "out", "late"}
<1>0. DOMAIN s = {"live", "session", "mode", "gen", "readiness", "ready", "waiter",
                  "timers", "worker", "record", "params", "inPage", "nm", "ports",
                  "tries", "runtimePort", "pending", "control", "task", "out",
                  "late", "back"}
  BY DEF BridgeRec
<1>1. /\ G \in Nat /\ s \in BridgeRec(G) /\ s.waiter \in Waiter(G) /\ s.waiter.id \in Ids
      /\ s.timers \in SUBSET Waiter(G) /\ Past(s.gen) \subseteq Past(G)
  <2>1. G \in Nat /\ s \in BridgeRec(G) /\ Past(s.gen) \subseteq Past(G)
    BY PastFacts
  <2> HIDE DEF G
  <2>2. s.waiter \in Waiter(G) /\ s.timers \in SUBSET Waiter(G)
    BY <2>1 DEF BridgeRec
  <2> QED
    BY <2>1, <2>2 DEF Waiter
<1>2. NoWaiter \in Waiter(G)
  BY <1>1, PastFacts DEF NoWaiter, Waiter, NoId, Ids
<1>3. [NoReady EXCEPT !.gen = s.gen + 1] \in Readiness
  BY <1>1, NewReadiness DEF Readiness
<1>4. n = [s EXCEPT !.gen = @ + 1, !.ready = 0, !.waiter = NoWaiter,
                    !.readiness = [NoReady EXCEPT !.gen = s.gen + 1],
                    !.timers = @ \ {s.waiter}]
  BY <1>0
<1>5. beginPlaneGeneration(s) \in {n, Resolve(n, s.waiter.id, FALSE)}
  BY <1>4 DEF beginPlaneGeneration
<1>6. n.gen = G /\ \A f \in F : n[f] = s[f]
  BY <1>0
<1>7. n4.timers = s.timers
  BY <1>0
<1> HIDE DEF G
<1>8. n1 \in BridgeRec(G)
  BY <1>1, FieldTypes
<1> HIDE DEF n1
<1>9. n2 \in BridgeRec(G)
  BY <1>1, <1>8, FieldTypes
<1> HIDE DEF n2
<1>10. n3 \in BridgeRec(G)
  BY <1>1, <1>2, <1>9, FieldTypes
<1> HIDE DEF n3
<1>11. n4 \in BridgeRec(G)
  BY <1>1, <1>3, <1>10, FieldTypes
<1> HIDE DEF n4
<1>12. n \in BridgeRec(G)
  <2>1. n4.timers \ {s.waiter} \in SUBSET Waiter(G)
    BY <1>1, <1>7
  <2> QED
    BY <1>1, <1>11, <2>1, FieldTypes
<1> HIDE DEF n
<1> DEFINE e == Resolve(n, s.waiter.id, FALSE)
<1>13. Typed(n)
  BY <1>6, <1>12 DEF Typed
<1>14. Typed(e) /\ e.gen = G /\ \A f \in F \ {"late"} : e[f] = n[f]
  <2>1. Same(n, e)
    BY <1>1, <1>13, SameMessages
  <2>2. DOMAIN n = DOMAIN s
    BY <1>0, <1>13, Fields
  <2>3. e.gen = n.gen /\ \A f \in F \ {"late"} : e[f] = n[f]
    BY <1>0, <2>2 DEF Resolve, Later
  <2> QED
    BY <1>6, <2>1, <2>3 DEF Same
<1> HIDE DEF e
<1> QED
  BY <1>1, <1>5, <1>6, <1>13, <1>14 DEF e, G

LEMMA Ahead ==
    ASSUME NEW s, Typed(s)
    PROVE  s.gen \in Nat /\ s \in BridgeRec(s.gen + 1)
BY Fields, Widen DEF Typed

LEMMA SameNewGeneration ==
    ASSUME NEW s, Typed(s)
    PROVE  Same(s, beginPlaneGeneration(s)) /\ beginPlaneGeneration(s).gen = s.gen + 1
BY Ahead, SameBegin DEF Same

LEMMA SameMark ==
    ASSUME NEW s, Typed(s), NEW g \in Nat, NEW which \in {"local", "auth"}
    PROVE  Same(s, markPlanePrerequisite(s, g, which))
<1> DEFINE had == IF s.readiness.gen = g THEN s.readiness ELSE [NoReady EXCEPT !.gen = g]
           now == [had EXCEPT ![which] = TRUE]
           half == [s EXCEPT !.readiness = now]
           set == [half EXCEPT !.ready = g]
           told == IF s.ready = g THEN set ELSE notifyPlaneReady(set, g)
           part == [told EXCEPT !.waiter = NoWaiter]
           off == [part EXCEPT !.timers = @ \ {s.waiter}]
<1>1. markPlanePrerequisite(s, g, which)
        \in {s, half, told, Resolve(off, s.waiter.id, TRUE)}
  BY DEF markPlanePrerequisite
<1>2. now \in Readiness
  <2>1. had \in Readiness
    <3>1. s.readiness \in Readiness
      BY Fields
    <3>2. [NoReady EXCEPT !.gen = g] \in Readiness
      BY NewReadiness DEF Readiness
    <3> QED
      BY <3>1, <3>2
  <2> HIDE DEF had
  <2> QED
    BY <2>1 DEF Readiness
<1>3. s.waiter.id \in Ids /\ \A G \in Nat : NoWaiter \in Waiter(G)
  BY Fields, Messages, PastFacts DEF Waiter, NoWaiter
<1> HIDE DEF now
<1>4. Same(s, half)
  BY <1>2, SameFields
<1>5. Typed(half)
  BY <1>4 DEF Same
<1> HIDE DEF half
<1>6. Same(s, set)
  BY <1>4, <1>5, SameFields, SameChain
<1>7. Typed(set)
  BY <1>6 DEF Same
<1> HIDE DEF set
<1>8. Same(s, told)
  BY <1>6, <1>7, SameMessages, SameChain
<1>9. Typed(told)
  BY <1>8 DEF Same
<1> HIDE DEF told
<1>10. Same(s, part)
  BY <1>3, <1>8, <1>9, Fields, SameFields, SameChain
<1>11. Typed(part)
  BY <1>10 DEF Same
<1> HIDE DEF part
<1>12. Same(s, off)
  <2>1. part.timers \ {s.waiter} \in SUBSET Waiter(part.gen)
    BY <1>11, Fields
  <2> QED
    BY <2>1, <1>10, <1>11, SameFields, SameChain
<1>13. Typed(off)
  BY <1>12 DEF Same
<1> HIDE DEF off
<1>14. Same(s, Resolve(off, s.waiter.id, TRUE))
  BY <1>3, <1>12, <1>13, SameMessages, SameChain
<1>15. Same(s, s)
  BY SameFields
<1> QED
  BY <1>1, <1>4, <1>8, <1>14, <1>15

LEMMA SameMarks ==
    ASSUME NEW s, Typed(s), NEW g \in Nat
    PROVE  /\ Same(s, markPlaneReady(s, g)) /\ Same(s, markPlaneLocalReady(s, g))
           /\ Same(s, markPlaneAuthoritativeReady(s, g))
<1> DEFINE one == markPlanePrerequisite(s, g, "local")
<1>1. Same(s, one)
  BY SameMark
<1>2. Typed(one)
  BY <1>1 DEF Same
<1> HIDE DEF one
<1>3. Same(s, markPlanePrerequisite(one, g, "auth"))
  BY <1>1, <1>2, SameMark, SameChain
<1> QED
  BY <1>1, <1>3, SameMark
     DEF markPlaneReady, markPlaneLocalReady, markPlaneAuthoritativeReady, one


-----------------------------------------------------------------------------
(* Tasks, and the requests that wait for the background *)

\* The task of a queued request is the one that waits for its answer, and no
\* two requests are of the same task.
Queue(s) ==
    /\ \A i \in 1..Len(s.control) : s.control[i].task # 0 =>
         s.task[s.control[i].task].pc = "background"
    /\ \A i, j \in 1..Len(s.control) :
         i # j /\ s.control[i].task = s.control[j].task => s.control[i].task = 0

Calls(s) == Typed(s) /\ Queue(s)

\* It is t's turn, or it is being started; Inside: a function awaits it.
Turn(s, t)   == Calls(s) /\ t \in Task /\ s.task[t].pc # "background"
Inside(s, t) == Turn(s, t) /\ s.task[t].ret # <<>>

LEMMA SameCalls ==
    ASSUME NEW s, NEW u, Calls(s), Same(s, u)
    PROVE  /\ Calls(u)
           /\ \A t : (Turn(s, t) => Turn(u, t)) /\ (Inside(s, t) => Inside(u, t))
<1>1. Calls(u)
  BY DEF Calls, Same, Queue
<1> QED
  BY <1>1 DEF Turn, Inside, Same

\* A task that no request names may be moved.
LEMMA MoveUnnamed ==
    ASSUME NEW s, Calls(s), NEW t \in Task, NEW r \in Tasks(s.gen),
           \A i \in 1..Len(s.control) : s.control[i].task # t
    PROVE  /\ Calls([s EXCEPT !.task[t] = r])
           /\ [s EXCEPT !.task[t] = r].task[t] = r
           /\ [s EXCEPT !.task[t] = r].gen = s.gen
<1> DEFINE u == [s EXCEPT !.task[t] = r]
<1>1. Typed(s) /\ Queue(s)
  BY DEF Calls
<1>3. u.control = s.control /\ u.task = [s.task EXCEPT ![t] = r] /\ u.gen = s.gen
  BY <1>1, Fields
<1>2. Typed(u)
  BY <1>1, <1>3, Fields, TaskTypes DEF Typed
<1>4. s.task \in [Task -> Tasks(s.gen)] /\ s.control \in Seq(Request)
  BY <1>1, Fields
<1> HIDE DEF u
<1>5. ASSUME NEW i \in 1..Len(u.control), u.control[i].task # 0
      PROVE  u.task[u.control[i].task].pc = "background"
  <2>1. s.task[s.control[i].task].pc = "background"
    BY <1>1, <1>3, <1>5 DEF Queue
  <2>2. s.control[i].task # t
    BY <1>3
  <2>3. s.control[i] \in Request
    BY <1>3, <1>4
  <2>4. s.control[i].task \in Task
    BY <2>3, <1>3, <1>5 DEF Request
  <2> QED
    BY <2>1, <2>2, <2>4, <1>3, <1>4
<1>6. Queue(u)
  BY <1>1, <1>3, <1>5 DEF Queue
<1> QED
  BY <1>1, <1>2, <1>3, <1>4, <1>6 DEF Calls, u

\* A task that moves by itself is named by no request.
LEMMA MoveCalls ==
    ASSUME NEW s, NEW t, Turn(s, t), NEW r \in Tasks(s.gen)
    PROVE  /\ Calls([s EXCEPT !.task[t] = r])
           /\ [s EXCEPT !.task[t] = r].task[t] = r
           /\ [s EXCEPT !.task[t] = r].gen = s.gen
<1>1. \A i \in 1..Len(s.control) : s.control[i].task # t
  BY BridgeAssumption DEF Turn, Calls, Queue
<1> QED
  BY <1>1, MoveUnnamed DEF Turn

LEMMA AskCalls ==
    ASSUME NEW s, NEW t, Turn(s, t), NEW r \in Tasks(s.gen), r.pc = "background",
           NEW c \in Request, c.task = t
    PROVE  Calls([s EXCEPT !.task[t] = r, !.control = Append(@, c)])
<1> DEFINE v == [s EXCEPT !.task[t] = r]
           u == [v EXCEPT !.control = Append(@, c)]
<1>1. Calls(v)
  BY MoveCalls
<1>2. Typed(s) /\ t \in Task /\ Queue(s)
  BY DEF Turn, Calls
<1>3. /\ s.task \in [Task -> Tasks(s.gen)] /\ s.control \in Seq(Request)
      /\ v.control = s.control /\ v.task = [s.task EXCEPT ![t] = r] /\ v.gen = s.gen
  BY <1>2, Fields
<1> HIDE DEF v
<1>4. Typed(v) /\ Queue(v)
  BY <1>1 DEF Calls
<1>5. Typed(u) /\ u.control = Append(s.control, c) /\ u.task = v.task
  <2>1. Append(v.control, c) \in Seq(Request)
    BY <1>3
  <2>2. u.gen = v.gen /\ u.control = Append(v.control, c) /\ u.task = v.task
    BY <1>4, Fields
  <2>3. u \in BridgeRec(v.gen)
    BY <2>1, <1>4, Fields, FieldTypes DEF Typed
  <2> QED
    BY <1>3, <2>2, <2>3 DEF Typed
<1> HIDE DEF u
<1> DEFINE n == Len(s.control)
<1>6. /\ n \in Nat /\ Len(u.control) = n + 1 /\ u.control[n + 1] = c
      /\ \A i \in 1..n : u.control[i] = s.control[i]
  BY <1>3, <1>5
<1>7. \A i \in 1..n : s.control[i].task # t
  BY <1>2, BridgeAssumption DEF Queue, Turn, n
<1> HIDE DEF n
<1>8. \A i \in 1..(n + 1) : i = n + 1 \/ i \in 1..n
  BY <1>6
<1>9. u.task[t].pc = "background"
  BY <1>2, <1>3, <1>5
<1>10. \A i \in 1..n : s.control[i].task # 0 => u.task[s.control[i].task].pc = "background"
  BY <1>3, <1>4, <1>5 DEF Queue, n
<1>11. \A i, j \in 1..n :
         i # j /\ s.control[i].task = s.control[j].task => s.control[i].task = 0
  BY <1>2 DEF Queue, n
<1>12. ASSUME NEW i \in 1..(n + 1), u.control[i].task # 0
       PROVE  u.task[u.control[i].task].pc = "background"
  BY <1>6, <1>8, <1>9, <1>10, <1>12
<1>13. ASSUME NEW i \in 1..(n + 1), NEW j \in 1..(n + 1), i # j,
              u.control[i].task = u.control[j].task
       PROVE  u.control[i].task = 0
  BY <1>6, <1>7, <1>8, <1>11, <1>13
<1>14. Queue(u)
  BY <1>6, <1>12, <1>13 DEF Queue
<1> QED
  BY <1>5, <1>14 DEF Calls, u, v

LEMMA SetTwice ==
    ASSUME NEW s, Typed(s), NEW t \in Task, NEW a, NEW c,
           NEW x, x = [s EXCEPT !.task[t] = a]
    PROVE  [x EXCEPT !.task[t] = c] = [s EXCEPT !.task[t] = c]
<1>1. s.task \in [Task -> Tasks(s.gen)] /\ "task" \in DOMAIN s
  BY Fields
<1>2. [[s.task EXCEPT ![t] = a] EXCEPT ![t] = c] = [s.task EXCEPT ![t] = c]
  BY <1>1
<1>3. x.task = [s.task EXCEPT ![t] = a]
  BY <1>1
<1>4. \A v, w : [[s EXCEPT !.task = v] EXCEPT !.task = w] = [s EXCEPT !.task = w]
  BY <1>1
<1> QED
  BY <1>2, <1>3, <1>4

\* An awaited task gives its result to the function that awaits it.
LEMMA Returned ==
    ASSUME NEW s, Typed(s), NEW t \in Task, s.task[t].ret # <<>>, NEW v \in Past(s.gen) \cup {1}
    PROVE  \E e \in Tasks(s.gen) : Return(s, t, v) = [s EXCEPT !.task[t] = e]
<1> DEFINE r == s.task[t]
<1>11. /\ Typed(s) /\ t \in Task /\ s.task[t] \in Tasks(s.gen)
       /\ s.gen \in Nat /\ "gen" \in DOMAIN s
  BY Fields
<1>12. r \in TaskRec(s.gen) /\ r.ret \in Stacks(s.gen) /\ Past(s.gen) \subseteq Nat
  BY <1>11, TaskFields, PastFacts DEF TaskRec
<1> DEFINE a == [r EXCEPT !.pc = Head(r.ret)]
           c == [a EXCEPT !.ret = Tail(@)]
           e == [c EXCEPT !.res = v]
<1>1. /\ r.ret # <<>> /\ Head(r.ret) \in Steps(s.gen) /\ Tail(r.ret) \in Stacks(s.gen)
      /\ Head(r.ret) \in Inner => Tail(r.ret) # <<>>
  BY <1>11, <1>12, Stacked
<1>8. /\ Head(r.ret) \in Outer \cup Inner \cup {"accepted"}
      /\ Head(r.ret) = "accepted" => v \in Past(s.gen)
  BY <1>11, <1>1, StepFacts
<1>9. v \in Nat
  BY <1>12
<1>2. Head(r.ret) \in Pcs /\ (Head(r.ret) \in Awaits \cup Nested => Head(r.ret) \in Inner)
  BY <1>8 DEF Pcs, Nested, Awaits, Outer, Inner
<1>3. a \in TaskRec(s.gen) /\ a.ret = r.ret /\ a.pc = Head(r.ret)
  BY <1>12, <1>2 DEF TaskRec
<1>4. c \in TaskRec(s.gen) /\ c.ret = Tail(r.ret) /\ c.pc = Head(r.ret)
  BY <1>1, <1>3 DEF TaskRec
<1>5. e \in TaskRec(s.gen) /\ e.ret = Tail(r.ret) /\ e.pc = Head(r.ret) /\ e.res = v
  <2> HIDE DEF c
  <2> QED
    BY <1>4, <1>9 DEF TaskRec
<1>6. e \in Tasks(s.gen)
  <2> HIDE DEF e
  <2> QED
    BY <1>1, <1>2, <1>5, <1>8 DEF Tasks
<1>7. Return(s, t, v) = [s EXCEPT !.task[t] = e]
  <2>1. Return(s, t, v) = [[[s EXCEPT !.task[t].pc = Head(r.ret)] EXCEPT !.task[t].ret = Tail(@)]
                             EXCEPT !.task[t].res = v]
    <3> HIDE DEF a, c, e
    <3> QED
      BY ZenonT(20) DEF Return
  <2>2. [s EXCEPT !.task[t].pc = Head(r.ret)] = [s EXCEPT !.task[t] = a]
    OBVIOUS
  <2>3. [s EXCEPT !.task[t] = a].task[t] = a /\ [s EXCEPT !.task[t] = c].task[t] = c
    BY <1>11, Fields
  <2>4. [[s EXCEPT !.task[t] = a] EXCEPT !.task[t].ret = Tail(@)]
          = [[s EXCEPT !.task[t] = a] EXCEPT !.task[t] = c]
    BY <2>3
  <2>5. [[s EXCEPT !.task[t] = c] EXCEPT !.task[t].res = v]
          = [[s EXCEPT !.task[t] = c] EXCEPT !.task[t] = e]
    BY <2>3
  <2> HIDE DEF a, c, e
  <2> DEFINE A == [s EXCEPT !.task[t] = a]
             C == [s EXCEPT !.task[t] = c]
  <2>6. [A EXCEPT !.task[t] = c] = C /\ [C EXCEPT !.task[t] = e] = [s EXCEPT !.task[t] = e]
    <3>1. A = [s EXCEPT !.task[t] = a] /\ C = [s EXCEPT !.task[t] = c]
      OBVIOUS
    <3> HIDE DEF A, C
    <3> QED
      BY <1>11, <3>1, SetTwice
  <2> DEFINE S1 == [s EXCEPT !.task[t].pc = Head(r.ret)]
             S2 == [S1 EXCEPT !.task[t].ret = Tail(@)]
  <2>7. S2 = [s EXCEPT !.task[t] = c]
    BY <2>2, <2>4, <2>6
  <2>8. Return(s, t, v) = [S2 EXCEPT !.task[t].res = v]
    BY <2>1
  <2> HIDE DEF S2
  <2> QED
    BY <2>5, <2>6, <2>7, <2>8

<1> HIDE DEF e
<1> QED
  BY <1>6, <1>7

\* What a task may do in its turn.
LEMMA TaskOps ==
    ASSUME NEW s, NEW t, Turn(s, t)
    PROVE  /\ \A pc \in Pcs \ {"background"} :
                (pc \in Awaits \cup Nested => Inside(s, t))
                /\ (pc = "accepted" => s.task[t].res \in Past(s.gen)) =>
                  /\ Turn(Goto(s, t, pc), t) /\ (Inside(s, t) => Inside(Goto(s, t, pc), t))
                  /\ Goto(s, t, pc).gen = s.gen
           /\ \A x \in Outer \cup Inner :
                (x \in Inner => Inside(s, t)) =>
                  Inside(Await(s, t, x), t) /\ Await(s, t, x).gen = s.gen
           /\ \A v \in Past(s.gen) \cup {1} : Inside(s, t) => Calls(Return(s, t, v))
           /\ Calls(End(s, t))
<1>1. /\ Typed(s) /\ t \in Task /\ s.task[t] \in Tasks(s.gen) /\ s.task[t].pc # "background"
      /\ s.gen \in Nat /\ "gen" \in DOMAIN s
  BY Fields DEF Turn, Calls
<1> DEFINE r == s.task[t]
<1>2. r \in TaskRec(s.gen) /\ r.ret \in Stacks(s.gen) /\ Past(s.gen) \subseteq Nat
  BY <1>1, TaskFields, PastFacts DEF TaskRec
<1>3. ASSUME NEW pc \in Pcs \ {"background"}, pc \in Awaits \cup Nested => Inside(s, t),
             pc = "accepted" => s.task[t].res \in Past(s.gen)
      PROVE  /\ Turn(Goto(s, t, pc), t) /\ (Inside(s, t) => Inside(Goto(s, t, pc), t))
             /\ Goto(s, t, pc).gen = s.gen
  <2> DEFINE q == [r EXCEPT !.pc = pc]
  <2>1. q \in Tasks(s.gen)
    BY <1>1, <1>3, TaskFields DEF Inside
  <2>2. q.pc # "background" /\ q.ret = r.ret
    BY <1>2 DEF TaskRec
  <2>3. Goto(s, t, pc) = [s EXCEPT !.task[t] = q]
    BY DEF Goto
  <2> HIDE DEF q
  <2>4. /\ Calls([s EXCEPT !.task[t] = q]) /\ [s EXCEPT !.task[t] = q].task[t] = q
        /\ [s EXCEPT !.task[t] = q].gen = s.gen
    BY <1>1, <2>1, MoveCalls
  <2> QED
    BY <1>1, <2>2, <2>3, <2>4 DEF Turn, Inside
<1>4. ASSUME NEW x \in Outer \cup Inner, x \in Inner => Inside(s, t)
      PROVE  Inside(Await(s, t, x), t) /\ Await(s, t, x).gen = s.gen
  <2> DEFINE q == [r EXCEPT !.ret = <<x>> \o @]
  <2>1. <<x>> \o r.ret \in Stacks(s.gen) /\ <<x>> \o r.ret # <<>>
    BY <1>1, <1>2, <1>4, Stacked, StepFacts DEF Inside
  <2>2. q \in Tasks(s.gen) /\ q.ret = <<x>> \o r.ret /\ q.pc = r.pc
    BY <1>1, <1>2, <2>1, TaskFields DEF TaskRec
  <2>3. Await(s, t, x) = [s EXCEPT !.task[t] = q]
    BY DEF Await
  <2>4. q.ret # <<>> /\ q.pc # "background"
    BY <1>1, <2>1, <2>2
  <2> HIDE DEF q
  <2>5. /\ Calls([s EXCEPT !.task[t] = q]) /\ [s EXCEPT !.task[t] = q].task[t] = q
        /\ [s EXCEPT !.task[t] = q].gen = s.gen
    <3>1. q \in Tasks(s.gen)
      BY <2>2
    <3> QED
      BY <1>1, <3>1, MoveCalls
  <2> QED
    BY <1>1, <2>3, <2>4, <2>5 DEF Turn, Inside
<1>5. ASSUME NEW v \in Past(s.gen) \cup {1}, Inside(s, t)
      PROVE  Calls(Return(s, t, v))
  <2>1. PICK e \in Tasks(s.gen) : Return(s, t, v) = [s EXCEPT !.task[t] = e]
    BY <1>1, <1>5, Returned DEF Inside
  <2> QED
    BY <2>1, MoveCalls
<1>6. Calls(End(s, t))
  BY <1>1, IdleType, MoveCalls DEF End
<1> QED
  BY <1>3, <1>4, <1>5, <1>6

LEMMA TaskNotes ==
    ASSUME NEW s, NEW t, Turn(s, t)
    PROVE  /\ \A v \in Past(s.gen) :
                /\ Turn([s EXCEPT !.task[t].gen = v], t)
                /\ Turn([s EXCEPT !.task[t].old = v], t)
                /\ Turn([s EXCEPT !.task[t].res = v], t)
                /\ Inside(s, t) => /\ Inside([s EXCEPT !.task[t].gen = v], t)
                                   /\ Inside([s EXCEPT !.task[t].old = v], t)
                                   /\ Inside([s EXCEPT !.task[t].res = v], t)
           /\ \A v \in BOOLEAN :
                /\ Turn([s EXCEPT !.task[t].retire = v], t)
                /\ Turn([s EXCEPT !.task[t].keep = v], t)
                /\ Turn([s EXCEPT !.task[t].nmTry = v], t)
                /\ Inside(s, t) => /\ Inside([s EXCEPT !.task[t].retire = v], t)
                                   /\ Inside([s EXCEPT !.task[t].keep = v], t)
                                   /\ Inside([s EXCEPT !.task[t].nmTry = v], t)
           /\ \A v \in Token \cup {None} :
                /\ Turn([s EXCEPT !.task[t].tok = v], t)
                /\ Inside(s, t) => Inside([s EXCEPT !.task[t].tok = v], t)
<1> DEFINE r == s.task[t]
<1>1. /\ Typed(s) /\ t \in Task /\ r \in Tasks(s.gen) /\ r.pc # "background" /\ s.gen \in Nat
      /\ r \in TaskRec(s.gen) /\ Past(s.gen) \subseteq Nat
  BY TaskFields, Fields, PastFacts DEF Turn, Calls
<1>2. ASSUME NEW q \in Tasks(s.gen), q.pc = r.pc, q.ret = r.ret
      PROVE  /\ Turn([s EXCEPT !.task[t] = q], t)
             /\ Inside(s, t) => Inside([s EXCEPT !.task[t] = q], t)
  <2>1. Calls([s EXCEPT !.task[t] = q]) /\ [s EXCEPT !.task[t] = q].task[t] = q
    BY MoveCalls
  <2> QED
    BY <1>1, <1>2, <2>1 DEF Turn, Inside
<1>3. ASSUME NEW v \in Past(s.gen)
      PROVE  \A q \in {[r EXCEPT !.gen = v], [r EXCEPT !.old = v], [r EXCEPT !.res = v]} :
               q \in Tasks(s.gen) /\ q.pc = r.pc /\ q.ret = r.ret
  <2>1. [r EXCEPT !.gen = v] \in Tasks(s.gen) /\ [r EXCEPT !.old = v] \in Tasks(s.gen) /\ [r EXCEPT !.res = v] \in Tasks(s.gen)
    BY <1>1, TaskFields
  <2>2. "pc" \in DOMAIN r /\ "ret" \in DOMAIN r
    BY <1>1 DEF TaskRec
  <2> HIDE DEF r
  <2> QED
    BY <2>1, <2>2
<1>4. ASSUME NEW v \in BOOLEAN
      PROVE  \A q \in {[r EXCEPT !.retire = v], [r EXCEPT !.keep = v], [r EXCEPT !.nmTry = v]} :
               q \in Tasks(s.gen) /\ q.pc = r.pc /\ q.ret = r.ret
  <2>1. [r EXCEPT !.retire = v] \in Tasks(s.gen) /\ [r EXCEPT !.keep = v] \in Tasks(s.gen) /\ [r EXCEPT !.nmTry = v] \in Tasks(s.gen)
    BY <1>1, TaskFields
  <2>2. "pc" \in DOMAIN r /\ "ret" \in DOMAIN r
    BY <1>1 DEF TaskRec
  <2> HIDE DEF r
  <2> QED
    BY <2>1, <2>2
<1>5. ASSUME NEW v \in Token \cup {None}
      PROVE  LET q == [r EXCEPT !.tok = v] IN q \in Tasks(s.gen) /\ q.pc = r.pc /\ q.ret = r.ret
  BY <1>1, TaskFields DEF TaskRec
<1>6. \A v \in Past(s.gen) :
        /\ Turn([s EXCEPT !.task[t].gen = v], t)
        /\ Turn([s EXCEPT !.task[t].old = v], t)
        /\ Turn([s EXCEPT !.task[t].res = v], t)
        /\ Inside(s, t) => /\ Inside([s EXCEPT !.task[t].gen = v], t)
                           /\ Inside([s EXCEPT !.task[t].old = v], t)
                           /\ Inside([s EXCEPT !.task[t].res = v], t)
  BY <1>2, <1>3
<1>7. \A v \in BOOLEAN : /\ Turn([s EXCEPT !.task[t].retire = v], t)
                         /\ Turn([s EXCEPT !.task[t].keep = v], t)
                         /\ Turn([s EXCEPT !.task[t].nmTry = v], t)
                         /\ Inside(s, t) => /\ Inside([s EXCEPT !.task[t].retire = v], t)
                                            /\ Inside([s EXCEPT !.task[t].keep = v], t)
                                            /\ Inside([s EXCEPT !.task[t].nmTry = v], t)
  BY <1>2, <1>4
<1>8. \A v \in Token \cup {None} :
        /\ Turn([s EXCEPT !.task[t].tok = v], t)
        /\ Inside(s, t) => Inside([s EXCEPT !.task[t].tok = v], t)
  BY <1>2, <1>5
<1> QED
  BY <1>6, <1>7, <1>8

\* Notes of a task begin no generation.
LEMMA NoteGens ==
    ASSUME NEW s, "gen" \in DOMAIN s
    PROVE  \A t, v : /\ [s EXCEPT !.task[t].gen = v].gen = s.gen
                     /\ [s EXCEPT !.task[t].old = v].gen = s.gen
                     /\ [s EXCEPT !.task[t].res = v].gen = s.gen
                     /\ [s EXCEPT !.task[t].retire = v].gen = s.gen
                     /\ [s EXCEPT !.task[t].keep = v].gen = s.gen
                     /\ [s EXCEPT !.task[t].nmTry = v].gen = s.gen
                     /\ [s EXCEPT !.task[t].tok = v].gen = s.gen
OBVIOUS

LEMMA AskOps ==
    ASSUME NEW s, NEW t, Turn(s, t), NEW op \in {"open", "close", "plane", "clean", "gone"}
    PROVE  /\ \A x \in Outer : Calls(sendBackgroundRequest(s, t, op, x))
           /\ Inside(s, t) => \A x \in Inner : Calls(sendBackgroundRequest(s, t, op, x))
<1> SUFFICES ASSUME NEW x \in Outer \cup Inner, x \in Inner => Inside(s, t)
             PROVE  Calls(sendBackgroundRequest(s, t, op, x))
  <2>1. Outer \cap Inner = {}
    BY DEF Outer, Inner
  <2> QED
    BY <2>1
<1> DEFINE a == Await(s, t, x)
           q == [a.task[t] EXCEPT !.pc = "background"]
           c == [op |-> op, tok |-> s.task[t].tok, task |-> t, mode |-> "nm"]
<1>1. Inside(a, t)
  BY TaskOps
<1>2. Typed(s) /\ t \in Task /\ s.task[t] \in TaskRec(s.gen)
  BY Fields, TaskFields DEF Turn, Calls
<1>3. c \in Request
  BY <1>2 DEF Request, TaskRec, Modes
<1> HIDE DEF a
<1>4. /\ Turn(a, t) /\ Typed(a) /\ a.task[t] \in Tasks(a.gen) /\ a.task[t] \in TaskRec(a.gen)
      /\ a.task[t].ret # <<>> /\ a.gen \in Nat
  BY <1>1, <1>2, Fields, TaskFields DEF Turn, Calls, Inside
<1>5. q \in Tasks(a.gen) /\ q.pc = "background"
  BY <1>4, TaskFields DEF Pcs, Awaits, TaskRec
<1>6. Calls([a EXCEPT !.task[t] = q, !.control = Append(@, c)])
  <2> HIDE DEF c, q
  <2>1. c.task = t
    BY DEF c
  <2> QED
    BY <1>3, <1>4, <1>5, <2>1, AskCalls
<1>7. sendBackgroundRequest(s, t, op, x) = [a EXCEPT !.task[t] = q, !.control = Append(@, c)]
  BY DEF sendBackgroundRequest, Goto, a
<1> QED
  BY <1>6, <1>7

LEMMA StartOps ==
    ASSUME NEW s, Calls(s), FreeTasks(s) # {}, NEW r \in Tasks(s.gen), r.pc = "idle"
    PROVE  /\ NextTask(s) \in Task
           /\ Turn(Start(s, r), NextTask(s))
           /\ r.ret # <<>> => Inside(Start(s, r), NextTask(s))
           /\ Start(s, r).task[NextTask(s)] = r
<1> DEFINE t == NextTask(s)
<1>1. t \in Task /\ s.task[t].pc = "idle"
  BY DEF NextTask, FreeTasks
<1> HIDE DEF t
<1>2. Turn(s, t)
  BY <1>1 DEF Turn
<1>3. Calls([s EXCEPT !.task[t] = r]) /\ [s EXCEPT !.task[t] = r].task[t] = r
  BY <1>2, MoveCalls
<1> QED
  BY <1>1, <1>3 DEF Turn, Inside, Start, t

\* A request that nobody awaits.
LEMMA TellCalls ==
    ASSUME NEW s, NEW t, Turn(s, t), NEW op \in {"open", "close", "plane", "clean", "gone"},
           NEW tok \in Token \cup {None}, NEW mode \in Modes
    PROVE  /\ Turn(SendAndForget(s, op, tok, mode), t)
           /\ SendAndForget(s, op, tok, mode).task = s.task
           /\ SendAndForget(s, op, tok, mode).gen = s.gen
<1> DEFINE c == [op |-> op, tok |-> tok, task |-> 0, mode |-> mode]
           u == [s EXCEPT !.control = Append(@, c)]
           n == Len(s.control)
<1>1. Typed(s) /\ Queue(s) /\ s.control \in Seq(Request)
  BY Fields DEF Turn, Calls
<1>2. c \in Request /\ c.task = 0
  BY DEF Request
<1> HIDE DEF c
<1>3. Typed(u) /\ u.control = Append(s.control, c) /\ u.task = s.task /\ u.gen = s.gen
  <2>1. Append(s.control, c) \in Seq(Request)
    BY <1>1, <1>2
  <2>2. u.gen = s.gen /\ u.control = Append(s.control, c) /\ u.task = s.task
    BY <1>1, Fields
  <2>3. u \in BridgeRec(s.gen)
    BY <2>1, <1>1, Fields, FieldTypes DEF Typed
  <2> QED
    BY <2>2, <2>3 DEF Typed
<1>4. SendAndForget(s, op, tok, mode) = u
  BY DEF SendAndForget, c
<1> HIDE DEF u
<1>5. /\ n \in Nat /\ Len(u.control) = n + 1 /\ u.control[n + 1] = c
      /\ \A i \in 1..n : u.control[i] = s.control[i]
  BY <1>1, <1>2, <1>3
<1>6. \A i \in 1..n : s.control[i].task # 0 => u.task[s.control[i].task].pc = "background"
  BY <1>1, <1>3 DEF Queue
<1>7. \A i, j \in 1..n :
        i # j /\ s.control[i].task = s.control[j].task => s.control[i].task = 0
  BY <1>1 DEF Queue
<1> HIDE DEF n
<1>8. \A i \in 1..(n + 1) : i = n + 1 \/ i \in 1..n
  BY <1>5
<1>9. \A i \in 1..(n + 1) : u.control[i].task # 0 => u.task[u.control[i].task].pc = "background"
  BY <1>2, <1>5, <1>6, <1>8
<1>10. ASSUME NEW i \in 1..(n + 1), NEW j \in 1..(n + 1), i # j,
              u.control[i].task = u.control[j].task
       PROVE  u.control[i].task = 0
  BY <1>2, <1>5, <1>7, <1>8, <1>10
<1>11. Queue(u)
  BY <1>5, <1>9, <1>10 DEF Queue
<1> QED
  BY <1>3, <1>4, <1>11 DEF Turn, Calls

LEMMA SameStep ==
    ASSUME NEW s, NEW t, Turn(s, t), NEW u, Same(s, u)
    PROVE  /\ Turn(u, t) /\ (Inside(s, t) => Inside(u, t)) /\ Typed(u)
           /\ Past(s.gen) \subseteq Past(u.gen)
BY SameCalls DEF Turn, Same

LEMMA DespawnCalls ==
    ASSUME NEW s, NEW t, Turn(s, t), NEW notify \in BOOLEAN,
           NEW next \in Outer \cup Inner, next \in Inner => Inside(s, t)
    PROVE  Calls(despawnDataPlane(s, t, notify, next))
<1> DEFINE told == IF notify /\ s.gen # 0 THEN notifyPlaneUnavailable(s, s.gen) ELSE s
           new  == beginPlaneGeneration(told)
           done == [new EXCEPT !.inPage = FALSE]
           gone == Put(done, Msg("disconnectPlane", NoId, s.gen, TRUE))
           cut  == IF s.inPage THEN gone ELSE new
           old  == IF s.worker.gen # 0 THEN s.worker.gen ELSE s.record
           aw   == Await(cut, t, next)
           go   == Goto(aw, t, "tail")
           w1   == [go EXCEPT !.worker = NoWorker]
           w2   == [w1 EXCEPT !.record = 0]
           off  == [w2 EXCEPT !.task[t].old = old]
           end  == Put(off, Msg("terminate", <<"task", t>>, old, TRUE))
<1>1. /\ Typed(s) /\ t \in Task /\ s.gen \in Nat /\ s.gen \in Past(s.gen) /\ old \in Past(s.gen)
      /\ \A g \in Nat : 0 \in Past(g)
  <2>1. Typed(s) /\ t \in Task /\ s.gen \in Nat /\ s.worker \in Worker(s.gen) /\ s.record \in Past(s.gen)
    BY Fields DEF Turn, Calls
  <2>2. s.worker.gen \in Past(s.gen)
    BY <2>1 DEF Worker
  <2> QED
    BY <2>1, <2>2, PastFacts
<1>2. /\ Turn(told, t) /\ (Inside(s, t) => Inside(told, t)) /\ Typed(told)
      /\ Past(s.gen) \subseteq Past(told.gen)
  BY <1>1, SameMessages, SameStep, SameFields
<1> HIDE DEF told
<1>3. /\ Turn(new, t) /\ (Inside(s, t) => Inside(new, t)) /\ Typed(new)
      /\ Past(told.gen) \subseteq Past(new.gen)
  BY <1>2, SameNewGeneration, SameStep
<1> HIDE DEF new
<1>4. /\ Turn(done, t) /\ (Inside(s, t) => Inside(done, t)) /\ Typed(done)
      /\ Past(new.gen) \subseteq Past(done.gen)
  BY <1>3, SameFields, SameStep
<1> HIDE DEF done
<1>5. /\ Turn(gone, t) /\ (Inside(s, t) => Inside(gone, t))
      /\ Past(done.gen) \subseteq Past(gone.gen)
  <2>1. s.gen \in Past(done.gen) /\ done.gen \in Nat
    BY <1>1, <1>2, <1>3, <1>4, Fields
  <2>2. Msg("disconnectPlane", NoId, s.gen, TRUE) \in BridgeMsg(done.gen)
    BY <2>1, Messages
  <2>3. Same(done, gone)
    BY <2>2, <1>4, SameMessages
  <2> HIDE DEF gone
  <2> QED
    BY <2>3, <1>4, SameStep
<1> HIDE DEF gone
<1>6. Turn(cut, t) /\ (Inside(s, t) => Inside(cut, t)) /\ old \in Past(cut.gen)
  BY <1>1, <1>2, <1>3, <1>4, <1>5
<1> HIDE DEF cut, old
<1>7. Inside(aw, t) /\ Turn(aw, t) /\ aw.gen = cut.gen
  BY <1>6, TaskOps DEF Inside
<1> HIDE DEF aw
<1>8. Turn(go, t) /\ Typed(go) /\ go.gen = cut.gen
  <2>1. "tail" \in Pcs \ {"background"} /\ "tail" # "accepted"
    BY DEF Pcs, Nested
  <2> QED
    BY <1>7, <2>1, TaskOps DEF Turn, Calls
<1> HIDE DEF go
<1>9. Turn(w1, t) /\ Typed(w1) /\ old \in Past(w1.gen)
  <2>1. NoWorker \in Worker(go.gen)
    BY <1>1, <1>8, Fields DEF NoWorker, Worker
  <2> QED
    BY <1>6, <1>8, <2>1, SameFields, SameStep
<1> HIDE DEF w1
<1>10. Turn(w2, t) /\ Typed(w2) /\ old \in Past(w2.gen)
  <2>1. 0 \in Past(w1.gen)
    BY <1>1, <1>9, Fields
  <2> QED
    BY <1>9, <2>1, SameFields, SameStep
<1> HIDE DEF w2
<1>11. Turn(off, t) /\ Typed(off) /\ old \in Past(off.gen) /\ off.gen \in Nat
  <2>1. Turn(off, t)
    BY <1>10, TaskNotes
  <2>2. off.gen = w2.gen
    BY <1>10, Fields, NoteGens
  <2> HIDE DEF off
  <2> QED
    BY <1>10, <2>1, <2>2, Fields DEF Turn, Calls
<1>12. despawnDataPlane(s, t, notify, next) = IF old = 0 THEN off ELSE end
  BY DEF despawnDataPlane, off, w2, w1, go, aw, cut, gone, done, new, told, old
<1> HIDE DEF off
<1>13. Turn(end, t)
  <2>1. Msg("terminate", <<"task", t>>, old, TRUE) \in BridgeMsg(off.gen)
    BY <1>1, <1>11, Messages
  <2> QED
    BY <1>11, <2>1, SameMessages, SameStep
<1> QED
  BY <1>11, <1>12, <1>13 DEF Turn

LEMMA TaskAt ==
    ASSUME NEW s, NEW t, Turn(s, t)
    PROVE  /\ Typed(s) /\ t \in Task /\ Calls(s)
           /\ s.task[t].gen \in Past(s.gen) /\ s.task[t].old \in Past(s.gen)
           /\ s.task[t].res \in Nat /\ s.task[t].ret \in Stacks(s.gen)
           /\ s.task[t].pc = "accepted" => s.task[t].res \in Past(s.gen)
           /\ s.gen \in Nat /\ s.gen \in Past(s.gen) /\ 0 \in Past(s.gen)
           /\ s.task[t].tok \in Token \cup {None} /\ s.task[t].id \in Ids
           /\ s.task[t].mode \in Modes
           /\ s.task[t].rewire \in BOOLEAN /\ s.task[t].retire \in BOOLEAN
           /\ s.task[t].keep \in BOOLEAN /\ s.task[t].nmTry \in BOOLEAN
<1>1. Typed(s) /\ t \in Task /\ Calls(s)
  BY DEF Turn, Calls
<1>2. /\ s.task[t] \in TaskRec(s.gen) /\ s.gen \in Nat
      /\ s.task[t].pc = "accepted" => s.task[t].res \in Past(s.gen)
  BY <1>1, Fields, TaskFields
<1> QED
  BY <1>1, <1>2, PastFacts DEF TaskRec

LEMMA InsideStep ==
    ASSUME NEW s, NEW t, Inside(s, t), NEW u, Same(s, u)
    PROVE  /\ Inside(u, t) /\ Turn(u, t) /\ Typed(u)
           /\ Past(s.gen) \subseteq Past(u.gen)
BY SameStep, TaskAt DEF Inside

\* A change of several tasks that leaves alone those that wait for the
\* background.
LEMMA MapCalls ==
    ASSUME NEW s, Calls(s), NEW f \in [Task -> Tasks(s.gen)],
           \A u \in Task : s.task[u].pc = "background" => f[u].pc = "background"
    PROVE  /\ Calls([s EXCEPT !.task = f]) /\ [s EXCEPT !.task = f].task = f
           /\ [s EXCEPT !.task = f].gen = s.gen
<1> DEFINE v == [s EXCEPT !.task = f]
<1>1. Typed(s) /\ Queue(s)
  BY DEF Calls
<1>2. Typed(v) /\ v.control = s.control /\ v.task = f /\ v.gen = s.gen
  <2>1. v.control = s.control /\ v.task = f /\ v.gen = s.gen
    BY <1>1, Fields
  <2>2. v \in BridgeRec(s.gen)
    BY <1>1, Fields, FieldTypes DEF Typed
  <2> QED
    BY <2>1, <2>2 DEF Typed
<1>3. s.control \in Seq(Request)
  BY <1>1, Fields
<1> HIDE DEF v
<1>4. ASSUME NEW i \in 1..Len(s.control), s.control[i].task # 0
      PROVE  f[s.control[i].task].pc = "background"
  <2>1. s.control[i] \in Request
    BY <1>3
  <2>2. s.control[i].task \in Task
    BY <2>1, <1>4 DEF Request
  <2> QED
    BY <2>2, <1>1, <1>4 DEF Queue
<1>5. Queue(v)
  BY <1>1, <1>2, <1>4 DEF Queue
<1> QED
  BY <1>2, <1>5 DEF Calls, v


-----------------------------------------------------------------------------
(* The functions of the bridge keep the types and the queue *)

LEMMA TailCalls ==
    ASSUME NEW s, NEW t, Inside(s, t), s.task[t].pc = "tail"
    PROVE  Calls(DespawnTail(s, t))
<1> DEFINE keep == s.task[t].keep
           c1 == [s EXCEPT !.ports = IF keep THEN @ ELSE {}]
           c2 == [c1 EXCEPT !.back = @ \cup {[gen |-> p.gen, report |-> p.report, sent |-> FALSE] :
                                               p \in {x \in s.pending : keep}}]
           c3 == [c2 EXCEPT !.pending = {}]
           f  == [u \in Task |-> IF c3.task[u].pc = "connecting"
                                 THEN [c3.task[u] EXCEPT !.pc = "connected", !.res = 0]
                                 ELSE c3.task[u]]
           c4 == [c3 EXCEPT !.task = f]
           c5 == [c4 EXCEPT !.params = FALSE]
           c6 == [c5 EXCEPT !.nm = FALSE]
           c7 == [c6 EXCEPT !.ready = 0]
           c8 == [c7 EXCEPT !.readiness = NoReady]
           end == maybeDisconnectRuntimeDataPort(c8)
<1>1. Turn(s, t) /\ Typed(s) /\ t \in Task
  BY TaskAt DEF Inside
<1>2. DespawnTail(s, t) = Return(end, t, 0)
  BY DEF DespawnTail
<1>3. Inside(c1, t) /\ Typed(c1) /\ Same(s, c1) /\ c1.gen = s.gen /\ c1.task = s.task
      /\ c1.back = s.back
  <2>1. (IF keep THEN s.ports ELSE {}) \in SUBSET Port(s.gen)
    BY <1>1, Fields
  <2>2. Same(s, c1)
    BY <2>1, <1>1, SameFields
  <2>3. c1.gen = s.gen /\ c1.task = s.task /\ c1.back = s.back
    BY <1>1, Fields
  <2> HIDE DEF c1
  <2> QED
    BY <1>1, <2>2, <2>3, SameStep
<1>4. Inside(c2, t) /\ Typed(c2) /\ Same(c1, c2)
  <2> DEFINE back == c1.back \cup {[gen |-> p.gen, report |-> p.report, sent |-> FALSE] :
                                     p \in {x \in s.pending : keep}}
  <2> HIDE DEF c1
  <2>1. s.pending \in SUBSET Pending(c1.gen) /\ c1.back \in SUBSET Result(c1.gen)
    BY <1>1, <1>3, Fields
  <2>2. back \in SUBSET Result(c1.gen)
    <3>1. \A p \in s.pending :
            [gen |-> p.gen, report |-> p.report, sent |-> FALSE] \in Result(c1.gen)
      BY <2>1 DEF Result, Pending
    <3> QED
      BY <2>1, <3>1
  <2>3. c2 = [c1 EXCEPT !.back = back]
    OBVIOUS
  <2>4. Turn(c1, t)
    BY <1>3 DEF Inside
  <2> HIDE DEF back, c2
  <2> QED
    BY <1>3, <2>2, <2>3, <2>4, SameFields, SameStep
<1>5. Inside(c3, t) /\ Typed(c3) /\ Same(c2, c3)
  <2> HIDE DEF c2
  <2>1. Turn(c2, t) /\ {} \in SUBSET Pending(c2.gen)
    BY <1>4 DEF Inside
  <2> QED
    BY <1>4, <2>1, SameFields, SameStep
<1>6. c3.task[t].pc = "tail" /\ Calls(c3)
  BY <1>1, <1>3, <1>4, <1>5 DEF Same, Inside, Turn
<1> HIDE DEF c3
<1>7. f \in [Task -> Tasks(c3.gen)]
  <2> SUFFICES ASSUME NEW u \in Task PROVE f[u] \in Tasks(c3.gen)
    OBVIOUS
  <2> DEFINE r == c3.task[u]
             q == [r EXCEPT !.pc = "connected"]
  <2>1. r \in Tasks(c3.gen) /\ c3.gen \in Nat
    BY <1>5, Fields
  <2>2. r.pc = "connecting" => q \in Tasks(c3.gen)
    <3>1. "connected" \in Pcs /\ "connected" # "accepted"
      BY DEF Pcs, Nested
    <3> QED
      BY <2>1, <3>1, TaskFields DEF Awaits
  <2>3. r.pc = "connecting" => [q EXCEPT !.res = 0] \in Tasks(c3.gen)
    <3>1. 0 \in Past(c3.gen)
      BY <2>1, PastFacts
    <3> HIDE DEF q
    <3> QED
      BY <2>1, <2>2, <3>1, TaskFields
  <2>4. f[u] = IF r.pc = "connecting" THEN [q EXCEPT !.res = 0] ELSE r
    OBVIOUS
  <2> HIDE DEF r, f
  <2> QED
    BY <2>1, <2>3, <2>4
<1>8. \A u \in Task : c3.task[u].pc = "background" => f[u].pc = "background"
  OBVIOUS
<1>9. f[t] = c3.task[t]
  BY <1>1, <1>6
<1> HIDE DEF f
<1>10. Inside(c4, t) /\ Typed(c4)
  <2>1. Calls(c4) /\ c4.task = f
    BY <1>6, <1>7, <1>8, MapCalls
  <2> HIDE DEF c4
  <2> QED
    BY <1>1, <1>5, <1>9, <2>1 DEF Inside, Turn, Calls
<1> HIDE DEF c4
<1>11. Inside(c5, t) /\ Typed(c5)
  BY <1>10, SameFields, InsideStep
<1> HIDE DEF c5
<1>12. Inside(c6, t) /\ Typed(c6)
  BY <1>11, SameFields, InsideStep
<1> HIDE DEF c6
<1>13. Inside(c7, t) /\ Typed(c7)
  BY <1>12, SameFields, InsideStep
<1> HIDE DEF c7
<1>14. Inside(c8, t) /\ Typed(c8)
  <2>1. NoReady \in Readiness
    BY DEF NoReady, Readiness
  <2> QED
    BY <1>13, <2>1, SameFields, InsideStep
<1> HIDE DEF c8
<1>15. Inside(end, t)
  BY <1>14, SamePort, InsideStep
<1> HIDE DEF end
<1>16. Turn(end, t) /\ 0 \in Past(end.gen)
  BY <1>15, TaskAt DEF Inside
<1> QED
  BY <1>2, <1>15, <1>16, TaskOps

LEMMA InsideTask ==
    ASSUME NEW s, NEW t, Inside(s, t)
    PROVE  /\ Turn(s, t) /\ Typed(s) /\ t \in Task /\ s.gen \in Nat
           /\ s.gen \in Past(s.gen) /\ 0 \in Past(s.gen)
           /\ s.task[t].gen \in Past(s.gen) /\ s.task[t].res \in Nat
           /\ s.worker.gen \in Past(s.gen) /\ s.record \in Past(s.gen)
<1>1. Turn(s, t) /\ Typed(s)
  BY TaskAt DEF Inside
<1>2. s.worker \in Worker(s.gen) /\ s.record \in Past(s.gen)
  BY <1>1, Fields
<1> QED
  BY <1>1, <1>2, TaskAt DEF Worker

\* The awaits of a task that is about to begin a generation.
Soon(s, t) == /\ s.gen \in Nat /\ s \in BridgeRec(s.gen + 1) /\ Queue(s) /\ t \in Task
              /\ s.task[t].pc # "background" /\ s.task[t].ret # <<>>

LEMMA InsideSoon ==
    ASSUME NEW s, NEW t, Inside(s, t)
    PROVE  Soon(s, t)
BY Ahead DEF Inside, Turn, Calls, Soon

LEMMA SpawnCalls ==
    ASSUME NEW s, NEW t, Soon(s, t)
    PROVE  Calls(spawnDataPlane(s, t))
<1> DEFINE new == beginPlaneGeneration(s)
           own == [new EXCEPT !.task[t].gen = new.gen]
           old == IF s.worker.gen # 0 THEN s.worker.gen ELSE s.record
           go  == Goto(own, t, "hash")
           o1  == [go EXCEPT !.worker = NoWorker]
           o2  == [o1 EXCEPT !.record = 0]
           o3  == [o2 EXCEPT !.params = IF old = 0 THEN @ ELSE FALSE]
           off == [o3 EXCEPT !.task[t].old = old]
           end == Put(off, Msg("terminate", <<"task", t>>, old, TRUE))
           pl  == Goto(own, t, "plane hash")
<1>1. t \in Task /\ old \in Past(s.gen + 1) /\ \A g \in Nat : 0 \in Past(g)
  <2>1. s.worker \in Worker(s.gen + 1) /\ s.record \in Past(s.gen + 1)
    BY DEF Soon, BridgeRec
  <2> QED
    BY <2>1, PastFacts DEF Soon, Worker
<1>2. Inside(new, t) /\ Turn(new, t) /\ Typed(new) /\ new.gen \in Past(new.gen) /\ old \in Past(new.gen)
  <2>1. Typed(new) /\ new.gen = s.gen + 1 /\ new.task = s.task /\ new.control = s.control
    BY SameBegin DEF Soon
  <2> HIDE DEF new, old
  <2>2. Inside(new, t)
    BY <2>1 DEF Soon, Inside, Turn, Calls, Queue
  <2> QED
    BY <1>1, <2>1, <2>2, InsideTask
<1>3. spawnDataPlane(s, t) \in {pl, off, end}
  BY DEF spawnDataPlane
<1> HIDE DEF new, old
<1>4. Inside(own, t) /\ Turn(own, t) /\ own.gen = new.gen
  <2>1. own.gen = new.gen
    BY <1>2, Fields, NoteGens
  <2> QED
    BY <1>2, <2>1, TaskNotes DEF Inside
<1> HIDE DEF own
<1>5. /\ "hash" \in Pcs \ {"background"} /\ "plane hash" \in Pcs \ {"background"}
      /\ "hash" # "accepted" /\ "plane hash" # "accepted"
  BY DEF Pcs, Awaits
<1>6. Inside(go, t) /\ Typed(go) /\ go.gen = new.gen
  BY <1>4, <1>5, TaskOps, InsideTask
<1>7. Inside(pl, t) /\ Calls(pl)
  <2>1. Inside(pl, t)
    BY <1>4, <1>5, TaskOps
  <2> QED
    BY <2>1 DEF Inside, Turn
<1> HIDE DEF go, pl
<1>8. Inside(o1, t) /\ Typed(o1) /\ old \in Past(o1.gen)
  <2>1. NoWorker \in Worker(go.gen)
    BY <1>6, InsideTask DEF NoWorker, Worker
  <2> QED
    BY <1>2, <1>6, <2>1, SameFields, InsideStep
<1> HIDE DEF o1
<1>9. Inside(o2, t) /\ Typed(o2) /\ old \in Past(o2.gen)
  <2>1. 0 \in Past(o1.gen)
    BY <1>8, InsideTask
  <2> QED
    BY <1>8, <2>1, SameFields, InsideStep
<1> HIDE DEF o2
<1>10. Inside(o3, t) /\ Turn(o3, t) /\ old \in Past(o3.gen)
  <2>1. (IF old = 0 THEN o2.params ELSE FALSE) \in BOOLEAN
    BY <1>9, Fields
  <2> QED
    BY <1>9, <2>1, SameFields, InsideStep
<1> HIDE DEF o3
<1>11. Inside(off, t) /\ Typed(off) /\ old \in Past(off.gen) /\ off.gen \in Nat
  <2>1. Inside(off, t)
    BY <1>10, TaskNotes
  <2>2. off.gen = o3.gen
    BY <1>10, InsideTask, Fields, NoteGens
  <2> HIDE DEF off
  <2> QED
    BY <1>10, <2>1, <2>2, InsideTask
<1> HIDE DEF off
<1>12. Inside(end, t)
  <2>1. Msg("terminate", <<"task", t>>, old, TRUE) \in BridgeMsg(off.gen)
    BY <1>1, <1>11, Messages
  <2> QED
    BY <1>11, <2>1, SameMessages, InsideStep
<1>13. Calls(off) /\ Calls(end)
  BY <1>11, <1>12 DEF Inside, Turn
<1> QED
  BY <1>3, <1>7, <1>13

LEMMA SpawnDoneCalls ==
    ASSUME NEW s, NEW t, Inside(s, t), NEW ok \in BOOLEAN
    PROVE  Calls(SpawnDone(s, t, ok))
<1> DEFINE r == s.task[t]
           u == [s EXCEPT !.task[t].retire = FALSE]
<1>1. SpawnDone(s, t, ok) \in {Return(s, t, r.gen), Goto(u, t, "fallback")}
  BY DEF SpawnDone
<1>2. Turn(s, t) /\ r.gen \in Past(s.gen)
  BY InsideTask
<1>3. Inside(u, t) /\ Turn(u, t)
  BY <1>2, TaskNotes DEF Inside
<1>4. "fallback" \in Pcs \ {"background"} /\ "fallback" # "accepted"
  BY DEF Pcs, Nested
<1> HIDE DEF u
<1>5. Calls(Goto(u, t, "fallback"))
  <2>1. Turn(Goto(u, t, "fallback"), t)
    BY <1>3, <1>4, TaskOps
  <2> QED
    BY <2>1 DEF Turn
<1> QED
  BY <1>1, <1>2, <1>5, TaskOps

LEMMA WorkerSpawnedCalls ==
    ASSUME NEW s, NEW t, Inside(s, t)
    PROVE  Calls(WorkerSpawned(s, t))
<1> DEFINE g  == s.task[t].gen
           over == Put(s, Msg("terminate", NoId, g, TRUE))
           n1 == [s EXCEPT !.worker = [NoWorker EXCEPT !.gen = g]]
           n2 == [n1 EXCEPT !.record = g]
           n  == [n2 EXCEPT !.params = TRUE]
           w  == Put(n, Msg("wire", NoId, g, TRUE))
<1>1. Typed(s) /\ g \in Past(s.gen) /\ s.gen \in Nat
  BY InsideTask
<1>2. WorkerSpawned(s, t) \in {SpawnDone(s, t, FALSE), SpawnDone(over, t, FALSE),
                               SpawnDone(w, t, TRUE), SpawnDone(n, t, TRUE)}
  BY DEF WorkerSpawned
<1>3. Inside(over, t)
  BY <1>1, Messages, SameMessages, InsideStep
<1>4. Inside(n1, t) /\ Typed(n1) /\ g \in Past(n1.gen)
  <2>1. [NoWorker EXCEPT !.gen = g] \in Worker(s.gen)
    BY <1>1 DEF NoWorker, Worker
  <2>2. Same(s, n1)
    BY <1>1, <2>1, SameFields
  <2> HIDE DEF n1, g
  <2> QED
    BY <1>1, <2>2, InsideStep
<1> HIDE DEF n1
<1>5. Inside(n2, t) /\ Typed(n2) /\ g \in Past(n2.gen)
  <2>1. Same(n1, n2)
    BY <1>4, SameFields
  <2> HIDE DEF n2, g
  <2> QED
    BY <1>4, <2>1, InsideStep
<1> HIDE DEF n2
<1>6. Inside(n, t) /\ Typed(n) /\ g \in Past(n.gen) /\ n.gen \in Nat
  <2>1. Same(n2, n)
    BY <1>5, SameFields
  <2> HIDE DEF n, g
  <2>2. Inside(n, t) /\ Typed(n) /\ g \in Past(n.gen)
    BY <1>5, <2>1, InsideStep
  <2> QED
    BY <2>2, InsideTask
<1> HIDE DEF n
<1>7. Inside(w, t)
  BY <1>6, Messages, SameMessages, InsideStep
<1> HIDE DEF over, w
<1> QED
  BY <1>2, <1>3, <1>6, <1>7, SpawnDoneCalls

LEMMA FallbackCalls ==
    ASSUME NEW s, NEW t, Inside(s, t)
    PROVE  Calls(FallbackToNm(s, t)) /\ Calls(AskNm(s, t)) /\ Calls(NmRefused(s, t))
<1>1. /\ Turn(s, t) /\ Typed(s) /\ s.gen \in Nat /\ s.task[t].gen \in Past(s.gen)
      /\ s.gen \in Past(s.gen) /\ 0 \in Past(s.gen)
  BY InsideTask
<1>2. Calls(Return(s, t, 0))
  BY <1>1, TaskOps
<1>3. Calls(FallbackToNm(s, t))
  <2>1. "ask nm" \in Inner /\ "ask nm" \in Pcs \ {"background"} /\ "ask nm" # "accepted"
    BY DEF Inner, Nested, Pcs
  <2>2. Calls(despawnDataPlane(s, t, TRUE, "ask nm"))
    BY <1>1, <2>1, DespawnCalls
  <2>3. Turn(Goto(s, t, "ask nm"), t)
    BY <1>1, <2>1, TaskOps
  <2> QED
    BY <1>2, <2>2, <2>3 DEF FallbackToNm, Turn
<1>4. Calls(AskNm(s, t))
  <2> DEFINE g == IF s.task[t].retire THEN s.gen ELSE s.task[t].gen
             own == [s EXCEPT !.task[t].gen = g]
             ens == ensureRuntimeDataPort(own)
  <2>1. Inside(own, t) /\ Typed(own)
    <3>1. g \in Past(s.gen)
      BY <1>1
    <3> HIDE DEF g
    <3>2. Inside(own, t)
      BY <1>1, <3>1, TaskNotes
    <3> QED
      BY <3>2, InsideTask
  <2>2. AskNm(s, t) \in {Return(s, t, 0), sendBackgroundRequest(ens, t, "plane", "nm told")}
    BY DEF AskNm
  <2> HIDE DEF own
  <2>3. Inside(ens, t) /\ Turn(ens, t)
    BY <2>1, SamePort, InsideStep
  <2>4. "nm told" \in Inner
    BY DEF Inner
  <2> HIDE DEF ens
  <2>5. Calls(sendBackgroundRequest(ens, t, "plane", "nm told"))
    BY <2>3, <2>4, AskOps
  <2> QED
    BY <1>2, <2>2, <2>5
<1>5. Calls(NmRefused(s, t))
  <2> DEFINE u == notifyPlaneUnavailable(s, s.gen)
  <2>1. Inside(u, t) /\ Turn(u, t) /\ 0 \in Past(u.gen)
    BY <1>1, SameMessages, InsideStep
  <2> HIDE DEF u
  <2>2. Calls(Return(u, t, 0))
    BY <2>1, TaskOps
  <2> QED
    BY <2>2 DEF NmRefused, u
<1> QED
  BY <1>3, <1>4, <1>5

LEMMA NmToldCalls ==
    ASSUME NEW s, NEW t, Inside(s, t)
    PROVE  Calls(NmTold(s, t))
<1> DEFINE r == s.task[t]
           p == [s EXCEPT !.nm = TRUE]
           nm == markPlaneAuthoritativeReady(p, r.gen)
           w == Put(nm, Msg("wire", NoId, r.gen, TRUE))
<1>1. Turn(s, t) /\ Typed(s) /\ r.gen \in Past(s.gen) /\ 0 \in Past(s.gen) /\ r.gen \in Nat
  BY InsideTask, PastFacts
<1>2. NmTold(s, t) \in {Return(s, t, 0), despawnDataPlane(s, t, FALSE, "nm refused"),
                        despawnDataPlane(s, t, FALSE, "null"),
                        Return(w, t, r.gen), Return(nm, t, r.gen)}
  BY DEF NmTold
<1>3. Inside(p, t) /\ Typed(p) /\ r.gen \in Past(p.gen)
  BY <1>1, SameFields, InsideStep
<1> HIDE DEF p
<1>4. Inside(nm, t) /\ Turn(nm, t) /\ Typed(nm) /\ r.gen \in Past(nm.gen) /\ nm.gen \in Nat
  <2>1. Same(p, nm)
    BY <1>1, <1>3, SameMarks
  <2> HIDE DEF nm, r
  <2>2. Inside(nm, t) /\ Past(p.gen) \subseteq Past(nm.gen)
    BY <1>3, <2>1, InsideStep
  <2> QED
    BY <1>3, <2>2, InsideTask
<1> HIDE DEF nm
<1>5. Inside(w, t) /\ Turn(w, t) /\ r.gen \in Past(w.gen)
  <2>1. Msg("wire", NoId, r.gen, TRUE) \in BridgeMsg(nm.gen)
    BY <1>4, Messages
  <2>2. Same(nm, w)
    BY <1>4, <2>1, SameMessages
  <2> HIDE DEF w, r
  <2>3. Inside(w, t) /\ Past(nm.gen) \subseteq Past(w.gen)
    BY <1>4, <2>2, InsideStep
  <2> QED
    BY <1>4, <2>3, InsideTask
<1> HIDE DEF w
<1>6. Calls(Return(s, t, 0)) /\ Calls(Return(w, t, r.gen)) /\ Calls(Return(nm, t, r.gen))
  BY <1>1, <1>4, <1>5, TaskOps
<1>7. "nm refused" \in Inner /\ "null" \in Inner
  BY DEF Inner
<1>8. /\ Calls(despawnDataPlane(s, t, FALSE, "nm refused"))
      /\ Calls(despawnDataPlane(s, t, FALSE, "null"))
  BY <1>1, <1>7, DespawnCalls
<1> QED
  BY <1>2, <1>6, <1>8

LEMMA RecoverCalls ==
    ASSUME NEW s, NEW t, Inside(s, t)
    PROVE  Calls(Recover(s, t))
<1> DEFINE g == [s EXCEPT !.task[t].gen = s.gen]
           own == [g EXCEPT !.task[t].retire = FALSE]
<1>1. Turn(s, t) /\ s.gen \in Nat /\ s.gen \in Past(s.gen)
  BY InsideTask
<1>2. Recover(s, t) \in {End(s, t), Goto(own, t, "fallback"), spawnDataPlane(own, t)}
  BY DEF Recover
<1>3. Inside(g, t) /\ Turn(g, t)
  BY <1>1, TaskNotes DEF Inside
<1> HIDE DEF g
<1>4. Inside(own, t) /\ Turn(own, t)
  BY <1>3, TaskNotes DEF Inside
<1> HIDE DEF own
<1>5. "fallback" \in Pcs \ {"background"} /\ "fallback" # "accepted"
  BY DEF Pcs, Nested
<1>6. Turn(Goto(own, t, "fallback"), t)
  BY <1>4, <1>5, TaskOps
<1>7. Calls(End(s, t))
  BY <1>1, TaskOps
<1> QED
  BY <1>2, <1>4, <1>6, <1>7, InsideSoon, SpawnCalls DEF Turn

LEMMA WorkerErrorCalls ==
    ASSUME NEW s, Calls(s), FreeTasks(s) # {}, NEW g
    PROVE  Calls(handleWorkerErrorEvent(s, g))
<1> DEFINE t == NextTask(s)
           r == [Idle EXCEPT !.tok = s.session, !.rewire = TRUE, !.ret = <<"end">>]
           new == Start(s, r)
<1>1. r \in Tasks(s.gen) /\ r.pc = "idle" /\ r.ret # <<>>
  <2>1. s.session \in Token \cup {None} /\ s.gen \in Nat
    BY Fields DEF Calls
  <2>2. <<"end">> \in Stacks(s.gen) /\ <<"end">> # <<>>
    BY <2>1, Stacked
  <2> QED
    BY <2>1, <2>2, IdleType DEF Tasks, TaskRec, Idle, Nested, Awaits, Inner
<1>2. handleWorkerErrorEvent(s, g) \in {s, despawnDataPlane(new, t, FALSE, "end"),
                                        despawnDataPlane(new, t, TRUE, "recover")}
  BY DEF handleWorkerErrorEvent
<1> HIDE DEF r
<1>3. Inside(new, t) /\ Turn(new, t)
  BY <1>1, StartOps
<1> HIDE DEF new, t
<1>4. "end" \in Outer /\ "end" \notin Inner /\ "recover" \in Inner
  BY DEF Outer, Inner
<1>5. /\ Calls(despawnDataPlane(new, t, FALSE, "end"))
      /\ Calls(despawnDataPlane(new, t, TRUE, "recover"))
  BY <1>3, <1>4, DespawnCalls
<1> QED
  BY <1>2, <1>5

LEMMA StartedTasks ==
    ASSUME NEW G \in Nat
    PROVE  /\ \A id \in Ids, nmTry \in BOOLEAN :
                /\ [Idle EXCEPT !.id = id, !.nmTry = nmTry] \in Tasks(G)
                /\ [Idle EXCEPT !.id = id, !.nmTry = nmTry].pc = "idle"
           /\ \A id \in Ids, tok \in Token \cup {None} :
                /\ [Idle EXCEPT !.id = id, !.tok = tok] \in Tasks(G)
                /\ [Idle EXCEPT !.id = id, !.tok = tok].pc = "idle"
           /\ \A id \in Ids :
                /\ [Idle EXCEPT !.id = id] \in Tasks(G)
                /\ [Idle EXCEPT !.id = id].pc = "idle"
           /\ \A tok \in Token \cup {None} :
                /\ [Idle EXCEPT !.tok = tok] \in Tasks(G)
                /\ [Idle EXCEPT !.tok = tok].pc = "idle"
           /\ \A tok \in Token \cup {None}, mode \in Modes :
                /\ [Idle EXCEPT !.tok = tok, !.mode = mode, !.keep = TRUE, !.rewire = TRUE]
                     \in Tasks(G)
                /\ [Idle EXCEPT !.tok = tok, !.mode = mode, !.keep = TRUE, !.rewire = TRUE].pc
                     = "idle"
<1>1. Idle \in TaskRec(G) /\ Idle.pc = "idle"
  BY IdleType, TaskFields DEF Idle
<1>2. ASSUME NEW r \in TaskRec(G), r.pc = "idle"
      PROVE  r \in Tasks(G)
  BY <1>2 DEF Tasks, Nested, Awaits, Inner
<1>3. ASSUME NEW id \in Ids, NEW nmTry \in BOOLEAN
      PROVE  LET r == [Idle EXCEPT !.id = id, !.nmTry = nmTry]
             IN  r \in TaskRec(G) /\ r.pc = "idle"
  BY <1>1 DEF TaskRec
<1>4. ASSUME NEW id \in Ids, NEW tok \in Token \cup {None}
      PROVE  LET r == [Idle EXCEPT !.id = id, !.tok = tok]
             IN  r \in TaskRec(G) /\ r.pc = "idle"
  BY <1>1 DEF TaskRec
<1>5. ASSUME NEW id \in Ids
      PROVE  LET r == [Idle EXCEPT !.id = id] IN r \in TaskRec(G) /\ r.pc = "idle"
  BY <1>1 DEF TaskRec
<1>6. ASSUME NEW tok \in Token \cup {None}
      PROVE  LET r == [Idle EXCEPT !.tok = tok] IN r \in TaskRec(G) /\ r.pc = "idle"
  BY <1>1 DEF TaskRec
<1>7. ASSUME NEW tok \in Token \cup {None}, NEW mode \in Modes
      PROVE  LET r == [Idle EXCEPT !.tok = tok, !.mode = mode, !.keep = TRUE, !.rewire = TRUE]
             IN  r \in TaskRec(G) /\ r.pc = "idle"
  BY <1>1 DEF TaskRec
<1> QED
  BY <1>2, <1>3, <1>4, <1>5, <1>6, <1>7

LEMMA OpenRequestCalls ==
    ASSUME NEW s, Calls(s), FreeTasks(s) # {}, NEW m, m.id \in Ids
    PROVE  Calls(handleOpenRequest(s, m))
<1> DEFINE t == NextTask(s)
           nm == s.mode = "nm" \/ s.nm
           r == [Idle EXCEPT !.id = m.id, !.nmTry = nm]
           new == Start(s, r)
           ens == ensureRuntimeDataPort(new)
           try == [ens EXCEPT !.tries = @ + 1]
           u == IF nm THEN try ELSE new
<1>1. nm \in BOOLEAN /\ s.gen \in Nat
  BY Fields DEF Calls
<1>2. r \in Tasks(s.gen) /\ r.pc = "idle"
  <2> HIDE DEF nm
  <2> QED
    BY <1>1, StartedTasks
<1>3. handleOpenRequest(s, m) = sendBackgroundRequest(u, t, "open", "opened")
  BY DEF handleOpenRequest
<1> HIDE DEF r
<1>4. Turn(new, t) /\ Typed(new)
  BY <1>2, StartOps, TaskAt
<1> HIDE DEF new, t
<1>5. Turn(ens, t) /\ Typed(ens)
  BY <1>4, SamePort, SameStep
<1> HIDE DEF ens
<1>6. Turn(try, t)
  <2>1. ens.tries + 1 \in Int
    BY <1>5, Fields
  <2> QED
    BY <2>1, <1>5, SameFields, SameStep
<1> HIDE DEF try
<1>7. Turn(u, t)
  BY <1>4, <1>6
<1> HIDE DEF u
<1>8. "opened" \in Outer
  BY DEF Outer
<1> QED
  BY <1>3, <1>7, <1>8, AskOps

LEMMA ReleaseCalls ==
    ASSUME NEW s, NEW t, Turn(s, t)
    PROVE  /\ Turn(releaseNmOpenAttempt(s, t), t)
           /\ releaseNmOpenAttempt(s, t).task[t].id = s.task[t].id
           /\ releaseNmOpenAttempt(s, t).task[t].res = s.task[t].res
           /\ releaseNmOpenAttempt(s, t).gen = s.gen
<1> DEFINE v == IF s.task[t].nmTry THEN s.tries - 1 ELSE s.tries
           a == [s EXCEPT !.tries = v]
           q == [a.task[t] EXCEPT !.nmTry = FALSE]
           u == [a EXCEPT !.task[t] = q]
<1>1. v \in Int
  BY TaskAt, Fields
<1>2. releaseNmOpenAttempt(s, t) = u
  BY DEF releaseNmOpenAttempt
<1>3. Same(s, a) /\ a.gen = s.gen
  <2>1. s.gen = a.gen
    BY TaskAt, Fields
  <2> HIDE DEF v
  <2> QED
    BY <1>1, <2>1, TaskAt, SameFields
<1>4. Turn(a, t) /\ a.task = s.task
  BY <1>3, SameStep DEF Same
<1> HIDE DEF a
<1>5. /\ q \in Tasks(a.gen) /\ q.pc = a.task[t].pc /\ q.ret = a.task[t].ret
      /\ q.id = a.task[t].id /\ q.res = a.task[t].res
  <2>1. a.task[t] \in Tasks(a.gen) /\ a.gen \in Nat
    BY <1>4, TaskAt, Fields
  <2>2. a.task[t] \in TaskRec(a.gen)
    BY <2>1, TaskFields
  <2>3. q \in Tasks(a.gen)
    BY <2>1, TaskFields
  <2> QED
    BY <2>2, <2>3 DEF TaskRec
<1> HIDE DEF q
<1>6. Calls(u) /\ u.task[t] = q /\ u.gen = a.gen
  BY <1>4, <1>5, MoveCalls
<1> HIDE DEF u
<1> QED
  BY <1>2, <1>3, <1>4, <1>5, <1>6 DEF Turn

LEMMA ReplyEnds ==
    ASSUME NEW s, NEW t, Turn(s, t), NEW id \in Ids, NEW ok \in BOOLEAN, NEW g \in Past(s.gen)
    PROVE  Calls(End(replyToPage(s, id, ok, g), t))
<1>1. Turn(replyToPage(s, id, ok, g), t)
  BY TaskAt, SameMessages, SameStep
<1> QED
  BY <1>1, TaskOps

LEMMA OpenRefusedCalls ==
    ASSUME NEW s, NEW t, Turn(s, t)
    PROVE  Calls(OpenRefused(s, t))
<1> DEFINE rel == releaseNmOpenAttempt(s, t)
           u == discardFailedOpenDataPort(rel)
<1>1. Turn(rel, t) /\ Typed(rel)
  BY ReleaseCalls, TaskAt
<1> HIDE DEF rel
<1>2. Turn(u, t)
  BY <1>1, SamePort, SameStep
<1> HIDE DEF u
<1>3. Calls(End(replyToPage(u, s.task[t].id, FALSE, 0), t))
  BY <1>2, TaskAt, ReplyEnds
<1> QED
  BY <1>3 DEF OpenRefused, u, rel

\* An accepted open awaits the generation it is about to begin.
LEMMA AwaitAccepted ==
    ASSUME NEW s, NEW t, Turn(s, t)
    PROVE  Soon(Await(s, t, "accepted"), t)
<1> DEFINE G == s.gen + 1
           r == s.task[t]
           q == [r EXCEPT !.ret = <<"accepted">> \o @]
           u == [s EXCEPT !.task[t] = q]
<1>1. s.gen \in Nat /\ s \in BridgeRec(G) /\ Queue(s) /\ t \in Task /\ r.pc # "background" /\ Typed(s)
  BY Ahead DEF Turn, Calls
<1>2. G \in Nat /\ "accepted" \in Steps(G) /\ "accepted" \notin Inner
  BY <1>1, StepFacts
<1> HIDE DEF G
<1>3. r \in Tasks(G) /\ r \in TaskRec(G)
  BY <1>1, <1>2, TaskTypes, TaskFields
<1>4. r.ret \in Stacks(G)
  BY <1>3 DEF TaskRec
<1>5. <<"accepted">> \o r.ret \in Stacks(G) /\ <<"accepted">> \o r.ret # <<>>
  BY <1>2, <1>4, Stacked
<1>6. q \in Tasks(G) /\ q.ret # <<>> /\ q.pc = r.pc
  BY <1>2, <1>3, <1>5, TaskFields DEF TaskRec
<1>7. Await(s, t, "accepted") = u
  BY DEF Await
<1> HIDE DEF q
<1>8. u \in BridgeRec(G)
  BY <1>1, <1>2, <1>6, TaskTypes
<1>9. u.gen = s.gen /\ u.task = [s.task EXCEPT ![t] = q] /\ u.control = s.control /\ s.task \in [Task -> Tasks(s.gen)]
  BY <1>1, Fields
<1>10. u.task[t] = q /\ \A x \in Task : s.task[x].pc = "background" => u.task[x].pc = "background"
  <2>1. u.task[t] = q /\ \A x \in Task : x # t => u.task[x] = s.task[x]
    BY <1>1, <1>9
  <2>2. s.task[t].pc # "background"
    BY <1>1
  <2> HIDE DEF u, r
  <2> QED
    BY <2>1, <2>2
<1> HIDE DEF u
<1>11. Queue(u)
  <2>1. \A i \in 1..Len(s.control) : s.control[i].task # 0 => s.control[i].task \in Task
    <3>1. s.control \in Seq(Request)
      BY <1>1, Fields
    <3>2. \A i \in 1..Len(s.control) : s.control[i] \in Request
      BY <3>1
    <3> QED
      BY <3>2 DEF Request
  <2> QED
    BY <1>1, <1>9, <1>10, <2>1 DEF Queue
<1>12. Soon(u, t)
  BY <1>1, <1>6, <1>8, <1>9, <1>10, <1>11 DEF Soon, G
<1> QED
  BY <1>7, <1>12

LEMMA OpenSuccessCalls ==
    ASSUME NEW s, NEW t, Turn(s, t)
    PROVE  Calls(handleOpenSuccess(s, t))
<1> DEFINE z == [s EXCEPT !.task[t].res = 0]
           held == [s EXCEPT !.session = s.task[t].tok]
           new == beginPlaneGeneration(held)
           nm == [new EXCEPT !.nm = TRUE]
           ens == ensureRuntimeDataPort(nm)
           ready == markPlaneAuthoritativeReady(ens, new.gen)
           y == [ready EXCEPT !.task[t].res = new.gen]
           aw == Await(held, t, "accepted")
<1>1. "accepted" \notin Awaits \cup Nested /\ "accepted" \in Pcs \ {"background"}
  BY DEF Inner, Pcs, Awaits, Nested
<1>2. handleOpenSuccess(s, t) \in {Goto(z, t, "accepted"), Goto(y, t, "accepted"),
                                   spawnDataPlane(aw, t)}
  BY DEF handleOpenSuccess
<1>3. Turn(z, t) /\ z.task[t].res \in Past(z.gen)
  <2>1. Turn(z, t)
    BY TaskAt, TaskNotes
  <2>2. z.task[t].res = 0
    <3>1. s.task \in [Task -> Tasks(s.gen)] /\ s.task[t] \in TaskRec(s.gen) /\ t \in Task
          /\ "task" \in DOMAIN s
      BY TaskAt, Fields, TaskFields
    <3> QED
      BY <3>1 DEF TaskRec
  <2> HIDE DEF z
  <2> QED
    BY <2>1, <2>2, TaskAt
<1> HIDE DEF z
<1>4. Turn(held, t) /\ Typed(held)
  <2>1. Typed(s) /\ s.task[t].tok \in Token \cup {None}
    BY TaskAt
  <2>2. Same(s, held)
    BY <2>1, SameFields
  <2> HIDE DEF held
  <2> QED
    BY <2>2, SameStep
<1> HIDE DEF held
<1>5. Turn(new, t) /\ Typed(new) /\ new.gen \in Nat /\ new.gen \in Past(new.gen)
  BY <1>4, SameNewGeneration, SameStep, TaskAt
<1> HIDE DEF new
<1>6. Turn(nm, t) /\ Typed(nm) /\ new.gen \in Past(nm.gen)
  BY <1>5, SameFields, SameStep
<1> HIDE DEF nm
<1>7. Turn(ens, t) /\ Typed(ens) /\ new.gen \in Past(ens.gen)
  BY <1>6, SamePort, SameStep
<1> HIDE DEF ens
<1>8. Turn(ready, t) /\ new.gen \in Past(ready.gen)
  BY <1>5, <1>7, SameMarks, SameStep
<1> HIDE DEF ready
<1>9. Turn(y, t) /\ y.task[t].res \in Past(y.gen)
  <2>1. Turn(y, t)
    BY <1>8, TaskNotes
  <2>2. y.task[t].res = new.gen /\ y.gen = ready.gen
    <3>1. /\ ready.task \in [Task -> Tasks(ready.gen)] /\ ready.task[t] \in TaskRec(ready.gen) /\ t \in Task
          /\ {"task", "gen"} \subseteq DOMAIN ready
      BY <1>8, TaskAt, Fields, TaskFields
    <3> QED
      BY <3>1 DEF TaskRec
  <2> HIDE DEF y
  <2> QED
    BY <1>8, <2>1, <2>2
<1> HIDE DEF y
<1>10. Turn(Goto(z, t, "accepted"), t) /\ Turn(Goto(y, t, "accepted"), t)
  BY <1>1, <1>3, <1>9, TaskOps
<1>11. Soon(aw, t)
  BY <1>4, AwaitAccepted
<1> QED
  BY <1>2, <1>10, <1>11, SpawnCalls DEF Turn

LEMMA OpenCalls ==
    ASSUME NEW s, NEW t, Turn(s, t)
    PROVE  /\ Calls(Opened(s, t))
           /\ s.task[t].pc = "accepted" => Calls(OpenAccepted(s, t))
           /\ Calls(HandBack(s, t)) /\ Calls(HandedBack(s, t))
<1>1. Calls(Opened(s, t))
  BY OpenRefusedCalls, OpenSuccessCalls DEF Opened
<1>2. ASSUME s.task[t].pc = "accepted"
      PROVE  Calls(OpenAccepted(s, t))
  <2> DEFINE rel == releaseNmOpenAttempt(s, t)
             u == [s EXCEPT !.session = None]
  <2>1. Turn(rel, t) /\ s.task[t].res \in Past(rel.gen)
    BY <1>2, ReleaseCalls, TaskAt
  <2>2. Calls(End(replyToPage(rel, s.task[t].id, TRUE, s.task[t].res), t))
    <3> HIDE DEF rel
    <3> QED
      BY <2>1, TaskAt, ReplyEnds
  <2>3. Turn(u, t)
    BY TaskAt, SameFields, SameStep
  <2>4. Calls(despawnDataPlane(u, t, FALSE, "hand back"))
    <3> HIDE DEF u
    <3>1. "hand back" \in Outer /\ "hand back" \notin Inner
      BY DEF Outer, Inner
    <3> QED
      BY <2>3, <3>1, DespawnCalls
  <2> QED
    BY <2>2, <2>4 DEF OpenAccepted
<1>3. Calls(HandBack(s, t))
  <2>1. "handed back" \in Outer
    BY DEF Outer
  <2> QED
    BY <2>1, AskOps DEF HandBack
<1>4. Calls(HandedBack(s, t))
  <2> DEFINE d1 == discardFailedOpenDataPort(s)
             done == releaseNmOpenAttempt(d1, t)
  <2>1. Turn(d1, t)
    BY TaskAt, SamePort, SameStep
  <2> HIDE DEF d1
  <2>2. Turn(done, t)
    BY <2>1, ReleaseCalls
  <2> HIDE DEF done
  <2>3. Calls(End(replyToPage(done, s.task[t].id, FALSE, 0), t))
    BY <2>2, TaskAt, ReplyEnds
  <2> QED
    BY <2>3 DEF HandedBack, done, d1
<1> QED
  BY <1>1, <1>2, <1>3, <1>4

LEMMA CloseCalls ==
    ASSUME NEW s
    PROVE  /\ Calls(s) /\ FreeTasks(s) # {} =>
                \A m : m.id \in Ids => Calls(handleCloseRequest(s, m))
           /\ \A t : Turn(s, t) => /\ Calls(CloseAnsweredByBackground(s, t))
                                   /\ Calls(handleCloseSuccess(s, t))
<1>1. ASSUME Calls(s), FreeTasks(s) # {}, NEW m, m.id \in Ids
      PROVE  Calls(handleCloseRequest(s, m))
  <2> DEFINE t == NextTask(s)
             r == [Idle EXCEPT !.id = m.id, !.tok = s.session]
             new == Start(s, r)
  <2>1. r \in Tasks(s.gen) /\ r.pc = "idle"
    <3>1. s.session \in Token \cup {None} /\ s.gen \in Nat
      BY <1>1, Fields DEF Calls
    <3>2. \A id \in Ids, tok \in Token \cup {None} :
            /\ [Idle EXCEPT !.id = id, !.tok = tok] \in Tasks(s.gen)
            /\ [Idle EXCEPT !.id = id, !.tok = tok].pc = "idle"
      BY <3>1, StartedTasks
    <3> QED
      BY <1>1, <3>1, <3>2
  <2>2. handleCloseRequest(s, m) = sendBackgroundRequest(new, t, "close", "close answered")
    BY DEF handleCloseRequest
  <2> HIDE DEF r
  <2>3. Turn(new, t)
    BY <1>1, <2>1, StartOps
  <2> HIDE DEF new, t
  <2>4. "close answered" \in Outer
    BY DEF Outer
  <2> QED
    BY <2>2, <2>3, <2>4, AskOps
<1>2. ASSUME NEW t, Turn(s, t)
      PROVE  Calls(CloseAnsweredByBackground(s, t))
  <2> DEFINE v == IF s.task[t].tok # None THEN s.task[t].tok ELSE s.session
             none == [s EXCEPT !.session = None]
             kept == [s EXCEPT !.session = v]
  <2>1. v \in Token \cup {None} /\ Typed(s)
    BY <1>2, TaskAt, Fields
  <2>2. CloseAnsweredByBackground(s, t)
          \in {despawnDataPlane(none, t, FALSE, "closed"),
               End(replyToPage(kept, s.task[t].id, FALSE, 0), t)}
    BY DEF CloseAnsweredByBackground
  <2> HIDE DEF v
  <2>3. Same(s, none) /\ Same(s, kept)
    BY <2>1, SameFields
  <2>4. Turn(none, t) /\ Turn(kept, t)
    <3> HIDE DEF none, kept
    <3> QED
      BY <1>2, <2>3, SameStep
  <2> HIDE DEF none, kept
  <2>5. "closed" \in Outer /\ "closed" \notin Inner
    BY DEF Outer, Inner
  <2>6. Calls(despawnDataPlane(none, t, FALSE, "closed"))
    BY <2>4, <2>5, DespawnCalls
  <2>7. Calls(End(replyToPage(kept, s.task[t].id, FALSE, 0), t))
    BY <1>2, <2>4, TaskAt, ReplyEnds
  <2> QED
    BY <2>2, <2>6, <2>7
<1>3. ASSUME NEW t, Turn(s, t)
      PROVE  Calls(handleCloseSuccess(s, t))
  BY <1>3, TaskAt, ReplyEnds DEF handleCloseSuccess
<1> QED
  BY <1>1, <1>2, <1>3

LEMMA SameWait ==
    ASSUME NEW s, Typed(s), NEW id \in Ids, NEW g, NEW tok \in Token \cup {None}
    PROVE  Same(s, waitForPlaneReady(s, id, g, tok))
<1> DEFINE w == [gen |-> s.gen, id |-> id, tok |-> tok]
           u == [s EXCEPT !.waiter = w]
           v == [u EXCEPT !.timers = @ \cup {w}]
<1>1. waitForPlaneReady(s, id, g, tok)
        \in {s, replyToPage(s, id, FALSE, 0), replyToPage(s, id, TRUE, 0), v}
  BY DEF waitForPlaneReady
<1>2. w \in Waiter(s.gen)
  BY Fields, PastFacts DEF Waiter
<1>3. Same(s, u) /\ u.gen = s.gen
  <2>1. u.gen = s.gen
    BY Fields
  <2> HIDE DEF w
  <2> QED
    BY <1>2, <2>1, SameFields
<1> HIDE DEF u
<1>4. Typed(u)
  BY <1>3 DEF Same
<1>5. u.timers \cup {w} \in SUBSET Waiter(u.gen)
  BY <1>2, <1>3, <1>4, Fields
<1> HIDE DEF w
<1>6. Same(s, v)
  BY <1>3, <1>4, <1>5, SameFields, SameChain
<1>7. Same(s, s) /\ Same(s, replyToPage(s, id, FALSE, 0)) /\ Same(s, replyToPage(s, id, TRUE, 0))
  BY SameFields, SameMessages
<1> QED
  BY <1>1, <1>6, <1>7

LEMMA FellBackCalls ==
    ASSUME NEW s, NEW t, Turn(s, t)
    PROVE  Calls(FellBack(s, t))
<1> DEFINE r == s.task[t]
           u == waitForPlaneReady(s, r.id, r.res, r.tok)
<1>1. Calls(End(replyToPage(s, r.id, FALSE, 0), t))
  BY TaskAt, ReplyEnds
<1>2. Same(s, u)
  BY TaskAt, SameWait
<1> HIDE DEF u
<1>3. Turn(u, t)
  BY <1>2, SameStep
<1>4. Calls(End(u, t))
  BY <1>3, TaskOps
<1> QED
  BY <1>1, <1>4 DEF FellBack, u

LEMMA SamePlaneReady ==
    ASSUME NEW s, Typed(s), NEW G \in Nat, NEW m \in PageMsg(G)
    PROVE  Same(s, handlePlaneReadyRequest(s, m))
<1>1. m.id \in Ids
  BY DEF PageMsg
<1> QED
  BY <1>1, SameMessages, SameWait, Fields DEF handlePlaneReadyRequest

LEMMA SameDataPort ==
    ASSUME NEW s, Typed(s), NEW G \in Nat, NEW m \in PageMsg(G)
    PROVE  Same(s, handleDataPortRequest(s, m))
<1> DEFINE w == [gen |-> m.gen, up |-> TRUE, real |-> m.ok /\ s.params]
           x == [s EXCEPT !.worker = w]
           y == [x EXCEPT !.params = FALSE]
           z == [s EXCEPT !.ports = @ \cup {[gen |-> m.gen, own |-> ~m.ok]}]
<1>1. m.ok \in BOOLEAN
  BY DEF PageMsg
<1>2. Same(s, s)
  BY SameFields
<1>3. CASE s.gen # m.gen
  BY <1>2, <1>3 DEF handleDataPortRequest
<1>4. CASE s.gen = m.gen
  <2>1. handleDataPortRequest(s, m) \in {s, y, markPlaneLocalReady(z, m.gen)}
    BY <1>4 DEF handleDataPortRequest
  <2>2. m.gen \in Past(s.gen) /\ m.gen \in Nat
    BY <1>4, Fields, PastFacts
  <2>3. Same(s, x) /\ Typed(x)
    <3>1. w \in Worker(s.gen)
      BY <1>1, <2>2, Fields DEF Worker
    <3> HIDE DEF w
    <3>2. Same(s, x)
      BY <3>1, SameFields
    <3> QED
      BY <3>2 DEF Same
  <2> HIDE DEF x
  <2>4. Same(s, y)
    BY <2>3, SameFields, SameChain
  <2>5. Same(s, z) /\ Typed(z)
    <3>1. s.ports \cup {[gen |-> m.gen, own |-> ~m.ok]} \in SUBSET Port(s.gen)
      <4>1. [gen |-> m.gen, own |-> ~m.ok] \in Port(s.gen)
        BY <1>1, <2>2 DEF Port
      <4> QED
        BY <4>1, Fields
    <3>2. Same(s, z)
      BY <3>1, SameFields
    <3> QED
      BY <3>2 DEF Same
  <2> HIDE DEF y, z
  <2>6. Same(s, markPlaneLocalReady(z, m.gen))
    BY <2>2, <2>5, SameMarks, SameChain
  <2> QED
    BY <1>2, <2>1, <2>4, <2>6
<1> QED
  BY <1>3, <1>4

LEMMA LossCalls ==
    ASSUME NEW s, Calls(s), FreeTasks(s) # {}, NEW how \in {"disconnect", "revoked"}
    PROVE  Calls(reconcileFrameDevice(s, how))
<1> DEFINE t == NextTask(s)
           r == [Idle EXCEPT !.id = <<how, 0>>]
           new == Start(s, r)
           none == [new EXCEPT !.session = None]
<1>1. r \in Tasks(s.gen) /\ r.pc = "idle"
  <2>1. <<how, 0>> \in Ids /\ s.gen \in Nat
    BY Fields DEF Ids, Calls
  <2> QED
    BY <2>1, StartedTasks
<1>2. reconcileFrameDevice(s, how) \in {s, despawnDataPlane(none, t, FALSE, "lost")}
  BY DEF reconcileFrameDevice
<1> HIDE DEF r
<1>3. Turn(new, t) /\ Typed(new)
  BY <1>1, StartOps, TaskAt
<1> HIDE DEF new, t
<1>4. Turn(none, t)
  BY <1>3, SameFields, SameStep
<1> HIDE DEF none
<1>5. "lost" \in Outer /\ "lost" \notin Inner
  BY DEF Outer, Inner
<1>6. Calls(despawnDataPlane(none, t, FALSE, "lost"))
  BY <1>4, <1>5, DespawnCalls
<1> QED
  BY <1>2, <1>6

LEMMA EndingCalls ==
    ASSUME NEW s, NEW t, Turn(s, t)
    PROVE  Calls(Lost(s, t)) /\ Calls(Purged(s, t)) /\ Calls(Destroyed(s, t))
<1>1. Calls(Lost(s, t))
  <2> DEFINE u == Put(s, Msg("event", s.task[t].id, 0, TRUE))
  <2>1. Typed(s) /\ Msg("event", s.task[t].id, 0, TRUE) \in BridgeMsg(s.gen)
    BY TaskAt, Messages
  <2>2. Same(s, u)
    BY <2>1, SameMessages
  <2> HIDE DEF u
  <2>3. Turn(u, t)
    BY <2>2, SameStep
  <2>4. Calls(End(u, t)) /\ Calls(End(s, t))
    BY <2>3, TaskOps
  <2> QED
    BY <2>4 DEF Lost, u
<1>2. Calls(Purged(s, t))
  <2>1. "destroyed" \in Outer /\ "destroyed" \notin Inner
    BY DEF Outer, Inner
  <2> QED
    BY <2>1, DespawnCalls DEF Purged
<1>3. Calls(Destroyed(s, t))
  <2> DEFINE u == [s EXCEPT !.session = None]
  <2>1. Turn(u, t)
    BY TaskAt, SameFields, SameStep
  <2> HIDE DEF u
  <2> QED
    BY <2>1, TaskOps DEF Destroyed, u
<1> QED
  BY <1>1, <1>2, <1>3

LEMMA RejectCalls ==
    ASSUME NEW s, Calls(s)
    PROVE  /\ Calls(rejectPendingSpawns(s))
           /\ FreeTasks(rejectPendingSpawns(s)) = FreeTasks(s)
           /\ rejectPendingSpawns(s).session = s.session
<1> DEFINE f == [u \in Task |->
                   CASE s.task[u].pc = "spawning" -> [s.task[u] EXCEPT !.pc = "spawned", !.res = 0]
                     [] s.task[u].pc \in {"tail", "hash"} -> [s.task[u] EXCEPT !.old = 0]
                     [] OTHER -> s.task[u]]
<1>1. Typed(s) /\ s.gen \in Nat /\ 0 \in Past(s.gen)
  BY Fields, PastFacts DEF Calls
<1>2. rejectPendingSpawns(s) = [s EXCEPT !.task = f]
  BY DEF rejectPendingSpawns
<1>3. ASSUME NEW u \in Task
      PROVE  /\ f[u] \in Tasks(s.gen)
             /\ s.task[u].pc = "background" => f[u].pc = "background"
             /\ f[u].pc = "idle" <=> s.task[u].pc = "idle"
  <2> DEFINE r == s.task[u]
             q == [r EXCEPT !.pc = "spawned"]
  <2>1. r \in Tasks(s.gen) /\ r \in TaskRec(s.gen)
    BY <1>1, Fields, TaskFields
  <2>2. CASE r.pc = "spawning"
    <3>1. f[u] = [q EXCEPT !.res = 0]
      BY <2>2
    <3>2. "spawned" \in Pcs /\ r.ret # <<>> /\ "spawned" # "accepted"
      BY <1>1, <2>1, <2>2, TaskFields DEF Pcs, Nested, Awaits
    <3>3. q \in Tasks(s.gen) /\ q.pc = "spawned" /\ q \in TaskRec(s.gen)
      <4>1. q \in Tasks(s.gen) /\ q.pc = "spawned"
        BY <1>1, <2>1, <3>2, TaskFields DEF TaskRec
      <4> HIDE DEF q
      <4> QED
        BY <1>1, <4>1, TaskFields
    <3> HIDE DEF q
    <3>4. [q EXCEPT !.res = 0] \in Tasks(s.gen) /\ [q EXCEPT !.res = 0].pc = "spawned"
      BY <1>1, <3>3, TaskFields DEF TaskRec
    <3> HIDE DEF f
    <3> QED
      BY <2>2, <3>1, <3>4
  <2>3. CASE r.pc \in {"tail", "hash"}
    <3>1. f[u] = [r EXCEPT !.old = 0]
      BY <2>3
    <3>2. [r EXCEPT !.old = 0] \in Tasks(s.gen) /\ [r EXCEPT !.old = 0].pc = r.pc
      BY <1>1, <2>1, TaskFields DEF TaskRec
    <3> HIDE DEF f
    <3> QED
      BY <2>3, <3>1, <3>2
  <2>4. CASE r.pc \notin {"tail", "hash", "spawning"}
    <3>1. f[u] = r
      BY <2>4
    <3> HIDE DEF f
    <3> QED
      BY <2>1, <3>1
  <2> QED
    BY <2>2, <2>3, <2>4
<1>4. f \in [Task -> Tasks(s.gen)]
  BY <1>3
<1> HIDE DEF f
<1>5. Calls([s EXCEPT !.task = f]) /\ [s EXCEPT !.task = f].task = f
  BY <1>3, <1>4, MapCalls
<1>6. [s EXCEPT !.task = f].session = s.session
  BY <1>1, Fields
<1> QED
  BY <1>2, <1>3, <1>5, <1>6 DEF FreeTasks

LEMMA DestroyCalls ==
    ASSUME NEW s, Calls(s), FreeTasks(s) # {}
    PROVE  Calls(destroyFrameContext(s))
<1> DEFINE a == [s EXCEPT !.live = FALSE]
           e == rejectPendingSpawns(a)
           t == NextTask(s)
           r == [Idle EXCEPT !.tok = s.session]
           new == Start(e, r)
<1>1. Typed(s) /\ s.session \in Token \cup {None} /\ s.gen \in Nat
  BY Fields DEF Calls
<1>2. Same(s, a)
  BY <1>1, SameFields
<1>3. Calls(a) /\ FreeTasks(a) = FreeTasks(s)
  <2> HIDE DEF a
  <2> QED
    BY <1>2, SameCalls DEF Same, FreeTasks
<1>4. \A G \in Nat : r \in Tasks(G) /\ r.pc = "idle"
  BY <1>1, StartedTasks
<1>5. destroyFrameContext(s) \in {s, sendBackgroundRequest(new, t, "gone", "purged")}
  BY DEF destroyFrameContext
<1> HIDE DEF a, r
<1>6. Calls(e) /\ FreeTasks(e) = FreeTasks(s)
  BY <1>3, RejectCalls
<1> HIDE DEF e
<1>7. t = NextTask(e)
  BY <1>6 DEF NextTask
<1>8. Turn(new, t)
  <2>1. r \in Tasks(e.gen) /\ r.pc = "idle"
    BY <1>4, <1>6, Fields DEF Calls
  <2> QED
    BY <1>6, <1>7, <2>1, StartOps
<1> HIDE DEF new, t
<1>9. "purged" \in Outer
  BY DEF Outer
<1> QED
  BY <1>5, <1>8, <1>9, AskOps

LEMMA ApplyCalls ==
    ASSUME NEW s, Calls(s), FreeTasks(s) # {}, NEW mode \in Modes
    PROVE  Calls(applyDataPlane(s, mode))
<1> DEFINE set == [s EXCEPT !.mode = mode]
           t == NextTask(set)
           r == [Idle EXCEPT !.tok = s.session, !.mode = mode, !.keep = TRUE, !.rewire = TRUE]
           new == Start(set, r)
<1>1. Typed(s) /\ s.session \in Token \cup {None} /\ s.gen \in Nat
  BY Fields DEF Calls
<1>2. Same(s, set)
  BY <1>1, SameFields
<1>3. applyDataPlane(s, mode) \in {set, despawnDataPlane(new, t, TRUE, "switch")}
  BY DEF applyDataPlane
<1>4. ASSUME NEW G \in Nat
      PROVE  r \in Tasks(G) /\ r.pc = "idle"
  <2>1. \A tok \in Token \cup {None}, md \in Modes :
          /\ [Idle EXCEPT !.tok = tok, !.mode = md, !.keep = TRUE, !.rewire = TRUE] \in Tasks(G)
          /\ [Idle EXCEPT !.tok = tok, !.mode = md, !.keep = TRUE, !.rewire = TRUE].pc = "idle"
    BY StartedTasks
  <2> QED
    BY <1>1, <2>1
<1> HIDE DEF set, r
<1>5. Calls(set) /\ FreeTasks(set) # {}
  BY <1>2, SameCalls DEF Same, FreeTasks
<1>6. Turn(new, t)
  <2>1. r \in Tasks(set.gen) /\ r.pc = "idle"
    BY <1>4, <1>5, Fields DEF Calls
  <2> QED
    BY <1>5, <2>1, StartOps
<1> HIDE DEF new, t
<1>7. "switch" \in Outer /\ "switch" \notin Inner
  BY DEF Outer, Inner
<1>8. Calls(despawnDataPlane(new, t, TRUE, "switch"))
  BY <1>6, <1>7, DespawnCalls
<1> QED
  BY <1>3, <1>5, <1>8

LEMMA RespawnCalls ==
    ASSUME NEW s, NEW t, Turn(s, t)
    PROVE  Calls(respawnPlanesForMode(s, t))
<1> DEFINE told == SendAndForget(s, "plane", s.task[t].tok, s.task[t].mode)
           a1 == [told EXCEPT !.task[t].keep = FALSE]
           a2 == [a1 EXCEPT !.task[t].tok = s.session]
           q == [a2.task[t] EXCEPT !.ret = <<"end">>]
           a3 == [a2 EXCEPT !.task[t] = q]
<1>1. Turn(told, t) /\ s.session \in Token \cup {None}
  BY TaskAt, TellCalls, Fields
<1>2. respawnPlanesForMode(s, t) \in {End(told, t), spawnDataPlane(a3, t)}
  BY DEF respawnPlanesForMode
<1> HIDE DEF told
<1>3. Turn(a1, t)
  BY <1>1, TaskNotes
<1> HIDE DEF a1
<1>4. Turn(a2, t)
  BY <1>1, <1>3, TaskNotes
<1> HIDE DEF a2
<1>5. /\ a2.task[t] \in Tasks(a2.gen) /\ a2.task[t] \in TaskRec(a2.gen)
      /\ a2.task[t].pc # "background" /\ t \in Task /\ a2.gen \in Nat
  BY <1>4, TaskAt, Fields, TaskFields DEF Turn
<1>6. q \in Tasks(a2.gen) /\ q.pc # "background" /\ q.ret # <<>>
  <2>1. <<"end">> \in Stacks(a2.gen) /\ <<"end">> # <<>>
    BY <1>5, Stacked
  <2> QED
    BY <1>5, <2>1, TaskFields DEF TaskRec
<1> HIDE DEF q
<1>7. Calls(a3) /\ a3.task[t] = q
  BY <1>4, <1>6, MoveCalls
<1> HIDE DEF a3
<1>8. Inside(a3, t)
  BY <1>5, <1>6, <1>7 DEF Inside, Turn
<1>9. Calls(End(told, t))
  BY <1>1, TaskOps
<1> QED
  BY <1>2, <1>8, <1>9, InsideSoon, SpawnCalls

LEMMA SwitchCalls ==
    ASSUME NEW s, NEW t, Turn(s, t)
    PROVE  /\ Calls(SwitchPlane(s, t)) /\ Calls(SwitchedToNm(s, t))
           /\ Calls(SwitchRefused(s, t))
<1>1. Calls(SwitchPlane(s, t))
  <2>1. "switched" \in Outer
    BY DEF Outer
  <2> QED
    BY <2>1, AskOps, RespawnCalls DEF SwitchPlane
<1>2. Calls(SwitchedToNm(s, t))
  <2> DEFINE plain == [s EXCEPT !.task[t].keep = FALSE]
             p == [s EXCEPT !.nm = TRUE]
             ens == ensureRuntimeDataPort(p)
             nm == markPlaneAuthoritativeReady(ens, s.gen)
             w == Put(nm, Msg("wire", NoId, s.gen, TRUE))
  <2>1. SwitchedToNm(s, t) \in {despawnDataPlane(plain, t, FALSE, "switch refused"),
                                End(w, t), End(nm, t)}
    BY DEF SwitchedToNm
  <2>2. Typed(s) /\ s.gen \in Nat /\ s.gen \in Past(s.gen)
    BY TaskAt
  <2>3. Turn(plain, t)
    BY TaskNotes
  <2> HIDE DEF plain
  <2>4. "switch refused" \in Outer /\ "switch refused" \notin Inner
    BY DEF Outer, Inner
  <2>5. Calls(despawnDataPlane(plain, t, FALSE, "switch refused"))
    BY <2>3, <2>4, DespawnCalls
  <2>6. Turn(p, t) /\ Typed(p) /\ s.gen \in Past(p.gen)
    BY <2>2, SameFields, SameStep
  <2> HIDE DEF p
  <2>7. Turn(ens, t) /\ Typed(ens) /\ s.gen \in Past(ens.gen)
    BY <2>6, SamePort, SameStep
  <2> HIDE DEF ens
  <2>8. Turn(nm, t) /\ Typed(nm) /\ s.gen \in Past(nm.gen) /\ nm.gen \in Nat
    BY <2>2, <2>7, SameMarks, SameStep, TaskAt
  <2> HIDE DEF nm
  <2>9. Turn(w, t)
    BY <2>8, Messages, SameMessages, SameStep
  <2> HIDE DEF w
  <2>10. Calls(End(w, t)) /\ Calls(End(nm, t))
    BY <2>8, <2>9, TaskOps
  <2> QED
    BY <2>1, <2>5, <2>10
<1>3. Calls(SwitchRefused(s, t))
  <2> DEFINE u == notifyPlaneUnavailable(s, s.gen)
  <2>1. Turn(u, t)
    BY TaskAt, Fields, SameMessages, SameStep
  <2> HIDE DEF u
  <2> QED
    BY <2>1, TaskOps DEF SwitchRefused, u
<1> QED
  BY <1>1, <1>2, <1>3

\* Every step a task may continue with keeps the stacks and the queue.
LEMMA ContinueCalls ==
    ASSUME NEW s, NEW t \in Task, Calls(s), s.task[t].pc \in Outer \cup Nested \cup {"accepted"}
    PROVE  Calls(Continue(s, t))
<1> DEFINE pc == s.task[t].pc
<1>1. Turn(s, t)
  BY DEF Turn, Outer, Nested, Inner
<1>2. pc \in Nested => Inside(s, t)
  <2>1. s.task[t] \in Tasks(s.gen) /\ s.gen \in Nat
    BY Fields DEF Calls
  <2> QED
    BY <1>1, <2>1, TaskFields DEF Inside
<1>3. CASE pc = "tail"
  <2>1. Continue(s, t) = DespawnTail(s, t)
    BY <1>3 DEF Continue
  <2>2. Inside(s, t)
    BY <1>2, <1>3 DEF Nested
  <2> QED
    BY <1>3, <2>1, <2>2, TailCalls
<1>4. CASE pc = "spawned"
  <2>1. Continue(s, t) = WorkerSpawned(s, t)
    BY <1>4 DEF Continue
  <2>2. Inside(s, t)
    BY <1>2, <1>4 DEF Nested
  <2> QED
    BY <2>1, <2>2, WorkerSpawnedCalls
<1>5. CASE pc = "connected"
  <2>1. Continue(s, t) = SpawnDone(s, t, s.task[t].res # 0)
    BY <1>5 DEF Continue
  <2>2. Inside(s, t)
    BY <1>2, <1>5 DEF Nested
  <2> QED
    BY <2>1, <2>2, SpawnDoneCalls
<1>6. CASE pc = "fallback"
  <2>1. Continue(s, t) = FallbackToNm(s, t)
    BY <1>6 DEF Continue
  <2>2. Inside(s, t)
    BY <1>2, <1>6 DEF Nested
  <2> QED
    BY <2>1, <2>2, FallbackCalls
<1>7. CASE pc = "ask nm"
  <2>1. Continue(s, t) = AskNm(s, t)
    BY <1>7 DEF Continue
  <2>2. Inside(s, t)
    BY <1>2, <1>7 DEF Nested, Inner
  <2> QED
    BY <2>1, <2>2, FallbackCalls
<1>8. CASE pc = "nm told"
  <2>1. Continue(s, t) = NmTold(s, t)
    BY <1>8 DEF Continue
  <2>2. Inside(s, t)
    BY <1>2, <1>8 DEF Nested, Inner
  <2> QED
    BY <2>1, <2>2, NmToldCalls
<1>9. CASE pc = "nm refused"
  <2>1. Continue(s, t) = NmRefused(s, t)
    BY <1>9 DEF Continue
  <2>2. Inside(s, t)
    BY <1>2, <1>9 DEF Nested, Inner
  <2> QED
    BY <2>1, <2>2, FallbackCalls
<1>10. CASE pc = "null"
  <2>1. Continue(s, t) = Return(s, t, 0)
    BY <1>10 DEF Continue
  <2>2. Inside(s, t)
    BY <1>2, <1>10 DEF Nested, Inner
  <2> QED
    BY <2>1, <2>2, InsideTask, TaskOps
<1>11. CASE pc = "recover"
  <2>1. Continue(s, t) = Recover(s, t)
    BY <1>11 DEF Continue
  <2>2. Inside(s, t)
    BY <1>2, <1>11 DEF Nested, Inner
  <2> QED
    BY <2>1, <2>2, RecoverCalls
<1>12. CASE pc = "opened"
  <2>1. Continue(s, t) = Opened(s, t)
    BY <1>12 DEF Continue
  <2> QED
    BY <1>1, <2>1, OpenCalls
<1>13. CASE pc = "accepted"
  <2>1. Continue(s, t) = OpenAccepted(s, t)
    BY <1>13 DEF Continue
  <2> QED
    BY <1>1, <1>13, <2>1, OpenCalls
<1>14. CASE pc = "hand back"
  <2>1. Continue(s, t) = HandBack(s, t)
    BY <1>14 DEF Continue
  <2> QED
    BY <1>1, <2>1, OpenCalls
<1>15. CASE pc = "handed back"
  <2>1. Continue(s, t) = HandedBack(s, t)
    BY <1>15 DEF Continue
  <2> QED
    BY <1>1, <2>1, OpenCalls
<1>16. CASE pc = "close answered"
  <2>1. Continue(s, t) = CloseAnsweredByBackground(s, t)
    BY <1>16 DEF Continue
  <2> QED
    BY <1>1, <2>1, CloseCalls
<1>17. CASE pc = "closed"
  <2>1. Continue(s, t) = handleCloseSuccess(s, t)
    BY <1>17 DEF Continue
  <2> QED
    BY <1>1, <2>1, CloseCalls
<1>18. CASE pc = "fell back"
  <2>1. Continue(s, t) = FellBack(s, t)
    BY <1>18 DEF Continue
  <2> QED
    BY <1>1, <2>1, FellBackCalls
<1>19. CASE pc = "lost"
  <2>1. Continue(s, t) = Lost(s, t)
    BY <1>19 DEF Continue
  <2> QED
    BY <1>1, <2>1, EndingCalls
<1>20. CASE pc = "purged"
  <2>1. Continue(s, t) = Purged(s, t)
    BY <1>20 DEF Continue
  <2> QED
    BY <1>1, <2>1, EndingCalls
<1>21. CASE pc = "destroyed"
  <2>1. Continue(s, t) = Destroyed(s, t)
    BY <1>21 DEF Continue
  <2> QED
    BY <1>1, <2>1, EndingCalls
<1>22. CASE pc = "switch"
  <2>1. Continue(s, t) = SwitchPlane(s, t)
    BY <1>22 DEF Continue
  <2> QED
    BY <1>1, <2>1, SwitchCalls
<1>23. CASE pc = "switched"
  <2>1. Continue(s, t) = SwitchedToNm(s, t)
    BY <1>23 DEF Continue
  <2> QED
    BY <1>1, <2>1, SwitchCalls
<1>24. CASE pc = "switch refused"
  <2>1. Continue(s, t) = SwitchRefused(s, t)
    BY <1>24 DEF Continue
  <2> QED
    BY <1>1, <2>1, SwitchCalls
<1>25. CASE pc = "end"
  <2>1. Continue(s, t) = End(s, t)
    BY <1>25 DEF Continue
  <2> QED
    BY <1>1, <2>1, TaskOps
<1> QED
  BY <1>3, <1>4, <1>5, <1>6, <1>7, <1>8, <1>9, <1>10, <1>11, <1>12, <1>13,
     <1>14, <1>15, <1>16, <1>17, <1>18, <1>19, <1>20, <1>21, <1>22, <1>23,
     <1>24, <1>25
     DEF Outer, Nested, Inner

-----------------------------------------------------------------------------
(* The handlers of the bridge, driven from outside *)

\* A wait that is over: the task goes on with a result.
LEMMA WakeCalls ==
    ASSUME NEW s, NEW t, Inside(s, t), NEW x \in {"spawned", "connected"}, NEW v \in Nat
    PROVE  Turn([s EXCEPT !.task[t].pc = x, !.task[t].res = v], t)
<1> DEFINE A == Goto(s, t, x)
           q == [A.task[t] EXCEPT !.res = v]
<1>1. x \in Pcs \ {"background"} /\ x # "accepted" /\ Turn(s, t)
  BY DEF Pcs, Nested, Inside
<1>2. Turn(A, t)
  BY <1>1, TaskOps
<1>3. A.task[t].pc = x
  <2>1. /\ s.task \in [Task -> Tasks(s.gen)] /\ s.task[t] \in TaskRec(s.gen) /\ t \in Task
        /\ "task" \in DOMAIN s
    BY <1>1, TaskAt, Fields, TaskFields
  <2> QED
    BY <2>1 DEF Goto, TaskRec
<1>4. [s EXCEPT !.task[t].pc = x, !.task[t].res = v] = [A EXCEPT !.task[t] = q]
  BY DEF Goto
<1> HIDE DEF A
<1>5. A.task[t] \in Tasks(A.gen) /\ A.task[t] \in TaskRec(A.gen) /\ A.gen \in Nat
  BY <1>2, TaskAt, Fields, TaskFields
<1>6. q \in Tasks(A.gen) /\ q.pc = x
  BY <1>1, <1>3, <1>5, TaskFields DEF TaskRec
<1> HIDE DEF q
<1>7. Calls([A EXCEPT !.task[t] = q]) /\ [A EXCEPT !.task[t] = q].task[t] = q
  BY <1>2, <1>6, MoveCalls
<1> QED
  BY <1>1, <1>2, <1>4, <1>6, <1>7 DEF Turn

\* A task that waits for the page or a hash is one that a function awaits.
LEMMA AwaitedTasks ==
    ASSUME NEW s, Calls(s), NEW t \in Task
    PROVE  /\ s.task[t].pc \in Awaits \cup Nested => s.task[t].ret # <<>>
           /\ s.task[t].pc \in (Awaits \ {"background"}) \cup Nested => Inside(s, t)
           /\ s.task[t].pc # "background" => Turn(s, t)
<1>1. s.task[t] \in Tasks(s.gen) /\ s.gen \in Nat
  BY Fields DEF Calls
<1>2. s.task[t].pc \in Awaits \cup Nested => s.task[t].ret # <<>>
  BY <1>1, TaskFields
<1>3. "background" \notin Nested
  BY DEF Nested, Inner
<1> QED
  BY <1>2, <1>3 DEF Turn, Inside

\* What the page answers to a spawn or a termination.
LEMMA SpawnAnswerCalls ==
    ASSUME NEW s, Calls(s), NEW G \in Nat, NEW m \in PageMsg(G)
    PROVE  Calls(handleSpawnWorkerResponse(s, m))
<1>1. CASE m.id[1] # "task"
  BY <1>1 DEF handleSpawnWorkerResponse
<1>2. CASE m.id[1] = "task"
  <2> DEFINE t == m.id[2]
             v == IF m.ok THEN 1 ELSE 0
             w == [s EXCEPT !.task[t].pc = "spawned", !.task[t].res = v]
             z == [s EXCEPT !.task[t].old = 0]
  <2>1. t \in Task
    <3>1. m.id \in Ids
      BY DEF PageMsg
    <3> QED
      BY <1>2, <3>1 DEF Ids
  <2>2. CASE s.task[t].pc = "spawning" /\ s.task[t].gen = m.gen
    <3>1. handleSpawnWorkerResponse(s, m) = w
      BY <1>2, <2>2 DEF handleSpawnWorkerResponse
    <3>2. Inside(s, t)
      BY <2>1, <2>2, AwaitedTasks DEF Awaits
    <3>3. v \in Nat
      OBVIOUS
    <3> HIDE DEF v, t
    <3>4. Turn(w, t)
      BY <3>2, <3>3, WakeCalls
    <3> HIDE DEF w
    <3> QED
      BY <3>1, <3>4 DEF Turn
  <2>3. CASE s.task[t].pc \in {"tail", "hash"} /\ s.task[t].old = m.gen
    <3>1. handleSpawnWorkerResponse(s, m) = z
      BY <1>2, <2>3 DEF handleSpawnWorkerResponse
    <3>2. Turn(s, t) /\ 0 \in Past(s.gen)
      <4>1. Turn(s, t)
        BY <2>1, <2>3, AwaitedTasks
      <4> QED
        BY <4>1, TaskAt
    <3>3. Turn(z, t)
      BY <3>2, TaskNotes
    <3> HIDE DEF z
    <3> QED
      BY <3>1, <3>3 DEF Turn
  <2>4. CASE ~(s.task[t].pc = "spawning" /\ s.task[t].gen = m.gen)
             /\ ~(s.task[t].pc \in {"tail", "hash"} /\ s.task[t].old = m.gen)
    <3>1. handleSpawnWorkerResponse(s, m) = s
      BY <1>2, <2>4 DEF handleSpawnWorkerResponse
    <3> QED
      BY <3>1
  <2> QED
    BY <2>2, <2>3, <2>4
<1> QED
  BY <1>1, <1>2

\* What the page answers to an in-page transport that was asked for.
LEMMA PlaneAnswerCalls ==
    ASSUME NEW s, Calls(s), NEW G \in Nat, NEW m \in PageMsg(G)
    PROVE  Calls(handlePlaneResponse(s, m))
<1> DEFINE ts == {t \in Task : s.task[t].pc = "connecting" /\ s.task[t].gen = m.gen}
           v == IF m.ok THEN 1 ELSE 0
           f == [t \in Task |-> IF t \in ts THEN [s.task[t] EXCEPT !.pc = "connected", !.res = v]
                                ELSE s.task[t]]
           woken == [s EXCEPT !.task = f]
<1>1. handlePlaneResponse(s, m) \in {woken, markPlaneReady(woken, m.gen)}
  BY DEF handlePlaneResponse
<1>2. v \in Nat /\ s.gen \in Nat /\ Typed(s) /\ m.gen \in Nat
  BY Fields, PastFacts DEF Calls, PageMsg
<1> HIDE DEF v
<1>3. ASSUME NEW u \in Task
      PROVE  /\ f[u] \in Tasks(s.gen)
             /\ s.task[u].pc = "background" => f[u].pc = "background"
  <2> DEFINE r == s.task[u]
             q == [r EXCEPT !.pc = "connected"]
  <2>1. r \in Tasks(s.gen) /\ r \in TaskRec(s.gen)
    BY <1>2, Fields, TaskFields
  <2>2. CASE u \in ts
    <3>1. f[u] = [q EXCEPT !.res = v] /\ r.pc = "connecting"
      BY <2>2
    <3>2. "connected" \in Pcs /\ r.ret # <<>> /\ "connected" # "accepted"
      BY <1>2, <2>1, <3>1, TaskFields DEF Pcs, Nested, Awaits
    <3>3. q \in Tasks(s.gen) /\ q.pc = "connected"
      BY <1>2, <2>1, <3>2, TaskFields DEF TaskRec
    <3> HIDE DEF q
    <3>4. [q EXCEPT !.res = v] \in Tasks(s.gen)
      BY <1>2, <3>3, TaskFields
    <3> HIDE DEF f
    <3> QED
      BY <3>1, <3>4
  <2>3. CASE u \notin ts
    <3>1. f[u] = r
      BY <2>3
    <3> HIDE DEF f
    <3> QED
      BY <2>1, <3>1
  <2> QED
    BY <2>2, <2>3
<1>4. f \in [Task -> Tasks(s.gen)]
  BY <1>3
<1> HIDE DEF f
<1>5. Calls(woken) /\ Typed(woken)
  <2>1. Calls(woken)
    BY <1>3, <1>4, MapCalls
  <2> HIDE DEF woken
  <2> QED
    BY <2>1 DEF Calls
<1> HIDE DEF woken
<1>6. Same(woken, markPlaneReady(woken, m.gen))
  BY <1>2, <1>5, SameMarks
<1>7. Calls(markPlaneReady(woken, m.gen))
  BY <1>5, <1>6, SameCalls
<1> QED
  BY <1>1, <1>5, <1>7

LEMMA PlaneEventCalls ==
    ASSUME NEW s, Calls(s), FreeTasks(s) # {}, NEW m
    PROVE  Calls(handleDataPlaneEvent(s, m))
<1> DEFINE u == [s EXCEPT !.inPage = FALSE]
<1>1. Same(s, u)
  BY SameFields DEF Calls
<1>2. handleDataPlaneEvent(s, m) \in {s, handleWorkerErrorEvent(u, m.gen)}
  BY DEF handleDataPlaneEvent
<1> HIDE DEF u
<1>3. Calls(u) /\ FreeTasks(u) # {}
  BY <1>1, SameCalls DEF Same, FreeTasks
<1> QED
  BY <1>2, <1>3, WorkerErrorCalls

\* Every message of the page.
LEMMA DispatchCalls ==
    ASSUME NEW s, Calls(s), FreeTasks(s) # {}, NEW G \in Nat, NEW m \in PageMsg(G)
    PROVE  Calls(dispatchPortMessage(s, m))
<1>1. m.id \in Ids /\ m.type \in PageTypes /\ Typed(s)
  BY DEF PageMsg, Calls
<1>2. CASE m.type = "open"
  BY <1>1, <1>2, OpenRequestCalls DEF dispatchPortMessage
<1>3. CASE m.type = "close"
  BY <1>1, <1>3, CloseCalls DEF dispatchPortMessage
<1>4. CASE m.type = "wait"
  BY <1>1, <1>4, SamePlaneReady, SameCalls DEF dispatchPortMessage
<1>5. CASE m.type = "dataPort"
  BY <1>1, <1>5, SameDataPort, SameCalls DEF dispatchPortMessage
<1>6. CASE m.type = "spawned"
  BY <1>6, SpawnAnswerCalls DEF dispatchPortMessage
<1>7. CASE m.type = "planeResponse"
  BY <1>7, PlaneAnswerCalls DEF dispatchPortMessage
<1>8. CASE m.type = "planeEvent"
  BY <1>8, PlaneEventCalls DEF dispatchPortMessage
<1>9. CASE m.type = "workerError"
  BY <1>9, WorkerErrorCalls DEF dispatchPortMessage
<1>10. CASE m.type = "gone"
  BY <1>10, DestroyCalls DEF dispatchPortMessage
<1> QED
  BY <1>1, <1>2, <1>3, <1>4, <1>5, <1>6, <1>7, <1>8, <1>9, <1>10 DEF PageTypes

LEMMA DispatchReady ==
    ASSUME NEW k \in Nat, NEW s, ReadyInv(s, k), NEW G \in Nat, NEW m \in PageMsg(G)
    PROVE  ReadyInv(dispatchPortMessage(s, m), k)
<1>1. m.type \in PageTypes
  BY DEF PageMsg
<1>2. CASE m.type = "open"
  BY <1>2, OpenReady DEF dispatchPortMessage
<1>3. CASE m.type = "close"
  BY <1>3, CloseReady DEF dispatchPortMessage
<1>4. CASE m.type = "wait"
  BY <1>4, WaitReady DEF dispatchPortMessage
<1>5. CASE m.type = "dataPort"
  BY <1>5, DataPortReady DEF dispatchPortMessage
<1>6. CASE m.type = "spawned"
  <2>1. ReadyInv(handleSpawnWorkerResponse(s, m), k)
    BY OtherMaps DEF handleSpawnWorkerResponse
  <2> QED
    BY <1>6, <2>1 DEF dispatchPortMessage
<1>7. CASE m.type = "planeResponse"
  <2>1. ReadyInv(handlePlaneResponse(s, m), k)
    BY OtherMaps, MarkBothReady DEF handlePlaneResponse
  <2> QED
    BY <1>7, <2>1 DEF dispatchPortMessage
<1>8. CASE m.type = "planeEvent"
  <2>1. ReadyInv(handleDataPlaneEvent(s, m), k)
    BY OtherMaps, WorkerErrorReady DEF handleDataPlaneEvent
  <2> QED
    BY <1>8, <2>1 DEF dispatchPortMessage
<1>9. CASE m.type = "workerError"
  BY <1>9, WorkerErrorReady DEF dispatchPortMessage
<1>10. CASE m.type = "gone"
  BY <1>10, EndingReady DEF dispatchPortMessage
<1> QED
  BY <1>1, <1>2, <1>3, <1>4, <1>5, <1>6, <1>7, <1>8, <1>9, <1>10 DEF PageTypes

\* The request at the head of the queue is served: the task it names goes on.
LEMMA AnsweredCalls ==
    ASSUME NEW s, Calls(s), s.control # <<>>, NEW t, t = Head(s.control).task,
           NEW tok \in Token \cup {None}, NEW res \in {0, 1}
    PROVE  LET served == [s EXCEPT !.control = Tail(@)]
           IN  /\ Calls(served)
               /\ t # 0 => Calls(Return([served EXCEPT !.task[t].tok = tok], t, res))
<1> DEFINE served == [s EXCEPT !.control = Tail(@)]
           q == [served.task[t] EXCEPT !.tok = tok]
           noted == [served EXCEPT !.task[t] = q]
           n == Len(s.control)
<1>1. Typed(s) /\ Queue(s) /\ s.control \in Seq(Request) /\ s.gen \in Nat
  BY Fields DEF Calls
<1>2. /\ n \in Nat /\ n # 0 /\ Tail(s.control) \in Seq(Request) /\ Len(Tail(s.control)) = n - 1
      /\ Head(s.control) = s.control[1] /\ s.control[1] \in Request
      /\ \A i \in 1..(n - 1) : Tail(s.control)[i] = s.control[i + 1]
  BY <1>1
<1>3. /\ Typed(served) /\ served.control = Tail(s.control) /\ served.task = s.task
      /\ served.gen = s.gen
  <2>1. served.control = Tail(s.control) /\ served.task = s.task /\ served.gen = s.gen
    BY <1>1, Fields
  <2>2. served \in BridgeRec(s.gen)
    BY <1>1, <1>2, FieldTypes DEF Typed
  <2> QED
    BY <2>1, <2>2 DEF Typed
<1> HIDE DEF served
<1>4. \A i \in 1..n : s.control[i].task # 0 => s.task[s.control[i].task].pc = "background"
  BY <1>1 DEF Queue
<1>5. \A i, j \in 1..n : i # j /\ s.control[i].task = s.control[j].task => s.control[i].task = 0
  BY <1>1 DEF Queue
<1> HIDE DEF n
<1>6. \A i \in 1..(n - 1) : i + 1 \in 1..n /\ i + 1 # 1
  BY <1>2
<1>7. Calls(served)
  <2>1. Len(served.control) = n - 1 /\ \A i \in 1..(n - 1) : served.control[i] = s.control[i + 1]
    BY <1>2, <1>3
  <2>2. \A i \in 1..(n - 1) : served.control[i].task # 0 =>
          served.task[served.control[i].task].pc = "background"
    BY <1>3, <1>4, <1>6, <2>1
  <2>3. ASSUME NEW i \in 1..(n - 1), NEW j \in 1..(n - 1), i # j,
               served.control[i].task = served.control[j].task
        PROVE  served.control[i].task = 0
    <3>1. i + 1 \in 1..n /\ j + 1 \in 1..n /\ i + 1 # j + 1
      BY <1>6, <2>3
    <3> QED
      BY <1>5, <2>1, <2>3, <3>1
  <2>4. Queue(served)
    BY <2>1, <2>2, <2>3 DEF Queue
  <2> QED
    BY <1>3, <2>4 DEF Calls
<1>8. ASSUME t # 0
      PROVE  Calls(Return([served EXCEPT !.task[t].tok = tok], t, res))
  <2>1. t \in Task /\ s.task[t].pc = "background" /\ 1 \in 1..n
    <3>1. t = s.control[1].task /\ 1 \in 1..n
      BY <1>2
    <3> QED
      BY <1>2, <1>4, <1>8, <3>1 DEF Request
  <2>2. \A i \in 1..Len(served.control) : served.control[i].task # t
    <3>1. Len(served.control) = n - 1 /\ \A i \in 1..(n - 1) : served.control[i] = s.control[i + 1]
      BY <1>2, <1>3
    <3> QED
      BY <1>2, <1>5, <1>6, <1>8, <2>1, <3>1
  <2>3. served.task[t] \in Tasks(s.gen) /\ s.task[t].ret # <<>> /\ served.task[t] \in TaskRec(s.gen)
    <3>1. s.task[t] \in Tasks(s.gen)
      BY <1>1, <2>1, Fields
    <3> QED
      BY <1>1, <1>3, <2>1, <3>1, TaskFields DEF Awaits
  <2>4. q \in Tasks(s.gen) /\ q.ret # <<>>
    BY <1>1, <1>3, <2>3, TaskFields DEF TaskRec
  <2> HIDE DEF q
  <2>5. Calls(noted) /\ noted.task[t] = q /\ noted.gen = served.gen /\ noted.control = served.control
    <3>1. Calls(noted) /\ noted.task[t] = q /\ noted.gen = served.gen
      <4>1. q \in Tasks(served.gen) /\ t \in Task
        BY <1>3, <2>1, <2>4
      <4>2. \A i \in 1..Len(served.control) : served.control[i].task # t
        BY <2>2
      <4>3. Calls(served)
        BY <1>7
      <4> HIDE DEF noted
      <4>4. ASSUME NEW x \in Tasks(served.gen)
            PROVE  /\ Calls([served EXCEPT !.task[t] = x])
                   /\ [served EXCEPT !.task[t] = x].task[t] = x
                   /\ [served EXCEPT !.task[t] = x].gen = served.gen
        BY <4>1, <4>2, <4>3, MoveUnnamed
      <4> QED
        BY <4>1, <4>4 DEF noted
    <3>2. noted.control = served.control
      BY <1>3, Fields
    <3> QED
      BY <3>1, <3>2
  <2>6. [served EXCEPT !.task[t].tok = tok] = noted
    BY DEF q
  <2> HIDE DEF noted
  <2>7. noted.task[t].ret # <<>> /\ Typed(noted) /\ res \in Past(noted.gen) \cup {1}
    <3>1. 0 \in Past(noted.gen)
      BY <1>1, <1>3, <2>5, PastFacts
    <3> QED
      BY <2>4, <2>5, <3>1 DEF Calls
  <2>8. PICK e \in Tasks(noted.gen) : Return(noted, t, res) = [noted EXCEPT !.task[t] = e]
    BY <2>1, <2>7, Returned
  <2>9. Calls(Return(noted, t, res))
    <3>1. Calls(noted) /\ t \in Task
      BY <2>1, <2>5
    <3>2. \A i \in 1..Len(noted.control) : noted.control[i].task # t
      BY <2>2, <2>5
    <3>3. Calls([noted EXCEPT !.task[t] = e])
      BY <3>1, <3>2, MoveUnnamed
    <3> QED
      BY <2>8, <3>3
  <2> QED
    BY <2>6, <2>9
<1> QED
  BY <1>7, <1>8 DEF served

\* A report's answer, and the port that is closed when nothing needs it.
LEMMA SameReport ==
    ASSUME NEW s, Typed(s), NEW p \in s.pending
    PROVE  Same(s, maybeDisconnectRuntimeDataPort(handleWorkerReportResponse(s, p)))
<1> DEFINE u == [s EXCEPT !.pending = @ \ {p}]
           back == u.back \cup {[gen |-> x.gen, report |-> x.report, sent |-> FALSE] :
                                  x \in {y \in {p} : [gen |-> y.gen, own |-> TRUE] \in s.ports}}
           v == [u EXCEPT !.back = back]
<1>1. s.pending \in SUBSET Pending(s.gen) /\ p \in Pending(s.gen)
  BY Fields
<1>2. Same(s, u) /\ u.gen = s.gen
  <2>1. s.pending \ {p} \in SUBSET Pending(s.gen)
    BY <1>1
  <2>2. u.gen = s.gen
    BY Fields
  <2> QED
    BY <2>1, <2>2, SameFields
<1>3. handleWorkerReportResponse(s, p) = v
  BY DEF handleWorkerReportResponse
<1> HIDE DEF u
<1>4. Typed(u)
  BY <1>2 DEF Same
<1>5. back \in SUBSET Result(u.gen)
  <2>1. [gen |-> p.gen, report |-> p.report, sent |-> FALSE] \in Result(u.gen)
    BY <1>1, <1>2 DEF Result, Pending
  <2>2. u.back \in SUBSET Result(u.gen)
    BY <1>4, Fields
  <2> QED
    BY <2>1, <2>2
<1> HIDE DEF back
<1>6. Same(s, v) /\ Typed(v)
  <2>1. Same(u, v)
    BY <1>4, <1>5, SameFields
  <2> QED
    BY <1>2, <2>1, SameChain DEF Same
<1> HIDE DEF v
<1> QED
  BY <1>3, <1>6, SamePort, SameChain

\* A timer that expires for a waiter of the past.
LEMMA ExpiryCalls ==
    ASSUME NEW c, Calls(c), FreeTasks(c) # {}, NEW w \in c.timers,
           NEW k \in Nat, ReadyInv(c, k)
    PROVE  LET s == [c EXCEPT !.timers = @ \ {w}]
               t == NextTask(s)
               cur == [s EXCEPT !.waiter = NoWaiter]
               r == [Idle EXCEPT !.tok = w.tok, !.id = w.id, !.gen = w.gen, !.rewire = TRUE,
                                 !.retire = TRUE, !.ret = <<"fell back">>]
               late == replyToPage(cur, w.id, FALSE, 0)
               fall == Goto(Start(cur, r), t, "fallback")
           IN  /\ Calls(s) /\ Calls(late) /\ Calls(fall)
               /\ c.waiter.gen # w.gen => ReadyInv(s, k)
               /\ ReadyInv(late, k) /\ ReadyInv(fall, k)
<1> DEFINE s == [c EXCEPT !.timers = @ \ {w}]
           t == NextTask(s)
           cur == [s EXCEPT !.waiter = NoWaiter]
           r == [Idle EXCEPT !.tok = w.tok, !.id = w.id, !.gen = w.gen, !.rewire = TRUE,
                             !.retire = TRUE, !.ret = <<"fell back">>]
           late == replyToPage(cur, w.id, FALSE, 0)
           new == Start(cur, r)
           fall == Goto(new, t, "fallback")
<1>1. Typed(c) /\ c.gen \in Nat /\ w \in Waiter(c.gen) /\ c.timers \in SUBSET Waiter(c.gen)
  BY Fields DEF Calls
<1>2. w.id \in Ids /\ w.tok \in Token \cup {None} /\ w.gen \in Past(c.gen)
  BY <1>1 DEF Waiter
<1>3. /\ Same(c, s) /\ s.gen = c.gen /\ s.waiter = c.waiter
      /\ c.waiter.gen # w.gen => ReadyInv(s, k)
      /\ ReadyInv(cur, k)
  <2>1. c.timers \ {w} \in SUBSET Waiter(c.gen)
    BY <1>1
  <2>2. s.gen = c.gen /\ s.waiter = c.waiter
    BY <1>1, Fields
  <2>3. c.waiter.gen # w.gen => ReadyInv(s, k)
    BY DEF ReadyInv, HasReadiness
  <2>4. ReadyInv(cur, k)
    BY DEF ReadyInv, HasReadiness
  <2> QED
    BY <1>1, <2>1, <2>2, <2>3, <2>4, SameFields
<1> HIDE DEF s
<1>4. Calls(s) /\ Typed(s) /\ s.task = c.task
  BY <1>3, SameCalls DEF Same
<1>5. Same(s, cur) /\ cur.gen = s.gen
  <2>1. NoWaiter \in Waiter(s.gen)
    BY <1>1, <1>3, PastFacts, Messages DEF NoWaiter, Waiter
  <2>2. cur.gen = s.gen
    BY <1>4, Fields
  <2> QED
    BY <1>4, <2>1, <2>2, SameFields
<1> HIDE DEF cur
<1>6. Calls(cur) /\ Typed(cur) /\ cur.task = c.task
  BY <1>4, <1>5, SameCalls DEF Same
<1>7. Calls(late) /\ ReadyInv(late, k)
  BY <1>2, <1>3, <1>5, <1>6, SameMessages, SameCalls, AsideSteps
<1>8. r \in Tasks(cur.gen) /\ r.pc = "idle" /\ r.ret # <<>>
  <2>1. /\ <<"fell back">> \in Stacks(c.gen) /\ <<"fell back">> # <<>>
        /\ Idle \in TaskRec(c.gen) /\ Idle.pc = "idle"
    BY <1>1, Stacked, IdleType, TaskFields DEF Idle
  <2>2. r \in TaskRec(c.gen) /\ r.pc = "idle" /\ r.ret = <<"fell back">>
    BY <1>2, <2>1 DEF TaskRec
  <2> HIDE DEF r
  <2>3. r \in Tasks(c.gen)
    BY <2>2 DEF Tasks, Nested, Awaits, Inner
  <2> QED
    BY <1>3, <1>5, <2>1, <2>2, <2>3
<1> HIDE DEF r
<1>9. t = NextTask(cur) /\ FreeTasks(cur) # {}
  BY <1>4, <1>6 DEF NextTask, FreeTasks
<1>10. Inside(new, t) /\ Turn(new, t) /\ ReadyInv(new, k)
  BY <1>3, <1>5, <1>6, <1>8, <1>9, StartOps, AsideSteps
<1> HIDE DEF new, t
<1>11. "fallback" \in Pcs \ {"background"} /\ "fallback" # "accepted"
  BY DEF Pcs, Nested
<1>12. Calls(fall) /\ ReadyInv(fall, k)
  <2>1. Turn(fall, t)
    BY <1>10, <1>11, TaskOps
  <2> QED
    BY <1>10, <2>1, AsideSteps DEF Turn
<1> QED
  BY <1>3, <1>4, <1>7, <1>12 DEF s, t, cur, r, new

-----------------------------------------------------------------------------
(* The page names no generation that has not begun *)

OpenStates == {"new", "asked", "waiting", "undo", "opened", "failed"}
CloseStates == {"new", "asked", "closed", "failed"}
ReportStates == {"new", "pending", "inpage", "settled"}
PageWorker(G) == [gen : Past(G), port : Past(G)]
PagePlane(G) == [gen : Past(G), up : BOOLEAN]
DeviceRec(G) == [alive : BOOLEAN, opened : BOOLEAN, opening : BOOLEAN,
                 forgotten : BOOLEAN, registered : BOOLEAN,
                 gen : Past(G), ready : BOOLEAN, unavail : BOOLEAN, unavailGen : Past(G),
                 port : Past(G), worker : PageWorker(G), plane : PagePlane(G),
                 spawns : Seq(BridgeMsg(G)),
                 open : [Opens -> OpenStates], close : [Closes -> CloseStates],
                 report : [Report -> ReportStates],
                 tearing : BOOLEAN, timeouts : Nat]

LEMMA DeviceFields ==
    ASSUME NEW G, NEW s \in DeviceRec(G)
    PROVE  /\ \A v \in BOOLEAN : /\ [s EXCEPT !.alive = v] \in DeviceRec(G)
                                 /\ [s EXCEPT !.opened = v] \in DeviceRec(G)
                                 /\ [s EXCEPT !.opening = v] \in DeviceRec(G)
                                 /\ [s EXCEPT !.forgotten = v] \in DeviceRec(G)
                                 /\ [s EXCEPT !.registered = v] \in DeviceRec(G)
                                 /\ [s EXCEPT !.ready = v] \in DeviceRec(G)
                                 /\ [s EXCEPT !.unavail = v] \in DeviceRec(G)
                                 /\ [s EXCEPT !.tearing = v] \in DeviceRec(G)
           /\ \A v \in Past(G) : /\ [s EXCEPT !.gen = v] \in DeviceRec(G)
                                 /\ [s EXCEPT !.unavailGen = v] \in DeviceRec(G)
                                 /\ [s EXCEPT !.port = v] \in DeviceRec(G)
           /\ \A v \in PageWorker(G) : [s EXCEPT !.worker = v] \in DeviceRec(G)
           /\ \A v \in PagePlane(G) : [s EXCEPT !.plane = v] \in DeviceRec(G)
           /\ \A v \in Seq(BridgeMsg(G)) : [s EXCEPT !.spawns = v] \in DeviceRec(G)
           /\ \A i : \A v \in OpenStates : [s EXCEPT !.open[i] = v] \in DeviceRec(G)
           /\ \A i : \A v \in CloseStates : [s EXCEPT !.close[i] = v] \in DeviceRec(G)
           /\ \A i : \A v \in ReportStates : [s EXCEPT !.report[i] = v] \in DeviceRec(G)
           /\ \A v \in [Report -> ReportStates] : [s EXCEPT !.report = v] \in DeviceRec(G)
           /\ \A v \in Nat : [s EXCEPT !.timeouts = v] \in DeviceRec(G)
<1>1. ASSUME NEW v \in BOOLEAN
      PROVE  /\ [s EXCEPT !.alive = v] \in DeviceRec(G)
             /\ [s EXCEPT !.opened = v] \in DeviceRec(G)
             /\ [s EXCEPT !.opening = v] \in DeviceRec(G)
             /\ [s EXCEPT !.forgotten = v] \in DeviceRec(G)
  BY DEF DeviceRec
<1>2. ASSUME NEW v \in BOOLEAN
      PROVE  /\ [s EXCEPT !.registered = v] \in DeviceRec(G)
             /\ [s EXCEPT !.ready = v] \in DeviceRec(G)
             /\ [s EXCEPT !.unavail = v] \in DeviceRec(G)
             /\ [s EXCEPT !.tearing = v] \in DeviceRec(G)
  BY DEF DeviceRec
<1>3. ASSUME NEW v \in Past(G)
      PROVE  /\ [s EXCEPT !.gen = v] \in DeviceRec(G)
             /\ [s EXCEPT !.unavailGen = v] \in DeviceRec(G)
             /\ [s EXCEPT !.port = v] \in DeviceRec(G)
  BY DEF DeviceRec
<1>4. ASSUME NEW v \in PageWorker(G)
      PROVE  [s EXCEPT !.worker = v] \in DeviceRec(G)
  BY DEF DeviceRec
<1>5. ASSUME NEW v \in PagePlane(G)
      PROVE  [s EXCEPT !.plane = v] \in DeviceRec(G)
  BY DEF DeviceRec
<1>6. ASSUME NEW v \in Seq(BridgeMsg(G))
      PROVE  [s EXCEPT !.spawns = v] \in DeviceRec(G)
  BY DEF DeviceRec
<1>7. ASSUME NEW i, NEW v \in OpenStates
      PROVE  [s EXCEPT !.open[i] = v] \in DeviceRec(G)
  BY DEF DeviceRec
<1>8. ASSUME NEW i, NEW v \in CloseStates
      PROVE  [s EXCEPT !.close[i] = v] \in DeviceRec(G)
  BY DEF DeviceRec
<1>9. ASSUME NEW i, NEW v \in ReportStates
      PROVE  [s EXCEPT !.report[i] = v] \in DeviceRec(G)
  BY DEF DeviceRec
<1>10. ASSUME NEW v \in [Report -> ReportStates]
      PROVE  [s EXCEPT !.report = v] \in DeviceRec(G)
  BY DEF DeviceRec
<1>11. ASSUME NEW v \in Nat
      PROVE  [s EXCEPT !.timeouts = v] \in DeviceRec(G)
  BY DEF DeviceRec
<1> QED
  BY <1>1, <1>2, <1>3, <1>4, <1>5, <1>6, <1>7, <1>8, <1>9, <1>10, <1>11

LEMMA DeviceTypes ==
    ASSUME NEW G \in Nat, NEW s \in DeviceRec(G)
    PROVE  /\ s.gen \in Past(G) /\ s.port \in Past(G) /\ s.unavailGen \in Past(G)
           /\ s.worker \in PageWorker(G) /\ s.worker.gen \in Past(G) /\ s.worker.port \in Past(G)
           /\ s.plane \in PagePlane(G) /\ s.plane.gen \in Past(G)
           /\ s.spawns \in Seq(BridgeMsg(G))
           /\ s.opened \in BOOLEAN /\ s.unavail \in BOOLEAN /\ s.forgotten \in BOOLEAN
           /\ s.registered \in BOOLEAN /\ s.timeouts \in Nat
           /\ s.report \in [Report -> ReportStates]
           /\ 0 \in Past(G) /\ Past(G) \subseteq Nat
           /\ {"worker", "plane", "gen", "opened", "unavail"} \subseteq DOMAIN s
BY PastFacts DEF DeviceRec, PageWorker, PagePlane

\* What ends or rejects keeps to the generations that have begun.
LEMMA DeviceOps ==
    ASSUME NEW G \in Nat, NEW s \in DeviceRec(G)
    PROVE  /\ rejectPendingReports(s) \in DeviceRec(G)
           /\ rejectInPagePending(s) \in DeviceRec(G)
           /\ detachDataPort(s) \in DeviceRec(G)
           /\ \A f \in BOOLEAN : reconcileAuthoritativeLifetime(s, f) \in DeviceRec(G)
           /\ \A i : \A how \in OpenStates : FinishOpen(s, i, how) \in DeviceRec(G)
<1>1. ASSUME NEW u \in DeviceRec(G)
      PROVE  /\ rejectPendingReports(u) \in DeviceRec(G)
             /\ rejectInPagePending(u) \in DeviceRec(G)
             /\ detachDataPort(u) \in DeviceRec(G)
  <2>1. /\ [r \in Report |-> IF u.report[r] = "pending" THEN "settled" ELSE u.report[r]]
             \in [Report -> ReportStates]
        /\ [r \in Report |-> IF u.report[r] = "inpage" THEN "settled" ELSE u.report[r]]
             \in [Report -> ReportStates]
    BY DeviceTypes DEF ReportStates
  <2> QED
    BY <2>1, DeviceTypes, DeviceFields
       DEF rejectPendingReports, rejectInPagePending, detachDataPort
<1>2. ASSUME NEW f \in BOOLEAN
      PROVE  reconcileAuthoritativeLifetime(s, f) \in DeviceRec(G)
  <2> DEFINE u == [s EXCEPT !.opening = FALSE, !.opened = FALSE, !.ready = FALSE,
                            !.forgotten = @ \/ f, !.unavail = FALSE, !.unavailGen = 0]
  <2>1. u \in DeviceRec(G)
    BY PastFacts DEF DeviceRec
  <2>2. reconcileAuthoritativeLifetime(s, f) = detachDataPort(rejectPendingReports(u))
    BY DEF reconcileAuthoritativeLifetime
  <2> HIDE DEF u
  <2> QED
    BY <1>1, <2>1, <2>2
<1>3. ASSUME NEW i, NEW how \in OpenStates
      PROVE  FinishOpen(s, i, how) \in DeviceRec(G)
  BY DEF FinishOpen, DeviceRec
<1> QED
  BY <1>1, <1>2, <1>3

LEMMA WireOps ==
    ASSUME NEW G \in Nat, NEW s \in DeviceRec(G), NEW g \in Past(G)
    PROVE  /\ wireDevicePort(s, g) \in DeviceRec(G)
           /\ WireMessage(s, g) \in Seq(PageMsg(G))
<1>1. wireDevicePort(s, g) \in DeviceRec(G)
  <2> DEFINE old == IF s.port # 0 THEN rejectPendingReports(s) ELSE s
             a1 == [old EXCEPT !.gen = g]
             a2 == [a1 EXCEPT !.ready = FALSE]
             a3 == [a2 EXCEPT !.port = g]
             a4 == [a3 EXCEPT !.unavailGen = IF g # s.gen THEN 0 ELSE @]
             a5 == [a4 EXCEPT !.unavail = @ \/ s.opened]
             a6 == [a5 EXCEPT !.worker.port = IF s.worker.gen # 0 THEN g ELSE 0]
  <2>1. wireDevicePort(s, g) \in {s, a6}
    BY DEF wireDevicePort
  <2>2. old \in DeviceRec(G)
    BY DeviceOps
  <2> HIDE DEF old
  <2>3. a1 \in DeviceRec(G)
    BY <2>2, DeviceFields
  <2> HIDE DEF a1
  <2>4. a2 \in DeviceRec(G)
    BY <2>3, DeviceFields
  <2> HIDE DEF a2
  <2>5. a3 \in DeviceRec(G)
    BY <2>4, DeviceFields
  <2> HIDE DEF a3
  <2>6. a4 \in DeviceRec(G)
    <3>1. (IF g # s.gen THEN 0 ELSE a3.unavailGen) \in Past(G)
      BY <2>5, DeviceTypes
    <3> QED
      BY <2>5, <3>1, DeviceFields
  <2> HIDE DEF a4
  <2>7. a5 \in DeviceRec(G)
    <3>1. (a4.unavail \/ s.opened) \in BOOLEAN
      BY <2>6, DeviceTypes
    <3> QED
      BY <2>6, <3>1, DeviceFields
  <2> HIDE DEF a5
  <2>8. a6 \in DeviceRec(G)
    <3> DEFINE v == IF s.worker.gen # 0 THEN g ELSE 0
               w == [a5.worker EXCEPT !.port = v]
    <3>1. v \in Past(G) /\ a5.worker \in PageWorker(G)
      BY <2>7, DeviceTypes
    <3>2. a6 = [a5 EXCEPT !.worker = w]
      OBVIOUS
    <3> HIDE DEF v
    <3>3. w \in PageWorker(G)
      BY <3>1 DEF PageWorker
    <3> HIDE DEF w
    <3> QED
      BY <2>7, <3>2, <3>3, DeviceFields
  <2> QED
    BY <2>1, <2>8
<1>2. WireMessage(s, g) \in Seq(PageMsg(G))
  <2>1. Msg("dataPort", NoId, g, s.worker.gen # 0) \in PageMsg(G)
    BY Messages DEF Msg, PageMsg, PageTypes
  <2> QED
    BY <2>1 DEF WireMessage
<1> QED
  BY <1>1, <1>2

LEMMA PageMessages ==
    ASSUME NEW G \in Nat
    PROVE  /\ \A type \in PageTypes, id \in Ids, gen \in Past(G), ok \in BOOLEAN :
                Msg(type, id, gen, ok) \in PageMsg(G)
           /\ NoId \in Ids /\ <<"teardown", 0>> \in Ids
           /\ \A i \in Nat : {<<"open", i>>, <<"wait", i>>, <<"undo", i>>,
                              <<"close", i>>, <<"drop", i>>} \subseteq Ids
           /\ {"open", "close", "wait", "dataPort", "spawned", "planeResponse",
               "planeEvent", "workerError", "gone"} \subseteq PageTypes
           /\ 0 \in Past(G)
<1>1. \A type \in PageTypes, id \in Ids, gen \in Past(G), ok \in BOOLEAN :
        Msg(type, id, gen, ok) \in PageMsg(G)
  BY DEF Msg, PageMsg
<1> QED
  BY <1>1, PastFacts DEF NoId, Ids, PageTypes

\* What the page has, and what is on its way to it and from it.
Named(G) == /\ d \in DeviceRec(G) /\ toBridge \in Seq(PageMsg(G))
            /\ toPage \in Seq(BridgeMsg(G)) /\ onPort \in SUBSET Result(G)

\* What a handler of the page leaves.
Handled(G) == d' \in DeviceRec(G) /\ toBridge' \in Seq(PageMsg(G))

LEMMA Sends ==
    ASSUME NEW G \in Nat, Named(G), NEW u \in DeviceRec(G), d' = u
    PROVE  /\ ToBridge(<<>>) => Handled(G)
           /\ \A m \in PageMsg(G) : ToBridge(<<m>>) => Handled(G)
           /\ \A q \in Seq(PageMsg(G)) : ToBridge(q) => Handled(G)
           /\ \A q \in Seq(PageMsg(G)), m \in PageMsg(G) : ToBridge(q \o <<m>>) => Handled(G)
<1>1. ASSUME NEW q \in Seq(PageMsg(G)), ToBridge(q)
      PROVE  Handled(G)
  BY <1>1 DEF Handled, ToBridge, Named
<1>2. <<>> \in Seq(PageMsg(G)) /\ \A m \in PageMsg(G) : <<m>> \in Seq(PageMsg(G))
  OBVIOUS
<1>3. \A q \in Seq(PageMsg(G)), m \in PageMsg(G) : q \o <<m>> \in Seq(PageMsg(G))
  OBVIOUS
<1> QED
  BY <1>1, <1>2, <1>3

LEMMA AnswerHandled ==
    ASSUME NEW G \in Nat, Named(G), NEW s \in DeviceRec(G), NEW m \in BridgeMsg(G)
    PROVE  /\ \A i \in Nat : OpenAnswered(s, i, m) => Handled(G)
           /\ \A i \in Nat : WaitAnswered(s, i, m) => Handled(G)
           /\ \A i \in Nat : CloseAnswered(s, i, m) => Handled(G)
           /\ \A i \in Nat : d' = FinishOpen(s, i, "failed") /\ ToBridge(<<>>) => Handled(G)
           /\ TeardownAnswered(s) => Handled(G)
<1>1. m.gen \in Past(G) /\ m.ok \in BOOLEAN
  BY DEF BridgeMsg
<1>2. OpenStates = {"new", "asked", "waiting", "undo", "opened", "failed"}
      /\ CloseStates = {"new", "asked", "closed", "failed"}
  BY DEF OpenStates, CloseStates
<1>3. ASSUME NEW i \in Nat
      PROVE  /\ FinishOpen(s, i, "failed") \in DeviceRec(G)
             /\ \A type \in PageTypes, gen \in Past(G) :
                  /\ Msg(type, <<"drop", i>>, gen, TRUE) \in PageMsg(G)
                  /\ Msg(type, <<"wait", i>>, gen, TRUE) \in PageMsg(G)
                  /\ Msg(type, <<"undo", i>>, gen, TRUE) \in PageMsg(G)
  <2>1. {<<"drop", i>>, <<"wait", i>>, <<"undo", i>>} \subseteq Ids
    BY PageMessages
  <2>2. \A type \in PageTypes, id \in Ids, gen \in Past(G) : Msg(type, id, gen, TRUE) \in PageMsg(G)
    BY PageMessages
  <2>3. FinishOpen(s, i, "failed") \in DeviceRec(G)
    BY <1>2, DeviceOps
  <2> QED
    BY <2>1, <2>2, <2>3
<1>4. ASSUME NEW i \in Nat, OpenAnswered(s, i, m)
      PROVE  Handled(G)
  <2> DEFINE g == [s EXCEPT !.gen = m.gen]
             w == [g EXCEPT !.open[i] = "waiting"]
             drop == Msg("close", <<"drop", i>>, 0, TRUE)
             wait == Msg("wait", <<"wait", i>>, m.gen, TRUE)
  <2>1. \/ d' = FinishOpen(s, i, "failed") /\ (ToBridge(<<drop>>) \/ ToBridge(<<>>))
        \/ d' = wireDevicePort(w, m.gen) /\ ToBridge(WireMessage(w, m.gen) \o <<wait>>)
    BY <1>4 DEF OpenAnswered
  <2>2. drop \in PageMsg(G) /\ wait \in PageMsg(G)
    BY <1>1, <1>3, PageMessages
  <2> HIDE DEF drop, wait
  <2>3. g \in DeviceRec(G)
    BY <1>1, DeviceFields
  <2> HIDE DEF g
  <2>4. w \in DeviceRec(G)
    BY <1>2, <2>3, DeviceFields
  <2> HIDE DEF w
  <2>5. wireDevicePort(w, m.gen) \in DeviceRec(G) /\ WireMessage(w, m.gen) \in Seq(PageMsg(G))
    BY <1>1, <2>4, WireOps
  <2> QED
    BY <1>3, <2>1, <2>2, <2>5, Sends
<1>5. ASSUME NEW i \in Nat, WaitAnswered(s, i, m)
      PROVE  Handled(G)
  <2> DEFINE f == FinishOpen(s, i, "opened")
             up == [f EXCEPT !.ready = TRUE, !.unavail = FALSE, !.opened = TRUE]
             u == detachDataPort(s)
             v == [u EXCEPT !.open[i] = "undo"]
             undo == Msg("close", <<"undo", i>>, 0, TRUE)
  <2>1. \/ d' = up /\ ToBridge(<<>>)
        \/ d' = v /\ ToBridge(<<undo>>)
    BY <1>5 DEF WaitAnswered
  <2>2. undo \in PageMsg(G)
    BY <1>3, PageMessages
  <2> HIDE DEF undo
  <2>3. f \in DeviceRec(G) /\ u \in DeviceRec(G)
    BY <1>2, DeviceOps
  <2> HIDE DEF f, u
  <2>4. up \in DeviceRec(G)
    BY <2>3 DEF DeviceRec
  <2>5. v \in DeviceRec(G)
    BY <1>2, <2>3, DeviceFields
  <2> HIDE DEF up, v
  <2> QED
    BY <2>1, <2>2, <2>4, <2>5, Sends
<1>6. ASSUME NEW i \in Nat, CloseAnswered(s, i, m)
      PROVE  Handled(G)
  <2> DEFINE c == [s EXCEPT !.opened = FALSE, !.ready = FALSE, !.unavail = FALSE,
                            !.unavailGen = 0, !.close[i] = "closed"]
             u == detachDataPort(rejectPendingReports(c))
             v == [s EXCEPT !.close[i] = "failed"]
  <2>1. (d' = u \/ d' = v) /\ ToBridge(<<>>)
    BY <1>6 DEF CloseAnswered
  <2>2. c \in DeviceRec(G)
    BY PastFacts DEF DeviceRec, CloseStates
  <2> HIDE DEF c
  <2>3. u \in DeviceRec(G) /\ v \in DeviceRec(G)
    BY <1>2, <2>2, DeviceOps, DeviceFields
  <2> HIDE DEF u, v
  <2> QED
    BY <2>1, <2>3, Sends
<1>7. ASSUME NEW i \in Nat, d' = FinishOpen(s, i, "failed"), ToBridge(<<>>)
      PROVE  Handled(G)
  BY <1>3, <1>7, Sends
<1>8. ASSUME TeardownAnswered(s)
      PROVE  Handled(G)
  <2> DEFINE r == reconcileAuthoritativeLifetime(s, TRUE)
             u == [r EXCEPT !.registered = FALSE, !.tearing = FALSE]
  <2>1. d' = u /\ ToBridge(<<>>)
    BY <1>8 DEF TeardownAnswered
  <2>2. r \in DeviceRec(G)
    BY DeviceOps
  <2> HIDE DEF r
  <2>3. u \in DeviceRec(G)
    BY <2>2 DEF DeviceRec
  <2> HIDE DEF u
  <2> QED
    BY <2>1, <2>3, Sends
<1> QED
  BY <1>4, <1>5, <1>6, <1>7, <1>8

\* A request that is still awaited is settled; a late answer is dropped.
LEMMA SettleHandled ==
    ASSUME NEW G \in Nat, Named(G), NEW s \in DeviceRec(G), NEW m \in BridgeMsg(G),
           Awaited(m.id), Settle(s, m)
    PROVE  Handled(G)
<1>1. m.id \in Ids
  BY DEF BridgeMsg
<1>2. m.id[1] \in {"open", "wait", "undo", "close", "teardown"}
  BY DEF Awaited
<1>3. m.id[2] \in Nat
  BY <1>1, <1>2 DEF Ids
<1>4. CASE m.id[1] = "open"
  <2>1. OpenAnswered(s, m.id[2], m)
    BY <1>4 DEF Settle
  <2> QED
    BY <1>3, <2>1, AnswerHandled
<1>5. CASE m.id[1] = "wait"
  <2>1. WaitAnswered(s, m.id[2], m)
    BY <1>5 DEF Settle
  <2> QED
    BY <1>3, <2>1, AnswerHandled
<1>6. CASE m.id[1] = "undo"
  <2>1. d' = FinishOpen(s, m.id[2], "failed") /\ ToBridge(<<>>)
    BY <1>6 DEF Settle
  <2> QED
    BY <1>3, <2>1, AnswerHandled
<1>7. CASE m.id[1] = "close"
  <2>1. CloseAnswered(s, m.id[2], m)
    BY <1>7 DEF Settle
  <2> QED
    BY <1>3, <2>1, AnswerHandled
<1>8. CASE m.id[1] = "teardown"
  <2>1. TeardownAnswered(s)
    BY <1>8 DEF Settle
  <2> QED
    BY <2>1, AnswerHandled
<1> QED
  BY <1>2, <1>4, <1>5, <1>6, <1>7, <1>8

LEMMA PlaneHandled ==
    ASSUME NEW G \in Nat, Named(G), NEW m \in BridgeMsg(G)
    PROVE  /\ handleDataPlaneReady(m) => Handled(G)
           /\ handleDataPlaneUnavailable(m) => Handled(G)
           /\ handleWireWorkerPort(m) => Handled(G)
           /\ handleDataPlaneConnect(m) => Handled(G)
           /\ handleDataPlaneDisconnect(m) => Handled(G)
<1>1. d \in DeviceRec(G) /\ m.gen \in Past(G) /\ m.id \in Ids /\ 0 \in Past(G)
  BY PastFacts DEF Named, BridgeMsg
<1>2. ASSUME handleDataPlaneReady(m)
      PROVE  Handled(G)
  <2> DEFINE u == [d EXCEPT !.ready = TRUE, !.unavail = FALSE, !.unavailGen = 0]
  <2>1. (d' = d \/ d' = u) /\ ToBridge(<<>>)
    BY <1>2 DEF handleDataPlaneReady
  <2>2. u \in DeviceRec(G)
    BY <1>1 DEF DeviceRec
  <2> HIDE DEF u
  <2> QED
    BY <1>1, <2>1, <2>2, Sends
<1>3. ASSUME handleDataPlaneUnavailable(m)
      PROVE  Handled(G)
  <2> DEFINE c == [d EXCEPT !.gen = m.gen, !.ready = FALSE, !.unavail = TRUE,
                            !.unavailGen = m.gen]
             u == detachDataPort(rejectPendingReports(c))
  <2>1. (d' = d \/ d' = u) /\ ToBridge(<<>>)
    BY <1>3 DEF handleDataPlaneUnavailable
  <2>2. c \in DeviceRec(G)
    BY <1>1 DEF DeviceRec
  <2> HIDE DEF c
  <2>3. u \in DeviceRec(G)
    BY <2>2, DeviceOps
  <2> HIDE DEF u
  <2> QED
    BY <1>1, <2>1, <2>3, Sends
<1>4. ASSUME handleWireWorkerPort(m)
      PROVE  Handled(G)
  <2>1. \/ d' = d /\ ToBridge(<<>>)
        \/ d' = wireDevicePort(d, m.gen) /\ ToBridge(WireMessage(d, m.gen))
    BY <1>4 DEF handleWireWorkerPort
  <2>2. wireDevicePort(d, m.gen) \in DeviceRec(G) /\ WireMessage(d, m.gen) \in Seq(PageMsg(G))
    BY <1>1, WireOps
  <2> QED
    BY <1>1, <2>1, <2>2, Sends
<1>5. ASSUME handleDataPlaneConnect(m)
      PROVE  Handled(G)
  <2> DEFINE a == [d EXCEPT !.gen = m.gen, !.ready = FALSE, !.unavail = TRUE, !.unavailGen = 0]
             c == IF d.registered THEN a ELSE d
             p == [gen |-> m.gen, up |-> FALSE]
             u == [c EXCEPT !.plane = p]
             no == Msg("planeResponse", m.id, m.gen, FALSE)
  <2>1. \/ d' = d /\ ToBridge(<<no>>)
        \/ d' = u /\ ToBridge(<<>>)
    BY <1>5 DEF handleDataPlaneConnect
  <2>2. a \in DeviceRec(G)
    BY <1>1 DEF DeviceRec
  <2> HIDE DEF a
  <2>3. c \in DeviceRec(G)
    BY <1>1, <2>2
  <2> HIDE DEF c
  <2>4. p \in PagePlane(G)
    BY <1>1 DEF PagePlane
  <2> HIDE DEF p
  <2>5. u \in DeviceRec(G)
    BY <2>3, <2>4, DeviceFields
  <2> HIDE DEF u
  <2>6. no \in PageMsg(G)
    BY <1>1, PageMessages
  <2> HIDE DEF no
  <2> QED
    BY <1>1, <2>1, <2>5, <2>6, Sends
<1>6. ASSUME handleDataPlaneDisconnect(m)
      PROVE  Handled(G)
  <2> DEFINE p == [gen |-> 0, up |-> FALSE]
             c == [d EXCEPT !.plane = p]
             u == rejectInPagePending(c)
  <2>1. (d' = d \/ d' = u) /\ ToBridge(<<>>)
    BY <1>6 DEF handleDataPlaneDisconnect
  <2>2. p \in PagePlane(G)
    BY <1>1 DEF PagePlane
  <2> HIDE DEF p
  <2>3. c \in DeviceRec(G)
    BY <1>1, <2>2, DeviceFields
  <2> HIDE DEF c
  <2>4. u \in DeviceRec(G)
    BY <2>3, DeviceOps
  <2> HIDE DEF u
  <2> QED
    BY <1>1, <2>1, <2>4, Sends
<1> QED
  BY <1>2, <1>3, <1>4, <1>5, <1>6

LEMMA WorkerHandled ==
    ASSUME NEW G \in Nat, Named(G), NEW m \in BridgeMsg(G)
    PROVE  /\ handleSpawnWorkerRequest(m) => Handled(G)
           /\ dispatchDeviceEvent(m) => Handled(G)
<1>1. /\ d \in DeviceRec(G) /\ m.gen \in Past(G) /\ m.id \in Ids /\ 0 \in Past(G)
      /\ d.spawns \in Seq(BridgeMsg(G))
  BY PastFacts, DeviceTypes DEF Named, BridgeMsg
<1>2. ASSUME handleSpawnWorkerRequest(m)
      PROVE  Handled(G)
  <2> DEFINE none == [gen |-> 0, port |-> 0]
             u == [d EXCEPT !.worker = none]
             v == [d EXCEPT !.spawns = Append(@, m)]
             done == Msg("spawned", m.id, m.gen, TRUE)
  <2>1. \/ (d' = u \/ d' = d) /\ ToBridge(<<done>>)
        \/ d' = v /\ ToBridge(<<>>)
    BY <1>2 DEF handleSpawnWorkerRequest
  <2>2. none \in PageWorker(G) /\ Append(d.spawns, m) \in Seq(BridgeMsg(G))
    BY <1>1 DEF PageWorker
  <2> HIDE DEF none
  <2>3. u \in DeviceRec(G) /\ v \in DeviceRec(G)
    BY <1>1, <2>2, DeviceFields
  <2> HIDE DEF u, v
  <2>4. done \in PageMsg(G)
    BY <1>1, PageMessages
  <2> HIDE DEF done
  <2> QED
    BY <1>1, <2>1, <2>3, <2>4, Sends
<1>3. ASSUME dispatchDeviceEvent(m)
      PROVE  Handled(G)
  <2> DEFINE r == reconcileAuthoritativeLifetime(d, FALSE)
             u == [r EXCEPT !.registered = FALSE]
             v == [d EXCEPT !.tearing = TRUE]
             close == Msg("close", <<"teardown", 0>>, 0, TRUE)
  <2>1. \/ (d' = d \/ d' = u) /\ ToBridge(<<>>)
        \/ d' = v /\ ToBridge(<<close>>)
        \/ TeardownAnswered(d)
    BY <1>3 DEF dispatchDeviceEvent
  <2>2. r \in DeviceRec(G)
    BY <1>1, DeviceOps
  <2> HIDE DEF r
  <2>3. u \in DeviceRec(G) /\ v \in DeviceRec(G)
    BY <1>1, <2>2, DeviceFields
  <2> HIDE DEF u, v
  <2>4. close \in PageMsg(G)
    BY <1>1, PageMessages
  <2> HIDE DEF close
  <2>5. TeardownAnswered(d) => Handled(G)
    BY <1>1, AnswerHandled
  <2> QED
    BY <1>1, <2>1, <2>3, <2>4, <2>5, Sends
<1> QED
  BY <1>2, <1>3

\* Every message of the bridge.
LEMMA PageHandled ==
    ASSUME NEW G \in Nat, Named(G), NEW m \in BridgeMsg(G), PageHandlers(m)
    PROVE  Handled(G)
<1>1. m.type \in BridgeTypes
  BY DEF BridgeMsg
<1>2. CASE m.type = "response"
  <2>1. handleResponseMessage(m)
    BY <1>2 DEF PageHandlers
  <2>2. d \in DeviceRec(G)
    BY DEF Named
  <2>3. CASE Awaited(m.id)
    BY <2>1, <2>2, <2>3, SettleHandled DEF handleResponseMessage
  <2>4. CASE ~Awaited(m.id)
    BY <2>1, <2>2, <2>4, Sends DEF handleResponseMessage
  <2> QED
    BY <2>3, <2>4
<1>3. CASE m.type = "planeReady"
  BY <1>3, PlaneHandled DEF PageHandlers
<1>4. CASE m.type = "planeGone"
  BY <1>4, PlaneHandled DEF PageHandlers
<1>5. CASE m.type = "wire"
  BY <1>5, PlaneHandled DEF PageHandlers
<1>6. CASE m.type = "connect"
  BY <1>6, PlaneHandled DEF PageHandlers
<1>7. CASE m.type = "disconnectPlane"
  BY <1>7, PlaneHandled DEF PageHandlers
<1>8. CASE m.type \in {"spawn", "terminate"}
  BY <1>8, WorkerHandled DEF PageHandlers
<1>9. CASE m.type = "event"
  BY <1>9, WorkerHandled DEF PageHandlers
<1> QED
  BY <1>1, <1>2, <1>3, <1>4, <1>5, <1>6, <1>7, <1>8, <1>9 DEF BridgeTypes

\* What a step of the page leaves.
Kept(G) == Handled(G) /\ toPage' \in Seq(BridgeMsg(G)) /\ onPort' \in SUBSET Result(G)

LEMMA StayKept ==
    ASSUME NEW G \in Nat, Named(G), Handled(G), toPage' = toPage, onPort' = onPort
    PROVE  Kept(G)
BY DEF Named, Kept

LEMMA CallsKept ==
    ASSUME NEW G \in Nat, Named(G)
    PROVE  /\ \A i \in Opens : Open(i) => Kept(G)
           /\ \A i \in Closes : Close(i) => Kept(G)
           /\ \A r \in Report : SendReport(r) => Kept(G)
           /\ PageHide => Kept(G)
<1>1. d \in DeviceRec(G)
  BY DEF Named
<1>2. ASSUME NEW i \in Opens, Open(i)
      PROVE  Kept(G)
  <2> DEFINE o == [d EXCEPT !.opening = TRUE]
             u == [o EXCEPT !.open[i] = "asked"]
             m == Msg("open", <<"open", i>>, 0, TRUE)
  <2>1. d' = u /\ ToBridge(<<m>>) /\ toPage' = toPage /\ onPort' = onPort
    BY <1>2 DEF Open
  <2>2. o \in DeviceRec(G)
    BY <1>1, DeviceFields
  <2> HIDE DEF o
  <2>3. u \in DeviceRec(G)
    BY <2>2, DeviceFields DEF OpenStates
  <2> HIDE DEF u
  <2>4. m \in PageMsg(G)
    <3>1. i \in Nat
      BY DEF Opens
    <3>2. <<"open", i>> \in Ids
      BY <3>1, PageMessages
    <3> QED
      BY <3>2, PageMessages
  <2> HIDE DEF m
  <2> QED
    BY <2>1, <2>3, <2>4, Sends, StayKept
<1>3. ASSUME NEW i \in Closes, Close(i)
      PROVE  Kept(G)
  <2> DEFINE u == [d EXCEPT !.close[i] = "asked"]
             m == Msg("close", <<"close", i>>, 0, TRUE)
  <2>1. d' = u /\ ToBridge(<<m>>) /\ toPage' = toPage /\ onPort' = onPort
    BY <1>3 DEF Close
  <2>2. u \in DeviceRec(G)
    BY <1>1, DeviceFields DEF CloseStates
  <2> HIDE DEF u
  <2>3. m \in PageMsg(G)
    <3>1. i \in Nat
      BY DEF Closes
    <3>2. <<"close", i>> \in Ids
      BY <3>1, PageMessages
    <3> QED
      BY <3>2, PageMessages
  <2> HIDE DEF m
  <2> QED
    BY <2>1, <2>2, <2>3, Sends, StayKept
<1>4. ASSUME NEW r \in Report, SendReport(r)
      PROVE  Kept(G)
  <2> DEFINE u == [d EXCEPT !.report[r] = "inpage"]
             v == [d EXCEPT !.report[r] = "pending"]
             w == [gen |-> d.port, report |-> r, sent |-> TRUE]
  <2>1. /\ d' = u \/ d' = v
        /\ onPort' = onPort \/ onPort' = onPort \cup {w}
        /\ toBridge' = toBridge /\ toPage' = toPage
    BY <1>4 DEF SendReport, sendDeviceRequest
  <2>2. u \in DeviceRec(G) /\ v \in DeviceRec(G)
    BY <1>1, DeviceFields DEF ReportStates
  <2> HIDE DEF u, v
  <2>3. w \in Result(G)
    BY <1>1, DeviceTypes DEF Result
  <2> HIDE DEF w
  <2> QED
    BY <2>1, <2>2, <2>3 DEF Named, Kept, Handled
<1>5. ASSUME PageHide
      PROVE  Kept(G)
  <2> DEFINE u == [d EXCEPT !.alive = FALSE]
             m == Msg("gone", NoId, 0, TRUE)
  <2>1. d' = u /\ ToBridge(<<m>>) /\ toPage' = toPage /\ onPort' = onPort
    BY <1>5 DEF PageHide
  <2>2. u \in DeviceRec(G)
    BY <1>1, DeviceFields
  <2> HIDE DEF u
  <2>3. m \in PageMsg(G)
    BY PageMessages
  <2> HIDE DEF m
  <2> QED
    BY <2>1, <2>2, <2>3, Sends, StayKept
<1> QED
  BY <1>2, <1>3, <1>4, <1>5

LEMMA TimeoutKept ==
    ASSUME NEW G \in Nat, Named(G), NEW id \in RequestIds, RequestTimeout(id)
    PROVE  Kept(G)
<1> DEFINE s == [d EXCEPT !.timeouts = @ + 1]
           m == Msg("response", id, 0, FALSE)
<1>1. d \in DeviceRec(G)
  BY DEF Named
<1>2. s \in DeviceRec(G)
  <2>1. d.timeouts + 1 \in Nat
    BY <1>1, DeviceTypes
  <2> QED
    BY <1>1, <2>1, DeviceFields
<1>3. id \in Ids
  BY DEF RequestIds, Ids, Opens, Closes
<1>4. m \in BridgeMsg(G) /\ m.id = id
  <2>1. 0 \in Past(G)
    BY PastFacts
  <2> QED
    BY <1>3, <2>1, Messages DEF Msg
<1>5. Awaited(id) /\ Settle(s, m) /\ toPage' = toPage /\ onPort' = onPort
  BY DEF RequestTimeout
<1> HIDE DEF s, m
<1> QED
  BY <1>2, <1>4, <1>5, SettleHandled, StayKept

LEMMA ReceiveKept ==
    ASSUME NEW G \in Nat, Named(G), PageReceive
    PROVE  Kept(G)
<1>1. /\ toPage # <<>> /\ toPage \in Seq(BridgeMsg(G)) /\ PageHandlers(Head(toPage))
      /\ toPage' = Tail(toPage) /\ onPort' = onPort /\ onPort \in SUBSET Result(G)
  BY DEF PageReceive, Named
<1>2. Head(toPage) \in BridgeMsg(G) /\ Tail(toPage) \in Seq(BridgeMsg(G))
  BY <1>1
<1>3. Handled(G)
  BY <1>1, <1>2, PageHandled
<1> QED
  BY <1>1, <1>2, <1>3 DEF Kept

LEMMA WorkerKept ==
    ASSUME NEW G \in Nat, Named(G)
    PROVE  /\ \A ok \in BOOLEAN : CreateWorker(ok) => Kept(G)
           /\ WorkerError => Kept(G)
<1>1. /\ d \in DeviceRec(G) /\ d.spawns \in Seq(BridgeMsg(G)) /\ d.worker \in PageWorker(G)
      /\ d.worker.gen \in Past(G) /\ 0 \in Past(G)
  BY DeviceTypes DEF Named
<1>2. ASSUME NEW ok \in BOOLEAN, CreateWorker(ok)
      PROVE  Kept(G)
  <2> DEFINE h == Head(d.spawns)
             w == IF ok THEN [gen |-> h.gen, port |-> 0] ELSE d.worker
             q == [d EXCEPT !.spawns = Tail(@)]
             u == [q EXCEPT !.worker = w]
             m == Msg("spawned", h.id, h.gen, ok)
  <2>1. h \in BridgeMsg(G) /\ Tail(d.spawns) \in Seq(BridgeMsg(G))
    BY <1>1, <1>2 DEF CreateWorker
  <2>2. h.gen \in Past(G) /\ h.id \in Ids
    BY <2>1 DEF BridgeMsg
  <2>3. d' = u /\ ToBridge(<<m>>) /\ toPage' = toPage /\ onPort' = onPort
    BY <1>2 DEF CreateWorker
  <2>4. w \in PageWorker(G)
    BY <1>1, <2>2 DEF PageWorker
  <2>5. m \in PageMsg(G)
    BY <2>2, PageMessages
  <2> HIDE DEF h, w, m
  <2>6. q \in DeviceRec(G)
    BY <1>1, <2>1, DeviceFields
  <2> HIDE DEF q
  <2>7. u \in DeviceRec(G)
    BY <2>4, <2>6, DeviceFields
  <2> HIDE DEF u
  <2> QED
    BY <2>3, <2>5, <2>7, Sends, StayKept
<1>3. ASSUME WorkerError
      PROVE  Kept(G)
  <2> DEFINE w == [gen |-> 0, port |-> 0]
             u == [d EXCEPT !.worker = w]
             m == Msg("workerError", NoId, d.worker.gen, FALSE)
  <2>1. d' = u /\ ToBridge(<<m>>) /\ toPage' = toPage /\ onPort' = onPort
    BY <1>3 DEF WorkerError
  <2>2. w \in PageWorker(G)
    BY <1>1 DEF PageWorker
  <2> HIDE DEF w
  <2>3. u \in DeviceRec(G)
    BY <1>1, <2>2, DeviceFields
  <2> HIDE DEF u
  <2>4. m \in PageMsg(G)
    BY <1>1, PageMessages
  <2> HIDE DEF m
  <2> QED
    BY <2>1, <2>3, <2>4, Sends, StayKept
<1> QED
  BY <1>2, <1>3

LEMMA TransportKept ==
    ASSUME NEW G \in Nat, Named(G)
    PROVE  /\ PlaneUp => Kept(G)
           /\ PlaneLost => Kept(G)
           /\ \A r \in Report : InPageAnswered(r) => Kept(G)
           /\ handleReportResult => Kept(G)
<1>1. /\ d \in DeviceRec(G) /\ d.plane \in PagePlane(G) /\ d.plane.gen \in Past(G)
      /\ 0 \in Past(G) /\ onPort \in SUBSET Result(G)
  BY DeviceTypes DEF Named
<1>2. ASSUME PlaneUp
      PROVE  Kept(G)
  <2> DEFINE p == [d.plane EXCEPT !.up = TRUE]
             u == [d EXCEPT !.plane = p]
             m == Msg("planeResponse", NoId, d.plane.gen, TRUE)
  <2>1. d' = u /\ ToBridge(<<m>>) /\ toPage' = toPage /\ onPort' = onPort
    BY <1>2 DEF PlaneUp
  <2>2. p \in PagePlane(G)
    BY <1>1 DEF PagePlane
  <2> HIDE DEF p
  <2>3. u \in DeviceRec(G)
    BY <1>1, <2>2, DeviceFields
  <2> HIDE DEF u
  <2>4. m \in PageMsg(G)
    BY <1>1, PageMessages
  <2> HIDE DEF m
  <2> QED
    BY <2>1, <2>3, <2>4, Sends, StayKept
<1>3. ASSUME PlaneLost
      PROVE  Kept(G)
  <2> DEFINE p == [gen |-> 0, up |-> FALSE]
             c == [d EXCEPT !.plane = p]
             u == rejectInPagePending(c)
             m == Msg("planeEvent", NoId, d.plane.gen, FALSE)
  <2>1. d' = u /\ ToBridge(<<m>>) /\ toPage' = toPage /\ onPort' = onPort
    BY <1>3 DEF PlaneLost
  <2>2. p \in PagePlane(G)
    BY <1>1 DEF PagePlane
  <2> HIDE DEF p
  <2>3. c \in DeviceRec(G)
    BY <1>1, <2>2, DeviceFields
  <2> HIDE DEF c
  <2>4. u \in DeviceRec(G)
    BY <2>3, DeviceOps
  <2> HIDE DEF u
  <2>5. m \in PageMsg(G)
    BY <1>1, PageMessages
  <2> HIDE DEF m
  <2> QED
    BY <2>1, <2>4, <2>5, Sends, StayKept
<1>4. ASSUME NEW r \in Report, InPageAnswered(r)
      PROVE  Kept(G)
  <2> DEFINE u == [d EXCEPT !.report[r] = "settled"]
  <2>1. d' = u /\ UNCHANGED <<toBridge, toPage, onPort>>
    BY <1>4 DEF InPageAnswered
  <2>2. u \in DeviceRec(G)
    BY <1>1, DeviceFields DEF ReportStates
  <2> HIDE DEF u
  <2> QED
    BY <2>1, <2>2 DEF Named, Kept, Handled
<1>5. ASSUME handleReportResult
      PROVE  Kept(G)
  <2>1. PICK w \in onPort : /\ onPort' = onPort \ {w}
                            /\ d' = [d EXCEPT !.report[w.report] = "settled"] \/ d' = d
                            /\ UNCHANGED <<toBridge, toPage>>
    BY <1>5 DEF handleReportResult
  <2> DEFINE u == [d EXCEPT !.report[w.report] = "settled"]
  <2>2. u \in DeviceRec(G)
    BY <1>1, DeviceFields DEF ReportStates
  <2>3. d' = u \/ d' = d
    BY <2>1
  <2> HIDE DEF u
  <2> QED
    BY <1>1, <2>1, <2>2, <2>3 DEF Named, Kept, Handled
<1> QED
  BY <1>2, <1>3, <1>4, <1>5

-----------------------------------------------------------------------------
(* The stretches of bridge code *)

LEMMA WidenDevice ==
    ASSUME NEW G \in Nat, NEW H \in Nat, G <= H
    PROVE  DeviceRec(G) \subseteq DeviceRec(H)
<1>1. Past(G) \subseteq Past(H) /\ Seq(BridgeMsg(G)) \subseteq Seq(BridgeMsg(H))
  BY PastFacts, Widen
<1>2. PageWorker(G) \subseteq PageWorker(H) /\ PagePlane(G) \subseteq PagePlane(H)
  BY <1>1 DEF PageWorker, PagePlane
<1> QED
  BY <1>1, <1>2 DEF DeviceRec

\* Nothing is left unsent.
Posted(s) == s.out = <<>> /\ s.late = <<>> /\ s.back = {}

\* What a stretch of the bridge leaves: all that is named has begun.
Left == Calls(b') /\ ReadyInv(b', b'.gen) /\ Kept(b'.gen) /\ Posted(b')

\* A stretch that runs posts its messages and results.
LEMMA RunsLeft ==
    ASSUME NEW G \in Nat, Named(G), NEW u, Calls(u), ReadyInv(u, G), Runs(u),
           d' = d, toBridge' \in Seq(PageMsg(G))
    PROVE  Left
<1> DEFINE u1 == [u EXCEPT !.out = <<>>]
           u2 == [u1 EXCEPT !.late = <<>>]
           u3 == [u2 EXCEPT !.back = {}]
           H == u.gen
<1>1. Typed(u) /\ H \in Nat /\ G <= H
  BY Fields DEF Calls, ReadyInv
<1>2. ReadyInv(u, H)
  BY <1>1 DEF ReadyInv
<1>3. <<>> \in Seq(BridgeMsg(H)) /\ {} \in SUBSET Result(H)
  OBVIOUS
<1>4. Same(u, u1) /\ u1.gen = H /\ ReadyInv(u1, H)
  BY <1>1, <1>2, <1>3, SameFields, OtherMaps, Fields
<1>5. b' = u3 /\ toPage' = toPage \o u.out \o u.late /\ onPort' = onPort \cup u.back
  BY DEF Runs
<1> HIDE DEF u1
<1>6. Same(u1, u2) /\ u2.gen = H /\ ReadyInv(u2, H)
  <2>1. Typed(u1)
    BY <1>4 DEF Same
  <2> QED
    BY <1>1, <1>3, <1>4, <2>1, SameFields, OtherMaps, Fields
<1> HIDE DEF u2
<1>7. Same(u2, u3) /\ u3.gen = H /\ ReadyInv(u3, H)
  <2>1. Typed(u2)
    BY <1>6 DEF Same
  <2> QED
    BY <1>1, <1>3, <1>6, <2>1, SameFields, OtherMaps, Fields
<1> HIDE DEF u3
<1>8. Calls(b') /\ ReadyInv(b', b'.gen) /\ b'.gen = H
  BY <1>4, <1>5, <1>6, <1>7, SameCalls
<1>9. Posted(b')
  <2>1. {"out", "late", "back"} \subseteq DOMAIN u
    BY <1>1, Fields
  <2> QED
    BY <2>1 DEF Runs, Posted
<1>10. d' \in DeviceRec(H) /\ toBridge' \in Seq(PageMsg(H))
  BY <1>1, WidenDevice, Widen DEF Named
<1>11. toPage' \in Seq(BridgeMsg(H)) /\ onPort' \in SUBSET Result(H)
  <2>1. toPage \in Seq(BridgeMsg(H)) /\ onPort \in SUBSET Result(H)
    BY <1>1, Widen DEF Named
  <2>2. u.out \in Seq(BridgeMsg(H)) /\ u.late \in Seq(BridgeMsg(H)) /\ u.back \in SUBSET Result(H)
    BY <1>1, Fields
  <2> HIDE DEF H
  <2> QED
    BY <1>5, <2>1, <2>2
<1>12. Kept(H)
  BY <1>10, <1>11 DEF Kept, Handled
<1> QED
  BY <1>8, <1>12, <1>9 DEF Left

\* What the background sends unasked.
Events(s) == "events" \in DOMAIN s /\ s.events \in Seq({"disconnect", "revoked"})

\* The inductive invariant.
PlaneInv == /\ Calls(b) /\ ReadyInv(b, b.gen) /\ Named(b.gen) /\ Posted(b)
            /\ Events(bg)

LEMMA PlaneFacts ==
    ASSUME PlaneInv
    PROVE  /\ Calls(b) /\ Typed(b) /\ b.gen \in Nat /\ ReadyInv(b, b.gen) /\ Named(b.gen)
           /\ b.gen \in Past(b.gen) /\ 0 \in Past(b.gen)
           /\ toBridge \in Seq(PageMsg(b.gen)) /\ toPage \in Seq(BridgeMsg(b.gen))
           /\ onPort \in SUBSET Result(b.gen) /\ Posted(b)
BY Fields, PastFacts DEF PlaneInv, Calls, Named

LEMMA ReceiveLeft ==
    ASSUME PlaneInv, BridgeReceive
    PROVE  Left
<1> DEFINE G == b.gen
           m == Head(toBridge)
           u == dispatchPortMessage(b, m)
<1>1. /\ FreeTasks(b) # {} /\ Runs(u) /\ toBridge' = Tail(toBridge) /\ toBridge # <<>> /\ d' = d
  BY DEF BridgeReceive, Ready
<1>2. G \in Nat /\ toBridge \in Seq(PageMsg(G)) /\ Calls(b) /\ ReadyInv(b, G) /\ Named(G)
  BY PlaneFacts
<1> HIDE DEF G
<1>3. m \in PageMsg(G) /\ toBridge' \in Seq(PageMsg(G))
  BY <1>1, <1>2
<1> HIDE DEF m
<1>4. Calls(u) /\ ReadyInv(u, G)
  BY <1>1, <1>2, <1>3, DispatchCalls, DispatchReady
<1> HIDE DEF u
<1> QED
  BY <1>1, <1>2, <1>3, <1>4, RunsLeft

LEMMA ContinueLeft ==
    ASSUME PlaneInv, BridgeContinues
    PROVE  Left
<1>1. PICK t \in Task : ~Waiting(b.task[t]) /\ Runs(Continue(b, t))
  BY DEF BridgeContinues
<1>2. d' = d /\ toBridge' = toBridge
  BY DEF BridgeContinues
<1>3. b.task[t].pc \in Outer \cup Nested \cup {"accepted"}
  <2>1. b.task[t].pc \in Pcs
    <3>1. b.task[t] \in TaskRec(b.gen)
      BY PlaneFacts, Fields, TaskFields
    <3> QED
      BY <3>1 DEF TaskRec
  <2> QED
    BY <1>1, <2>1 DEF Pcs, Awaits, Waiting
<1>4. Calls(Continue(b, t)) /\ ReadyInv(Continue(b, t), b.gen)
  BY <1>3, PlaneFacts, ContinueCalls, ContinueReady
<1> QED
  BY <1>1, <1>2, <1>4, PlaneFacts, RunsLeft

LEMMA AsksLeft ==
    ASSUME PlaneInv, BridgeAsks
    PROVE  Left
<1>1. PICK t \in Task : AskWorkerSpawn(t) \/ AskInPagePlane(t)
  BY DEF BridgeAsks
<1>2. d' = d /\ toBridge' = toBridge
  BY DEF BridgeAsks
<1>3. Inside(b, t) /\ b.task[t].gen \in Past(b.gen)
  <2>1. b.task[t].pc \in {"hash", "plane hash"}
    BY <1>1 DEF AskWorkerSpawn, AskInPagePlane
  <2>2. Inside(b, t)
    BY <2>1, PlaneFacts, AwaitedTasks DEF Awaits
  <2> QED
    BY <2>2, InsideTask
<1>4. Calls(SpawnDone(b, t, FALSE)) /\ ReadyInv(SpawnDone(b, t, FALSE), b.gen)
  BY <1>3, PlaneFacts, SpawnDoneCalls, SpawnDoneReady
<1>5. ASSUME NEW pc \in {"spawning", "connecting"}
      PROVE  Calls(Goto(b, t, pc)) /\ ReadyInv(Goto(b, t, pc), b.gen) /\ Goto(b, t, pc).gen = b.gen
  <2>1. pc \in Pcs \ {"background"} /\ pc # "accepted" /\ Turn(b, t)
    BY <1>3 DEF Pcs, Awaits, Inside
  <2>2. Turn(Goto(b, t, pc), t) /\ Goto(b, t, pc).gen = b.gen
    BY <1>3, <2>1, TaskOps
  <2> QED
    BY <2>2, PlaneFacts, AsideSteps DEF Turn
<1>6. ASSUME AskWorkerSpawn(t)
      PROVE  Left
  <2> DEFINE g == Goto(b, t, "spawning")
             m == Msg("spawn", <<"task", t>>, b.task[t].gen, TRUE)
  <2>1. Runs(Put(g, m)) \/ Runs(SpawnDone(b, t, FALSE))
    BY <1>6 DEF AskWorkerSpawn
  <2>2. Calls(g) /\ ReadyInv(g, b.gen) /\ g.gen = b.gen
    BY <1>5
  <2>3. m \in BridgeMsg(b.gen)
    BY <1>3, PlaneFacts, Messages
  <2> HIDE DEF g, m
  <2>4. Same(g, Put(g, m))
    BY <2>2, <2>3, SameMessages DEF Calls
  <2>5. Calls(Put(g, m)) /\ ReadyInv(Put(g, m), b.gen)
    BY <2>2, <2>4, PlaneFacts, SameCalls, AsideSteps
  <2> QED
    BY <1>2, <1>4, <2>1, <2>5, PlaneFacts, RunsLeft
<1>7. ASSUME AskInPagePlane(t)
      PROVE  Left
  <2> DEFINE g == Goto(b, t, "connecting")
             p == [g EXCEPT !.inPage = TRUE]
             m == Msg("connect", <<"task", t>>, b.task[t].gen, TRUE)
  <2>1. Runs(Put(p, m)) \/ Runs(SpawnDone(b, t, FALSE))
    BY <1>7 DEF AskInPagePlane
  <2>2. Calls(g) /\ ReadyInv(g, b.gen) /\ g.gen = b.gen
    BY <1>5
  <2>3. m \in BridgeMsg(b.gen)
    BY <1>3, PlaneFacts, Messages
  <2> HIDE DEF g, m
  <2>4. Same(g, p) /\ ReadyInv(p, b.gen) /\ p.gen = b.gen
    <3>1. Same(g, p) /\ ReadyInv(p, b.gen)
      BY <2>2, PlaneFacts, SameFields, OtherMaps DEF Calls
    <3>2. p.gen = b.gen
      BY <2>2, Fields DEF Calls
    <3> QED
      BY <3>1, <3>2
  <2> HIDE DEF p
  <2>5. Calls(p)
    BY <2>2, <2>4, SameCalls
  <2>6. Same(p, Put(p, m))
    BY <2>3, <2>4, <2>5, SameMessages DEF Calls
  <2>7. Calls(Put(p, m)) /\ ReadyInv(Put(p, m), b.gen)
    BY <2>4, <2>5, <2>6, PlaneFacts, SameCalls, AsideSteps
  <2> QED
    BY <1>2, <1>4, <2>1, <2>7, PlaneFacts, RunsLeft
<1> QED
  BY <1>1, <1>6, <1>7

-----------------------------------------------------------------------------
(* The background, workers, reports and timers *)

LEMMA AnswerLeft ==
    ASSUME PlaneInv, b.control # <<>>, NEW tok \in Token \cup {None}, NEW res \in {0, 1},
           Answered(Head(b.control).task, tok, res), d' = d, toBridge' = toBridge
    PROVE  Left
<1> DEFINE t == Head(b.control).task
           served == [b EXCEPT !.control = Tail(@)]
           noted == [served EXCEPT !.task[t].tok = tok]
           u == IF t = 0 THEN served ELSE Return(noted, t, res)
<1>1. Runs(u)
  BY DEF Answered
<1>2. Calls(served) /\ (t # 0 => Calls(Return(noted, t, res)))
  BY PlaneFacts, AnsweredCalls
<1>3. ReadyInv(served, b.gen) /\ b.gen \in Nat
  BY PlaneFacts, OtherMaps
<1>4. ReadyInv(Return(noted, t, res), b.gen)
  <2>1. ReadyInv(noted, b.gen)
    BY <1>3, OtherMaps
  <2> HIDE DEF noted
  <2> QED
    BY <1>3, <2>1, AsideSteps
<1>5. Calls(u) /\ ReadyInv(u, b.gen)
  BY <1>2, <1>3, <1>4
<1> HIDE DEF u
<1> QED
  BY <1>1, <1>5, PlaneFacts, RunsLeft

LEMMA BackgroundLeft ==
    ASSUME PlaneInv, BackgroundAnswers
    PROVE  Left
<1> DEFINE r == Head(b.control)
<1>1. b.control # <<>> /\ d' = d /\ toBridge' = toBridge
  BY DEF BackgroundAnswers
<1>2. \E tok \in Token \cup {r.tok}, res \in {0, 1} : Answered(r.task, tok, res)
  BY DEF BackgroundAnswers
<1>3. r.tok \in Token \cup {None}
  <2>1. b.control \in Seq(Request)
    BY PlaneFacts, Fields
  <2>2. r \in Request
    BY <1>1, <2>1
  <2> QED
    BY <2>2 DEF Request
<1>4. PICK tok \in Token \cup {None}, res \in {0, 1} : Answered(r.task, tok, res)
  BY <1>2, <1>3
<1> QED
  BY <1>1, <1>4, AnswerLeft

\* A loss, a change of the settings, a worker that is ready or has failed.
LEMMA EventLeft ==
    ASSUME PlaneInv
    PROVE  /\ handleBackgroundEvent => Left
           /\ SettingsChange => Left
           /\ WorkerReady => Left
           /\ WorkerFails => Left
<1>1. ASSUME handleBackgroundEvent
      PROVE  Left
  <2> DEFINE how == Head(bg.events)
             u == reconcileFrameDevice(b, how)
  <2>1. Runs(u) /\ FreeTasks(b) # {} /\ bg.events # <<>> /\ d' = d /\ toBridge' = toBridge
    BY <1>1 DEF handleBackgroundEvent, Ready
  <2>2. how \in {"disconnect", "revoked"}
    BY <2>1 DEF PlaneInv, Events
  <2> HIDE DEF how
  <2>3. Calls(u) /\ ReadyInv(u, b.gen)
    BY <2>1, <2>2, PlaneFacts, LossCalls, EndingReady
  <2> HIDE DEF u
  <2> QED
    BY <2>1, <2>3, PlaneFacts, RunsLeft
<1>2. ASSUME SettingsChange
      PROVE  Left
  <2>1. PICK mode \in SwitchTo : Runs(applyDataPlane(b, mode))
    BY <1>2 DEF SettingsChange
  <2>2. FreeTasks(b) # {} /\ d' = d /\ toBridge' = toBridge /\ mode \in Modes
    BY <1>2, BridgeAssumption DEF SettingsChange, Ready
  <2>3. Calls(applyDataPlane(b, mode)) /\ ReadyInv(applyDataPlane(b, mode), b.gen)
    BY <2>2, PlaneFacts, ApplyCalls, SwitchReady
  <2> QED
    BY <2>1, <2>2, <2>3, PlaneFacts, RunsLeft
<1>3. ASSUME WorkerReady
      PROVE  Left
  <2> DEFINE u == markPlaneReady(b, b.worker.gen)
  <2>1. Runs(u) /\ d' = d /\ toBridge' = toBridge
    BY <1>3 DEF WorkerReady
  <2>2. b.worker.gen \in Nat
    BY PlaneFacts, Fields, PastFacts DEF Worker
  <2>3. Calls(u) /\ ReadyInv(u, b.gen)
    BY <2>2, PlaneFacts, SameMarks, SameCalls, MarkBothReady
  <2> HIDE DEF u
  <2> QED
    BY <2>1, <2>3, PlaneFacts, RunsLeft
<1>4. ASSUME WorkerFails
      PROVE  Left
  <2> DEFINE u == handleWorkerErrorEvent(b, b.worker.gen)
  <2>1. Runs(u) /\ FreeTasks(b) # {} /\ d' = d /\ toBridge' = toBridge
    BY <1>4 DEF WorkerFails, Ready
  <2>2. Calls(u) /\ ReadyInv(u, b.gen)
    BY <2>1, PlaneFacts, WorkerErrorCalls, WorkerErrorReady
  <2> HIDE DEF u
  <2> QED
    BY <2>1, <2>2, PlaneFacts, RunsLeft
<1> QED
  BY <1>1, <1>2, <1>3, <1>4

\* A report is kept for its answer; an answer goes back to the port it came from.
LEMMA ReportLeft ==
    ASSUME PlaneInv
    PROVE  /\ WorkerAnswers => Left
           /\ onDataPortMessage => Left
           /\ RuntimePortAnswers => Left
<1>1. ASSUME WorkerAnswers
      PROVE  Left
  <2>1. PICK w \in onPort : onPort' = (onPort \ {w}) \cup {[w EXCEPT !.sent = FALSE]}
    BY <1>1 DEF WorkerAnswers
  <2>2. UNCHANGED <<d, toBridge, toPage, b>>
    BY <1>1 DEF WorkerAnswers
  <2>3. w \in Result(b.gen)
    BY PlaneFacts
  <2>4. [w EXCEPT !.sent = FALSE] \in Result(b.gen)
    BY <2>3 DEF Result
  <2>5. onPort' \in SUBSET Result(b.gen)
    BY <2>1, <2>4, PlaneFacts
  <2> QED
    BY <2>2, <2>5, PlaneFacts DEF Left, Kept, Handled, Named
<1>2. ASSUME onDataPortMessage
      PROVE  Left
  <2>1. PICK w \in onPort :
          /\ b' = [ensureRuntimeDataPort(b) EXCEPT
                     !.pending = @ \cup {[gen |-> w.gen, report |-> w.report]}]
          /\ onPort' = onPort \ {w}
    BY <1>2 DEF onDataPortMessage
  <2>2. UNCHANGED <<d, toBridge, toPage>>
    BY <1>2 DEF onDataPortMessage
  <2> DEFINE e == ensureRuntimeDataPort(b)
             p == e.pending \cup {[gen |-> w.gen, report |-> w.report]}
             u == [e EXCEPT !.pending = p]
  <2>3. Same(b, e) /\ ReadyInv(e, b.gen) /\ e.gen = b.gen
    <3>1. Same(b, e) /\ ReadyInv(e, b.gen)
      BY PlaneFacts, SamePort, AsideSteps
    <3>2. e.gen = b.gen
      BY PlaneFacts, Fields DEF ensureRuntimeDataPort
    <3> QED
      BY <3>1, <3>2
  <2>4. b' = u
    BY <2>1
  <2> HIDE DEF e
  <2>5. Typed(e) /\ p \in SUBSET Pending(e.gen)
    <3>1. Typed(e) /\ e.pending \in SUBSET Pending(e.gen)
      BY <2>3, Fields DEF Same
    <3>2. [gen |-> w.gen, report |-> w.report] \in Pending(b.gen)
      BY PlaneFacts DEF Result, Pending
    <3> QED
      BY <2>3, <3>1, <3>2
  <2> HIDE DEF p
  <2>6. Same(e, u) /\ ReadyInv(u, b.gen) /\ u.gen = b.gen
    <3>1. Same(e, u) /\ ReadyInv(u, b.gen)
      BY <2>3, <2>5, PlaneFacts, SameFields, OtherMaps
    <3>2. u.gen = b.gen
      BY <2>3, <2>5, Fields
    <3> QED
      BY <3>1, <3>2
  <2> HIDE DEF u
  <2>7. Calls(u)
    BY <2>3, <2>6, PlaneFacts, SameCalls
  <2>8. onPort' \in SUBSET Result(b.gen)
    BY <2>1, PlaneFacts
  <2>9. Posted(b')
    <3>1. b'.out = b.out /\ b'.late = b.late /\ b'.back = b.back
      BY <2>1, PlaneFacts, Fields DEF ensureRuntimeDataPort
    <3> QED
      BY <3>1, PlaneFacts DEF Posted
  <2> QED
    BY <2>2, <2>4, <2>6, <2>7, <2>8, <2>9, PlaneFacts DEF Left, Kept, Handled, Named
<1>3. ASSUME RuntimePortAnswers
      PROVE  Left
  <2>1. PICK p \in b.pending :
          Runs(maybeDisconnectRuntimeDataPort(handleWorkerReportResponse(b, p)))
    BY <1>3 DEF RuntimePortAnswers
  <2> DEFINE h == handleWorkerReportResponse(b, p)
             u == maybeDisconnectRuntimeDataPort(h)
  <2>2. d' = d /\ toBridge' = toBridge
    BY <1>3 DEF RuntimePortAnswers
  <2>3. Calls(u)
    BY PlaneFacts, SameReport, SameCalls
  <2>4. ReadyInv(h, b.gen)
    BY PlaneFacts DEF handleWorkerReportResponse, ReadyInv, HasReadiness
  <2> HIDE DEF h
  <2>5. ReadyInv(u, b.gen)
    BY <2>4, PlaneFacts, AsideSteps
  <2>6. Runs(u)
    BY <2>1 DEF h
  <2> HIDE DEF u
  <2> QED
    BY <2>2, <2>3, <2>5, <2>6, PlaneFacts, RunsLeft
<1> QED
  BY <1>1, <1>2, <1>3

LEMMA TimerLeft ==
    ASSUME PlaneInv, BridgeTimer
    PROVE  Left
<1>1. FreeTasks(b) # {} /\ d' = d /\ toBridge' = toBridge
  BY DEF BridgeTimer, Ready, Expires
<1>2. ASSUME NEW w \in b.timers, WaitExpires(w)
      PROVE  Left
  <2> DEFINE s == [b EXCEPT !.timers = @ \ {w}]
             t == NextTask(s)
             cur == [s EXCEPT !.waiter = NoWaiter]
             r == [Idle EXCEPT !.tok = w.tok, !.id = w.id, !.gen = w.gen, !.rewire = TRUE,
                               !.retire = TRUE, !.ret = <<"fell back">>]
             late == replyToPage(cur, w.id, FALSE, 0)
             fall == Goto(Start(cur, r), t, "fallback")
  <2>1. (s.waiter.gen # w.gen /\ Runs(s)) \/ Runs(late) \/ Runs(fall)
    BY <1>2 DEF WaitExpires
  <2>2. /\ Calls(s) /\ Calls(late) /\ Calls(fall)
        /\ b.waiter.gen # w.gen => ReadyInv(s, b.gen)
        /\ ReadyInv(late, b.gen) /\ ReadyInv(fall, b.gen)
    BY <1>1, PlaneFacts, ExpiryCalls
  <2>3. s.waiter = b.waiter
    BY PlaneFacts, Fields
  <2>4. PICK u : Runs(u) /\ Calls(u) /\ ReadyInv(u, b.gen)
    BY <2>1, <2>2, <2>3
  <2> HIDE DEF s, late, fall
  <2> QED
    BY <1>1, <2>4, PlaneFacts, RunsLeft
<1>3. ASSUME NEW t \in Task, b.task[t].pc = "spawning",
             Expires([b EXCEPT !.task[t].pc = "spawned", !.task[t].res = 0])
      PROVE  Left
  <2> DEFINE u == [b EXCEPT !.task[t].pc = "spawned", !.task[t].res = 0]
  <2>1. Runs(u)
    BY <1>3 DEF Expires
  <2>2. Inside(b, t)
    BY <1>3, PlaneFacts, AwaitedTasks DEF Awaits
  <2>3. Turn(u, t)
    BY <2>2, WakeCalls
  <2>4. ReadyInv(u, b.gen)
    BY PlaneFacts, OtherMaps
  <2> HIDE DEF u
  <2> QED
    BY <1>1, <2>1, <2>3, <2>4, PlaneFacts, RunsLeft DEF Turn
<1>4. ASSUME NEW t \in Task, b.task[t].pc \in {"tail", "hash"}, Expires([b EXCEPT !.task[t].old = 0])
      PROVE  Left
  <2> DEFINE u == [b EXCEPT !.task[t].old = 0]
  <2>1. Runs(u)
    BY <1>4 DEF Expires
  <2>2. Turn(b, t)
    BY <1>4, PlaneFacts, AwaitedTasks
  <2>3. Turn(u, t)
    BY <2>2, PlaneFacts, TaskNotes
  <2>4. ReadyInv(u, b.gen)
    BY PlaneFacts, OtherMaps
  <2> HIDE DEF u
  <2> QED
    BY <1>1, <2>1, <2>3, <2>4, PlaneFacts, RunsLeft DEF Turn
<1>5. ASSUME NEW t \in Task, b.task[t].pc = "connecting",
             Expires([b EXCEPT !.task[t].pc = "connected", !.task[t].res = 0, !.inPage = FALSE])
      PROVE  Left
  <2> DEFINE w == [b EXCEPT !.task[t].pc = "connected", !.task[t].res = 0]
             u == [w EXCEPT !.inPage = FALSE]
  <2>1. Runs(u)
    BY <1>5 DEF Expires
  <2>2. Inside(b, t)
    BY <1>5, PlaneFacts, AwaitedTasks DEF Awaits
  <2>3. Turn(w, t) /\ ReadyInv(w, b.gen)
    <3>1. Turn(w, t)
      BY <2>2, WakeCalls
    <3>2. ReadyInv(w, b.gen)
      BY PlaneFacts, OtherMaps
    <3> QED
      BY <3>1, <3>2
  <2> HIDE DEF w
  <2>4. Same(w, u) /\ ReadyInv(u, b.gen)
    BY <2>3, PlaneFacts, SameFields, OtherMaps DEF Turn, Calls
  <2>5. Calls(u)
    BY <2>3, <2>4, SameCalls DEF Turn
  <2> HIDE DEF u
  <2> QED
    BY <1>1, <2>1, <2>4, <2>5, PlaneFacts, RunsLeft
<1> QED
  BY <1>2, <1>3, <1>4, <1>5 DEF BridgeTimer

-----------------------------------------------------------------------------
(* The theorems *)

\* The page and the bridge begin at generation 0.
LEMMA PlaneStarts ==
    ASSUME Init
    PROVE  PlaneInv
<1>1. PICK mode \in StartModes :
        b = [live |-> TRUE, session |-> None, mode |-> mode,
             gen |-> 0, readiness |-> NoReady, ready |-> 0,
             waiter |-> NoWaiter, timers |-> {},
             worker |-> NoWorker, record |-> 0, params |-> FALSE,
             inPage |-> FALSE, nm |-> FALSE, ports |-> {},
             tries |-> 0, runtimePort |-> FALSE, pending |-> {},
             control |-> <<>>, task |-> [t \in Task |-> Idle],
             out |-> <<>>, late |-> <<>>, back |-> {}]
  BY DEF Init, BridgeInit
<1>2. b.gen = 0 /\ b.ready = 0 /\ b.readiness = NoReady /\ b.control = <<>> /\ HasReadiness(b)
      /\ b.waiter = NoWaiter
  BY <1>1 DEF HasReadiness
<1>3. Calls(b)
  <2>1. mode \in Modes
    BY BridgeAssumption
  <2>2. 0 \in Past(0) /\ NoId \in Ids
    BY PastFacts, Messages
  <2>3. NoWaiter \in Waiter(0) /\ NoWorker \in Worker(0) /\ NoReady \in Readiness
    BY <2>2 DEF NoWaiter, Waiter, NoWorker, Worker, NoReady, Readiness
  <2>4. [t \in Task |-> Idle] \in [Task -> Tasks(0)]
    BY IdleType
  <2>5. <<>> \in Seq(Request) /\ <<>> \in Seq(BridgeMsg(0))
    OBVIOUS
  <2>6. b \in BridgeRec(0)
    BY <1>1, <2>1, <2>2, <2>3, <2>4, <2>5 DEF BridgeRec
  <2>7. Queue(b)
    BY <1>2 DEF Queue
  <2> QED
    BY <1>2, <2>6, <2>7 DEF Calls, Typed
<1>4. ReadyInv(b, b.gen)
  BY <1>2 DEF ReadyInv, NoReady
<1>5. Named(0)
  <2>1. 0 \in Past(0)
    BY PastFacts
  <2>2. d \in DeviceRec(0)
    <3>1. /\ [gen |-> 0, port |-> 0] \in PageWorker(0) /\ [gen |-> 0, up |-> FALSE] \in PagePlane(0)
          /\ <<>> \in Seq(BridgeMsg(0))
          /\ [i \in Opens |-> "new"] \in [Opens -> OpenStates]
          /\ [i \in Closes |-> "new"] \in [Closes -> CloseStates]
          /\ [r \in Report |-> "new"] \in [Report -> ReportStates]
      BY <2>1 DEF PageWorker, PagePlane, OpenStates, CloseStates, ReportStates
    <3> QED
      BY <2>1, <3>1 DEF Init, DeviceInit, DeviceRec
  <2> QED
    BY <2>2 DEF Init, DeviceInit, Named
<1>6. Events(bg)
  BY DEF Init, BridgeInit, Events
<1>7. Posted(b)
  BY <1>1 DEF Posted
<1> QED
  BY <1>2, <1>3, <1>4, <1>5, <1>6, <1>7 DEF PlaneInv

\* The background only sends its two events, in their order.
LEMMA EventsKept ==
    ASSUME PlaneInv, Next
    PROVE  Events(bg')
<1>1. Events(bg)
  BY DEF PlaneInv
<1>2. ASSUME NEW what \in {"switches", "failures", "losses", "expiries"}
      PROVE  Events(Spent(what)) /\ Spent(what).events = bg.events
             /\ DOMAIN Spent(what) = DOMAIN bg
  BY <1>1 DEF Events, Spent
<1>3. CASE LifetimeLost
  <2>1. PICK how \in {"disconnect", "revoked"} :
          bg' = [Spent("losses") EXCEPT !.live = {}, !.events = Append(@, how)]
    BY <1>3 DEF LifetimeLost
  <2>2. Events(Spent("losses"))
    BY <1>2
  <2> HIDE DEF Spent
  <2>3. Append(Spent("losses").events, how) \in Seq({"disconnect", "revoked"})
    BY <2>2 DEF Events
  <2>4. bg'.events = Append(Spent("losses").events, how) /\ "events" \in DOMAIN bg'
    BY <2>1, <2>2 DEF Events
  <2> QED
    BY <2>3, <2>4 DEF Events
<1>4. CASE handleBackgroundEvent
  <2>1. bg' = [bg EXCEPT !.events = Tail(@)] /\ bg.events # <<>>
    BY <1>4 DEF handleBackgroundEvent
  <2>2. Tail(bg.events) \in Seq({"disconnect", "revoked"})
    BY <1>1, <2>1 DEF Events
  <2> QED
    BY <1>1, <2>1, <2>2 DEF Events
<1>5. CASE BackgroundAnswers
  <2>1. \/ bg' = bg \/ bg' = Spent("failures")
        \/ \E l, u : bg' = [bg EXCEPT !.live = l, !.used = u]
        \/ \E l : bg' = [bg EXCEPT !.live = l]
    BY <1>5 DEF BackgroundAnswers
  <2> QED
    BY <1>1, <1>2, <2>1 DEF Events
<1>6. CASE \/ SettingsChange \/ WorkerFails \/ WorkerCrashes \/ TransportLost \/ BridgeTimer
  <2>1. \/ bg' = Spent("switches") \/ bg' = Spent("failures") \/ bg' = Spent("expiries")
    BY <1>6 DEF SettingsChange, WorkerFails, WorkerCrashes, TransportLost, BridgeTimer, Expires
  <2> QED
    BY <1>2, <2>1
<1>7. CASE \/ BridgeReceive \/ BridgeContinues \/ BridgeAsks \/ WorkerReady \/ WorkerAnswers
           \/ onDataPortMessage \/ RuntimePortAnswers
           \/ PageCalls \/ PageLeaves \/ PageRuns \/ PageTimeout
  <2>1. bg' = bg
    BY <1>7 DEF BridgeReceive, BridgeContinues, BridgeAsks, WorkerReady, WorkerAnswers,
                onDataPortMessage, RuntimePortAnswers, PageCalls, PageLeaves, PageRuns, PageTimeout
  <2> QED
    BY <1>1, <2>1
<1> QED
  BY <1>3, <1>4, <1>5, <1>6, <1>7 DEF Next

\* What the page does leaves the bridge alone.
LEMMA PageLeft ==
    ASSUME PlaneInv
    PROVE  /\ PageCalls => Left
           /\ PageLeaves => Left
           /\ PageRuns => Left
           /\ PageTimeout => Left
           /\ WorkerCrashes => Left
           /\ TransportLost => Left
<1>1. ASSUME b' = b, Kept(b.gen)
      PROVE  Left
  BY <1>1, PlaneFacts DEF Left
<1>2. b.gen \in Nat /\ Named(b.gen)
  BY PlaneFacts
<1>3. ASSUME PageCalls PROVE Left
  BY <1>1, <1>2, <1>3, CallsKept DEF PageCalls
<1>4. ASSUME PageLeaves PROVE Left
  BY <1>1, <1>2, <1>4, CallsKept DEF PageLeaves
<1>5. ASSUME PageRuns PROVE Left
  <2>1. b' = b
    BY <1>5 DEF PageRuns
  <2>2. CASE PageReceive
    BY <1>1, <1>2, <2>1, <2>2, ReceiveKept
  <2>3. CASE \E ok \in BOOLEAN : CreateWorker(ok)
    BY <1>1, <1>2, <2>1, <2>3, WorkerKept
  <2>4. CASE PlaneUp \/ handleReportResult \/ \E r \in Report : InPageAnswered(r)
    BY <1>1, <1>2, <2>1, <2>4, TransportKept
  <2> QED
    BY <1>5, <2>2, <2>3, <2>4 DEF PageRuns
<1>6. ASSUME PageTimeout PROVE Left
  BY <1>1, <1>2, <1>6, TimeoutKept DEF PageTimeout
<1>7. ASSUME WorkerCrashes PROVE Left
  BY <1>1, <1>2, <1>7, WorkerKept DEF WorkerCrashes
<1>8. ASSUME TransportLost PROVE Left
  BY <1>1, <1>2, <1>8, TransportKept DEF TransportLost
<1> QED
  BY <1>3, <1>4, <1>5, <1>6, <1>7, <1>8

LEMMA PlaneSteps ==
    ASSUME PlaneInv, [Next]_vars
    PROVE  PlaneInv'
<1>1. ASSUME Left, Events(bg')
      PROVE  PlaneInv'
  BY <1>1 DEF Left, Kept, Handled, PlaneInv, Named
<1>2. CASE Next
  <2>1. CASE LifetimeLost
    <3>1. UNCHANGED <<d, toBridge, toPage, onPort, b>>
      BY <2>1 DEF LifetimeLost
    <3>2. Left
      BY <3>1, PlaneFacts DEF Left, Kept, Handled, Named
    <3> QED
      BY <1>1, <1>2, <3>2, EventsKept
  <2>2. CASE \/ BridgeReceive \/ BridgeContinues \/ BridgeAsks
    BY <1>1, <1>2, <2>2, EventsKept, ReceiveLeft, ContinueLeft, AsksLeft
  <2>3. CASE \/ BackgroundAnswers \/ handleBackgroundEvent \/ SettingsChange \/ WorkerReady
             \/ WorkerFails
    BY <1>1, <1>2, <2>3, EventsKept, BackgroundLeft, EventLeft
  <2>4. CASE \/ WorkerCrashes \/ TransportLost \/ PageCalls \/ PageLeaves \/ PageRuns \/ PageTimeout
    BY <1>1, <1>2, <2>4, EventsKept, PageLeft
  <2>5. CASE \/ WorkerAnswers \/ onDataPortMessage \/ RuntimePortAnswers \/ BridgeTimer
    BY <1>1, <1>2, <2>5, EventsKept, ReportLeft, TimerLeft
  <2> QED
    BY <1>2, <2>1, <2>2, <2>3, <2>4, <2>5 DEF Next
<1>3. CASE UNCHANGED vars
  <2>1. UNCHANGED <<d, toBridge, toPage, onPort, b, bg>>
    BY <1>3 DEF vars
  <2> QED
    BY <2>1 DEF PlaneInv, Named
<1> QED
  BY <1>2, <1>3

\* Whatever the order of answers, failures, changes of the settings and timers,
\* the bridge keeps to its types, a queued request's task waits for its answer,
\* and nothing names a generation before beginPlaneGeneration began it.
THEOREM PlanesInductive == Spec => []PlaneInv
<1>1. Init => PlaneInv
  BY PlaneStarts
<1>2. PlaneInv /\ [Next]_vars => PlaneInv'
  BY PlaneSteps
<1> QED
  BY <1>1, <1>2, PTL DEF Spec

\* A plane bridge.js reports ready (readyGenerations) is the one of the current
\* generation (spawnGen), and both its ends have said so (planeReadiness).
THEOREM ReadyCorrect == Spec => []ReadyIsCurrent
<1>1. PlaneInv => ReadyIsCurrent
  BY DEF PlaneInv, ReadyInv, ReadyIsCurrent
<1> QED
  BY <1>1, PlanesInductive, PTL

\* The page, the bridge and every message, port, report and timer between them
\* name generations that have begun: spawnGen survives every despawn.
THEOREM GenerationsCorrect == Spec => []NoFutureGeneration
<1>1. ASSUME PlaneInv
      PROVE  NoFutureGeneration
  <2> DEFINE P == 0..b.gen
  <2>1. Past(b.gen) = P
    BY DEF Past
  <2>2. d \in DeviceRec(b.gen) /\ b.gen \in Nat
    BY <1>1, PlaneFacts DEF Named
  <2>3. {d.gen, d.port, d.worker.gen, d.worker.port, d.plane.gen, d.unavailGen} \subseteq P
    BY <2>1, <2>2, DeviceTypes
  <2>4. {b.worker.gen, b.record, b.waiter.gen} \subseteq P
    BY <1>1, <2>1, PlaneFacts, Fields DEF Worker, Waiter
  <2>5. /\ \A i \in 1..Len(toBridge) : toBridge[i].gen \in P
        /\ \A i \in 1..Len(toPage) : toPage[i].gen \in P
        /\ \A i \in 1..Len(d.spawns) : d.spawns[i].gen \in P
    <3>1. d.spawns \in Seq(BridgeMsg(b.gen))
      BY <2>2, DeviceTypes
    <3>2. ASSUME NEW q \in Seq(BridgeMsg(b.gen)), NEW i \in 1..Len(q)
          PROVE  q[i].gen \in P
      <4>1. q[i] \in BridgeMsg(b.gen)
        OBVIOUS
      <4> QED
        BY <2>1, <4>1 DEF BridgeMsg
    <3>3. ASSUME NEW q \in Seq(PageMsg(b.gen)), NEW i \in 1..Len(q)
          PROVE  q[i].gen \in P
      <4>1. q[i] \in PageMsg(b.gen)
        OBVIOUS
      <4> QED
        BY <2>1, <4>1 DEF PageMsg
    <3> QED
      BY <1>1, <3>1, <3>2, <3>3, PlaneFacts
  <2>6. \A x \in onPort \cup b.ports \cup b.pending \cup b.timers : x.gen \in P
    <3>1. \A x \in onPort : x.gen \in P
      BY <1>1, <2>1, PlaneFacts DEF Result
    <3>2. \A x \in b.ports \cup b.pending \cup b.timers : x.gen \in P
      BY <1>1, <2>1, PlaneFacts, Fields DEF Port, Pending, Waiter
    <3> QED
      BY <3>1, <3>2
  <2>7. ASSUME NEW t \in Task
        PROVE  {b.task[t].gen, b.task[t].old} \subseteq P
    <3>1. b.task[t] \in TaskRec(b.gen)
      BY <1>1, PlaneFacts, Fields, TaskFields
    <3> QED
      BY <2>1, <3>1 DEF TaskRec
  <2> HIDE DEF P
  <2>8. {d.gen, d.port, d.worker.gen, d.worker.port, d.plane.gen, d.unavailGen,
         b.worker.gen, b.record, b.waiter.gen} \subseteq P
    BY <2>3, <2>4
  <2>9. \A q \in {toBridge, toPage, d.spawns} : \A i \in 1..Len(q) : q[i].gen \in P
    BY <2>5
  <2> QED
    BY <2>6, <2>7, <2>8, <2>9 DEF NoFutureGeneration, P
<1> QED
  BY <1>1, PlanesInductive, PTL

\* Sessions, modes, queued requests and reports are of their kinds, a stretch of
\* bridge code leaves nothing unsent, and a waiter's timer runs (pendingPlaneReady).
THEOREM PlanesTyped == Spec => []TypeOK
<1>1. ASSUME PlaneInv
      PROVE  TypeOK
  <2>1. /\ b.session \in Token \cup {None} /\ b.mode \in Modes
        /\ b.control \in Seq(Request) /\ b.gen \in Nat
    BY <1>1, PlaneFacts, Fields
  <2>2. Posted(b) /\ b.waiter \in b.timers \cup {NoWaiter}
    BY <1>1 DEF PlaneInv, ReadyInv
  <2>3. d.report \in [Report -> ReportStates] /\ d.gen \in Nat /\ d.port \in Nat
    <3>1. d \in DeviceRec(b.gen)
      BY <1>1, PlaneFacts DEF Named
    <3> QED
      BY <2>1, <3>1, DeviceTypes
  <2> QED
    BY <2>1, <2>2, <2>3 DEF TypeOK, Posted, Request, ReportStates
<1> QED
  BY <1>1, PlanesInductive, PTL

=============================================================================
