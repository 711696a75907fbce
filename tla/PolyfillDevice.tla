--------------------------- MODULE PolyfillDevice ---------------------------
(***************************************************************************)
(* content/main/index.js, the page's end of one device: an HIDDevice       *)
(* object, its open() and close() calls, its reports, its data port, the   *)
(* main-world worker and the in-page transport of the device.  The page    *)
(* and the bridge exchange messages over one MessagePort per frame, FIFO   *)
(* in each direction.  A channel is named by the plane generation it was   *)
(* wired for; reports are named, their bytes left out.                     *)
(***************************************************************************)
EXTENDS Naturals, Sequences, FiniteSets

CONSTANTS MaxOpens,     \* bound: calls of open()
          MaxCloses,    \* bound: calls of close()
          MaxTimeouts,  \* bound: requests that time out
          Report        \* reports the page may send, one call each

ASSUME PageAssumption == {MaxOpens, MaxCloses, MaxTimeouts} \subseteq Nat

VARIABLES d,         \* the HIDDevice, its calls and what the page runs for it
          toBridge,  \* page -> bridge
          toPage,    \* bridge -> page
          onPort     \* reports and results in flight on data ports

pageVars == <<d, toBridge, toPage, onPort>>

(***************************************************************************)
(* A message: its type, the request it belongs to, a generation, a flag.   *)
(***************************************************************************)
Msg(type, id, gen, ok) == [type |-> type, id |-> id, gen |-> gen, ok |-> ok]
NoId == <<"none", 0>>
ToBridge(msgs) == toBridge' = toBridge \o msgs

Opens == 1..MaxOpens
Closes == 1..MaxCloses

DeviceInit ==
  /\ d = [alive |-> TRUE, opened |-> FALSE, opening |-> FALSE,
          forgotten |-> FALSE, registered |-> TRUE,
          gen |-> 0, ready |-> FALSE, unavail |-> FALSE, unavailGen |-> 0,
          port |-> 0,
          worker |-> [gen |-> 0, port |-> 0],
          plane  |-> [gen |-> 0, up |-> FALSE],
          spawns |-> <<>>,
          open  |-> [i \in Opens |-> "new"],
          close |-> [i \in Closes |-> "new"],
          report |-> [r \in Report |-> "new"],
          tearing |-> FALSE, timeouts |-> 0]
  /\ toBridge = <<>> /\ toPage = <<>> /\ onPort = {}

---------------------------------------------------------------------------
(* State helpers                                                           *)

(* Every report still in state.dataPending is rejected. *)
rejectPendingReports(s) ==
  [s EXCEPT !.report = [r \in Report |->
                         IF @[r] = "pending" THEN "settled" ELSE @[r]]]

(* The same for the requests of the in-page transport. *)
rejectInPagePending(s) ==
  [s EXCEPT !.report = [r \in Report |->
                         IF @[r] = "inpage" THEN "settled" ELSE @[r]]]

detachDataPort(s) == [s EXCEPT !.port = 0]

(* A MessageChannel for generation g; what it replaces is rejected. *)
wireDevicePort(s, g) ==
  IF s.port = g /\ g # 0 THEN s
  ELSE LET old == IF s.port # 0 THEN rejectPendingReports(s) ELSE s
       IN  [old EXCEPT !.gen = g, !.ready = FALSE, !.port = g,
                       !.unavailGen = IF g # s.gen THEN 0 ELSE @,
                       !.unavail = @ \/ s.opened,
                       !.worker.port = IF s.worker.gen # 0 THEN g ELSE 0]

(* The bridge gets the data port itself, or the control port of the worker *)
(* the data port was handed to (ok).                                       *)
WireMessage(s, g) ==
  IF s.port = g /\ g # 0 THEN <<>>
  ELSE <<Msg("dataPort", NoId, g, s.worker.gen # 0)>>

(* The lifetime ended elsewhere: disconnect event or revocation. *)
reconcileAuthoritativeLifetime(s, forgotten) ==
  detachDataPort(rejectPendingReports(
    [s EXCEPT !.opening = FALSE, !.opened = FALSE, !.ready = FALSE,
              !.forgotten = @ \/ forgotten,
              !.unavail = FALSE, !.unavailGen = 0]))

Involved(s) == s.registered /\ (s.opened \/ s.opening)

---------------------------------------------------------------------------
(* Calls of the page                                                       *)

Open(i) ==
  /\ d.alive /\ d.open[i] = "new" /\ \A j \in 1..(i - 1) : d.open[j] # "new"
  /\ ~d.forgotten /\ ~d.opened /\ ~d.opening
  /\ d' = [d EXCEPT !.opening = TRUE, !.open[i] = "asked"]
  /\ ToBridge(<<Msg("open", <<"open", i>>, 0, TRUE)>>)
  /\ UNCHANGED <<toPage, onPort>>

Close(i) ==
  /\ d.alive /\ d.close[i] = "new" /\ \A j \in 1..(i - 1) : d.close[j] # "new"
  /\ d.opened /\ ~d.forgotten
  /\ d' = [d EXCEPT !.close[i] = "asked"]
  /\ ToBridge(<<Msg("close", <<"close", i>>, 0, TRUE)>>)
  /\ UNCHANGED <<toPage, onPort>>

(* Over the in-page transport when it is open (inPageRequest), otherwise    *)
(* over the data port of the current generation.                           *)
sendDeviceRequest(r) ==
  /\ ~d.unavail /\ d.ready
  /\ IF d.plane.up
     THEN d' = [d EXCEPT !.report[r] = "inpage"] /\ UNCHANGED onPort
     ELSE /\ d.port # 0 /\ d.port = d.gen
          /\ d' = [d EXCEPT !.report[r] = "pending"]
          /\ onPort' = onPort \cup {[gen |-> d.port, report |-> r, sent |-> TRUE]}

(* sendReport, receiveFeatureReport and sendFeatureReport *)
SendReport(r) ==
  /\ d.alive /\ d.report[r] = "new" /\ d.opened
  /\ sendDeviceRequest(r)
  /\ UNCHANGED <<toBridge, toPage>>

(* pagehide or unload *)
PageHide ==
  /\ d.alive
  /\ d' = [d EXCEPT !.alive = FALSE]
  /\ ToBridge(<<Msg("gone", NoId, 0, TRUE)>>)
  /\ UNCHANGED <<toPage, onPort>>

---------------------------------------------------------------------------
(* Answers to open() and close().  An open() whose call was given up       *)
(* sends a close that nobody awaits.                                       *)

FinishOpen(s, i, how) == [s EXCEPT !.open[i] = how, !.opening = FALSE]

OpenAnswered(s, i, m) ==
  CASE s.forgotten -> /\ d' = FinishOpen(s, i, "failed")
                      /\ ToBridge(<<Msg("close", <<"drop", i>>, 0, TRUE)>>)
    [] ~s.forgotten /\ ~m.ok -> d' = FinishOpen(s, i, "failed") /\ ToBridge(<<>>)
    [] OTHER -> LET w == [s EXCEPT !.gen = m.gen, !.open[i] = "waiting"]
                IN  /\ d' = wireDevicePort(w, m.gen)
                    /\ ToBridge(WireMessage(w, m.gen)
                          \o <<Msg("wait", <<"wait", i>>, m.gen, TRUE)>>)

WaitAnswered(s, i, m) ==
  IF m.ok
  THEN /\ d' = [FinishOpen(s, i, "opened") EXCEPT
                  !.ready = TRUE, !.unavail = FALSE, !.opened = TRUE]
       /\ ToBridge(<<>>)
  ELSE /\ d' = [detachDataPort(s) EXCEPT !.open[i] = "undo"]
       /\ ToBridge(<<Msg("close", <<"undo", i>>, 0, TRUE)>>)

CloseAnswered(s, i, m) ==
  /\ d' = IF m.ok
          THEN detachDataPort(rejectPendingReports(
                 [s EXCEPT !.opened = FALSE, !.ready = FALSE, !.unavail = FALSE,
                           !.unavailGen = 0, !.close[i] = "closed"]))
          ELSE [s EXCEPT !.close[i] = "failed"]
  /\ ToBridge(<<>>)

(* forceForgetDevice, after its own close request was answered *)
TeardownAnswered(s) ==
  /\ d' = [reconcileAuthoritativeLifetime(s, TRUE) EXCEPT
             !.registered = FALSE, !.tearing = FALSE]
  /\ ToBridge(<<>>)

(* The request is still in `pending`. *)
Awaited(id) ==
  CASE id[1] = "open"  -> d.open[id[2]] = "asked"
    [] id[1] = "wait"  -> d.open[id[2]] = "waiting"
    [] id[1] = "undo"  -> d.open[id[2]] = "undo"
    [] id[1] = "close" -> d.close[id[2]] = "asked"
    [] id[1] = "teardown" -> d.tearing
    [] OTHER -> FALSE

Settle(s, m) ==
  CASE m.id[1] = "open"  -> OpenAnswered(s, m.id[2], m)
    [] m.id[1] = "wait"  -> WaitAnswered(s, m.id[2], m)
    [] m.id[1] = "undo"  -> d' = FinishOpen(s, m.id[2], "failed") /\ ToBridge(<<>>)
    [] m.id[1] = "close" -> CloseAnswered(s, m.id[2], m)
    [] m.id[1] = "teardown" -> TeardownAnswered(s)

handleResponseMessage(m) ==
  IF Awaited(m.id) THEN Settle(d, m) ELSE d' = d /\ ToBridge(<<>>)

(* sendRequest gives up after 30 s with status 504. *)
RequestIds == ({"open", "wait", "undo"} \X Opens) \cup ({"close"} \X Closes)
                \cup {<<"teardown", 0>>}
RequestTimeout(id) ==
  /\ d.alive /\ d.timeouts < MaxTimeouts /\ Awaited(id)
  /\ Settle([d EXCEPT !.timeouts = @ + 1], Msg("response", id, 0, FALSE))
  /\ UNCHANGED <<toPage, onPort>>

---------------------------------------------------------------------------
(* Messages about the data plane                                           *)

handleDataPlaneReady(m) ==
  /\ d' = IF ~Involved(d) \/ m.gen # d.gen \/ d.unavailGen = m.gen THEN d
          ELSE [d EXCEPT !.ready = TRUE, !.unavail = FALSE, !.unavailGen = 0]
  /\ ToBridge(<<>>)

(* Faulty variants: the device stays ready when its plane is gone;          *)
(* reports of the plane that is gone are not rejected.                     *)
MutStayReady(m) ==
  /\ d' = IF ~Involved(d) \/ m.gen < d.gen THEN d
          ELSE detachDataPort(rejectPendingReports(
                 [d EXCEPT !.gen = m.gen, !.unavail = TRUE, !.unavailGen = m.gen]))
  /\ ToBridge(<<>>)
MutKeepPending(m) ==
  /\ d' = IF ~Involved(d) \/ m.gen < d.gen THEN d
          ELSE detachDataPort([d EXCEPT !.gen = m.gen, !.ready = FALSE,
                                        !.unavail = TRUE, !.unavailGen = m.gen])
  /\ ToBridge(<<>>)

handleDataPlaneUnavailable(m) ==
  /\ d' = IF ~Involved(d) \/ m.gen < d.gen THEN d
          ELSE detachDataPort(rejectPendingReports(
                 [d EXCEPT !.gen = m.gen, !.ready = FALSE, !.unavail = TRUE,
                           !.unavailGen = m.gen]))
  /\ ToBridge(<<>>)

handleWireWorkerPort(m) ==
  IF ~Involved(d) \/ m.gen < d.gen THEN d' = d /\ ToBridge(<<>>)
  ELSE d' = wireDevicePort(d, m.gen) /\ ToBridge(WireMessage(d, m.gen))

(* An in-page transport is created; the one it replaces is forgotten. *)
handleDataPlaneConnect(m) ==
  IF d.registered /\ (m.gen < d.gen \/ (m.gen = d.gen /\ d.ready))
  THEN d' = d /\ ToBridge(<<Msg("planeResponse", m.id, m.gen, FALSE)>>)
  ELSE /\ d' = [(IF d.registered
                 THEN [d EXCEPT !.gen = m.gen, !.ready = FALSE,
                                !.unavail = TRUE, !.unavailGen = 0]
                 ELSE d) EXCEPT !.plane = [gen |-> m.gen, up |-> FALSE]]
       /\ ToBridge(<<>>)

handleDataPlaneDisconnect(m) ==
  /\ d' = IF d.plane.gen # 0 /\ d.plane.gen = m.gen
          THEN rejectInPagePending([d EXCEPT !.plane = [gen |-> 0, up |-> FALSE]])
          ELSE d
  /\ ToBridge(<<>>)

(* A terminate is done at once; a spawn first awaits the Trusted Types     *)
(* sharing and, for a shadow spawn, the arming of the request.             *)
handleSpawnWorkerRequest(m) ==
  IF m.type = "terminate"
  THEN /\ d' = IF d.worker.gen = m.gen THEN [d EXCEPT !.worker = [gen |-> 0, port |-> 0]]
               ELSE d
       /\ ToBridge(<<Msg("spawned", m.id, m.gen, TRUE)>>)
  ELSE d' = [d EXCEPT !.spawns = Append(@, m)] /\ ToBridge(<<>>)

(* The worker is created (the previous one is terminated) or cannot be. *)
CreateWorker(ok) ==
  LET m == Head(d.spawns)
  IN  /\ d.alive /\ d.spawns # <<>>
      /\ d' = [d EXCEPT !.spawns = Tail(@),
                        !.worker = IF ok THEN [gen |-> m.gen, port |-> 0] ELSE @]
      /\ ToBridge(<<Msg("spawned", m.id, m.gen, ok)>>)
      /\ UNCHANGED <<toPage, onPort>>

(* worker.onerror *)
WorkerError ==
  /\ d.alive /\ d.worker.gen # 0
  /\ d' = [d EXCEPT !.worker = [gen |-> 0, port |-> 0]]
  /\ ToBridge(<<Msg("workerError", NoId, d.worker.gen, FALSE)>>)
  /\ UNCHANGED <<toPage, onPort>>

(* The in-page transport connects, or is lost for good. *)
PlaneUp ==
  /\ d.alive /\ d.plane.gen # 0 /\ ~d.plane.up
  /\ d' = [d EXCEPT !.plane.up = TRUE]
  /\ ToBridge(<<Msg("planeResponse", NoId, d.plane.gen, TRUE)>>)
  /\ UNCHANGED <<toPage, onPort>>

PlaneLost ==
  /\ d.alive /\ d.plane.gen # 0
  /\ d' = rejectInPagePending([d EXCEPT !.plane = [gen |-> 0, up |-> FALSE]])
  /\ ToBridge(<<Msg("planeEvent", NoId, d.plane.gen, FALSE)>>)
  /\ UNCHANGED <<toPage, onPort>>

InPageAnswered(r) ==
  /\ d.alive /\ d.report[r] = "inpage" /\ d.plane.up
  /\ d' = [d EXCEPT !.report[r] = "settled"]
  /\ UNCHANGED <<toBridge, toPage, onPort>>

(* A disconnect event ends the lifetime and takes the object out of the    *)
(* registry; a revocation forgets the device, closing it first when open.  *)
dispatchDeviceEvent(m) ==
  IF ~d.registered THEN d' = d /\ ToBridge(<<>>)
  ELSE CASE m.id[1] = "disconnect" ->
              /\ d' = [reconcileAuthoritativeLifetime(d, FALSE) EXCEPT
                         !.registered = FALSE]
              /\ ToBridge(<<>>)
         [] m.id[1] = "revoked" /\ d.forgotten -> d' = d /\ ToBridge(<<>>)
         [] m.id[1] = "revoked" /\ ~d.forgotten /\ d.opened ->
              /\ d' = [d EXCEPT !.tearing = TRUE]
              /\ ToBridge(<<Msg("close", <<"teardown", 0>>, 0, TRUE)>>)
         [] OTHER -> TeardownAnswered(d)

PageHandlers(m) ==
  CASE m.type = "response"        -> handleResponseMessage(m)
    [] m.type = "planeReady"      -> handleDataPlaneReady(m)
    [] m.type = "planeGone"       -> handleDataPlaneUnavailable(m)
    [] m.type = "wire"            -> handleWireWorkerPort(m)
    [] m.type = "connect"         -> handleDataPlaneConnect(m)
    [] m.type = "disconnectPlane" -> handleDataPlaneDisconnect(m)
    [] m.type \in {"spawn", "terminate"} -> handleSpawnWorkerRequest(m)
    [] m.type = "event"           -> dispatchDeviceEvent(m)

PageReceive ==
  /\ d.alive /\ toPage # <<>>
  /\ PageHandlers(Head(toPage))
  /\ toPage' = Tail(toPage)
  /\ UNCHANGED onPort

(* A result arrives on the data port that is still attached, or on one     *)
(* that was closed, where it is lost.                                      *)
handleReportResult ==
  \E w \in {x \in onPort : ~x.sent} :
    /\ d.alive
    /\ onPort' = onPort \ {w}
    /\ d' = IF w.gen = d.port /\ d.report[w.report] = "pending"
            THEN [d EXCEPT !.report[w.report] = "settled"] ELSE d
    /\ UNCHANGED <<toBridge, toPage>>
=============================================================================
