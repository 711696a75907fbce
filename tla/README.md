# FF-WebHID: verification project

FF-WebHID gives Firefox the WebHID API. A page talks to a polyfill in its own
world (`content/main`), the polyfill to an isolated content script
(`content/isolated/bridge.js`), the bridge to the addon's background page
(`background/*.js`), the background through native messaging to a native daemon
(`crates/webhid-daemon`), and the daemon to the HID devices. Input and output
reports may leave that path: a page-side worker, or the page itself, can reach
the daemon directly over a loopback WebSocket (WS) or WebTransport (WT)
connection. Every hop is asynchronous, every hop can die on its own, and each of
them keeps a map of "who owns which session of which device" that must agree
with its neighbours'.

This directory models that ownership, the physical lifetimes underneath it, the
connections and data planes beside it, and the grants and policies that decide who
may have a session at all. It grows outwards from the daemon's core to the page.

## 1. Inventory

### Native daemon (`src/crates/webhid-daemon/src`)

| Component | State | Operations | Hard behaviour | What makes it correct |
|---|---|---|---|---|
| Session and lifetime core (`device_mgr.rs`, driven by `client.rs`) | `devices`, `sessions`, `ws_auth_hashes`, `transport_validity`, `opening`, `nm_inputs`, `nm_hot`, `non_nm_sessions` | `open`, `close`, `close_all_for_client`, `force_close`, `set_dataplane_mode`, `ws_connect`/`wt_connect`, `ws_disconnect`/`wt_disconnect`, reader cleanup | several threads outside the lifecycle mutex between two locked sections; single-flight opens with waiters; device loss at any point; events that arrive late | an Entry exactly while there are sessions, one thread per teardown, no lifetime published after its reservation was invalidated, waiters always woken, capabilities and counters exact |
| Device I/O (`IoCommand`, `spawn_io_worker`, `send_io_command`, NM and transport entry points) | bounded queue per lifetime, I/O epoch, validity flags | write, feature read/write, shutdown | queue full at shutdown, commands queued for a lifetime or a session that ended | a queued command of an ended session never reaches a later lifetime, every command is answered, shutdown joins |
| Input fan-out (`spawn_reader`, `route_nm_input`, broadcast) | `nm_hot` sinks, broadcast channel | read, route, invalidate | a reader spinning on a full sink; a reader of a detached lifetime; lag | no report after invalidation, the reader always stops |
| Client tasks (`client.rs`) | sequential request loop, event task | dispatch, relay of device events, teardown on EOF | event task and request loop race; broadcast lag loses events | all sessions of a gone client closed |
| Batching sender (`batching.rs`) | coalescing window, rate gate, pending buffer | `run_sender`, `flush_batch`, client messages | mode changes and invalidation while a batch is pending; u16 lengths | no report after invalidation, order kept, batch boundaries |
| WS transport (`websocket.rs`) | connection phase, capability | authenticate, connect, serve, disconnect | reconnect with the same hash; teardown races | at most one current capability per session |
| WT transport (`webtransport.rs`) | certificate generation, active counts | rotate, accept, drain | rotation while sessions live | an expired generation drains and is not offered |
| Hotplug (`hotplug.rs`) | last enumeration, udev cache | refresh and diff, udev add/remove | missed and repeated events | every removal reported, cache equal to the world |
| HID access (`hid.rs`), enumeration filter, blocklist, report blocking, descriptor parser | none (pure) | open by id, filters, report checks, parsing | boundary values | equal to the reference definitions |
| Daemon start-up (`main.rs`, `security.rs`, `dump.rs`) | single instance, socket | start, stop | | out of scope: process set-up and debug output |

### Shared crate and forwarder (`src/crates/webhid`, `src/crates/webhid-native-messaging`)

| Component | State | Operations | Hard behaviour | What makes it correct |
|---|---|---|---|---|
| Protocol and types (`protocol.rs`, `types.rs`, `collections_tlv.rs`) | none | frame, packed data, TLV encode/decode | length fields at their limits, truncated input | decode inverts encode, bad input is refused |
| Peer verification and socket path (`security.rs`, `socket_path.rs`) | none | | | out of scope: operating-system queries |
| Forwarder (`webhid-native-messaging/src/main.rs`) | two pumps, reconnect | forward both ways, reconnect, shut down | either side closes first | frames kept in order, both pumps end |
| Mock devices (`webhid-mock`) | | | | a test tool |

### Addon background (`src/addon/js/background`)

| Component | State | Operations | Hard behaviour | What makes it correct |
|---|---|---|---|---|
| Native-messaging port (`nm.js`) | `port`, `pending`, `reconnectTimer`, `reconnectDelay` | connect, retire, reconnect, send, time out | an answer after its timeout; a port lost with requests pending; reconnect storms | every request settles once; one reconnect timer; ownership forgotten with the port |
| Ownership and request handlers (`messages.js`, `state_ops.js`, `state.js`) | `deviceTabMap`, `deviceSessions`, `frameLifetimes`, `orphanCleanup` | open, close, purge of frame, bridge and tab, revoke, orphan retry, device disconnect | every handler reads, awaits the daemon, then writes; owners die while an open is in flight | no daemon session without an owner or an orphan record, counts equal the registered sessions, revocation closes everything |
| Grants and device cache (`storage.js`) | IndexedDB stores | add, remove, groups | group revocation while a grant is recorded | grants only through the picker |
| Page action, picker, policy and delegation state | `pendingPicker`, `permissionsPolicy`, `frameDelegations`, visibility chains | show, cancel, result, policy look-up | one picker per tab replaced while open; navigations reuse frame ids | a result reaches the request it answers |
| CSP and request rewriting (`csp.js`, `webrequest.js`) | header caches, shadow arms | rewrite, arm, consume | arms consumed by another request | an arm is used once |
| Settings and start-up (`index.js`, `settings.js`) | settings store, polyfill sites | migrate, load, change, host switch | a change while a refresh is in flight | stored and live values agree |

### Page side (`src/addon/js/content`, `src/addon/js/utils`)

| Component | State | Operations | Hard behaviour | What makes it correct |
|---|---|---|---|---|
| Bootstrap (`bootstrap.js`, `bootstrap-lifetime.js`) | reservations, challenges, contexts | offer, probe, accept, replace | two offers for one frame; the document changes between challenge and answer | one accepted port per document |
| Bridge data planes (`bridge.js`) | `spawnGen`, `readyGenerations`, `planeReadiness`, `workers`, `nmPlanes`, pending maps | spawn, despawn, recover, fall back, wait for readiness | state touched after an await by an older generation; fallback racing recovery | a generation is ready only if current; a despawn never clears a newer plane |
| Bridge sessions and requests (`bridge.js`) | `frameContexts`, sessions per client, control queue | open, close, frame destruction, global reset | open answered after its frame died | no session owned by a dead frame |
| Polyfill (`main/index.js`) | device objects, ports, queues | `requestDevice`, `open`, `close`, reports, events | close while opening, forget while open | the states the WebHID interface promises |
| Worker and transports (`worker/index.js`, `utils/websocket.js`, `utils/webtransport.js`) | connection, reconnect, write queue | connect, authenticate, send, reconnect | answers by order or id, backpressure | answers matched to their requests |
| Wire helpers (`wire-format.js`, `descriptor-tlv.js`, `base64.js`, `input-report.js`, `device-filters.js`) | none | encode, decode, filter | | inverse of the daemon's encoders |
| Pages (popup, picker, devices, settings), locales, logging | | | | out of scope: presentation |

## 2. Plan

Modules in the order they are written; the most important behaviour first.

| Step | Module | Models | Abstract specification | Proved, or to prove |
|---|---|---|---|---|
| 1 (done) | `HidSessions`, `DeviceManager`, `DeviceManagerProofs` | session and lifetime core | `HidSessions` | proved: every safety property of its runs, and the refinement |
| 2 (done) | `BackgroundOwnership`, `BackgroundOwnershipProofs`, `BackgroundSessionsProofs` | background handlers, ownership maps, orphan retry, over a daemon that may lose, delay or refuse answers | stated as `NoLostSession`: every daemon session is answered for | proved: `OwnershipInv`, `RevokedIsClosing`, `RetiredIsClosing`, `PurgeOnlyRetired`, `OwnedByConnection`, `SessionInv`, `NoLostSession` until a request times out |
| 3 (done) | `PolyfillDevice`, `BridgePlanes`, `PagePlanes`, `PagePlanesProofs` | one device's data plane between the page and the bridge | `SessionsAgree`, `ReadyIsCurrent`: one session, one generation | proved: `PlaneInv`, `TypeOK`, `ReadyIsCurrent`, `NoFutureGeneration` |
| 4 (done) | `FrameContexts`, `FrameContextsProofs` | the ports of successive documents, their workers as clients | one port per document | proved: `PortsInv`, `OnePortPerDocument`, `FramesInv`, `NoLostSession` |
| 5 (done) | `WorkerTransport`, `WorkerTransportProofs` | requests over a WS or WT connection that is lost and replaced | every request is replied to | proved: `TypeOK`, `NeverIdle`, `PendingIsAnswerable`; to prove: a request is queued or sent once |
| 6 (done) | `PickerFlow`, `PickerFlowProofs` | requestDevice, the two choosers, grants in every layer | a page is given the device it chose, and can use it | proved: `ChoiceInv`, `AnsweredByOwnChoice`, `GrantInv`, `GrantedIsAllowed`, `GrantIsListed` |
| 7 (done) | `FramePolicy`, `FramePolicyProofs` | the permissions policy of nested frames | the policy a document's declarations give it | proved: `RecordInv`, `OneRecordPerFrame`, `AnswerInv`, `AnswerIsPolicy` |
| 8 | `DeviceIo`, `InputFanout` | the daemon's I/O queue with epochs and validity; readers and sinks | a lifetime-fenced queue | no command crosses a lifetime |
| 9 | `Batching`, `WtRotation`, `NmPort` | senders, WT certificate generations, the back-off of the native port | | rate gate, drained generations |
| 10 | `Hotplug`, `ReportBlocking`, `EnumerationFilter`, `PackedFrames`, `Forwarder`, `SettingsSync`, `ShadowArms` | pure algorithms, the enumeration diff, the rest of the background | reference definitions | lemmas on the diff and on the framing |

Theorems still worth proving: `PageReadyIsReady` and `SessionsAgree` of the data plane, each under
the condition its statement names (one change of mode; one close and no loss, section 5). There is
one run per question: properties that need the same instance share a run. The modules do not share variables across components:
where two meet (bridge and background, background and daemon) each has its
neighbour as a small environment that does what the other module shows it may do.

## 3. The session and lifetime core

### HidSessions: what the core promises

Clients hold sessions on devices; a device has one physical lifetime while it has
sessions. `holder` names the lifetime each open device has, `owner` and `target` the
client and the device of each session, `spent` the tokens that were ever given out. A session
begins with the lifetime of its device (`Begin`) or on one that is there (`Join`); it
ends alone, and with the lifetime when it was the last one (`End`), or with every other session
of the device (`Teardown`). There is no reservation, waiter or lock. `DeviceManager` implements
it: `Refines` instantiates it with the projection of the core's maps, and every locked
section is one abstract step or a stutter: a reservation is a stutter, its publication a `Begin`.

### DeviceManager: the core

The lifecycle mutex serialises the cold path, so a locked section is one action;
whatever a thread does outside it is a step of its own.

| Code | Model |
|---|---|
| `devices`, `sessions`, `ws_auth_hashes`, `transport_validity`, `opening`, `nm_inputs`, `nm_hot`, `non_nm_sessions` | `devices`, `sessions`, `wsAuthHashes`, `transportValidity`, `opening` with `invalidated`, `nmSinks`, `nmHot`, `nonNm` |
| a client's request loop | `client[c]`: its program counter, the open or close it is in, the teardown it holds |
| a client's event task | `events[c]` (its receiver) and `relay[c]` (inside `force_close`) |
| a physical lifetime: handle, Entry, reader and I/O worker threads, start gate | `life`, `lifeDev`, `reader`, `workerUp`, `gate` |
| a WS or WT connection task, how far it is (before, in and after its select), its capability | `conn`, `stage`, `capValid` |
| devices plugged in, handles that lost theirs, removals not yet reported | `present`, `lost`, `removals` |

The token an `open` mints names its reservation and the lifetime it creates too:
one `open` makes at most one of each, so nothing is lost and one set of names
serves all three. `open()` is the chain `OpenCall`, then `OpenJoin`, `OpenWait` or
`OpenReserve`, then `PhysicalOpen`, `OpenBuild`, `OpenPublish` or one of the ways to
fail, `OpenRelease`, `OpenFinish`, `OpenNotify`; a waiter ends in `WaiterJoin`,
`WaiterRetry` or `WaiterFail`. `close`, `force_close`, the end of a client and the
cleanup of a failed reader each take what they remove out of the maps in one step
and then stop the threads, join them and settle the counter and the cancel
watches in later ones. Two threads may therefore be between those steps at once,
which is what most of the properties are about.

Abstracted: report payloads and descriptors; the HID API (an open succeeds on a
present device or fails; a read fails when the device is gone or, with `IoErrors`,
at any time); the I/O queue (`DeviceIo`, step 8 of the plan); which connection a capability
belongs to is the connection's own name; logging, metrics and hashing (an auth hash
is its session's token).

### Runs

| Run | Instance | What it shows |
|---|---|---|
| `dm_sessions` | 2 clients, 1 device, 2 tokens, one removal, spurious read errors, mode changes | the inductive invariant `IInv` (types, tokens used once, an auth hash exactly as long as its session, exclusive reservations, notified waiters, Entries exactly while there are sessions) and on top of it: the NM bindings are the wanted ones, no invalidated lifetime is published, each removed Entry has one thread to stop it, the end of one session leaves the others alone, the core refines `HidSessions` |
| `dm_open_live` | 2 clients, 2 tokens, read errors | every `open` returns, every teardown completes |
| `dm_lost_live` | 1 client, 1 token, 2 connections, modes NM, WS and WT, read errors, a removal, a lagging event receiver | one current capability per session, exact non-NM count, a late disconnect changes nothing of its successor; a lifetime that lost its device ends even when the event is lost, and a connection that is not its session's transport any more is not served |

Bounds. Two clients are enough for every race the code has between clients: a
reservation has one opener, and waiters differ only in when they run. Two tokens
give a lifetime and its successor, which is what stale readers and stale events
need, and two sessions that share one. One removal (`MaxUnplug`) with its replug gives
every order of removal, event and reopen. Two connections give a current one and a
replaced one. Devices share no state but the lifecycle mutex, so one is enough.
Clients and tokens are symmetric in `dm_sessions`, and no symmetry is used where
liveness is checked. Where a run turns read errors, modes
or lag off, another run has them on. `CHECK_DEADLOCK` is off because a run may end
with all tokens minted and all clients gone.

Fairness (`FairSpec`). Weak fairness on every step a thread takes by itself: the
rest of an `open` or `close` once begun, the stop and join steps, the reader's
reaction to its stop flag and to a device that is gone, the event task. The select of a
connection task ends when its capability was revoked (websocket.rs:191, webtransport.rs:324),
and a WS task runs on to its end, since it aborts what it started and waits for none of it.
Nothing is assumed of a WT task before and after its select, where it waits for its peer to open a
stream (`accept_bi`, webtransport.rs:297) and for its writer to end (339). Nothing the outside
decides is fair: no client has to call, no device has to fail or return. The code justifies it:
each of these is a runnable thread or task with nothing to wait for but what the action's
guard says. A reader, besides, retries on a full sink of an NM client until the client reads or
the binding is invalid (`route_nm_input`, device_mgr.rs:442); that its steps are fair presumes
clients that read, as input fan-out is not modelled yet.

### Proofs

`DeviceManagerProofs` proves `TypeCorrect`: `TypeOK` holds in every reachable state
for any sets of clients, devices, tokens and connections. It is inductive as it
stands thanks to `LocalsOK`, the conjunct that says where a thread's locals are set.

The same module proves the inductive invariant `IInv` and from it the
named properties. None of them is inductive alone: that an Entry has a session
needs that a reservation belongs to the one thread that is going to publish
(`ReservationExclusive`), which needs that no two opens share a token (`TokenOnce`),
and that a token which answered is not pending again; that a waiter has a notifier
needs the reservation it awaits to be its opener's. The step is proved with two
lemmas that sort the actions once: `LockedSection` (each action that changes the
maps registers a session, ends one, tears a lifetime down, or leaves the maps
alone) and `OpenerStep` (each action is one of the five that change reservations, or
leaves them alone). Each conjunct is then preserved by case analysis over those
few shapes. `RefinementCorrect` proves the refinement of `HidSessions` from the same
lemmas.

Assumptions: those of `DeviceManager` on its constants (`None` is no token, the bounds
are numbers, the modes are modes). Nothing bounds the sets.

The module goes on to prove `CapabilityCurrent`, `HotExact`, `DisconnectIsolated` and
`EndsAlone`. `CapabilityCurrent` is preserved by every step once types are
known and tokens are minted once (`TokenOnce`). `HotExact` is not: `ClientEof` takes the client's sink and bindings
away and later closes its sessions one by one, each time calling `refresh_nm_hot`, so the proof
needs that a client which is draining closes only sessions it owns (`DrainOwned`),
and `ClientConnect` adds a sink without a refresh, so it needs that a client which is
not there owns nothing (`NewOwnsNothing`). `TransportInv` is `IInv` with these. The
case analysis is `TransportStep`; the two action properties follow from it, since a
step that touches a capability names the one connection or session it is about.

The module also proves `HeldOnce`: what leaves the map is held by exactly one
thread until it has joined it. It is the property nearest to a double join or a
leaked reader. `LifetimeInv` adds to `IInv` that an `open()` under construction has a
lifetime just as far as its opener (`OpeningPhase`), so that what it discards is its
own; that a lifetime is live exactly while it is published, under one device
(`LiveIffPublished`), so that a removal takes an Entry nobody holds; that a thread
holds only where its program counter says so (`HoldLocal`); that a thread joins only
what was told to stop (`JoinsStopped`); and, as one statement over the clients, event
tasks and readers together, `HoldsExact`. Each step keeps the holds, publishes, takes or
drops (`LifetimeSection`), and the invariant is preserved by these four shapes.

`CountExact` is proved from `CountInv`. What a teardown has yet to take off the counter is written
as a set, a pair for each debtor and each session it owes (`Owed`), so that the sessions a
locked section removes and the debts it creates are disjoint unions and their sizes add up.
The invariant adds `OwesLocal`: a thread owes only between its locked section and its update
of the counter. It rests on `LifetimeInv` because a reader is created
by `OpenBuild` and must owe nothing then, which needs that the token's lifetime is just as far as
its opener (`OpeningPhase`). `Accounts` sorts the steps: a step registers or removes sessions and
settles at once, leaves a debt, pays one, or touches neither. `NeverUndercounts` follows, which is
what a reader relies on that skips the broadcast.

Only the liveness properties of the core are model-checked alone.

### What the code does not promise

Two documented promises are not kept, and no property states them. docs/ARCHITECTURE.md:179
lets an Entry go only when its last session ends or its device fails, but both
`relay_client_event` (client.rs:287) and `detach_dead_reader_lifetime`
(device_mgr.rs:467) end a lifetime by device id: a `DeviceDisconnected` queued before
the device came back, and a reader that fails after its lifetime was closed, both
take out the lifetime opened after it. The model takes these steps (`RelayDisconnect`
after `Replug`, `ReaderDetach` of an older lifetime), and every property above holds
with them. A waiter woken by a successful open may find the Entry closed again and
report a failure (`WaiterFail`).

Nor does a WT task end with its session: it may wait for its peer's stream, or for a writer whose
peer does not read, for as long as the peer likes. Its capability is revoked then
(`CapabilityCurrent`), it is not served (`RevokedIsNotServed`), and when it does return, its late
disconnect changes nothing (`DisconnectIsolated`).

## 4. The background's ownership of sessions

`BackgroundOwnership` models the addon's background page between its bridges and
the daemon. The page is one event loop, so there are no data races; what is hard is
that every handler reads the ownership maps, awaits the daemon or the grant store,
and writes them afterwards, while frames, bridges, tabs, grants, devices and the
port itself come and go.

| Code | Model |
|---|---|
| the origins store (`storage.js`) | `granted`, pairs of origin and device |
| `bgState.deviceTabMap` | `tabCount`, opens counted per device and tab |
| `bgState.deviceSessions` | `owner`, a device and a frame per token; a frame stands for itself and its polyfill client |
| `bgState.frameLifetimes` | `frames`, active or retired (generation 0) |
| `bgState.orphanCleanup` | `orphans` |
| a bridge's control queue (`pumpControlQueue`: one request at a time) | `ctl[b]`: the handler's program counter and its locals |
| the loop of `revokeDevices`, started by the popup, the device list or a page | `revoke[r]` |
| promises that an event has settled and whose continuations have not run | `ready`; `Quiet` says there are none and the loop may take its next event |
| `nm.js`: port, pending requests, deadlines | `port` and `epoch`; a request is pending while it is `live`; `TimeOut`, `PortLost`, `Connect` |
| the native-messaging pipe, both ways | `toDaemon`, `served`, `toAddon`, in order; a loss of the port empties them |
| the daemon, as far as its client can tell | `opened` (token, device, connection), `served` (an answer made but not yet queued), `notices` (removals whose event is not sent yet) |
| the content script's side | `link`, `frameState`, `held`, and `duty`, the sessions it got too late and hands back (`cleanupSession`) |

An `open` is `OpenRequest` (lifetime registered, grant looked up), `OpenForbidden` or
`OpenSend`, the daemon's `DaemonServe` and `DaemonAnswer`, `Receive`, `OpenAnswered`,
then `OpenRegister` if the grant and the frame's lifetime are still there and
`OpenCleanup` if not. `closeForCleanup` is split where it awaits: `Cleanup` (the
request, with what it read before the await) and `AfterCleanup` (owner dropped, orphan
added or removed). `FrameDestroyed`, `BridgeGone`, `TabRemoved`, `RetryOrphans`,
`OpenCleanup`, `CleanupSession` and the revocation are built from the two. An answer,
a deadline or a lost port settles promises; their continuations (`Resume`) all run
before the next event. The daemon's request loop is sequential, but its event task
may queue a `DeviceDisconnected` between a request's effect and its answer.

Abstracted: report and data-plane requests, the device cache and its enumerations
(module `NmPort`), storage operations as atomic steps between awaits, the identities
of workers within a frame. A close of a session the frame does not own is refused
and changes nothing, so it is no action. A token nothing in the system mentions any
more may be minted again: the daemon's own tokens never repeat, so this only keeps
the model finite. A request a bridge posted just before its tab closed may still be
handled after `TabRemoved`, as messages and tab events are separate queues.

### Runs

| Run | Instance | What it shows |
|---|---|---|
| `bg_sessions` | 1 tab, 1 bridge, 2 frames of different origins, 1 device, 2 tokens, 1 revoker, one lost port (closed or a host switch) | a session without its grant, or without its document, is on its way to being closed at every moment; the end of one frame closes nothing of its sibling's; every session the daemon holds for the connection that is up is owned, an orphan, being opened or being closed; nothing owned belongs to an earlier connection |
| `bg_live` | 1 frame, 1 token, one lost port, one removal, one timeout | every control request is answered, orphans drain, the sessions of a gone bridge end in the daemon |

Bounds. Two frames of one bridge share a tab and so a count; different origins let
a revocation hit one of them only. Two tokens give a session that is ending, or an orphan, and
its successor. `MaxOpens`, 1 in both runs, bounds the opens a tab is counted for when it opens
again: the count can grow without limit, because a session handed back by
`cleanupSession` is closed but stays counted. Siblings that are both counted for a device
are left to the theorems, which have no bound and cover the five invariants of `bg_sessions`.
`MaxFlight` bounds only when an orphan retry or a revocation starts, since those are not limited
by the bridges' one-at-a-time queues. `MaxLosses`, `MaxGone` and `MaxTimeouts` are one
each where they are on, removals in `bg_live` only; the second loss of a port starts from the state the first left,
with every ownership map empty. Tokens are symmetric in `bg_sessions`. Timeouts
are off in `bg_sessions` because an open that succeeds after its deadline breaks
`NoLostSession` (below).
`CHECK_DEADLOCK` is off because a run may end with its tab closed.

Fairness (`FairSpec`). Weak fairness on what runs by itself: continuations, the
daemon's request loop, its answers, its notice of a lost connection and its
event task. Strong fairness on the background's steps that wait for `Quiet` (a
message received, the reconnect timer, the orphan timer, a handler's own
continuation after a storage await): other events disable them again and again for
the length of one task, but the loop's queue is first in, first out, so none is
passed over for ever. The retry timer is modelled as in the code, an interval that
never stops. Nothing the pages, the user or the hardware decide is fair.

### Proofs

`BackgroundOwnershipProofs` proves `RevokedIsClosing`, `RetiredIsClosing`, `PurgeOnlyRetired`
and `OwnedByConnection` for any sets of tabs, bridges, frames, devices, tokens and revokers,
any number of losses, removals and timeouts, and queues of any length. None of the four is
inductive. The danger they all share is a session that gets its owner late: between the
daemon's answer and `OpenRegister` the grant may be revoked, the frame die, the bridge go, or
the port be lost, and whatever the background did about its sessions then did not see this
one. `OwnershipInv` says why that does no harm.

- `Fresh`: a token on its way to its owner is in one place only (an answer in one queue, or
  the open that looks at the grant again), and nothing the background knows mentions it: no
  owner, orphan, bridge that hands it back, revoker's list or close in flight. So no close that
  is under way can hit a session registered later.
- `Connected`: what has an owner, or is offered one, is of the connection that is up. An open
  that survived the loss of its port finds its frame's lifetime gone, and is not registered.
- `Ending`: what must end has a close in flight that ends it whatever the answer is (`Dying`,
  any close but the page's own, which leaves the session with its owner when it is
  refused), or is on a revoker's list. A close captured that its session had an owner
  before its await, and the owner is dropped after it.
- `Handlers` and `Shape`: a handler asks for its own bridge's frames; a revoker has tokens on
  its list only between two closes.

The steps are sorted once by what they do to the calls in flight: one is sent, one is
answered, one moves from queue to queue, or all stay (`Crosses`). Each conjunct is kept by
these shapes (`FreshKept`, `ConnectedKept`, `EndingKept`), and a handler is proved by naming
its shape (`SendKept`, `AnswerKept`, `MoveKept`, `CalmKept`, `PurgeKept`). The one assumption
about the daemon is its own: a token it mints is mentioned nowhere in the system.

The assumptions are those of the module: `BridgeOf`, `TabOf` and `OriginOf` are functions,
and `None` is none of the model's names.

`BackgroundSessionsProofs` proves that `NoLostSession` holds in every state until a request
times out, under the same assumptions. The hypothesis is the one under which the
property is true (the last point below), and it is about the run, not about the
constants: any number of deadlines may come later. `OwnershipInv` says nothing of what the
background forgets, and forgetting is what loses a session. `SessionInv` adds why each
time is harmless.

- `Confirmed`: a close that was answered with success has ended its session, so the owner
  or orphan dropped after it is of a session that is no more.
- `Young`: `clearDeviceOwnership` drops every session of a device when the event of its
  removal is received, which may be long after the daemon queued it. A session of the
  device that is open then was opened after the event was queued, so its answer is
  behind the event in the pipe, and it has no owner yet.
- `Counted`: a bridge has as many requests in the queues as its handler waits for, and
  of the kind it waits for. So the answer to an open never finds its handler elsewhere,
  where the token would be thrown away, and no answer of an earlier request is
  taken for that of a later one, nor for the last of a purge.
- `Devices`, `Opened`, `AllLive`: everyone who knows a session knows its device; no session
  is of a later connection than the port; no request in flight has been given up.
- `Answered`: what `NoLostSession` says, with `Dying` in place of `Closing`, since the
  page's own close may be refused.

One lemma (`SessionsKept`) says what a step must show; the shapes of the first proof are
used again, with the requests of each bridge counted before and after (`LoopKept`,
`AnswerHolds`, `MovesCounted`).

Only model-checked: the liveness properties. `TypeOK` is in no run; the parts of it the proofs need are in `Shape`.

### What the code does not promise

- A tab's count can miss a session it holds. A revocation (messages.js:96) and the close
  or purge that follows it (state_ops.js:293) each take the same open off the count of
  the device, so a sibling's open is no longer counted, and the tab no longer gets the
  events of that device.
- A device removed during the await of an open: `clearDeviceOwnership` runs before the
  open registers its session (messages.js:310 and 328), and the background then owns a
  session the daemon has ended. `OwnedByConnection` speaks of connections only.
- An open that succeeds in the daemon after its 30 s deadline (nm.js:202) leaves a
  session nobody owns. That is why no timeouts are in `bg_sessions`.

## 5. One device's data plane

`PolyfillDevice` is the page's end of one device (`content/main/index.js`),
`BridgePlanes` the bridge's (`content/isolated/bridge.js`), and `PagePlanes` puts the two
together with the background, the workers and the transports as their environment.
A plane is native messaging (NM), a worker or an in-page transport. Its life is a
sequence of generations (`spawnGen`), and every message names the generation it is
about, because any of them may arrive after the plane it speaks of was replaced.

| Code | Model |
|---|---|
| an `HIDDevice`: its flags, generation, `dataPending`, its `open()` and `close()` calls | `d`; calls in `d.open`, `d.close`, reports in `d.report` |
| the page's worker, in-page transport and spawns awaiting Trusted Types | `d.worker`, `d.plane`, `d.spawns` |
| the MessagePort of the frame, both ways | `toBridge`, `toPage` (first in, first out) |
| reports and results on data ports | `onPort` |
| `spawnGen`, `planeReadiness`, `readyGenerations`, the waiter of `waitDataPlaneReady` and its timer | `b.gen`, `b.readiness`, `b.ready`, `b.waiter`, `b.timers` |
| `workers` and the page-spawn record, in-page flag, `nmPlanes`, data ports | `b.worker`, `b.record`, `b.inPage`, `b.nm`, `b.ports` |
| the runtime data port, what keeps it, its pending requests | `b.runtimePort`, `b.tries`, `b.pending` |
| the serialized control port | `b.control` |
| an async function between two awaits | a task: `pc` is where it continues, `ret` the awaits of its callers |
| sessions in the background | `bg.live`, events on their way to the bridge `bg.events` |

A stretch of bridge code between two awaits is one step: an operator from the bridge's
state to the state it leaves, which also collects what was posted (`out`, and `late`
for the continuations of promises it resolved). A task that may continue does so before
the next message (`Settled`), as microtasks do. `despawnDataPlane` and `spawnDataPlane`
are split at each await, and the tail of a despawn clears the maps of whatever
generation is then current, as the code does.

Abstracted: report data, the addresses and hashes of transports, several frames or
workers that share a plane, the shadow arm of a spawn (a spawn succeeds or fails).
What the background does with a session is `BackgroundOwnership`'s matter: here it grants
a new token, refuses, or ends one.

### Runs

| Run | Instance | What it shows |
|---|---|---|
| `pp_switch` | one open and one close, worker or in-page at the start, one change to NM or worker, one failure, one request timeout, 1 token, 3 tasks | readiness is of the current generation; nothing names a generation that has not begun; page and bridge agree on readiness; no session, token or worker is left behind |
| `pp_live` | one open, one report, one failure, one loss of the device or its grant, two timers that expire | every open and report is settled; what stays open has its session |

Bounds. One failure and one change of mode meet at every point of an open and a close,
which is where the code's generation checks are. Three tasks are an open or close, a
recovery or switch, and the end of the frame; a message waits while none is free. One
token is enough because a device is opened once here; successive sessions are
`BackgroundOwnership`'s and `DeviceManager`'s. The 1.2 million states of `pp_switch` are the
largest instance that is checked in minutes. `CHECK_DEADLOCK` is off because a run may
end with every call made.

Fairness (`FairSpec`). Weak fairness on the delivery of messages, the continuations of
tasks, the background's answers, a worker that becomes ready, the answers to reports and
the bridge's timers. Nothing the page, the user or the hardware chooses is fair, and no
failure is. `OpenSettles` and `ReportSettles` are checked without the page's own 30 s
limit, so it is the bridge that must settle them.

### Proofs

`PagePlanesProofs` proves `ReadyIsCurrent`, `NoFutureGeneration` and `TypeOK` for any sets of tokens and
tasks and any number of opens, closes, changes of mode, failures, losses and expired timers.
The inductive invariant is `PlaneInv`:

- `ReadyInv`: a ready plane is the one of the current generation and both its ends have said so.
  `markPlanePrerequisite` keeps it although its callers pass a generation they read before an
  await, because it compares that one with `planeReadiness` and `spawnGen`. A waiter has its timer.
- `Calls`: the bridge is typed by its own generation. Every generation a task, a port, a timer or a
  record keeps is between 0 and `spawnGen` (`Past`), and a queued request has
  a task that waits for its answer (`Queue`), so that an answer always continues somewhere.
- `Named`: the page, and every message and port between the two, keeps to the same horizon.
- `Posted` and `Events`: a step leaves nothing unsent, and the background sends its two events only.

The horizon moves: a spawn begins a generation while older ones are still named. The invariant
survives because `spawnGen` never decreases, so what was typed stays typed (`Widen`). The
bridge's code is one operator per function, and the proof has one lemma per operator: it keeps the
type, keeps the readiness and does not lower the generation. `RunsLeft` lifts a stretch of
code between two awaits to the step of the whole system, and `PlaneSteps` collects the
actions. `NoFutureGeneration` is what the code's many comparisons with the current
generation rest on: a despawn clears every map of the plane but `spawnGen` (bridge.js:679-694), and
were it cleared too, the next plane would be given a number that an old answer still names.

The assumptions are `BridgeAssumption` and `PageAssumption`, on the kinds of the constants.
`PageReadyIsReady`, `SessionsAgree`, `NoOrphanWorker` and `OpenHasSession` are model-checked only: the
next paragraphs say where each stops holding beyond the bounds of its run. `OpenSettles` and
`ReportSettles` are liveness properties.

### What the code does not promise

- A second `waitDataPlaneReady` of a generation overwrites the first one's waiter
  (bridge.js:1398). One of the two may then never be answered, and the page waits for its
  own limit. The page's one open at a time keeps it from happening here.
- Two changes of mode in quick succession leave two respawns of one plane under way: the
  tail of the first despawn clears what the second spawn wrote. The run has one change,
  and `PageReadyIsReady` speaks of one.
- Of two closes in flight, the second fails and puts the token it was sent with back
  (bridge.js:2215), although the first has ended that session, and the bridge keeps it. `SessionsAgree` speaks of one close.
- A loss is told to the bridge by an event without a token. When it arrives after a newer open, the
  bridge drops the newer session and does not hand it back. `SessionsAgree` speaks of the
  runs without a loss.
- A worker or an in-page transport that comes up after the bridge's 10 s timer has given
  up on it (bridge.js:1046, 1216) may run on without a record.
- A worker transport that fails during the open makes the bridge undo the open instead of
  falling back to NM (`handleWorkerErrorEvent`, bridge.js:1584), where
  docs/ARCHITECTURE.md:226 says it falls back.
- The page gives up on a request after 30 s while the bridge goes on; `PageReadyIsReady` and
  `OpenHasSession` therefore speak of requests that were not given up.

## 6. Documents, ports and worker clients

`FrameContexts` models how the documents that follow each other in a window get their port
to the bridge (`bootstrap-lifetime.js`), the frame contexts the bridge keeps for them,
and the page-created workers that have the polyfill too. The gate cannot see who posted
an offer: it knows only which document the window has now. Hence the probe, a
challenge that only a living document can answer.

| Code | Model |
|---|---|
| the window: its document, the ports it offered, its workers | `page` |
| the offers posted to the window, the messages on each port | `posted`, `toBridge`, `toPage` |
| the gate: transition, target, candidates, cleanup of the predecessor | `b.on`, `b.serial`, `b.target`, `b.cands`, `b.clean` |
| `frameContexts`, the window's source | `b.ctx`, `b.source` |
| worker clients and their sessions | `b.client`, `b.session` |
| the control queue and the background's sessions | `b.control`, `bg.live` |

`tryPromote`, `addCandidate`, `startTransition` and `handleBootstrap` bear the code's names and
its early returns. The run `fc_frames` has three documents, three ports, one worker, one
token and one polyfill that answers late. Three documents are what it takes for an
offer of the first to be handled while the third is there; three ports let one document
offer twice. Fairness: messages are delivered, requests served, deadlines kept, and a
polyfill answers its probe. Nobody has to offer, navigate or call.

It shows that each document has one port at most, its own; that a session opened through
a worker has a registered client or a request on its way that ends it; and that no
document waits for ever.

`FrameContextsProofs` proves `OnePortPerDocument` and `NoLostSession` for any number of documents,
offers, workers and tokens, and no bound on the queues but the model's own guards.
Neither is inductive. For the first, `PortsInv` adds to the types:

- `ContextsOK`: a context has the document that posted its port, no two have the same, the
  document in the window has the one that is the source, and during a transition
  neither the target nor the document in the window has one.
- `CandidatesOK`: a candidate has no context yet, and one that answered its probe, or
  still may, is of the target. This is where the probe earns its keep: the gate
  compares no document, it only relies on a document that left being unable to answer.
- `PurgesOK` and `OffersOK`: the source is live and what is being purged is not; a port whose
  offer has not arrived is unknown to the gate and is offered once.

For the second, `FramesInv` adds who answers for what: a session of the background is
that of a registered client or of a request on its way that ends it (`AllCovered`); a
client has a live context and its session is one of that context (`ClientsOK`); a worker has
one call at a time and no session before it opened one (`CallsOK`); a request that ends a
session names the one its worker has, and is served before the worker's next open
(`EndsOK`); tokens are not reused (`TokensOK`); nothing is known or asked of a worker whose
announcement is on its way (`WorkersOK`, `AnnouncedOK`). Without `EndsOK` a late `drop` could
close the session of the next open, without `AnnouncedOK` an announcement that arrives
late could register a worker twice. TLC found both invariants to hold on the instance of
`fc_frames` before they were proved. The bridge is one record that several operators
pass on (`tryPromote`, `addCandidate`, `failTransition`, `destroyFrameContext`), so each operator has a
lemma of its own that says what it keeps (`GateInv`), that it ends no context or session
(`Grows`) and which ports it may make known (`Leaves`). Serving the head of the control
queue is split by the request's kind. The first candidate that has not expired exists
because every non-empty set of numbers has a least element, which the library proves for
`Nat`. The assumption is `FrameAssumption`, on the kinds of the constants. `OfferAccepted`
is a liveness property and only model-checked.

Not promised: a living polyfill that answers its probe after the deadline is never
connected (bootstrap-lifetime.js:122), which is why `OfferAccepted` excludes it. A worker
that ends by itself is never reported (main/index.js:2192 and 2208 are about `terminate()`
only), so its session stays until its document goes.

## 7. The worker's transport

`WorkerTransport` models the plane's worker (`worker/index.js`) over its WebSocket
(`websocket.js`) or WebTransport (`webtransport.js`): requests queued while it is not connected, sent and
pending while it is, rejected when it is lost; connections that fail, are refused and are
tried again.

| Code | Model |
|---|---|
| the worker's queue and pending requests, what it told the bridge | `t.preOpen`, `t.pending`, `t.told` |
| the transport's fields | the other fields of `t` |
| the authentication second and a timer left from the attempt before | `t.auth`, `t.orphan` |
| two names for connections, the current one and the one before | `net`, and the events still on their way, `ev` |

A name is taken again when its last connection has nothing left to say, so two serve any
number of reconnections. The run `wt_requests` has two requests, a queue of one and both
kinds of transport. Fairness: timers fire, connection attempts and streams settle, events
arrive. It shows that the transport never stops in silence, that no request waits for a
dead connection, and that every request is replied to or the bridge is told.

Not promised: the authentication timer of a failed WebTransport attempt is not cleared
(`failTransport`, webtransport.js:91) and may end the next attempt's second early, so a refused
token may look like a lost connection. The handlers of a WebTransport do not ask which
connection they belong to, so a late event of an old one acts on the new one; the model
takes these steps and the properties hold with them. A request queued before the
connection has no deadline of its own: it is settled by the connection's fate.

`WorkerTransportProofs` proves `NeverIdle` and `PendingIsAnswerable` for any number of requests
and any queue. Neither is inductive. `PendingIsAnswerable` fails at first sight in
`WtClosed`: a close event is consumed by a WebTransport that ignores it, and the
requests of that connection would be forgotten. The invariant `IInv` excludes it: a
transport whose close was handled has no connection and no writer and has rejected
what it waited for (`Shut`), and the writer is of a connection whose end is still to be
heard of (`Answerable`). `Trying` says the same for the timer: trying ends only when the
bridge has been told. One lemma per operator says what the operator returns; every action
is then one of three shapes, a connection taken (`DoConnectInv`), kept
(`LinkFromInv`) or given up (`CutInv`). The assumption is `TransportAssumption`, on the
kinds of the constants. `RequestSettles` is only model-checked.

## 8. requestDevice and grants

`PickerFlow` follows a call of `requestDevice` from the page through the bridge to the chooser
(the modal one in the page's own tab, or a page of the extension) and back, and the grant
through every place that keeps it: the background's store, the bridges'
`allowedByOrigin`, the page's list of paired devices.

| Code | Model |
|---|---|
| a call, the page's side and the bridge's | `q` |
| frames that were destroyed | `gone` |
| the control port of each bridge and the request served | `ctl`, `srv` |
| grants in IndexedDB; `allowedByOrigin` and `loadedOrigins`; `pairedDevices` | `store`; `allowed`; `paired` |
| messages of the background to each tab | `news` |
| the modal dialog, with its return value and its close events | `dlg` |
| `pendingPicker` in insertion order, chooser pages, results on their way | `bgp`, `pk`, `res` |
| revocations, failed writes and calls so far | `hist` |

The device that matches a request's filters bears the request's name, so an answer of the
wrong device can be told. The run `pk_tab` has two requests of an embedded frame of
another site, either chooser, one listing and one revocation; requests are symmetric. Two
requests are what it takes for a result, a dialog or a pending record to be another's.
It shows that a page is answered by the chooser of its own request (extension page), can
open the device it was given, and does not go on with an older list.

`PickerFlowProofs` proves `AnsweredByOwnChoice` for any number of requests, frames, tabs and
revocations. It speaks of what the page got; `ChoiceInv` bounds it from the moment of
the choice on: what a chooser page reports names the request whose list it was
chosen from (`OwnResult`), what is selected and granted for a request with a page is of its
own list (`OwnAnswer`), and the modal chooser of a tab resolves modal requests only
(`ModalOnly`). The last is needed because a dialog resolves every request that waits for
it with the same devices.

`GrantedIsAllowed` and `GrantIsListed` are proved from `GrantInv`, for any number of tabs as well;
the run's instance has one tab, so the order in which tabs are told is the proof's alone.
The heart of the invariant is what becomes of one grant:

- Once it is stored (`Storing`), the message that tells the tabs of it goes from tab to tab, and
  a message made without the grant is always in a tab that is told later, or ahead of it in
  the same queue (`Overtaken`). When the last tab has heard it, none of these is left
  (`NoneMisses`), and only then does the bridge get its answer.
- From there on the grant is secure (`Secure`): it is stored, no message on its way lacks it,
  and neither does the answer the background has ready for that bridge (`Answering`). The
  bridge loads the grants again before it answers its page, which is why the page's
  devices are among them (`Secured`), and whatever the bridge hears later keeps them.
- `Messages` ties each question about a grant to its request: the request waits for it
  (`pairing`, then `loading`), asked for that site, and selected nothing else. `Told` says that
  a tab's grant has one message on its way at a time, and `WithTop` that the frames of a tab
  go with its top frame, whose end takes the bridge's tables with it.

A revoked grant and one whose write failed are outside of it (`Kept`), as they are outside
of the two properties (`Lasting`). `GrantsKept` reduces the invariant to what a step does to the requests,
the questions and the tables, and each step of `Next` has a lemma that says so.

Not promised, and left out of the properties:
- The modal dialog's `returnValue` stays "selected" after a choice (picker/index.js:70): a
  later dialog dismissed by a click beside it can return what is ticked, where
  docs/SPECIFICATION.md:241 asks for Connect. `AnsweredByOwnChoice`
  speaks of chooser pages.
- Two modal requests that overlap: the first never settles.
- `getPendingPicker` shows the first pending request of any tab, and a second result deletes
  a newer pending record of its tab.
- A frame that is destroyed while its choice is stored has the grant stored for the
  top document's origin (bridge.js:1650).
- `pairDevice` that fails is not noticed by the bridge (bridge.js:2091): the page is
  given a device it cannot open. `Lasting` leaves these out.

## 9. The permissions policy of frames

`FramePolicy` models the "hid" permissions policy of nested frames: recorded by the background
from the headers of each navigation before the document has an id (`webrequest.js`),
given to the document that asks (`messages.js`), with the `allow` attribute the bridge
looked up for it (`bridge.js`).

| Code | Model |
|---|---|
| documents of the frames, navigations under way | `doc`, `nav` |
| `permissionsPolicy`, by frame and document, 0 for a document to come | `store` |
| `frameDelegations` | `deleg` |
| `handleGetPolicyRequest` between its awaits, the answers | `asks`, `ans` |

The run `fp_policy` has three nested frames, two origins, six declarations (none, one for the
document itself, one for another origin, an empty one, two at once, and two that may spell one
origin differently) and three navigations: enough to load every frame once, or to reload
one under the others. The reference, `AllowedFrom`, is written from declarations alone.
`AnswerIsPolicy` compares the answers with it for documents whose frames start no navigation,
in two parts. Always, a document is allowed only if its own declarations, those of the document
it is in, and the delegation permit it. While every load is the first of its frame
(`loads = Cardinality(Opened)`), the answer is the policy of the whole chain of documents:
allowed only if all permit it, and allowed what they permit in declarations that spell
each origin alike (`Unmixed`).

The whole chain is not promised after a reload. The run `fp_ancestry` checks `DenyDominates`,
what a test says (tests/browser/permissions-policy.spec.ts:221): what an ancestor's
`hid=()` denies is not granted below it. It needs four navigations and is violated. The old
top document asks between the headers and the commit of a reload and takes the record that
waits for the new document's id (messages.js:963-970). The new document has no record, so a frame
in it inherits everything (webrequest.js:602); it is denied itself, because its parent's record
is missing, but a frame in it finds the record of its direct parent, and is allowed.
An attempt to prove `AnswerIsPolicy` for the whole chain led to it: the invariant
about the records did not survive that step.

### Proofs

`FramePolicyProofs` proves both properties of `fp_policy` for any number of frames, origins,
declarations and navigations. The assumption is `PolicyAssumption`, on the kinds of the
constants: no origin is one of the words "self", "*" and "malformed".

`OneRecordPerFrame` is not inductive: answering a question may give the record of
a document to come its id, or record a delegation, and either could be a second one of its frame.
`RecordInv` adds what excludes it: a delegation is kept only with the record of
its frame, and from a navigation's request to its headers the frame has no
record. `NextRecord` preserves it action by action; the lemmas on `Adopted` and
`Entries` say once which keys they leave.

`AnswerIsPolicy` speaks of answers, and an answer is made of records that were made of other
records when the headers arrived. `AnswerInv` follows that chain:
- `Shape`, `Ids`, `Questions`, `Delegations`: a document to come has an id nobody knows, so
  what is kept under a document's id is about that document.
- `Content`: a record of a frame is that of its present load (`Load`): its origin, the key of
  its parent, at most what its own declarations list. It took its origin from the parent's
  record, and that record still says so *if there is one*: it may be lost, which is what the run
  above shows. `Near` follows from it, and is the first part of the property.
- `Count`: loads are at least the documents and the navigations under way. `Clean`, when they
  are as many, says that no load was lost; a step that makes the state clean started in
  a clean one (`NextCount`), and there a commit finds no frame below. Under it only documents of
  now ask (`Asked`), every load has its record, with exactly what the chain permits
  (`Recorded`), a question that is answered has its delegation (`Delegated`), and the answers are
  those of the chain (`Full`).
`ListedLists` and `ListsListed` connect what `intersectAllowlists` finds with the reference:
it never finds more than the declarations list, and no less if these are `Unmixed`.

Not promised: a navigation that is aborted (a download, a stopped load) has already
cleared the policy of the document that stays (webrequest.js:796), which is denied from
then on; `Untouched` leaves it out. Only the iframes of the top document are searched
for `allow` (bridge.js:1860, where docs/SPECIFICATION.md:249 makes no such limit), so a deeper
frame of another origin is never delegated to; the reference says so by `hasHidDelegation`.
As in the code, a delegation is asked of the frame that asks and not of the frames above it: a
frame that shares the origin of its parent is not denied because its parent was not delegated to.
Of several declarations, "self" and the same origin written out have no common member
(`intersectAllowlists`, webrequest.js:521), so that such a document is denied what each of them
lists; the reference's `Lists` takes each declaration by itself, and `Unmixed` leaves the
denials of these documents out. A redirect is a new `BeforeRequest`.

## 10. Not modelled

- Device I/O and input fan-out of the daemon, the batching sender, WT certificate rotation,
  the native port's back-off, the enumeration diff: state machines of their own, steps 8
  to 10 of the plan. The hazards list what is at stake in each.
- Report blocking, the enumeration filter and blocklist, the descriptor parser, framing and
  TLV encoders, base64: pure functions over data, to be compared with reference
  definitions over bounded inputs (step 10). The parser has tests of its own and comes last.
- The native-messaging forwarder, settings and start-up of the addon, shadow arms of the request
  rewriting: planned in step 10. In the present models the forwarder is part of a
  first-in, first-out port that may be lost, and a shadow spawn succeeds or fails.
- The Content-Security-Policy rewriting, the injected bootstrap text, locales, logging
  and the pages' layout: text and presentation.
- Peer verification, the socket path, single-instance start-up, debug dumps: calls of
  the operating system without state of their own. The mock devices are a test tool.

Liveness is model-checked only, everywhere: it rests on fairness, which is out of the
prover's reach. So is what a fold or another recursive definition computes for
every input: its theorems take an operator as a parameter, which the provers cannot
instantiate. Where a proof needs an induction over numbers, a least element does
instead (`FrameContextsProofs`). The type invariant `TypeOK` of `PagePlanes` is in no run: it is proved
(`PlanesTyped`), and `ReadyIsCurrent` and `NoFutureGeneration` of the same invariant are checked.
