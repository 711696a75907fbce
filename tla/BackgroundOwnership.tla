------------------------- MODULE BackgroundOwnership -------------------------
(***************************************************************************)
(* Who owns which daemon session: the background page of the addon         *)
(* (background/messages.js, state_ops.js, nm.js).                          *)
(*                                                                         *)
(* The background is one event loop.  A handler runs until it awaits the   *)
(* daemon or the grant store; the promises a message settles are resumed   *)
(* one after the other (`ready`) before the loop takes another event.      *)
(* Each bridge (one per top-level document, with a context per frame) has  *)
(* one control request in flight at a time.  The daemon, at the other end  *)
(* of the native-messaging port, serves requests in order; it may lose     *)
(* devices, and the port itself may be lost with everything in it.         *)
(***************************************************************************)
EXTENDS Integers, Sequences, FiniteSets, Functions, SequencesExt

CONSTANTS
    Tab, Bridge, Frame, Origin, Device,
    Token,       \* session tokens: the daemon mints each once
    Revoker,     \* pages that can revoke a grant (popup, device list, a page's forget)
    None,
    BridgeOf,    \* the bridge a frame's port was accepted by
    TabOf,       \* the tab of a bridge
    OriginOf,    \* the origin of a frame
    MaxOpens,    \* bound on the opens a tab is counted for when it opens a device again
    MaxFlight,   \* bound on the requests and answers in flight when a retry or a revoke starts
    MaxLosses,   \* bound on the times the port is lost
    MaxGone,     \* bound on the device removals
    MaxTimeouts  \* bound on the requests that time out

ASSUME ShapeAssumption ==
    /\ BridgeOf \in [Frame -> Bridge] /\ TabOf \in [Bridge -> Tab] /\ OriginOf \in [Frame -> Origin]
    /\ None \notin Token \cup Bridge \cup Revoker \cup Frame \cup Device
ASSUME BoundsAssumption ==
    MaxOpens \in Nat /\ MaxFlight \in Nat /\ MaxLosses \in Nat /\ MaxGone \in Nat /\ MaxTimeouts \in Nat

VARIABLES
    \* bgState and the grant store
    granted,    \* <<origin, device>> pairs in the origins store
    tabCount,   \* deviceTabMap: <<device, tab>> -> number of opens
    owner,      \* deviceSessions: token -> owner
    frames,     \* frameLifetimes: frame -> active, or retired (generation 0)
    orphans,    \* orphanCleanup: token -> device
    \* the event loop
    ready,      \* settled requests whose continuation has not run yet
    ctl,        \* control request of each bridge
    revoke,     \* revocations in progress
    \* the native-messaging port
    port, epoch,
    toDaemon,   \* requests on their way to the daemon
    toAddon,    \* answers and events on their way back
    losses, timeouts,
    \* the bridges
    link,       \* control port of each bridge
    frameState, \* the bridge's context of each frame
    held,       \* the token a frame uses for a device
    duty,       \* sessions a bridge still has to hand back (cleanupSession)
    removedTabs,
    \* the daemon
    opened,     \* session token -> device and client connection
    served,     \* an answer that is not yet on its way
    attached, notices, gones

bgVars     == <<granted, tabCount, owner, frames, orphans>>
loopVars   == <<ctl, revoke>>
portVars   == <<port, epoch, toDaemon, ready>>
bridgeVars == <<link, frameState, held, duty, removedTabs>>
daemonVars == <<opened, served, attached, notices, gones>>
vars == <<bgVars, loopVars, portVars, toAddon, losses, timeouts, bridgeVars, daemonVars>>

-----------------------------------------------------------------------------
(* Requests, answers and the handlers that await them *)

Whys == {"open", "close", "late", "purge", "cleanup", "revoke", "retry", "event"}
CallRec == [op : {"open", "close", "gone"}, dev : Device, tok : Token \cup {None}, why : Whys,
            by : Bridge \cup Revoker \cup {None}, owned : BOOLEAN, live : BOOLEAN,
            status : {"none", "ok", "err"}]
OwnerRec == [dev : Device, frame : Frame]
CtlRec == [pc : {"idle", "grant", "opening", "recheck", "late", "closing", "purging", "cleaning"},
           frame : Frame \cup {None}, dev : Device \cup {None}, tok : Token \cup {None}, n : Nat]
RevokeRec == [pc : {"idle", "ungrant", "closing"}, origin : Origin \cup {None},
              todo : SUBSET Device, dev : Device \cup {None}, toks : SUBSET Token]

Idle == [pc |-> "idle", frame |-> None, dev |-> None, tok |-> None, n |-> 0]
NoRevoke == [pc |-> "idle", origin |-> None, todo |-> {}, dev |-> None, toks |-> {}]

TabOfFrame(f) == TabOf[BridgeOf[f]]
FramesOf(b) == {f \in Frame : BridgeOf[f] = b}
Put(f, k, v) == [x \in DOMAIN f \cup {k} |-> IF x = k THEN v ELSE f[x]]
Drop(f, S) == Restrict(f, DOMAIN f \ S)

TypeOK ==
    /\ granted \subseteq Origin \X Device
    /\ tabCount \in [Device \X Tab -> Nat]
    /\ DOMAIN owner \subseteq Token /\ owner \in [DOMAIN owner -> OwnerRec]
    /\ DOMAIN frames \subseteq Frame /\ frames \in [DOMAIN frames -> {"active", "retired"}]
    /\ DOMAIN orphans \subseteq Token /\ orphans \in [DOMAIN orphans -> Device]
    /\ ready \in Seq(CallRec) /\ ctl \in [Bridge -> CtlRec] /\ revoke \in [Revoker -> RevokeRec]
    /\ port \in {"up", "down"} /\ epoch \in Nat /\ losses \in Nat /\ timeouts \in Nat
    /\ toDaemon \in Seq(CallRec) /\ toAddon \in Seq(CallRec)
    /\ link \in [Bridge -> {"new", "up", "gone"}]
    /\ frameState \in [Frame -> {"alive", "dead", "reported"}]
    /\ held \in [Frame -> [Device -> Token \cup {None}]]
    /\ duty \subseteq Frame \X Device \X Token /\ removedTabs \subseteq Tab
    /\ DOMAIN opened \subseteq Token /\ opened \in [DOMAIN opened -> [dev : Device, epoch : Nat]]
    /\ served \in Seq(CallRec) /\ Len(served) <= 1
    /\ attached \subseteq Device /\ notices \subseteq Device /\ gones \in Nat

Init ==
    /\ granted = {} /\ tabCount = [k \in Device \X Tab |-> 0]
    /\ owner = [t \in {} |-> None] /\ frames = [f \in {} |-> None] /\ orphans = [t \in {} |-> None]
    /\ ready = <<>> /\ ctl = [b \in Bridge |-> Idle] /\ revoke = [r \in Revoker |-> NoRevoke]
    /\ port = "up" /\ epoch = 1 /\ toDaemon = <<>> /\ toAddon = <<>> /\ losses = 0 /\ timeouts = 0
    /\ link = [b \in Bridge |-> "new"] /\ frameState = [f \in Frame |-> "alive"]
    /\ held = [f \in Frame |-> [d \in Device |-> None]] /\ duty = {} /\ removedTabs = {}
    /\ opened = [t \in {} |-> None] /\ served = <<>> /\ attached = Device /\ notices = {} /\ gones = 0

\* The loop takes a new event only when no continuation is left to run.
Quiet == ready = <<>>

Call(op, d, t, why, by, owned) ==
    [op |-> op, dev |-> d, tok |-> t, why |-> why, by |-> by, owned |-> owned, live |-> TRUE,
     status |-> "none"]

\* closeForCleanup up to its await: the owner is captured before the close.
Cleanup(d, t, why, by) == Call("close", d, t, why, by, t \in DOMAIN owner)

\* sendFrame for each request in turn, after the continuations of `rdy`: the
\* first one that finds no port connects and is rejected.
Send(calls, rdy) ==
    \/ /\ calls = <<>> \/ port = "up"
       /\ toDaemon' = toDaemon \o calls /\ ready' = rdy
       /\ UNCHANGED <<port, epoch>>
    \/ /\ calls # <<>> /\ port = "down"
       /\ port' = "up" /\ epoch' = epoch + 1
       /\ ready' = Append(rdy, [Head(calls) EXCEPT !.status = "err"])
       /\ toDaemon' = Tail(calls)

\* The calls that cross the port, in the order they were sent.
Crossing == toAddon \o served \o toDaemon

Cleanups(S, why, by) ==
    {[i \in DOMAIN q |-> Cleanup(owner[q[i]].dev, q[i], why, by)] : q \in SetToSeqs(S)}

\* unregisterDeviceTab, once for each token of S.
Unregister(S, own) ==
    [k \in Device \X Tab |->
        LET n == Cardinality({t \in S : own[t].dev = k[1] /\ TabOfFrame(own[t].frame) = k[2]})
        IN  IF tabCount[k] > n THEN tabCount[k] - n ELSE 0]

-----------------------------------------------------------------------------
(* handleOpen *)

\* The bridge sends its next request.  One it posted just before its tab was
\* closed may still arrive.
Usable(b) == Quiet /\ link[b] = "up" /\ ctl[b].pc = "idle"
GoIdle(b) == ctl' = [ctl EXCEPT ![b] = Idle]

\* registerFrameLifetime succeeds, and the grant is looked up.
OpenRequest(f, d) ==
    LET b == BridgeOf[f]
    IN  /\ Usable(b) /\ frameState[f] = "alive" /\ held[f][d] = None
        /\ f \in DOMAIN frames => frames[f] # "retired"
        /\ tabCount[<<d, TabOf[b]>>] < MaxOpens
        /\ frames' = Put(frames, f, "active")
        /\ ctl' = [ctl EXCEPT ![b] = [Idle EXCEPT !.pc = "grant", !.frame = f, !.dev = d]]
        /\ UNCHANGED <<granted, tabCount, owner, orphans, revoke, portVars, toAddon, losses,
                       timeouts, bridgeVars, daemonVars>>

OpenForbidden(b) ==
    /\ Quiet /\ ctl[b].pc = "grant" /\ <<OriginOf[ctl[b].frame], ctl[b].dev>> \notin granted
    /\ GoIdle(b)
    /\ UNCHANGED <<bgVars, revoke, portVars, toAddon, losses, timeouts, bridgeVars, daemonVars>>

OpenSend(b) ==
    /\ Quiet /\ ctl[b].pc = "grant" /\ <<OriginOf[ctl[b].frame], ctl[b].dev>> \in granted
    /\ Send(<<Call("open", ctl[b].dev, None, "open", b, FALSE)>>, ready)
    /\ ctl' = [ctl EXCEPT ![b].pc = "opening"]
    /\ UNCHANGED <<bgVars, revoke, toAddon, losses, timeouts, bridgeVars, daemonVars>>

\* The daemon's answer: the grant is looked up a second time.
OpenAnswered(c) ==
    /\ c.why = "open"
    /\ ctl' = [ctl EXCEPT ![c.by] = IF c.status = "ok"
                                    THEN [@ EXCEPT !.pc = "recheck", !.tok = c.tok]
                                    ELSE Idle]
    /\ Send(<<>>, Tail(ready))
    /\ UNCHANGED <<bgVars, revoke, bridgeVars>>

\* Mutants: only the grant, only the lifetime is looked at again.
WantedByGrant(b) == <<OriginOf[ctl[b].frame], ctl[b].dev>> \in granted
WantedByLifetime(b) == ctl[b].frame \in DOMAIN frames /\ frames[ctl[b].frame] = "active"

\* Still allowed, and the owner still alive.
Wanted(b) ==
    /\ <<OriginOf[ctl[b].frame], ctl[b].dev>> \in granted
    /\ ctl[b].frame \in DOMAIN frames /\ frames[ctl[b].frame] = "active"

\* The bridge takes an accepted session, or must hand it back: its frame died
\* meanwhile, or its data plane cannot be set up.
BridgeTakes(b) ==
    LET f == ctl[b].frame  d == ctl[b].dev  t == ctl[b].tok
    IN  \/ /\ frameState[f] = "alive"
           /\ held' = [held EXCEPT ![f][d] = t] /\ duty' = duty
        \/ held' = held /\ duty' = duty \cup {<<f, d, t>>}

\* registerDeviceSession, registerDeviceTab and the answer.
OpenRegister(b) ==
    LET k == <<ctl[b].dev, TabOf[b]>>
    IN  /\ Quiet /\ ctl[b].pc = "recheck" /\ Wanted(b)
        /\ owner' = Put(owner, ctl[b].tok, [dev |-> ctl[b].dev, frame |-> ctl[b].frame])
        /\ frames' = Put(frames, ctl[b].frame, "active")
        /\ tabCount' = [tabCount EXCEPT ![k] = @ + 1]
        /\ BridgeTakes(b)
        /\ GoIdle(b)
        /\ UNCHANGED <<granted, orphans, revoke, portVars, toAddon, losses, timeouts, link,
                       frameState, removedTabs, daemonVars>>

\* Mutant: the session is not closed.
OpenCleanupForgets(b) ==
    /\ Quiet /\ ctl[b].pc = "recheck" /\ ~Wanted(b)
    /\ GoIdle(b)
    /\ UNCHANGED <<bgVars, revoke, portVars, toAddon, losses, timeouts, bridgeVars, daemonVars>>

\* Revoked, or the owner died, while the open was in flight.
OpenCleanup(b) ==
    /\ Quiet /\ ctl[b].pc = "recheck" /\ ~Wanted(b)
    /\ Send(<<Cleanup(ctl[b].dev, ctl[b].tok, "late", b)>>, ready)
    /\ ctl' = [ctl EXCEPT ![b].pc = "late"]
    /\ UNCHANGED <<bgVars, revoke, toAddon, losses, timeouts, bridgeVars, daemonVars>>

-----------------------------------------------------------------------------
(* handleClose *)

Authorized(b, d) == tabCount[<<d, TabOf[b]>>] > 0
OwnedByFrame(t, f, d) == t \in DOMAIN owner /\ owner[t] = [dev |-> d, frame |-> f]

\* A close of a session that is not the frame's is refused and changes nothing.
CloseRequest(f, d) ==
    LET b == BridgeOf[f]  t == held[f][d]
    IN  /\ Usable(b) /\ frameState[f] = "alive" /\ t # None
        /\ Authorized(b, d) /\ OwnedByFrame(t, f, d)
        /\ Send(<<Call("close", d, t, "close", b, TRUE)>>, ready)
        /\ ctl' = [ctl EXCEPT ![b] = [Idle EXCEPT !.pc = "closing", !.frame = f, !.dev = d, !.tok = t]]
        /\ UNCHANGED <<bgVars, revoke, toAddon, losses, timeouts, bridgeVars, daemonVars>>

CloseAnswered(c) ==
    LET k == <<c.dev, TabOf[c.by]>>  f == ctl[c.by].frame
    IN  /\ c.why = "close"
        /\ \/ /\ c.status = "ok"
              /\ tabCount' = [tabCount EXCEPT ![k] = IF @ > 0 THEN @ - 1 ELSE 0]
              /\ owner' = Drop(owner, {c.tok})
              /\ held' = [held EXCEPT ![f][c.dev] = None]
           \/ c.status # "ok" /\ UNCHANGED <<tabCount, owner, held>>
        /\ GoIdle(c.by)
        /\ Send(<<>>, Tail(ready))
        /\ UNCHANGED <<granted, frames, orphans, revoke, link, frameState, duty, removedTabs>>

-----------------------------------------------------------------------------
(* closeForCleanup after its await, and the handlers built on it *)

\* Mutant: an orphan is never given up.
AfterCleanupKeepsOrphan(c) ==
    /\ owner' = IF c.owned THEN Drop(owner, {c.tok}) ELSE owner
    /\ orphans' = IF c.status = "ok" \/ c.tok \in DOMAIN orphans THEN orphans
                  ELSE Put(orphans, c.tok, c.dev)

\* Confirmed: the session is forgotten.  Not confirmed: it becomes an orphan.
AfterCleanup(c) ==
    /\ owner' = IF c.owned THEN Drop(owner, {c.tok}) ELSE owner
    /\ orphans' = IF c.status = "ok" THEN Drop(orphans, {c.tok})
                  ELSE IF c.tok \in DOMAIN orphans THEN orphans
                  ELSE Put(orphans, c.tok, c.dev)

CleanupAnswered(c) ==
    /\ c.why \in {"late", "cleanup", "purge", "retry"}
    /\ AfterCleanup(c)
    /\ \/ c.by \in Bridge /\ ctl[c.by].n <= 1 /\ GoIdle(c.by)
       \/ c.by \in Bridge /\ ctl[c.by].n > 1 /\ ctl' = [ctl EXCEPT ![c.by].n = @ - 1]
       \/ c.by = None /\ ctl' = ctl
    /\ Send(<<>>, Tail(ready))
    /\ UNCHANGED <<granted, tabCount, frames, revoke, bridgeVars>>

\* Mutant: purgeFrame closes every session of the tab.
FrameDestroyedOfTab(f) ==
    LET b == BridgeOf[f]
        mine == {t \in DOMAIN owner : TabOfFrame(owner[t].frame) = TabOf[b]}
    IN  /\ Usable(b) /\ frameState[f] = "dead"
        /\ frameState' = [frameState EXCEPT ![f] = "reported"]
        /\ frames' = Put(frames, f, "retired")
        /\ tabCount' = Unregister(mine, owner)
        /\ \E calls \in Cleanups(mine, "purge", b) : Send(calls, ready)
        /\ ctl' = [ctl EXCEPT ![b] = IF mine = {} THEN Idle
                                     ELSE [Idle EXCEPT !.pc = "purging", !.n = Cardinality(mine)]]
        /\ UNCHANGED <<granted, owner, orphans, revoke, toAddon, losses, timeouts, link, held, duty,
                       removedTabs, daemonVars>>

\* handleFrameDestroyed and purgeFrame.
FrameDestroyed(f) ==
    LET b == BridgeOf[f]
        mine == {t \in DOMAIN owner : owner[t].frame = f}
    IN  /\ Usable(b) /\ frameState[f] = "dead"
        /\ frameState' = [frameState EXCEPT ![f] = "reported"]
        /\ frames' = Put(frames, f, "retired")
        /\ tabCount' = Unregister(mine, owner)
        /\ \E calls \in Cleanups(mine, "purge", b) : Send(calls, ready)
        /\ ctl' = [ctl EXCEPT ![b] = IF mine = {} THEN Idle
                                     ELSE [Idle EXCEPT !.pc = "purging", !.n = Cardinality(mine)]]
        /\ UNCHANGED <<granted, owner, orphans, revoke, toAddon, losses, timeouts, link, held, duty,
                       removedTabs, daemonVars>>

\* handleCleanupSession: the bridge hands a session back.
CleanupSession(b, f, d, t) ==
    /\ Usable(b) /\ BridgeOf[f] = b /\ <<f, d, t>> \in duty
    /\ frameState[f] # "dead"
    /\ duty' = duty \ {<<f, d, t>>}
    /\ Send(<<Cleanup(d, t, "cleanup", b)>>, ready)
    /\ ctl' = [ctl EXCEPT ![b] = [Idle EXCEPT !.pc = "cleaning"]]
    /\ UNCHANGED <<bgVars, revoke, toAddon, losses, timeouts, link, frameState, held, removedTabs,
                   daemonVars>>

\* Mutant: the sessions of the bridge are forgotten instead of closed.
BridgeGoneForgets(b) ==
    LET mine == {t \in DOMAIN owner : BridgeOf[owner[t].frame] = b}
    IN  /\ Quiet /\ link[b] = "up"
        /\ link' = [link EXCEPT ![b] = "gone"]
        /\ frames' = [f \in DOMAIN frames |-> IF BridgeOf[f] = b THEN "retired" ELSE frames[f]]
        /\ tabCount' = Unregister(mine, owner) /\ owner' = Drop(owner, mine)
        /\ duty' = {k \in duty : BridgeOf[k[1]] # b}
        /\ UNCHANGED <<granted, orphans, loopVars, portVars, toAddon, losses, timeouts, frameState,
                       held, removedTabs, daemonVars>>

\* The control port disconnects: purgeBridge.
BridgeGone(b) ==
    LET mine == {t \in DOMAIN owner : BridgeOf[owner[t].frame] = b}
    IN  /\ Quiet /\ link[b] = "up"
        /\ link' = [link EXCEPT ![b] = "gone"]
        /\ frames' = [f \in DOMAIN frames |-> IF BridgeOf[f] = b THEN "retired" ELSE frames[f]]
        /\ tabCount' = Unregister(mine, owner)
        /\ \E calls \in Cleanups(mine, "purge", None) : Send(calls, ready)
        /\ duty' = {k \in duty : BridgeOf[k[1]] # b}
        /\ UNCHANGED <<granted, owner, orphans, loopVars, toAddon, losses, timeouts, frameState,
                       held, removedTabs, daemonVars>>

\* tabs.onRemoved: purgeTab.
TabRemoved(tab) ==
    LET mine == {t \in DOMAIN owner : TabOfFrame(owner[t].frame) = tab}
    IN  /\ Quiet /\ tab \notin removedTabs
        /\ removedTabs' = removedTabs \cup {tab}
        /\ frames' = Drop(frames, {f \in Frame : TabOfFrame(f) = tab})
        /\ tabCount' = [k \in Device \X Tab |-> IF k[2] = tab THEN 0 ELSE tabCount[k]]
        /\ \E calls \in Cleanups(mine, "purge", None) : Send(calls, ready)
        /\ UNCHANGED <<granted, owner, orphans, loopVars, toAddon, losses, timeouts, link,
                       frameState, held, duty, daemonVars>>

\* retryOrphanCleanup, on its 30 s timer.
RetryOrphans ==
    /\ Quiet /\ DOMAIN orphans # {}
    /\ Len(Crossing) + Cardinality(DOMAIN orphans) <= MaxFlight
    /\ \E q \in SetToSeqs(DOMAIN orphans) :
          Send([i \in DOMAIN q |-> Cleanup(orphans[q[i]], q[i], "retry", None)], ready)
    /\ UNCHANGED <<bgVars, loopVars, toAddon, losses, timeouts, bridgeVars, daemonVars>>

-----------------------------------------------------------------------------
(* handleRevokeDevice and revokeDevices *)

\* The devices are the one asked for and those granted together with it.
RevokeStart(r, o, D) ==
    /\ Quiet /\ revoke[r].pc = "idle" /\ D # {}
    /\ Len(Crossing) < MaxFlight
    /\ \E d \in D : <<o, d>> \in granted
    /\ revoke' = [revoke EXCEPT ![r] = [pc |-> "ungrant", origin |-> o, todo |-> D, dev |-> None,
                                        toks |-> {}]]
    /\ UNCHANGED <<bgVars, ctl, portVars, toAddon, losses, timeouts, bridgeVars, daemonVars>>

\* The loop of revokeDevices from here to its next await: the next of the
\* collected tokens is closed, then the next device is taken up.  Tokens that
\* have lost their owner meanwhile are closed all the same.
RevokeNext(r, rev, own, rdy) ==
    \/ \E t \in rev.toks :
          /\ revoke' = [revoke EXCEPT ![r] = [rev EXCEPT !.pc = "closing", !.toks = @ \ {t}]]
          /\ tabCount' = IF t \in DOMAIN own THEN Unregister({t}, own) ELSE tabCount
          /\ Send(<<Call("close", rev.dev, t, "revoke", r, t \in DOMAIN own)>>, rdy)
    \/ /\ rev.toks = {}
       /\ revoke' = [revoke EXCEPT ![r] = IF rev.todo = {} THEN NoRevoke
                                          ELSE [rev EXCEPT !.pc = "ungrant"]]
       /\ tabCount' = tabCount
       /\ Send(<<>>, rdy)

\* removeAllowedDevice completes; the sessions of the origin are collected.
RevokeDevice(r) ==
    /\ Quiet /\ revoke[r].pc = "ungrant"
    /\ \E d \in revoke[r].todo :
         LET mine == {t \in DOMAIN owner : owner[t].dev = d
                                             /\ OriginOf[owner[t].frame] = revoke[r].origin}
         IN  /\ granted' = granted \ {<<revoke[r].origin, d>>}
             /\ RevokeNext(r, [revoke[r] EXCEPT !.todo = @ \ {d}, !.dev = d, !.toks = mine],
                           owner, ready)
    /\ UNCHANGED <<owner, frames, orphans, ctl, toAddon, losses, timeouts, bridgeVars, daemonVars>>

RevokeAnswered(c) ==
    /\ c.why = "revoke"
    /\ AfterCleanup(c)
    /\ RevokeNext(c.by, revoke[c.by], owner', Tail(ready))
    /\ UNCHANGED <<granted, frames, ctl, bridgeVars>>

\* handlePairDevice, after the user picked the device.
Pair(o, d) ==
    /\ Quiet /\ <<o, d>> \notin granted
    /\ granted' = granted \cup {<<o, d>>}
    /\ UNCHANGED <<tabCount, owner, frames, orphans, loopVars, portVars, toAddon, losses, timeouts,
                   bridgeVars, daemonVars>>

-----------------------------------------------------------------------------
(* The continuations, the port and the daemon *)

\* The promises settled by the last event resume one after the other.
Resume ==
    /\ ready # <<>>
    /\ LET c == Head(ready)
       IN  OpenAnswered(c) \/ CloseAnswered(c) \/ CleanupAnswered(c) \/ RevokeAnswered(c)
    /\ UNCHANGED <<toAddon, losses, timeouts, daemonVars>>

\* handleDeviceConnectionEvent on a DISCONNECT: clearDeviceOwnership.
ClearDevice(d) ==
    /\ tabCount' = [k \in Device \X Tab |-> IF k[1] = d THEN 0 ELSE tabCount[k]]
    /\ owner' = Drop(owner, {t \in DOMAIN owner : owner[t].dev = d})
    /\ orphans' = Drop(orphans, {t \in DOMAIN orphans : orphans[t] = d})

\* handleNativeMessage: an event, the answer to a pending request, or the
\* answer to one that timed out, which nothing waits for.
Receive ==
    /\ Quiet /\ toAddon # <<>>
    /\ toAddon' = Tail(toAddon)
    /\ LET c == Head(toAddon)
       IN  \/ c.op = "gone" /\ ClearDevice(c.dev) /\ ready' = ready
           \/ c.op # "gone" /\ c.live /\ ready' = <<c>> /\ UNCHANGED <<tabCount, owner, orphans>>
           \/ c.op # "gone" /\ ~c.live /\ UNCHANGED <<ready, tabCount, owner, orphans>>
    /\ UNCHANGED <<granted, frames, loopVars, port, epoch, toDaemon, losses, timeouts, bridgeVars,
                   daemonVars>>

\* The deadline of sendFrame: the request is forgotten and its promise rejected.
TimeOut ==
    /\ Quiet /\ timeouts < MaxTimeouts
    /\ timeouts' = timeouts + 1
    /\ \E i \in DOMAIN Crossing :
          LET c == Crossing[i]
              Forget(q, n) == [j \in DOMAIN q |-> [q[j] EXCEPT !.live = @ /\ n + j # i]]
          IN  /\ c.op # "gone" /\ c.live
              /\ toAddon' = Forget(toAddon, 0)
              /\ served' = Forget(served, Len(toAddon))
              /\ toDaemon' = Forget(toDaemon, Len(toAddon) + Len(served))
              /\ ready' = <<[c EXCEPT !.status = "err"]>>
    /\ UNCHANGED <<bgVars, loopVars, port, epoch, losses, bridgeVars, opened, attached, notices, gones>>

\* Mutant: the owners survive the port.
ClearAuthorityKeepsOwner ==
    /\ tabCount' = [k \in Device \X Tab |-> 0]
    /\ owner' = owner /\ frames' = Drop(frames, Frame) /\ orphans' = Drop(orphans, Token)

\* clearAuthorityOwnership
ClearAuthority ==
    /\ tabCount' = [k \in Device \X Tab |-> 0]
    /\ owner' = Drop(owner, Token) /\ frames' = Drop(frames, Frame) /\ orphans' = Drop(orphans, Token)

\* Mutant: the requests that were pending are never answered.
PortLostKeepsPending ==
    /\ Quiet /\ port = "up" /\ losses < MaxLosses
    /\ losses' = losses + 1
    /\ ready' = <<>> /\ toDaemon' = <<>> /\ served' = <<>> /\ toAddon' = <<>>
    /\ ClearAuthority
    /\ port' = "down" /\ epoch' = epoch
    /\ UNCHANGED <<granted, loopVars, timeouts, bridgeVars, opened, attached, notices, gones>>

\* retirePort: every pending request is answered with an error, in the order
\* they were sent; everything derived from the port is dropped.  A change of
\* the host connects again.
PortLost ==
    /\ Quiet /\ port = "up" /\ losses < MaxLosses
    /\ losses' = losses + 1
    /\ \E at \in SetToSeqs({i \in DOMAIN Crossing : Crossing[i].live /\ Crossing[i].op # "gone"}) :
          /\ \A i, j \in DOMAIN at : i < j => at[i] < at[j]
          /\ ready' = [i \in DOMAIN at |-> [Crossing[at[i]] EXCEPT !.status = "err"]]
    /\ toDaemon' = <<>> /\ served' = <<>> /\ toAddon' = <<>>
    /\ ClearAuthority
    /\ \/ port' = "down" /\ epoch' = epoch
       \/ port' = "up" /\ epoch' = epoch + 1
    /\ UNCHANGED <<granted, loopVars, timeouts, bridgeVars, opened, attached, notices, gones>>

\* scheduleReconnect's timer.
Connect ==
    /\ Quiet /\ port = "down"
    /\ port' = "up" /\ epoch' = epoch + 1
    /\ UNCHANGED <<bgVars, loopVars, ready, toDaemon, toAddon, losses, timeouts, bridgeVars, daemonVars>>

\* A token the daemon may mint: no part of the system still mentions it.
Mentioned ==
    DOMAIN opened \cup DOMAIN owner \cup DOMAIN orphans
      \cup {Crossing[i].tok : i \in DOMAIN Crossing}
      \cup {ready[i].tok : i \in DOMAIN ready} \cup {ctl[b].tok : b \in Bridge}
      \cup (UNION {revoke[r].toks : r \in Revoker}) \cup {k[3] : k \in duty}
      \cup {held[f][d] : f \in Frame, d \in Device}

\* open: a new session, or a failure (unplugged, busy, no permission).
ServeOpen(c) ==
    \/ /\ c.dev \in attached
       /\ \E t \in Token \ Mentioned :
             /\ opened' = Put(opened, t, [dev |-> c.dev, epoch |-> epoch])
             /\ served' = <<[c EXCEPT !.status = "ok", !.tok = t]>>
    \/ opened' = opened /\ served' = <<[c EXCEPT !.status = "err"]>>

\* close: an unknown session is a success, one of another connection is refused.
ServeClose(c) ==
    IF c.tok \in DOMAIN opened /\ opened[c.tok].epoch # epoch
    THEN opened' = opened /\ served' = <<[c EXCEPT !.status = "err"]>>
    ELSE opened' = Drop(opened, {c.tok}) /\ served' = <<[c EXCEPT !.status = "ok"]>>

\* The request loop serves one request, and then queues its answer; an event
\* may be queued before it.
DaemonServe ==
    /\ served = <<>> /\ toDaemon # <<>> /\ toDaemon' = Tail(toDaemon)
    /\ LET c == Head(toDaemon)
       IN  (c.op = "open" /\ ServeOpen(c)) \/ (c.op = "close" /\ ServeClose(c))
    /\ UNCHANGED <<bgVars, loopVars, port, epoch, ready, toAddon, losses, timeouts, bridgeVars,
                   attached, notices, gones>>

DaemonAnswer ==
    /\ served # <<>>
    /\ toAddon' = toAddon \o served /\ served' = <<>>
    /\ UNCHANGED <<bgVars, loopVars, portVars, losses, timeouts, bridgeVars, opened, attached,
                   notices, gones>>

\* The daemon sees the end of a connection the addon has dropped.
DaemonEof ==
    LET dead == {t \in DOMAIN opened : opened[t].epoch # epoch \/ port = "down"}
    IN  /\ dead # {}
        /\ opened' = Drop(opened, dead)
        /\ UNCHANGED <<bgVars, loopVars, portVars, toAddon, losses, timeouts, bridgeVars, served,
                       attached, notices, gones>>

SessionsOn(d) == {t \in DOMAIN opened : opened[t].dev = d}

\* A device is removed: its sessions end, the event is queued.
DeviceGone(d) ==
    /\ d \in attached /\ gones < MaxGone
    /\ attached' = attached \ {d} /\ notices' = notices \cup {d} /\ gones' = gones + 1
    /\ opened' = Drop(opened, SessionsOn(d))
    /\ UNCHANGED <<bgVars, loopVars, portVars, toAddon, losses, timeouts, bridgeVars, served>>

\* The event task of the connection: force_close again, then the event.
EventSent(d) ==
    /\ d \in notices /\ notices' = notices \ {d}
    /\ opened' = Drop(opened, SessionsOn(d))
    /\ toAddon' = IF port = "up" THEN Append(toAddon, Call("gone", d, None, "event", None, FALSE))
                  ELSE toAddon
    /\ UNCHANGED <<bgVars, loopVars, portVars, losses, timeouts, bridgeVars, served, attached, gones>>

DeviceBack(d) ==
    /\ d \notin attached /\ attached' = attached \cup {d}
    /\ UNCHANGED <<bgVars, loopVars, portVars, toAddon, losses, timeouts, bridgeVars, opened, served,
                   notices, gones>>

-----------------------------------------------------------------------------
(* The bridges *)

BridgeUp(b) ==
    /\ link[b] = "new" /\ TabOf[b] \notin removedTabs /\ link' = [link EXCEPT ![b] = "up"]
    /\ UNCHANGED <<bgVars, loopVars, portVars, toAddon, losses, timeouts, frameState, held, duty,
                   removedTabs, daemonVars>>

\* destroyFrameContext, up to the report.
FrameDies(f) ==
    /\ link[BridgeOf[f]] = "up" /\ frameState[f] = "alive"
    /\ frameState' = [frameState EXCEPT ![f] = "dead"]
    /\ held' = [held EXCEPT ![f] = [d \in Device |-> None]]
    /\ UNCHANGED <<bgVars, loopVars, portVars, toAddon, losses, timeouts, link, duty, removedTabs,
                   daemonVars>>

\* globalReset, the device's disconnect event or the revoked event arrives.
Notice(f, d) ==
    /\ held[f][d] # None /\ held[f][d] \notin DOMAIN owner
    /\ held' = [held EXCEPT ![f][d] = None]
    /\ UNCHANGED <<bgVars, loopVars, portVars, toAddon, losses, timeouts, link, frameState, duty,
                   removedTabs, daemonVars>>

Next ==
    \/ Resume \/ Receive \/ TimeOut \/ PortLost \/ Connect \/ DaemonServe \/ DaemonAnswer \/ DaemonEof
    \/ RetryOrphans
    \/ \E b \in Bridge : OpenForbidden(b) \/ OpenSend(b) \/ OpenRegister(b) \/ OpenCleanup(b)
                         \/ BridgeUp(b) \/ BridgeGone(b)
    \/ \E f \in Frame : FrameDies(f) \/ FrameDestroyed(f)
    \/ \E f \in Frame, d \in Device : OpenRequest(f, d) \/ CloseRequest(f, d) \/ Notice(f, d)
    \/ \E b \in Bridge, f \in Frame, d \in Device, t \in Token : CleanupSession(b, f, d, t)
    \/ \E tab \in Tab : TabRemoved(tab)
    \/ \E r \in Revoker, o \in Origin, D \in SUBSET Device : RevokeStart(r, o, D)
    \/ \E r \in Revoker : RevokeDevice(r)
    \/ \E o \in Origin, d \in Device : Pair(o, d)
    \/ \E d \in Device : DeviceGone(d) \/ EventSent(d) \/ DeviceBack(d)

Spec == Init /\ [][Next]_vars

\* The event loop takes its queued events in turn, so no continuation, message
\* or timer that stays due is passed over for ever; the daemon serves its
\* connection and notices its end.
FairSpec ==
    /\ Spec
    /\ WF_vars(Resume) /\ WF_vars(DaemonServe) /\ WF_vars(DaemonAnswer) /\ WF_vars(DaemonEof)
    /\ SF_vars(Receive) /\ SF_vars(Connect) /\ SF_vars(RetryOrphans)
    /\ \A b \in Bridge :
          SF_vars(OpenForbidden(b) \/ OpenSend(b) \/ OpenRegister(b) \/ OpenCleanup(b))
    /\ \A r \in Revoker : SF_vars(RevokeDevice(r))
    /\ \A d \in Device : WF_vars(EventSent(d))

-----------------------------------------------------------------------------
(* Properties *)

InFlight == Range(Crossing) \cup Range(ready)
OpenPending(t) ==
    \/ \E c \in InFlight : c.op = "open" /\ c.tok = t /\ c.live /\ c.status = "ok"
    \/ \E b \in Bridge : ctl[b].pc = "recheck" /\ ctl[b].tok = t
Closing(t) == \E c \in InFlight : c.op = "close" /\ c.tok = t /\ c.live
Tracked(t) == t \in DOMAIN owner \/ t \in DOMAIN orphans \/ OpenPending(t) \/ Closing(t)

\* A session of the current connection that the daemon holds is one the
\* background answers for: it has an owner or is an orphan, or its open or its
\* close is in progress (deviceSessions, orphanCleanup, closeForCleanup).
NoLostSession ==
    port = "up" => \A t \in DOMAIN opened : opened[t].epoch = epoch => Tracked(t)

\* What has an owner was opened over the connection that is up: nothing of a
\* lost connection survives it (retirePort, clearAuthorityOwnership), not even
\* an open whose answer came just before (handleOpen).
OwnedByConnection ==
    \A t \in DOMAIN owner \cap DOMAIN opened : port = "up" /\ opened[t].epoch = epoch

\* A session whose origin lost the grant is being closed: the revoker has it
\* on its list, or its close is under way (revokeDevices, handleOpen's second
\* look at the grants).
RevokedIsClosing ==
    \A t \in DOMAIN owner :
        <<OriginOf[owner[t].frame], owner[t].dev>> \notin granted
          => \/ Closing(t)
             \/ \E r \in Revoker : revoke[r].pc # "idle" /\ t \in revoke[r].toks

\* A session whose frame was retired, or whose bridge is gone, is being closed
\* (purgeFrame, purgeBridge, handleOpen's second look at the lifetime).
RetiredIsClosing ==
    \A t \in DOMAIN owner :
        LET f == owner[t].frame
        IN  (f \in DOMAIN frames /\ frames[f] = "retired") \/ link[BridgeOf[f]] = "gone"
              => Closing(t)

\* A purge closes only sessions whose document is gone: the siblings in the tab
\* and the document that replaced it keep theirs (purgeFrame, purgeBridge).
PurgeOnlyRetired ==
    \A c \in InFlight : c.why = "purge" /\ c.tok \in DOMAIN owner =>
        LET f == owner[c.tok].frame
        IN  \/ f \in DOMAIN frames /\ frames[f] = "retired"
            \/ TabOfFrame(f) \in removedTabs

\* Every control request is answered, whatever the daemon and the port do.
ControlAnswered == \A b \in Bridge : ctl[b].pc # "idle" ~> ctl[b].pc = "idle"

\* The sessions a bridge's frames hold or own when it goes end in the daemon
\* (purgeBridge, closeForCleanup).
GoneBridgeCloses ==
    \A f \in Frame, d \in Device, t \in Token :
        (link[BridgeOf[f]] = "gone" /\ (held[f][d] = t \/ OwnedByFrame(t, f, d)))
          ~> t \notin DOMAIN opened

\* Orphans are retried until the daemon confirms that the session is gone.
OrphansDrain == \A t \in Token : t \in DOMAIN orphans ~> t \notin DOMAIN orphans

=============================================================================
