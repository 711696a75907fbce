---------------------------- MODULE DeviceManager ----------------------------
(***************************************************************************)
(* The session and lifetime core of the native daemon                      *)
(* (crates/webhid-daemon/src/device_mgr.rs, and the per-client tasks of    *)
(* client.rs that drive it).                                               *)
(*                                                                         *)
(* Threads: one request loop and one event task per IPC client, one reader *)
(* and one I/O worker per physical lifetime, one task per WS/WT            *)
(* connection.  The cold path is serialised by the lifecycle mutex, so a   *)
(* locked section is one step; what a thread does after it has left the    *)
(* section (stop_entry, the joins, the counter and cancel updates, the     *)
(* events) is a step of its own.                                           *)
(*                                                                         *)
(* The session token that open() mints also names the reservation and the  *)
(* physical lifetime which that open creates.                              *)
(***************************************************************************)
EXTENDS Integers, Sequences, FiniteSets, Functions

CONSTANTS
    Client,     \* IPC connections; an id is never reused
    Device,     \* stable device ids
    Token,      \* session tokens: each open() mints a fresh one
    Conn,       \* WS/WT connection attempts, each with its own capability
    None,       \* no lifetime held, no reservation awaited
    AskModes,   \* the data-plane modes clients ask for
    MaxUnplug,  \* bound on the number of device removals
    IoErrors,   \* may a read fail although the device is present?
    Lagging     \* may a client's broadcast receiver lag and lose events?

ASSUME NoneAssumption == None \notin Token \cup Device
ASSUME BoundAssumption == MaxUnplug \in Nat
ASSUME ModeAssumption == AskModes \subseteq {"nm", "ws", "wt"}
ASSUME SwitchAssumption == IoErrors \in BOOLEAN /\ Lagging \in BOOLEAN

VARIABLES
    \* the maps of DeviceManager
    devices,            \* device -> lifetime whose Entry is published
    sessions,           \* token -> Session
    wsAuthHashes,       \* tokens whose ws_auth_hash is registered
    transportValidity,  \* token -> current capability
    opening,            \* device -> reservation
    invalidated,        \* reservations whose flag is set
    nmSinks,            \* clients with a registered NM sink
    nmHot,              \* <<client, device>> -> lifetime the binding captured
    nonNm,              \* non_nm_sessions
    \* threads
    client,             \* request loop of each client
    woken,              \* waiters whose Notified has been completed
    minted,             \* tokens already minted
    reply,              \* what the open() that minted a token returns
    events,             \* event receiver of each client that has an event task
    relay,              \* event task of each client, inside force_close
    life,               \* phase of each physical lifetime
    lifeDev,            \* the device of a lifetime, None before the HID open
    reader,             \* reader thread of each lifetime
    workerUp,           \* lifetimes whose I/O worker runs
    gate,               \* lifetimes whose reader-start gate is released
    conn,               \* WS/WT connection tasks
    stage,              \* where the task of a connected one is
    capValid,           \* capabilities whose flag is still set
    cancelled,          \* sessions whose cancel watch has fired
    \* the outside
    present,            \* devices that are plugged in
    lost,               \* lifetimes whose handle lost its device
    removals,           \* removals the hotplug monitor has yet to report
    unplugs             \* number of removals so far

mgrVars  == <<devices, sessions, wsAuthHashes, transportValidity, opening,
              invalidated, nmSinks, nmHot, nonNm>>
openVars == <<opening, invalidated>>
sessVars == <<devices, sessions, wsAuthHashes, transportValidity, nmHot, capValid>>
thrVars  == <<client, woken, minted, reply, events, relay>>
lifeVars == <<life, lifeDev, reader, workerUp, gate>>
connVars == <<conn, stage, capValid, cancelled>>
envVars  == <<present, lost, removals, unplugs>>
vars == <<mgrVars, thrVars, lifeVars, connVars, envVars>>

Modes == {"nm", "ws", "wt"}
Kinds == {"ws", "wt"}
SessionRec == [dev : Device, owner : Client, mode : Modes, gen : [Kinds -> Nat]]

ClientPcs == {"new", "idle", "attempt", "waiting", "opening", "opened", "built",
              "release", "finish", "notify", "stopping", "joining", "draining", "gone"}
LifePhases == {"none", "handle", "built", "live", "detached", "stopping"}
ReaderPcs == {"none", "gate", "reading", "failed", "cleanup", "joining", "exited"}

\* A thread in the middle of a teardown: what it took out of the maps.
Teardown == [killed : SUBSET Token, dec : Nat, hold : Token \cup {None}]
NoTeardown == [killed |-> {}, dec |-> 0, hold |-> None]

ClientRec == [pc : ClientPcs, dev : Device \cup {None}, tok : Token \cup {None},
              hold : Token \cup {None}, wait : Token \cup {None}, back : ClientPcs,
              todo : SUBSET Token]
RelayRec  == [pc : {"idle", "post", "stopping", "joining"}, td : Teardown]
ReaderRec == [pc : ReaderPcs, td : Teardown]
ConnRec   == [phase : {"idle", "authed", "up", "done"}, kind : Kinds,
              tok : Token \cup {None}, gen : Nat]

\* A connection task before its select, in it, and after it: a WS task passes the
\* first and the last without a wait (handle_websocket 99-209); run_session of
\* WT waits for its peer's stream in the first (webtransport.rs 297), for the
\* peer to read what is still to be written in the last (339).
Stages == {"opening", "serving", "closing"}

\* A HashMap from K to V.
IsMap(f, K, V) == DOMAIN f \subseteq K /\ f \in [DOMAIN f -> V]

ManagerTypeOK ==
    /\ IsMap(devices, Device, Token)
    /\ IsMap(sessions, Token, SessionRec) /\ IsFiniteSet(DOMAIN sessions)
    /\ wsAuthHashes \subseteq Token
    /\ IsMap(transportValidity, Token, Conn)
    /\ IsMap(opening, Device, Token) /\ invalidated \subseteq Token
    /\ nmSinks \subseteq Client
    /\ IsMap(nmHot, Client \X Device, Token)
    /\ nonNm \in Int

ThreadTypeOK ==
    /\ client \in [Client -> ClientRec]
    /\ woken \subseteq Client /\ minted \subseteq Token
    /\ reply \in [Token -> {"none", "ok", "err"}]
    /\ IsMap(events, Client, Seq(Device))
    /\ relay \in [Client -> RelayRec]

LifetimeTypeOK ==
    /\ life \in [Token -> LifePhases]
    /\ lifeDev \in [Token -> Device \cup {None}]
    /\ reader \in [Token -> ReaderRec]
    /\ workerUp \subseteq Token /\ gate \subseteq Token

OutsideTypeOK ==
    /\ conn \in [Conn -> ConnRec] /\ stage \in [Conn -> Stages]
    /\ capValid \subseteq Conn /\ cancelled \subseteq Token
    /\ present \in [Device -> BOOLEAN] /\ lost \subseteq Token
    /\ removals \in [Device -> Nat] /\ unplugs \in Nat

\* The locals of a thread are set where its program counter says it uses them.
LocalsOK ==
    /\ \A c \in Client :
         /\ client[c].pc \in {"attempt", "waiting", "opening", "opened", "built", "release",
                              "finish", "notify"} \/ client[c].back = "finish"
              => client[c].tok \in Token /\ client[c].dev \in Device
         /\ client[c].pc \in {"stopping", "joining"} => client[c].hold \in Token
         /\ client[c].back \in {"idle", "finish", "draining"}
         /\ client[c].back = "finish" => client[c].pc \in {"stopping", "joining"}
         /\ client[c].pc \in {"opened", "built"} => lifeDev[client[c].tok] \in Device
         /\ relay[c].pc \in {"stopping", "joining"} => relay[c].td.hold \in Token
    /\ \A l \in Token :
         /\ reader[l].pc # "none" => lifeDev[l] \in Device
         /\ reader[l].pc \in {"cleanup", "joining"} => reader[l].td.hold \in Token

TypeOK == ManagerTypeOK /\ ThreadTypeOK /\ LifetimeTypeOK /\ OutsideTypeOK /\ LocalsOK

-----------------------------------------------------------------------------
(* Maps *)

Put(f, k, v) == [x \in DOMAIN f \cup {k} |-> IF x = k THEN v ELSE f[x]]
Drop(f, S) == Restrict(f, DOMAIN f \ S)

SessionsOn(d) == {t \in DOMAIN sessions : sessions[t].dev = d}
OwnedBy(c) == {t \in DOMAIN sessions : sessions[t].owner = c}
NonNm(S) == {t \in S : sessions[t].mode # "nm"}
Caps(S) == {transportValidity[t] : t \in S \cap DOMAIN transportValidity}

\* update_non_nm_count
CountChange(from, to) ==
    (IF to # "nm" THEN 1 ELSE 0) - (IF from # "nm" THEN 1 ELSE 0)

\* An active NM session of c on d, in the session map `sess`.
NmActive(sess, c, d) ==
    \E t \in DOMAIN sess : sess[t].dev = d /\ sess[t].owner = c /\ sess[t].mode = "nm"

\* refresh_nm_hot_locked: the binding is taken out and bound anew to the
\* published Entry if the client still has an active NM session and a sink.
RefreshNmHot(c, d, sess, devs) ==
    LET rest == Drop(nmHot, {<<c, d>>})
    IN  IF NmActive(sess, c, d) /\ c \in nmSinks /\ d \in DOMAIN devs
        THEN Put(rest, <<c, d>>, devs[d])
        ELSE rest

\* invalidate_nm_hot_for_device_locked
InvalidateNmHot(d) == Drop(nmHot, {k \in DOMAIN nmHot : k[2] = d})

\* The Entry of d leaves `devices`; whoever removed it now holds it.
EntryOf(d) == IF d \in DOMAIN devices THEN devices[d] ELSE None
RemoveEntry(d) ==
    /\ devices' = Drop(devices, {d})
    /\ life' = [l \in Token |-> IF l = EntryOf(d) THEN "detached" ELSE life[l]]

\* Mutant: only the NM sessions end.
DetachLifetimeNmOnly(d) ==
    LET gone == SessionsOn(d) \ NonNm(SessionsOn(d))
    IN  /\ sessions' = Drop(sessions, gone)
        /\ wsAuthHashes' = wsAuthHashes \ gone
        /\ transportValidity' = Drop(transportValidity, gone)
        /\ capValid' = capValid \ Caps(gone)
        /\ nmHot' = InvalidateNmHot(d)
        /\ RemoveEntry(d)

\* Every session of d, its hash, capability and NM bindings, and the Entry go:
\* the locked part common to force_close and detach_dead_reader_lifetime.
DetachLifetime(d) ==
    /\ sessions' = Drop(sessions, SessionsOn(d))
    /\ wsAuthHashes' = wsAuthHashes \ SessionsOn(d)
    /\ transportValidity' = Drop(transportValidity, SessionsOn(d))
    /\ capValid' = capValid \ Caps(SessionsOn(d))
    /\ nmHot' = InvalidateNmHot(d)
    /\ RemoveEntry(d)

Taken(d) == [killed |-> SessionsOn(d), dec |-> Cardinality(NonNm(SessionsOn(d))),
             hold |-> EntryOf(d)]

\* Reservation.notify.notify_waiters()
Notify(r) == woken' = woken \cup {c \in Client : client[c].pc = "waiting" /\ client[c].wait = r}

\* event_tx.send(DeviceDisconnected)
Broadcast(d) == events' = [c \in DOMAIN events |-> Append(events[c], d)]

\* stop_entry and stop_entry_io_worker up to their joins: stop flag, epoch,
\* start gate and the Shutdown command.
StopEntry(l) == life' = [life EXCEPT ![l] = "stopping"] /\ gate' = gate \cup {l}

IdleClient == [pc |-> "idle", dev |-> None, tok |-> None, hold |-> None,
               wait |-> None, back |-> "idle", todo |-> {}]
Go(c, pc) == client' = [client EXCEPT ![c].pc = pc]
GoIdle(c) == client' = [client EXCEPT ![c] = IdleClient]

Init ==
    /\ devices = [d \in {} |-> None] /\ opening = [d \in {} |-> None]
    /\ sessions = [t \in {} |-> None] /\ transportValidity = [t \in {} |-> None]
    /\ nmHot = [k \in {} |-> None]
    /\ wsAuthHashes = {} /\ invalidated = {} /\ nmSinks = {} /\ nonNm = 0
    /\ client = [c \in Client |-> [IdleClient EXCEPT !.pc = "new"]]
    /\ woken = {} /\ minted = {}
    /\ reply = [t \in Token |-> "none"]
    /\ events = [c \in {} |-> <<>>]
    /\ relay = [c \in Client |-> [pc |-> "idle", td |-> NoTeardown]]
    /\ life = [t \in Token |-> "none"]
    /\ lifeDev = [t \in Token |-> None]
    /\ reader = [t \in Token |-> [pc |-> "none", td |-> NoTeardown]]
    /\ workerUp = {} /\ gate = {}
    /\ conn = [k \in Conn |-> [phase |-> "idle", kind |-> "ws", tok |-> None, gen |-> 0]]
    /\ stage = [k \in Conn |-> "opening"]
    /\ capValid = {} /\ cancelled = {}
    /\ present = [d \in Device |-> TRUE]
    /\ lost = {} /\ removals = [d \in Device |-> 0] /\ unplugs = 0

-----------------------------------------------------------------------------
(* open() *)

\* register_session_locked, and the refresh each of its callers makes.
Register(c, d, t, devs) ==
    /\ sessions' = Put(sessions, t, [dev |-> d, owner |-> c, mode |-> "nm",
                                     gen |-> [k \in Kinds |-> 0]])
    /\ wsAuthHashes' = wsAuthHashes \cup {t}
    /\ nmHot' = RefreshNmHot(c, d, sessions', devs)
    /\ reply' = [reply EXCEPT ![t] = "ok"]

\* A request frame arrives: the token is minted before any lock is taken.
OpenCall(c, d, t) ==
    /\ client[c].pc = "idle" /\ t \notin minted
    /\ minted' = minted \cup {t}
    /\ client' = [client EXCEPT ![c] = [IdleClient EXCEPT !.pc = "attempt", !.dev = d, !.tok = t]]
    /\ UNCHANGED <<mgrVars, woken, reply, events, relay, lifeVars, connVars, envVars>>

\* The first locked section of the loop in open(), its three outcomes.
OpenJoin(c) ==
    /\ client[c].pc = "attempt" /\ client[c].dev \in DOMAIN devices
    /\ Register(c, client[c].dev, client[c].tok, devices)
    /\ GoIdle(c)
    /\ UNCHANGED <<devices, transportValidity, openVars, nmSinks, nonNm, woken, minted,
                   events, relay, lifeVars, connVars, envVars>>

OpenWait(c) ==
    LET d == client[c].dev
    IN  /\ client[c].pc = "attempt" /\ d \notin DOMAIN devices /\ d \in DOMAIN opening
        /\ client' = [client EXCEPT ![c].pc = "waiting", ![c].wait = opening[d]]
        /\ UNCHANGED <<mgrVars, woken, minted, reply, events, relay, lifeVars, connVars, envVars>>

\* Mutant: the reservation of another opener is overwritten.
OpenReserveTwice(c) ==
    LET d == client[c].dev
    IN  /\ client[c].pc = "attempt" /\ d \notin DOMAIN devices
        /\ opening' = Put(opening, d, client[c].tok)
        /\ Go(c, "opening")
        /\ UNCHANGED <<devices, sessions, wsAuthHashes, transportValidity, invalidated, nmSinks,
                       nmHot, nonNm, woken, minted, reply, events, relay, lifeVars, connVars,
                       envVars>>

OpenReserve(c) ==
    LET d == client[c].dev
    IN  /\ client[c].pc = "attempt" /\ d \notin DOMAIN devices /\ d \notin DOMAIN opening
        /\ opening' = Put(opening, d, client[c].tok)
        /\ Go(c, "opening")
        /\ UNCHANGED <<devices, sessions, wsAuthHashes, transportValidity, invalidated, nmSinks,
                       nmHot, nonNm, woken, minted, reply, events, relay, lifeVars, connVars,
                       envVars>>

\* The second locked section, after the reservation was notified.
WaiterJoin(c) ==
    /\ client[c].pc = "waiting" /\ c \in woken /\ client[c].dev \in DOMAIN devices
    /\ Register(c, client[c].dev, client[c].tok, devices)
    /\ GoIdle(c)
    /\ woken' = woken \ {c}
    /\ UNCHANGED <<devices, transportValidity, openVars, nmSinks, nonNm, minted,
                   events, relay, lifeVars, connVars, envVars>>

WaiterRetry(c) ==
    /\ client[c].pc = "waiting" /\ c \in woken
    /\ client[c].dev \notin DOMAIN devices /\ client[c].dev \in DOMAIN opening
    /\ client' = [client EXCEPT ![c].pc = "attempt", ![c].wait = None]
    /\ woken' = woken \ {c}
    /\ UNCHANGED <<mgrVars, minted, reply, events, relay, lifeVars, connVars, envVars>>

WaiterFail(c) ==
    /\ client[c].pc = "waiting" /\ c \in woken
    /\ client[c].dev \notin DOMAIN devices /\ client[c].dev \notin DOMAIN opening
    /\ reply' = [reply EXCEPT ![client[c].tok] = "err"]
    /\ GoIdle(c)
    /\ woken' = woken \ {c}
    /\ UNCHANGED <<mgrVars, minted, events, relay, lifeVars, connVars, envVars>>

\* The blocking HID open succeeds on a device that is plugged in ...
PhysicalOpen(c) ==
    LET d == client[c].dev  t == client[c].tok
    IN  /\ client[c].pc = "opening" /\ present[d]
        /\ life' = [life EXCEPT ![t] = "handle"]
        /\ lifeDev' = [lifeDev EXCEPT ![t] = d]
        /\ Go(c, "opened")
        /\ UNCHANGED <<mgrVars, woken, minted, reply, events, relay, reader, workerUp, gate,
                       connVars, envVars>>

\* ... or it fails, or finds no usable report descriptor (fail closed).
PhysicalOpenFail(c) ==
    /\ client[c].pc = "opening"
    /\ reply' = [reply EXCEPT ![client[c].tok] = "err"]
    /\ Go(c, "finish")
    /\ UNCHANGED <<mgrVars, woken, minted, events, relay, lifeVars, connVars, envVars>>

\* The reservation is neither invalidated nor gone.
Current(c) ==
    /\ client[c].tok \notin invalidated
    /\ client[c].dev \in DOMAIN opening /\ opening[client[c].dev] = client[c].tok

\* Re-check after the HID open; the reader (behind its gate) and the worker
\* are spawned.  The branch for an Entry that is already published cannot be
\* taken: see ReservationExclusive.
OpenBuild(c) ==
    LET t == client[c].tok
    IN  /\ client[c].pc = "opened" /\ Current(c)
        /\ life' = [life EXCEPT ![t] = "built"]
        /\ reader' = [reader EXCEPT ![t].pc = "gate"]
        /\ workerUp' = workerUp \cup {t}
        /\ Go(c, "built")
        /\ UNCHANGED <<mgrVars, woken, minted, reply, events, relay, lifeDev, gate, connVars,
                       envVars>>

\* ... or the handle is dropped.
OpenAbandon(c) ==
    LET t == client[c].tok
    IN  /\ client[c].pc = "opened" /\ ~Current(c)
        /\ life' = [life EXCEPT ![t] = "none"]
        /\ reply' = [reply EXCEPT ![t] = "err"]
        /\ Go(c, "finish")
        /\ UNCHANGED <<mgrVars, woken, minted, events, relay, lifeDev, reader, workerUp, gate,
                       connVars, envVars>>

\* Mutant: the reservation is not looked at again before publication.
OpenPublishUnchecked(c) ==
    LET d == client[c].dev  t == client[c].tok
    IN  /\ client[c].pc = "built"
        /\ devices' = Put(devices, d, t)
        /\ Register(c, d, t, devices')
        /\ life' = [life EXCEPT ![t] = "live"]
        /\ Go(c, "release")
        /\ UNCHANGED <<transportValidity, openVars, nmSinks, nonNm, woken, minted, events, relay,
                       lifeDev, reader, workerUp, gate, connVars, envVars>>

\* The publishing section: Entry, session and NM binding appear together.
OpenPublish(c) ==
    LET d == client[c].dev  t == client[c].tok
    IN  /\ client[c].pc = "built" /\ Current(c)
        /\ devices' = Put(devices, d, t)
        /\ Register(c, d, t, devices')
        /\ life' = [life EXCEPT ![t] = "live"]
        /\ Go(c, "release")
        /\ UNCHANGED <<transportValidity, openVars, nmSinks, nonNm, woken, minted, events, relay,
                       lifeDev, reader, workerUp, gate, connVars, envVars>>

\* Mutant: the error is returned without stopping the local Entry.
OpenDiscardLeaks(c) ==
    LET t == client[c].tok
    IN  /\ client[c].pc = "built" /\ ~Current(c)
        /\ life' = [life EXCEPT ![t] = "detached"]
        /\ reply' = [reply EXCEPT ![t] = "err"]
        /\ Go(c, "finish")
        /\ UNCHANGED <<mgrVars, woken, minted, events, relay, lifeDev, reader, workerUp, gate,
                       connVars, envVars>>

\* An invalidated opener keeps its Entry local and stops it.
OpenDiscard(c) ==
    LET t == client[c].tok
    IN  /\ client[c].pc = "built" /\ ~Current(c)
        /\ life' = [life EXCEPT ![t] = "detached"]
        /\ reply' = [reply EXCEPT ![t] = "err"]
        /\ client' = [client EXCEPT ![c].pc = "stopping", ![c].hold = t, ![c].back = "finish"]
        /\ UNCHANGED <<mgrVars, woken, minted, events, relay, lifeDev, reader, workerUp, gate,
                       connVars, envVars>>

\* Mutant: the gate of a published reader is not released.
OpenReleaseForgotten(c) ==
    /\ client[c].pc = "release"
    /\ Go(c, "finish")
    /\ UNCHANGED <<mgrVars, woken, minted, reply, events, relay, lifeVars, connVars, envVars>>

OpenRelease(c) ==
    /\ client[c].pc = "release"
    /\ gate' = gate \cup {client[c].tok}
    /\ Go(c, "finish")
    /\ UNCHANGED <<mgrVars, woken, minted, reply, events, relay, life, lifeDev, reader, workerUp,
                   connVars, envVars>>

\* Mutant: the reservation of an open that failed stays.
OpenFinishKeepsFailed(c) ==
    /\ client[c].pc = "finish"
    /\ opening' = Drop(opening, {d \in DOMAIN opening : d = client[c].dev /\ opening[d] = client[c].tok
                                                          /\ reply[client[c].tok] = "ok"})
    /\ Go(c, "notify")
    /\ UNCHANGED <<devices, sessions, wsAuthHashes, transportValidity, invalidated, nmSinks,
                   nmHot, nonNm, woken, minted, reply, events, relay, lifeVars, connVars,
                   envVars>>

\* The opener takes its reservation out and, after the lock, wakes the waiters.
OpenFinish(c) ==
    /\ client[c].pc = "finish"
    /\ opening' = Drop(opening, {d \in DOMAIN opening : d = client[c].dev /\ opening[d] = client[c].tok})
    /\ Go(c, "notify")
    /\ UNCHANGED <<devices, sessions, wsAuthHashes, transportValidity, invalidated, nmSinks,
                   nmHot, nonNm, woken, minted, reply, events, relay, lifeVars, connVars,
                   envVars>>

OpenNotify(c) ==
    /\ client[c].pc = "notify"
    /\ Notify(client[c].tok)
    /\ GoIdle(c)
    /\ UNCHANGED <<mgrVars, minted, reply, events, relay, lifeVars, connVars, envVars>>

-----------------------------------------------------------------------------
(* close(), set_dataplane_mode(), the end of a client *)

\* Mutant: no refresh while the device stays open.
CloseSessionNoRefresh(c, t) ==
    LET d == sessions[t].dev
        last == SessionsOn(d) = {t}
    IN  /\ sessions' = Drop(sessions, {t})
        /\ wsAuthHashes' = wsAuthHashes \ {t}
        /\ transportValidity' = Drop(transportValidity, {t})
        /\ capValid' = capValid \ Caps({t})
        /\ cancelled' = cancelled \cup {t}
        /\ nonNm' = nonNm + CountChange(sessions[t].mode, "nm")
        /\ IF last
           THEN nmHot' = InvalidateNmHot(d) /\ RemoveEntry(d)
           ELSE UNCHANGED <<nmHot, devices, life>>

\* Mutant: the data-plane mode is reset for the whole device.
CloseSessionResetsMode(c, t) ==
    LET d == sessions[t].dev
        last == SessionsOn(d) = {t}
    IN  /\ sessions' = [u \in DOMAIN sessions \ {t} |->
                          IF sessions[u].dev = d THEN [sessions[u] EXCEPT !.mode = "nm"]
                          ELSE sessions[u]]
        /\ wsAuthHashes' = wsAuthHashes \ {t}
        /\ transportValidity' = Drop(transportValidity, {t})
        /\ capValid' = capValid \ Caps({t})
        /\ cancelled' = cancelled \cup {t}
        /\ nonNm' = nonNm + CountChange(sessions[t].mode, "nm")
        /\ IF last
           THEN nmHot' = InvalidateNmHot(d) /\ RemoveEntry(d)
           ELSE nmHot' = RefreshNmHot(c, d, sessions', devices) /\ UNCHANGED <<devices, life>>

\* The locked section of close(): one session ends; the last one on a device
\* takes the Entry out.
CloseSession(c, t) ==
    LET d == sessions[t].dev
        last == SessionsOn(d) = {t}
    IN  /\ sessions' = Drop(sessions, {t})
        /\ wsAuthHashes' = wsAuthHashes \ {t}
        /\ transportValidity' = Drop(transportValidity, {t})
        /\ capValid' = capValid \ Caps({t})
        /\ cancelled' = cancelled \cup {t}
        /\ nonNm' = nonNm + CountChange(sessions[t].mode, "nm")
        /\ IF last
           THEN nmHot' = InvalidateNmHot(d) /\ RemoveEntry(d)
           ELSE nmHot' = RefreshNmHot(c, d, sessions', devices) /\ UNCHANGED <<devices, life>>

\* What close() leaves its caller to stop.
HoldAfterClose(t) ==
    IF SessionsOn(sessions[t].dev) = {t} THEN EntryOf(sessions[t].dev) ELSE None

\* Any token may be named; an unknown one is a no-op success and one that is
\* of another client or device is refused, neither changes anything.
MayClose(c, d, t) ==
    t \in DOMAIN sessions /\ sessions[t].dev = d /\ sessions[t].owner = c

Close(c, d, t) ==
    /\ client[c].pc = "idle" /\ MayClose(c, d, t)
    /\ CloseSession(c, t)
    /\ client' = [client EXCEPT ![c].pc = IF HoldAfterClose(t) = None THEN "idle" ELSE "stopping",
                                ![c].hold = HoldAfterClose(t), ![c].back = "idle"]
    /\ UNCHANGED <<openVars, nmSinks, woken, minted, reply, events, relay, lifeDev, reader,
                   workerUp, gate, conn, stage, envVars>>

\* stop_entry, by the request loop: signal, then join the reader and the worker.
ClientStop(c) ==
    /\ client[c].pc = "stopping"
    /\ StopEntry(client[c].hold)
    /\ Go(c, "joining")
    /\ UNCHANGED <<mgrVars, woken, minted, reply, events, relay, lifeDev, reader, workerUp,
                   connVars, envVars>>

Joinable(l) == reader[l].pc = "exited" /\ l \notin workerUp

ClientJoin(c) ==
    /\ client[c].pc = "joining" /\ Joinable(client[c].hold)
    /\ client' = [client EXCEPT ![c].pc = client[c].back, ![c].hold = None, ![c].back = "idle"]
    /\ UNCHANGED <<mgrVars, woken, minted, reply, events, relay, lifeVars, connVars, envVars>>

\* Mutant: the transport of the mode that is left keeps its capability.
SetDataplaneModeKeepsCapability(c, d, t, m) ==
    /\ client[c].pc = "idle" /\ MayClose(c, d, t)
    /\ sessions' = [sessions EXCEPT ![t].mode = m]
    /\ nonNm' = nonNm + CountChange(sessions[t].mode, m)
    /\ nmHot' = RefreshNmHot(c, d, sessions', devices)
    /\ UNCHANGED <<devices, wsAuthHashes, transportValidity, capValid, openVars, nmSinks, thrVars,
                   lifeVars, conn, stage, cancelled, envVars>>

SetDataplaneMode(c, d, t, m) ==
    /\ client[c].pc = "idle" /\ MayClose(c, d, t)
    /\ sessions' = [sessions EXCEPT ![t].mode = m]
    /\ transportValidity' = Drop(transportValidity, {t})
    /\ capValid' = capValid \ Caps({t})
    /\ nonNm' = nonNm + CountChange(sessions[t].mode, m)
    /\ nmHot' = RefreshNmHot(c, d, sessions', devices)
    /\ UNCHANGED <<devices, wsAuthHashes, openVars, nmSinks, thrVars, lifeVars, conn, stage,
                   cancelled, envVars>>

\* handle_with_writer: the sink is registered and the event task spawned.  The
\* id is fresh, so the client owns no session whose binding to refresh.
ClientConnect(c) ==
    /\ client[c].pc = "new"
    /\ nmSinks' = nmSinks \cup {c}
    /\ events' = Put(events, c, <<>>)
    /\ GoIdle(c)
    /\ UNCHANGED <<devices, sessions, wsAuthHashes, transportValidity, openVars, nmHot, nonNm,
                   woken, minted, reply, relay, lifeVars, connVars, envVars>>

\* The request loop ends between two requests: the event task is aborted (a
\* force_close it is inside of still completes) and the sink unregistered.
ClientEof(c) ==
    /\ client[c].pc = "idle"
    /\ events' = Drop(events, {c})
    /\ nmSinks' = nmSinks \ {c}
    /\ nmHot' = Drop(nmHot, {k \in DOMAIN nmHot : k[1] = c})
    /\ client' = [client EXCEPT ![c] = [IdleClient EXCEPT !.pc = "draining", !.todo = OwnedBy(c)]]
    /\ UNCHANGED <<devices, sessions, wsAuthHashes, transportValidity, openVars, nonNm, woken,
                   minted, reply, relay, lifeVars, connVars, envVars>>

\* close_all_for_client: close() for each session of the snapshot, in any order.
DrainClose(c, t) ==
    /\ client[c].pc = "draining" /\ t \in client[c].todo /\ t \in DOMAIN sessions
    /\ CloseSession(c, t)
    /\ client' = [client EXCEPT
                    ![c].pc = IF HoldAfterClose(t) = None THEN "draining" ELSE "stopping",
                    ![c].hold = HoldAfterClose(t), ![c].back = "draining",
                    ![c].todo = @ \ {t}]
    /\ UNCHANGED <<openVars, nmSinks, woken, minted, reply, events, relay, lifeDev, reader,
                   workerUp, gate, conn, stage, envVars>>

\* The session was ended by someone else since the snapshot.
DrainSkip(c, t) ==
    /\ client[c].pc = "draining" /\ t \in client[c].todo /\ t \notin DOMAIN sessions
    /\ client' = [client EXCEPT ![c].todo = @ \ {t}]
    /\ UNCHANGED <<mgrVars, woken, minted, reply, events, relay, lifeVars, connVars, envVars>>

ClientGone(c) ==
    /\ client[c].pc = "draining" /\ client[c].todo = {}
    /\ Go(c, "gone")
    /\ UNCHANGED <<mgrVars, woken, minted, reply, events, relay, lifeVars, connVars, envVars>>

-----------------------------------------------------------------------------
(* The event task of a client: every DeviceDisconnected is a force_close *)

\* The locked section of force_close.
RelayDisconnect(c) ==
    /\ c \in DOMAIN events /\ events[c] # <<>> /\ relay[c].pc = "idle"
    /\ LET d == Head(events[c])
           td == Taken(d)
       IN  /\ IF d \in DOMAIN opening
              THEN invalidated' = invalidated \cup {opening[d]} /\ Notify(opening[d])
              ELSE UNCHANGED <<invalidated, woken>>
           /\ DetachLifetime(d)
           /\ relay' = [relay EXCEPT ![c] = [pc |-> IF td = NoTeardown THEN "idle" ELSE "post",
                                             td |-> td]]
    /\ events' = [events EXCEPT ![c] = Tail(@)]
    /\ UNCHANGED <<opening, nmSinks, nonNm, client, minted, reply, lifeDev, reader, workerUp,
                   gate, conn, stage, cancelled, envVars>>

\* After the lock: the cancels, then the counter, then stop_entry.
RelayPost(c) ==
    LET td == relay[c].td
    IN  /\ relay[c].pc = "post"
        /\ cancelled' = cancelled \cup td.killed
        /\ nonNm' = nonNm - td.dec
        /\ relay' = [relay EXCEPT ![c] =
                        IF td.hold = None THEN [pc |-> "idle", td |-> NoTeardown]
                        ELSE [pc |-> "stopping", td |-> [NoTeardown EXCEPT !.hold = td.hold]]]
        /\ UNCHANGED <<devices, sessions, wsAuthHashes, transportValidity, openVars, nmSinks,
                       nmHot, client, woken, minted, reply, events, lifeVars, conn, stage, capValid,
                       envVars>>

RelayStop(c) ==
    /\ relay[c].pc = "stopping"
    /\ StopEntry(relay[c].td.hold)
    /\ relay' = [relay EXCEPT ![c].pc = "joining"]
    /\ UNCHANGED <<mgrVars, client, woken, minted, reply, events, lifeDev, reader, workerUp,
                   connVars, envVars>>

RelayJoin(c) ==
    /\ relay[c].pc = "joining" /\ Joinable(relay[c].td.hold)
    /\ relay' = [relay EXCEPT ![c] = [pc |-> "idle", td |-> NoTeardown]]
    /\ UNCHANGED <<mgrVars, client, woken, minted, reply, events, lifeVars, connVars, envVars>>

\* The broadcast receiver fell behind: the oldest event is gone.
EventLagged(c) ==
    /\ Lagging /\ c \in DOMAIN events /\ events[c] # <<>>
    /\ events' = [events EXCEPT ![c] = Tail(@)]
    /\ UNCHANGED <<mgrVars, client, woken, minted, reply, relay, lifeVars, connVars, envVars>>

-----------------------------------------------------------------------------
(* Reader and I/O worker threads *)

SetReader(l, pc) == reader' = [reader EXCEPT ![l].pc = pc]

\* wait_reader_start, then the stop flag at the top of the loop.
ReaderStart(l) ==
    /\ reader[l].pc = "gate" /\ l \in gate
    /\ SetReader(l, IF life[l] = "stopping" THEN "exited" ELSE "reading")
    /\ UNCHANGED <<mgrVars, thrVars, life, lifeDev, workerUp, gate, connVars, envVars>>

\* A read returned or timed out and the loop sees the stop flag.
ReaderStop(l) ==
    /\ reader[l].pc = "reading" /\ life[l] = "stopping"
    /\ SetReader(l, "exited")
    /\ UNCHANGED <<mgrVars, thrVars, life, lifeDev, workerUp, gate, connVars, envVars>>

\* A read fails: the flag is not looked at again before the cleanup.
ReaderFail(l) ==
    /\ reader[l].pc = "reading" /\ (l \in lost \/ IoErrors)
    /\ SetReader(l, "failed")
    /\ UNCHANGED <<mgrVars, thrVars, life, lifeDev, workerUp, gate, connVars, envVars>>

\* detach_dead_reader_lifetime: whatever Entry the device has is taken out.
ReaderDetach(l) ==
    /\ reader[l].pc = "failed" /\ lifeDev[l] \in DOMAIN devices
    /\ DetachLifetime(lifeDev[l])
    /\ reader' = [reader EXCEPT ![l] = [pc |-> "cleanup", td |-> Taken(lifeDev[l])]]
    /\ UNCHANGED <<openVars, nmSinks, nonNm, thrVars, lifeDev, workerUp, gate, conn, stage, cancelled,
                   envVars>>

\* The Entry is gone already: the reader just ends.
ReaderOrphan(l) ==
    /\ reader[l].pc = "failed" /\ lifeDev[l] \notin DOMAIN devices
    /\ SetReader(l, "exited")
    /\ UNCHANGED <<mgrVars, thrVars, life, lifeDev, workerUp, gate, connVars, envVars>>

\* Mutant: the worker is joined without being told to stop.
ReaderCleanupNoSignal(l) ==
    /\ reader[l].pc = "cleanup"
    /\ SetReader(l, "joining")
    /\ UNCHANGED <<mgrVars, thrVars, life, lifeDev, gate, workerUp, connVars, envVars>>

\* stop_entry_io_worker: the worker is joined, the reader of the Entry is not.
ReaderCleanup(l) ==
    /\ reader[l].pc = "cleanup"
    /\ StopEntry(reader[l].td.hold)
    /\ SetReader(l, "joining")
    /\ UNCHANGED <<mgrVars, thrVars, lifeDev, workerUp, connVars, envVars>>

ReaderFinish(l) ==
    LET td == reader[l].td
    IN  /\ reader[l].pc = "joining" /\ td.hold \notin workerUp
        /\ nonNm' = nonNm - td.dec
        /\ cancelled' = cancelled \cup td.killed
        /\ Broadcast(lifeDev[l])
        /\ reader' = [reader EXCEPT ![l] = [pc |-> "exited", td |-> NoTeardown]]
        /\ UNCHANGED <<devices, sessions, wsAuthHashes, transportValidity, openVars, nmSinks,
                       nmHot, client, woken, minted, reply, relay, life, lifeDev, workerUp, gate,
                       conn, stage, capValid, envVars>>

\* The Shutdown command reaches the worker.
WorkerExit(l) ==
    /\ l \in workerUp /\ life[l] = "stopping"
    /\ workerUp' = workerUp \ {l}
    /\ UNCHANGED <<mgrVars, thrVars, life, lifeDev, reader, gate, connVars, envVars>>

-----------------------------------------------------------------------------
(* WS/WT connections *)

\* get_device_by_ws_auth; a token's device never changes, so the device check
\* of ws_connect and ws_disconnect cannot fail and is left out.
ConnAuth(k, t, kind) ==
    /\ conn[k].phase = "idle"
    /\ t \in wsAuthHashes /\ t \in DOMAIN sessions
    /\ conn' = [conn EXCEPT ![k] = [phase |-> "authed", kind |-> kind, tok |-> t, gen |-> 0]]
    /\ UNCHANGED <<mgrVars, thrVars, lifeVars, stage, capValid, cancelled, envVars>>

\* Mutant: a reconnect of a WS/WT session is counted again.
ConnConnectCountsTwice(k) ==
    LET t == conn[k].tok  kind == conn[k].kind
        gen == sessions[t].gen[kind] + 1
    IN  /\ conn[k].phase = "authed" /\ t \in DOMAIN sessions
        /\ sessions' = [sessions EXCEPT ![t].mode = kind, ![t].gen[kind] = gen]
        /\ transportValidity' = Put(transportValidity, t, k)
        /\ capValid' = (capValid \ Caps({t})) \cup {k}
        /\ conn' = [conn EXCEPT ![k].phase = "up", ![k].gen = gen]
        /\ nonNm' = nonNm + 1
        /\ nmHot' = RefreshNmHot(sessions[t].owner, sessions[t].dev, sessions', devices)
        /\ UNCHANGED <<devices, wsAuthHashes, openVars, nmSinks, thrVars, lifeVars, stage,
                       cancelled, envVars>>

\* ws_connect / wt_connect: a new generation, and a new capability that
\* revokes the one before it.
ConnConnect(k) ==
    LET t == conn[k].tok  kind == conn[k].kind
        gen == sessions[t].gen[kind] + 1
    IN  /\ conn[k].phase = "authed" /\ t \in DOMAIN sessions
        /\ sessions' = [sessions EXCEPT ![t].mode = kind, ![t].gen[kind] = gen]
        /\ transportValidity' = Put(transportValidity, t, k)
        /\ capValid' = (capValid \ Caps({t})) \cup {k}
        /\ conn' = [conn EXCEPT ![k].phase = "up", ![k].gen = gen]
        /\ nonNm' = nonNm + CountChange(sessions[t].mode, kind)
        /\ nmHot' = RefreshNmHot(sessions[t].owner, sessions[t].dev, sessions', devices)
        /\ UNCHANGED <<devices, wsAuthHashes, openVars, nmSinks, thrVars, lifeVars, stage,
                       cancelled, envVars>>

ConnRefused(k) ==
    /\ conn[k].phase = "authed" /\ conn[k].tok \notin DOMAIN sessions
    /\ conn' = [conn EXCEPT ![k].phase = "done"]
    /\ UNCHANGED <<mgrVars, thrVars, lifeVars, stage, capValid, cancelled, envVars>>

\* Mutant: no second look, so that a task whose capability was revoked before it
\* subscribed sleeps in its select while the session lives.
ConnServeUnchecked(k) ==
    /\ conn[k].phase = "up" /\ stage[k] = "opening"
    /\ stage' = [stage EXCEPT ![k] =
                    IF k \in capValid \/ conn[k].tok \notin DOMAIN sessions
                    THEN "serving" ELSE "deaf"]
    /\ UNCHANGED <<mgrVars, thrVars, lifeVars, conn, capValid, cancelled, envVars>>

\* The task subscribes to the revocation of its capability and then looks at it
\* once more, since a revocation before the subscription wakes nobody.  Meanwhile
\* WT has waited for its peer to open a stream.
ConnServe(k) ==
    /\ conn[k].phase = "up" /\ stage[k] = "opening"
    /\ stage' = [stage EXCEPT ![k] = IF k \in capValid THEN "serving" ELSE "closing"]
    /\ UNCHANGED <<mgrVars, thrVars, lifeVars, conn, capValid, cancelled, envVars>>

\* The select ends: the peer is gone, it broke the protocol or the queue is full,
\* the capability was revoked or the session cancelled.
ConnStop(k) ==
    /\ conn[k].phase = "up" /\ stage[k] = "serving"
    /\ stage' = [stage EXCEPT ![k] = "closing"]
    /\ UNCHANGED <<mgrVars, thrVars, lifeVars, conn, capValid, cancelled, envVars>>

\* A WT task also returns when its peer's stream fails to come.
TaskReturns(k) ==
    /\ conn[k].phase = "up"
    /\ stage[k] = "closing" \/ (conn[k].kind = "wt" /\ stage[k] = "opening")

\* ws_disconnect / wt_disconnect at the end of a connection, whatever ended it.
\* Only the connection that is still the session's transport falls back to NM.
\* Mutant: the mode alone makes a disconnect current.
ConnCurrentByMode(k) ==
    conn[k].tok \in DOMAIN sessions /\ sessions[conn[k].tok].mode = conn[k].kind

ConnCurrent(k) ==
    LET t == conn[k].tok
    IN  /\ t \in DOMAIN sessions
        /\ sessions[t].gen[conn[k].kind] = conn[k].gen /\ sessions[t].mode = conn[k].kind
        /\ t \in DOMAIN transportValidity /\ transportValidity[t] = k

ConnDisconnect(k) ==
    LET t == conn[k].tok
    IN  /\ TaskReturns(k) /\ ConnCurrent(k)
        /\ sessions' = [sessions EXCEPT ![t].mode = "nm"]
        /\ transportValidity' = Drop(transportValidity, {t})
        /\ capValid' = capValid \ Caps({t})
        /\ nonNm' = nonNm + CountChange(conn[k].kind, "nm")
        /\ nmHot' = RefreshNmHot(sessions[t].owner, sessions[t].dev, sessions', devices)
        /\ conn' = [conn EXCEPT ![k].phase = "done"]
        /\ UNCHANGED <<devices, wsAuthHashes, openVars, nmSinks, thrVars, lifeVars, stage,
                       cancelled, envVars>>

ConnDisconnectStale(k) ==
    /\ TaskReturns(k) /\ ~ConnCurrent(k)
    /\ conn' = [conn EXCEPT ![k].phase = "done"]
    /\ UNCHANGED <<mgrVars, thrVars, lifeVars, stage, capValid, cancelled, envVars>>

-----------------------------------------------------------------------------
(* Devices and the hotplug monitor *)

Unplug(d) ==
    /\ present[d] /\ unplugs < MaxUnplug
    /\ present' = [present EXCEPT ![d] = FALSE]
    /\ lost' = lost \cup {l \in Token : lifeDev[l] = d /\ reader[l].pc # "exited"}
    /\ removals' = [removals EXCEPT ![d] = @ + 1]
    /\ unplugs' = unplugs + 1
    /\ UNCHANGED <<mgrVars, thrVars, lifeVars, connVars>>

\* The same port yields the same device id.
Replug(d) ==
    /\ ~present[d]
    /\ present' = [present EXCEPT ![d] = TRUE]
    /\ UNCHANGED <<mgrVars, thrVars, lifeVars, connVars, lost, removals, unplugs>>

HotplugRemove(d) ==
    /\ removals[d] > 0
    /\ removals' = [removals EXCEPT ![d] = @ - 1]
    /\ Broadcast(d)
    /\ UNCHANGED <<mgrVars, client, woken, minted, reply, relay, lifeVars, connVars, present,
                   lost, unplugs>>

-----------------------------------------------------------------------------

OpenStep(c) ==
    \/ OpenJoin(c) \/ OpenWait(c) \/ OpenReserve(c)
    \/ WaiterJoin(c) \/ WaiterRetry(c) \/ WaiterFail(c)
    \/ PhysicalOpen(c) \/ PhysicalOpenFail(c)
    \/ OpenBuild(c) \/ OpenAbandon(c) \/ OpenPublish(c) \/ OpenDiscard(c)
    \/ OpenRelease(c) \/ OpenFinish(c) \/ OpenNotify(c)

DrainStep(c) == (\E t \in Token : DrainClose(c, t) \/ DrainSkip(c, t)) \/ ClientGone(c)

\* What a client's request loop does by itself once it has a request.
LoopStep(c) == OpenStep(c) \/ ClientStop(c) \/ ClientJoin(c) \/ DrainStep(c)

RelayStep(c) == RelayDisconnect(c) \/ RelayPost(c) \/ RelayStop(c) \/ RelayJoin(c)

\* What the peer of the IPC connection decides.
ClientInput(c) ==
    \/ ClientConnect(c) \/ ClientEof(c)
    \/ \E d \in Device, t \in Token :
         OpenCall(c, d, t) \/ Close(c, d, t) \/ \E m \in AskModes : SetDataplaneMode(c, d, t, m)

ReaderStep(l) == ReaderStart(l) \/ ReaderStop(l) \/ ReaderDetach(l) \/ ReaderOrphan(l)
                   \/ ReaderCleanup(l) \/ ReaderFinish(l)

ConnTask(k) == ConnServe(k) \/ ConnStop(k)
ConnEnd(k) == ConnDisconnect(k) \/ ConnDisconnectStale(k)

Next ==
    \/ \E c \in Client : LoopStep(c) \/ RelayStep(c) \/ ClientInput(c) \/ EventLagged(c)
    \/ \E l \in Token : ReaderStep(l) \/ ReaderFail(l) \/ WorkerExit(l)
    \/ \E k \in Conn : \/ \E t \in Token, kind \in Kinds : ConnAuth(k, t, kind)
                       \/ ConnConnect(k) \/ ConnRefused(k) \/ ConnTask(k) \/ ConnEnd(k)
    \/ \E d \in Device : Unplug(d) \/ Replug(d) \/ HotplugRemove(d)

Spec == Init /\ [][Next]_vars

\* Threads and tasks are scheduled; the daemon's peers promise nothing.  A
\* read of a device that is gone fails.  The select of a connection task ends
\* when its capability was revoked; a WS task aborts what it started and returns,
\* while nothing is said of a WT task outside its select, where it waits for its
\* peer.
Fairness ==
    /\ \A c \in Client : WF_vars(LoopStep(c)) /\ WF_vars(RelayStep(c))
    /\ \A l \in Token : /\ WF_vars(ReaderStep(l))
                        /\ WF_vars(l \in lost /\ ReaderFail(l))
                        /\ WF_vars(WorkerExit(l))
    /\ \A k \in Conn : /\ WF_vars(k \notin capValid /\ ConnStop(k))
                       /\ WF_vars(conn[k].kind = "ws" /\ (ConnServe(k) \/ ConnEnd(k)))
    /\ \A d \in Device : WF_vars(HotplugRemove(d))

FairSpec == Spec /\ Fairness

-----------------------------------------------------------------------------
(* Safety *)

\* A device's Entry is published exactly while the device has a session: the
\* linearisation of open, last close, force_close and reader failure under the
\* lifecycle mutex (open 950-977, close 1340-1393, force_close 1670-1723).
SessionIffEntry == DOMAIN devices = {sessions[t].dev : t \in DOMAIN sessions}

\* An auth hash lives exactly as long as its session, so a stale hash never
\* authenticates a transport (get_device_by_ws_auth 1774-1787).
HashIffSession == wsAuthHashes = DOMAIN sessions

\* The NM hot path serves exactly the clients with a sink and an active NM
\* session, and always through the Entry that is published now: a missed
\* refresh would leave a tab without input, a stale one would resurrect the
\* queue of a dead lifetime (refresh_nm_hot_locked 654-696).
HotExact ==
    /\ DOMAIN nmHot = {k \in Client \X Device : k[1] \in nmSinks /\ NmActive(sessions, k[1], k[2])}
    /\ \A k \in DOMAIN nmHot : k[2] \in DOMAIN devices /\ nmHot[k] = devices[k[2]]

\* A capability's flag is set exactly while it is the current capability of a
\* live session in that mode and generation; the connection that holds it is
\* the one whose disconnect will be taken for current (replace_/invalidate_
\* transport_validity 591-612, ws_connect 1482, ws_disconnect 1570).
CapabilityCurrent ==
    /\ DOMAIN transportValidity \subseteq DOMAIN sessions
    /\ capValid = {transportValidity[t] : t \in DOMAIN transportValidity}
    /\ \A t \in DOMAIN transportValidity :
         LET k == transportValidity[t]
         IN  /\ conn[k].phase = "up" /\ conn[k].tok = t
             /\ sessions[t].mode = conn[k].kind
             /\ sessions[t].gen[conn[k].kind] = conn[k].gen

\* What threads in a teardown have yet to take off non_nm_sessions, each as a
\* pair of the thread and a number (force_close 1733-1736 and the reader
\* 1272-1274 do so after the lock).
Debtors == ({"relay"} \X Client) \cup ({"reader"} \X Token)
DecOf(h) == IF h[1] = "relay" THEN relay[h[2]].td.dec ELSE reader[h[2]].td.dec
Owed == UNION {{h} \X (1..DecOf(h)) : h \in Debtors}

\* non_nm_sessions, by which readers decide whether to broadcast input at all,
\* is the number of WS/WT sessions plus what is owed: it never undercounts and
\* never underflows.
CountExact == nonNm = Cardinality(NonNm(DOMAIN sessions)) + Cardinality(Owed)

\* A reservation belongs to exactly one opener from its insertion to its
\* removal, and while it is there the device has no Entry but the opener's own,
\* and that only after its publication.  So the two branches of open_physical
\* that find another Entry (1086-1089, 1144-1148) are never taken, and two
\* physical opens of one device never overlap.
OpenerPcs == {"opening", "opened", "built", "release", "finish", "stopping", "joining"}
Opener(c) == client[c].pc \in OpenerPcs \ {"stopping", "joining"} \/ client[c].back = "finish"
ReservationExclusive ==
    /\ \A d \in DOMAIN opening :
         /\ \E c \in Client : Opener(c) /\ client[c].dev = d /\ client[c].tok = opening[d]
         /\ d \in DOMAIN devices =>
              /\ devices[d] = opening[d]
              /\ \E c \in Client : client[c].tok = opening[d] /\ client[c].pc \in {"release", "finish"}
    /\ \A c \in Client : Opener(c) =>
         client[c].dev \in DOMAIN opening /\ opening[client[c].dev] = client[c].tok

\* A token names one open() and at most one session: two openers never carry the
\* same one, a pending open has not answered, and a token that has had a session
\* answers no second open (open 944 mints it before any lock is taken).
Pending == {"attempt", "waiting", "opening", "opened", "built"}
TokenOnce ==
    /\ \A c \in Client : client[c].tok \in minted \cup {None}
    /\ \A c, e \in Client : client[c].tok = client[e].tok => c = e \/ client[c].tok = None
    /\ \A c \in Client : client[c].pc \in Pending => reply[client[c].tok] = "none"
    /\ \A t \in DOMAIN sessions : t \in minted /\ reply[t] = "ok"
    /\ \A t \in Token \ minted : reply[t] = "none"

\* No lost wakeup: a waiter that has not been notified awaits a reservation
\* whose opener has yet to call notify_waiters (961, 1027-1029).
WaiterHasNotifier ==
    \A c \in Client : client[c].pc = "waiting" /\ c \notin woken =>
        \E o \in Client : /\ client[o].tok = client[c].wait /\ client[o].dev = client[c].dev
                          /\ Opener(o) \/ client[o].pc = "notify"

\* A lifetime whose reservation force_close invalidated is never published,
\* nor published again (open_physical 1072-1085 and 1133-1143).
NoRevival == \A d \in DOMAIN devices : devices[d] \notin invalidated

\* The token of a published Entry has answered its open(), and is no other
\* device's reservation.
PublishedOnce ==
    \A d \in DOMAIN devices :
        /\ reply[devices[d]] = "ok"
        /\ \A e \in DOMAIN opening : opening[e] = devices[d] => e = d

\* The inductive invariant behind the proofs: which token is where in the open
\* protocol (open and open_physical 938-1160), and what that means for the maps.
IInv == /\ TypeOK /\ TokenOnce /\ HashIffSession /\ SessionIffEntry
        /\ ReservationExclusive /\ WaiterHasNotifier /\ PublishedOnce /\ NoRevival

\* Every Entry that left the map is held by exactly one thread, which will
\* stop it: none is leaked with its threads running, none is stopped twice.
Holders(l) == {<<"client", c>> : c \in {x \in Client : client[x].hold = l}}
                \cup {<<"relay", c>> : c \in {x \in Client : relay[x].td.hold = l}}
                \cup {<<"reader", r>> : r \in {x \in Token : reader[x].td.hold = l}}
HeldOnce ==
    \A l \in Token : /\ Cardinality(Holders(l)) <= 1
                     /\ life[l] = "detached" => Holders(l) # {}
                     /\ life[l] \in {"none", "handle", "built", "live"} => Holders(l) = {}

\* The end of one connection never revokes the capability of another one, be
\* it an older connection of the same session that ends late (ws_disconnect's
\* generation, mode and capability test 1585-1595).
DisconnectIsolated ==
    [][\A j, k \in Conn :
         j # k /\ conn[j].phase = "up" /\ conn'[j].phase = "done" /\ k \in capValid
           => k \in capValid']_vars

\* Ending one session leaves the others on its device as they were (the
\* comment on Session, 162-167); only the end of the whole device ends more.
EndsAlone ==
    [][\A t, u \in DOMAIN sessions :
         t \notin DOMAIN sessions' /\ u \in DOMAIN sessions' =>
           /\ sessions'[u] = sessions[u]
           /\ sessions[u].dev = sessions[t].dev =>
                DOMAIN sessions' = DOMAIN sessions \ {t} /\ sessions[t].dev \in DOMAIN devices'
           /\ u \in DOMAIN transportValidity =>
                u \in DOMAIN transportValidity' /\ transportValidity'[u] = transportValidity[u]]_vars

-----------------------------------------------------------------------------
(* Liveness *)

OpenPcs == {"attempt", "waiting", "opening", "opened", "built", "release", "finish", "notify"}

\* open() returns: no waiter sleeps through the notification of the opener it
\* waits for, whether that publishes, fails or is invalidated.
OpenReturns == \A c \in Client : client[c].pc \in OpenPcs ~> client[c].pc = "idle"

\* A published lifetime whose device went away is torn down, even when every
\* event about it was lost: its own reader fails.
LostLifetimeEnds ==
    \A l \in Token : (l \in lost /\ life[l] = "live") ~> life[l] # "live"

\* An Entry that left the map ends up with both threads gone.
TeardownCompletes == \A l \in Token : life[l] = "detached" ~> Joinable(l)

\* A connection that is not its session's transport any more (the session ended,
\* or changed its mode, or another connection took over) is not served: its task
\* leaves its select, or returns without entering it, however the revocation meets
\* the subscription (websocket.rs 111-119, webtransport.rs 316-323).  A WS task then
\* ends; a WT task may wait for its peer, but serves it no more.
AwaitsPeer(k) == conn[k].kind = "wt" /\ stage[k] # "serving"
RevokedIsNotServed ==
    \A k \in Conn :
      (conn[k].phase = "up" /\ ~ConnCurrent(k) /\ ~AwaitsPeer(k))
        ~> (conn[k].phase = "done" \/ AwaitsPeer(k))

-----------------------------------------------------------------------------
(* The abstract sessions *)

Sessions == INSTANCE HidSessions WITH
    holder <- devices,
    owner  <- [t \in DOMAIN sessions |-> sessions[t].owner],
    target <- [t \in DOMAIN sessions |-> sessions[t].dev],
    spent  <- {t \in Token : reply[t] = "ok"}

\* The manager implements the abstract sessions: every locked section is one
\* abstract step, everything else is a stutter.
Refines == Sessions!Spec
=============================================================================
