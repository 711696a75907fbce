------------------------- MODULE DeviceManagerProofs -------------------------
(***************************************************************************)
(* Proofs about DeviceManager, for every set of clients, devices, tokens   *)
(* and connections: type correctness, the inductive invariant of the open  *)
(* protocol and what follows from it, the refinement of HidSessions, and   *)
(* what the daemon keeps beside its sessions.                              *)
(*                                                                         *)
(* A few lemmas carry the case analyses over Next, one for each thing that *)
(* is tracked:                                                             *)
(*   LockedSection   the session maps                                      *)
(*   OpenerStep      the reservation protocol                              *)
(*   MovesStep       who holds an Entry that has left the map: a step      *)
(*                   keeps the holds, publishes an Entry, takes one out of *)
(*                   the map, or drops one after its threads were joined   *)
(*   TransportStep   capabilities, connections, sinks and NM bindings      *)
(*   AccountsStep    the count of WS/WT sessions and what teardowns owe it *)
(***************************************************************************)
EXTENDS DeviceManager, FiniteSetTheorems, TLAPS

-----------------------------------------------------------------------------
(* Maps *)

\* HashMap::insert keeps a map well typed.
LEMMA PutIsMap ==
    ASSUME NEW K, NEW V, NEW f, IsMap(f, K, V), NEW k \in K, NEW v \in V
    PROVE  IsMap(Put(f, k, v), K, V) /\ DOMAIN Put(f, k, v) = DOMAIN f \cup {k}
BY DEF IsMap, Put

\* HashMap::remove and retain keep a map well typed.
LEMMA DropIsMap ==
    ASSUME NEW K, NEW V, NEW f, IsMap(f, K, V), NEW S
    PROVE  IsMap(Drop(f, S), K, V) /\ DOMAIN Drop(f, S) = DOMAIN f \ S
BY DEF IsMap, Drop, Restrict

\* refresh_nm_hot_locked leaves a well-typed map of bindings.
LEMMA RefreshIsMap ==
    ASSUME IsMap(nmHot, Client \X Device, Token), NEW devs, IsMap(devs, Device, Token),
           NEW sess, NEW c \in Client, NEW d \in Device
    PROVE  IsMap(RefreshNmHot(c, d, sess, devs), Client \X Device, Token)
<1> DEFINE rest == Drop(nmHot, {<<c, d>>})
<1>1. IsMap(rest, Client \X Device, Token)
  BY DropIsMap
<1>2. CASE d \in DOMAIN devs
  <2>1. devs[d] \in Token /\ <<c, d>> \in Client \X Device
    BY <1>2 DEF IsMap
  <2>2. IsMap(Put(rest, <<c, d>>, devs[d]), Client \X Device, Token)
    BY <1>1, <2>1, PutIsMap
  <2> QED BY <1>1, <2>2 DEF RefreshNmHot
<1>3. CASE d \notin DOMAIN devs
  BY <1>1, <1>3 DEF RefreshNmHot
<1> QED BY <1>2, <1>3

\* invalidate_nm_hot_for_device_locked does, too.
LEMMA InvalidateIsMap ==
    ASSUME IsMap(nmHot, Client \X Device, Token), NEW d
    PROVE  IsMap(InvalidateNmHot(d), Client \X Device, Token)
BY DropIsMap DEF InvalidateNmHot

-----------------------------------------------------------------------------
(* The locked sections, field by field *)

\* The maps an open() touches stay well typed when it registers a session.
LEMMA RegisterType ==
    ASSUME ManagerTypeOK, ThreadTypeOK, NEW c \in Client, NEW d \in Device, NEW t \in Token,
           NEW devs, IsMap(devs, Device, Token), Register(c, d, t, devs)
    PROVE  /\ IsMap(sessions', Token, SessionRec) /\ IsFiniteSet(DOMAIN sessions')
           /\ wsAuthHashes' \subseteq Token
           /\ IsMap(nmHot', Client \X Device, Token)
           /\ reply' \in [Token -> {"none", "ok", "err"}]
<1> DEFINE rec == [dev |-> d, owner |-> c, mode |-> "nm", gen |-> [k \in Kinds |-> 0]]
<1>1. rec \in SessionRec
  BY DEF SessionRec, Modes, Kinds
<1>2. sessions' = Put(sessions, t, rec)
  BY DEF Register
<1>3. IsMap(sessions', Token, SessionRec) /\ DOMAIN sessions' = DOMAIN sessions \cup {t}
  <2>1. IsMap(sessions, Token, SessionRec)
    BY DEF ManagerTypeOK
  <2>2. /\ IsMap(Put(sessions, t, rec), Token, SessionRec)
        /\ DOMAIN Put(sessions, t, rec) = DOMAIN sessions \cup {t}
    BY ONLY <1>1, <2>1, t \in Token, PutIsMap
  <2> QED BY <1>2, <2>2
<1>4. IsFiniteSet(DOMAIN sessions')
  BY <1>3, FS_AddElement DEF ManagerTypeOK
<1>5. IsMap(nmHot', Client \X Device, Token)
  BY RefreshIsMap DEF ManagerTypeOK, Register
<1> QED BY <1>3, <1>4, <1>5 DEF Register, ManagerTypeOK, ThreadTypeOK

\* The Entry taken out of the map, or nothing.
LEMMA EntryOfType ==
    ASSUME ManagerTypeOK, NEW d
    PROVE  EntryOf(d) \in Token \cup {None}
BY DEF ManagerTypeOK, IsMap, EntryOf

LEMMA RemoveEntryType ==
    ASSUME ManagerTypeOK, LifetimeTypeOK, NEW d, RemoveEntry(d)
    PROVE  IsMap(devices', Device, Token) /\ life' \in [Token -> LifePhases]
<1>1. IsMap(devices', Device, Token)
  BY DropIsMap DEF RemoveEntry, ManagerTypeOK
<1> QED BY <1>1 DEF RemoveEntry, LifetimeTypeOK, LifePhases

\* What a teardown takes out of the maps is a teardown record.
LEMMA TakenType ==
    ASSUME ManagerTypeOK, NEW d
    PROVE  Taken(d) \in Teardown /\ Taken(d).hold = EntryOf(d)
<1>1. SessionsOn(d) \subseteq DOMAIN sessions /\ NonNm(SessionsOn(d)) \subseteq DOMAIN sessions
  BY DEF SessionsOn, NonNm
<1>2. Cardinality(NonNm(SessionsOn(d))) \in Nat
  BY <1>1, FS_Subset, FS_CardinalityType DEF ManagerTypeOK
<1> QED BY <1>1, <1>2, EntryOfType DEF Taken, Teardown, ManagerTypeOK, IsMap

\* The part that force_close and a dead reader share.
LEMMA DetachType ==
    ASSUME ManagerTypeOK, LifetimeTypeOK, OutsideTypeOK, NEW d, DetachLifetime(d)
    PROVE  /\ IsMap(devices', Device, Token)
           /\ IsMap(sessions', Token, SessionRec) /\ IsFiniteSet(DOMAIN sessions')
           /\ wsAuthHashes' \subseteq Token
           /\ IsMap(transportValidity', Token, Conn) /\ capValid' \subseteq Conn
           /\ IsMap(nmHot', Client \X Device, Token)
           /\ life' \in [Token -> LifePhases]
<1>1. IsMap(devices', Device, Token) /\ life' \in [Token -> LifePhases]
  BY RemoveEntryType DEF DetachLifetime
<1>2. IsMap(sessions', Token, SessionRec) /\ DOMAIN sessions' = DOMAIN sessions \ SessionsOn(d)
  <2>1. IsMap(sessions, Token, SessionRec)
    BY DEF ManagerTypeOK
  <2>2. sessions' = Drop(sessions, SessionsOn(d))
    BY DEF DetachLifetime
  <2>3. /\ IsMap(Drop(sessions, SessionsOn(d)), Token, SessionRec)
        /\ DOMAIN Drop(sessions, SessionsOn(d)) = DOMAIN sessions \ SessionsOn(d)
    BY ONLY <2>1, DropIsMap
  <2> QED BY <2>2, <2>3
<1>3. IsFiniteSet(DOMAIN sessions')
  BY <1>2, FS_Subset DEF ManagerTypeOK
<1>4. IsMap(transportValidity', Token, Conn)
  BY DropIsMap DEF DetachLifetime, ManagerTypeOK
<1>5. IsMap(nmHot', Client \X Device, Token)
  BY InvalidateIsMap DEF DetachLifetime, ManagerTypeOK
<1> QED BY <1>1, <1>2, <1>3, <1>4, <1>5 DEF DetachLifetime, ManagerTypeOK, OutsideTypeOK

\* The locked section of close().
LEMMA CloseSessionType ==
    ASSUME ManagerTypeOK, LifetimeTypeOK, OutsideTypeOK, NEW c \in Client,
           NEW t \in DOMAIN sessions, CloseSession(c, t)
    PROVE  /\ IsMap(devices', Device, Token)
           /\ IsMap(sessions', Token, SessionRec) /\ IsFiniteSet(DOMAIN sessions')
           /\ wsAuthHashes' \subseteq Token
           /\ IsMap(transportValidity', Token, Conn)
           /\ capValid' \subseteq Conn /\ cancelled' \subseteq Token
           /\ IsMap(nmHot', Client \X Device, Token)
           /\ life' \in [Token -> LifePhases]
           /\ nonNm' \in Int
           /\ HoldAfterClose(t) \in Token \cup {None}
<1> DEFINE d == sessions[t].dev
<1>1. t \in Token /\ d \in Device
  BY DEF ManagerTypeOK, IsMap, SessionRec
<1>2. IsMap(sessions', Token, SessionRec) /\ DOMAIN sessions' = DOMAIN sessions \ {t}
  <2>1. IsMap(sessions, Token, SessionRec)
    BY DEF ManagerTypeOK
  <2>2. sessions' = Drop(sessions, {t})
    BY DEF CloseSession
  <2>3. /\ IsMap(Drop(sessions, {t}), Token, SessionRec)
        /\ DOMAIN Drop(sessions, {t}) = DOMAIN sessions \ {t}
    BY ONLY <2>1, DropIsMap
  <2> QED BY <2>2, <2>3
<1>3. IsFiniteSet(DOMAIN sessions')
  BY <1>2, FS_Subset DEF ManagerTypeOK
<1>4. IsMap(transportValidity', Token, Conn)
  BY DropIsMap DEF CloseSession, ManagerTypeOK
<1>5. /\ IsMap(nmHot', Client \X Device, Token) /\ IsMap(devices', Device, Token)
      /\ life' \in [Token -> LifePhases]
  <2>1. CASE SessionsOn(d) = {t}
    <3>1. RemoveEntry(d) /\ nmHot' = InvalidateNmHot(d)
      BY <2>1 DEF CloseSession
    <3> QED BY <3>1, RemoveEntryType, InvalidateIsMap DEF ManagerTypeOK
  <2>2. CASE SessionsOn(d) # {t}
    <3>1. nmHot' = RefreshNmHot(c, d, sessions', devices) /\ devices' = devices /\ life' = life
      BY <2>2 DEF CloseSession
    <3> QED BY <1>1, <3>1, RefreshIsMap DEF ManagerTypeOK, LifetimeTypeOK
  <2> QED BY <2>1, <2>2
<1>6. nonNm' \in Int
  BY DEF CloseSession, CountChange, ManagerTypeOK
<1>7. HoldAfterClose(t) \in Token \cup {None}
  BY EntryOfType DEF HoldAfterClose
<1> QED BY <1>1, <1>2, <1>3, <1>4, <1>5, <1>6, <1>7
        DEF CloseSession, ManagerTypeOK, OutsideTypeOK

-----------------------------------------------------------------------------
(* What an action leaves alone *)

\* The maps of the DeviceManager stay well typed in a step that leaves them.
LEMMA KeepManager ==
    ASSUME ManagerTypeOK, UNCHANGED mgrVars
    PROVE  ManagerTypeOK'
BY DEF ManagerTypeOK, mgrVars

\* So do the request loops, event tasks and replies,
LEMMA KeepThread ==
    ASSUME ThreadTypeOK, UNCHANGED thrVars
    PROVE  ThreadTypeOK'
BY DEF ThreadTypeOK, thrVars

\* the lifetimes with their readers and workers,
LEMMA KeepLife ==
    ASSUME LifetimeTypeOK, UNCHANGED lifeVars
    PROVE  LifetimeTypeOK'
BY DEF LifetimeTypeOK, lifeVars

\* and the connection tasks and devices.
LEMMA KeepOutside ==
    ASSUME OutsideTypeOK, UNCHANGED <<connVars, envVars>>
    PROVE  OutsideTypeOK'
BY DEF OutsideTypeOK, connVars, envVars

\* The locals of a request loop between two requests.
LEMMA IdleType == IdleClient \in ClientRec
BY DEF IdleClient, ClientRec, ClientPcs

\* A request loop that sets all its locals.
LEMMA SetClient ==
    ASSUME client \in [Client -> ClientRec], NEW c \in Client, NEW r \in ClientRec,
           client' = [client EXCEPT ![c] = r]
    PROVE  client' \in [Client -> ClientRec]
OBVIOUS

\* A request loop that only moves its program counter.
LEMMA GoType ==
    ASSUME client \in [Client -> ClientRec], NEW c \in Client, NEW p \in ClientPcs, Go(c, p)
    PROVE  client' \in [Client -> ClientRec]
BY DEF Go, ClientRec

\* Broadcasting an event keeps the receivers well typed.
LEMMA BroadcastType ==
    ASSUME IsMap(events, Client, Seq(Device)), NEW d \in Device, Broadcast(d)
    PROVE  IsMap(events', Client, Seq(Device))
BY DEF IsMap, Broadcast

-----------------------------------------------------------------------------
(* One lemma per action: it keeps the state well typed *)

\* open() joins a published Entry.
LEMMA OpenJoinType ==
    ASSUME TypeOK, NEW c \in Client, OpenJoin(c)
    PROVE  TypeOK'
<1> DEFINE d == client[c].dev  t == client[c].tok
<1>0. /\ IsMap(sessions', Token, SessionRec) /\ IsFiniteSet(DOMAIN sessions')
      /\ wsAuthHashes' \subseteq Token
      /\ IsMap(nmHot', Client \X Device, Token)
      /\ reply' \in [Token -> {"none", "ok", "err"}]
  <2>1. d \in Device /\ t \in Token
    BY DEF TypeOK, LocalsOK, OpenJoin
  <2>2. Register(c, d, t, devices)
    BY DEF OpenJoin
  <2> QED BY <2>1, <2>2, RegisterType DEF TypeOK, ManagerTypeOK
<1>1. LifetimeTypeOK' /\ OutsideTypeOK'
  BY KeepLife, KeepOutside DEF TypeOK, OpenJoin
<1>2. ManagerTypeOK'
  BY <1>0 DEF TypeOK, ManagerTypeOK, OpenJoin, openVars
<1>3. ThreadTypeOK'
  <2>1. client' \in [Client -> ClientRec]
    BY IdleType, SetClient DEF TypeOK, ThreadTypeOK, OpenJoin, GoIdle
  <2> QED BY <1>0, <2>1 DEF TypeOK, ThreadTypeOK, OpenJoin
<1>4. LocalsOK'
  BY <1>0 DEF TypeOK, LocalsOK, ThreadTypeOK, LifetimeTypeOK, OpenJoin, lifeVars,
    GoIdle, IdleClient
<1> QED BY <1>1, <1>2, <1>3, <1>4 DEF TypeOK

\* open() finds a reservation and waits for it.
LEMMA OpenWaitType ==
    ASSUME TypeOK, NEW c \in Client, OpenWait(c)
    PROVE  TypeOK'
<1>1. ManagerTypeOK' /\ LifetimeTypeOK' /\ OutsideTypeOK'
  BY KeepManager, KeepLife, KeepOutside DEF TypeOK, OpenWait
<1>2. ThreadTypeOK'
  <2> DEFINE r == [client[c] EXCEPT !.pc = "waiting", !.wait = opening[client[c].dev]]
  <2>1. r \in ClientRec
    <3>1. client[c] \in ClientRec /\ opening[client[c].dev] \in Token
      BY DEF TypeOK, ThreadTypeOK, ManagerTypeOK, IsMap, OpenWait
    <3> QED BY <3>1 DEF ClientRec, ClientPcs
  <2>2. client' = [client EXCEPT ![c] = r]
    BY DEF TypeOK, ThreadTypeOK, OpenWait
  <2>3. client' \in [Client -> ClientRec]
    BY <2>1, <2>2, SetClient DEF TypeOK, ThreadTypeOK
  <2> QED BY <2>3 DEF TypeOK, ThreadTypeOK, OpenWait
<1>3. LocalsOK'
  BY DEF TypeOK, LocalsOK, ThreadTypeOK, LifetimeTypeOK, OpenWait, lifeVars, ClientRec
<1> QED BY <1>1, <1>2, <1>3 DEF TypeOK

\* open() reserves the device.
LEMMA OpenReserveType ==
    ASSUME TypeOK, NEW c \in Client, OpenReserve(c)
    PROVE  TypeOK'
<1>0. client[c].dev \in Device /\ client[c].tok \in Token
  BY DEF TypeOK, LocalsOK, OpenReserve
<1>1. LifetimeTypeOK' /\ OutsideTypeOK'
  BY KeepLife, KeepOutside DEF TypeOK, OpenReserve
<1>2. ManagerTypeOK'
  <2>1. IsMap(opening', Device, Token)
    BY <1>0, PutIsMap DEF TypeOK, ManagerTypeOK, OpenReserve
  <2> QED BY <2>1 DEF TypeOK, ManagerTypeOK, OpenReserve
<1>3. ThreadTypeOK'
  <2>1. client' \in [Client -> ClientRec]
    BY GoType DEF TypeOK, ThreadTypeOK, OpenReserve, ClientPcs
  <2> QED BY <2>1 DEF TypeOK, ThreadTypeOK, OpenReserve
<1>4. LocalsOK'
  BY <1>0 DEF TypeOK, LocalsOK, ThreadTypeOK, LifetimeTypeOK, OpenReserve, lifeVars, Go,
    ClientRec
<1> QED BY <1>1, <1>2, <1>3, <1>4 DEF TypeOK

\* A notified waiter joins the Entry.
LEMMA WaiterJoinType ==
    ASSUME TypeOK, NEW c \in Client, WaiterJoin(c)
    PROVE  TypeOK'
<1> DEFINE d == client[c].dev  t == client[c].tok
<1>0. /\ IsMap(sessions', Token, SessionRec) /\ IsFiniteSet(DOMAIN sessions')
      /\ wsAuthHashes' \subseteq Token
      /\ IsMap(nmHot', Client \X Device, Token)
      /\ reply' \in [Token -> {"none", "ok", "err"}]
  <2>1. d \in Device /\ t \in Token
    BY DEF TypeOK, LocalsOK, WaiterJoin
  <2>2. Register(c, d, t, devices)
    BY DEF WaiterJoin
  <2> QED BY <2>1, <2>2, RegisterType DEF TypeOK, ManagerTypeOK
<1>1. LifetimeTypeOK' /\ OutsideTypeOK'
  BY KeepLife, KeepOutside DEF TypeOK, WaiterJoin
<1>2. ManagerTypeOK'
  BY <1>0 DEF TypeOK, ManagerTypeOK, WaiterJoin, openVars
<1>3. ThreadTypeOK'
  <2>1. client' \in [Client -> ClientRec]
    BY IdleType, SetClient DEF TypeOK, ThreadTypeOK, WaiterJoin, GoIdle
  <2> QED BY <1>0, <2>1 DEF TypeOK, ThreadTypeOK, WaiterJoin
<1>4. LocalsOK'
  BY <1>0 DEF TypeOK, LocalsOK, ThreadTypeOK, LifetimeTypeOK, WaiterJoin, lifeVars,
    GoIdle, IdleClient
<1> QED BY <1>1, <1>2, <1>3, <1>4 DEF TypeOK

\* A notified waiter finds another reservation.
LEMMA WaiterRetryType ==
    ASSUME TypeOK, NEW c \in Client, WaiterRetry(c)
    PROVE  TypeOK'
<1>1. ManagerTypeOK' /\ LifetimeTypeOK' /\ OutsideTypeOK'
  BY KeepManager, KeepLife, KeepOutside DEF TypeOK, WaiterRetry
<1>2. ThreadTypeOK'
  <2> DEFINE r == [client[c] EXCEPT !.pc = "attempt", !.wait = None]
  <2>1. r \in ClientRec
    BY DEF TypeOK, ThreadTypeOK, ClientRec, ClientPcs, WaiterRetry
  <2>2. client' = [client EXCEPT ![c] = r]
    BY DEF TypeOK, ThreadTypeOK, WaiterRetry
  <2>3. client' \in [Client -> ClientRec]
    BY <2>1, <2>2, SetClient DEF TypeOK, ThreadTypeOK
  <2> QED BY <2>3 DEF TypeOK, ThreadTypeOK, WaiterRetry
<1>3. LocalsOK'
  BY DEF TypeOK, LocalsOK, ThreadTypeOK, LifetimeTypeOK, WaiterRetry, lifeVars,
    ClientRec
<1> QED BY <1>1, <1>2, <1>3 DEF TypeOK

\* A notified waiter finds nothing.
LEMMA WaiterFailType ==
    ASSUME TypeOK, NEW c \in Client, WaiterFail(c)
    PROVE  TypeOK'
<1>0. client[c].dev \in Device /\ client[c].tok \in Token
  BY DEF TypeOK, LocalsOK, WaiterFail
<1>1. ManagerTypeOK' /\ LifetimeTypeOK' /\ OutsideTypeOK'
  BY KeepManager, KeepLife, KeepOutside DEF TypeOK, WaiterFail
<1>2. ThreadTypeOK'
  <2>1. client' \in [Client -> ClientRec]
    BY IdleType, SetClient DEF TypeOK, ThreadTypeOK, WaiterFail, GoIdle
  <2> QED BY <1>0, <2>1 DEF TypeOK, ThreadTypeOK, WaiterFail
<1>3. LocalsOK'
  BY <1>0 DEF TypeOK, LocalsOK, ThreadTypeOK, LifetimeTypeOK, WaiterFail, lifeVars,
    GoIdle, IdleClient
<1> QED BY <1>1, <1>2, <1>3 DEF TypeOK

\* The HID open succeeds.
LEMMA PhysicalOpenType ==
    ASSUME TypeOK, NEW c \in Client, PhysicalOpen(c)
    PROVE  TypeOK'
<1>0. client[c].dev \in Device /\ client[c].tok \in Token
  BY DEF TypeOK, LocalsOK, PhysicalOpen
<1>1. ManagerTypeOK' /\ OutsideTypeOK'
  BY KeepManager, KeepOutside DEF TypeOK, PhysicalOpen
<1>2. ThreadTypeOK'
  <2>1. client' \in [Client -> ClientRec]
    BY GoType DEF TypeOK, ThreadTypeOK, PhysicalOpen, ClientPcs
  <2> QED BY <2>1 DEF TypeOK, ThreadTypeOK, PhysicalOpen
<1>3. LifetimeTypeOK'
  BY <1>0 DEF TypeOK, LifetimeTypeOK, LifePhases, PhysicalOpen
<1>4. LocalsOK'
  BY <1>0 DEF TypeOK, LocalsOK, ThreadTypeOK, LifetimeTypeOK, PhysicalOpen, Go,
    ClientRec
<1> QED BY <1>1, <1>2, <1>3, <1>4 DEF TypeOK

\* The HID open fails.
LEMMA PhysicalOpenFailType ==
    ASSUME TypeOK, NEW c \in Client, PhysicalOpenFail(c)
    PROVE  TypeOK'
<1>0. client[c].dev \in Device /\ client[c].tok \in Token
  BY DEF TypeOK, LocalsOK, PhysicalOpenFail
<1>1. ManagerTypeOK' /\ LifetimeTypeOK' /\ OutsideTypeOK'
  BY KeepManager, KeepLife, KeepOutside DEF TypeOK, PhysicalOpenFail
<1>2. ThreadTypeOK'
  <2>1. client' \in [Client -> ClientRec]
    BY GoType DEF TypeOK, ThreadTypeOK, PhysicalOpenFail, ClientPcs
  <2> QED BY <1>0, <2>1 DEF TypeOK, ThreadTypeOK, PhysicalOpenFail
<1>3. LocalsOK'
  BY <1>0 DEF TypeOK, LocalsOK, ThreadTypeOK, LifetimeTypeOK, PhysicalOpenFail,
    lifeVars, Go, ClientRec
<1> QED BY <1>1, <1>2, <1>3 DEF TypeOK

\* The reader and the worker are spawned.
LEMMA OpenBuildType ==
    ASSUME TypeOK, NEW c \in Client, OpenBuild(c)
    PROVE  TypeOK'
<1>0. client[c].dev \in Device /\ client[c].tok \in Token
  BY DEF TypeOK, LocalsOK, OpenBuild
<1>1. ManagerTypeOK' /\ OutsideTypeOK'
  BY KeepManager, KeepOutside DEF TypeOK, OpenBuild
<1>2. ThreadTypeOK'
  <2>1. client' \in [Client -> ClientRec]
    BY GoType DEF TypeOK, ThreadTypeOK, OpenBuild, ClientPcs
  <2> QED BY <2>1 DEF TypeOK, ThreadTypeOK, OpenBuild
<1>3. LifetimeTypeOK'
  BY <1>0 DEF TypeOK, LifetimeTypeOK, LifePhases, ReaderRec, ReaderPcs, OpenBuild
<1>4. LocalsOK'
  BY <1>0 DEF TypeOK, LocalsOK, ThreadTypeOK, LifetimeTypeOK, OpenBuild, Go, ClientRec,
    ReaderRec
<1> QED BY <1>1, <1>2, <1>3, <1>4 DEF TypeOK

\* The handle of an invalidated open is dropped.
LEMMA OpenAbandonType ==
    ASSUME TypeOK, NEW c \in Client, OpenAbandon(c)
    PROVE  TypeOK'
<1>0. client[c].dev \in Device /\ client[c].tok \in Token
  BY DEF TypeOK, LocalsOK, OpenAbandon
<1>1. ManagerTypeOK' /\ OutsideTypeOK'
  BY KeepManager, KeepOutside DEF TypeOK, OpenAbandon
<1>2. ThreadTypeOK'
  <2>1. client' \in [Client -> ClientRec]
    BY GoType DEF TypeOK, ThreadTypeOK, OpenAbandon, ClientPcs
  <2> QED BY <1>0, <2>1 DEF TypeOK, ThreadTypeOK, OpenAbandon
<1>3. LifetimeTypeOK'
  BY <1>0 DEF TypeOK, LifetimeTypeOK, LifePhases, ReaderRec, ReaderPcs, OpenAbandon
<1>4. LocalsOK'
  BY <1>0 DEF TypeOK, LocalsOK, ThreadTypeOK, LifetimeTypeOK, OpenAbandon, Go, ClientRec
<1> QED BY <1>1, <1>2, <1>3, <1>4 DEF TypeOK

\* The Entry and its first session are published.
LEMMA OpenPublishType ==
    ASSUME TypeOK, NEW c \in Client, OpenPublish(c)
    PROVE  TypeOK'
<1> DEFINE d == client[c].dev  t == client[c].tok
<1>a. d \in Device /\ t \in Token
  BY DEF TypeOK, LocalsOK, OpenPublish
<1>b. IsMap(devices', Device, Token)
  <2>1. IsMap(devices, Device, Token) /\ devices' = Put(devices, d, t)
    BY DEF TypeOK, ManagerTypeOK, OpenPublish
  <2>2. IsMap(Put(devices, d, t), Device, Token)
    BY ONLY <1>a, <2>1, PutIsMap
  <2> QED BY <2>1, <2>2
<1>0. /\ IsMap(sessions', Token, SessionRec) /\ IsFiniteSet(DOMAIN sessions')
      /\ wsAuthHashes' \subseteq Token
      /\ IsMap(nmHot', Client \X Device, Token)
      /\ reply' \in [Token -> {"none", "ok", "err"}]
  <2>1. Register(c, d, t, devices')
    BY DEF OpenPublish
  <2> QED BY <1>a, <1>b, <2>1, RegisterType DEF TypeOK
<1>1. OutsideTypeOK'
  BY KeepOutside DEF TypeOK, OpenPublish
<1>2. ManagerTypeOK'
  BY <1>b, <1>0 DEF TypeOK, ManagerTypeOK, OpenPublish, openVars
<1>3. ThreadTypeOK'
  <2>1. client' \in [Client -> ClientRec]
    BY GoType DEF TypeOK, ThreadTypeOK, OpenPublish, ClientPcs
  <2> QED BY <1>0, <2>1 DEF TypeOK, ThreadTypeOK, OpenPublish
<1>4. LifetimeTypeOK'
  BY <1>a DEF TypeOK, LifetimeTypeOK, LifePhases, OpenPublish
<1>5. LocalsOK'
  BY <1>a DEF TypeOK, LocalsOK, ThreadTypeOK, OpenPublish, Go, ClientRec
<1> QED BY <1>1, <1>2, <1>3, <1>4, <1>5 DEF TypeOK

\* The Entry of an invalidated open is kept for stop_entry.
LEMMA OpenDiscardType ==
    ASSUME TypeOK, NEW c \in Client, OpenDiscard(c)
    PROVE  TypeOK'
<1>0. client[c].dev \in Device /\ client[c].tok \in Token
  BY DEF TypeOK, LocalsOK, OpenDiscard
<1>1. ManagerTypeOK' /\ OutsideTypeOK'
  BY KeepManager, KeepOutside DEF TypeOK, OpenDiscard
<1>2. ThreadTypeOK'
  <2> DEFINE r == [client[c] EXCEPT !.pc = "stopping",
                                   !.hold = client[c].tok,
                                   !.back = "finish"]
  <2>1. r \in ClientRec
    BY <1>0 DEF TypeOK, ThreadTypeOK, ClientRec, ClientPcs, OpenDiscard
  <2>2. client' = [client EXCEPT ![c] = r]
    BY DEF TypeOK, ThreadTypeOK, OpenDiscard
  <2>3. client' \in [Client -> ClientRec]
    BY <2>1, <2>2, SetClient DEF TypeOK, ThreadTypeOK
  <2> QED BY <1>0, <2>3 DEF TypeOK, ThreadTypeOK, OpenDiscard
<1>3. LifetimeTypeOK'
  BY <1>0 DEF TypeOK, LifetimeTypeOK, LifePhases, OpenDiscard
<1>4. LocalsOK'
  BY <1>0 DEF TypeOK, LocalsOK, ThreadTypeOK, LifetimeTypeOK, OpenDiscard, ClientRec
<1> QED BY <1>1, <1>2, <1>3, <1>4 DEF TypeOK

\* The start gate is released.
LEMMA OpenReleaseType ==
    ASSUME TypeOK, NEW c \in Client, OpenRelease(c)
    PROVE  TypeOK'
<1>0. client[c].dev \in Device /\ client[c].tok \in Token
  BY DEF TypeOK, LocalsOK, OpenRelease
<1>1. ManagerTypeOK' /\ OutsideTypeOK'
  BY KeepManager, KeepOutside DEF TypeOK, OpenRelease
<1>2. ThreadTypeOK'
  <2>1. client' \in [Client -> ClientRec]
    BY GoType DEF TypeOK, ThreadTypeOK, OpenRelease, ClientPcs
  <2> QED BY <2>1 DEF TypeOK, ThreadTypeOK, OpenRelease
<1>3. LifetimeTypeOK'
  BY <1>0 DEF TypeOK, LifetimeTypeOK, OpenRelease
<1>4. LocalsOK'
  BY <1>0 DEF TypeOK, LocalsOK, ThreadTypeOK, LifetimeTypeOK, OpenRelease, Go, ClientRec
<1> QED BY <1>1, <1>2, <1>3, <1>4 DEF TypeOK

\* The reservation is taken out.
LEMMA OpenFinishType ==
    ASSUME TypeOK, NEW c \in Client, OpenFinish(c)
    PROVE  TypeOK'
<1>1. LifetimeTypeOK' /\ OutsideTypeOK'
  BY KeepLife, KeepOutside DEF TypeOK, OpenFinish
<1>2. ManagerTypeOK'
  <2>1. IsMap(opening', Device, Token)
    BY DropIsMap DEF TypeOK, ManagerTypeOK, OpenFinish
  <2> QED BY <2>1 DEF TypeOK, ManagerTypeOK, OpenFinish
<1>3. ThreadTypeOK'
  <2>1. client' \in [Client -> ClientRec]
    BY GoType DEF TypeOK, ThreadTypeOK, OpenFinish, ClientPcs
  <2> QED BY <2>1 DEF TypeOK, ThreadTypeOK, OpenFinish
<1>4. LocalsOK'
  BY DEF TypeOK, LocalsOK, ThreadTypeOK, LifetimeTypeOK, OpenFinish, lifeVars, Go,
    ClientRec
<1> QED BY <1>1, <1>2, <1>3, <1>4 DEF TypeOK

\* The waiters are notified.
LEMMA OpenNotifyType ==
    ASSUME TypeOK, NEW c \in Client, OpenNotify(c)
    PROVE  TypeOK'
<1>1. ManagerTypeOK' /\ LifetimeTypeOK' /\ OutsideTypeOK'
  BY KeepManager, KeepLife, KeepOutside DEF TypeOK, OpenNotify
<1>2. ThreadTypeOK'
  <2>1. client' \in [Client -> ClientRec]
    BY IdleType, SetClient DEF TypeOK, ThreadTypeOK, OpenNotify, GoIdle
  <2> QED BY <2>1 DEF TypeOK, ThreadTypeOK, OpenNotify, Notify
<1>3. LocalsOK'
  BY DEF TypeOK, LocalsOK, ThreadTypeOK, LifetimeTypeOK, OpenNotify, lifeVars, GoIdle,
    IdleClient
<1> QED BY <1>1, <1>2, <1>3 DEF TypeOK

\* stop_entry signals the threads of the Entry the loop holds.
LEMMA ClientStopType ==
    ASSUME TypeOK, NEW c \in Client, ClientStop(c)
    PROVE  TypeOK'
<1>0. client[c].hold \in Token
  BY DEF TypeOK, LocalsOK, ClientStop
<1>1. ManagerTypeOK' /\ OutsideTypeOK'
  BY KeepManager, KeepOutside DEF TypeOK, ClientStop
<1>2. ThreadTypeOK'
  <2>1. client' \in [Client -> ClientRec]
    BY GoType DEF TypeOK, ThreadTypeOK, ClientStop, ClientPcs
  <2> QED BY <2>1 DEF TypeOK, ThreadTypeOK, ClientStop
<1>3. LifetimeTypeOK'
  BY <1>0 DEF TypeOK, LifetimeTypeOK, LifePhases, ClientStop, StopEntry
<1>4. LocalsOK'
  BY <1>0 DEF TypeOK, LocalsOK, ThreadTypeOK, LifetimeTypeOK, ClientStop, Go, ClientRec,
    StopEntry
<1> QED BY <1>1, <1>2, <1>3, <1>4 DEF TypeOK

\* stop_entry returns.
LEMMA ClientJoinType ==
    ASSUME TypeOK, NEW c \in Client, ClientJoin(c)
    PROVE  TypeOK'
<1>0. client[c].back \in {"idle", "finish", "draining"}
  BY DEF TypeOK, LocalsOK
<1>1. ManagerTypeOK' /\ LifetimeTypeOK' /\ OutsideTypeOK'
  BY KeepManager, KeepLife, KeepOutside DEF TypeOK, ClientJoin
<1>2. ThreadTypeOK'
  <2> DEFINE r == [client[c] EXCEPT !.pc = client[c].back, !.hold = None, !.back = "idle"]
  <2>1. r \in ClientRec
    BY <1>0 DEF TypeOK, ThreadTypeOK, ClientRec, ClientPcs, ClientJoin
  <2>2. client' = [client EXCEPT ![c] = r]
    BY DEF TypeOK, ThreadTypeOK, ClientJoin
  <2>3. client' \in [Client -> ClientRec]
    BY <2>1, <2>2, SetClient DEF TypeOK, ThreadTypeOK
  <2> QED BY <2>3 DEF TypeOK, ThreadTypeOK, ClientJoin
<1>3. LocalsOK'
  BY <1>0 DEF TypeOK, LocalsOK, ThreadTypeOK, LifetimeTypeOK, ClientJoin, lifeVars,
    ClientRec
<1> QED BY <1>1, <1>2, <1>3 DEF TypeOK

\* close_all_for_client closes a session of its snapshot.
LEMMA DrainCloseType ==
    ASSUME TypeOK, NEW c \in Client, NEW t \in Token, DrainClose(c, t)
    PROVE  TypeOK'
<1>0. /\ IsMap(devices', Device, Token)
      /\ IsMap(sessions', Token, SessionRec) /\ IsFiniteSet(DOMAIN sessions')
      /\ wsAuthHashes' \subseteq Token
      /\ IsMap(transportValidity', Token, Conn)
      /\ capValid' \subseteq Conn /\ cancelled' \subseteq Token
      /\ IsMap(nmHot', Client \X Device, Token)
      /\ life' \in [Token -> LifePhases]
      /\ nonNm' \in Int
      /\ HoldAfterClose(t) \in Token \cup {None}
  <2>1. t \in DOMAIN sessions /\ CloseSession(c, t)
    BY DEF DrainClose, MayClose
  <2> QED BY <2>1, CloseSessionType DEF TypeOK
<1>1. ManagerTypeOK'
  BY <1>0 DEF TypeOK, ManagerTypeOK, DrainClose, openVars
<1>2. ThreadTypeOK'
  <2> DEFINE r == [client[c] EXCEPT !.pc = IF HoldAfterClose(t) = None THEN "draining" ELSE "stopping",
                                   !.hold = HoldAfterClose(t),
                                   !.back = "draining",
                                   !.todo = @ \ {t}]
  <2>1. r \in ClientRec
    BY <1>0 DEF TypeOK, ThreadTypeOK, ClientRec, ClientPcs, DrainClose
  <2>2. client' = [client EXCEPT ![c] = r]
    BY DEF TypeOK, ThreadTypeOK, DrainClose
  <2>3. client' \in [Client -> ClientRec]
    BY <2>1, <2>2, SetClient DEF TypeOK, ThreadTypeOK
  <2> QED BY <2>3 DEF TypeOK, ThreadTypeOK, DrainClose
<1>3. LifetimeTypeOK'
  BY <1>0 DEF TypeOK, LifetimeTypeOK, DrainClose
<1>4. OutsideTypeOK'
  BY <1>0 DEF TypeOK, OutsideTypeOK, DrainClose, envVars
<1>5. LocalsOK'
  BY <1>0 DEF TypeOK, LocalsOK, ThreadTypeOK, LifetimeTypeOK, DrainClose, ClientRec
<1> QED BY <1>1, <1>2, <1>3, <1>4, <1>5 DEF TypeOK

\* A session of the snapshot has ended already.
LEMMA DrainSkipType ==
    ASSUME TypeOK, NEW c \in Client, NEW t \in Token, DrainSkip(c, t)
    PROVE  TypeOK'
<1>1. ManagerTypeOK' /\ LifetimeTypeOK' /\ OutsideTypeOK'
  BY KeepManager, KeepLife, KeepOutside DEF TypeOK, DrainSkip
<1>2. ThreadTypeOK'
  <2> DEFINE r == [client[c] EXCEPT !.todo = @ \ {t}]
  <2>1. r \in ClientRec
    BY DEF TypeOK, ThreadTypeOK, ClientRec, ClientPcs, DrainSkip
  <2>2. client' = [client EXCEPT ![c] = r]
    BY DEF TypeOK, ThreadTypeOK, DrainSkip
  <2>3. client' \in [Client -> ClientRec]
    BY <2>1, <2>2, SetClient DEF TypeOK, ThreadTypeOK
  <2> QED BY <2>3 DEF TypeOK, ThreadTypeOK, DrainSkip
<1>3. LocalsOK'
  BY DEF TypeOK, LocalsOK, ThreadTypeOK, LifetimeTypeOK, DrainSkip, lifeVars, ClientRec
<1> QED BY <1>1, <1>2, <1>3 DEF TypeOK

\* The client is gone.
LEMMA ClientGoneType ==
    ASSUME TypeOK, NEW c \in Client, ClientGone(c)
    PROVE  TypeOK'
<1>1. ManagerTypeOK' /\ LifetimeTypeOK' /\ OutsideTypeOK'
  BY KeepManager, KeepLife, KeepOutside DEF TypeOK, ClientGone
<1>2. ThreadTypeOK'
  <2>1. client' \in [Client -> ClientRec]
    BY GoType DEF TypeOK, ThreadTypeOK, ClientGone, ClientPcs
  <2> QED BY <2>1 DEF TypeOK, ThreadTypeOK, ClientGone
<1>3. LocalsOK'
  BY DEF TypeOK, LocalsOK, ThreadTypeOK, LifetimeTypeOK, ClientGone, lifeVars, Go,
    ClientRec
<1> QED BY <1>1, <1>2, <1>3 DEF TypeOK

\* force_close, under the lock.
LEMMA RelayDisconnectType ==
    ASSUME TypeOK, NEW c \in Client, RelayDisconnect(c)
    PROVE  TypeOK'
<1> DEFINE d == Head(events[c])
<1>a. d \in Device /\ events' \in [DOMAIN events -> Seq(Device)]
  BY DEF TypeOK, ThreadTypeOK, IsMap, RelayDisconnect
<1>0. /\ IsMap(devices', Device, Token)
      /\ IsMap(sessions', Token, SessionRec) /\ IsFiniteSet(DOMAIN sessions')
      /\ wsAuthHashes' \subseteq Token
      /\ IsMap(transportValidity', Token, Conn) /\ capValid' \subseteq Conn
      /\ IsMap(nmHot', Client \X Device, Token)
      /\ life' \in [Token -> LifePhases]
  <2>1. DetachLifetime(d)
    BY DEF RelayDisconnect
  <2> QED BY <2>1, DetachType DEF TypeOK
<1>b. Taken(d) \in Teardown
  BY TakenType DEF TypeOK
<1>c. invalidated' \subseteq Token /\ woken' \subseteq Client
  BY DEF TypeOK, ManagerTypeOK, ThreadTypeOK, IsMap, RelayDisconnect, Notify
<1>1. ManagerTypeOK'
  BY <1>0, <1>c DEF TypeOK, ManagerTypeOK, RelayDisconnect
<1>2. ThreadTypeOK'
  <2>1. relay' \in [Client -> RelayRec]
    BY <1>b DEF TypeOK, ThreadTypeOK, RelayRec, RelayDisconnect
  <2>2. IsMap(events', Client, Seq(Device))
    BY <1>a DEF TypeOK, ThreadTypeOK, IsMap
  <2> QED BY <1>c, <2>1, <2>2 DEF TypeOK, ThreadTypeOK, RelayDisconnect
<1>3. LifetimeTypeOK'
  BY <1>0 DEF TypeOK, LifetimeTypeOK, RelayDisconnect
<1>4. OutsideTypeOK'
  BY <1>0 DEF TypeOK, OutsideTypeOK, RelayDisconnect, envVars
<1>5. LocalsOK'
  BY <1>0 DEF TypeOK, LocalsOK, ThreadTypeOK, LifetimeTypeOK, RelayDisconnect, RelayRec
<1> QED BY <1>1, <1>2, <1>3, <1>4, <1>5 DEF TypeOK

\* force_close, after the lock.
LEMMA RelayPostType ==
    ASSUME TypeOK, NEW c \in Client, RelayPost(c)
    PROVE  TypeOK'
<1>0. relay[c].td \in Teardown
  BY DEF TypeOK, ThreadTypeOK, RelayRec
<1>1. LifetimeTypeOK'
  BY KeepLife DEF TypeOK, RelayPost
<1>2. ManagerTypeOK'
  BY <1>0 DEF TypeOK, ManagerTypeOK, Teardown, RelayPost, openVars
<1>3. ThreadTypeOK'
  BY <1>0 DEF TypeOK, ThreadTypeOK, RelayRec, Teardown, NoTeardown, RelayPost
<1>4. OutsideTypeOK'
  BY <1>0 DEF TypeOK, OutsideTypeOK, Teardown, RelayPost, envVars
<1>5. LocalsOK'
  BY <1>0 DEF TypeOK, LocalsOK, ThreadTypeOK, LifetimeTypeOK, RelayPost, lifeVars,
    RelayRec, Teardown, NoTeardown
<1> QED BY <1>1, <1>2, <1>3, <1>4, <1>5 DEF TypeOK

\* stop_entry signals the threads of the Entry force_close took out.
LEMMA RelayStopType ==
    ASSUME TypeOK, NEW c \in Client, RelayStop(c)
    PROVE  TypeOK'
<1>0. relay[c].td.hold \in Token
  BY DEF TypeOK, LocalsOK, RelayStop
<1>1. ManagerTypeOK' /\ OutsideTypeOK'
  BY KeepManager, KeepOutside DEF TypeOK, RelayStop
<1>2. ThreadTypeOK'
  BY DEF TypeOK, ThreadTypeOK, RelayRec, RelayStop
<1>3. LifetimeTypeOK'
  BY <1>0 DEF TypeOK, LifetimeTypeOK, LifePhases, RelayStop, StopEntry
<1>4. LocalsOK'
  BY <1>0 DEF TypeOK, LocalsOK, ThreadTypeOK, LifetimeTypeOK, RelayStop, RelayRec
<1> QED BY <1>1, <1>2, <1>3, <1>4 DEF TypeOK

\* force_close returns.
LEMMA RelayJoinType ==
    ASSUME TypeOK, NEW c \in Client, RelayJoin(c)
    PROVE  TypeOK'
<1>1. ManagerTypeOK' /\ LifetimeTypeOK' /\ OutsideTypeOK'
  BY KeepManager, KeepLife, KeepOutside DEF TypeOK, RelayJoin
<1>2. ThreadTypeOK'
  BY DEF TypeOK, ThreadTypeOK, RelayRec, Teardown, NoTeardown, RelayJoin
<1>3. LocalsOK'
  BY DEF TypeOK, LocalsOK, ThreadTypeOK, LifetimeTypeOK, RelayJoin, lifeVars, RelayRec,
    NoTeardown
<1> QED BY <1>1, <1>2, <1>3 DEF TypeOK

\* A client connects.
LEMMA ClientConnectType ==
    ASSUME TypeOK, NEW c \in Client, ClientConnect(c)
    PROVE  TypeOK'
<1>1. LifetimeTypeOK' /\ OutsideTypeOK'
  BY KeepLife, KeepOutside DEF TypeOK, ClientConnect
<1>2. ManagerTypeOK'
  BY DEF TypeOK, ManagerTypeOK, ClientConnect, openVars
<1>3. ThreadTypeOK'
  <2>1. client' \in [Client -> ClientRec]
    BY IdleType, SetClient DEF TypeOK, ThreadTypeOK, ClientConnect, GoIdle
  <2>2. IsMap(events', Client, Seq(Device))
    <3>1. /\ <<>> \in Seq(Device) /\ IsMap(events, Client, Seq(Device))
          /\ events' = Put(events, c, <<>>)
      BY DEF TypeOK, ThreadTypeOK, ClientConnect
    <3> QED BY ONLY <3>1, c \in Client, PutIsMap
  <2> QED BY <2>1, <2>2 DEF TypeOK, ThreadTypeOK, ClientConnect
<1>4. LocalsOK'
  BY DEF TypeOK, LocalsOK, ThreadTypeOK, LifetimeTypeOK, ClientConnect, lifeVars,
    GoIdle, IdleClient
<1> QED BY <1>1, <1>2, <1>3, <1>4 DEF TypeOK

\* The request loop of a client ends.
LEMMA ClientEofType ==
    ASSUME TypeOK, NEW c \in Client, ClientEof(c)
    PROVE  TypeOK'
<1>1. LifetimeTypeOK' /\ OutsideTypeOK'
  BY KeepLife, KeepOutside DEF TypeOK, ClientEof
<1>2. ManagerTypeOK'
  <2>1. IsMap(nmHot', Client \X Device, Token)
    BY DropIsMap DEF TypeOK, ManagerTypeOK, ClientEof
  <2> QED BY <2>1 DEF TypeOK, ManagerTypeOK, ClientEof, openVars
<1>3. ThreadTypeOK'
  <2>1. [IdleClient EXCEPT !.pc = "draining", !.todo = OwnedBy(c)] \in ClientRec
    <3>1. OwnedBy(c) \in SUBSET Token
      BY DEF TypeOK, ManagerTypeOK, IsMap, OwnedBy
    <3> QED BY <3>1, IdleType DEF ClientRec, ClientPcs
  <2>2. client' \in [Client -> ClientRec]
    BY <2>1, SetClient DEF TypeOK, ThreadTypeOK, ClientEof
  <2>3. IsMap(events', Client, Seq(Device))
    BY DropIsMap DEF TypeOK, ThreadTypeOK, ClientEof
  <2> QED BY <2>2, <2>3 DEF TypeOK, ThreadTypeOK, ClientEof
<1>4. LocalsOK'
  BY DEF TypeOK, LocalsOK, ThreadTypeOK, LifetimeTypeOK, ClientEof, lifeVars, IdleClient
<1> QED BY <1>1, <1>2, <1>3, <1>4 DEF TypeOK

\* An open request arrives and mints its token.
LEMMA OpenCallType ==
    ASSUME TypeOK, NEW c \in Client, NEW d \in Device, NEW t \in Token, OpenCall(c, d, t)
    PROVE  TypeOK'
<1>1. ManagerTypeOK' /\ LifetimeTypeOK' /\ OutsideTypeOK'
  BY KeepManager, KeepLife, KeepOutside DEF TypeOK, OpenCall
<1>2. ThreadTypeOK'
  <2>1. [IdleClient EXCEPT !.pc = "attempt", !.dev = d, !.tok = t] \in ClientRec
    BY IdleType DEF ClientRec, ClientPcs
  <2>2. client' \in [Client -> ClientRec]
    BY <2>1, SetClient DEF TypeOK, ThreadTypeOK, OpenCall
  <2> QED BY <2>2 DEF TypeOK, ThreadTypeOK, OpenCall
<1>3. LocalsOK'
  BY DEF TypeOK, LocalsOK, ThreadTypeOK, LifetimeTypeOK, OpenCall, lifeVars, IdleClient
<1> QED BY <1>1, <1>2, <1>3 DEF TypeOK

\* A close request ends a session.
LEMMA CloseType ==
    ASSUME TypeOK, NEW c \in Client, NEW d \in Device, NEW t \in Token, Close(c, d, t)
    PROVE  TypeOK'
<1>0. /\ IsMap(devices', Device, Token)
      /\ IsMap(sessions', Token, SessionRec) /\ IsFiniteSet(DOMAIN sessions')
      /\ wsAuthHashes' \subseteq Token
      /\ IsMap(transportValidity', Token, Conn)
      /\ capValid' \subseteq Conn /\ cancelled' \subseteq Token
      /\ IsMap(nmHot', Client \X Device, Token)
      /\ life' \in [Token -> LifePhases]
      /\ nonNm' \in Int
      /\ HoldAfterClose(t) \in Token \cup {None}
  <2>1. t \in DOMAIN sessions /\ CloseSession(c, t)
    BY DEF Close, MayClose
  <2> QED BY <2>1, CloseSessionType DEF TypeOK
<1>1. ManagerTypeOK'
  BY <1>0 DEF TypeOK, ManagerTypeOK, Close, openVars
<1>2. ThreadTypeOK'
  <2> DEFINE r == [client[c] EXCEPT !.pc = IF HoldAfterClose(t) = None THEN "idle" ELSE "stopping",
                                   !.hold = HoldAfterClose(t),
                                   !.back = "idle"]
  <2>1. r \in ClientRec
    <3>1. client[c] \in ClientRec
      BY DEF TypeOK, ThreadTypeOK
    <3> QED BY <1>0, <3>1 DEF ClientRec, ClientPcs
  <2>2. client' = [client EXCEPT ![c] = r]
    BY DEF TypeOK, ThreadTypeOK, Close
  <2>3. client' \in [Client -> ClientRec]
    BY <2>1, <2>2, SetClient DEF TypeOK, ThreadTypeOK
  <2> QED BY <2>3 DEF TypeOK, ThreadTypeOK, Close
<1>3. LifetimeTypeOK'
  BY <1>0 DEF TypeOK, LifetimeTypeOK, Close
<1>4. OutsideTypeOK'
  BY <1>0 DEF TypeOK, OutsideTypeOK, Close, envVars
<1>5. LocalsOK'
  BY <1>0 DEF TypeOK, LocalsOK, ThreadTypeOK, LifetimeTypeOK, Close, ClientRec
<1> QED BY <1>1, <1>2, <1>3, <1>4, <1>5 DEF TypeOK

\* A client sets the data-plane mode of a session.
LEMMA SetDataplaneModeType ==
    ASSUME TypeOK, NEW c \in Client, NEW d \in Device, NEW t \in Token, NEW m \in AskModes,
           SetDataplaneMode(c, d, t, m)
    PROVE  TypeOK'
<1>a. t \in DOMAIN sessions /\ m \in Modes
  BY ModeAssumption DEF SetDataplaneMode, MayClose, Modes
<1>0. IsMap(sessions', Token, SessionRec) /\ IsFiniteSet(DOMAIN sessions')
  BY <1>a DEF TypeOK, ManagerTypeOK, IsMap, SessionRec, SetDataplaneMode
<1>b. IsMap(transportValidity', Token, Conn)
  BY DropIsMap DEF TypeOK, ManagerTypeOK, SetDataplaneMode
<1>c. IsMap(nmHot', Client \X Device, Token)
  BY RefreshIsMap DEF TypeOK, ManagerTypeOK, SetDataplaneMode
<1>d. nonNm' \in Int
  BY DEF TypeOK, ManagerTypeOK, SetDataplaneMode, CountChange
<1>1. ThreadTypeOK' /\ LifetimeTypeOK'
  BY KeepThread, KeepLife DEF TypeOK, SetDataplaneMode
<1>2. ManagerTypeOK'
  BY <1>0, <1>b, <1>c, <1>d DEF TypeOK, ManagerTypeOK, SetDataplaneMode, openVars
<1>3. OutsideTypeOK'
  BY DEF TypeOK, OutsideTypeOK, SetDataplaneMode, envVars
<1>4. LocalsOK'
  BY <1>0 DEF TypeOK, LocalsOK, ThreadTypeOK, LifetimeTypeOK, SetDataplaneMode,
    lifeVars, thrVars
<1> QED BY <1>1, <1>2, <1>3, <1>4 DEF TypeOK

\* A lagging receiver loses an event.
LEMMA EventLaggedType ==
    ASSUME TypeOK, NEW c \in Client, EventLagged(c)
    PROVE  TypeOK'
<1>1. ManagerTypeOK' /\ LifetimeTypeOK' /\ OutsideTypeOK'
  BY KeepManager, KeepLife, KeepOutside DEF TypeOK, EventLagged
<1>2. ThreadTypeOK'
  <2>1. IsMap(events', Client, Seq(Device))
    BY DEF TypeOK, ThreadTypeOK, IsMap, EventLagged
  <2> QED BY <2>1 DEF TypeOK, ThreadTypeOK, EventLagged
<1>3. LocalsOK'
  BY DEF TypeOK, LocalsOK, ThreadTypeOK, LifetimeTypeOK, EventLagged, lifeVars
<1> QED BY <1>1, <1>2, <1>3 DEF TypeOK

\* The reader passes its start gate.
LEMMA ReaderStartType ==
    ASSUME TypeOK, NEW l \in Token, ReaderStart(l)
    PROVE  TypeOK'
<1>1. ManagerTypeOK' /\ ThreadTypeOK' /\ OutsideTypeOK'
  BY KeepManager, KeepThread, KeepOutside DEF TypeOK, ReaderStart
<1>2. LifetimeTypeOK'
  BY DEF TypeOK, LifetimeTypeOK, ReaderRec, ReaderPcs, SetReader, ReaderStart
<1>3. LocalsOK'
  BY DEF TypeOK, LocalsOK, ThreadTypeOK, LifetimeTypeOK, ReaderStart, thrVars,
    SetReader, ReaderRec
<1> QED BY <1>1, <1>2, <1>3 DEF TypeOK

\* The reader sees the stop flag.
LEMMA ReaderStopType ==
    ASSUME TypeOK, NEW l \in Token, ReaderStop(l)
    PROVE  TypeOK'
<1>1. ManagerTypeOK' /\ ThreadTypeOK' /\ OutsideTypeOK'
  BY KeepManager, KeepThread, KeepOutside DEF TypeOK, ReaderStop
<1>2. LifetimeTypeOK'
  BY DEF TypeOK, LifetimeTypeOK, ReaderRec, ReaderPcs, SetReader, ReaderStop
<1>3. LocalsOK'
  BY DEF TypeOK, LocalsOK, ThreadTypeOK, LifetimeTypeOK, ReaderStop, thrVars, SetReader,
    ReaderRec
<1> QED BY <1>1, <1>2, <1>3 DEF TypeOK

\* A read fails.
LEMMA ReaderFailType ==
    ASSUME TypeOK, NEW l \in Token, ReaderFail(l)
    PROVE  TypeOK'
<1>1. ManagerTypeOK' /\ ThreadTypeOK' /\ OutsideTypeOK'
  BY KeepManager, KeepThread, KeepOutside DEF TypeOK, ReaderFail
<1>2. LifetimeTypeOK'
  BY DEF TypeOK, LifetimeTypeOK, ReaderRec, ReaderPcs, SetReader, ReaderFail
<1>3. LocalsOK'
  BY DEF TypeOK, LocalsOK, ThreadTypeOK, LifetimeTypeOK, ReaderFail, thrVars, SetReader,
    ReaderRec
<1> QED BY <1>1, <1>2, <1>3 DEF TypeOK

\* A failed reader finds no Entry.
LEMMA ReaderOrphanType ==
    ASSUME TypeOK, NEW l \in Token, ReaderOrphan(l)
    PROVE  TypeOK'
<1>1. ManagerTypeOK' /\ ThreadTypeOK' /\ OutsideTypeOK'
  BY KeepManager, KeepThread, KeepOutside DEF TypeOK, ReaderOrphan
<1>2. LifetimeTypeOK'
  BY DEF TypeOK, LifetimeTypeOK, ReaderRec, ReaderPcs, SetReader, ReaderOrphan
<1>3. LocalsOK'
  BY DEF TypeOK, LocalsOK, ThreadTypeOK, LifetimeTypeOK, ReaderOrphan, thrVars,
    SetReader, ReaderRec
<1> QED BY <1>1, <1>2, <1>3 DEF TypeOK

\* A failed reader detaches the lifetime of its device.
LEMMA ReaderDetachType ==
    ASSUME TypeOK, NEW l \in Token, ReaderDetach(l)
    PROVE  TypeOK'
<1>a. lifeDev[l] \in DOMAIN devices /\ lifeDev[l] \in Device /\ DetachLifetime(lifeDev[l])
  BY DEF TypeOK, ManagerTypeOK, IsMap, ReaderDetach
<1>0. /\ IsMap(devices', Device, Token)
      /\ IsMap(sessions', Token, SessionRec) /\ IsFiniteSet(DOMAIN sessions')
      /\ wsAuthHashes' \subseteq Token
      /\ IsMap(transportValidity', Token, Conn) /\ capValid' \subseteq Conn
      /\ IsMap(nmHot', Client \X Device, Token)
      /\ life' \in [Token -> LifePhases]
  BY <1>a, DetachType DEF TypeOK
<1>b. Taken(lifeDev[l]) \in Teardown /\ Taken(lifeDev[l]).hold \in Token
  BY <1>a, TakenType DEF TypeOK, ManagerTypeOK, IsMap, EntryOf
<1>1. ThreadTypeOK'
  BY KeepThread DEF TypeOK, ReaderDetach
<1>2. ManagerTypeOK'
  BY <1>0 DEF TypeOK, ManagerTypeOK, ReaderDetach, openVars
<1>3. LifetimeTypeOK'
  BY <1>0, <1>b DEF TypeOK, LifetimeTypeOK, ReaderRec, ReaderPcs, ReaderDetach
<1>4. OutsideTypeOK'
  BY <1>0 DEF TypeOK, OutsideTypeOK, ReaderDetach, envVars
<1>5. LocalsOK'
  BY <1>a, <1>b DEF TypeOK, LocalsOK, LifetimeTypeOK, ThreadTypeOK, thrVars, ReaderRec,
    ReaderDetach
<1> QED BY <1>1, <1>2, <1>3, <1>4, <1>5 DEF TypeOK

\* A dead reader signals the worker.
LEMMA ReaderCleanupType ==
    ASSUME TypeOK, NEW l \in Token, ReaderCleanup(l)
    PROVE  TypeOK'
<1>0. reader[l].td.hold \in Token
  BY DEF TypeOK, LocalsOK, ReaderCleanup
<1>1. ManagerTypeOK' /\ ThreadTypeOK' /\ OutsideTypeOK'
  BY KeepManager, KeepThread, KeepOutside DEF TypeOK, ReaderCleanup
<1>2. LifetimeTypeOK'
  BY <1>0 DEF TypeOK, LifetimeTypeOK, LifePhases, ReaderRec, ReaderPcs, SetReader,
    ReaderCleanup, StopEntry
<1>3. LocalsOK'
  BY <1>0 DEF TypeOK, LocalsOK, ThreadTypeOK, LifetimeTypeOK, ReaderCleanup, thrVars,
    SetReader, ReaderRec
<1> QED BY <1>1, <1>2, <1>3 DEF TypeOK

\* A dead reader has joined the worker.
LEMMA ReaderFinishType ==
    ASSUME TypeOK, NEW l \in Token, ReaderFinish(l)
    PROVE  TypeOK'
<1>a. reader[l].td \in Teardown /\ lifeDev[l] \in Device
  BY DEF TypeOK, LifetimeTypeOK, LocalsOK, ReaderRec, ReaderFinish
<1>0. IsMap(events', Client, Seq(Device))
  BY <1>a, BroadcastType DEF TypeOK, ThreadTypeOK, ReaderFinish
<1>1. ManagerTypeOK'
  BY <1>a DEF TypeOK, ManagerTypeOK, Teardown, ReaderFinish, openVars
<1>2. ThreadTypeOK'
  BY <1>0 DEF TypeOK, ThreadTypeOK, ReaderFinish
<1>3. LifetimeTypeOK'
  BY DEF TypeOK, LifetimeTypeOK, ReaderRec, ReaderPcs, Teardown, NoTeardown,
    ReaderFinish
<1>4. OutsideTypeOK'
  BY <1>a DEF TypeOK, OutsideTypeOK, Teardown, ReaderFinish, envVars
<1>5. LocalsOK'
  BY <1>0 DEF TypeOK, LocalsOK, ThreadTypeOK, LifetimeTypeOK, ReaderFinish, ReaderRec,
    NoTeardown
<1> QED BY <1>1, <1>2, <1>3, <1>4, <1>5 DEF TypeOK

\* The worker takes the Shutdown command.
LEMMA WorkerExitType ==
    ASSUME TypeOK, NEW l \in Token, WorkerExit(l)
    PROVE  TypeOK'
<1>1. ManagerTypeOK' /\ ThreadTypeOK' /\ OutsideTypeOK'
  BY KeepManager, KeepThread, KeepOutside DEF TypeOK, WorkerExit
<1>2. LifetimeTypeOK'
  BY DEF TypeOK, LifetimeTypeOK, WorkerExit
<1>3. LocalsOK'
  BY DEF TypeOK, LocalsOK, ThreadTypeOK, LifetimeTypeOK, WorkerExit, thrVars
<1> QED BY <1>1, <1>2, <1>3 DEF TypeOK

\* A connection authenticates.
LEMMA ConnAuthType ==
    ASSUME TypeOK, NEW k \in Conn, NEW t \in Token, NEW kind \in Kinds, ConnAuth(k, t, kind)
    PROVE  TypeOK'
<1>1. ManagerTypeOK' /\ ThreadTypeOK' /\ LifetimeTypeOK'
  BY KeepManager, KeepThread, KeepLife DEF TypeOK, ConnAuth
<1>2. OutsideTypeOK'
  <2>1. [phase |-> "authed", kind |-> kind, tok |-> t, gen |-> 0] \in ConnRec
    BY DEF ConnRec, Kinds
  <2> QED BY <2>1 DEF TypeOK, OutsideTypeOK, ConnAuth, envVars
<1>3. LocalsOK'
  BY DEF TypeOK, LocalsOK, ThreadTypeOK, LifetimeTypeOK, ConnAuth, thrVars, lifeVars
<1> QED BY <1>1, <1>2, <1>3 DEF TypeOK

\* ws_connect or wt_connect.
LEMMA ConnConnectType ==
    ASSUME TypeOK, NEW k \in Conn, ConnConnect(k)
    PROVE  TypeOK'
<1> DEFINE t == conn[k].tok  kind == conn[k].kind  gen == sessions[t].gen[kind] + 1
<1>a. t \in DOMAIN sessions /\ t \in Token /\ kind \in Kinds /\ kind \in Modes /\ sessions[t] \in SessionRec
  BY DEF TypeOK, ManagerTypeOK, OutsideTypeOK, IsMap, ConnRec, Kinds, Modes, ConnConnect
<1>b. gen \in Nat
  BY <1>a DEF SessionRec
<1>0. IsMap(sessions', Token, SessionRec) /\ IsFiniteSet(DOMAIN sessions')
  <2>1. [sessions[t] EXCEPT !.mode = kind, !.gen[kind] = gen] \in SessionRec
    BY <1>a, <1>b DEF SessionRec
  <2>2. sessions' = [sessions EXCEPT ![t] = [sessions[t] EXCEPT !.mode = kind, !.gen[kind] = gen]]
    BY <1>a DEF TypeOK, ManagerTypeOK, IsMap, ConnConnect
  <2> QED BY <1>a, <2>1, <2>2 DEF TypeOK, ManagerTypeOK, IsMap
<1>c. IsMap(transportValidity', Token, Conn)
  <2>1. IsMap(transportValidity, Token, Conn) /\ transportValidity' = Put(transportValidity, t, k)
    BY DEF TypeOK, ManagerTypeOK, ConnConnect
  <2>2. IsMap(Put(transportValidity, t, k), Token, Conn)
    BY ONLY <1>a, <2>1, k \in Conn, PutIsMap
  <2> QED BY <2>1, <2>2
<1>d. IsMap(nmHot', Client \X Device, Token)
  BY <1>a, RefreshIsMap DEF TypeOK, ManagerTypeOK, SessionRec, ConnConnect
<1>e. nonNm' \in Int
  BY DEF TypeOK, ManagerTypeOK, ConnConnect, CountChange
<1>1. ThreadTypeOK' /\ LifetimeTypeOK'
  BY KeepThread, KeepLife DEF TypeOK, ConnConnect
<1>2. ManagerTypeOK'
  BY <1>0, <1>c, <1>d, <1>e DEF TypeOK, ManagerTypeOK, ConnConnect, openVars
<1>3. OutsideTypeOK'
  <2>1. [conn[k] EXCEPT !.phase = "up", !.gen = gen] \in ConnRec
    BY <1>b DEF TypeOK, OutsideTypeOK, ConnRec
  <2>2. conn' = [conn EXCEPT ![k] = [conn[k] EXCEPT !.phase = "up", !.gen = gen]]
    BY DEF TypeOK, OutsideTypeOK, ConnConnect
  <2> QED BY <2>1, <2>2 DEF TypeOK, OutsideTypeOK, ConnConnect, envVars
<1>4. LocalsOK'
  BY DEF TypeOK, LocalsOK, ConnConnect, thrVars, lifeVars
<1> QED BY <1>1, <1>2, <1>3, <1>4 DEF TypeOK

\* The session ended before the transport came up.
LEMMA ConnRefusedType ==
    ASSUME TypeOK, NEW k \in Conn, ConnRefused(k)
    PROVE  TypeOK'
<1>1. ManagerTypeOK' /\ ThreadTypeOK' /\ LifetimeTypeOK'
  BY KeepManager, KeepThread, KeepLife DEF TypeOK, ConnRefused
<1>2. OutsideTypeOK'
  BY DEF TypeOK, OutsideTypeOK, ConnRec, ConnRefused, envVars
<1>3. LocalsOK'
  BY DEF TypeOK, LocalsOK, ThreadTypeOK, LifetimeTypeOK, ConnRefused, thrVars, lifeVars
<1> QED BY <1>1, <1>2, <1>3 DEF TypeOK

\* A replaced connection ends.
LEMMA ConnDisconnectStaleType ==
    ASSUME TypeOK, NEW k \in Conn, ConnDisconnectStale(k)
    PROVE  TypeOK'
<1>1. ManagerTypeOK' /\ ThreadTypeOK' /\ LifetimeTypeOK'
  BY KeepManager, KeepThread, KeepLife DEF TypeOK, ConnDisconnectStale
<1>2. OutsideTypeOK'
  BY DEF TypeOK, OutsideTypeOK, ConnRec, ConnDisconnectStale, envVars
<1>3. LocalsOK'
  BY DEF TypeOK, LocalsOK, ThreadTypeOK, LifetimeTypeOK, ConnDisconnectStale, thrVars,
    lifeVars
<1> QED BY <1>1, <1>2, <1>3 DEF TypeOK

\* A connection's task enters or leaves its select.
LEMMA ConnTaskType ==
    ASSUME TypeOK, NEW k \in Conn, ConnTask(k)
    PROVE  TypeOK'
<1>1. ManagerTypeOK' /\ ThreadTypeOK' /\ LifetimeTypeOK'
  BY KeepManager, KeepThread, KeepLife DEF TypeOK, ConnTask, ConnServe, ConnStop
<1>2. OutsideTypeOK'
  BY DEF TypeOK, OutsideTypeOK, Stages, ConnTask, ConnServe, ConnStop, envVars
<1>3. LocalsOK'
  BY DEF TypeOK, LocalsOK, ThreadTypeOK, LifetimeTypeOK, ConnTask, ConnServe, ConnStop, thrVars,
         lifeVars
<1> QED BY <1>1, <1>2, <1>3 DEF TypeOK

\* The current transport of a session ends.
LEMMA ConnDisconnectType ==
    ASSUME TypeOK, NEW k \in Conn, ConnDisconnect(k)
    PROVE  TypeOK'
<1> DEFINE t == conn[k].tok
<1>a. t \in DOMAIN sessions /\ sessions[t] \in SessionRec
  BY DEF TypeOK, ManagerTypeOK, IsMap, ConnCurrent, ConnDisconnect
<1>0. IsMap(sessions', Token, SessionRec) /\ IsFiniteSet(DOMAIN sessions')
  BY <1>a DEF TypeOK, ManagerTypeOK, IsMap, SessionRec, Modes, ConnDisconnect
<1>b. IsMap(transportValidity', Token, Conn)
  BY DropIsMap DEF TypeOK, ManagerTypeOK, ConnDisconnect
<1>c. IsMap(nmHot', Client \X Device, Token)
  BY <1>a, RefreshIsMap DEF TypeOK, ManagerTypeOK, SessionRec, ConnDisconnect
<1>d. nonNm' \in Int
  BY DEF TypeOK, ManagerTypeOK, ConnDisconnect, CountChange
<1>1. ThreadTypeOK' /\ LifetimeTypeOK'
  BY KeepThread, KeepLife DEF TypeOK, ConnDisconnect
<1>2. ManagerTypeOK'
  BY <1>0, <1>b, <1>c, <1>d DEF TypeOK, ManagerTypeOK, ConnDisconnect, openVars
<1>3. OutsideTypeOK'
  BY DEF TypeOK, OutsideTypeOK, ConnRec, ConnDisconnect, envVars
<1>4. LocalsOK'
  BY DEF TypeOK, LocalsOK, ConnDisconnect, thrVars, lifeVars
<1> QED BY <1>1, <1>2, <1>3, <1>4 DEF TypeOK

\* A device is unplugged.
LEMMA UnplugType ==
    ASSUME TypeOK, NEW d \in Device, Unplug(d)
    PROVE  TypeOK'
<1>1. ManagerTypeOK' /\ ThreadTypeOK' /\ LifetimeTypeOK'
  BY KeepManager, KeepThread, KeepLife DEF TypeOK, Unplug
<1>2. OutsideTypeOK'
  BY DEF TypeOK, OutsideTypeOK, Unplug, connVars
<1>3. LocalsOK'
  BY DEF TypeOK, LocalsOK, ThreadTypeOK, LifetimeTypeOK, Unplug, thrVars, lifeVars
<1> QED BY <1>1, <1>2, <1>3 DEF TypeOK

\* A device is plugged in again.
LEMMA ReplugType ==
    ASSUME TypeOK, NEW d \in Device, Replug(d)
    PROVE  TypeOK'
<1>1. ManagerTypeOK' /\ ThreadTypeOK' /\ LifetimeTypeOK'
  BY KeepManager, KeepThread, KeepLife DEF TypeOK, Replug
<1>2. OutsideTypeOK'
  BY DEF TypeOK, OutsideTypeOK, Replug, connVars
<1>3. LocalsOK'
  BY DEF TypeOK, LocalsOK, ThreadTypeOK, LifetimeTypeOK, Replug, thrVars, lifeVars
<1> QED BY <1>1, <1>2, <1>3 DEF TypeOK

\* The hotplug monitor reports a removal.
LEMMA HotplugRemoveType ==
    ASSUME TypeOK, NEW d \in Device, HotplugRemove(d)
    PROVE  TypeOK'
<1>1. ManagerTypeOK' /\ LifetimeTypeOK'
  BY KeepManager, KeepLife DEF TypeOK, HotplugRemove
<1>2. ThreadTypeOK'
  <2>1. IsMap(events', Client, Seq(Device))
    BY BroadcastType DEF TypeOK, ThreadTypeOK, HotplugRemove
  <2> QED BY <2>1 DEF TypeOK, ThreadTypeOK, HotplugRemove
<1>3. OutsideTypeOK'
  BY DEF TypeOK, OutsideTypeOK, HotplugRemove, connVars
<1>4. LocalsOK'
  BY DEF TypeOK, LocalsOK, ThreadTypeOK, LifetimeTypeOK, HotplugRemove, lifeVars
<1> QED BY <1>1, <1>2, <1>3, <1>4 DEF TypeOK

-----------------------------------------------------------------------------
(* The type invariant *)

\* DeviceManager::new and the freshly started daemon are well typed.
LEMMA InitType == Init => TypeOK
<1> SUFFICES ASSUME Init PROVE TypeOK
  OBVIOUS
<1>1. ManagerTypeOK
  BY FS_EmptySet DEF Init, ManagerTypeOK, IsMap
<1>2. ThreadTypeOK
  <2>1. [IdleClient EXCEPT !.pc = "new"] \in ClientRec
    BY IdleType DEF ClientRec, ClientPcs
  <2>2. client \in [Client -> ClientRec]
    BY <2>1 DEF Init
  <2> QED BY <2>2 DEF Init, ThreadTypeOK, IsMap, RelayRec, Teardown, NoTeardown
<1>3. LifetimeTypeOK
  BY DEF Init, LifetimeTypeOK, LifePhases, ReaderRec, ReaderPcs, Teardown, NoTeardown
<1>4. OutsideTypeOK
  BY BoundAssumption DEF Init, OutsideTypeOK, ConnRec, Kinds, Stages
<1>5. LocalsOK
  BY DEF Init, LocalsOK, IdleClient
<1> QED BY <1>1, <1>2, <1>3, <1>4, <1>5 DEF TypeOK

\* Every step of every thread keeps every map, thread and local well typed.
LEMMA TypeStep == TypeOK /\ [Next]_vars => TypeOK'
<1> SUFFICES ASSUME TypeOK, [Next]_vars PROVE TypeOK'
  OBVIOUS
<1>1. ASSUME NEW c \in Client, OpenStep(c) PROVE TypeOK'
  BY <1>1, OpenJoinType, OpenWaitType, OpenReserveType, WaiterJoinType, WaiterRetryType,
     WaiterFailType, PhysicalOpenType, PhysicalOpenFailType, OpenBuildType, OpenAbandonType,
     OpenPublishType, OpenDiscardType, OpenReleaseType, OpenFinishType, OpenNotifyType
     DEF OpenStep
<1>2. ASSUME NEW c \in Client, ClientStop(c) \/ ClientJoin(c) \/ DrainStep(c) PROVE TypeOK'
  BY <1>2, ClientStopType, ClientJoinType, DrainCloseType, DrainSkipType, ClientGoneType
     DEF DrainStep
<1>3. ASSUME NEW c \in Client, RelayStep(c) PROVE TypeOK'
  BY <1>3, RelayDisconnectType, RelayPostType, RelayStopType, RelayJoinType DEF RelayStep
<1>4. ASSUME NEW c \in Client, ClientInput(c) PROVE TypeOK'
  BY <1>4, ClientConnectType, ClientEofType, OpenCallType, CloseType, SetDataplaneModeType
     DEF ClientInput
<1>5. ASSUME NEW l \in Token, ReaderStep(l) PROVE TypeOK'
  BY <1>5, ReaderStartType, ReaderStopType, ReaderDetachType, ReaderOrphanType,
     ReaderCleanupType, ReaderFinishType DEF ReaderStep
<1>6. ASSUME NEW l \in Token, ReaderFail(l) \/ WorkerExit(l) PROVE TypeOK'
  BY <1>6, ReaderFailType, WorkerExitType
<1>7. ASSUME NEW k \in Conn, NEW t \in Token, NEW kind \in Kinds, ConnAuth(k, t, kind)
      PROVE  TypeOK'
  BY <1>7, ConnAuthType
<1>8. ASSUME NEW k \in Conn, ConnConnect(k) \/ ConnRefused(k) \/ ConnTask(k) \/ ConnEnd(k)
      PROVE  TypeOK'
  BY <1>8, ConnConnectType, ConnRefusedType, ConnTaskType, ConnDisconnectType, ConnDisconnectStaleType
     DEF ConnEnd
<1>9. ASSUME NEW d \in Device, Unplug(d) \/ Replug(d) \/ HotplugRemove(d) PROVE TypeOK'
  BY <1>9, UnplugType, ReplugType, HotplugRemoveType
<1>10. CASE UNCHANGED vars
  <2>1. ManagerTypeOK' /\ ThreadTypeOK' /\ LifetimeTypeOK' /\ OutsideTypeOK'
    BY <1>10, KeepManager, KeepThread, KeepLife, KeepOutside DEF TypeOK, vars
  <2>2. LocalsOK'
    BY <1>10 DEF TypeOK, LocalsOK, vars, thrVars, lifeVars
  <2> QED BY <2>1, <2>2 DEF TypeOK
<1>11. ASSUME NEW c \in Client, LoopStep(c) \/ EventLagged(c) PROVE TypeOK'
  BY <1>1, <1>2, <1>11, EventLaggedType DEF LoopStep
<1> QED BY <1>3, <1>4, <1>5, <1>6, <1>7, <1>8, <1>9, <1>10, <1>11 DEF Next

\* The type invariant of the session core: maps, threads and the locals that
\* each program counter promises.
THEOREM TypeCorrect == Spec => []TypeOK
BY InitType, TypeStep, PTL DEF Spec

-----------------------------------------------------------------------------
(* Tokens *)

\* A step in which no open() is called or answers, and no pending one moves to
\* another token, keeps the tokens apart.
LEMMA TokenKept ==
    ASSUME TypeOK, TokenOnce, minted' = minted, reply' = reply,
           DOMAIN sessions' \subseteq DOMAIN sessions,
           \A e \in Client : /\ client'[e].tok \in {client[e].tok, None}
                             /\ client'[e].pc \in Pending =>
                                  client[e].pc \in Pending /\ client'[e].tok = client[e].tok
    PROVE  TokenOnce'
BY NoneAssumption DEF TokenOnce

\* So does one in which a pending open() answers: with a session under its own
\* token, or with an error.
LEMMA TokenAnswered ==
    ASSUME TypeOK, TokenOnce, NEW c \in Client, client[c].pc \in Pending, client'[c].pc \notin Pending,
           minted' = minted, NEW a \in {"ok", "err"}, reply' = [reply EXCEPT ![client[c].tok] = a],
           \A t \in DOMAIN sessions' : t \in DOMAIN sessions \/ (t = client[c].tok /\ a = "ok"),
           client'[c].tok \in {client[c].tok, None},
           \A e \in Client \ {c} : client'[e] = client[e]
    PROVE  TokenOnce'
<1>1. client[c].tok \in Token /\ client[c].tok \in minted /\ reply[client[c].tok] = "none"
  BY NoneAssumption DEF TypeOK, LocalsOK, TokenOnce, Pending
<1>2. \A t \in Token : reply'[t] = IF t = client[c].tok THEN a ELSE reply[t]
  BY <1>1 DEF TypeOK, ThreadTypeOK
<1>3. \A e \in Client : client'[e].tok \in {client[e].tok, None}
  OBVIOUS
<1>4. \A t \in DOMAIN sessions' : t \in Token
  BY <1>1 DEF TypeOK, ManagerTypeOK, IsMap
<1>5. \A e \in Client : client'[e].pc \in Pending => reply'[client'[e].tok] = "none"
  <2> SUFFICES ASSUME NEW e \in Client, client'[e].pc \in Pending PROVE reply'[client'[e].tok] = "none"
    OBVIOUS
  <2>1. e # c /\ client'[e] = client[e] /\ client[e].tok \in Token
    BY DEF TypeOK, LocalsOK, Pending
  <2>2. client[e].tok # client[c].tok
    BY <1>1, <2>1, NoneAssumption DEF TokenOnce
  <2> QED BY <1>2, <2>1, <2>2 DEF TokenOnce
<1>6. \A t \in DOMAIN sessions' : t \in minted' /\ reply'[t] = "ok"
  BY <1>1, <1>2, <1>4 DEF TokenOnce
<1>7. \A t \in Token \ minted' : reply'[t] = "none"
  BY <1>1, <1>2 DEF TokenOnce
<1>8. \A d, e \in Client : client'[d].tok = client'[e].tok => d = e \/ client'[d].tok = None
  BY <1>3 DEF TokenOnce
<1>9. \A e \in Client : client'[e].tok \in minted' \cup {None}
  BY <1>3 DEF TokenOnce
<1> QED BY <1>5, <1>6, <1>7, <1>8, <1>9 DEF TokenOnce

\* A new open() mints a token nobody has (open 944).
LEMMA OpenCallToken ==
    ASSUME TypeOK, TokenOnce, NEW c \in Client, NEW d \in Device, NEW t \in Token, OpenCall(c, d, t)
    PROVE  TokenOnce'
BY NoneAssumption DEF TypeOK, ThreadTypeOK, TokenOnce, OpenCall, mgrVars, IdleClient, Pending

\* Every step keeps a token to one open() and at most one session.
LEMMA TokenStep == TypeOK /\ TokenOnce /\ [Next]_vars => TokenOnce'
<1> SUFFICES ASSUME TypeOK, TokenOnce, [Next]_vars PROVE TokenOnce'
  OBVIOUS
<1> USE DEF Pending
<1>0. client \in [Client -> ClientRec]
  BY DEF TypeOK, ThreadTypeOK
<1>1. ASSUME NEW c \in Client, OpenJoin(c) \/ WaiterJoin(c) PROVE TokenOnce'
  <2>1. /\ minted' = minted /\ client' = [client EXCEPT ![c] = IdleClient] /\ client[c].pc \in Pending
        /\ reply' = [reply EXCEPT ![client[c].tok] = "ok"]
        /\ DOMAIN sessions' = DOMAIN sessions \cup {client[c].tok}
    BY <1>1 DEF OpenJoin, WaiterJoin, GoIdle, Register, Put
  <2> QED BY <1>0, <2>1, TokenAnswered DEF IdleClient
<1>2. ASSUME NEW c \in Client, OpenPublish(c) PROVE TokenOnce'
  <2>1. /\ minted' = minted /\ client' = [client EXCEPT ![c].pc = "release"] /\ client[c].pc \in Pending
        /\ reply' = [reply EXCEPT ![client[c].tok] = "ok"]
        /\ DOMAIN sessions' = DOMAIN sessions \cup {client[c].tok}
    BY <1>2 DEF OpenPublish, Go, Register, Put
  <2> QED BY <1>0, <2>1, TokenAnswered DEF ClientRec
<1>3. ASSUME NEW c \in Client,
             WaiterFail(c) \/ PhysicalOpenFail(c) \/ OpenAbandon(c) \/ OpenDiscard(c)
      PROVE  TokenOnce'
  <2>1. /\ minted' = minted /\ sessions' = sessions /\ client[c].pc \in Pending
        /\ reply' = [reply EXCEPT ![client[c].tok] = "err"]
    BY <1>3 DEF WaiterFail, PhysicalOpenFail, OpenAbandon, OpenDiscard, mgrVars
  <2>2. /\ client'[c].pc \notin Pending /\ client'[c].tok \in {client[c].tok, None}
        /\ \A e \in Client \ {c} : client'[e] = client[e]
    BY <1>0, <1>3 DEF WaiterFail, PhysicalOpenFail, OpenAbandon, OpenDiscard, GoIdle, Go, IdleClient,
                      ClientRec
  <2> QED BY <2>1, <2>2, TokenAnswered
<1>4. ASSUME NEW c \in Client,
             \/ OpenWait(c) \/ OpenReserve(c) \/ WaiterRetry(c) \/ PhysicalOpen(c) \/ OpenBuild(c)
             \/ OpenRelease(c) \/ OpenFinish(c) \/ OpenNotify(c)
      PROVE  TokenOnce'
  <2>1. minted' = minted /\ reply' = reply /\ sessions' = sessions
    BY <1>4 DEF OpenWait, OpenReserve, WaiterRetry, PhysicalOpen, OpenBuild, OpenRelease, OpenFinish,
                OpenNotify, mgrVars
  <2>2. /\ client'[c].tok \in {client[c].tok, None}
        /\ client'[c].pc \in Pending => client[c].pc \in Pending /\ client'[c].tok = client[c].tok
        /\ \A e \in Client \ {c} : client'[e] = client[e]
    BY <1>0, <1>4 DEF OpenWait, OpenReserve, WaiterRetry, PhysicalOpen, OpenBuild, OpenRelease,
                OpenFinish, OpenNotify, Go, GoIdle, IdleClient, ClientRec
  <2> QED BY <2>1, <2>2, TokenKept
<1>5. ASSUME NEW c \in Client,
             ClientStop(c) \/ ClientJoin(c) \/ DrainStep(c) \/ ClientConnect(c) \/ ClientEof(c)
      PROVE  TokenOnce'
  <2>1. minted' = minted /\ reply' = reply /\ DOMAIN sessions' \subseteq DOMAIN sessions
    BY <1>5 DEF ClientStop, ClientJoin, DrainStep, DrainClose, DrainSkip, ClientGone, ClientConnect,
                ClientEof, mgrVars, CloseSession, Drop, Restrict
  <2> DEFINE Moves == /\ client'[c].tok \in {client[c].tok, None} /\ client'[c].pc \notin Pending
                      /\ \A e \in Client \ {c} : client'[e] = client[e]
  <2>2. ASSUME ClientStop(c) \/ ClientGone(c) PROVE Moves
    BY <1>0, <2>2 DEF ClientStop, ClientGone, Go, ClientRec
  <2>3. ASSUME ClientConnect(c) \/ ClientEof(c) PROVE Moves
    <3>1. IdleClient \in ClientRec /\ IdleClient.tok = None /\ IdleClient.pc \notin Pending
      BY IdleType DEF IdleClient
    <3> DEFINE r == [IdleClient EXCEPT !.pc = "draining", !.todo = OwnedBy(c)]
    <3>2. r.tok = None /\ r.pc \notin Pending
      BY <3>1 DEF ClientRec
    <3>3. client' = [client EXCEPT ![c] = IdleClient] \/ client' = [client EXCEPT ![c] = r]
      BY <2>3 DEF ClientConnect, ClientEof, GoIdle
    <3> HIDE DEF r
    <3> QED BY <1>0, <3>1, <3>2, <3>3
  <2>4. ASSUME ClientJoin(c) PROVE Moves
    <3>1. client[c].back \notin Pending
      BY DEF TypeOK, LocalsOK
    <3> QED BY <1>0, <2>4, <3>1 DEF ClientJoin, ClientRec
  <2>5. ASSUME \E t \in Token : DrainClose(c, t) \/ DrainSkip(c, t) PROVE Moves
    BY <1>0, <2>5 DEF DrainClose, DrainSkip, ClientRec
  <2>6. Moves
    BY <1>5, <2>2, <2>3, <2>4, <2>5 DEF DrainStep
  <2> QED BY <2>1, <2>6, TokenKept
<1>6. ASSUME NEW c \in Client, NEW d \in Device, NEW t \in Token, Close(c, d, t)
      PROVE  TokenOnce'
  <2>1. minted' = minted /\ reply' = reply /\ DOMAIN sessions' \subseteq DOMAIN sessions
    BY <1>6 DEF Close, CloseSession, Drop, Restrict
  <2>2. /\ client'[c].tok = client[c].tok /\ client'[c].pc \notin Pending
        /\ \A e \in Client \ {c} : client'[e] = client[e]
    BY <1>0, <1>6 DEF Close, ClientRec
  <2> QED BY <2>1, <2>2, TokenKept
<1>7. ASSUME NEW c \in Client, NEW d \in Device, NEW t \in Token, NEW m \in AskModes,
             SetDataplaneMode(c, d, t, m)
      PROVE  TokenOnce'
  <2>1. UNCHANGED <<minted, reply, client>> /\ DOMAIN sessions' = DOMAIN sessions
    BY <1>7 DEF SetDataplaneMode, thrVars
  <2> QED BY <2>1, TokenKept
<1>8. ASSUME NEW c \in Client, RelayStep(c) \/ EventLagged(c) PROVE TokenOnce'
  <2>1. UNCHANGED <<minted, reply, client>> /\ DOMAIN sessions' \subseteq DOMAIN sessions
    BY <1>8 DEF RelayStep, RelayDisconnect, RelayPost, RelayStop, RelayJoin, EventLagged, mgrVars,
                DetachLifetime, Drop, Restrict
  <2> QED BY <2>1, TokenKept
<1>9. ASSUME NEW l \in Token, ReaderStep(l) \/ ReaderFail(l) \/ WorkerExit(l) PROVE TokenOnce'
  <2>1. UNCHANGED <<minted, reply, client>> /\ DOMAIN sessions' \subseteq DOMAIN sessions
    BY <1>9 DEF ReaderStep, ReaderStart, ReaderStop, ReaderDetach, ReaderOrphan, ReaderCleanup,
                ReaderFinish, ReaderFail, WorkerExit, mgrVars, thrVars, DetachLifetime, Drop, Restrict
  <2> QED BY <2>1, TokenKept
<1>10. ASSUME NEW k \in Conn,
              \/ \E t \in Token, kind \in Kinds : ConnAuth(k, t, kind)
              \/ ConnConnect(k) \/ ConnRefused(k) \/ ConnTask(k) \/ ConnEnd(k)
       PROVE  TokenOnce'
  <2>1. UNCHANGED <<minted, reply, client>> /\ DOMAIN sessions' = DOMAIN sessions
    BY <1>10 DEF ConnAuth, ConnConnect, ConnRefused, ConnTask, ConnServe,
                 ConnStop, ConnEnd, ConnDisconnect, ConnDisconnectStale,
                 mgrVars, thrVars
  <2> QED BY <2>1, TokenKept
<1>11. ASSUME NEW d \in Device, Unplug(d) \/ Replug(d) \/ HotplugRemove(d) PROVE TokenOnce'
  <2>1. UNCHANGED <<minted, reply, client, sessions>>
    BY <1>11 DEF Unplug, Replug, HotplugRemove, mgrVars, thrVars
  <2> QED BY <2>1, TokenKept
<1>12. CASE UNCHANGED vars
  <2>1. UNCHANGED <<minted, reply, client, sessions>>
    BY <1>12 DEF vars, mgrVars, thrVars
  <2> QED BY <2>1, TokenKept
<1>13. ASSUME NEW c \in Client, LoopStep(c) PROVE TokenOnce'
  BY <1>1, <1>2, <1>3, <1>4, <1>5, <1>13 DEF LoopStep, OpenStep
<1>14. ASSUME NEW c \in Client, ClientInput(c) PROVE TokenOnce'
  BY <1>5, <1>6, <1>7, <1>14, OpenCallToken DEF ClientInput
<1> QED BY <1>8, <1>9, <1>10, <1>11, <1>12, <1>13, <1>14 DEF Next

-----------------------------------------------------------------------------
(* The session maps: four kinds of step *)

\* register_session_locked by the open() of client c.
Registers(c) ==
    LET d == client[c].dev  t == client[c].tok
    IN  /\ client[c].pc \in Pending
        /\ Register(c, d, t, devices')
        /\ \/ d \in DOMAIN devices /\ devices' = devices
           \/ client[c].pc = "built" /\ Current(c) /\ devices' = Put(devices, d, t)

\* The locked section of close().
Ends(t) ==
    t \in DOMAIN sessions /\ (\E c \in Client : CloseSession(c, t)) /\ reply' = reply

\* The locked section of force_close or of detach_dead_reader_lifetime.
TearsDown(d) == DetachLifetime(d) /\ reply' = reply

\* What all other steps do to the session maps.
Leaves ==
    /\ UNCHANGED <<devices, wsAuthHashes>>
    /\ sessions' \in [DOMAIN sessions -> SessionRec]
    /\ \A t \in DOMAIN sessions : sessions'[t].dev = sessions[t].dev /\ sessions'[t].owner = sessions[t].owner
    /\ \A t \in Token : reply'[t] = "ok" <=> reply[t] = "ok"

\* A step outside the locked sections on the session maps.
LEMMA Untouched == 
    ASSUME TypeOK, UNCHANGED <<devices, sessions, wsAuthHashes, reply>>
    PROVE  Leaves
BY DEF TypeOK, ManagerTypeOK, IsMap, Leaves

\* Every step of the daemon is a locked section that registers a session, ends
\* one, or tears a device down, or it leaves entries, hashes and the device and
\* owner of each session alone.
LEMMA LockedSection ==
    ASSUME TypeOK, TokenOnce, [Next]_vars
    PROVE  \/ \E c \in Client : Registers(c)
           \/ \E t \in Token : Ends(t)
           \/ \E d \in Device : TearsDown(d)
           \/ Leaves
<1> DEFINE Goal == \/ \E c \in Client : Registers(c)
                   \/ \E t \in Token : Ends(t)
                   \/ \E d \in Device : TearsDown(d)
                   \/ Leaves
<1> SUFFICES Goal
  OBVIOUS
<1>1. ASSUME NEW c \in Client, OpenJoin(c) \/ WaiterJoin(c) \/ OpenPublish(c) PROVE Goal
  <2>1. Registers(c)
    BY <1>1 DEF OpenJoin, WaiterJoin, OpenPublish, Registers, Pending
  <2> QED BY <2>1
<1>2. ASSUME NEW c \in Client,
             WaiterFail(c) \/ PhysicalOpenFail(c) \/ OpenAbandon(c) \/ OpenDiscard(c)
      PROVE  Goal
  <2>1. /\ UNCHANGED <<devices, sessions, wsAuthHashes>> /\ client[c].pc \in Pending
        /\ reply' = [reply EXCEPT ![client[c].tok] = "err"]
    BY <1>2 DEF WaiterFail, PhysicalOpenFail, OpenAbandon, OpenDiscard, mgrVars, Pending
  <2>2. client[c].tok \in Token /\ reply[client[c].tok] = "none"
    BY <2>1 DEF TypeOK, LocalsOK, TokenOnce, Pending
  <2>3. \A t \in Token : reply'[t] = "ok" <=> reply[t] = "ok"
    BY <2>1, <2>2 DEF TypeOK, ThreadTypeOK
  <2>4. Leaves
    BY <2>1, <2>3 DEF TypeOK, ManagerTypeOK, IsMap, Leaves
  <2> QED BY <2>4
<1>3. ASSUME NEW c \in Client,
             \/ OpenWait(c) \/ OpenReserve(c) \/ WaiterRetry(c) \/ PhysicalOpen(c) \/ OpenBuild(c)
             \/ OpenRelease(c) \/ OpenFinish(c) \/ OpenNotify(c)
      PROVE  Goal
  <2>1. UNCHANGED <<devices, sessions, wsAuthHashes, reply>>
    BY <1>3 DEF OpenWait, OpenReserve, WaiterRetry, PhysicalOpen, OpenBuild, OpenRelease, OpenFinish,
                OpenNotify, mgrVars
  <2> QED BY <2>1, Untouched
<1>4. ASSUME NEW c \in Client, NEW t \in Token,
             DrainClose(c, t) \/ \E d \in Device : Close(c, d, t)
      PROVE  Goal
  <2>1. Ends(t)
    BY <1>4 DEF DrainClose, Close, MayClose, Ends
  <2> QED BY <2>1
<1>5. ASSUME NEW c \in Client,
             \/ ClientStop(c) \/ ClientJoin(c) \/ ClientGone(c) \/ ClientConnect(c) \/ ClientEof(c)
             \/ \E t \in Token : DrainSkip(c, t) \/ \E d \in Device : OpenCall(c, d, t)
      PROVE  Goal
  <2>1. UNCHANGED <<devices, sessions, wsAuthHashes, reply>>
    BY <1>5 DEF ClientStop, ClientJoin, ClientGone, ClientConnect, ClientEof, DrainSkip, OpenCall, mgrVars
  <2> QED BY <2>1, Untouched
<1>6. ASSUME NEW c \in Client, NEW d \in Device, NEW t \in Token, NEW m \in AskModes,
             SetDataplaneMode(c, d, t, m)
      PROVE  Goal
  <2>1. sessions' = [sessions EXCEPT ![t].mode = m] /\ t \in DOMAIN sessions /\ m \in Modes
    BY <1>6, ModeAssumption DEF SetDataplaneMode, MayClose, Modes
  <2>2. Leaves
    BY <1>6, <2>1 DEF TypeOK, ManagerTypeOK, IsMap, SessionRec, Leaves, SetDataplaneMode, thrVars
  <2> QED BY <2>2
<1>7. ASSUME NEW c \in Client, RelayDisconnect(c) PROVE Goal
  <2>1. Head(events[c]) \in Device
    BY <1>7 DEF TypeOK, ThreadTypeOK, IsMap, RelayDisconnect
  <2>2. TearsDown(Head(events[c]))
    BY <1>7 DEF RelayDisconnect, TearsDown
  <2> QED BY <2>1, <2>2
<1>8. ASSUME NEW l \in Token, ReaderDetach(l) PROVE Goal
  <2>1. lifeDev[l] \in Device /\ TearsDown(lifeDev[l])
    BY <1>8 DEF TypeOK, ManagerTypeOK, IsMap, ReaderDetach, TearsDown, thrVars
  <2> QED BY <2>1
<1>9. ASSUME NEW c \in Client, RelayPost(c) \/ RelayStop(c) \/ RelayJoin(c) \/ EventLagged(c) PROVE Goal
  <2>1. UNCHANGED <<devices, sessions, wsAuthHashes, reply>>
    BY <1>9 DEF RelayPost, RelayStop, RelayJoin, EventLagged, mgrVars
  <2> QED BY <2>1, Untouched
<1>10. ASSUME NEW l \in Token, 
              \/ ReaderStart(l) \/ ReaderStop(l) \/ ReaderOrphan(l) \/ ReaderCleanup(l)
              \/ ReaderFinish(l) \/ ReaderFail(l) \/ WorkerExit(l)
       PROVE  Goal
  <2>1. UNCHANGED <<devices, sessions, wsAuthHashes, reply>>
    BY <1>10 DEF ReaderStart, ReaderStop, ReaderOrphan, ReaderCleanup, ReaderFinish, ReaderFail,
                 WorkerExit, mgrVars, thrVars
  <2> QED BY <2>1, Untouched
<1>11. ASSUME NEW k \in Conn, ConnConnect(k) PROVE Goal
  <2> DEFINE t == conn[k].tok  kind == conn[k].kind  gen == sessions[t].gen[kind] + 1
             r == [sessions[t] EXCEPT !.mode = kind, !.gen[kind] = gen]
  <2>1. t \in DOMAIN sessions /\ kind \in Kinds \cap Modes /\ sessions[t] \in SessionRec
    BY <1>11 DEF TypeOK, ManagerTypeOK, OutsideTypeOK, IsMap, ConnRec, Kinds, Modes, ConnConnect
  <2>a. gen \in Nat
    BY <2>1 DEF SessionRec
  <2>2. r \in SessionRec /\ r.dev = sessions[t].dev /\ r.owner = sessions[t].owner
    BY <2>1, <2>a DEF SessionRec
  <2>3. sessions' = [sessions EXCEPT ![t] = r]
    BY <1>11, <2>1 DEF TypeOK, ManagerTypeOK, IsMap, ConnConnect
  <2> HIDE DEF r
  <2>4. Leaves
    BY <1>11, <2>1, <2>2, <2>3 DEF TypeOK, ManagerTypeOK, IsMap, Leaves, ConnConnect, thrVars
  <2> QED BY <2>4
<1>12. ASSUME NEW k \in Conn, ConnDisconnect(k) PROVE Goal
  <2>1. conn[k].tok \in DOMAIN sessions /\ sessions' = [sessions EXCEPT ![conn[k].tok].mode = "nm"]
    BY <1>12 DEF ConnDisconnect, ConnCurrent
  <2>2. Leaves
    BY <1>12, <2>1 DEF TypeOK, ManagerTypeOK, IsMap, SessionRec, Modes, Leaves, ConnDisconnect, thrVars
  <2> QED BY <2>2
<1>13. ASSUME NEW k \in Conn,
              \/ \E t \in Token, kind \in Kinds : ConnAuth(k, t, kind)
              \/ ConnRefused(k) \/ ConnTask(k) \/ ConnDisconnectStale(k)
       PROVE  Goal
  <2>1. UNCHANGED <<devices, sessions, wsAuthHashes, reply>>
    BY <1>13 DEF ConnAuth, ConnRefused, ConnTask, ConnServe, ConnStop, ConnDisconnectStale, mgrVars,
                 thrVars
  <2> QED BY <2>1, Untouched
<1>14. ASSUME NEW d \in Device, Unplug(d) \/ Replug(d) \/ HotplugRemove(d) PROVE Goal
  <2>1. UNCHANGED <<devices, sessions, wsAuthHashes, reply>>
    BY <1>14 DEF Unplug, Replug, HotplugRemove, mgrVars, thrVars
  <2> QED BY <2>1, Untouched
<1>15. CASE UNCHANGED vars
  <2>1. UNCHANGED <<devices, sessions, wsAuthHashes, reply>>
    BY <1>15 DEF vars, mgrVars, thrVars
  <2> QED BY <2>1, Untouched
<1> HIDE DEF Goal
<1>16. ASSUME NEW c \in Client, LoopStep(c) \/ RelayStep(c) \/ ClientInput(c) \/ EventLagged(c)
       PROVE  Goal
  <2>1. CASE LoopStep(c)
    BY <1>1, <1>2, <1>3, <1>4, <1>5, <2>1 DEF LoopStep, OpenStep, DrainStep
  <2>2. CASE RelayStep(c) \/ EventLagged(c)
    BY <1>7, <1>9, <2>2 DEF RelayStep
  <2>3. CASE ClientInput(c)
    BY <1>4, <1>5, <1>6, <2>3 DEF ClientInput
  <2> QED BY <1>16, <2>1, <2>2, <2>3
<1>17. ASSUME NEW l \in Token, ReaderStep(l) \/ ReaderFail(l) \/ WorkerExit(l) PROVE Goal
  BY <1>8, <1>10, <1>17 DEF ReaderStep
<1>18. ASSUME NEW k \in Conn,
              \/ \E t \in Token, kind \in Kinds : ConnAuth(k, t, kind)
              \/ ConnConnect(k) \/ ConnRefused(k) \/ ConnTask(k) \/ ConnEnd(k)
       PROVE  Goal
  BY <1>11, <1>12, <1>13, <1>18 DEF ConnEnd
<1> QED BY <1>14, <1>15, <1>16, <1>17, <1>18 DEF Next

\* hash
\* The hashes follow the sessions through all locked sections.
LEMMA HashStep ==
    ASSUME TypeOK, TokenOnce, HashIffSession, [Next]_vars
    PROVE  HashIffSession'
<1>1. ASSUME NEW c \in Client, Registers(c) PROVE HashIffSession'
  BY <1>1 DEF Registers, Register, Put, HashIffSession
<1>2. ASSUME NEW t \in Token, Ends(t) PROVE HashIffSession'
  BY <1>2 DEF Ends, CloseSession, Drop, Restrict, HashIffSession
<1>3. ASSUME NEW d \in Device, TearsDown(d) PROVE HashIffSession'
  BY <1>3 DEF TearsDown, DetachLifetime, Drop, Restrict, HashIffSession
<1>4. CASE Leaves
  BY <1>4 DEF Leaves, HashIffSession
<1> QED BY <1>1, <1>2, <1>3, <1>4, LockedSection

\* So do the Entries: the first session brings the Entry, the last one takes it.
LEMMA EntryStep ==
    ASSUME TypeOK, TokenOnce, SessionIffEntry, [Next]_vars
    PROVE  SessionIffEntry'
<1>0. IsMap(sessions, Token, SessionRec) /\ IsMap(devices, Device, Token)
  BY DEF TypeOK, ManagerTypeOK
<1>1. ASSUME NEW c \in Client, Registers(c) PROVE SessionIffEntry'
  <2> DEFINE d == client[c].dev  t == client[c].tok
  <2>1. t \notin DOMAIN sessions
    BY <1>1 DEF Registers, TokenOnce
  <2>2. /\ DOMAIN sessions' = DOMAIN sessions \cup {t} /\ sessions'[t].dev = d
        /\ \A u \in DOMAIN sessions : sessions'[u] = sessions[u]
    BY <1>1, <2>1 DEF Registers, Register, Put
  <2>3. DOMAIN devices' = DOMAIN devices \cup {d}
    BY <1>1 DEF Registers, Put
  <2> QED BY <2>1, <2>2, <2>3 DEF SessionIffEntry
<1>2. ASSUME NEW t \in Token, Ends(t) PROVE SessionIffEntry'
  <2> DEFINE d == sessions[t].dev
  <2>1. /\ t \in DOMAIN sessions /\ DOMAIN sessions' = DOMAIN sessions \ {t}
        /\ \A u \in DOMAIN sessions' : sessions'[u] = sessions[u]
    BY <1>2 DEF Ends, CloseSession, Drop, Restrict
  <2>2. DOMAIN devices' = IF SessionsOn(d) = {t} THEN DOMAIN devices \ {d} ELSE DOMAIN devices
    BY <1>2 DEF Ends, CloseSession, RemoveEntry, Drop, Restrict
  <2> QED BY <2>1, <2>2 DEF SessionIffEntry, SessionsOn
<1>3. ASSUME NEW d \in Device, TearsDown(d) PROVE SessionIffEntry'
  <2>1. /\ DOMAIN sessions' = DOMAIN sessions \ SessionsOn(d)
        /\ \A u \in DOMAIN sessions' : sessions'[u] = sessions[u]
        /\ DOMAIN devices' = DOMAIN devices \ {d}
    BY <1>3 DEF TearsDown, DetachLifetime, RemoveEntry, Drop, Restrict
  <2> QED BY <2>1 DEF SessionIffEntry, SessionsOn
<1>4. CASE Leaves
  BY <1>4 DEF Leaves, SessionIffEntry
<1> QED BY <1>1, <1>2, <1>3, <1>4, LockedSection

-----------------------------------------------------------------------------
(* Openers, reservations and waiters *)

\* What most steps do to openers and waiters: nothing they could see.
Quiet ==
    /\ opening' = opening
    /\ \A d \in DOMAIN devices' : d \in DOMAIN devices /\ devices'[d] = devices[d]
    /\ \A e \in Client :
         /\ Opener(e)' <=> Opener(e)
         /\ client'[e].pc = "notify" <=> client[e].pc = "notify"
         /\ Opener(e) \/ client[e].pc = "notify" =>
              client'[e].tok = client[e].tok /\ client'[e].dev = client[e].dev
         /\ client[e].pc \in {"release", "finish"} => client'[e].pc \in {"release", "finish"}
         /\ client'[e].pc = "waiting" /\ e \notin woken' => client'[e] = client[e] /\ e \notin woken

\* A request loop that moves without taking part in the reservation protocol.
LEMMA OneClientMoves ==
    ASSUME TypeOK, NEW c \in Client, opening' = opening,
           \A d \in DOMAIN devices' : d \in DOMAIN devices /\ devices'[d] = devices[d],
           \A e \in Client \ {c} : client'[e] = client[e],
           woken \subseteq woken' \cup {c},
           client'[c].pc # "waiting",
           Opener(c)' <=> Opener(c),
           client[c].pc # "notify" /\ client'[c].pc # "notify",
           Opener(c) => client'[c].tok = client[c].tok /\ client'[c].dev = client[c].dev,
           client[c].pc \in {"release", "finish"} => client'[c].pc \in {"release", "finish"}
    PROVE  Quiet
BY DEF Quiet, Opener

\* A step of another thread.
LEMMA NoClientMoves ==
    ASSUME TypeOK, client' = client, opening' = opening,
           \A d \in DOMAIN devices' : d \in DOMAIN devices /\ devices'[d] = devices[d],
           woken \subseteq woken'
    PROVE  Quiet
BY DEF Quiet, Opener

\* Every step is one of the five that change reservations or waits, or quiet.
LEMMA OpenerStep ==
    ASSUME TypeOK, [Next]_vars
    PROVE  \/ \E c \in Client : \/ OpenReserve(c) \/ OpenPublish(c) \/ OpenFinish(c)
                                \/ OpenWait(c) \/ OpenNotify(c)
           \/ Quiet
<1> DEFINE Goal == \/ \E c \in Client : \/ OpenReserve(c) \/ OpenPublish(c) \/ OpenFinish(c)
                                        \/ OpenWait(c) \/ OpenNotify(c)
                   \/ Quiet
<1> SUFFICES Goal
  OBVIOUS
<1>0. client \in [Client -> ClientRec] /\ IdleClient.pc = "idle" /\ IdleClient.back = "idle"
  BY DEF TypeOK, ThreadTypeOK, IdleClient
<1>01. \A c \in Client : client[c].back = "finish" => client[c].pc \in {"stopping", "joining"}
  BY DEF TypeOK, LocalsOK
<1> DEFINE Kept == opening' = opening /\ devices' = devices
<1>1. ASSUME NEW c \in Client, OpenJoin(c) \/ WaiterJoin(c) \/ WaiterFail(c) PROVE Quiet
  <2>1. Kept /\ client' = [client EXCEPT ![c] = IdleClient] /\ woken \subseteq woken' \cup {c}
    BY <1>1 DEF OpenJoin, WaiterJoin, WaiterFail, GoIdle, openVars, mgrVars
  <2>2. client[c].pc \in {"attempt", "waiting"}
    BY <1>1 DEF OpenJoin, WaiterJoin, WaiterFail
  <2> QED BY <1>0, <1>01, <2>1, <2>2, OneClientMoves DEF Opener, OpenerPcs
<1>2. ASSUME NEW c \in Client, WaiterRetry(c) PROVE Quiet
  <2>1. /\ Kept /\ woken \subseteq woken' \cup {c} /\ client[c].pc = "waiting"
        /\ client'[c].pc = "attempt" /\ client'[c].back = client[c].back
        /\ \A e \in Client \ {c} : client'[e] = client[e]
    BY <1>0, <1>2 DEF WaiterRetry, mgrVars, ClientRec
  <2> QED BY <1>01, <2>1, OneClientMoves DEF Opener, OpenerPcs
<1>3. ASSUME NEW c \in Client,
             \/ PhysicalOpen(c) \/ PhysicalOpenFail(c) \/ OpenBuild(c) \/ OpenAbandon(c)
             \/ OpenRelease(c)
      PROVE  Quiet
  <2>1. Kept /\ woken' = woken
    BY <1>3 DEF PhysicalOpen, PhysicalOpenFail, OpenBuild, OpenAbandon, OpenRelease, mgrVars
  <2>2. /\ client[c].pc \in {"opening", "opened", "built", "release"}
        /\ client[c].pc = "release" => client'[c].pc = "finish"
        /\ client'[c].pc \in {"opened", "built", "finish"}
        /\ client'[c].tok = client[c].tok /\ client'[c].dev = client[c].dev
        /\ \A e \in Client \ {c} : client'[e] = client[e]
    BY <1>0, <1>3 DEF PhysicalOpen, PhysicalOpenFail, OpenBuild, OpenAbandon, OpenRelease, Go, ClientRec
  <2> QED BY <2>1, <2>2, OneClientMoves DEF Opener, OpenerPcs
<1>4. ASSUME NEW c \in Client, OpenDiscard(c) PROVE Quiet
  <2>1. /\ Kept /\ woken' = woken /\ client[c].pc = "built" /\ client'[c].pc = "stopping"
        /\ client'[c].back = "finish"
        /\ client'[c].tok = client[c].tok /\ client'[c].dev = client[c].dev
        /\ \A e \in Client \ {c} : client'[e] = client[e]
    BY <1>0, <1>4 DEF OpenDiscard, mgrVars, ClientRec
  <2> QED BY <2>1, OneClientMoves DEF Opener, OpenerPcs
<1>5. ASSUME NEW c \in Client, ClientStop(c) \/ ClientJoin(c) PROVE Quiet
  <2>1. Kept /\ woken' = woken
    BY <1>5 DEF ClientStop, ClientJoin, mgrVars
  <2>2. /\ client[c].pc \in {"stopping", "joining"}
        /\ \/ client'[c].pc = "joining" /\ client'[c].back = client[c].back
           \/ client'[c].pc = client[c].back /\ client'[c].back = "idle"
        /\ client'[c].tok = client[c].tok /\ client'[c].dev = client[c].dev
        /\ \A e \in Client \ {c} : client'[e] = client[e]
    BY <1>0, <1>5 DEF ClientStop, ClientJoin, Go, ClientRec
  <2>3. client[c].back \in {"idle", "finish", "draining"}
    BY DEF TypeOK, LocalsOK
  <2> QED BY <2>1, <2>2, <2>3, OneClientMoves DEF Opener, OpenerPcs
<1>6. ASSUME NEW c \in Client, NEW t \in Token, DrainClose(c, t) \/ \E d \in Device : Close(c, d, t)
      PROVE  Quiet
  <2>1. /\ opening' = opening /\ woken' = woken
        /\ \A d \in DOMAIN devices' : d \in DOMAIN devices /\ devices'[d] = devices[d]
    BY <1>6 DEF DrainClose, Close, openVars, CloseSession, RemoveEntry, Drop, Restrict
  <2>2. /\ client[c].pc \in {"idle", "draining"}
        /\ client'[c].pc \in {"idle", "draining", "stopping"} /\ client'[c].back # "finish"
        /\ \A e \in Client \ {c} : client'[e] = client[e]
    BY <1>0, <1>6 DEF DrainClose, Close, ClientRec
  <2> QED BY <1>01, <2>1, <2>2, OneClientMoves DEF Opener, OpenerPcs
<1>7. ASSUME NEW c \in Client, ClientGone(c) \/ \E t \in Token : DrainSkip(c, t) PROVE Quiet
  <2>1. Kept /\ woken' = woken
    BY <1>7 DEF ClientGone, DrainSkip, mgrVars
  <2>2. /\ client[c].pc = "draining" /\ client'[c].pc \in {"draining", "gone"}
        /\ client'[c].back = client[c].back
        /\ \A e \in Client \ {c} : client'[e] = client[e]
    BY <1>0, <1>7 DEF ClientGone, DrainSkip, Go, ClientRec
  <2> QED BY <1>01, <2>1, <2>2, OneClientMoves DEF Opener, OpenerPcs
<1>8. ASSUME NEW c \in Client,
             \/ ClientConnect(c) \/ ClientEof(c)
             \/ \E d \in Device, t \in Token : OpenCall(c, d, t)
      PROVE  Quiet
  <2>1. Kept /\ woken' = woken /\ client[c].pc \in {"new", "idle"}
    BY <1>8 DEF ClientConnect, ClientEof, OpenCall, mgrVars, openVars
  <2>2. PICK p \in {"idle", "draining", "attempt"}, r \in ClientRec :
             r.pc = p /\ r.back = "idle" /\ client' = [client EXCEPT ![c] = r]
    <3>1. CASE ClientConnect(c)
      BY <1>0, <3>1, IdleType DEF ClientConnect, GoIdle
    <3>2. CASE ClientEof(c)
      <4> DEFINE r == [IdleClient EXCEPT !.pc = "draining", !.todo = OwnedBy(c)]
      <4>1. OwnedBy(c) \in SUBSET Token
        BY DEF TypeOK, ManagerTypeOK, IsMap, OwnedBy
      <4>2. r \in ClientRec /\ r.pc = "draining" /\ r.back = "idle"
        BY <1>0, <4>1, IdleType DEF ClientRec, ClientPcs
      <4>3. client' = [client EXCEPT ![c] = r]
        BY <3>2 DEF ClientEof
      <4> HIDE DEF r
      <4> QED BY <4>2, <4>3
    <3>3. ASSUME NEW d \in Device, NEW t \in Token, OpenCall(c, d, t)
          PROVE  \E p \in {"idle", "draining", "attempt"}, r \in ClientRec :
             r.pc = p /\ r.back = "idle" /\ client' = [client EXCEPT ![c] = r]
      <4> DEFINE r == [IdleClient EXCEPT !.pc = "attempt", !.dev = d, !.tok = t]
      <4>2. r \in ClientRec /\ r.pc = "attempt" /\ r.back = "idle"
        BY <1>0, IdleType DEF ClientRec, ClientPcs
      <4>3. client' = [client EXCEPT ![c] = r]
        BY <3>3 DEF OpenCall
      <4> HIDE DEF r
      <4> QED BY <4>2, <4>3
    <3> QED BY <1>8, <3>1, <3>2, <3>3
  <2> QED BY <1>0, <1>01, <2>1, <2>2, OneClientMoves DEF Opener, OpenerPcs
<1>9. ASSUME NEW c \in Client, RelayStep(c) \/ EventLagged(c) PROVE Quiet
  <2>1. /\ client' = client /\ opening' = opening /\ woken \subseteq woken'
        /\ \A d \in DOMAIN devices' : d \in DOMAIN devices /\ devices'[d] = devices[d]
    BY <1>9 DEF RelayStep, RelayDisconnect, RelayPost, RelayStop, RelayJoin, EventLagged, mgrVars, openVars,
                DetachLifetime, RemoveEntry, Drop, Restrict, Notify
  <2> QED BY <2>1, NoClientMoves
<1>10. ASSUME NEW l \in Token, ReaderStep(l) \/ ReaderFail(l) \/ WorkerExit(l) PROVE Quiet
  <2>1. /\ client' = client /\ opening' = opening /\ woken' = woken
        /\ \A d \in DOMAIN devices' : d \in DOMAIN devices /\ devices'[d] = devices[d]
    BY <1>10 DEF ReaderStep, ReaderStart, ReaderStop, ReaderDetach, ReaderOrphan, ReaderCleanup,
                ReaderFinish, ReaderFail, WorkerExit, mgrVars, thrVars, openVars,
                DetachLifetime, RemoveEntry, Drop, Restrict
  <2> QED BY <2>1, NoClientMoves
<1>11. ASSUME NEW k \in Conn,
              \/ \E t \in Token, kind \in Kinds : ConnAuth(k, t, kind)
              \/ ConnConnect(k) \/ ConnRefused(k) \/ ConnTask(k) \/ ConnEnd(k)
       PROVE  Quiet
  <2>1. Kept /\ client' = client /\ woken' = woken
    BY <1>11 DEF ConnAuth, ConnConnect, ConnRefused, ConnTask, ConnServe,
                 ConnStop, ConnEnd, ConnDisconnect, ConnDisconnectStale,
                 mgrVars, openVars, thrVars
  <2> QED BY <2>1, NoClientMoves
<1>12. ASSUME NEW d \in Device, Unplug(d) \/ Replug(d) \/ HotplugRemove(d) PROVE Quiet
  <2>1. Kept /\ client' = client /\ woken' = woken
    BY <1>12 DEF Unplug, Replug, HotplugRemove, mgrVars, thrVars
  <2> QED BY <2>1, NoClientMoves
<1>13. ASSUME NEW c \in Client, NEW d \in Device, NEW t \in Token, NEW m \in AskModes,
              SetDataplaneMode(c, d, t, m)
       PROVE  Quiet
  <2>1. Kept /\ client' = client /\ woken' = woken
    BY <1>13 DEF SetDataplaneMode, thrVars, openVars
  <2> QED BY <2>1, NoClientMoves
<1>14. CASE UNCHANGED vars
  <2>1. Kept /\ client' = client /\ woken' = woken
    BY <1>14 DEF vars, mgrVars, thrVars
  <2> QED BY <2>1, NoClientMoves
<1> HIDE DEF Kept
<1>15. ASSUME NEW c \in Client, LoopStep(c) PROVE Goal
  BY <1>1, <1>2, <1>3, <1>4, <1>5, <1>6, <1>7, <1>15 DEF LoopStep, OpenStep, DrainStep
<1>16. ASSUME NEW c \in Client, ClientInput(c) PROVE Quiet
  BY <1>6, <1>8, <1>13, <1>16 DEF ClientInput
<1> QED BY <1>9, <1>10, <1>11, <1>12, <1>14, <1>15, <1>16 DEF Next

-----------------------------------------------------------------------------
(* Invalidation *)

\* Who may set the flag of a reservation.
InvalidatedFrame == invalidated' = invalidated \/ \E c \in Client : RelayDisconnect(c)

\* Only force_close sets the flag of a reservation.
LEMMA InvalidatedStep ==
    ASSUME [Next]_vars
    PROVE  InvalidatedFrame
<1>1. ASSUME NEW c \in Client, OpenStep(c) PROVE invalidated' = invalidated
  BY <1>1 DEF OpenStep, OpenJoin, OpenWait, OpenReserve, WaiterJoin, WaiterRetry, WaiterFail,
              PhysicalOpen, PhysicalOpenFail, OpenBuild, OpenAbandon, OpenPublish, OpenDiscard,
              OpenRelease, OpenFinish, OpenNotify, mgrVars, openVars
<1>2. ASSUME NEW c \in Client, ClientStop(c) \/ ClientJoin(c) \/ DrainStep(c) \/ EventLagged(c)
      PROVE  invalidated' = invalidated
  BY <1>2 DEF ClientStop, ClientJoin, DrainStep, DrainClose, DrainSkip, ClientGone, EventLagged,
              mgrVars, openVars
<1>3. ASSUME NEW c \in Client, ClientInput(c) PROVE invalidated' = invalidated
  BY <1>3 DEF ClientInput, ClientConnect, ClientEof, OpenCall, Close, SetDataplaneMode, mgrVars, openVars
<1>4. ASSUME NEW c \in Client, RelayStep(c) PROVE InvalidatedFrame
  BY <1>4 DEF RelayStep, RelayPost, RelayStop, RelayJoin, mgrVars, openVars, InvalidatedFrame
<1>5. ASSUME NEW l \in Token, ReaderStep(l) \/ ReaderFail(l) \/ WorkerExit(l)
      PROVE  invalidated' = invalidated
  BY <1>5 DEF ReaderStep, ReaderStart, ReaderStop, ReaderDetach, ReaderOrphan, ReaderCleanup,
              ReaderFinish, ReaderFail, WorkerExit, mgrVars, openVars
<1>6. ASSUME NEW k \in Conn,
              \/ \E t \in Token, kind \in Kinds : ConnAuth(k, t, kind)
              \/ ConnConnect(k) \/ ConnRefused(k) \/ ConnTask(k) \/ ConnEnd(k)
      PROVE  invalidated' = invalidated
  BY <1>6 DEF ConnAuth, ConnConnect, ConnRefused, ConnTask, ConnServe,
              ConnStop, ConnEnd, ConnDisconnect, ConnDisconnectStale,
              mgrVars, openVars
<1>7. ASSUME NEW d \in Device, Unplug(d) \/ Replug(d) \/ HotplugRemove(d)
      PROVE  invalidated' = invalidated
  BY <1>7 DEF Unplug, Replug, HotplugRemove, mgrVars
<1>8. CASE UNCHANGED vars
  BY <1>8 DEF vars, mgrVars, InvalidatedFrame
<1> QED BY <1>1, <1>2, <1>3, <1>4, <1>5, <1>6, <1>7, <1>8 DEF Next, LoopStep, InvalidatedFrame

\* An open() that answered with a session never answers anything else.
LEMMA AnswersStay ==
    ASSUME TypeOK, TokenOnce, [Next]_vars
    PROVE  \A t \in Token : reply[t] = "ok" => reply'[t] = "ok"
<1>1. ASSUME NEW c \in Client, Registers(c) PROVE \A t \in Token : reply[t] = "ok" => reply'[t] = "ok"
  BY <1>1 DEF Registers, Register, TypeOK, ThreadTypeOK
<1> QED BY <1>1, LockedSection DEF Ends, TearsDown, Leaves

\* The token of a published Entry has answered, and can only be the reservation
\* of its own device.
LEMMA PublishedStep ==
    ASSUME TypeOK, TokenOnce, ReservationExclusive, PublishedOnce, [Next]_vars
    PROVE  PublishedOnce'
<1>0. client \in [Client -> ClientRec] /\ IsMap(devices, Device, Token)
  BY DEF TypeOK, ThreadTypeOK, ManagerTypeOK
<1>1. \A d \in DOMAIN devices : devices[d] \in Token /\ reply'[devices[d]] = "ok"
  BY <1>0, AnswersStay DEF PublishedOnce, IsMap
<1>2. CASE Quiet
  BY <1>1, <1>2 DEF Quiet, PublishedOnce
<1>3. ASSUME NEW c \in Client, OpenReserve(c) PROVE PublishedOnce'
  <2> DEFINE d == client[c].dev  t == client[c].tok
  <2>1. /\ d \notin DOMAIN opening /\ devices' = devices
        /\ DOMAIN opening' = DOMAIN opening \cup {d} /\ opening'[d] = t
        /\ \A e \in DOMAIN opening : opening'[e] = opening[e]
    BY <1>3 DEF OpenReserve, Put
  <2>2. reply[t] = "none"
    BY <1>3 DEF OpenReserve, TokenOnce, Pending
  <2> QED BY <1>1, <2>1, <2>2 DEF PublishedOnce
<1>4. ASSUME NEW c \in Client, OpenPublish(c) PROVE PublishedOnce'
  <2> DEFINE d == client[c].dev  t == client[c].tok
  <2>1. /\ opening' = opening /\ d \in DOMAIN opening /\ opening[d] = t
        /\ DOMAIN devices' = DOMAIN devices \cup {d} /\ devices'[d] = t
        /\ \A e \in DOMAIN devices \ {d} : devices'[e] = devices[e]
    BY <1>4 DEF OpenPublish, Put, Current, openVars
  <2>2. t \in Token /\ reply'[t] = "ok"
    BY <1>4 DEF OpenPublish, Register, TypeOK, LocalsOK, ThreadTypeOK
  <2>3. \A e \in DOMAIN opening : opening[e] = t => e = d
    <3> SUFFICES ASSUME NEW e \in DOMAIN opening, opening[e] = t PROVE e = d
      OBVIOUS
    <3>1. PICK o \in Client : Opener(o) /\ client[o].dev = e /\ client[o].tok = opening[e]
      BY DEF ReservationExclusive
    <3> QED BY <2>2, <3>1, NoneAssumption DEF TokenOnce
  <2> QED BY <1>1, <2>1, <2>2, <2>3 DEF PublishedOnce
<1>5. ASSUME NEW c \in Client, OpenFinish(c) PROVE PublishedOnce'
  <2>1. devices' = devices /\ \A e \in DOMAIN opening' : e \in DOMAIN opening /\ opening'[e] = opening[e]
    BY <1>5 DEF OpenFinish, Drop, Restrict
  <2> QED BY <1>1, <2>1 DEF PublishedOnce
<1>6. ASSUME NEW c \in Client, OpenWait(c) \/ OpenNotify(c) PROVE PublishedOnce'
  <2>1. devices' = devices /\ opening' = opening
    BY <1>6 DEF OpenWait, OpenNotify, mgrVars
  <2> QED BY <1>1, <2>1 DEF PublishedOnce
<1> QED BY <1>2, <1>3, <1>4, <1>5, <1>6, OpenerStep

\* force_close takes the Entry out in the section that sets the flag, and the
\* opener looks at the flag in the section that publishes.
LEMMA RevivalStep ==
    ASSUME TypeOK, PublishedOnce, NoRevival, [Next]_vars
    PROVE  NoRevival'
<1>1. ASSUME NEW c \in Client, RelayDisconnect(c) PROVE NoRevival'
  <2> DEFINE d == Head(events[c])
  <2>1. devices' = [e \in DOMAIN devices \ {d} |-> devices[e]]
    BY <1>1 DEF RelayDisconnect, DetachLifetime, RemoveEntry, Drop, Restrict
  <2>2. invalidated' \subseteq invalidated \cup {opening[d]} /\ (d \notin DOMAIN opening => invalidated' = invalidated)
    BY <1>1 DEF RelayDisconnect
  <2> HIDE DEF d
  <2> QED BY <2>1, <2>2 DEF NoRevival, PublishedOnce
<1>2. CASE invalidated' = invalidated
  <2>1. CASE Quiet
    BY <1>2, <2>1 DEF Quiet, NoRevival
  <2>2. ASSUME NEW c \in Client, OpenPublish(c) PROVE NoRevival'
    BY <1>2, <2>2 DEF OpenPublish, Current, Put, NoRevival
  <2>3. ASSUME NEW c \in Client, OpenReserve(c) \/ OpenFinish(c) \/ OpenWait(c) \/ OpenNotify(c)
        PROVE  NoRevival'
    BY <1>2, <2>3 DEF OpenReserve, OpenFinish, OpenWait, OpenNotify, mgrVars, NoRevival
  <2> QED BY <2>1, <2>2, <2>3, OpenerStep
<1> QED BY <1>1, <1>2, InvalidatedStep DEF InvalidatedFrame

\* Reservations are inserted where there is none, and removed by their opener.
LEMMA ReservationStep ==
    ASSUME TypeOK, TokenOnce, ReservationExclusive, [Next]_vars
    PROVE  ReservationExclusive'
<1>0. client \in [Client -> ClientRec]
  BY DEF TypeOK, ThreadTypeOK
<1>1. CASE Quiet
  <2>1. \A c \in Client : client[c].pc \in {"release", "finish"} => Opener(c)
    BY DEF Opener, OpenerPcs
  <2>2. ASSUME NEW d \in DOMAIN opening'
        PROVE  \E c \in Client : Opener(c)' /\ client'[c].dev = d /\ client'[c].tok = opening'[d]
    <3>1. d \in DOMAIN opening /\ opening'[d] = opening[d]
      BY <1>1 DEF Quiet
    <3>2. PICK c \in Client : Opener(c) /\ client[c].dev = d /\ client[c].tok = opening[d]
      BY <3>1 DEF ReservationExclusive
    <3> QED BY <1>1, <3>1, <3>2 DEF Quiet
  <2>3. ASSUME NEW d \in DOMAIN opening', d \in DOMAIN devices'
        PROVE  /\ devices'[d] = opening'[d]
               /\ \E c \in Client : client'[c].tok = opening'[d] /\ client'[c].pc \in {"release", "finish"}
    <3>1. /\ d \in DOMAIN opening /\ opening'[d] = opening[d]
          /\ d \in DOMAIN devices /\ devices'[d] = devices[d]
      BY <1>1, <2>3 DEF Quiet
    <3>2. PICK c \in Client : client[c].tok = opening[d] /\ client[c].pc \in {"release", "finish"}
      BY <3>1 DEF ReservationExclusive
    <3>3. client'[c].tok = opening[d] /\ client'[c].pc \in {"release", "finish"}
      BY <1>1, <2>1, <3>2 DEF Quiet
    <3> QED BY <3>1, <3>3 DEF ReservationExclusive
  <2>4. ASSUME NEW c \in Client, Opener(c)'
        PROVE  client'[c].dev \in DOMAIN opening' /\ opening'[client'[c].dev] = client'[c].tok
    BY <1>1, <2>4 DEF Quiet, ReservationExclusive
  <2> QED BY <2>2, <2>3, <2>4 DEF ReservationExclusive
<1>2. ASSUME NEW c \in Client, OpenReserve(c) PROVE ReservationExclusive'
  <2> DEFINE d == client[c].dev  t == client[c].tok
  <2>1. /\ d \notin DOMAIN devices /\ d \notin DOMAIN opening /\ devices' = devices
        /\ DOMAIN opening' = DOMAIN opening \cup {d} /\ opening'[d] = t
        /\ \A e \in DOMAIN opening : opening'[e] = opening[e]
    BY <1>2 DEF OpenReserve, Put
  <2>2. /\ client'[c].pc = "opening" /\ client'[c].tok = t /\ client'[c].dev = d
        /\ \A e \in Client \ {c} : client'[e] = client[e]
    BY <1>0, <1>2 DEF OpenReserve, Go, ClientRec
  <2>3. ~Opener(c)
    BY <1>2 DEF TypeOK, LocalsOK, OpenReserve, Opener, OpenerPcs
  <2> HIDE DEF d, t
  <2> QED BY <2>1, <2>2, <2>3 DEF ReservationExclusive, Opener, OpenerPcs
<1>3. ASSUME NEW c \in Client, OpenPublish(c) PROVE ReservationExclusive'
  <2> DEFINE d == client[c].dev  t == client[c].tok
  <2>1. /\ opening' = opening /\ d \in DOMAIN opening /\ opening[d] = t
        /\ DOMAIN devices' = DOMAIN devices \cup {d} /\ devices'[d] = t
        /\ \A e \in DOMAIN devices \ {d} : devices'[e] = devices[e]
    BY <1>3 DEF OpenPublish, Put, Current, openVars
  <2>2. /\ client'[c].pc = "release" /\ client'[c].tok = t /\ client'[c].dev = d
        /\ client[c].pc = "built"
        /\ \A e \in Client \ {c} : client'[e] = client[e]
    BY <1>0, <1>3 DEF OpenPublish, Go, ClientRec
  <2> HIDE DEF d, t
  <2> QED BY <2>1, <2>2 DEF ReservationExclusive, Opener, OpenerPcs, d, t
<1>4. ASSUME NEW c \in Client, OpenFinish(c) PROVE ReservationExclusive'
  <2> DEFINE d == client[c].dev  t == client[c].tok
  <2>1. client[c].pc = "finish" /\ Opener(c) /\ t # None
    BY <1>4, NoneAssumption DEF OpenFinish, Opener, OpenerPcs, TypeOK, LocalsOK
  <2>2. d \in DOMAIN opening /\ opening[d] = t
    BY <2>1 DEF ReservationExclusive
  <2>3. /\ devices' = devices /\ DOMAIN opening' = DOMAIN opening \ {d}
        /\ \A e \in DOMAIN opening' : opening'[e] = opening[e]
    BY <1>4, <2>2 DEF OpenFinish, Drop, Restrict
  <2>4. /\ client'[c].pc = "notify" /\ client'[c].back = client[c].back
        /\ \A e \in Client \ {c} : client'[e] = client[e]
    BY <1>0, <1>4 DEF OpenFinish, Go, ClientRec
  <2>5. ~Opener(c)'
    BY <2>1, <2>4 DEF Opener, OpenerPcs, TypeOK, LocalsOK
  <2>6. \A e \in Client \ {c} : client[e].tok # t
    BY <2>1 DEF TokenOnce
  <2>7. \A e \in DOMAIN opening' : opening[e] # t
    <3> SUFFICES ASSUME NEW e \in DOMAIN opening', opening[e] = t PROVE FALSE
      OBVIOUS
    <3>1. PICK o \in Client : Opener(o) /\ client[o].dev = e /\ client[o].tok = opening[e]
      BY <2>3 DEF ReservationExclusive
    <3> QED BY <2>3, <2>6, <3>1
  <2>8. \A e \in Client \ {c} : Opener(e)' <=> Opener(e)
    BY <2>4 DEF Opener
  <2>9. \A e \in Client : Opener(e)' => e # c /\ Opener(e)
    BY <2>5, <2>8
  <2>10. \A e \in DOMAIN opening' :
            \E o \in Client : Opener(o)' /\ client'[o].dev = e /\ client'[o].tok = opening'[e]
    BY <2>3, <2>4, <2>7, <2>8 DEF ReservationExclusive
  <2>11. \A e \in DOMAIN opening' : e \in DOMAIN devices' =>
            /\ devices'[e] = opening'[e]
            /\ \E o \in Client : client'[o].tok = opening'[e] /\ client'[o].pc \in {"release", "finish"}
    BY <2>3, <2>4, <2>7 DEF ReservationExclusive
  <2>12. \A e \in Client : Opener(e)' =>
            client'[e].dev \in DOMAIN opening' /\ opening'[client'[e].dev] = client'[e].tok
    BY <2>2, <2>3, <2>4, <2>6, <2>9 DEF ReservationExclusive
  <2> QED BY <2>10, <2>11, <2>12 DEF ReservationExclusive
<1>5. ASSUME NEW c \in Client, OpenWait(c) \/ OpenNotify(c) PROVE ReservationExclusive'
  <2>1. /\ opening' = opening /\ devices' = devices
        /\ client[c].pc \in {"attempt", "notify"}
    BY <1>5 DEF OpenWait, OpenNotify, mgrVars
  <2>2. /\ client'[c].pc \in {"waiting", "idle"}
        /\ client'[c].back \in {client[c].back, "idle"}
        /\ \A e \in Client \ {c} : client'[e] = client[e]
    BY <1>0, <1>5 DEF OpenWait, OpenNotify, GoIdle, IdleClient, ClientRec
  <2>3. ~Opener(c) /\ ~Opener(c)'
    BY <2>1, <2>2 DEF Opener, OpenerPcs, TypeOK, LocalsOK
  <2>4. \A e \in Client \ {c} : Opener(e)' <=> Opener(e)
    BY <2>2 DEF Opener
  <2> QED BY <2>1, <2>2, <2>3, <2>4 DEF ReservationExclusive
<1> QED BY <1>1, <1>2, <1>3, <1>4, <1>5, OpenerStep

\* A waiter's opener stays until it has notified.
LEMMA NotifierStep ==
    ASSUME TypeOK, TokenOnce, ReservationExclusive, WaiterHasNotifier, [Next]_vars
    PROVE  WaiterHasNotifier'
<1>0. client \in [Client -> ClientRec]
  BY DEF TypeOK, ThreadTypeOK
<1>1. CASE Quiet
  BY <1>1 DEF Quiet, WaiterHasNotifier
<1>2. ASSUME NEW c \in Client, OpenReserve(c) \/ OpenPublish(c) \/ OpenFinish(c)
      PROVE  WaiterHasNotifier'
  <2>1. /\ woken' = woken
        /\ client'[c].pc \in {"opening", "release", "notify"} /\ client[c].pc # "notify"
        /\ client'[c].tok = client[c].tok /\ client'[c].dev = client[c].dev
        /\ \A e \in Client \ {c} : client'[e] = client[e]
    BY <1>0, <1>2 DEF OpenReserve, OpenPublish, OpenFinish, Go, ClientRec
  <2>2. Opener(c)' \/ client'[c].pc = "notify"
    BY <2>1 DEF Opener, OpenerPcs
  <2>3. \A e \in Client \ {c} : Opener(e)' <=> Opener(e)
    BY <2>1 DEF Opener
  <2> QED BY <2>1, <2>2, <2>3 DEF WaiterHasNotifier
<1>3. ASSUME NEW c \in Client, OpenWait(c) PROVE WaiterHasNotifier'
  <2> DEFINE d == client[c].dev
  <2>1. /\ woken' = woken /\ d \in DOMAIN opening
        /\ client[c].pc = "attempt" /\ client'[c].pc = "waiting" /\ client'[c].wait = opening[d]
        /\ client'[c].tok = client[c].tok /\ client'[c].dev = client[c].dev
        /\ \A e \in Client \ {c} : client'[e] = client[e]
    BY <1>0, <1>3 DEF OpenWait, ClientRec
  <2>2. ~Opener(c)
    BY <2>1 DEF Opener, OpenerPcs, TypeOK, LocalsOK
  <2>3. \A e \in Client \ {c} : Opener(e)' <=> Opener(e)
    BY <2>1 DEF Opener
  <2>4. PICK o \in Client : Opener(o) /\ client[o].dev = d /\ client[o].tok = opening[d]
    BY <2>1 DEF ReservationExclusive
  <2> QED BY <2>1, <2>2, <2>3, <2>4 DEF WaiterHasNotifier
<1>4. ASSUME NEW c \in Client, OpenNotify(c) PROVE WaiterHasNotifier'
  <2>1. /\ client[c].pc = "notify" /\ client'[c].pc = "idle"
        /\ \A e \in Client \ {c} : client'[e] = client[e]
    BY <1>0, <1>4 DEF OpenNotify, GoIdle, IdleClient
  <2>2. woken' = woken \cup {e \in Client : client[e].pc = "waiting" /\ client[e].wait = client[c].tok}
    BY <1>4 DEF OpenNotify, Notify
  <2>3. \A e \in Client \ {c} : Opener(e)' <=> Opener(e)
    BY <2>1 DEF Opener
  <2> QED BY <2>1, <2>2, <2>3 DEF WaiterHasNotifier
<1> QED BY <1>1, <1>2, <1>3, <1>4, OpenerStep

-----------------------------------------------------------------------------
(* The inductive invariant *)

\* The freshly started daemon satisfies the inductive invariant.
LEMMA InitInv == Init => IInv
<1> SUFFICES ASSUME Init PROVE IInv
  OBVIOUS
<1>1. TypeOK
  BY InitType
<1>2. \A c \in Client : client[c].pc = "new" /\ client[c].tok = None /\ client[c].back = "idle"
  BY DEF Init, IdleClient
<1>3. TokenOnce
  BY <1>2 DEF Init, TokenOnce, Pending
<1>4. HashIffSession /\ SessionIffEntry
  BY DEF Init, HashIffSession, SessionIffEntry
<1>5. ReservationExclusive /\ WaiterHasNotifier
  BY <1>2 DEF Init, ReservationExclusive, WaiterHasNotifier, Opener, OpenerPcs
<1>6. PublishedOnce /\ NoRevival
  BY DEF Init, PublishedOnce, NoRevival
<1> QED BY <1>1, <1>3, <1>4, <1>5, <1>6 DEF IInv

\* Every step preserves it.
LEMMA InvStep == IInv /\ [Next]_vars => IInv'
BY TypeStep, TokenStep, HashStep, EntryStep, ReservationStep, NotifierStep, PublishedStep,
   RevivalStep DEF IInv

\* The inductive invariant holds in every reachable state.
THEOREM InvariantCorrect == Spec => []IInv
BY InitInv, InvStep, PTL DEF Spec

\* No two open() calls share a token, and no token names two sessions.
THEOREM TokenCorrect == Spec => []TokenOnce
<1>1. IInv => TokenOnce
  BY DEF IInv
<1> QED BY <1>1, InvariantCorrect, PTL

\* An auth hash lives exactly as long as its session.
THEOREM HashCorrect == Spec => []HashIffSession
<1>1. IInv => HashIffSession
  BY DEF IInv
<1> QED BY <1>1, InvariantCorrect, PTL

\* An Entry is published exactly while its device has a session.
THEOREM EntryCorrect == Spec => []SessionIffEntry
<1>1. IInv => SessionIffEntry
  BY DEF IInv
<1> QED BY <1>1, InvariantCorrect, PTL

\* Physical opens of one device never overlap, and a reservation always has
\* its opener.
THEOREM ReservationCorrect == Spec => []ReservationExclusive
<1>1. IInv => ReservationExclusive
  BY DEF IInv
<1> QED BY <1>1, InvariantCorrect, PTL

\* No open() waits for a notification that nobody will send.
THEOREM NotifierCorrect == Spec => []WaiterHasNotifier
<1>1. IInv => WaiterHasNotifier
  BY DEF IInv
<1> QED BY <1>1, InvariantCorrect, PTL

\* A lifetime that force_close caught while it was being opened is never
\* published.
THEOREM RevivalCorrect == Spec => []NoRevival
<1>1. IInv => NoRevival
  BY DEF IInv
<1> QED BY <1>1, InvariantCorrect, PTL

-----------------------------------------------------------------------------
(* The abstract sessions *)

\* The freshly started daemon maps to no sessions.
LEMMA RefineInit == Init => Sessions!Init
BY DEF Init, Sessions!Init

\* Registering a session begins it alone or together with the Entry: the opener
\* that publishes finds no other Entry (the branches 1086-1089 and 1144-1148 of
\* open_physical are dead).
LEMMA RegistersRefine ==
    ASSUME IInv, NEW c \in Client, Registers(c)
    PROVE  \E t \in Token, d \in Device : Sessions!Begin(t, c, d) \/ Sessions!Join(t, c, d)
<1>a. PICK t \in Token : t = client[c].tok
  BY DEF IInv, TypeOK, LocalsOK, Registers, Pending
<1>b. PICK d \in Device : d = client[c].dev
  BY DEF IInv, TypeOK, LocalsOK, Registers, Pending
<1>1. t \notin DOMAIN sessions /\ reply[t] = "none" /\ t # None
  BY <1>a, NoneAssumption DEF IInv, TokenOnce, Registers
<1>2. /\ DOMAIN sessions' = DOMAIN sessions \cup {t}
      /\ sessions'[t].owner = c /\ sessions'[t].dev = d
      /\ \A u \in DOMAIN sessions : sessions'[u] = sessions[u]
      /\ reply' = [reply EXCEPT ![t] = "ok"]
  BY <1>a, <1>b, <1>1 DEF Registers, Register, Put
<1>3. {u \in Token : reply'[u] = "ok"} = {u \in Token : reply[u] = "ok"} \cup {t}
  BY <1>1, <1>2 DEF IInv, TypeOK, ThreadTypeOK
<1>4. Sessions!Add(t, c, d)
  BY <1>1, <1>2, <1>3 DEF Sessions!Add, Sessions!live
<1>5. CASE d \in DOMAIN devices /\ devices' = devices
  BY <1>1, <1>4, <1>5 DEF Sessions!Join
<1>6. CASE client[c].pc = "built" /\ Current(c) /\ devices' = Put(devices, d, t)
  <2>1. d \notin DOMAIN devices
    <3> SUFFICES ASSUME d \in DOMAIN devices PROVE FALSE
      OBVIOUS
    <3>1. PICK o \in Client : client[o].tok = t /\ client[o].pc \in {"release", "finish"}
      BY <1>a, <1>b, <1>6 DEF Current, IInv, ReservationExclusive
    <3> QED BY <1>a, <1>1, <1>6, <3>1 DEF IInv, TokenOnce
  <2>2. Sessions!Begin(t, c, d)
    BY <1>4, <1>6, <2>1 DEF Sessions!Begin, Put
  <2> QED BY <1>1, <2>2
<1> QED BY <1>a, <1>b, <1>5, <1>6 DEF Registers

\* close() ends one session, and the Entry with the last one.
LEMMA EndsRefine ==
    ASSUME IInv, NEW t \in Token, Ends(t)
    PROVE  Sessions!End(t)
<1> DEFINE d == sessions[t].dev
<1>1. t \in DOMAIN sessions /\ reply' = reply /\ DOMAIN sessions' = DOMAIN sessions \ {t}
      /\ \A u \in DOMAIN sessions' : sessions'[u] = sessions[u]
  BY DEF Ends, CloseSession, Drop, Restrict
<1>2. Sessions!Keep(Sessions!live \ {t}) /\ t \in Sessions!live
  BY <1>1 DEF Sessions!Keep, Sessions!live
<1>3. \A e \in DOMAIN devices : Sessions!On(e) = SessionsOn(e)
  BY DEF Sessions!On, Sessions!live, SessionsOn
<1>4. IF SessionsOn(d) = {t} THEN devices' = [e \in DOMAIN devices \ {d} |-> devices[e]]
      ELSE devices' = devices
  BY DEF Ends, CloseSession, RemoveEntry, Drop, Restrict
<1>5. devices = [e \in DOMAIN devices |-> devices[e]]
  BY DEF IInv, TypeOK, ManagerTypeOK, IsMap
<1>6. devices' = [e \in {x \in DOMAIN devices : x # d \/ SessionsOn(x) # {t}} |-> devices[e]]
  <2>1. CASE SessionsOn(d) = {t}
    <3>1. {x \in DOMAIN devices : x # d \/ SessionsOn(x) # {t}} = DOMAIN devices \ {d}
      BY <2>1
    <3> QED BY <1>4, <2>1, <3>1
  <2>2. CASE SessionsOn(d) # {t}
    <3>1. {x \in DOMAIN devices : x # d \/ SessionsOn(x) # {t}} = DOMAIN devices
      BY <2>2
    <3> QED BY <1>4, <1>5, <2>2, <3>1
  <2> QED BY <2>1, <2>2
<1>7. {x \in DOMAIN devices : x # d \/ SessionsOn(x) # {t}}
        = {x \in DOMAIN devices : x # d \/ Sessions!On(x) # {t}}
  BY <1>3
<1>8. {u \in Token : reply'[u] = "ok"} = {u \in Token : reply[u] = "ok"}
  BY <1>1
<1>9. d = [u \in DOMAIN sessions |-> sessions[u].dev][t]
  BY <1>1
<1> QED BY <1>2, <1>6, <1>7, <1>8, <1>9 DEF Sessions!End

\* force_close and a failed reader tear the device down, or find nothing to do.
LEMMA TearsDownRefine ==
    ASSUME IInv, NEW d \in Device, TearsDown(d)
    PROVE  Sessions!Teardown(d) \/ UNCHANGED Sessions!vars
<1>1. /\ DOMAIN sessions' = DOMAIN sessions \ SessionsOn(d)
      /\ \A u \in DOMAIN sessions' : sessions'[u] = sessions[u]
      /\ devices' = [e \in DOMAIN devices \ {d} |-> devices[e]]
      /\ reply' = reply
  BY DEF TearsDown, DetachLifetime, RemoveEntry, Drop, Restrict
<1>2. Sessions!On(d) = SessionsOn(d)
  BY DEF Sessions!On, Sessions!live, SessionsOn
<1>3. CASE d \in DOMAIN devices
  BY <1>1, <1>2, <1>3 DEF Sessions!Teardown, Sessions!Keep, Sessions!live
<1>4. CASE d \notin DOMAIN devices
  <2>1. SessionsOn(d) = {}
    BY <1>4 DEF IInv, SessionIffEntry, SessionsOn
  <2>2. devices' = devices
    BY <1>1, <1>4 DEF IInv, TypeOK, ManagerTypeOK, IsMap
  <2>3. /\ [u \in DOMAIN sessions' |-> sessions'[u].owner] = [u \in DOMAIN sessions |-> sessions[u].owner]
        /\ [u \in DOMAIN sessions' |-> sessions'[u].dev] = [u \in DOMAIN sessions |-> sessions[u].dev]
    BY <1>1, <2>1
  <2> QED BY <1>1, <2>2, <2>3 DEF Sessions!vars
<1> QED BY <1>3, <1>4

\* Everything else is a stutter.
LEMMA LeavesRefine ==
    ASSUME IInv, Leaves
    PROVE  UNCHANGED Sessions!vars
<1>1. DOMAIN sessions' = DOMAIN sessions
  BY DEF Leaves
<1>2. /\ [u \in DOMAIN sessions' |-> sessions'[u].owner] = [u \in DOMAIN sessions |-> sessions[u].owner]
      /\ [u \in DOMAIN sessions' |-> sessions'[u].dev] = [u \in DOMAIN sessions |-> sessions[u].dev]
  BY <1>1 DEF Leaves
<1>3. {u \in Token : reply'[u] = "ok"} = {u \in Token : reply[u] = "ok"}
  BY DEF Leaves
<1> QED BY <1>2, <1>3 DEF Leaves, Sessions!vars

\* Every step of the daemon is a step of the abstract sessions, or a stutter.
LEMMA RefineStep == IInv /\ [Next]_vars => [Sessions!Next]_(Sessions!vars)
<1> SUFFICES ASSUME IInv, [Next]_vars PROVE [Sessions!Next]_(Sessions!vars)
  OBVIOUS
<1>1. \/ \E c \in Client : Registers(c)
      \/ \E t \in Token : Ends(t)
      \/ \E d \in Device : TearsDown(d)
      \/ Leaves
  BY LockedSection DEF IInv
<1> QED BY <1>1, RegistersRefine, EndsRefine, TearsDownRefine, LeavesRefine DEF Sessions!Next

\* The session core implements the abstract sessions.
THEOREM RefinementCorrect == Spec => Refines
BY InvariantCorrect, RefineInit, RefineStep, PTL DEF Spec, Refines, Sessions!Spec

-----------------------------------------------------------------------------
(* Holds: the inductive invariant *)

\* The threads that may hold an Entry, and what each of them holds.
Thread == ({"client"} \X Client) \cup ({"relay"} \X Client) \cup ({"reader"} \X Token)
HoldOf(h) == IF h[1] = "client" THEN client[h[2]].hold
             ELSE IF h[1] = "relay" THEN relay[h[2]].td.hold
             ELSE reader[h[2]].td.hold

\* The lifetime of a pending open() is as far as its opener (open_physical
\* 1040-1132), and a token that is yet to be minted has none.
OpeningPhase ==
    /\ \A c \in Client :
         /\ client[c].pc \in {"attempt", "waiting", "opening"} => life[client[c].tok] = "none"
         /\ client[c].pc = "opened" => life[client[c].tok] = "handle"
         /\ client[c].pc = "built" => life[client[c].tok] = "built"
         /\ client[c].pc \in Pending \ {"built"} => reader[client[c].tok].pc = "none"
    /\ \A t \in Token \ minted : life[t] = "none" /\ reader[t].pc = "none"

\* A lifetime is live exactly while it is published, and under one device only.
LiveIffPublished ==
    /\ \A l \in Token : life[l] = "live" <=> \E d \in DOMAIN devices : devices[d] = l
    /\ \A d, e \in DOMAIN devices : devices[d] = devices[e] => d = e

\* A thread holds an Entry only while its program counter says so.
HoldLocal ==
    /\ \A c \in Client : client[c].hold = None \/ client[c].pc \in {"stopping", "joining"}
    /\ \A c \in Client : relay[c].td.hold = None \/ relay[c].pc # "idle"
    /\ \A l \in Token : reader[l].td.hold = None \/ reader[l].pc \in {"cleanup", "joining"}

\* Nobody joins the threads of an Entry before it has signalled them (stop_entry
\* 1197-1224, stop_entry_io_worker 1226-1240).
JoinsStopped ==
    /\ \A c \in Client : client[c].pc = "joining" => life[client[c].hold] = "stopping"
    /\ \A c \in Client : relay[c].pc = "joining" => life[relay[c].td.hold] = "stopping"
    /\ \A l \in Token : reader[l].pc = "joining" => life[reader[l].td.hold] = "stopping"

\* What is held has left the map, what has left it is held, and by one thread.
HoldsExact ==
    /\ \A g, h \in Thread : HoldOf(g) = HoldOf(h) => g = h \/ HoldOf(g) = None
    /\ \A h \in Thread : HoldOf(h) # None => life[HoldOf(h)] \in {"detached", "stopping"}
    /\ \A l \in Token : life[l] = "detached" => \E h \in Thread : HoldOf(h) = l

LifetimeInv == /\ IInv /\ OpeningPhase /\ LiveIffPublished
               /\ HoldLocal /\ JoinsStopped /\ HoldsExact

-----------------------------------------------------------------------------
(* Threads and holds *)

\* A step of one request loop moves no other thread's hold.
LEMMA ClientHolds ==
    ASSUME NEW c \in Client, \A e \in Client \ {c} : client'[e].hold = client[e].hold,
           \A e \in Client : relay'[e].td.hold = relay[e].td.hold,
           \A l \in Token : reader'[l].td.hold = reader[l].td.hold
    PROVE  /\ <<"client", c>> \in Thread
           /\ HoldOf(<<"client", c>>) = client[c].hold /\ HoldOf(<<"client", c>>)' = client'[c].hold
           /\ \A h \in Thread \ {<<"client", c>>} : HoldOf(h)' = HoldOf(h)
BY DEF Thread, HoldOf

\* Nor does a step of one event task ...
LEMMA RelayHolds ==
    ASSUME NEW c \in Client, \A e \in Client \ {c} : relay'[e].td.hold = relay[e].td.hold,
           client' = client, \A l \in Token : reader'[l].td.hold = reader[l].td.hold
    PROVE  /\ <<"relay", c>> \in Thread
           /\ HoldOf(<<"relay", c>>) = relay[c].td.hold /\ HoldOf(<<"relay", c>>)' = relay'[c].td.hold
           /\ \A h \in Thread \ {<<"relay", c>>} : HoldOf(h)' = HoldOf(h)
BY DEF Thread, HoldOf

\* ... or of one reader.
LEMMA ReaderHolds ==
    ASSUME NEW l \in Token, \A k \in Token \ {l} : reader'[k].td.hold = reader[k].td.hold,
           client' = client, relay' = relay
    PROVE  /\ <<"reader", l>> \in Thread
           /\ HoldOf(<<"reader", l>>) = reader[l].td.hold /\ HoldOf(<<"reader", l>>)' = reader'[l].td.hold
           /\ \A h \in Thread \ {<<"reader", l>>} : HoldOf(h)' = HoldOf(h)
BY DEF Thread, HoldOf

\* The holders of a lifetime are the threads that hold it.
LEMMA HoldersThreads == \A l \in Token : Holders(l) = {h \in Thread : HoldOf(h) = l}
BY DEF Holders, Thread, HoldOf

-----------------------------------------------------------------------------
(* What a step does to the holds *)

SameHolds == \A h \in Thread : HoldOf(h)' = HoldOf(h)
SameEntries == DOMAIN devices' = DOMAIN devices /\ \A d \in DOMAIN devices : devices'[d] = devices[d]
Young == {"none", "handle", "built"}

\* Nothing is taken or dropped: lifetimes under construction advance, and what
\* is held may be told to stop.
Keeps ==
    /\ SameHolds /\ SameEntries
    /\ \A l \in Token : \/ life'[l] = life[l]
                        \/ life[l] \in Young /\ life'[l] \in Young
                        \/ life'[l] = "stopping" /\ \E h \in Thread : HoldOf(h) = l

\* The opener publishes its lifetime.
Publishes(d, l) ==
    /\ SameHolds /\ life[l] = "built" /\ life' = [life EXCEPT ![l] = "live"]
    /\ d \notin DOMAIN devices /\ devices' = Put(devices, d, l)

\* Thread h takes l: an Entry out of the map, or the local one of its open().
Takes(h, l) ==
    /\ HoldOf(h) = None /\ HoldOf(h)' = l
    /\ \A g \in Thread \ {h} : HoldOf(g)' = HoldOf(g)
    /\ life[l] \in {"built", "live"} /\ life' = [life EXCEPT ![l] = "detached"]
    /\ DOMAIN devices' = {d \in DOMAIN devices : devices[d] # l}
    /\ \A d \in DOMAIN devices' : devices'[d] = devices[d]

\* Thread h has joined what it held.
Drops(h) ==
    /\ HoldOf(h) # None /\ HoldOf(h)' = None
    /\ \A g \in Thread \ {h} : HoldOf(g)' = HoldOf(g)
    /\ life[HoldOf(h)] = "stopping" /\ life' = life /\ SameEntries

LifetimeSection ==
    \/ Keeps
    \/ \E d \in Device, l \in Token : Publishes(d, l)
    \/ \E h \in Thread, l \in Token : Takes(h, l)
    \/ \E h \in Thread : Drops(h)

\* Each of the four keeps the holds exact, and lifetimes live while published.
LEMMA SectionKeeps ==
    ASSUME TypeOK, LiveIffPublished, HoldsExact, LifetimeSection
    PROVE  /\ LiveIffPublished' /\ HoldsExact'
           /\ \A l \in Token : life[l] = "stopping" => life'[l] = "stopping"
<1> DEFINE Goal == /\ LiveIffPublished' /\ HoldsExact'
                   /\ \A l \in Token : life[l] = "stopping" => life'[l] = "stopping"
<1>0. /\ life \in [Token -> LifePhases] /\ IsMap(devices, Device, Token)
      /\ \A h \in Thread : HoldOf(h) \in Token \cup {None}
  BY DEF TypeOK, ManagerTypeOK, ThreadTypeOK, LifetimeTypeOK, ClientRec, RelayRec, ReaderRec, Teardown,
         Thread, HoldOf
<1>1. CASE Keeps
  <2>1. LiveIffPublished'
    <3>1. \A l \in Token : life'[l] = "live" <=> life[l] = "live"
      BY <1>0, <1>1, NoneAssumption DEF Keeps, Young, HoldsExact
    <3> QED BY <1>1, <3>1 DEF Keeps, SameEntries, LiveIffPublished
  <2>2. HoldsExact'
    BY <1>0, <1>1, NoneAssumption DEF Keeps, SameHolds, Young, HoldsExact
  <2> QED BY <1>0, <1>1, <2>1, <2>2 DEF Keeps, Young
<1>2. ASSUME NEW d \in Device, NEW l \in Token, Publishes(d, l) PROVE Goal
  <2>1. \A k \in Token : life'[k] = IF k = l THEN "live" ELSE life[k]
    BY <1>0, <1>2 DEF Publishes
  <2>2. LiveIffPublished'
    BY <1>0, <1>2, <2>1 DEF Publishes, Put, LiveIffPublished, IsMap
  <2>3. HoldsExact'
    BY <1>0, <1>2, <2>1, NoneAssumption DEF Publishes, SameHolds, HoldsExact
  <2> QED BY <1>2, <2>1, <2>2, <2>3 DEF Publishes
<1>3. ASSUME NEW h \in Thread, NEW l \in Token, Takes(h, l) PROVE Goal
  <2>1. \A k \in Token : life'[k] = IF k = l THEN "detached" ELSE life[k]
    BY <1>0, <1>3 DEF Takes
  <2>2. LiveIffPublished'
    BY <1>0, <1>3, <2>1 DEF Takes, LiveIffPublished, IsMap
  <2>3. \A g \in Thread : HoldOf(g) # l
    BY <1>0, <1>3, NoneAssumption DEF Takes, HoldsExact
  <2>4. HoldsExact'
    <3>1. \A f, g \in Thread : HoldOf(f)' = HoldOf(g)' => f = g \/ HoldOf(f)' = None
      BY <1>3, <2>3 DEF Takes, HoldsExact
    <3>2. \A g \in Thread : HoldOf(g)' # None => life'[HoldOf(g)'] \in {"detached", "stopping"}
      BY <1>0, <1>3, <2>1, <2>3 DEF Takes, HoldsExact
    <3>3. \A k \in Token : life'[k] = "detached" => \E g \in Thread : HoldOf(g)' = k
      BY <1>3, <2>1, NoneAssumption DEF Takes, HoldsExact
    <3> QED BY <3>1, <3>2, <3>3 DEF HoldsExact
  <2> QED BY <1>3, <2>1, <2>2, <2>4 DEF Takes
<1>4. ASSUME NEW h \in Thread, Drops(h) PROVE Goal
  <2>1. LiveIffPublished'
    BY <1>4 DEF Drops, SameEntries, LiveIffPublished
  <2>2. HoldsExact'
    BY <1>4 DEF Drops, HoldsExact
  <2> QED BY <1>4, <2>1, <2>2 DEF Drops
<1> QED BY <1>1, <1>2, <1>3, <1>4 DEF LifetimeSection

-----------------------------------------------------------------------------
(* Every step is one of the four *)

\* What a step does to the threads that join: they go on joining what they
\* hold, or they have just signalled it.
JoinFrame ==
    /\ \A c \in Client : client'[c].pc = "joining" =>
         \/ client[c].pc = "joining" /\ client'[c].hold = client[c].hold
         \/ life'[client'[c].hold] = "stopping"
    /\ \A c \in Client : relay'[c].pc = "joining" =>
         \/ relay[c].pc = "joining" /\ relay'[c].td.hold = relay[c].td.hold
         \/ life'[relay'[c].td.hold] = "stopping"
    /\ \A l \in Token : reader'[l].pc = "joining" =>
         \/ reader[l].pc = "joining" /\ reader'[l].td.hold = reader[l].td.hold
         \/ life'[reader'[l].td.hold] = "stopping"

Moves == LifetimeSection /\ HoldLocal' /\ JoinFrame

\* A request loop that holds nothing moves to where it holds nothing.
LEMMA LoopMoves ==
    ASSUME HoldLocal, NEW c \in Client, \A e \in Client \ {c} : client'[e] = client[e],
           client[c].pc \notin {"stopping", "joining"}, client'[c].pc \notin {"stopping", "joining"},
           client'[c].hold \in {client[c].hold, None}, relay' = relay,
           \A l \in Token : reader'[l] = reader[l] \/
              (reader[l].pc = "none" /\ reader'[l].td = reader[l].td /\ reader'[l].pc = "gate")
    PROVE  SameHolds /\ HoldLocal' /\ JoinFrame
<1>1. client[c].hold = None /\ client'[c].hold = None
  BY DEF HoldLocal
<1>2. \A l \in Token : reader'[l].td.hold = reader[l].td.hold
  OBVIOUS
<1>3. SameHolds
  BY <1>1, <1>2, ClientHolds DEF SameHolds
<1> QED BY <1>1, <1>3 DEF HoldLocal, JoinFrame

\* What a request loop does without touching a lifetime.
LEMMA IdleMoves ==
    ASSUME TypeOK, HoldLocal, NEW c \in Client,
           \/ OpenJoin(c) \/ OpenWait(c) \/ OpenReserve(c) \/ WaiterJoin(c) \/ WaiterRetry(c)
           \/ WaiterFail(c) \/ PhysicalOpenFail(c) \/ OpenRelease(c) \/ OpenFinish(c)
           \/ OpenNotify(c) \/ ClientConnect(c) \/ ClientEof(c) \/ ClientGone(c)
           \/ \E t \in Token : DrainSkip(c, t) \/ \E d \in Device : OpenCall(c, d, t)
    PROVE  Moves
<1>0. client \in [Client -> ClientRec]
  BY DEF TypeOK, ThreadTypeOK
<1>1. UNCHANGED <<life, devices, relay, reader>>
  BY DEF OpenJoin, OpenWait, OpenReserve, WaiterJoin, WaiterRetry, WaiterFail, PhysicalOpenFail,
         OpenRelease, OpenFinish, OpenNotify, ClientConnect, ClientEof, ClientGone, DrainSkip, OpenCall,
         mgrVars, lifeVars
<1> DEFINE Free == /\ client[c].pc \notin {"stopping", "joining"}
                   /\ client'[c].pc \notin {"stopping", "joining"}
                   /\ client'[c].hold \in {client[c].hold, None}
                   /\ \A e \in Client \ {c} : client'[e] = client[e]
<1>2. ASSUME OpenJoin(c) \/ WaiterJoin(c) \/ WaiterFail(c) \/ OpenNotify(c) \/ ClientConnect(c)
      PROVE  Free
  <2>1. client' = [client EXCEPT ![c] = IdleClient] /\ client[c].pc \notin {"stopping", "joining"}
    BY <1>2 DEF OpenJoin, WaiterJoin, WaiterFail, OpenNotify, ClientConnect, GoIdle
  <2>2. Free
    BY <1>0, <2>1 DEF IdleClient
  <2> QED BY <2>2
<1>3. ASSUME \/ OpenReserve(c) \/ PhysicalOpenFail(c) \/ OpenRelease(c) \/ OpenFinish(c) \/ ClientGone(c)
             \/ OpenWait(c) \/ WaiterRetry(c) \/ \E t \in Token : DrainSkip(c, t)
      PROVE  Free
  <2>1. Free
    BY <1>0, <1>3 DEF OpenReserve, PhysicalOpenFail, OpenRelease, OpenFinish, ClientGone, OpenWait,
                      WaiterRetry, DrainSkip, Go, ClientRec
  <2> QED BY <2>1
<1>4. ASSUME ClientEof(c) PROVE Free
  <2> DEFINE r == [IdleClient EXCEPT !.pc = "draining", !.todo = OwnedBy(c)]
  <2>1. /\ client' = [client EXCEPT ![c] = r] /\ client[c].pc = "idle"
        /\ r.hold = None /\ r.pc = "draining"
    BY <1>4, IdleType DEF ClientEof, IdleClient, ClientRec
  <2> HIDE DEF r
  <2>2. Free
    BY <1>0, <2>1
  <2> QED BY <2>2
<1>5. ASSUME NEW t \in Token, NEW d \in Device, OpenCall(c, d, t) PROVE Free
  <2> DEFINE r == [IdleClient EXCEPT !.pc = "attempt", !.dev = d, !.tok = t]
  <2>1. /\ client' = [client EXCEPT ![c] = r] /\ client[c].pc = "idle"
        /\ r.hold = None /\ r.pc = "attempt"
    BY <1>5, IdleType DEF OpenCall, IdleClient, ClientRec
  <2> HIDE DEF r
  <2> QED BY <1>0, <2>1
<1>6. Free
  BY <1>2, <1>3, <1>4, <1>5
<1>7. SameHolds /\ HoldLocal' /\ JoinFrame
  BY <1>1, <1>6, LoopMoves
<1>8. Keeps
  BY <1>1, <1>7 DEF Keeps, SameEntries
<1> QED BY <1>7, <1>8 DEF Moves, LifetimeSection

\* An opener builds its lifetime, or gives its handle up.
LEMMA BuildMoves ==
    ASSUME TypeOK, OpeningPhase, HoldLocal, NEW c \in Client,
           PhysicalOpen(c) \/ OpenBuild(c) \/ OpenAbandon(c)
    PROVE  Moves
<1> DEFINE t == client[c].tok
<1>0. client \in [Client -> ClientRec] /\ life \in [Token -> LifePhases] /\ reader \in [Token -> ReaderRec]
  BY DEF TypeOK, ThreadTypeOK, LifetimeTypeOK
<1>1. t \in Token /\ life[t] \in Young
  BY DEF TypeOK, LocalsOK, OpeningPhase, Young, PhysicalOpen, OpenBuild, OpenAbandon
<1>2. relay' = relay /\ devices' = devices
  BY DEF PhysicalOpen, OpenBuild, OpenAbandon, mgrVars
<1>3. \A l \in Token : life'[l] = life[l] \/ (l = t /\ life'[l] \in Young)
  <2>1. PICK p \in Young : life' = [life EXCEPT ![t] = p]
    BY DEF PhysicalOpen, OpenBuild, OpenAbandon, Young
  <2> HIDE DEF t
  <2> QED BY <1>0, <2>1
<1>4. /\ client[c].pc \notin {"stopping", "joining"} /\ client'[c].pc \notin {"stopping", "joining"}
      /\ client'[c].hold = client[c].hold
      /\ \A e \in Client \ {c} : client'[e] = client[e]
  BY <1>0 DEF PhysicalOpen, OpenBuild, OpenAbandon, Go, ClientRec
<1>5. \A l \in Token : reader'[l] = reader[l] \/
              (reader[l].pc = "none" /\ reader'[l].td = reader[l].td /\ reader'[l].pc = "gate")
  <2>1. CASE PhysicalOpen(c) \/ OpenAbandon(c)
    BY <2>1 DEF PhysicalOpen, OpenAbandon
  <2>2. CASE OpenBuild(c)
    <3>1. reader' = [reader EXCEPT ![t].pc = "gate"] /\ reader[t].pc = "none"
      BY <2>2 DEF OpenBuild, OpeningPhase, Pending
    <3> QED BY <1>0, <1>1, <3>1 DEF ReaderRec
  <2> QED BY <2>1, <2>2
<1>6. SameHolds /\ HoldLocal' /\ JoinFrame
  BY <1>2, <1>4, <1>5, LoopMoves
<1>7. Keeps
  BY <1>1, <1>2, <1>3, <1>6 DEF Keeps, SameEntries
<1> QED BY <1>6, <1>7 DEF Moves, LifetimeSection

\* The device of an opener that is about to publish has no Entry (the branch
\* 1144-1148 of open_physical is dead).
LEMMA NoOtherEntry ==
    ASSUME TypeOK, TokenOnce, ReservationExclusive, NEW c \in Client, client[c].pc = "built", Current(c)
    PROVE  client[c].dev \notin DOMAIN devices
<1> SUFFICES ASSUME client[c].dev \in DOMAIN devices PROVE FALSE
  OBVIOUS
<1>1. PICK o \in Client : client[o].tok = client[c].tok /\ client[o].pc \in {"release", "finish"}
  BY DEF Current, ReservationExclusive
<1>2. client[c].tok # None
  BY NoneAssumption DEF TypeOK, LocalsOK
<1> QED BY <1>1, <1>2 DEF TokenOnce

LEMMA PublishMoves ==
    ASSUME TypeOK, TokenOnce, ReservationExclusive, OpeningPhase, HoldLocal, NEW c \in Client, OpenPublish(c)
    PROVE  Moves
<1> DEFINE t == client[c].tok  d == client[c].dev
<1>0. client \in [Client -> ClientRec]
  BY DEF TypeOK, ThreadTypeOK
<1>1. client[c].pc = "built" /\ t \in Token /\ d \in Device /\ d \notin DOMAIN devices
  BY NoOtherEntry DEF TypeOK, LocalsOK, OpenPublish
<1>2. /\ relay' = relay /\ reader' = reader /\ devices' = Put(devices, d, t)
      /\ life' = [life EXCEPT ![t] = "live"] /\ life[t] = "built"
  BY <1>1 DEF OpenPublish, OpeningPhase
<1>3. /\ client'[c].pc = "release" /\ client'[c].hold = client[c].hold
      /\ \A e \in Client \ {c} : client'[e] = client[e]
  BY <1>0 DEF OpenPublish, Go, ClientRec
<1>4. SameHolds /\ HoldLocal' /\ JoinFrame
  BY <1>1, <1>2, <1>3, LoopMoves
<1>5. Publishes(d, t)
  BY <1>1, <1>2, <1>4 DEF Publishes
<1> QED BY <1>1, <1>4, <1>5 DEF Moves, LifetimeSection

\* A request loop takes a lifetime that is no longer, or not yet, in the map.
LEMMA LoopTakes ==
    ASSUME HoldLocal, NEW c \in Client, NEW l \in Token, NEW p,
           \A e \in Client \ {c} : client'[e] = client[e],
           client[c].pc \notin {"stopping", "joining"}, client'[c].pc = "stopping", client'[c].hold = l,
           relay' = relay, reader' = reader,
           life[l] \in {"built", "live"}, life' = [life EXCEPT ![l] = "detached"],
           DOMAIN devices' = {d \in DOMAIN devices : devices[d] # l},
           \A d \in DOMAIN devices' : devices'[d] = devices[d]
    PROVE  Moves
<1>1. client[c].hold = None
  BY DEF HoldLocal
<1>2. Takes(<<"client", c>>, l) /\ <<"client", c>> \in Thread
  BY <1>1, ClientHolds DEF Takes
<1>3. HoldLocal' /\ JoinFrame
  BY DEF HoldLocal, JoinFrame
<1> QED BY <1>2, <1>3 DEF Moves, LifetimeSection

\* An invalidated opener takes its own Entry.
LEMMA DiscardMoves ==
    ASSUME TypeOK, OpeningPhase, LiveIffPublished, HoldLocal, NEW c \in Client, OpenDiscard(c)
    PROVE  Moves
<1> DEFINE t == client[c].tok
<1>0. client \in [Client -> ClientRec]
  BY DEF TypeOK, ThreadTypeOK
<1>1. t \in Token /\ life[t] = "built" /\ client[c].pc = "built"
  BY DEF TypeOK, LocalsOK, OpenDiscard, OpeningPhase
<1>2. /\ client'[c].pc = "stopping" /\ client'[c].hold = t
      /\ \A e \in Client \ {c} : client'[e] = client[e]
  BY <1>0 DEF OpenDiscard, ClientRec
<1>3. /\ relay' = relay /\ reader' = reader /\ devices' = devices
      /\ life' = [life EXCEPT ![t] = "detached"]
  BY DEF OpenDiscard, mgrVars
<1>4. \A d \in DOMAIN devices : devices[d] # t
  BY <1>1 DEF LiveIffPublished
<1> HIDE DEF t
<1> QED BY <1>1, <1>2, <1>3, <1>4, LoopTakes

\* RemoveEntry leaves its caller an Entry to hold, or changes nothing.
LEMMA RemoveEntryTakes ==
    ASSUME TypeOK, LiveIffPublished, NEW d \in Device, RemoveEntry(d)
    PROVE  \/ /\ EntryOf(d) = None /\ life' = life /\ SameEntries
           \/ /\ EntryOf(d) \in Token /\ life[EntryOf(d)] = "live"
              /\ life' = [life EXCEPT ![EntryOf(d)] = "detached"]
              /\ DOMAIN devices' = {e \in DOMAIN devices : devices[e] # EntryOf(d)}
              /\ \A e \in DOMAIN devices' : devices'[e] = devices[e]
<1>0. life \in [Token -> LifePhases] /\ IsMap(devices, Device, Token)
  BY DEF TypeOK, ManagerTypeOK, LifetimeTypeOK
<1>1. /\ DOMAIN devices' = DOMAIN devices \ {d} /\ \A e \in DOMAIN devices' : devices'[e] = devices[e]
      /\ life' = [l \in Token |-> IF l = EntryOf(d) THEN "detached" ELSE life[l]]
  BY DEF RemoveEntry, Drop, Restrict
<1>2. CASE d \in DOMAIN devices
  <2>1. EntryOf(d) = devices[d] /\ devices[d] \in Token /\ life[devices[d]] = "live"
    BY <1>0, <1>2 DEF EntryOf, IsMap, LiveIffPublished
  <2>2. DOMAIN devices' = {e \in DOMAIN devices : devices[e] # devices[d]}
    BY <1>1, <1>2 DEF LiveIffPublished
  <2>3. life' = [life EXCEPT ![devices[d]] = "detached"]
    BY <1>0, <1>1, <2>1
  <2> QED BY <1>1, <2>1, <2>2, <2>3
<1>3. CASE d \notin DOMAIN devices
  <2>1. EntryOf(d) = None
    BY <1>3 DEF EntryOf
  <2>2. life' = life
    BY <1>0, <1>1, <2>1, NoneAssumption
  <2> QED BY <1>1, <1>3, <2>1, <2>2 DEF SameEntries
<1> QED BY <1>2, <1>3

\* close() and the drain move the request loop to the stop of what they took.
LEMMA CloseLoop ==
    ASSUME TypeOK, NEW c \in Client, NEW t \in Token, DrainClose(c, t) \/ \E d \in Device : Close(c, d, t)
    PROVE  /\ client[c].pc \in {"idle", "draining"}
           /\ client'[c].hold = HoldAfterClose(t)
           /\ client'[c].pc \in {"idle", "draining", "stopping"}
           /\ client'[c].pc = "stopping" <=> HoldAfterClose(t) # None
           /\ \A e \in Client \ {c} : client'[e] = client[e]
<1>1. client \in [Client -> ClientRec]
  BY DEF TypeOK, ThreadTypeOK
<1> QED BY <1>1 DEF DrainClose, Close, ClientRec

\* close() and the drain of a client take the Entry with the last session.
LEMMA CloseMoves ==
    ASSUME TypeOK, LiveIffPublished, HoldLocal, NEW c \in Client, NEW t \in Token,
           DrainClose(c, t) \/ \E d \in Device : Close(c, d, t)
    PROVE  Moves
<1>0. PICK d \in Device : d = sessions[t].dev /\ t \in DOMAIN sessions
  BY DEF TypeOK, ManagerTypeOK, IsMap, SessionRec, DrainClose, Close, MayClose
<1>1. relay' = relay /\ reader' = reader /\ CloseSession(c, t)
  BY DEF DrainClose, Close
<1>2. /\ client[c].pc \in {"idle", "draining"}
      /\ client'[c].hold = HoldAfterClose(t)
      /\ client'[c].pc \in {"idle", "draining", "stopping"}
      /\ client'[c].pc = "stopping" <=> HoldAfterClose(t) # None
      /\ \A e \in Client \ {c} : client'[e] = client[e]
  BY CloseLoop
<1>3. CASE HoldAfterClose(t) = None
  <2>1. life' = life /\ SameEntries
    <3>1. CASE SessionsOn(d) = {t}
      <4>1. RemoveEntry(d) /\ EntryOf(d) = None
        BY <1>0, <1>1, <1>3, <3>1 DEF CloseSession, HoldAfterClose
      <4> QED BY <4>1, RemoveEntryTakes, NoneAssumption
    <3>2. CASE SessionsOn(d) # {t}
      BY <1>0, <1>1, <3>2 DEF CloseSession, SameEntries
    <3> QED BY <3>1, <3>2
  <2>2. SameHolds /\ HoldLocal' /\ JoinFrame
    BY <1>1, <1>2, <1>3, LoopMoves
  <2> QED BY <2>1, <2>2 DEF Moves, LifetimeSection, Keeps
<1>4. CASE HoldAfterClose(t) # None
  <2>1. RemoveEntry(d) /\ HoldAfterClose(t) = EntryOf(d) /\ EntryOf(d) # None
    BY <1>0, <1>1, <1>4 DEF CloseSession, HoldAfterClose
  <2>2. /\ EntryOf(d) \in Token /\ life[EntryOf(d)] = "live"
        /\ life' = [life EXCEPT ![EntryOf(d)] = "detached"]
        /\ DOMAIN devices' = {e \in DOMAIN devices : devices[e] # EntryOf(d)}
        /\ \A e \in DOMAIN devices' : devices'[e] = devices[e]
    BY <2>1, RemoveEntryTakes
  <2> QED BY <1>1, <1>2, <1>4, <2>1, <2>2, LoopTakes
<1> QED BY <1>3, <1>4

\* Signalling the threads of what a thread holds.
LEMMA StopKeeps ==
    ASSUME TypeOK, SameHolds, devices' = devices, NEW l \in Token, StopEntry(l),
           \E h \in Thread : HoldOf(h) = l
    PROVE  Keeps /\ life'[l] = "stopping"
<1>1. life' = [life EXCEPT ![l] = "stopping"] /\ life \in [Token -> LifePhases]
  BY DEF StopEntry, TypeOK, LifetimeTypeOK
<1> QED BY <1>1 DEF Keeps, SameEntries

\* The request loop stops and joins what it holds.
LEMMA StopMoves ==
    ASSUME TypeOK, HoldLocal, JoinsStopped, NEW c \in Client, ClientStop(c) \/ ClientJoin(c)
    PROVE  Moves
<1> DEFINE l == client[c].hold
<1>0. client \in [Client -> ClientRec] /\ client[c].back \in {"idle", "finish", "draining"}
  BY DEF TypeOK, ThreadTypeOK, LocalsOK
<1>1. l \in Token /\ client[c].pc \in {"stopping", "joining"}
  BY DEF TypeOK, LocalsOK, ClientStop, ClientJoin
<1>2. relay' = relay /\ reader' = reader /\ devices' = devices
  BY DEF ClientStop, ClientJoin, mgrVars, lifeVars
<1>3. CASE ClientStop(c)
  <2>1. /\ client'[c].pc = "joining" /\ client'[c].hold = l
        /\ \A e \in Client \ {c} : client'[e] = client[e]
    BY <1>0, <1>3 DEF ClientStop, Go, ClientRec
  <2>2. SameHolds /\ <<"client", c>> \in Thread /\ HoldOf(<<"client", c>>) = l
    BY <1>2, <2>1, ClientHolds DEF SameHolds
  <2>3. Keeps /\ life'[l] = "stopping"
    BY <1>1, <1>2, <1>3, <2>2, StopKeeps DEF ClientStop
  <2>4. HoldLocal' /\ JoinFrame
    BY <1>2, <2>1, <2>3 DEF HoldLocal, JoinFrame
  <2> QED BY <2>3, <2>4 DEF Moves, LifetimeSection
<1>4. CASE ClientJoin(c)
  <2>1. /\ client'[c].pc \notin {"stopping", "joining"} /\ client'[c].hold = None
        /\ \A e \in Client \ {c} : client'[e] = client[e]
    BY <1>0, <1>4 DEF ClientJoin, ClientRec
  <2>2. life' = life /\ life[l] = "stopping"
    BY <1>4 DEF ClientJoin, lifeVars, JoinsStopped
  <2>3. Drops(<<"client", c>>) /\ <<"client", c>> \in Thread
    BY <1>1, <1>2, <2>1, <2>2, ClientHolds, NoneAssumption DEF Drops, SameEntries
  <2>4. HoldLocal' /\ JoinFrame
    BY <1>2, <2>1 DEF HoldLocal, JoinFrame
  <2> QED BY <2>3, <2>4 DEF Moves, LifetimeSection
<1> QED BY <1>3, <1>4

\* force_close takes the Entry, signals its threads, and joins them.
LEMMA RelayMoves ==
    ASSUME TypeOK, LiveIffPublished, HoldLocal, JoinsStopped, NEW c \in Client, RelayStep(c)
    PROVE  Moves
<1> DEFINE l == relay[c].td.hold
<1>0. relay \in [Client -> RelayRec] /\ l \in Token \cup {None} /\ NoTeardown.hold = None
  BY DEF TypeOK, ThreadTypeOK, RelayRec, Teardown, NoTeardown
<1>1. client' = client /\ reader' = reader
  BY DEF RelayStep, RelayDisconnect, RelayPost, RelayStop, RelayJoin, lifeVars
<1>2. CASE RelayDisconnect(c)
  <2> DEFINE d == Head(events[c])  td == Taken(d)
             r == [pc |-> IF td = NoTeardown THEN "idle" ELSE "post", td |-> td]
  <2>1. d \in Device
    BY <1>2 DEF TypeOK, ThreadTypeOK, IsMap, RelayDisconnect
  <2>2. RemoveEntry(d) /\ relay' = [relay EXCEPT ![c] = r] /\ relay[c].pc = "idle"
    BY <1>2 DEF RelayDisconnect, DetachLifetime
  <2>3. /\ r.td.hold = EntryOf(d) /\ r.pc \in {"idle", "post"}
        /\ r.pc = "idle" => r.td.hold = None
    BY <1>0 DEF Taken
  <2> HIDE DEF d, td, r
  <2>4. /\ relay'[c] = r /\ l = None
        /\ \A e \in Client \ {c} : relay'[e] = relay[e]
    BY <1>0, <2>2 DEF HoldLocal
  <2>5. HoldLocal' /\ JoinFrame
    BY <1>1, <2>3, <2>4 DEF HoldLocal, JoinFrame
  <2>6. /\ <<"relay", c>> \in Thread
        /\ HoldOf(<<"relay", c>>) = None /\ HoldOf(<<"relay", c>>)' = EntryOf(d)
        /\ \A h \in Thread \ {<<"relay", c>>} : HoldOf(h)' = HoldOf(h)
    BY <1>1, <2>3, <2>4, RelayHolds
  <2>7. CASE EntryOf(d) = None
    BY <2>1, <2>2, <2>5, <2>6, <2>7, RemoveEntryTakes, NoneAssumption
       DEF Moves, LifetimeSection, Keeps, SameHolds
  <2>8. CASE EntryOf(d) # None
    <3>1. Takes(<<"relay", c>>, EntryOf(d)) /\ EntryOf(d) \in Token
      BY <2>1, <2>2, <2>6, <2>8, RemoveEntryTakes DEF Takes
    <3> QED BY <2>5, <2>6, <3>1 DEF Moves, LifetimeSection
  <2> QED BY <2>7, <2>8
<1>3. CASE RelayPost(c)
  <2> DEFINE r == IF l = None THEN [pc |-> "idle", td |-> NoTeardown]
                  ELSE [pc |-> "stopping", td |-> [NoTeardown EXCEPT !.hold = l]]
  <2>1. /\ relay' = [relay EXCEPT ![c] = r] /\ life' = life /\ devices' = devices
    BY <1>3 DEF RelayPost, lifeVars
  <2>2. r.td.hold = l /\ r.pc \in {"idle", "stopping"} /\ (r.pc = "idle" => l = None)
    BY <1>0 DEF NoTeardown
  <2> HIDE DEF r
  <2>3. relay'[c] = r /\ \A e \in Client \ {c} : relay'[e] = relay[e]
    BY <1>0, <2>1
  <2>4. SameHolds
    BY <1>1, <2>2, <2>3, RelayHolds DEF SameHolds
  <2>5. HoldLocal' /\ JoinFrame
    BY <1>1, <2>2, <2>3 DEF HoldLocal, JoinFrame
  <2> QED BY <2>1, <2>4, <2>5 DEF Moves, LifetimeSection, Keeps, SameEntries
<1>4. CASE RelayStop(c)
  <2>1. /\ relay[c].pc = "stopping" /\ relay'[c].pc = "joining" /\ relay'[c].td.hold = l
        /\ \A e \in Client \ {c} : relay'[e] = relay[e]
    BY <1>0, <1>4 DEF RelayStop, RelayRec
  <2>2. l \in Token /\ devices' = devices
    BY <1>4 DEF TypeOK, LocalsOK, RelayStop, mgrVars
  <2>3. SameHolds /\ <<"relay", c>> \in Thread /\ HoldOf(<<"relay", c>>) = l
    BY <1>1, <2>1, RelayHolds DEF SameHolds
  <2>4. Keeps /\ life'[l] = "stopping"
    BY <1>4, <2>2, <2>3, StopKeeps DEF RelayStop
  <2>5. HoldLocal' /\ JoinFrame
    BY <1>1, <2>1, <2>4 DEF HoldLocal, JoinFrame
  <2> QED BY <2>4, <2>5 DEF Moves, LifetimeSection
<1>5. CASE RelayJoin(c)
  <2>1. /\ relay[c].pc = "joining" /\ relay'[c].pc = "idle" /\ relay'[c].td.hold = None
        /\ \A e \in Client \ {c} : relay'[e] = relay[e]
    BY <1>0, <1>5 DEF RelayJoin
  <2>2. life' = life /\ devices' = devices /\ life[l] = "stopping" /\ l \in Token
    BY <1>5, <2>1 DEF RelayJoin, lifeVars, mgrVars, JoinsStopped, TypeOK, LocalsOK
  <2>3. Drops(<<"relay", c>>) /\ <<"relay", c>> \in Thread
    BY <1>1, <2>1, <2>2, RelayHolds, NoneAssumption DEF Drops, SameEntries
  <2>4. HoldLocal' /\ JoinFrame
    BY <1>1, <2>1 DEF HoldLocal, JoinFrame
  <2> QED BY <2>3, <2>4 DEF Moves, LifetimeSection
<1> QED BY <1>2, <1>3, <1>4, <1>5 DEF RelayStep

\* A reader that fails takes the Entry, signals and joins the worker.
LEMMA ReaderMoves ==
    ASSUME TypeOK, LiveIffPublished, HoldLocal, JoinsStopped, NEW l \in Token, ReaderStep(l) \/ ReaderFail(l)
    PROVE  Moves
<1> DEFINE x == reader[l].td.hold
<1>0. reader \in [Token -> ReaderRec] /\ NoTeardown.hold = None
  BY DEF TypeOK, LifetimeTypeOK, NoTeardown
<1>1. client' = client /\ relay' = relay
  BY DEF ReaderStep, ReaderStart, ReaderStop, ReaderDetach, ReaderOrphan, ReaderCleanup, ReaderFinish,
         ReaderFail, thrVars
<1>2. CASE ReaderStart(l) \/ ReaderStop(l) \/ ReaderOrphan(l) \/ ReaderFail(l)
  <2>1. life' = life /\ devices' = devices
    BY <1>2 DEF ReaderStart, ReaderStop, ReaderOrphan, ReaderFail, mgrVars
  <2>2. /\ reader[l].pc \in {"gate", "reading", "failed"} /\ reader'[l].td = reader[l].td
        /\ reader'[l].pc \in {"reading", "failed", "exited"}
        /\ \A k \in Token \ {l} : reader'[k] = reader[k]
    BY <1>0, <1>2 DEF ReaderStart, ReaderStop, ReaderOrphan, ReaderFail, SetReader, ReaderRec
  <2>3. SameHolds
    BY <1>1, <2>2, ReaderHolds DEF SameHolds
  <2>4. HoldLocal' /\ JoinFrame
    BY <1>1, <2>2 DEF HoldLocal, JoinFrame
  <2> QED BY <2>1, <2>3, <2>4 DEF Moves, LifetimeSection, Keeps, SameEntries
<1>3. CASE ReaderDetach(l)
  <2> DEFINE d == lifeDev[l]
  <2>1. d \in DOMAIN devices /\ d \in Device /\ RemoveEntry(d) /\ reader[l].pc = "failed"
    BY <1>3 DEF ReaderDetach, DetachLifetime, TypeOK, ManagerTypeOK, IsMap
  <2>2. /\ reader'[l].pc = "cleanup" /\ reader'[l].td.hold = EntryOf(d) /\ x = None
        /\ \A k \in Token \ {l} : reader'[k] = reader[k]
    BY <1>0, <1>3, <2>1 DEF ReaderDetach, Taken, HoldLocal
  <2>3. EntryOf(d) \in Token
    BY <2>1 DEF EntryOf, TypeOK, ManagerTypeOK, IsMap
  <2> HIDE DEF d
  <2>4. Takes(<<"reader", l>>, EntryOf(d)) /\ <<"reader", l>> \in Thread
    BY <1>1, <2>1, <2>2, <2>3, RemoveEntryTakes, ReaderHolds, NoneAssumption DEF Takes
  <2>5. HoldLocal' /\ JoinFrame
    BY <1>1, <2>2 DEF HoldLocal, JoinFrame
  <2> QED BY <2>3, <2>4, <2>5 DEF Moves, LifetimeSection
<1>4. CASE ReaderCleanup(l)
  <2>1. /\ reader[l].pc = "cleanup" /\ reader'[l].pc = "joining" /\ reader'[l].td = reader[l].td
        /\ \A k \in Token \ {l} : reader'[k] = reader[k]
    BY <1>0, <1>4 DEF ReaderCleanup, SetReader, ReaderRec
  <2>2. x \in Token /\ devices' = devices
    BY <1>4, <2>1 DEF TypeOK, LocalsOK, ReaderCleanup, mgrVars
  <2>3. SameHolds /\ <<"reader", l>> \in Thread /\ HoldOf(<<"reader", l>>) = x
    BY <1>1, <2>1, ReaderHolds DEF SameHolds
  <2>4. Keeps /\ life'[x] = "stopping"
    BY <1>4, <2>2, <2>3, StopKeeps DEF ReaderCleanup
  <2>5. HoldLocal' /\ JoinFrame
    BY <1>1, <2>1, <2>4 DEF HoldLocal, JoinFrame
  <2> QED BY <2>4, <2>5 DEF Moves, LifetimeSection
<1>5. CASE ReaderFinish(l)
  <2>1. /\ reader[l].pc = "joining" /\ reader'[l].pc = "exited" /\ reader'[l].td.hold = None
        /\ \A k \in Token \ {l} : reader'[k] = reader[k]
    BY <1>0, <1>5 DEF ReaderFinish
  <2>2. life' = life /\ devices' = devices /\ life[x] = "stopping" /\ x \in Token
    BY <1>5, <2>1 DEF ReaderFinish, JoinsStopped, TypeOK, LocalsOK
  <2>3. Drops(<<"reader", l>>) /\ <<"reader", l>> \in Thread
    BY <1>1, <2>1, <2>2, ReaderHolds, NoneAssumption DEF Drops, SameEntries
  <2>4. HoldLocal' /\ JoinFrame
    BY <1>1, <2>1 DEF HoldLocal, JoinFrame
  <2> QED BY <2>3, <2>4 DEF Moves, LifetimeSection
<1> QED BY <1>2, <1>3, <1>4, <1>5 DEF ReaderStep

\* Steps of everyone else.
LEMMA OtherMoves ==
    ASSUME HoldLocal, UNCHANGED <<client, relay, reader, life, devices>>
    PROVE  Moves
<1>1. SameHolds /\ Keeps
  BY DEF SameHolds, Keeps, SameEntries, HoldOf
<1>2. HoldLocal' /\ JoinFrame
  BY DEF HoldLocal, JoinFrame
<1> QED BY <1>1, <1>2 DEF Moves, LifetimeSection

\* Every step of the daemon keeps, publishes, takes or drops.
LEMMA MovesStep ==
    ASSUME TypeOK, TokenOnce, ReservationExclusive, OpeningPhase, LiveIffPublished, HoldLocal,
           JoinsStopped, [Next]_vars
    PROVE  Moves
<1>1. ASSUME NEW c \in Client, LoopStep(c) PROVE Moves
  BY <1>1, IdleMoves, BuildMoves, PublishMoves, DiscardMoves, CloseMoves, StopMoves
     DEF LoopStep, OpenStep, DrainStep
<1>2. ASSUME NEW c \in Client, ClientInput(c) PROVE Moves
  <2>1. ASSUME NEW d \in Device, NEW t \in Token, NEW m \in AskModes, SetDataplaneMode(c, d, t, m)
        PROVE  Moves
    BY <2>1, OtherMoves DEF SetDataplaneMode, thrVars, lifeVars
  <2> QED BY <1>2, <2>1, IdleMoves, CloseMoves DEF ClientInput
<1>3. ASSUME NEW c \in Client, EventLagged(c) PROVE Moves
  BY <1>3, OtherMoves DEF EventLagged, mgrVars, lifeVars
<1>4. ASSUME NEW l \in Token, WorkerExit(l) PROVE Moves
  BY <1>4, OtherMoves DEF WorkerExit, mgrVars, thrVars
<1>5. ASSUME NEW k \in Conn,
             \/ \E t \in Token, kind \in Kinds : ConnAuth(k, t, kind)
             \/ ConnConnect(k) \/ ConnRefused(k) \/ ConnTask(k) \/ ConnEnd(k)
      PROVE  Moves
  <2>1. UNCHANGED <<client, relay, reader, life, devices>>
    BY <1>5 DEF ConnAuth, ConnConnect, ConnRefused, ConnTask, ConnServe,
                ConnStop, ConnEnd, ConnDisconnect, ConnDisconnectStale,
                mgrVars, thrVars, lifeVars
  <2> QED BY <2>1, OtherMoves
<1>6. ASSUME NEW d \in Device, Unplug(d) \/ Replug(d) \/ HotplugRemove(d) PROVE Moves
  <2>1. UNCHANGED <<client, relay, reader, life, devices>>
    BY <1>6 DEF Unplug, Replug, HotplugRemove, mgrVars, thrVars, lifeVars
  <2> QED BY <2>1, OtherMoves
<1>7. CASE UNCHANGED vars
  BY <1>7, OtherMoves DEF vars, mgrVars, thrVars, lifeVars
<1> QED BY <1>1, <1>2, <1>3, <1>4, <1>5, <1>6, <1>7, RelayMoves, ReaderMoves DEF Next

-----------------------------------------------------------------------------
(* The phase of the pending opens *)

Early == {"attempt", "waiting", "opening"}

\* A lifetime under construction, and a reader that is yet to be spawned, are
\* left alone unless they are of a token in S.
YoungFrame(S) ==
    \A l \in Token \ S : /\ life[l] \in Young => life'[l] = life[l]
                         /\ reader[l].pc = "none" => reader'[l].pc = "none"

\* An open is pending because it was, because its token has just been minted,
\* or because it is the one that has just advanced.
PendingFrame(S) ==
    \A c \in Client : client'[c].pc \in Pending =>
        \/ /\ client[c].pc \in Pending /\ client'[c].tok = client[c].tok /\ client[c].tok \notin S
           /\ client'[c].pc = client[c].pc \/ {client[c].pc, client'[c].pc} \subseteq Early
        \/ client'[c].pc = "attempt" /\ client'[c].tok \in Token \ (minted \cup S)
        \/ /\ client'[c].pc = "opened" /\ life'[client'[c].tok] = "handle"
           /\ reader'[client'[c].tok].pc = "none"
        \/ client'[c].pc = "built" /\ life'[client'[c].tok] = "built"

PhaseFrame == \E S \in SUBSET minted : YoungFrame(S) /\ PendingFrame(S) /\ minted \subseteq minted'

LEMMA PhaseKeeps ==
    ASSUME TypeOK, OpeningPhase, PhaseFrame
    PROVE  OpeningPhase'
<1> PICK S \in SUBSET minted : YoungFrame(S) /\ PendingFrame(S) /\ minted \subseteq minted'
  BY DEF PhaseFrame
<1>1. \A t \in Token \ minted' : life'[t] = "none" /\ reader'[t].pc = "none"
  BY DEF OpeningPhase, YoungFrame, Young
<1>2. ASSUME NEW c \in Client, client'[c].pc \in Pending
      PROVE  /\ client'[c].pc \in Early => life'[client'[c].tok] = "none"
             /\ client'[c].pc = "opened" => life'[client'[c].tok] = "handle"
             /\ client'[c].pc = "built" => life'[client'[c].tok] = "built"
             /\ client'[c].pc # "built" => reader'[client'[c].tok].pc = "none"
  <2> DEFINE t == client[c].tok
  <2>1. CASE /\ client[c].pc \in Pending /\ client'[c].tok = t /\ t \notin S
             /\ client'[c].pc = client[c].pc \/ {client[c].pc, client'[c].pc} \subseteq Early
    <3>1. /\ client[c].pc \in Early => life[t] = "none"
          /\ client[c].pc = "opened" => life[t] = "handle"
          /\ client[c].pc = "built" => life[t] = "built"
          /\ client[c].pc # "built" => reader[t].pc = "none"
      BY <2>1 DEF OpeningPhase, Pending, Early
    <3>2. t \in Token \ S
      BY <2>1 DEF TypeOK, LocalsOK, Pending
    <3>3. life'[t] = life[t] /\ (reader[t].pc = "none" => reader'[t].pc = "none")
      BY <2>1, <3>1, <3>2 DEF YoungFrame, Young, Pending, Early
    <3> QED BY <2>1, <3>1, <3>3 DEF Pending, Early
  <2>2. CASE client'[c].pc = "attempt" /\ client'[c].tok \in Token \ (minted \cup S)
    BY <2>2 DEF OpeningPhase, YoungFrame, Young
  <2>3. CASE \/ /\ client'[c].pc = "opened" /\ life'[client'[c].tok] = "handle"
                /\ reader'[client'[c].tok].pc = "none"
             \/ client'[c].pc = "built" /\ life'[client'[c].tok] = "built"
    BY <2>3 DEF Early
  <2> QED BY <1>2, <2>1, <2>2, <2>3 DEF PendingFrame
<1> QED BY <1>1, <1>2 DEF OpeningPhase, Pending, Early

\* No lifetime is touched, and no open advances beyond its reservation.
LEMMA QuietPhase ==
    ASSUME UNCHANGED <<life, reader>>, minted \subseteq minted',
           \A c \in Client : \/ client'[c] = client[c]
                             \/ client'[c].pc \notin Pending
                             \/ client'[c].pc = "attempt" /\ client'[c].tok \in Token \ minted
                             \/ /\ client'[c].tok = client[c].tok
                                /\ {client[c].pc, client'[c].pc} \subseteq Early
    PROVE  PhaseFrame
<1>1. YoungFrame({})
  BY DEF YoungFrame
<1>2. PendingFrame({})
  BY DEF PendingFrame, Pending, Early
<1> QED BY <1>1, <1>2 DEF PhaseFrame

\* The steps of the open protocol that touch no lifetime.
LEMMA LoopPhase ==
    ASSUME TypeOK, NEW c \in Client,
           \/ OpenJoin(c) \/ OpenWait(c) \/ OpenReserve(c) \/ WaiterJoin(c) \/ WaiterRetry(c)
           \/ WaiterFail(c) \/ PhysicalOpenFail(c) \/ OpenRelease(c) \/ OpenFinish(c)
           \/ OpenNotify(c) \/ ClientConnect(c) \/ ClientEof(c) \/ ClientGone(c)
           \/ \E t \in Token : DrainSkip(c, t) \/ \E d \in Device : OpenCall(c, d, t)
    PROVE  PhaseFrame
<1> DEFINE Calm == /\ \A e \in Client \ {c} : client'[e] = client[e]
                   /\ \/ client'[c].pc \notin Pending
                      \/ client'[c].pc = "attempt" /\ client'[c].tok \in Token \ minted
                      \/ client'[c].tok = client[c].tok /\ {client[c].pc, client'[c].pc} \subseteq Early
<1>0. client \in [Client -> ClientRec]
  BY DEF TypeOK, ThreadTypeOK
<1>1. UNCHANGED <<life, reader>> /\ minted \subseteq minted'
  BY DEF OpenJoin, OpenWait, OpenReserve, WaiterJoin, WaiterRetry, WaiterFail, PhysicalOpenFail,
         OpenRelease, OpenFinish, OpenNotify, ClientConnect, ClientEof, ClientGone, DrainSkip, OpenCall,
         lifeVars
<1>2. ASSUME OpenJoin(c) \/ WaiterJoin(c) \/ WaiterFail(c) \/ OpenNotify(c) \/ ClientConnect(c)
      PROVE  Calm
  <2>1. client' = [client EXCEPT ![c] = IdleClient]
    BY <1>2 DEF OpenJoin, WaiterJoin, WaiterFail, OpenNotify, ClientConnect, GoIdle
  <2> QED BY <1>0, <2>1 DEF IdleClient, Pending
<1>3. ASSUME \/ PhysicalOpenFail(c) \/ OpenRelease(c) \/ OpenFinish(c) \/ ClientGone(c)
             \/ \E t \in Token : DrainSkip(c, t)
      PROVE  Calm
  BY <1>0, <1>3 DEF PhysicalOpenFail, OpenRelease, OpenFinish, ClientGone, DrainSkip, Go, ClientRec,
                    Pending
<1>4. ASSUME OpenReserve(c) \/ OpenWait(c) \/ WaiterRetry(c) PROVE Calm
  BY <1>0, <1>4 DEF OpenReserve, OpenWait, WaiterRetry, Go, ClientRec, Early
<1>5. ASSUME ClientEof(c) PROVE Calm
  <2> DEFINE r == [IdleClient EXCEPT !.pc = "draining", !.todo = OwnedBy(c)]
  <2>1. client' = [client EXCEPT ![c] = r] /\ r.pc = "draining"
    BY <1>5, IdleType DEF ClientEof, IdleClient, ClientRec
  <2> HIDE DEF r
  <2> QED BY <1>0, <2>1 DEF Pending
<1>6. ASSUME NEW t \in Token, NEW d \in Device, OpenCall(c, d, t) PROVE Calm
  <2> DEFINE r == [IdleClient EXCEPT !.pc = "attempt", !.dev = d, !.tok = t]
  <2>1. client' = [client EXCEPT ![c] = r] /\ r.pc = "attempt" /\ r.tok = t /\ t \notin minted
    BY <1>6, IdleType DEF OpenCall, IdleClient, ClientRec
  <2> HIDE DEF r
  <2> QED BY <1>0, <2>1
<1>7. Calm
  BY <1>2, <1>3, <1>4, <1>5, <1>6
<1> QED BY <1>1, <1>7, QuietPhase

\* The steps that build a lifetime, publish it or give it up.
LEMMA BuildPhase ==
    ASSUME TypeOK, TokenOnce, OpeningPhase, NEW c \in Client,
           \/ PhysicalOpen(c) \/ OpenBuild(c) \/ OpenAbandon(c) \/ OpenPublish(c) \/ OpenDiscard(c)
    PROVE  PhaseFrame
<1> DEFINE t == client[c].tok
<1>0. client \in [Client -> ClientRec] /\ life \in [Token -> LifePhases] /\ reader \in [Token -> ReaderRec]
  BY DEF TypeOK, ThreadTypeOK, LifetimeTypeOK
<1>1. /\ t \in Token /\ t \in minted /\ client[c].pc \in {"opening", "opened", "built"} /\ minted' = minted
      /\ client[c].pc # "built" => reader[t].pc = "none"
  BY NoneAssumption
     DEF TypeOK, LocalsOK, TokenOnce, PhysicalOpen, OpenBuild, OpenAbandon, OpenPublish, OpenDiscard,
         OpeningPhase, Pending
<1>2. YoungFrame({t})
  <2>1. \A l \in Token \ {t} : life'[l] = life[l]
    BY <1>0 DEF PhysicalOpen, OpenBuild, OpenAbandon, OpenPublish, OpenDiscard
  <2>2. \A l \in Token \ {t} : reader'[l] = reader[l]
    BY <1>0 DEF PhysicalOpen, OpenBuild, OpenAbandon, OpenPublish, OpenDiscard
  <2> QED BY <2>1, <2>2 DEF YoungFrame
<1>3. PendingFrame({t})
  <2>1. /\ \A e \in Client \ {c} : client'[e] = client[e]
        /\ client'[c].tok = t
        /\ client'[c].pc \in Pending => \/ client'[c].pc = "opened" /\ PhysicalOpen(c)
                                        \/ client'[c].pc = "built" /\ OpenBuild(c)
    BY <1>0 DEF PhysicalOpen, OpenBuild, OpenAbandon, OpenPublish, OpenDiscard, Go, ClientRec, Pending
  <2>2. \A e \in Client \ {c} : client[e].pc \in Pending => client[e].tok # t
    BY <1>1, NoneAssumption DEF TokenOnce
  <2>3. PhysicalOpen(c) => life'[t] = "handle" /\ reader'[t].pc = "none"
    BY <1>0, <1>1 DEF PhysicalOpen
  <2>4. OpenBuild(c) => life'[t] = "built"
    BY <1>0, <1>1 DEF OpenBuild
  <2> HIDE DEF t
  <2> QED BY <2>1, <2>2, <2>3, <2>4 DEF PendingFrame
<1> QED BY <1>1, <1>2, <1>3 DEF PhaseFrame

\* No client moves to a pending open, none is left, and what is young stays.
LEMMA AsidePhase ==
    ASSUME YoungFrame({}), minted' = minted,
           \A c \in Client : client'[c] = client[c] \/ client'[c].pc \notin Pending
    PROVE  PhaseFrame
<1>1. PendingFrame({})
  BY DEF PendingFrame
<1> QED BY <1>1 DEF PhaseFrame

\* A teardown, a stop and a join are about lifetimes that were built.
LEMMA TeardownPhase ==
    ASSUME TypeOK, LiveIffPublished, HoldsExact,
           \/ \E c \in Client : \/ ClientStop(c) \/ ClientJoin(c) \/ RelayStep(c)
                                \/ \E t \in Token : DrainClose(c, t) \/ \E d \in Device : Close(c, d, t)
           \/ \E l \in Token : ReaderStep(l) \/ ReaderFail(l)
    PROVE  PhaseFrame
<1>0. client \in [Client -> ClientRec] /\ life \in [Token -> LifePhases] /\ reader \in [Token -> ReaderRec]
  BY DEF TypeOK, ThreadTypeOK, LifetimeTypeOK
<1> DEFINE Old == \A l \in Token : life[l] \in Young => life'[l] = life[l]
           Later == \A l \in Token : reader[l].pc = "none" => reader'[l].pc = "none"
           Aside == \A c \in Client : client'[c] = client[c] \/ client'[c].pc \notin Pending
<1>1. ASSUME NEW h \in Thread, HoldOf(h) \in Token, StopEntry(HoldOf(h)) PROVE Old
  <2>1. life' = [life EXCEPT ![HoldOf(h)] = "stopping"] /\ life[HoldOf(h)] \notin Young
    BY <1>1, NoneAssumption DEF StopEntry, HoldsExact, Young
  <2> QED BY <1>0, <2>1
<1>2. ASSUME NEW d \in Device, RemoveEntry(d) PROVE Old
  <2>1. life' = life \/ (EntryOf(d) \in Token /\ life[EntryOf(d)] = "live"
                           /\ life' = [life EXCEPT ![EntryOf(d)] = "detached"])
    BY <1>2, RemoveEntryTakes
  <2> QED BY <1>0, <2>1 DEF Young
<1>3. ASSUME NEW c \in Client, NEW t \in Token, DrainClose(c, t) \/ \E d \in Device : Close(c, d, t)
      PROVE  Old /\ Later /\ Aside /\ minted' = minted
  <2>1. PICK d \in Device : d = sessions[t].dev /\ t \in DOMAIN sessions
    BY <1>3 DEF TypeOK, ManagerTypeOK, IsMap, SessionRec, DrainClose, Close, MayClose
  <2>2. Old
    BY <1>2, <1>3, <2>1 DEF DrainClose, Close, CloseSession
  <2>3. Aside
    <3>1. /\ client'[c].pc \in {"idle", "draining", "stopping"}
          /\ \A e \in Client \ {c} : client'[e] = client[e]
      BY <1>3, CloseLoop
    <3> QED BY <3>1 DEF Pending
  <2> QED BY <1>3, <2>2, <2>3 DEF DrainClose, Close
<1>4. ASSUME NEW c \in Client, ClientStop(c) PROVE Old /\ Later /\ Aside /\ minted' = minted
  <2>1. <<"client", c>> \in Thread /\ HoldOf(<<"client", c>>) = client[c].hold /\ client[c].hold \in Token
    BY <1>4 DEF Thread, HoldOf, TypeOK, LocalsOK, ClientStop
  <2>2. Old
    BY <1>1, <1>4, <2>1 DEF ClientStop
  <2>3. Aside
    BY <1>0, <1>4 DEF ClientStop, Go, Pending
  <2> QED BY <1>4, <2>2, <2>3 DEF ClientStop
<1>5. ASSUME NEW c \in Client, ClientJoin(c) PROVE Old /\ Later /\ Aside /\ minted' = minted
  <2>1. client[c].back \notin Pending
    BY DEF TypeOK, LocalsOK, Pending
  <2>2. Aside
    <3>1. client'[c].pc = client[c].back /\ \A e \in Client \ {c} : client'[e] = client[e]
      BY <1>0, <1>5 DEF ClientJoin, ClientRec
    <3> QED BY <2>1, <3>1
  <2> QED BY <1>5, <2>2 DEF ClientJoin, lifeVars
<1>6. ASSUME NEW c \in Client, RelayStep(c) PROVE Old /\ Later /\ Aside /\ minted' = minted
  <2>1. reader' = reader /\ client' = client /\ minted' = minted
    BY <1>6 DEF RelayStep, RelayDisconnect, RelayPost, RelayStop, RelayJoin, lifeVars
  <2>2. CASE RelayDisconnect(c)
    <3>1. Head(events[c]) \in Device /\ RemoveEntry(Head(events[c]))
      BY <2>2 DEF TypeOK, ThreadTypeOK, IsMap, RelayDisconnect, DetachLifetime
    <3> QED BY <1>2, <2>1, <3>1
  <2>3. CASE RelayPost(c) \/ RelayJoin(c)
    BY <2>1, <2>3 DEF RelayPost, RelayJoin, lifeVars
  <2>4. CASE RelayStop(c)
    <3>1. <<"relay", c>> \in Thread /\ HoldOf(<<"relay", c>>) = relay[c].td.hold /\ relay[c].td.hold \in Token
      BY <2>4 DEF Thread, HoldOf, TypeOK, LocalsOK, RelayStop
    <3>2. Old
      BY <1>1, <2>4, <3>1 DEF RelayStop
    <3> QED BY <2>1, <3>2
  <2> QED BY <1>6, <2>2, <2>3, <2>4 DEF RelayStep
<1>7. ASSUME NEW l \in Token, ReaderStep(l) \/ ReaderFail(l)
      PROVE  Old /\ Later /\ Aside /\ minted' = minted
  <2>1. client' = client /\ minted' = minted
    BY <1>7 DEF ReaderStep, ReaderStart, ReaderStop, ReaderDetach, ReaderOrphan, ReaderCleanup,
                ReaderFinish, ReaderFail, thrVars
  <2>2. Later
    <3>1. reader[l].pc # "none" /\ \A k \in Token \ {l} : reader'[k] = reader[k]
      BY <1>0, <1>7 DEF ReaderStep, ReaderStart, ReaderStop, ReaderDetach, ReaderOrphan, ReaderCleanup,
                        ReaderFinish, ReaderFail, SetReader
    <3> QED BY <3>1
  <2>3. Old
    <3>1. CASE ReaderDetach(l)
      <4>1. lifeDev[l] \in Device /\ RemoveEntry(lifeDev[l])
        BY <3>1 DEF TypeOK, ManagerTypeOK, IsMap, ReaderDetach, DetachLifetime
      <4> QED BY <1>2, <4>1
    <3>2. CASE ReaderCleanup(l)
      <4>1. <<"reader", l>> \in Thread /\ HoldOf(<<"reader", l>>) = reader[l].td.hold
            /\ reader[l].td.hold \in Token
        BY <3>2 DEF Thread, HoldOf, TypeOK, LocalsOK, ReaderCleanup
      <4> QED BY <1>1, <3>2, <4>1 DEF ReaderCleanup
    <3>3. CASE ReaderStart(l) \/ ReaderStop(l) \/ ReaderOrphan(l) \/ ReaderFinish(l) \/ ReaderFail(l)
      BY <3>3 DEF ReaderStart, ReaderStop, ReaderOrphan, ReaderFinish, ReaderFail
    <3> QED BY <1>7, <3>1, <3>2, <3>3 DEF ReaderStep
  <2> QED BY <2>1, <2>2, <2>3
<1>8. Old /\ Later /\ Aside /\ minted' = minted
  BY <1>3, <1>4, <1>5, <1>6, <1>7
<1>9. YoungFrame({})
  BY <1>8 DEF YoungFrame
<1> QED BY <1>8, <1>9, AsidePhase

LEMMA PhaseStep ==
    ASSUME TypeOK, TokenOnce, OpeningPhase, LiveIffPublished, HoldsExact, [Next]_vars
    PROVE  OpeningPhase'
<1>1. ASSUME NEW c \in Client, LoopStep(c) PROVE PhaseFrame
  BY <1>1, LoopPhase, BuildPhase, TeardownPhase DEF LoopStep, OpenStep, DrainStep
<1>2. ASSUME NEW c \in Client, ClientInput(c) PROVE PhaseFrame
  <2>1. ASSUME NEW d \in Device, NEW t \in Token, NEW m \in AskModes, SetDataplaneMode(c, d, t, m)
        PROVE  PhaseFrame
    BY <2>1, QuietPhase DEF SetDataplaneMode, thrVars, lifeVars
  <2> QED BY <1>2, <2>1, LoopPhase, TeardownPhase DEF ClientInput
<1>3. ASSUME UNCHANGED <<client, minted, life, reader>> PROVE PhaseFrame
  BY <1>3, QuietPhase
<1>4. ASSUME NEW c \in Client, EventLagged(c) PROVE PhaseFrame
  BY <1>3, <1>4 DEF EventLagged, lifeVars
<1>5. ASSUME NEW l \in Token, WorkerExit(l) PROVE PhaseFrame
  BY <1>3, <1>5 DEF WorkerExit, thrVars
<1>6. ASSUME NEW k \in Conn,
             \/ \E t \in Token, kind \in Kinds : ConnAuth(k, t, kind)
             \/ ConnConnect(k) \/ ConnRefused(k) \/ ConnTask(k) \/ ConnEnd(k)
      PROVE  PhaseFrame
  BY <1>3, <1>6 DEF ConnAuth, ConnConnect, ConnRefused, ConnTask, ConnServe,
                    ConnStop, ConnEnd, ConnDisconnect, ConnDisconnectStale,
                    thrVars, lifeVars
<1>7. ASSUME NEW d \in Device, Unplug(d) \/ Replug(d) \/ HotplugRemove(d) PROVE PhaseFrame
  BY <1>3, <1>7 DEF Unplug, Replug, HotplugRemove, thrVars, lifeVars
<1>8. CASE UNCHANGED vars
  BY <1>3, <1>8, PhaseKeeps DEF vars, thrVars, lifeVars
<1>9. ASSUME Next PROVE PhaseFrame
  BY <1>1, <1>2, <1>4, <1>5, <1>6, <1>7, <1>9, TeardownPhase DEF Next
<1> QED BY <1>8, <1>9, PhaseKeeps

-----------------------------------------------------------------------------
(* The inductive invariant holds *)

LEMMA InitLifetime == Init => LifetimeInv
<1> SUFFICES ASSUME Init PROVE LifetimeInv
  OBVIOUS
<1>1. IInv
  BY InitInv
<1>2. /\ \A c \in Client : client[c].pc = "new" /\ client[c].hold = None
      /\ \A c \in Client : relay[c].pc = "idle" /\ relay[c].td.hold = None
      /\ \A l \in Token : reader[l].pc = "none" /\ reader[l].td.hold = None /\ life[l] = "none"
      /\ DOMAIN devices = {}
  BY IdleType DEF Init, IdleClient, NoTeardown
<1>3. OpeningPhase /\ LiveIffPublished /\ HoldLocal /\ JoinsStopped
  BY <1>2 DEF OpeningPhase, LiveIffPublished, HoldLocal, JoinsStopped, Pending
<1>4. HoldsExact
  <2>1. \A h \in Thread : HoldOf(h) = None
    BY <1>2 DEF Thread, HoldOf
  <2> QED BY <1>2, <2>1 DEF HoldsExact
<1> QED BY <1>1, <1>3, <1>4 DEF LifetimeInv

LEMMA LifetimeInvStep == LifetimeInv /\ [Next]_vars => LifetimeInv'
<1> SUFFICES ASSUME LifetimeInv, [Next]_vars PROVE LifetimeInv'
  OBVIOUS
<1>1. /\ IInv /\ TypeOK /\ TokenOnce /\ ReservationExclusive /\ OpeningPhase
      /\ LiveIffPublished /\ HoldLocal /\ JoinsStopped /\ HoldsExact
  BY DEF LifetimeInv, IInv
<1>2. IInv'
  BY <1>1, InvStep
<1>3. OpeningPhase'
  BY <1>1, PhaseStep
<1>4. LifetimeSection /\ HoldLocal' /\ JoinFrame
  BY <1>1, MovesStep DEF Moves
<1>5. /\ LiveIffPublished' /\ HoldsExact'
      /\ \A l \in Token : life[l] = "stopping" => life'[l] = "stopping"
  BY <1>1, <1>4, SectionKeeps
<1>6. JoinsStopped'
  BY <1>1, <1>4, <1>5 DEF JoinsStopped, JoinFrame, TypeOK, LocalsOK
<1> QED BY <1>2, <1>3, <1>4, <1>5, <1>6 DEF LifetimeInv

-----------------------------------------------------------------------------
(* The theorems *)

\* The inductive invariant holds in every reachable state.
THEOREM LifetimeInvCorrect == Spec => []LifetimeInv
<1>1. Init => LifetimeInv
  BY InitLifetime
<1>2. LifetimeInv /\ [Next]_vars => LifetimeInv'
  BY LifetimeInvStep
<1> QED BY <1>1, <1>2, PTL DEF Spec

\* Every Entry that left the map (close, force_close, the failing reader, the
\* invalidated opener) is held by exactly one thread until that thread has
\* joined it: none is leaked and none is stopped twice.
THEOREM HeldCorrect == Spec => []HeldOnce
<1>1. LifetimeInv => HeldOnce
  <2> SUFFICES ASSUME LifetimeInv, NEW l \in Token
               PROVE  /\ Cardinality(Holders(l)) <= 1
                      /\ life[l] = "detached" => Holders(l) # {}
                      /\ life[l] \in {"none", "handle", "built", "live"} => Holders(l) = {}
    BY DEF HeldOnce
  <2>1. Holders(l) = {h \in Thread : HoldOf(h) = l}
    BY HoldersThreads
  <2>2. HoldsExact /\ l # None
    BY NoneAssumption DEF LifetimeInv
  <2>3. Cardinality(Holders(l)) <= 1
    <3>1. CASE Holders(l) = {}
      BY <3>1, FS_EmptySet
    <3>2. CASE Holders(l) # {}
      <4>1. PICK h \in Thread : Holders(l) = {h}
        BY <2>1, <2>2, <3>2 DEF HoldsExact
      <4> QED BY <4>1, FS_Singleton
    <3> QED BY <3>1, <3>2
  <2>4. life[l] \in {"none", "handle", "built", "live"} => Holders(l) = {}
    BY <2>1, <2>2 DEF HoldsExact
  <2> QED BY <2>1, <2>2, <2>3, <2>4 DEF HoldsExact
<1> QED BY <1>1, LifetimeInvCorrect, PTL

\* A lifetime is live exactly while the map publishes it, and no two devices
\* publish the same one.
THEOREM LiveCorrect == Spec => []LiveIffPublished
<1>1. LifetimeInv => LiveIffPublished
  BY DEF LifetimeInv
<1> QED BY <1>1, LifetimeInvCorrect, PTL

-----------------------------------------------------------------------------
(* The steps that touch a transport *)

\* The locked section of close(), by the owner or by the drain of its client.
Closes(c, t) ==
    /\ t \in DOMAIN sessions
    /\ sessions[t].owner = c \/ t \in client[c].todo
    /\ CloseSession(c, t)

\* A connection task moves without touching its session.
ConnMoves(k) ==
    (\E t \in Token, kind \in Kinds : ConnAuth(k, t, kind)) \/ ConnRefused(k) \/ ConnDisconnectStale(k)

StillTransport == UNCHANGED <<sessions, devices, transportValidity, nmSinks, nmHot, conn, capValid>>

TransportSection ==
    \/ \E c \in Client : Registers(c) /\ UNCHANGED <<transportValidity, nmSinks, conn, capValid>>
    \/ \E c \in Client, t \in Token : Closes(c, t) /\ UNCHANGED <<nmSinks, conn>>
    \/ \E d \in Device : DetachLifetime(d) /\ UNCHANGED <<nmSinks, conn>>
    \/ \E c \in Client, d \in Device, t \in Token, m \in AskModes : SetDataplaneMode(c, d, t, m)
    \/ \E k \in Conn : ConnConnect(k) \/ ConnDisconnect(k) \/ ConnMoves(k)
    \/ \E c \in Client : ClientConnect(c) \/ ClientEof(c)
    \/ StillTransport

\* Every step of the daemon is one of these.
LEMMA TransportStep ==
    ASSUME TypeOK, [Next]_vars
    PROVE  TransportSection
<1>1. ASSUME NEW c \in Client, OpenJoin(c) \/ WaiterJoin(c) \/ OpenPublish(c) PROVE TransportSection
  <2>1. Registers(c) /\ UNCHANGED <<transportValidity, nmSinks, conn, capValid>>
    BY <1>1 DEF OpenJoin, WaiterJoin, OpenPublish, Registers, Pending, connVars
  <2> QED BY <2>1 DEF TransportSection
<1>2. ASSUME NEW c \in Client,
             \/ OpenWait(c) \/ OpenReserve(c) \/ WaiterRetry(c) \/ WaiterFail(c) \/ PhysicalOpen(c)
             \/ PhysicalOpenFail(c) \/ OpenBuild(c) \/ OpenAbandon(c) \/ OpenDiscard(c)
             \/ OpenRelease(c) \/ OpenFinish(c) \/ OpenNotify(c)
      PROVE  TransportSection
  <2>1. StillTransport
    BY <1>2 DEF OpenWait, OpenReserve, WaiterRetry, WaiterFail, PhysicalOpen, PhysicalOpenFail,
                OpenBuild, OpenAbandon, OpenDiscard, OpenRelease, OpenFinish, OpenNotify,
                mgrVars, connVars, StillTransport
  <2> QED BY <2>1 DEF TransportSection
<1>3. ASSUME NEW c \in Client, NEW t \in Token, DrainClose(c, t) \/ \E d \in Device : Close(c, d, t)
      PROVE  TransportSection
  <2>1. Closes(c, t) /\ UNCHANGED <<nmSinks, conn>>
    BY <1>3 DEF DrainClose, Close, MayClose, Closes
  <2> QED BY <2>1 DEF TransportSection
<1>4. ASSUME NEW c \in Client,
             \/ ClientStop(c) \/ ClientJoin(c) \/ ClientGone(c)
             \/ \E t \in Token : DrainSkip(c, t) \/ \E d \in Device : OpenCall(c, d, t)
      PROVE  TransportSection
  <2>1. StillTransport
    BY <1>4 DEF ClientStop, ClientJoin, ClientGone, DrainSkip, OpenCall, mgrVars, connVars, StillTransport
  <2> QED BY <2>1 DEF TransportSection
<1>5. ASSUME NEW c \in Client, RelayDisconnect(c) PROVE TransportSection
  <2>1. Head(events[c]) \in Device
    BY <1>5 DEF TypeOK, ThreadTypeOK, IsMap, RelayDisconnect
  <2>2. DetachLifetime(Head(events[c])) /\ UNCHANGED <<nmSinks, conn>>
    BY <1>5 DEF RelayDisconnect
  <2> QED BY <2>1, <2>2 DEF TransportSection
<1>6. ASSUME NEW l \in Token, ReaderDetach(l) PROVE TransportSection
  <2>1. lifeDev[l] \in Device /\ DetachLifetime(lifeDev[l]) /\ UNCHANGED <<nmSinks, conn>>
    BY <1>6 DEF TypeOK, ManagerTypeOK, IsMap, ReaderDetach
  <2> QED BY <2>1 DEF TransportSection
<1>7. ASSUME NEW c \in Client, RelayPost(c) \/ RelayStop(c) \/ RelayJoin(c) \/ EventLagged(c)
      PROVE  TransportSection
  <2>1. StillTransport
    BY <1>7 DEF RelayPost, RelayStop, RelayJoin, EventLagged, mgrVars, connVars, StillTransport
  <2> QED BY <2>1 DEF TransportSection
<1>8. ASSUME NEW l \in Token,
             \/ ReaderStart(l) \/ ReaderStop(l) \/ ReaderOrphan(l) \/ ReaderCleanup(l)
             \/ ReaderFinish(l) \/ ReaderFail(l) \/ WorkerExit(l)
      PROVE  TransportSection
  <2>1. StillTransport
    BY <1>8 DEF ReaderStart, ReaderStop, ReaderOrphan, ReaderCleanup, ReaderFinish, ReaderFail,
                WorkerExit, mgrVars, connVars, StillTransport
  <2> QED BY <2>1 DEF TransportSection
<1>9. ASSUME NEW d \in Device, Unplug(d) \/ Replug(d) \/ HotplugRemove(d) PROVE TransportSection
  <2>1. StillTransport
    BY <1>9 DEF Unplug, Replug, HotplugRemove, mgrVars, connVars, StillTransport
  <2> QED BY <2>1 DEF TransportSection
<1>10. CASE UNCHANGED vars
  <2>1. StillTransport
    BY <1>10 DEF vars, mgrVars, connVars, StillTransport
  <2> QED BY <2>1 DEF TransportSection
<1>11. ASSUME NEW c \in Client, LoopStep(c) \/ RelayStep(c) \/ ClientInput(c) \/ EventLagged(c)
       PROVE  TransportSection
  <2>1. CASE LoopStep(c)
    BY <1>1, <1>2, <1>3, <1>4, <2>1 DEF LoopStep, OpenStep, DrainStep
  <2>2. CASE RelayStep(c) \/ EventLagged(c)
    BY <1>5, <1>7, <2>2 DEF RelayStep
  <2>3. CASE ClientInput(c)
    BY <1>3, <1>4, <2>3 DEF ClientInput, TransportSection
  <2> QED BY <1>11, <2>1, <2>2, <2>3
<1>12. ASSUME NEW l \in Token, ReaderStep(l) \/ ReaderFail(l) \/ WorkerExit(l) PROVE TransportSection
  BY <1>6, <1>8, <1>12 DEF ReaderStep
<1>13. ASSUME NEW k \in Conn,
              \/ \E t \in Token, kind \in Kinds : ConnAuth(k, t, kind)
              \/ ConnConnect(k) \/ ConnRefused(k) \/ ConnTask(k) \/ ConnEnd(k)
       PROVE  TransportSection
  <2>1. CASE ConnTask(k)
    BY <2>1 DEF ConnTask, ConnServe, ConnStop, mgrVars, StillTransport, TransportSection
  <2> QED BY <1>13, <2>1 DEF ConnEnd, ConnMoves, TransportSection
<1> QED BY <1>9, <1>10, <1>11, <1>12, <1>13 DEF Next

-----------------------------------------------------------------------------
(* Capabilities *)

\* A step that revokes the capabilities of S and touches no other session and
\* no connection that holds a capability.
LEMMA RevokeKeeps ==
    ASSUME TypeOK, CapabilityCurrent, NEW S,
           DOMAIN sessions \ S \subseteq DOMAIN sessions',
           \A t \in DOMAIN sessions \ S : sessions'[t] = sessions[t],
           transportValidity' = Drop(transportValidity, S),
           capValid' = capValid \ Caps(S),
           \A t \in DOMAIN transportValidity \ S : conn'[transportValidity[t]] = conn[transportValidity[t]]
    PROVE  CapabilityCurrent'
<1>1. /\ DOMAIN transportValidity' = DOMAIN transportValidity \ S
      /\ \A t \in DOMAIN transportValidity' : transportValidity'[t] = transportValidity[t]
  BY DEF Drop, Restrict
<1>2. \A t, u \in DOMAIN transportValidity : transportValidity[t] = transportValidity[u] => t = u
  BY DEF CapabilityCurrent
<1>3. capValid' = {transportValidity'[t] : t \in DOMAIN transportValidity'}
  BY <1>1, <1>2 DEF CapabilityCurrent, Caps
<1> QED BY <1>1, <1>3 DEF CapabilityCurrent

\* A step that leaves capabilities, live sessions and the connections that hold
\* a capability as they are.
LEMMA CapabilityKept ==
    ASSUME TypeOK, CapabilityCurrent, UNCHANGED <<transportValidity, capValid>>,
           \A t \in DOMAIN sessions : t \in DOMAIN sessions' /\ sessions'[t] = sessions[t],
           \A t \in DOMAIN transportValidity : conn'[transportValidity[t]] = conn[transportValidity[t]]
    PROVE  CapabilityCurrent'
BY DEF CapabilityCurrent

\* ws_connect gives the session a new generation and a new capability.
LEMMA ConnectCapability ==
    ASSUME TypeOK, CapabilityCurrent, NEW k \in Conn, ConnConnect(k)
    PROVE  CapabilityCurrent'
<1> DEFINE t == conn[k].tok  kind == conn[k].kind  gen == sessions[t].gen[kind] + 1
           r == [sessions[t] EXCEPT !.mode = kind, !.gen[kind] = gen]
<1>0. conn \in [Conn -> ConnRec] /\ IsMap(sessions, Token, SessionRec)
  BY DEF TypeOK, ManagerTypeOK, OutsideTypeOK
<1>1. t \in DOMAIN sessions /\ kind \in Kinds /\ sessions[t] \in SessionRec /\ conn[k].phase = "authed"
  BY <1>0 DEF IsMap, ConnRec, ConnConnect
<1>2. gen \in Nat /\ r.mode = kind /\ r.gen[kind] = gen
  BY <1>1 DEF SessionRec
<1>3. sessions' = [sessions EXCEPT ![t] = r]
  BY <1>0, <1>1 DEF IsMap, ConnConnect
<1>4. /\ conn'[k].phase = "up" /\ conn'[k].tok = t /\ conn'[k].kind = kind /\ conn'[k].gen = gen
      /\ \A j \in Conn \ {k} : conn'[j] = conn[j]
  BY <1>0 DEF ConnConnect, ConnRec
<1> HIDE DEF r, gen
<1>5. /\ DOMAIN sessions' = DOMAIN sessions /\ sessions'[t] = r
      /\ \A u \in DOMAIN sessions \ {t} : sessions'[u] = sessions[u]
  BY <1>0, <1>1, <1>3 DEF IsMap
<1>6. /\ DOMAIN transportValidity' = DOMAIN transportValidity \cup {t} /\ transportValidity'[t] = k
      /\ \A u \in DOMAIN transportValidity \ {t} : transportValidity'[u] = transportValidity[u]
  BY DEF ConnConnect, Put
<1>7. \A u \in DOMAIN transportValidity : transportValidity[u] \in Conn \ {k}
  BY <1>1 DEF CapabilityCurrent, TypeOK, ManagerTypeOK, IsMap
<1>8. capValid' = {transportValidity'[u] : u \in DOMAIN transportValidity'}
  <2>1. \A u, v \in DOMAIN transportValidity : transportValidity[u] = transportValidity[v] => u = v
    BY DEF CapabilityCurrent
  <2>2. capValid' = (capValid \ Caps({t})) \cup {k}
    BY DEF ConnConnect
  <2>3. Caps({t}) = IF t \in DOMAIN transportValidity THEN {transportValidity[t]} ELSE {}
    BY DEF Caps
  <2> HIDE DEF t
  <2> QED BY <1>6, <2>1, <2>2, <2>3 DEF CapabilityCurrent
<1> HIDE DEF t, kind
<1>9. \A u \in DOMAIN transportValidity' :
        LET j == transportValidity'[u]
        IN  /\ conn'[j].phase = "up" /\ conn'[j].tok = u
            /\ sessions'[u].mode = conn'[j].kind
            /\ sessions'[u].gen[conn'[j].kind] = conn'[j].gen
  BY <1>2, <1>4, <1>5, <1>6, <1>7 DEF CapabilityCurrent
<1>10. DOMAIN transportValidity' \subseteq DOMAIN sessions'
  BY <1>1, <1>5, <1>6 DEF CapabilityCurrent
<1> QED BY <1>8, <1>9, <1>10 DEF CapabilityCurrent

\* Every step keeps the valid capabilities those of the current transports.
LEMMA CapabilityStep ==
    ASSUME TypeOK, TokenOnce, CapabilityCurrent, [Next]_vars
    PROVE  CapabilityCurrent'
<1>0. conn \in [Conn -> ConnRec] /\ IsMap(sessions, Token, SessionRec)
  BY DEF TypeOK, ManagerTypeOK, OutsideTypeOK
<1>1. ASSUME NEW c \in Client, Registers(c), UNCHANGED <<transportValidity, conn, capValid>>
      PROVE  CapabilityCurrent'
  <2>1. client[c].tok \notin DOMAIN sessions
    BY <1>1 DEF Registers, TokenOnce
  <2>2. \A t \in DOMAIN sessions : t \in DOMAIN sessions' /\ sessions'[t] = sessions[t]
    BY <1>1, <2>1 DEF Registers, Register, Put
  <2> QED BY <1>1, <2>2, CapabilityKept
<1>2. ASSUME NEW c \in Client, NEW t \in Token, Closes(c, t), conn' = conn PROVE CapabilityCurrent'
  <2>1. /\ sessions' = Drop(sessions, {t}) /\ transportValidity' = Drop(transportValidity, {t})
        /\ capValid' = capValid \ Caps({t})
    BY <1>2 DEF Closes, CloseSession
  <2>2. DOMAIN sessions' = DOMAIN sessions \ {t} /\ \A u \in DOMAIN sessions' : sessions'[u] = sessions[u]
    BY <2>1 DEF Drop, Restrict
  <2> QED BY <1>2, <2>1, <2>2, RevokeKeeps
<1>3. ASSUME NEW d \in Device, DetachLifetime(d), conn' = conn PROVE CapabilityCurrent'
  <2> DEFINE S == SessionsOn(d)
  <2>1. /\ sessions' = Drop(sessions, S) /\ transportValidity' = Drop(transportValidity, S)
        /\ capValid' = capValid \ Caps(S)
    BY <1>3 DEF DetachLifetime
  <2> HIDE DEF S
  <2>2. DOMAIN sessions' = DOMAIN sessions \ S /\ \A u \in DOMAIN sessions' : sessions'[u] = sessions[u]
    BY <2>1 DEF Drop, Restrict
  <2> QED BY <1>3, <2>1, <2>2, RevokeKeeps
<1>4. ASSUME NEW c \in Client, NEW d \in Device, NEW t \in Token, NEW m \in AskModes,
             SetDataplaneMode(c, d, t, m)
      PROVE  CapabilityCurrent'
  <2>1. /\ sessions' = [sessions EXCEPT ![t].mode = m]
        /\ transportValidity' = Drop(transportValidity, {t})
        /\ capValid' = capValid \ Caps({t}) /\ conn' = conn
    BY <1>4 DEF SetDataplaneMode
  <2>2. DOMAIN sessions' = DOMAIN sessions /\ \A u \in DOMAIN sessions \ {t} : sessions'[u] = sessions[u]
    BY <1>0, <2>1 DEF IsMap
  <2> QED BY <2>1, <2>2, RevokeKeeps
<1>5. ASSUME NEW k \in Conn, ConnDisconnect(k) PROVE CapabilityCurrent'
  <2> DEFINE t == conn[k].tok
  <2>1. /\ sessions' = [sessions EXCEPT ![t].mode = "nm"]
        /\ transportValidity' = Drop(transportValidity, {t})
        /\ capValid' = capValid \ Caps({t})
        /\ conn' = [conn EXCEPT ![k].phase = "done"]
    BY <1>5 DEF ConnDisconnect
  <2>2. DOMAIN sessions' = DOMAIN sessions /\ \A u \in DOMAIN sessions \ {t} : sessions'[u] = sessions[u]
    BY <1>0, <2>1 DEF IsMap
  <2>3. \A u \in DOMAIN transportValidity \ {t} :
          transportValidity[u] # k /\ conn'[transportValidity[u]] = conn[transportValidity[u]]
    BY <1>0, <2>1 DEF CapabilityCurrent
  <2> HIDE DEF t
  <2> QED BY <2>1, <2>2, <2>3, RevokeKeeps
<1>6. ASSUME NEW k \in Conn, ConnMoves(k) PROVE CapabilityCurrent'
  <2>1. UNCHANGED <<sessions, transportValidity, capValid>> /\ \A j \in Conn \ {k} : conn'[j] = conn[j]
    BY <1>0, <1>6 DEF ConnMoves, ConnAuth, ConnRefused, ConnDisconnectStale, mgrVars
  <2>2. \A u \in DOMAIN transportValidity : transportValidity[u] \in Conn \ {k}
    BY <1>6 DEF ConnMoves, ConnAuth, ConnRefused, ConnDisconnectStale, ConnCurrent, CapabilityCurrent,
                TypeOK, ManagerTypeOK, IsMap
  <2> QED BY <2>1, <2>2, CapabilityKept
<1>7. ASSUME NEW c \in Client, ClientConnect(c) \/ ClientEof(c) PROVE CapabilityCurrent'
  <2>1. UNCHANGED <<sessions, transportValidity, capValid, conn>>
    BY <1>7 DEF ClientConnect, ClientEof, connVars
  <2> QED BY <2>1, CapabilityKept
<1>8. CASE StillTransport
  BY <1>8, CapabilityKept DEF StillTransport
<1> QED BY <1>1, <1>2, <1>3, <1>4, <1>5, <1>6, <1>7, <1>8, ConnectCapability, TransportStep
        DEF TransportSection

-----------------------------------------------------------------------------
(* NM bindings *)

\* A client that drains closes its own sessions only, and each token of its
\* snapshot has had its one session (close_all_for_client 1404-1430).
DrainOwned ==
    \A c \in Client : \A t \in client[c].todo :
        /\ reply[t] = "ok"
        /\ t \in DOMAIN sessions => sessions[t].owner = c

\* A client that has yet to connect owns no session: its sink needs no binding.
NewOwnsNothing == \A c \in Client : client[c].pc = "new" => OwnedBy(c) = {}

\* What a step does to snapshots and to clients that have yet to connect.
TodoFrame ==
    \A c \in Client :
        /\ \/ client'[c].todo \subseteq client[c].todo
           \/ client'[c].todo = OwnedBy(c) /\ UNCHANGED <<sessions, reply>>
        /\ client'[c].pc = "new" => client[c].pc = "new"

\* Only the end of a client takes a snapshot, and nobody becomes new again.
LEMMA TodoStep ==
    ASSUME TypeOK, [Next]_vars
    PROVE  TodoFrame
<1>0. client \in [Client -> ClientRec] /\ \A c \in Client : client[c].back # "new"
  BY DEF TypeOK, ThreadTypeOK, LocalsOK
<1>1. IdleClient \in ClientRec /\ IdleClient.pc = "idle" /\ IdleClient.todo = {}
  BY IdleType DEF IdleClient
<1>2. ASSUME client' = client PROVE TodoFrame
  BY <1>2 DEF TodoFrame
<1>3. ASSUME NEW c \in Client, NEW r \in ClientRec, client' = [client EXCEPT ![c] = r],
             r.todo \subseteq client[c].todo, r.pc # "new"
      PROVE  TodoFrame
  BY <1>0, <1>3 DEF TodoFrame
<1>4. ASSUME NEW c \in Client, OpenJoin(c) \/ WaiterJoin(c) \/ WaiterFail(c) \/ OpenNotify(c) \/ ClientConnect(c)
      PROVE  TodoFrame
  <2>1. client' = [client EXCEPT ![c] = IdleClient]
    BY <1>4 DEF OpenJoin, WaiterJoin, WaiterFail, OpenNotify, ClientConnect, GoIdle
  <2> QED BY <1>1, <1>3, <2>1
<1>5. ASSUME NEW c \in Client, NEW p \in ClientPcs, Go(c, p), p # "new" PROVE TodoFrame
  <2> DEFINE r == [client[c] EXCEPT !.pc = p]
  <2>1. r \in ClientRec /\ r.todo = client[c].todo /\ r.pc = p /\ client' = [client EXCEPT ![c] = r]
    BY <1>0, <1>5 DEF Go, ClientRec
  <2> HIDE DEF r
  <2> QED BY <1>3, <1>5, <2>1
<1>6. ASSUME NEW c \in Client,
             \/ OpenReserve(c) \/ PhysicalOpen(c) \/ PhysicalOpenFail(c) \/ OpenBuild(c) \/ OpenAbandon(c)
             \/ OpenPublish(c) \/ OpenRelease(c) \/ OpenFinish(c) \/ ClientStop(c) \/ ClientGone(c)
      PROVE  TodoFrame
  BY <1>5, <1>6 DEF OpenReserve, PhysicalOpen, PhysicalOpenFail, OpenBuild, OpenAbandon, OpenPublish,
                    OpenRelease, OpenFinish, ClientStop, ClientGone, ClientPcs
<1>7. ASSUME NEW c \in Client, OpenWait(c) \/ WaiterRetry(c) \/ OpenDiscard(c) \/ ClientJoin(c)
      PROVE  TodoFrame
  <2>1. /\ client'[c].todo = client[c].todo /\ client'[c].pc # "new"
        /\ \A e \in Client \ {c} : client'[e] = client[e]
    BY <1>0, <1>7 DEF OpenWait, WaiterRetry, OpenDiscard, ClientJoin, ClientRec
  <2> QED BY <2>1 DEF TodoFrame
<1>8. ASSUME NEW c \in Client, NEW t \in Token,
             DrainClose(c, t) \/ DrainSkip(c, t) \/ \E d \in Device : Close(c, d, t)
      PROVE  TodoFrame
  <2>1. /\ client'[c].todo \subseteq client[c].todo /\ client'[c].pc # "new"
        /\ \A e \in Client \ {c} : client'[e] = client[e]
    BY <1>0, <1>8 DEF DrainClose, DrainSkip, Close, ClientRec
  <2> QED BY <2>1 DEF TodoFrame
<1>9. ASSUME NEW c \in Client, NEW d \in Device, NEW t \in Token, OpenCall(c, d, t) PROVE TodoFrame
  <2> DEFINE r == [IdleClient EXCEPT !.pc = "attempt", !.dev = d, !.tok = t]
  <2>1. r \in ClientRec /\ r.todo = {} /\ r.pc = "attempt" /\ client' = [client EXCEPT ![c] = r]
    BY <1>1, <1>9 DEF OpenCall, ClientRec, ClientPcs
  <2> HIDE DEF r
  <2> QED BY <1>3, <2>1
<1>10. ASSUME NEW c \in Client, ClientEof(c) PROVE TodoFrame
  <2> DEFINE r == [IdleClient EXCEPT !.pc = "draining", !.todo = OwnedBy(c)]
  <2>1. /\ r.todo = OwnedBy(c) /\ r.pc = "draining" /\ client' = [client EXCEPT ![c] = r]
        /\ UNCHANGED <<sessions, reply>>
    BY <1>1, <1>10 DEF ClientEof, ClientRec
  <2> HIDE DEF r
  <2> QED BY <1>0, <2>1 DEF TodoFrame
<1>11. ASSUME NEW c \in Client, NEW d \in Device, NEW t \in Token, NEW m \in AskModes,
              SetDataplaneMode(c, d, t, m)
       PROVE  TodoFrame
  BY <1>2, <1>11 DEF SetDataplaneMode, thrVars
<1>12. ASSUME NEW c \in Client, RelayStep(c) \/ EventLagged(c) PROVE TodoFrame
  BY <1>2, <1>12 DEF RelayStep, RelayDisconnect, RelayPost, RelayStop, RelayJoin, EventLagged
<1>13. ASSUME NEW l \in Token, ReaderStep(l) \/ ReaderFail(l) \/ WorkerExit(l) PROVE TodoFrame
  BY <1>2, <1>13 DEF ReaderStep, ReaderStart, ReaderStop, ReaderDetach, ReaderOrphan, ReaderCleanup,
                     ReaderFinish, ReaderFail, WorkerExit, thrVars
<1>14. ASSUME NEW k \in Conn,
              \/ \E t \in Token, kind \in Kinds : ConnAuth(k, t, kind)
              \/ ConnConnect(k) \/ ConnRefused(k) \/ ConnTask(k) \/ ConnEnd(k)
       PROVE  TodoFrame
  BY <1>2, <1>14 DEF ConnAuth, ConnConnect, ConnRefused, ConnTask, ConnServe,
                     ConnStop, ConnEnd, ConnDisconnect,
                     ConnDisconnectStale, thrVars
<1>15. ASSUME NEW d \in Device, Unplug(d) \/ Replug(d) \/ HotplugRemove(d) PROVE TodoFrame
  BY <1>2, <1>15 DEF Unplug, Replug, HotplugRemove, thrVars
<1>16. CASE UNCHANGED vars
  BY <1>2, <1>16 DEF vars, thrVars
<1>17. ASSUME NEW c \in Client, LoopStep(c) \/ ClientInput(c) PROVE TodoFrame
  BY <1>4, <1>6, <1>7, <1>8, <1>9, <1>10, <1>11, <1>17 DEF LoopStep, OpenStep, DrainStep, ClientInput
<1> QED BY <1>12, <1>13, <1>14, <1>15, <1>16, <1>17 DEF Next

\* What a step does to the owners of sessions.
LEMMA OwnersStep ==
    ASSUME TypeOK, TokenOnce, [Next]_vars
    PROVE  \A t \in DOMAIN sessions' :
             \/ t \in DOMAIN sessions /\ sessions'[t].owner = sessions[t].owner
             \/ reply[t] = "none" /\ client[sessions'[t].owner].pc \in Pending
<1>1. ASSUME NEW c \in Client, Registers(c)
      PROVE  \A t \in DOMAIN sessions' :
               \/ t \in DOMAIN sessions /\ sessions'[t].owner = sessions[t].owner
               \/ reply[t] = "none" /\ client[sessions'[t].owner].pc \in Pending
  BY <1>1 DEF Registers, Register, Put, TokenOnce
<1> QED BY <1>1, LockedSection
        DEF Ends, CloseSession, TearsDown, DetachLifetime, Leaves, Drop, Restrict

\* Snapshots stay within the client's own sessions.
LEMMA DrainOwnedStep ==
    ASSUME TypeOK, TokenOnce, DrainOwned, NewOwnsNothing, [Next]_vars
    PROVE  DrainOwned' /\ NewOwnsNothing'
<1>1. TodoFrame
  BY TodoStep
<1>2. \A c \in Client : client[c].todo \subseteq Token
  BY DEF TypeOK, ThreadTypeOK, ClientRec
<1>3. ASSUME NEW c \in Client, NEW t \in client'[c].todo
      PROVE  reply'[t] = "ok" /\ (t \in DOMAIN sessions' => sessions'[t].owner = c)
  <2>1. CASE client'[c].todo = OwnedBy(c) /\ UNCHANGED <<sessions, reply>>
    BY <1>3, <2>1 DEF OwnedBy, TokenOnce
  <2>2. CASE client'[c].todo \subseteq client[c].todo
    <3>1. t \in Token /\ reply[t] = "ok" /\ (t \in DOMAIN sessions => sessions[t].owner = c)
      BY <1>2, <1>3, <2>2 DEF DrainOwned
    <3> QED BY <3>1, AnswersStay, OwnersStep
  <2> QED BY <1>1, <2>1, <2>2 DEF TodoFrame
<1>4. ASSUME NEW c \in Client, client'[c].pc = "new" PROVE OwnedBy(c)' = {}
  <2>1. client[c].pc = "new" /\ OwnedBy(c) = {}
    BY <1>1, <1>4 DEF TodoFrame, NewOwnsNothing
  <2> QED BY <2>1, OwnersStep DEF OwnedBy, Pending
<1> QED BY <1>3, <1>4 DEF DrainOwned, NewOwnsNothing

\* refresh_nm_hot_locked binds exactly one client and device anew.
LEMMA RefreshExact ==
    ASSUME TypeOK, HotExact, nmSinks' = nmSinks, NEW c \in Client, NEW d \in Device,
           nmHot' = RefreshNmHot(c, d, sessions', devices'),
           \A e \in Client, f \in Device :
             <<e, f>> # <<c, d>> => (NmActive(sessions', e, f) <=> NmActive(sessions, e, f)),
           NmActive(sessions', c, d) => d \in DOMAIN devices',
           \A f \in DOMAIN devices : f \in DOMAIN devices' /\ devices'[f] = devices[f]
    PROVE  HotExact'
<1> DEFINE rest == Drop(nmHot, {<<c, d>>})
           Bound == NmActive(sessions', c, d) /\ c \in nmSinks
<1>1. DOMAIN rest = DOMAIN nmHot \ {<<c, d>>} /\ \A k \in DOMAIN rest : rest[k] = nmHot[k]
  BY DEF Drop, Restrict
<1>2. nmHot' = IF Bound THEN Put(rest, <<c, d>>, devices'[d]) ELSE rest
  BY DEF RefreshNmHot
<1> HIDE DEF rest
<1>3. /\ DOMAIN nmHot' = (DOMAIN nmHot \ {<<c, d>>}) \cup (IF Bound THEN {<<c, d>>} ELSE {})
      /\ \A k \in DOMAIN nmHot \ {<<c, d>>} : nmHot'[k] = nmHot[k]
      /\ Bound => nmHot'[<<c, d>>] = devices'[d]
  BY <1>1, <1>2 DEF Put
<1>4. \A k \in Client \X Device : k = <<k[1], k[2]>> /\ k[1] \in Client /\ k[2] \in Device
  OBVIOUS
<1>5. \A k \in Client \X Device :
        k # <<c, d>> => (NmActive(sessions', k[1], k[2]) <=> NmActive(sessions, k[1], k[2]))
  BY <1>4
<1>6. DOMAIN nmHot' = {k \in Client \X Device : k[1] \in nmSinks' /\ NmActive(sessions', k[1], k[2])}
  <2>1. \A k \in Client \X Device :
          k \in DOMAIN nmHot <=> k[1] \in nmSinks /\ NmActive(sessions, k[1], k[2])
    BY DEF HotExact
  <2>2. DOMAIN nmHot \subseteq Client \X Device /\ <<c, d>> \in Client \X Device
    BY DEF HotExact
  <2>3. DOMAIN nmHot' \subseteq Client \X Device
    BY <1>3, <2>2
  <2>4. \A k \in Client \X Device :
          k # <<c, d>> => (k \in DOMAIN nmHot' <=> k[1] \in nmSinks /\ NmActive(sessions', k[1], k[2]))
    BY <1>3, <1>5, <2>1
  <2>5. <<c, d>> \in DOMAIN nmHot' <=> Bound
    BY <1>3
  <2>6. \A k \in Client \X Device : k \in DOMAIN nmHot' <=> k[1] \in nmSinks' /\ NmActive(sessions', k[1], k[2])
    BY <2>4, <2>5
  <2> QED BY <2>3, <2>6
<1>7. \A k \in DOMAIN nmHot' : k[2] \in DOMAIN devices' /\ nmHot'[k] = devices'[k[2]]
  BY <1>3 DEF HotExact
<1> QED BY <1>6, <1>7 DEF HotExact

\* invalidate_nm_hot_for_device_locked, in the section that takes the Entry and
\* the sessions of the device.
LEMMA InvalidateExact ==
    ASSUME TypeOK, HotExact, nmSinks' = nmSinks, NEW d \in Device,
           nmHot' = InvalidateNmHot(d), devices' = Drop(devices, {d}),
           \A e \in Client, f \in Device :
             NmActive(sessions', e, f) <=> f # d /\ NmActive(sessions, e, f)
    PROVE  HotExact'
<1>1. /\ DOMAIN nmHot' = {k \in DOMAIN nmHot : k[2] # d}
      /\ \A k \in DOMAIN nmHot' : nmHot'[k] = nmHot[k]
  BY DEF InvalidateNmHot, Drop, Restrict
<1>2. DOMAIN devices' = DOMAIN devices \ {d} /\ \A f \in DOMAIN devices' : devices'[f] = devices[f]
  BY DEF Drop, Restrict
<1>3. \A k \in Client \X Device :
        NmActive(sessions', k[1], k[2]) <=> k[2] # d /\ NmActive(sessions, k[1], k[2])
  OBVIOUS
<1>4. DOMAIN nmHot' = {k \in Client \X Device : k[1] \in nmSinks' /\ NmActive(sessions', k[1], k[2])}
  BY <1>1, <1>3 DEF HotExact
<1> QED BY <1>1, <1>2, <1>4 DEF HotExact

\* A step that keeps bindings, sinks, Entries and NM sessions.
LEMMA HotKept ==
    ASSUME TypeOK, HotExact, UNCHANGED <<nmHot, nmSinks, sessions, devices>>
    PROVE  HotExact'
BY DEF HotExact

\* One session changes: NM activity elsewhere is what it was.
LEMMA ActiveElsewhere ==
    ASSUME NEW s, NEW r, NEW t, NEW c, NEW d,
           \A u \in (DOMAIN s \cup DOMAIN r) \ {t} : u \in DOMAIN s /\ u \in DOMAIN r /\ r[u] = s[u],
           t \in DOMAIN s => s[t].owner = c /\ s[t].dev = d,
           t \in DOMAIN r => r[t].owner = c /\ r[t].dev = d
    PROVE  \A e \in Client, f \in Device : <<e, f>> # <<c, d>> => (NmActive(r, e, f) <=> NmActive(s, e, f))
BY DEF NmActive

\* A step in which the mode of one live session changes and its binding is
\* refreshed.
LEMMA ModeExact ==
    ASSUME TypeOK, SessionIffEntry, HotExact, UNCHANGED <<nmSinks, devices>>,
           NEW t \in DOMAIN sessions, DOMAIN sessions' = DOMAIN sessions,
           \A u \in DOMAIN sessions \ {t} : sessions'[u] = sessions[u],
           sessions'[t].owner = sessions[t].owner, sessions'[t].dev = sessions[t].dev,
           nmHot' = RefreshNmHot(sessions[t].owner, sessions[t].dev, sessions', devices)
    PROVE  HotExact'
<1> DEFINE c == sessions[t].owner  d == sessions[t].dev
<1>1. c \in Client /\ d \in Device /\ d \in DOMAIN devices
  BY DEF TypeOK, ManagerTypeOK, IsMap, SessionRec, SessionIffEntry
<1>2. /\ sessions[t].owner = c /\ sessions[t].dev = d /\ sessions'[t].owner = c /\ sessions'[t].dev = d
      /\ nmHot' = RefreshNmHot(c, d, sessions', devices')
  OBVIOUS
<1> HIDE DEF c, d
<1>3. \A e \in Client, f \in Device :
        <<e, f>> # <<c, d>> => (NmActive(sessions', e, f) <=> NmActive(sessions, e, f))
  BY <1>2, ActiveElsewhere
<1> QED BY <1>1, <1>2, <1>3, RefreshExact

\* open() binds its client as it registers the session.
LEMMA RegistersExact ==
    ASSUME IInv, HotExact, NEW c \in Client, Registers(c), nmSinks' = nmSinks
    PROVE  HotExact'
<1>a. PICK t \in Token : t = client[c].tok
  BY DEF IInv, TypeOK, LocalsOK, Registers, Pending
<1>b. PICK d \in Device : d = client[c].dev
  BY DEF IInv, TypeOK, LocalsOK, Registers, Pending
<1>1. t \notin DOMAIN sessions
  BY <1>a DEF Registers, IInv, TokenOnce
<1>2. /\ DOMAIN sessions' = DOMAIN sessions \cup {t} /\ sessions'[t].owner = c /\ sessions'[t].dev = d
      /\ \A u \in DOMAIN sessions : sessions'[u] = sessions[u]
      /\ nmHot' = RefreshNmHot(c, d, sessions', devices')
  BY <1>a, <1>b, <1>1 DEF Registers, Register, Put
<1>3. \A e \in Client, f \in Device :
        <<e, f>> # <<c, d>> => (NmActive(sessions', e, f) <=> NmActive(sessions, e, f))
  <2>1. \A u \in (DOMAIN sessions \cup DOMAIN sessions') \ {t} :
          u \in DOMAIN sessions /\ u \in DOMAIN sessions' /\ sessions'[u] = sessions[u]
    BY <1>2
  <2>2. /\ t \in DOMAIN sessions => sessions[t].owner = c /\ sessions[t].dev = d
        /\ t \in DOMAIN sessions' => sessions'[t].owner = c /\ sessions'[t].dev = d
    BY <1>1, <1>2
  <2> QED BY <2>1, <2>2 DEF NmActive
<1>4. d \in DOMAIN devices' /\ \A f \in DOMAIN devices : f \in DOMAIN devices' /\ devices'[f] = devices[f]
  <2>1. CASE d \in DOMAIN devices /\ devices' = devices
    BY <2>1
  <2>2. CASE client[c].pc = "built" /\ Current(c) /\ devices' = Put(devices, d, t)
    <3>1. d \notin DOMAIN devices
      <4> SUFFICES ASSUME d \in DOMAIN devices PROVE FALSE
        OBVIOUS
      <4>1. PICK o \in Client : client[o].tok = t /\ client[o].pc \in {"release", "finish"}
        BY <1>a, <1>b, <2>2 DEF Current, IInv, ReservationExclusive
      <4> QED BY <1>a, <2>2, <4>1, NoneAssumption DEF IInv, TokenOnce
    <3> QED BY <2>2, <3>1 DEF Put
  <2> QED BY <1>a, <1>b, <2>1, <2>2 DEF Registers
<1> QED BY <1>2, <1>3, <1>4, RefreshExact DEF IInv

\* close() refreshes its client's binding, or drops all of the device's.
LEMMA ClosesExact ==
    ASSUME IInv, DrainOwned, HotExact, NEW c \in Client, NEW t \in Token, Closes(c, t), nmSinks' = nmSinks
    PROVE  HotExact'
<1>a. PICK d \in Device : d = sessions[t].dev
  BY DEF IInv, TypeOK, ManagerTypeOK, IsMap, SessionRec, Closes
<1>1. t \in DOMAIN sessions /\ sessions[t].owner = c /\ sessions[t].dev = d
  BY <1>a DEF Closes, DrainOwned
<1>2. DOMAIN sessions' = DOMAIN sessions \ {t} /\ \A u \in DOMAIN sessions' : sessions'[u] = sessions[u]
  BY DEF Closes, CloseSession, Drop, Restrict
<1>3. CASE SessionsOn(d) = {t}
  <2>1. nmHot' = InvalidateNmHot(d) /\ devices' = Drop(devices, {d})
    BY <1>a, <1>3 DEF Closes, CloseSession, RemoveEntry
  <2>2. \A e \in Client, f \in Device : NmActive(sessions', e, f) <=> f # d /\ NmActive(sessions, e, f)
    BY <1>1, <1>2, <1>3 DEF NmActive, SessionsOn
  <2> QED BY <2>1, <2>2, InvalidateExact DEF IInv
<1>4. CASE SessionsOn(d) # {t}
  <2>1. nmHot' = RefreshNmHot(c, d, sessions', devices') /\ devices' = devices
    BY <1>a, <1>4 DEF Closes, CloseSession
  <2>2. \A e \in Client, f \in Device :
          <<e, f>> # <<c, d>> => (NmActive(sessions', e, f) <=> NmActive(sessions, e, f))
    BY <1>1, <1>2, ActiveElsewhere
  <2>3. d \in DOMAIN devices'
    BY <1>1, <2>1 DEF IInv, SessionIffEntry
  <2> QED BY <2>1, <2>2, <2>3, RefreshExact DEF IInv
<1> QED BY <1>3, <1>4

\* Every step keeps the bindings exact.
LEMMA HotStep ==
    ASSUME IInv, DrainOwned, NewOwnsNothing, HotExact, [Next]_vars
    PROVE  HotExact'
<1>0. TypeOK /\ SessionIffEntry /\ IsMap(sessions, Token, SessionRec)
  BY DEF IInv, TypeOK, ManagerTypeOK
<1>1. ASSUME NEW d \in Device, DetachLifetime(d), nmSinks' = nmSinks PROVE HotExact'
  <2>1. /\ DOMAIN sessions' = DOMAIN sessions \ SessionsOn(d)
        /\ \A u \in DOMAIN sessions' : sessions'[u] = sessions[u]
        /\ nmHot' = InvalidateNmHot(d) /\ devices' = Drop(devices, {d})
    BY <1>1 DEF DetachLifetime, RemoveEntry, Drop, Restrict
  <2>2. \A e \in Client, f \in Device : NmActive(sessions', e, f) <=> f # d /\ NmActive(sessions, e, f)
    BY <2>1 DEF NmActive, SessionsOn
  <2> QED BY <1>0, <1>1, <2>1, <2>2, InvalidateExact
<1>2. ASSUME NEW c \in Client, NEW d \in Device, NEW t \in Token, NEW m \in AskModes,
             SetDataplaneMode(c, d, t, m)
      PROVE  HotExact'
  <2>1. /\ t \in DOMAIN sessions /\ sessions[t].owner = c /\ sessions[t].dev = d
        /\ sessions' = [sessions EXCEPT ![t].mode = m] /\ UNCHANGED <<nmSinks, devices>>
        /\ nmHot' = RefreshNmHot(c, d, sessions', devices)
    BY <1>2 DEF SetDataplaneMode, MayClose
  <2>2. /\ DOMAIN sessions' = DOMAIN sessions /\ \A u \in DOMAIN sessions \ {t} : sessions'[u] = sessions[u]
        /\ sessions'[t].owner = c /\ sessions'[t].dev = d
    BY <1>0, <2>1 DEF IsMap, SessionRec
  <2> QED BY <1>0, <2>1, <2>2, ModeExact
<1>3. ASSUME NEW k \in Conn, ConnConnect(k) PROVE HotExact'
  <2> DEFINE t == conn[k].tok  kind == conn[k].kind
             r == [sessions[t] EXCEPT !.mode = kind, !.gen[kind] = sessions[t].gen[kind] + 1]
  <2>1. /\ t \in DOMAIN sessions /\ UNCHANGED <<nmSinks, devices>>
        /\ nmHot' = RefreshNmHot(sessions[t].owner, sessions[t].dev, sessions', devices)
    BY <1>3 DEF ConnConnect
  <2>2. r.owner = sessions[t].owner /\ r.dev = sessions[t].dev /\ sessions' = [sessions EXCEPT ![t] = r]
    BY <1>0, <1>3, <2>1 DEF ConnConnect, IsMap, SessionRec
  <2> HIDE DEF r, t
  <2>3. /\ DOMAIN sessions' = DOMAIN sessions /\ \A u \in DOMAIN sessions \ {t} : sessions'[u] = sessions[u]
        /\ sessions'[t].owner = sessions[t].owner /\ sessions'[t].dev = sessions[t].dev
    BY <1>0, <2>1, <2>2 DEF IsMap
  <2> QED BY <1>0, <2>1, <2>3, ModeExact
<1>4. ASSUME NEW k \in Conn, ConnDisconnect(k) PROVE HotExact'
  <2> DEFINE t == conn[k].tok
  <2>1. /\ t \in DOMAIN sessions /\ UNCHANGED <<nmSinks, devices>>
        /\ nmHot' = RefreshNmHot(sessions[t].owner, sessions[t].dev, sessions', devices)
        /\ sessions' = [sessions EXCEPT ![t].mode = "nm"]
    BY <1>4 DEF ConnDisconnect, ConnCurrent
  <2> HIDE DEF t
  <2>2. /\ DOMAIN sessions' = DOMAIN sessions /\ \A u \in DOMAIN sessions \ {t} : sessions'[u] = sessions[u]
        /\ sessions'[t].owner = sessions[t].owner /\ sessions'[t].dev = sessions[t].dev
    BY <1>0, <2>1 DEF IsMap, SessionRec
  <2> QED BY <1>0, <2>1, <2>2, ModeExact
<1>5. ASSUME NEW k \in Conn, ConnMoves(k) PROVE HotExact'
  BY <1>0, <1>5, HotKept DEF ConnMoves, ConnAuth, ConnRefused, ConnDisconnectStale, mgrVars
<1>6. ASSUME NEW c \in Client, ClientConnect(c) PROVE HotExact'
  <2>1. UNCHANGED <<nmHot, sessions, devices>> /\ nmSinks' = nmSinks \cup {c}
    BY <1>6 DEF ClientConnect
  <2>2. \A d \in Device : ~NmActive(sessions, c, d)
    BY <1>6 DEF ClientConnect, NewOwnsNothing, OwnedBy, NmActive
  <2> QED BY <2>1, <2>2 DEF HotExact
<1>7. ASSUME NEW c \in Client, ClientEof(c) PROVE HotExact'
  <2>1. /\ UNCHANGED <<sessions, devices>> /\ nmSinks' = nmSinks \ {c}
        /\ DOMAIN nmHot' = {k \in DOMAIN nmHot : k[1] # c}
        /\ \A k \in DOMAIN nmHot' : nmHot'[k] = nmHot[k]
    BY <1>7 DEF ClientEof, Drop, Restrict
  <2> QED BY <2>1 DEF HotExact
<1>8. CASE StillTransport
  BY <1>0, <1>8, HotKept DEF StillTransport
<1> QED BY <1>0, <1>1, <1>2, <1>3, <1>4, <1>5, <1>6, <1>7, <1>8, RegistersExact, ClosesExact, TransportStep
        DEF TransportSection

-----------------------------------------------------------------------------
(* The theorems *)

\* IInv with what the daemon keeps beside the sessions.
TransportInv == IInv /\ CapabilityCurrent /\ DrainOwned /\ NewOwnsNothing /\ HotExact

\* The freshly started daemon satisfies it.
LEMMA InitTransport == Init => TransportInv
<1> SUFFICES ASSUME Init PROVE TransportInv
  OBVIOUS
<1>1. IInv
  BY InitInv
<1>2. \A c \in Client : client[c].todo = {} /\ OwnedBy(c) = {}
  BY DEF Init, IdleClient, OwnedBy
<1>3. CapabilityCurrent
  BY DEF Init, CapabilityCurrent
<1>4. HotExact
  BY DEF Init, HotExact, NmActive
<1> QED BY <1>1, <1>2, <1>3, <1>4 DEF TransportInv, DrainOwned, NewOwnsNothing

\* Every step preserves it.
LEMMA TransportInvStep == TransportInv /\ [Next]_vars => TransportInv'
<1> SUFFICES ASSUME TransportInv, [Next]_vars PROVE TransportInv'
  OBVIOUS
<1>1. IInv' 
  BY InvStep DEF TransportInv
<1>2. CapabilityCurrent'
  BY CapabilityStep DEF TransportInv, IInv
<1>3. DrainOwned' /\ NewOwnsNothing'
  BY DrainOwnedStep DEF TransportInv, IInv
<1>4. HotExact'
  BY HotStep DEF TransportInv
<1> QED BY <1>1, <1>2, <1>3, <1>4 DEF TransportInv

\* The strengthened invariant holds in every reachable state.
THEOREM TransportInvCorrect == Spec => []TransportInv
BY InitTransport, TransportInvStep, PTL DEF Spec

\* A capability is valid exactly while its connection is its session's current
\* transport (replace_/invalidate_transport_validity 591-612).
THEOREM CapabilityCorrect == Spec => []CapabilityCurrent
<1>1. TransportInv => CapabilityCurrent
  BY DEF TransportInv
<1> QED BY <1>1, TransportInvCorrect, PTL

\* The hot path binds exactly the clients with an active NM session, to the
\* Entry that is published now (refresh_nm_hot_locked 654-696).
THEOREM HotCorrect == Spec => []HotExact
<1>1. TransportInv => HotExact
  BY DEF TransportInv
<1> QED BY <1>1, TransportInvCorrect, PTL

\* The connection that ends keeps the capabilities of all others, step by step.
LEMMA IsolatedStep ==
    ASSUME TransportInv, [Next]_vars, NEW j \in Conn, NEW k \in Conn, j # k,
           conn[j].phase = "up", conn'[j].phase = "done", k \in capValid
    PROVE  k \in capValid'
<1>0. conn \in [Conn -> ConnRec] /\ TypeOK
  BY DEF TransportInv, IInv, TypeOK, OutsideTypeOK
<1>1. ASSUME NEW i \in Conn, ConnDisconnect(i) PROVE k \in capValid'
  <2> DEFINE t == conn[i].tok
  <2>1. /\ capValid' = capValid \ Caps({t}) /\ Caps({t}) = {i}
        /\ \A h \in Conn \ {i} : conn'[h] = conn[h]
    BY <1>0, <1>1 DEF ConnDisconnect, ConnCurrent, Caps
  <2> QED BY <2>1
<1>2. ASSUME NEW i \in Conn, ConnMoves(i) PROVE k \in capValid'
  BY <1>2 DEF ConnMoves, ConnAuth, ConnRefused, ConnDisconnectStale
<1>3. ASSUME NEW i \in Conn, ConnConnect(i) PROVE FALSE
  BY <1>0, <1>3 DEF ConnConnect, ConnRec
<1>4. ASSUME conn' = conn PROVE FALSE
  BY <1>4
<1> QED BY <1>0, <1>1, <1>2, <1>3, <1>4, TransportStep
        DEF TransportSection, SetDataplaneMode, ClientConnect, ClientEof, connVars, StillTransport

\* The end of one connection never revokes the capability of another
\* (ws_disconnect 1585-1595).
THEOREM IsolatedCorrect == Spec => DisconnectIsolated
<1>1. TransportInv /\ [Next]_vars =>
        [\A j, k \in Conn :
           j # k /\ conn[j].phase = "up" /\ conn'[j].phase = "done" /\ k \in capValid
             => k \in capValid']_vars
  BY IsolatedStep
<1> QED BY <1>1, TransportInvCorrect, PTL DEF Spec, DisconnectIsolated

\* A session that ends takes no other one with it, unless its device goes.
LEMMA AloneStep ==
    ASSUME IInv, [Next]_vars, NEW t \in DOMAIN sessions, NEW u \in DOMAIN sessions,
           t \notin DOMAIN sessions', u \in DOMAIN sessions'
    PROVE  /\ sessions'[u] = sessions[u]
           /\ sessions[u].dev = sessions[t].dev =>
                DOMAIN sessions' = DOMAIN sessions \ {t} /\ sessions[t].dev \in DOMAIN devices'
           /\ u \in DOMAIN transportValidity =>
                u \in DOMAIN transportValidity' /\ transportValidity'[u] = transportValidity[u]
<1>1. ASSUME NEW x \in Token, Ends(x)
      PROVE  /\ t = x /\ sessions'[u] = sessions[u] /\ DOMAIN sessions' = DOMAIN sessions \ {t}
             /\ sessions[u].dev = sessions[t].dev => devices' = devices
             /\ u \in DOMAIN transportValidity =>
                  u \in DOMAIN transportValidity' /\ transportValidity'[u] = transportValidity[u]
  <2>1. /\ DOMAIN sessions' = DOMAIN sessions \ {x} /\ \A v \in DOMAIN sessions' : sessions'[v] = sessions[v]
        /\ transportValidity' = Drop(transportValidity, {x})
        /\ SessionsOn(sessions[x].dev) # {x} => devices' = devices
    BY <1>1 DEF Ends, CloseSession, Drop, Restrict
  <2>2. t = x /\ u # x
    BY <2>1
  <2>3. sessions[u].dev = sessions[t].dev => SessionsOn(sessions[x].dev) # {x}
    BY <2>2 DEF SessionsOn
  <2> QED BY <2>1, <2>2, <2>3 DEF Drop, Restrict
<1>2. ASSUME NEW d \in Device, TearsDown(d)
      PROVE  /\ sessions'[u] = sessions[u] /\ sessions[u].dev # sessions[t].dev
             /\ u \in DOMAIN transportValidity =>
                  u \in DOMAIN transportValidity' /\ transportValidity'[u] = transportValidity[u]
  <2>1. /\ DOMAIN sessions' = DOMAIN sessions \ SessionsOn(d)
        /\ \A v \in DOMAIN sessions' : sessions'[v] = sessions[v]
        /\ transportValidity' = Drop(transportValidity, SessionsOn(d))
    BY <1>2 DEF TearsDown, DetachLifetime, Drop, Restrict
  <2>2. t \in SessionsOn(d) /\ u \notin SessionsOn(d)
    BY <2>1
  <2>3. sessions[t].dev = d /\ sessions[u].dev # d
    BY <2>2 DEF SessionsOn
  <2> QED BY <2>1, <2>2, <2>3 DEF Drop, Restrict
<1>3. ASSUME NEW c \in Client, Registers(c) PROVE FALSE
  BY <1>3 DEF Registers, Register, Put
<1>4. ASSUME Leaves PROVE FALSE
  BY <1>4 DEF Leaves
<1>5. sessions[t].dev \in DOMAIN devices
  BY DEF IInv, SessionIffEntry
<1>6. TypeOK /\ TokenOnce
  BY DEF IInv
<1> QED BY <1>1, <1>2, <1>3, <1>4, <1>5, <1>6, LockedSection

\* Ending one session leaves the others as they were (162-167).
THEOREM AloneCorrect == Spec => EndsAlone
<1>1. IInv /\ [Next]_vars =>
        [\A t, u \in DOMAIN sessions :
           t \notin DOMAIN sessions' /\ u \in DOMAIN sessions' =>
             /\ sessions'[u] = sessions[u]
             /\ sessions[u].dev = sessions[t].dev =>
                  DOMAIN sessions' = DOMAIN sessions \ {t} /\ sessions[t].dev \in DOMAIN devices'
             /\ u \in DOMAIN transportValidity =>
                  u \in DOMAIN transportValidity' /\ transportValidity'[u] = transportValidity[u]]_vars
  BY AloneStep
<1> QED BY <1>1, InvariantCorrect, PTL DEF Spec, EndsAlone

-----------------------------------------------------------------------------
(* The count of WS/WT sessions *)

\* A teardown owes its decrement from the locked section that removed the
\* sessions until it has taken it off, and at no other time (force_close
\* 1716-1736, the reader's cleanup 1240-1274).
OwesLocal ==
    /\ \A c \in Client : relay[c].pc # "post" => relay[c].td.dec = 0
    /\ \A l \in Token : reader[l].pc \notin {"cleanup", "joining"} => reader[l].td.dec = 0

\* What the debtors owe, as a set of pairs.
Debt(f) == UNION {{h} \X (1..f[h]) : h \in DOMAIN f}

\* A debtor that owed nothing adds what it owes from now on.
LEMMA DebtAdds ==
    ASSUME NEW f, NEW h \in DOMAIN f, f[h] = 0, NEW n \in Nat, NEW g, DOMAIN g = DOMAIN f,
           g[h] = n, \A x \in DOMAIN f \ {h} : g[x] = f[x]
    PROVE  /\ IsFiniteSet(Debt(f)) <=> IsFiniteSet(Debt(g))
           /\ IsFiniteSet(Debt(f)) => /\ Cardinality(Debt(g)) = Cardinality(Debt(f)) + n
                                      /\ Cardinality(Debt(f)) \in Nat
<1> DEFINE more == {h} \X (1..n)
<1>1. IsFiniteSet(more) /\ Cardinality(more) = n
  <2>1. IsFiniteSet({h}) /\ Cardinality({h}) = 1
    BY FS_Singleton
  <2>2. IsFiniteSet(1..n) /\ Cardinality(1..n) = n
    <3>1. IsFiniteSet(1..n) /\ Cardinality(1..n) = IF 1 > n THEN 0 ELSE n - 1 + 1
      BY FS_Interval
    <3> QED BY <3>1
  <2>3. IsFiniteSet(more) /\ Cardinality(more) = Cardinality({h}) * Cardinality(1..n)
    BY <2>1, <2>2, FS_Product
  <2> QED BY <2>1, <2>2, <2>3
<1>2. Debt(g) = Debt(f) \cup more
  <2>1. \A x, i : <<x, i>> \in Debt(f) <=> x \in DOMAIN f /\ i \in 1..f[x]
    BY DEF Debt
  <2>2. \A x, i : <<x, i>> \in Debt(g) <=> x \in DOMAIN g /\ i \in 1..g[x]
    BY DEF Debt
  <2>3. \A x, i : <<x, i>> \in more <=> x = h /\ i \in 1..n
    OBVIOUS
  <2>0. \A i : ~(i \in 1..f[h])
    OBVIOUS
  <2> HIDE DEF more
  <2>4. \A x, i : <<x, i>> \in Debt(g) <=> <<x, i>> \in Debt(f) \cup more
    <3> SUFFICES ASSUME NEW x, NEW i
                 PROVE  <<x, i>> \in Debt(g) <=> <<x, i>> \in Debt(f) \/ <<x, i>> \in more
      OBVIOUS
    <3>1. CASE x = h
      BY <2>0, <2>1, <2>2, <2>3, <3>1
    <3>2. CASE x # h
      BY <2>1, <2>2, <2>3, <3>2
    <3> QED BY <3>1, <3>2
  <2>5. \A p \in Debt(f) \cup Debt(g) \cup more : \E x, i : p = <<x, i>>
    BY DEF Debt, more
  <2> QED BY <2>4, <2>5
<1>3. Debt(f) \cap more = {}
  <2>1. \A p \in Debt(f) : p[1] # h
    BY DEF Debt
  <2> QED BY <2>1
<1> HIDE DEF more
<1>4. ASSUME IsFiniteSet(Debt(g)) PROVE IsFiniteSet(Debt(f))
  BY <1>2, <1>4, FS_Subset
<1>5. ASSUME IsFiniteSet(Debt(f))
      PROVE  /\ IsFiniteSet(Debt(g)) /\ Cardinality(Debt(f)) \in Nat
             /\ Cardinality(Debt(g)) = Cardinality(Debt(f)) + n
  <2>1. /\ IsFiniteSet(Debt(f) \cup more)
        /\ Cardinality(Debt(f) \cup more)
             = Cardinality(Debt(f)) + Cardinality(more) - Cardinality(Debt(f) \cap more)
    BY <1>1, <1>5, FS_Union
  <2>2. Cardinality(Debt(f) \cap more) = 0
    BY <1>3, FS_EmptySet
  <2>3. Cardinality(Debt(f)) \in Nat
    BY <1>5, FS_CardinalityType
  <2> QED BY <1>1, <1>2, <2>1, <2>2, <2>3
<1> QED BY <1>4, <1>5

\* The debts of the state.
Dec == [h \in Debtors |-> DecOf(h)]
LEMMA OwedDebt == Owed = Debt(Dec) /\ Owed' = Debt(Dec')
BY DEF Owed, Debt, Dec

\* Sessions that are not in NM mode, in a session map.
Outside(s) == {t \in DOMAIN s : s[t].mode # "nm"}

LEMMA NonNmOutside ==
    /\ NonNm(DOMAIN sessions) = Outside(sessions)
    /\ NonNm(DOMAIN sessions)' = Outside(sessions')
BY DEF NonNm, Outside

LEMMA OutsideFinite ==
    ASSUME TypeOK
    PROVE  /\ IsFiniteSet(Outside(sessions)) /\ Cardinality(Outside(sessions)) \in Nat
<1>1. Outside(sessions) \subseteq DOMAIN sessions
  BY DEF Outside
<1> QED BY <1>1, FS_Subset, FS_CardinalityType DEF TypeOK, ManagerTypeOK

\* update_non_nm_count follows one session that changes its mode, or that is
\* counted as an NM one as it ends.
LEMMA OutsideTurn ==
    ASSUME TypeOK, NEW t \in DOMAIN sessions, NEW m \in Modes, NEW s,
           \A u : u # t => (u \in Outside(s) <=> u \in Outside(sessions)),
           t \in Outside(s) <=> m # "nm"
    PROVE  Cardinality(Outside(s)) = Cardinality(Outside(sessions)) + CountChange(sessions[t].mode, m)
<1>0. IsFiniteSet(Outside(sessions)) /\ Cardinality(Outside(sessions)) \in Nat
  BY OutsideFinite
<1>1. t \in Outside(sessions) <=> sessions[t].mode # "nm"
  BY DEF Outside
<1>2. CASE m # "nm"
  <2>1. Outside(s) = Outside(sessions) \cup {t}
    BY <1>2
  <2> QED BY <1>0, <1>1, <1>2, <2>1, FS_AddElement DEF CountChange
<1>3. CASE m = "nm"
  <2>1. Outside(s) = Outside(sessions) \ {t}
    BY <1>3
  <2>2. Cardinality(Outside(s)) = IF t \in Outside(sessions) THEN Cardinality(Outside(sessions)) - 1
                                   ELSE Cardinality(Outside(sessions))
    <3>1. Cardinality(Outside(sessions) \ {t}) = IF t \in Outside(sessions) THEN Cardinality(Outside(sessions)) - 1
                                                  ELSE Cardinality(Outside(sessions))
      BY <1>0, FS_RemoveElement
    <3> QED BY <2>1, <3>1
  <2> HIDE DEF Outside
  <2> QED BY <1>0, <1>1, <1>3, <2>2 DEF CountChange
<1> QED BY <1>2, <1>3

-----------------------------------------------------------------------------
(* The steps that touch the count *)

\* No debt changes.
SameDebts == \A h \in Debtors : DecOf(h)' = DecOf(h)

\* A session changes its mode, and the counter with it.
Turns(t, m) ==
    /\ t \in DOMAIN sessions /\ DOMAIN sessions' = DOMAIN sessions
    /\ \A u \in DOMAIN sessions \ {t} : sessions'[u] = sessions[u]
    /\ sessions'[t].mode = m
    /\ nonNm' = nonNm + CountChange(sessions[t].mode, m)

\* A thread takes the sessions of a device out and owes their decrement.
Borrows(h, d) ==
    /\ DetachLifetime(d) /\ nonNm' = nonNm
    /\ DecOf(h) = 0 /\ DecOf(h)' = Cardinality(NonNm(SessionsOn(d)))
    /\ \A x \in Debtors \ {h} : DecOf(x)' = DecOf(x)

\* A thread takes off what it owes.
Settles(h) ==
    /\ UNCHANGED sessions /\ nonNm' = nonNm - DecOf(h)
    /\ DecOf(h)' = 0
    /\ \A x \in Debtors \ {h} : DecOf(x)' = DecOf(x)

\* A step under the lock that keeps the counter in step with the sessions.
Counted ==
    \/ UNCHANGED <<sessions, nonNm>>
    \/ \E c \in Client : Registers(c) /\ UNCHANGED nonNm
    \/ \E c \in Client, t \in DOMAIN sessions : CloseSession(c, t)
    \/ \E t \in Token, m \in Modes : Turns(t, m)

CountSection ==
    \/ SameDebts /\ Counted
    \/ \E h \in Debtors, d \in Device : Borrows(h, d)
    \/ \E h \in Debtors : Settles(h)

\* What the thread of a debtor owes is a number.
LEMMA DecType ==
    ASSUME TypeOK, NEW h \in Debtors
    PROVE  DecOf(h) \in Nat
BY DEF TypeOK, ThreadTypeOK, LifetimeTypeOK, RelayRec, ReaderRec, Teardown, Debtors, DecOf

\* Each of these sections keeps the counter exact.
LEMMA SectionExact ==
    ASSUME IInv, TypeOK', IsFiniteSet(Owed), CountExact, CountSection
    PROVE  IsFiniteSet(Owed)' /\ CountExact'
<1> DEFINE out == Cardinality(Outside(sessions))  outN == Cardinality(Outside(sessions'))
           owed == Cardinality(Owed)  owedN == Cardinality(Owed')
           n == nonNm  nN == nonNm'
<1>0. TypeOK /\ TokenOnce /\ DOMAIN Dec = Debtors /\ DOMAIN Dec' = Debtors
  BY DEF IInv, Dec
<1>1. out \in Nat /\ owed \in Nat /\ n \in Int /\ nN \in Int /\ n = out + owed
  BY <1>0, OutsideFinite, NonNmOutside, FS_CardinalityType DEF TypeOK, ManagerTypeOK, CountExact
<1>2. outN \in Nat
  <2>1. Outside(sessions') \subseteq DOMAIN sessions' /\ IsFiniteSet(DOMAIN sessions')
    BY DEF Outside, TypeOK, ManagerTypeOK
  <2> QED BY <2>1, FS_Subset, FS_CardinalityType
<1>3. SUFFICES IsFiniteSet(Owed') /\ nN = outN + owedN
  BY NonNmOutside DEF CountExact
<1>4. ASSUME SameDebts, Counted PROVE IsFiniteSet(Owed') /\ nN = outN + owedN
  <2>1. Owed' = Owed
    BY <1>4 DEF SameDebts, Owed
  <2>2. CASE UNCHANGED <<sessions, nonNm>>
    BY <1>1, <2>1, <2>2
  <2>3. ASSUME NEW c \in Client, Registers(c), UNCHANGED nonNm PROVE nN = outN + owedN
    <3>1. client[c].tok \notin DOMAIN sessions
      BY <1>0, <2>3 DEF Registers, TokenOnce
    <3>2. Outside(sessions') = Outside(sessions)
      BY <2>3, <3>1 DEF Registers, Register, Put, Outside
    <3> QED BY <1>1, <2>1, <2>3, <3>2
  <2>4. ASSUME NEW c \in Client, NEW t \in DOMAIN sessions, CloseSession(c, t) PROVE nN = outN + owedN
    <3>1. /\ DOMAIN sessions' = DOMAIN sessions \ {t}
          /\ \A u \in DOMAIN sessions' : sessions'[u] = sessions[u]
          /\ nN = n + CountChange(sessions[t].mode, "nm")
      BY <2>4 DEF CloseSession, Drop, Restrict
    <3>2. /\ \A u : u # t => (u \in Outside(sessions') <=> u \in Outside(sessions))
          /\ t \notin Outside(sessions')
      BY <3>1 DEF Outside
    <3>3. outN = out + CountChange(sessions[t].mode, "nm")
      BY <1>0, <3>2, OutsideTurn DEF Modes
    <3> QED BY <1>1, <1>2, <2>1, <3>1, <3>3 DEF CountChange
  <2>5. ASSUME NEW t \in Token, NEW m \in Modes, Turns(t, m) PROVE nN = outN + owedN
    <3>1. t \in DOMAIN sessions /\ nN = n + CountChange(sessions[t].mode, m)
      BY <2>5 DEF Turns
    <3>2. /\ \A u : u # t => (u \in Outside(sessions') <=> u \in Outside(sessions))
          /\ t \in Outside(sessions') <=> m # "nm"
      BY <2>5 DEF Turns, Outside
    <3>3. outN = out + CountChange(sessions[t].mode, m)
      BY <1>0, <3>1, <3>2, OutsideTurn
    <3> QED BY <1>1, <1>2, <2>1, <3>1, <3>3 DEF CountChange
  <2> QED BY <1>4, <2>1, <2>2, <2>3, <2>4, <2>5 DEF Counted
<1>5. ASSUME NEW h \in Debtors, NEW d \in Device, Borrows(h, d)
      PROVE  IsFiniteSet(Owed') /\ nN = outN + owedN
  <2> DEFINE S == NonNm(SessionsOn(d))  k == Cardinality(S)
  <2>1. S \subseteq Outside(sessions) /\ Outside(sessions') = Outside(sessions) \ S
    BY <1>5 DEF Borrows, DetachLifetime, Drop, Restrict, Outside, NonNm, SessionsOn
  <2>2. k \in Nat /\ outN = out - k
    <3>1. IsFiniteSet(Outside(sessions)) /\ Outside(sessions) \cap S = S
      BY <1>0, <2>1, OutsideFinite
    <3>2. IsFiniteSet(S) /\ k \in Nat
      BY <2>1, <3>1, FS_Subset, FS_CardinalityType
    <3> HIDE DEF S
    <3>3. Cardinality(Outside(sessions) \ S)
            = Cardinality(Outside(sessions)) - Cardinality(Outside(sessions) \cap S)
      BY <3>1, FS_Difference
    <3> QED BY <2>1, <3>1, <3>2, <3>3
  <2>3. /\ Dec[h] = 0 /\ Dec'[h] = k /\ nN = n
        /\ \A x \in Debtors \ {h} : Dec'[x] = Dec[x]
    BY <1>5 DEF Borrows, Dec
  <2> HIDE DEF k, S
  <2>4. IsFiniteSet(Debt(Dec')) /\ Cardinality(Debt(Dec')) = Cardinality(Debt(Dec)) + k
    BY <1>0, <2>2, <2>3, OwedDebt, DebtAdds
  <2> QED BY <1>1, <1>2, <2>2, <2>3, <2>4, OwedDebt
<1>6. ASSUME NEW h \in Debtors, Settles(h)
      PROVE  IsFiniteSet(Owed') /\ nN = outN + owedN
  <2> DEFINE k == DecOf(h)
  <2>1. /\ Dec[h] = k /\ Dec'[h] = 0 /\ nN = n - k /\ outN = out
        /\ \A x \in Debtors \ {h} : Dec[x] = Dec'[x]
    BY <1>6 DEF Settles, Dec
  <2>2. k \in Nat
    BY <1>0, DecType
  <2> HIDE DEF k
  <2>3. /\ IsFiniteSet(Debt(Dec')) /\ Cardinality(Debt(Dec')) \in Nat
        /\ Cardinality(Debt(Dec)) = Cardinality(Debt(Dec')) + k
    BY <1>0, <2>1, <2>2, OwedDebt, DebtAdds
  <2> QED BY <1>1, <1>2, <2>1, <2>2, <2>3, OwedDebt
<1> QED BY <1>4, <1>5, <1>6 DEF CountSection

\* A step of one event task changes no other thread's debt.
LEMMA RelayDebts ==
    ASSUME NEW c \in Client, \A e \in Client \ {c} : relay'[e].td.dec = relay[e].td.dec,
           \A l \in Token : reader'[l].td.dec = reader[l].td.dec
    PROVE  /\ <<"relay", c>> \in Debtors
           /\ DecOf(<<"relay", c>>) = relay[c].td.dec
           /\ DecOf(<<"relay", c>>)' = relay'[c].td.dec
           /\ \A h \in Debtors \ {<<"relay", c>>} : DecOf(h)' = DecOf(h)
BY DEF Debtors, DecOf

\* Nor does a step of one reader.
LEMMA ReaderDebts ==
    ASSUME NEW l \in Token, \A e \in Client : relay'[e].td.dec = relay[e].td.dec,
           \A r \in Token \ {l} : reader'[r].td.dec = reader[r].td.dec
    PROVE  /\ <<"reader", l>> \in Debtors
           /\ DecOf(<<"reader", l>>) = reader[l].td.dec
           /\ DecOf(<<"reader", l>>)' = reader'[l].td.dec
           /\ \A h \in Debtors \ {<<"reader", l>>} : DecOf(h)' = DecOf(h)
BY DEF Debtors, DecOf

Accounts == CountSection /\ OwesLocal'

\* A step of neither an event task nor a reader.
LEMMA OthersAccount ==
    ASSUME OwesLocal, UNCHANGED <<relay, reader>>, Counted
    PROVE  Accounts
<1>1. SameDebts
  BY DEF SameDebts, DecOf
<1>2. OwesLocal'
  BY DEF OwesLocal
<1> QED BY <1>1, <1>2 DEF Accounts, CountSection

\* The event task borrows in force_close and settles after the lock.
LEMMA RelayAccounts ==
    ASSUME TypeOK, OwesLocal, NEW c \in Client, RelayStep(c)
    PROVE  Accounts
<1>0. relay \in [Client -> RelayRec] /\ NoTeardown.dec = 0 /\ relay[c].td \in Teardown
  BY DEF TypeOK, ThreadTypeOK, RelayRec, NoTeardown
<1>1. reader' = reader
  BY DEF RelayStep, RelayDisconnect, RelayPost, RelayStop, RelayJoin, lifeVars
<1>2. CASE RelayDisconnect(c)
  <2> DEFINE d == Head(events[c])  td == Taken(d)
             r == [pc |-> IF td = NoTeardown THEN "idle" ELSE "post", td |-> td]
  <2>1. d \in Device /\ DetachLifetime(d) /\ nonNm' = nonNm /\ relay[c].pc = "idle"
    BY <1>2 DEF TypeOK, ThreadTypeOK, IsMap, RelayDisconnect
  <2>2. relay' = [relay EXCEPT ![c] = r]
    BY <1>2 DEF RelayDisconnect
  <2>3. /\ r.td.dec = Cardinality(NonNm(SessionsOn(d)))
        /\ r.pc # "post" => r.td.dec = 0
    BY <1>0 DEF Taken
  <2> HIDE DEF d, td, r
  <2>4. relay'[c] = r /\ \A e \in Client \ {c} : relay'[e] = relay[e]
    BY <1>0, <2>2
  <2>5. OwesLocal'
    BY <1>1, <2>3, <2>4 DEF OwesLocal
  <2>6. Borrows(<<"relay", c>>, d) /\ <<"relay", c>> \in Debtors
    BY <1>1, <2>1, <2>3, <2>4, RelayDebts DEF Borrows, OwesLocal
  <2> QED BY <2>1, <2>5, <2>6 DEF Accounts, CountSection
<1>3. CASE RelayPost(c)
  <2> DEFINE r == IF relay[c].td.hold = None THEN [pc |-> "idle", td |-> NoTeardown]
                  ELSE [pc |-> "stopping", td |-> [NoTeardown EXCEPT !.hold = relay[c].td.hold]]
  <2>1. relay' = [relay EXCEPT ![c] = r] /\ nonNm' = nonNm - relay[c].td.dec /\ sessions' = sessions
    BY <1>3 DEF RelayPost
  <2>2. r.td.dec = 0
    BY DEF NoTeardown
  <2> HIDE DEF r
  <2>3. relay'[c] = r /\ \A e \in Client \ {c} : relay'[e] = relay[e]
    BY <1>0, <2>1
  <2>4. OwesLocal'
    BY <1>1, <2>2, <2>3 DEF OwesLocal
  <2>5. Settles(<<"relay", c>>) /\ <<"relay", c>> \in Debtors
    BY <1>1, <2>1, <2>2, <2>3, RelayDebts DEF Settles
  <2> QED BY <2>4, <2>5 DEF Accounts, CountSection
<1>4. CASE RelayStop(c) \/ RelayJoin(c)
  <2>1. /\ relay[c].pc # "post" /\ relay'[c].td.dec = 0 /\ UNCHANGED <<sessions, nonNm>>
        /\ \A e \in Client \ {c} : relay'[e] = relay[e]
    BY <1>0, <1>4 DEF RelayStop, RelayJoin, OwesLocal, RelayRec, mgrVars
  <2>2. OwesLocal'
    BY <1>1, <2>1 DEF OwesLocal
  <2>3. SameDebts
    BY <1>1, <2>1, RelayDebts DEF SameDebts, OwesLocal
  <2> QED BY <2>1, <2>2, <2>3 DEF Accounts, CountSection, Counted
<1> QED BY <1>2, <1>3, <1>4 DEF RelayStep

\* A reader that fails borrows as it takes the Entry and settles as it ends.
LEMMA ReaderAccounts ==
    ASSUME TypeOK, OwesLocal, NEW l \in Token, ReaderStep(l) \/ ReaderFail(l)
    PROVE  Accounts
<1>0. reader \in [Token -> ReaderRec] /\ NoTeardown.dec = 0
  BY DEF TypeOK, LifetimeTypeOK, NoTeardown
<1>1. relay' = relay
  BY DEF ReaderStep, ReaderStart, ReaderStop, ReaderDetach, ReaderOrphan, ReaderCleanup, ReaderFinish,
         ReaderFail, thrVars
<1>2. CASE ReaderStart(l) \/ ReaderStop(l) \/ ReaderOrphan(l) \/ ReaderFail(l) \/ ReaderCleanup(l)
  <2>1. UNCHANGED <<sessions, nonNm>>
    BY <1>2 DEF ReaderStart, ReaderStop, ReaderOrphan, ReaderFail, ReaderCleanup, mgrVars
  <2>2. /\ reader'[l].td = reader[l].td
        /\ reader'[l].pc \notin {"cleanup", "joining"} => reader[l].pc \notin {"cleanup", "joining"}
        /\ \A k \in Token \ {l} : reader'[k] = reader[k]
    BY <1>0, <1>2 DEF ReaderStart, ReaderStop, ReaderOrphan, ReaderFail, ReaderCleanup, SetReader, ReaderRec
  <2>3. SameDebts
    BY <1>1, <2>2, ReaderDebts DEF SameDebts
  <2>4. OwesLocal'
    BY <1>1, <2>2 DEF OwesLocal
  <2> QED BY <2>1, <2>3, <2>4 DEF Accounts, CountSection, Counted
<1>3. CASE ReaderDetach(l)
  <2> DEFINE d == lifeDev[l]
  <2>1. d \in Device /\ DetachLifetime(d) /\ nonNm' = nonNm /\ reader[l].pc = "failed"
    BY <1>3 DEF ReaderDetach, TypeOK, ManagerTypeOK, IsMap
  <2>2. /\ reader'[l].pc = "cleanup" /\ reader'[l].td.dec = Cardinality(NonNm(SessionsOn(d)))
        /\ \A k \in Token \ {l} : reader'[k] = reader[k]
    BY <1>0, <1>3 DEF ReaderDetach, Taken
  <2> HIDE DEF d
  <2>3. OwesLocal'
    BY <1>1, <2>2 DEF OwesLocal
  <2>4. Borrows(<<"reader", l>>, d) /\ <<"reader", l>> \in Debtors
    BY <1>1, <2>1, <2>2, ReaderDebts DEF Borrows, OwesLocal
  <2> QED BY <2>1, <2>3, <2>4 DEF Accounts, CountSection
<1>4. CASE ReaderFinish(l)
  <2>1. /\ reader'[l].td.dec = 0 /\ nonNm' = nonNm - reader[l].td.dec /\ sessions' = sessions
        /\ \A k \in Token \ {l} : reader'[k] = reader[k]
    BY <1>0, <1>4 DEF ReaderFinish
  <2>2. OwesLocal'
    BY <1>1, <2>1 DEF OwesLocal
  <2>3. Settles(<<"reader", l>>) /\ <<"reader", l>> \in Debtors
    BY <1>1, <2>1, ReaderDebts DEF Settles
  <2> QED BY <2>2, <2>3 DEF Accounts, CountSection
<1> QED BY <1>2, <1>3, <1>4 DEF ReaderStep

\* The steps that turn one session to another mode.
LEMMA TurnsStep ==
    ASSUME TypeOK
    PROVE  /\ \A c \in Client, d \in Device, t \in Token, m \in AskModes :
                SetDataplaneMode(c, d, t, m) => Turns(t, m) /\ m \in Modes
           /\ \A k \in Conn : ConnConnect(k) => Turns(conn[k].tok, conn[k].kind)
           /\ \A k \in Conn : ConnDisconnect(k) => Turns(conn[k].tok, "nm")
<1>0. IsMap(sessions, Token, SessionRec) /\ conn \in [Conn -> ConnRec]
  BY DEF TypeOK, ManagerTypeOK, OutsideTypeOK
<1>1. ASSUME NEW c \in Client, NEW d \in Device, NEW t \in Token, NEW m \in AskModes,
             SetDataplaneMode(c, d, t, m)
      PROVE  Turns(t, m) /\ m \in Modes
  BY <1>0, <1>1, ModeAssumption DEF SetDataplaneMode, MayClose, Turns, IsMap, SessionRec, Modes
<1>2. ASSUME NEW k \in Conn, ConnConnect(k) PROVE Turns(conn[k].tok, conn[k].kind)
  <2> DEFINE t == conn[k].tok  kind == conn[k].kind
             r == [sessions[t] EXCEPT !.mode = kind, !.gen[kind] = sessions[t].gen[kind] + 1]
  <2>1. t \in DOMAIN sessions /\ nonNm' = nonNm + CountChange(sessions[t].mode, kind)
    BY <1>2 DEF ConnConnect
  <2>2. r.mode = kind /\ sessions' = [sessions EXCEPT ![t] = r]
    BY <1>0, <1>2, <2>1 DEF ConnConnect, IsMap, SessionRec
  <2> HIDE DEF r, t, kind
  <2>3. Turns(t, kind)
    BY <1>0, <2>1, <2>2 DEF Turns, IsMap
  <2> QED BY <2>3 DEF t, kind
<1>3. ASSUME NEW k \in Conn, ConnDisconnect(k) PROVE Turns(conn[k].tok, "nm")
  BY <1>0, <1>3 DEF ConnDisconnect, ConnCurrent, Turns, IsMap, SessionRec
<1> QED BY <1>1, <1>2, <1>3

\* A request loop, too, is an other's step: what open_physical spawns has read
\* nothing yet.
LEMMA LoopAccounts ==
    ASSUME TypeOK, OwesLocal, OpeningPhase, NEW c \in Client, LoopStep(c) \/ ClientInput(c)
    PROVE  Accounts
<1>1. CASE OpenBuild(c)
  <2> DEFINE t == client[c].tok
  <2>1. t \in Token /\ reader[t].pc = "none" /\ UNCHANGED <<relay, sessions, nonNm>>
    BY <1>1 DEF OpenBuild, TypeOK, LocalsOK, OpeningPhase, Pending, mgrVars
  <2>2. reader'[t].td = reader[t].td /\ \A l \in Token \ {t} : reader'[l] = reader[l]
    BY <1>1, <2>1 DEF OpenBuild, TypeOK, LifetimeTypeOK, ReaderRec
  <2> HIDE DEF t
  <2>3. SameDebts
    BY <2>1, <2>2, ReaderDebts DEF SameDebts
  <2>4. OwesLocal'
    BY <2>1, <2>2 DEF OwesLocal
  <2> QED BY <2>1, <2>3, <2>4 DEF Accounts, CountSection, Counted
<1>2. CASE OpenJoin(c) \/ WaiterJoin(c) \/ OpenPublish(c)
  <2>1. Registers(c) /\ UNCHANGED <<relay, reader, nonNm>>
    BY <1>2 DEF OpenJoin, WaiterJoin, OpenPublish, Registers, Pending, lifeVars
  <2> QED BY <2>1, OthersAccount DEF Counted
<1>3. CASE \/ OpenWait(c) \/ OpenReserve(c) \/ WaiterRetry(c) \/ WaiterFail(c) \/ PhysicalOpen(c)
           \/ PhysicalOpenFail(c) \/ OpenAbandon(c) \/ OpenDiscard(c)
           \/ OpenRelease(c) \/ OpenFinish(c) \/ OpenNotify(c)
  <2>1. UNCHANGED <<relay, reader, sessions, nonNm>>
    BY <1>3 DEF OpenWait, OpenReserve, WaiterRetry, WaiterFail, PhysicalOpen, PhysicalOpenFail,
                OpenAbandon, OpenDiscard, OpenRelease, OpenFinish, OpenNotify, mgrVars, lifeVars
  <2> QED BY <2>1, OthersAccount DEF Counted
<1>4. ASSUME NEW t \in Token, DrainClose(c, t) \/ \E d \in Device : Close(c, d, t) PROVE Accounts
  <2>1. CloseSession(c, t) /\ t \in DOMAIN sessions /\ UNCHANGED <<relay, reader>>
    BY <1>4 DEF DrainClose, Close, MayClose
  <2> QED BY <2>1, OthersAccount DEF Counted
<1>5. ASSUME \/ ClientStop(c) \/ ClientJoin(c) \/ ClientGone(c) \/ ClientConnect(c) \/ ClientEof(c)
             \/ \E t \in Token : DrainSkip(c, t) \/ \E d \in Device : OpenCall(c, d, t)
      PROVE  Accounts
  <2>1. UNCHANGED <<relay, reader, sessions, nonNm>>
    BY <1>5 DEF ClientStop, ClientJoin, ClientGone, ClientConnect, ClientEof, DrainSkip, OpenCall,
                mgrVars, lifeVars
  <2> QED BY <2>1, OthersAccount DEF Counted
<1>6. ASSUME NEW d \in Device, NEW t \in Token, NEW m \in AskModes, SetDataplaneMode(c, d, t, m)
      PROVE  Accounts
  <2>1. UNCHANGED <<relay, reader>> /\ Turns(t, m) /\ m \in Modes
    BY <1>6, TurnsStep DEF SetDataplaneMode, thrVars, lifeVars
  <2> QED BY <2>1, OthersAccount DEF Counted
<1>7. CASE LoopStep(c)
  BY <1>1, <1>2, <1>3, <1>4, <1>5, <1>7 DEF LoopStep, OpenStep, DrainStep
<1>8. CASE ClientInput(c)
  BY <1>4, <1>5, <1>6, <1>8 DEF ClientInput
<1> QED BY <1>7, <1>8

\* A connection task turns its session to its own mode or back to NM.
LEMMA ConnAccounts ==
    ASSUME TypeOK, OwesLocal, NEW k \in Conn,
           \/ \E t \in Token, kind \in Kinds : ConnAuth(k, t, kind)
           \/ ConnConnect(k) \/ ConnRefused(k) \/ ConnTask(k) \/ ConnEnd(k)
    PROVE  Accounts
<1>1. UNCHANGED <<relay, reader>>
  BY DEF ConnAuth, ConnConnect, ConnRefused, ConnTask, ConnServe,
         ConnStop, ConnEnd, ConnDisconnect, ConnDisconnectStale, thrVars, lifeVars
<1>2. conn[k].kind \in Modes /\ "nm" \in Modes /\ DOMAIN sessions \subseteq Token
  BY DEF TypeOK, OutsideTypeOK, ManagerTypeOK, IsMap, ConnRec, Kinds, Modes
<1>3. CASE ConnConnect(k)
  <2>1. Turns(conn[k].tok, conn[k].kind) /\ conn[k].tok \in Token
    BY <1>2, <1>3, TurnsStep DEF Turns
  <2> QED BY <1>1, <1>2, <2>1, OthersAccount DEF Counted
<1>4. CASE ConnDisconnect(k)
  <2>1. Turns(conn[k].tok, "nm") /\ conn[k].tok \in Token
    BY <1>2, <1>4, TurnsStep DEF Turns
  <2> QED BY <1>1, <1>2, <2>1, OthersAccount DEF Counted
<1>5. CASE \/ \E t \in Token, kind \in Kinds : ConnAuth(k, t, kind)
           \/ ConnRefused(k) \/ ConnTask(k) \/ ConnDisconnectStale(k)
  <2>1. UNCHANGED <<sessions, nonNm>>
    BY <1>5 DEF ConnAuth, ConnRefused, ConnTask, ConnServe, ConnStop, ConnDisconnectStale, mgrVars
  <2> QED BY <1>1, <2>1, OthersAccount DEF Counted
<1> QED BY <1>3, <1>4, <1>5 DEF ConnEnd

\* Every step of the daemon is one of the sections above.
LEMMA AccountsStep ==
    ASSUME TypeOK, OwesLocal, OpeningPhase, [Next]_vars
    PROVE  Accounts
<1>1. ASSUME \/ UNCHANGED vars
             \/ \E c \in Client : EventLagged(c)
             \/ \E l \in Token : WorkerExit(l)
             \/ \E d \in Device : Unplug(d) \/ Replug(d) \/ HotplugRemove(d)
      PROVE  Accounts
  <2>1. UNCHANGED <<relay, reader, sessions, nonNm>>
    BY <1>1 DEF vars, EventLagged, WorkerExit, Unplug, Replug, HotplugRemove, mgrVars, thrVars, lifeVars
  <2> QED BY <2>1, OthersAccount DEF Counted
<1> QED BY <1>1, LoopAccounts, RelayAccounts, ReaderAccounts, ConnAccounts DEF Next

\* LifetimeInv with the account of the counter.
CountInv == LifetimeInv /\ OwesLocal /\ IsFiniteSet(Owed) /\ CountExact

\* At first nothing is counted and nothing owed.
LEMMA InitCount == Init => CountInv
<1> SUFFICES ASSUME Init PROVE CountInv
  OBVIOUS
<1>1. \A h \in Debtors : DecOf(h) = 0
  BY DEF Init, NoTeardown, Debtors, DecOf
<1>2. Owed = {} /\ NonNm(DOMAIN sessions) = {}
  BY <1>1 DEF Owed, Init, NonNm
<1>3. OwesLocal
  BY DEF Init, NoTeardown, OwesLocal
<1>4. IsFiniteSet(Owed) /\ CountExact
  <2>1. nonNm = 0 /\ Cardinality({}) = 0 /\ IsFiniteSet({})
    BY FS_EmptySet DEF Init
  <2> QED BY <1>2, <2>1 DEF CountExact
<1> QED BY <1>3, <1>4, InitLifetime DEF CountInv

\* Every step preserves it.
LEMMA CountInvStep == CountInv /\ [Next]_vars => CountInv'
<1> SUFFICES ASSUME CountInv, [Next]_vars PROVE CountInv'
  OBVIOUS
<1>1. LifetimeInv' /\ IInv /\ TypeOK /\ TypeOK' /\ OpeningPhase
  BY LifetimeInvStep DEF CountInv, LifetimeInv, IInv
<1>2. CountSection /\ OwesLocal'
  BY <1>1, AccountsStep DEF CountInv, Accounts
<1> QED BY <1>1, <1>2, SectionExact DEF CountInv

\* non_nm_sessions is the number of WS/WT sessions plus what teardowns have yet
\* to take off (force_close 1733-1736, the reader 1272-1274), so it never
\* undercounts and never underflows.
THEOREM CountCorrect == Spec => []CountExact
<1>1. CountInv => CountExact
  BY DEF CountInv
<1> QED BY <1>1, InitCount, CountInvStep, PTL DEF Spec

\* Readers that decide by the counter whether to broadcast input never skip it
\* while a WS/WT session lives (the load at 1311).
THEOREM NeverUndercounts == Spec => [](nonNm \in Nat /\ nonNm >= Cardinality(NonNm(DOMAIN sessions)))
<1>1. CountInv => nonNm \in Nat /\ nonNm >= Cardinality(NonNm(DOMAIN sessions))
  <2> SUFFICES ASSUME CountInv PROVE nonNm \in Nat /\ nonNm >= Cardinality(NonNm(DOMAIN sessions))
    OBVIOUS
  <2>1. Cardinality(NonNm(DOMAIN sessions)) \in Nat
    BY OutsideFinite, NonNmOutside DEF CountInv, LifetimeInv, IInv
  <2>2. Cardinality(Owed) \in Nat
    BY FS_CardinalityType DEF CountInv
  <2> QED BY <2>1, <2>2 DEF CountInv, CountExact
<1> QED BY <1>1, InitCount, CountInvStep, PTL DEF Spec
=============================================================================
