----------------------------- MODULE HidSessions -----------------------------
(***************************************************************************)
(* What the daemon's DeviceManager promises about logical sessions and     *)
(* physical lifetimes, with every lock, thread and message left out.       *)
(*                                                                         *)
(* A device is held open exactly while some session uses it.  A session    *)
(* begins either together with the lifetime of the device or on a lifetime *)
(* that is already there; it ends alone when its owner ends it, or         *)
(* together with every other session of the device when the lifetime is    *)
(* torn down.  Tokens are never reused.                                    *)
(***************************************************************************)
CONSTANTS Client, Device, Token

VARIABLES holder,   \* open device -> the token whose open created the lifetime
          owner,    \* live session token -> the client that opened it
          target,   \* live session token -> the device it is on
          spent     \* tokens that were given to a session at some time

vars == <<holder, owner, target, spent>>

live == DOMAIN owner
On(d) == {t \in live : target[t] = d}

Init == /\ holder = [d \in {} |-> d]
        /\ owner  = [t \in {} |-> t]
        /\ target = [t \in {} |-> t]
        /\ spent  = {}

Keep(S) == /\ owner'  = [t \in S |-> owner[t]]
           /\ target' = [t \in S |-> target[t]]

Add(t, c, d) ==
    /\ t \notin spent
    /\ owner'  = [u \in live \cup {t} |-> IF u = t THEN c ELSE owner[u]]
    /\ target' = [u \in live \cup {t} |-> IF u = t THEN d ELSE target[u]]
    /\ spent' = spent \cup {t}

\* The first session of a device: the lifetime and the session begin together.
Begin(t, c, d) ==
    /\ d \notin DOMAIN holder
    /\ Add(t, c, d)
    /\ holder' = [e \in DOMAIN holder \cup {d} |-> IF e = d THEN t ELSE holder[e]]

\* A further session on a device that is already open.
Join(t, c, d) ==
    /\ d \in DOMAIN holder
    /\ Add(t, c, d)
    /\ UNCHANGED holder

\* One session ends; the device is let go when it was the last one on it.
End(t) ==
    /\ t \in live
    /\ Keep(live \ {t})
    /\ holder' = [d \in {e \in DOMAIN holder : e # target[t] \/ On(e) # {t}} |-> holder[d]]
    /\ UNCHANGED spent

\* The lifetime of a device ends, and with it all of its sessions.
Teardown(d) ==
    /\ d \in DOMAIN holder
    /\ Keep(live \ On(d))
    /\ holder' = [e \in DOMAIN holder \ {d} |-> holder[e]]
    /\ UNCHANGED spent

Next == \/ \E t \in Token, c \in Client, d \in Device : Begin(t, c, d) \/ Join(t, c, d)
        \/ \E t \in Token : End(t)
        \/ \E d \in Device : Teardown(d)

Spec == Init /\ [][Next]_vars

\* A device is open exactly while it has a session.
HeldIffUsed == DOMAIN holder = {target[t] : t \in live}
=============================================================================
