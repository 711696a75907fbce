----------------------------- MODULE FramePolicy ------------------------------
(***************************************************************************)
(* The "hid" permissions policy of the documents of a tab: the background  *)
(* records it from the headers of each navigation (background/             *)
(* webrequest.js), before the document has an id, and resolves it for the  *)
(* document that asks (background/messages.js), whose request the bridge   *)
(* of the tab makes for it (content/isolated/bridge.js).  Frame 0 is the   *)
(* top frame of the tab, frame f + 1 is in the document of frame f.        *)
(* An allowlist is the set of what it lists; "self" stands for the         *)
(* document's origin until it is resolved.                                 *)
(***************************************************************************)
EXTENDS Naturals, FiniteSets

CONSTANTS Depth,   \* frames 0..Depth
          Origin,
          Headers, \* what the headers of a document declare: sets of values
          MaxLoads \* navigations of the tab's frames

ASSUME PolicyAssumption ==
  /\ Depth \in Nat /\ MaxLoads \in Nat
  /\ Origin \cap {"self", "*", "malformed"} = {}
  /\ Headers \subseteq SUBSET SUBSET (Origin \cup {"self", "*", "malformed"})

VARIABLES doc,   \* the document of each frame; its id is the number of its load
          nav,   \* the navigation under way in each frame
          store, \* permissionsPolicy, by frame and document; 0 for one to come
          deleg, \* frameDelegations
          asks,  \* handleGetPolicyRequest calls between their awaits
          ans,   \* the last answer each frame's document got
          loads

vars == <<doc, nav, store, deleg, asks, ans, loads>>

Frame == 0..Depth
None == [id |-> 0]
NoNav == [st |-> "none"]

Init ==
  /\ doc = [f \in Frame |-> None] /\ nav = [f \in Frame |-> NoNav]
  /\ store = <<>> /\ deleg = <<>> /\ asks = {} /\ ans = [f \in Frame |-> "unknown"] /\ loads = 0

Without(m, keys) == [k \in DOMAIN m \ keys |-> m[k]]
With(m, key, v) == [k \in DOMAIN m \cup {key} |-> IF k = key THEN v ELSE m[k]]

---------------------------------------------------------------------------
(* Allowlists *)

All == Origin \cup {"self"}
parseHidPolicy(value) ==
  IF "malformed" \in value THEN {} ELSE IF "*" \in value THEN All ELSE value

(* Several declarations: each must list an origin, "self" as it is written *)
intersectAllowlists(values) == {o \in All : \A v \in values : o \in parseHidPolicy(v)}
Self(headers, origin) ==
  {IF o = "self" THEN origin ELSE o : o \in intersectAllowlists(headers)}

---------------------------------------------------------------------------
(* Navigation *)

(* Faulty variant: the record of a document yet to come is not the frame's. *)
MutKeepPending(m, f) == {k \in DOMAIN m : k[2] # 0 /\ (f = 0 \/ k[1] = f)}

(* clearPolicyTab for a top document, clearPolicyFrame for another *)
Cleared(m, f) == {k \in DOMAIN m : f = 0 \/ k[1] = f}

(* onBeforeRequest: the document before it may live on for long, or stay.  *)
(* The allow attribute counts for the frames of the top document only.     *)
BeforeRequest(f) ==
  /\ nav[f] = NoNav /\ loads < MaxLoads /\ \A g \in Frame : g + 1 = f => doc[g] # None
  /\ loads' = loads + 1
  /\ \E o \in Origin, h \in Headers, allow \in IF f = 1 THEN BOOLEAN ELSE {TRUE} :
       nav' = [nav EXCEPT ![f] = [st |-> "sent", id |-> loads + 1, origin |-> o, headers |-> h,
                                  allow |-> allow]]
  /\ store' = Without(store, Cleared(store, f))
  /\ deleg' = Without(deleg, Cleared(deleg, f))
  /\ doc' = [doc EXCEPT ![f] = IF @ = None THEN @ ELSE [@ EXCEPT !.touched = TRUE]]
  /\ UNCHANGED <<asks, ans>>

(* Faulty variant: it looks for the parent's id only. *)
MutExactParent(f, id) == store

(* The parent's record, which may still wait for its document's id *)
Adopted(f, id) ==
  IF <<f, id>> \in DOMAIN store \/ <<f, 0>> \notin DOMAIN store THEN store
  ELSE With(Without(store, {<<f, 0>>}), <<f, id>>, store[<<f, 0>>])

(* onHeadersReceived *)
storePermissionsPolicy(f) ==
  LET n == nav[f]
      self == Self(n.headers, n.origin)
      parent == IF f = 0 THEN <<>> ELSE <<f - 1, doc[f - 1].id>>
      known == IF f = 0 \/ self = {} THEN store ELSE Adopted(f - 1, doc[f - 1].id)
      inherited == IF parent \in DOMAIN known THEN known[parent].effective ELSE Origin
  IN  /\ n.st = "sent" /\ nav' = [nav EXCEPT ![f].st = "headers"]
      /\ store' = With(known, <<f, 0>>,
           [origin |-> n.origin, parent |-> parent,
            effective |-> IF n.origin \in inherited THEN self ELSE {}])
      /\ UNCHANGED <<doc, deleg, asks, ans, loads>>

(* The document is replaced: those of the frames in it are gone.  A bridge *)
(* is that of a top document, and what it has sent last may still arrive.  *)
Commit(f) ==
  LET n == nav[f]
  IN  /\ n.st = "headers"
      /\ doc' = [g \in Frame |-> IF g < f THEN doc[g] ELSE IF g > f THEN None
                   ELSE [id |-> n.id, origin |-> n.origin, headers |-> n.headers,
                         allow |-> n.allow, touched |-> FALSE]]
      /\ nav' = [g \in Frame |-> IF g < f THEN nav[g] ELSE NoNav]
      /\ ans' = [g \in Frame |-> IF g < f THEN ans[g] ELSE "unknown"]
      /\ IF f > 0 THEN UNCHANGED asks
         ELSE asks' \in {{}} \cup {{[k EXCEPT !.orphan = TRUE]} : k \in asks}
      /\ UNCHANGED <<store, deleg, loads>>

(* A download, an answer without a document, a stopped navigation *)
Abort(f) ==
  /\ nav[f] # NoNav /\ nav' = [nav EXCEPT ![f] = NoNav]
  /\ UNCHANGED <<doc, store, deleg, asks, ans, loads>>

---------------------------------------------------------------------------
(* A document asks *)

(* The bridge looks for the frame's element in its own, the top document.  *)
hasHidDelegation(f) == f = 0 \/ (f = 1 /\ doc[f].allow)

handleGetPolicyRequest(f) ==
  /\ doc[f] # None /\ \A k \in asks : <<k.f, k.id>> # <<f, doc[f].id>>
  /\ asks' = asks \cup {[f |-> f, id |-> doc[f].id, origin |-> doc[f].origin, st |-> "set",
                         delegated |-> hasHidDelegation(f), orphan |-> FALSE]}
  /\ UNCHANGED <<doc, nav, store, deleg, ans, loads>>

(* policyEntryForDocument: a record that waits for its document's id is    *)
(* taken by a document of its origin.                                      *)
Entries(k) ==
  IF <<k.f, k.id>> \notin DOMAIN store /\ <<k.f, 0>> \in DOMAIN store
     /\ store[<<k.f, 0>>].origin = k.origin
    THEN Adopted(k.f, k.id) ELSE store
Entry(k) ==
  {e \in {Entries(k)[x] : x \in DOMAIN Entries(k) \cap {<<k.f, k.id>>}} : e.origin = k.origin}

Reply(k, answer) ==
  /\ asks' = asks \ {k}
  /\ ans' = IF ~k.orphan /\ doc[k.f].id = k.id THEN [ans EXCEPT ![k.f] = answer] ELSE ans

handleSetFrameDelegation(k) ==
  /\ k.st = "set" /\ store' = Entries(k)
  /\ IF Entry(k) = {} THEN Reply(k, "none") /\ UNCHANGED deleg
     ELSE /\ deleg' = With(deleg, <<k.f, k.id>>, k.delegated)
          /\ asks' = (asks \ {k}) \cup (IF k.orphan THEN {} ELSE {[k EXCEPT !.st = "get"]})
          /\ UNCHANGED ans
  /\ UNCHANGED <<doc, nav, loads>>

(* policyForRequest *)
Permits(k, e) ==
  /\ e.origin \in e.effective
  /\ e.parent # <<>> =>
       /\ e.parent \in DOMAIN store
       /\ store[e.parent].origin = e.origin
          \/ (<<k.f, k.id>> \in DOMAIN deleg /\ deleg[<<k.f, k.id>>])

handleGetPolicy(k) ==
  /\ k.st = "get" /\ store' = Entries(k)
  /\ Reply(k, IF \E e \in Entry(k) : Permits(k, e) THEN "allowed" ELSE "none")
  /\ UNCHANGED <<doc, nav, deleg, loads>>

Next ==
  \/ \E f \in Frame : \/ BeforeRequest(f) \/ storePermissionsPolicy(f) \/ Commit(f) \/ Abort(f)
                      \/ handleGetPolicyRequest(f)
  \/ \E k \in asks : handleSetFrameDelegation(k) \/ handleGetPolicy(k)

Spec == Init /\ [][Next]_vars

---------------------------------------------------------------------------
Loaded == Nat \ {0}
Document == [id : Loaded, origin : Origin, headers : Headers, allow : BOOLEAN, touched : BOOLEAN]
Navigation == [st : {"sent", "headers"}, id : Loaded, origin : Origin, headers : Headers,
               allow : BOOLEAN]
Question == [f : Frame, id : Loaded, origin : Origin, st : {"set", "get"},
             delegated : BOOLEAN, orphan : BOOLEAN]

(* The documents and navigations of a tab have ids from 1 on, and the maps *)
(* of the background are keyed by frame and id.                            *)
TypeOK ==
  /\ doc \in [Frame -> Document \cup {None}]
  /\ nav \in [Frame -> Navigation \cup {NoNav}]
  /\ DOMAIN store \subseteq Frame \X Nat
  /\ DOMAIN deleg \subseteq Frame \X Loaded
  /\ asks \subseteq Question
  /\ ans \in [Frame -> {"unknown", "allowed", "none"}]
  /\ loads \in Nat

(* However navigations start, fail and replace documents, and whichever    *)
(* document takes the record of a load, the background keeps at most one   *)
(* record and one delegation per frame: the maps do not grow with loads.   *)
OneRecordPerFrame ==
  \A m \in {DOMAIN store, DOMAIN deleg} : \A x, y \in m : x[1] = y[1] => x = y

(* What makes it so: a delegation is recorded with a record of its frame   *)
(* only (handleSetFrameDelegation), and from the request of a navigation   *)
(* to its headers the frame has no record that could be a second one.      *)
RecordInv ==
  /\ TypeOK /\ OneRecordPerFrame
  /\ DOMAIN deleg \subseteq DOMAIN store
  /\ \A f \in Frame : nav[f].st = "sent" => \A x \in DOMAIN store : x[1] # f

(* The reference: every declaration of a document lists the origin *)
Lists(f, o) == \A v \in doc[f].headers :
                 "malformed" \notin v /\ (o \in v \/ "*" \in v \/ ("self" \in v /\ o = doc[f].origin))

(* The document of a frame may use the feature, by its own declarations,   *)
(* those of the documents that frames top..f are in, and the delegation.   *)
AllowedFrom(top, f) ==
  /\ Lists(f, doc[f].origin)
  /\ \A g \in top..f : g > 0 => Lists(g - 1, doc[g].origin)
  /\ f > 0 => doc[f].origin = doc[f - 1].origin \/ hasHidDelegation(f)

Untouched(f) == \A g \in 0..f : doc[g] # None /\ ~doc[g].touched
Opened == {f \in Frame : doc[f] # None}

(* No declaration writes out the origin that another calls "self": the two *)
(* share no member that intersectAllowlists finds.                         *)
Unmixed(f) ==
  \/ \A v \in doc[f].headers : "self" \notin v
  \/ \A v \in doc[f].headers : doc[f].origin \notin v

(* A document none of whose frames starts a navigation is allowed only if  *)
(* its own declarations, those of the document it is in, and the           *)
(* delegation permit it.  While no frame was navigated before, it is       *)
(* allowed only if the whole chain of documents permits it, and is allowed *)
(* what they permit in declarations that spell each origin alike.          *)
AnswerIsPolicy ==
  \A f \in Frame : Untouched(f) =>
    /\ ans[f] = "allowed" => AllowedFrom(f, f)
    /\ ans[f] # "unknown" /\ loads = Cardinality(Opened) =>
         /\ ans[f] = "allowed" => AllowedFrom(1, f)
         /\ AllowedFrom(1, f) /\ (\A g \in 0..f : Unmixed(g)) => ans[f] = "allowed"

(* "Deny dominates" (tests/browser/permissions-policy.spec.ts:221): no     *)
(* document is allowed what an ancestor's hid=() denies.  The code loses   *)
(* the record of an ancestor to the document before it, when that one asks *)
(* after the headers of its successor, and a frame without a known parent  *)
(* inherits everything.                                                    *)
DenyDominates ==
  \A f \in Frame : Untouched(f) /\ ans[f] = "allowed" =>
    \A g \in Frame : g < f => {} \notin doc[g].headers
=============================================================================
