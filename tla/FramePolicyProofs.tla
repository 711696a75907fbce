-------------------------- MODULE FramePolicyProofs ---------------------------
(***************************************************************************)
(* Theorems about FramePolicy, for every number of nested frames and of    *)
(* navigations, all origins and all declarations of the headers.           *)
(***************************************************************************)
EXTENDS FramePolicy, FiniteSetTheorems, TLAPS

(* One key per frame, of one map *)
OneKey(D) == \A x, y \in D : x[1] = y[1] => x = y

(* OneRecordPerFrame says it of the two maps. *)
LEMMA OneRecordIsOneKey ==
  OneRecordPerFrame <=> OneKey(DOMAIN store) /\ OneKey(DOMAIN deleg)
BY DEF OneRecordPerFrame, OneKey

---------------------------------------------------------------------------
(* Maps *)

(* Map.delete and Map.set: the keys they leave *)
LEMMA WithoutDomain ==
  ASSUME NEW m, NEW keys PROVE DOMAIN Without(m, keys) = DOMAIN m \ keys
BY DEF Without

LEMMA WithDomain ==
  ASSUME NEW m, NEW key, NEW v PROVE DOMAIN With(m, key, v) = DOMAIN m \cup {key}
BY DEF With

(* A record that waits for its document's id takes it: its key is replaced *)
(* by another of the same frame, and no other key changes.                 *)
LEMMA AdoptedDomain ==
  ASSUME NEW f, NEW id
  PROVE  \/ Adopted(f, id) = store
         \/ /\ <<f, 0>> \in DOMAIN store
            /\ DOMAIN Adopted(f, id) = (DOMAIN store \ {<<f, 0>>}) \cup {<<f, id>>}
<1> DEFINE rest == Without(store, {<<f, 0>>})
<1>1. DOMAIN rest = DOMAIN store \ {<<f, 0>>}
  BY WithoutDomain
<1>2. DOMAIN With(rest, <<f, id>>, store[<<f, 0>>]) = DOMAIN rest \cup {<<f, id>>}
  BY WithDomain
<1>3. CASE <<f, id>> \in DOMAIN store \/ <<f, 0>> \notin DOMAIN store
  BY <1>3 DEF Adopted
<1>4. CASE ~(<<f, id>> \in DOMAIN store \/ <<f, 0>> \notin DOMAIN store)
  <2>1. Adopted(f, id) = With(rest, <<f, id>>, store[<<f, 0>>])
    BY <1>4 DEF Adopted
  <2> QED BY <1>1, <1>2, <1>4, <2>1
<1> QED BY <1>3, <1>4

(* So the frames that have a record and their number of records stay, and  *)
(* what a delegation was recorded for keeps its record.                    *)
LEMMA AdoptedKeys ==
  ASSUME RecordInv, NEW f \in Frame, NEW id \in Nat
  PROVE  LET D == DOMAIN Adopted(f, id)
         IN  /\ D \subseteq Frame \X Nat /\ OneKey(D) /\ DOMAIN deleg \subseteq D
             /\ \A x \in D : \E y \in DOMAIN store : y[1] = x[1]
<1> DEFINE D == DOMAIN Adopted(f, id)
<1>1. CASE D = DOMAIN store
  BY <1>1, OneRecordIsOneKey DEF RecordInv, TypeOK
<1>2. CASE <<f, 0>> \in DOMAIN store /\ D = (DOMAIN store \ {<<f, 0>>}) \cup {<<f, id>>}
  <2>1. D \subseteq Frame \X Nat
    BY <1>2 DEF RecordInv, TypeOK
  <2>2. \A x \in DOMAIN store \ {<<f, 0>>} : x[1] # f
    BY <1>2, OneRecordIsOneKey DEF RecordInv, OneKey
  <2>3. OneKey(D)
    BY <1>2, <2>2, OneRecordIsOneKey DEF RecordInv, OneKey
  <2>4. <<f, 0>> \notin DOMAIN deleg
    BY DEF RecordInv, TypeOK, Loaded
  <2>5. DOMAIN deleg \subseteq D
    BY <1>2, <2>4 DEF RecordInv
  <2>6. \A x \in D : \E y \in DOMAIN store : y[1] = x[1]
    BY <1>2
  <2> QED BY <2>1, <2>3, <2>5, <2>6
<1> QED BY <1>1, <1>2, AdoptedDomain

(* policyEntryForDocument adopts at most. *)
LEMMA EntriesKeys ==
  ASSUME RecordInv, NEW k \in Question
  PROVE  LET D == DOMAIN Entries(k)
         IN  /\ D \subseteq Frame \X Nat /\ OneKey(D) /\ DOMAIN deleg \subseteq D
             /\ \A x \in D : \E y \in DOMAIN store : y[1] = x[1]
<1>1. k.f \in Frame /\ k.id \in Nat
  BY DEF Question, Loaded
<1>2. CASE Entries(k) = Adopted(k.f, k.id)
  BY <1>1, <1>2, AdoptedKeys
<1>3. CASE Entries(k) = store
  BY <1>3, OneRecordIsOneKey DEF RecordInv, TypeOK
<1> QED BY <1>2, <1>3 DEF Entries

(* An entry that is found is one of the frame and document that ask. *)
LEMMA EntryIsKey ==
  ASSUME NEW k, Entry(k) # {} PROVE <<k.f, k.id>> \in DOMAIN Entries(k)
BY DEF Entry

---------------------------------------------------------------------------
(* The invariant *)

LEMMA InitRecord == Init => RecordInv
<1> SUFFICES ASSUME Init PROVE RecordInv
  OBVIOUS
<1>1. DOMAIN store = {} /\ DOMAIN deleg = {}
  BY DEF Init
<1>2. TypeOK
  BY <1>1 DEF Init, TypeOK
<1>3. \A f \in Frame : nav[f].st # "sent"
  BY DEF Init, NoNav
<1> QED BY <1>1, <1>2, <1>3 DEF RecordInv, OneRecordPerFrame

(* What an answer changes keeps its type. *)
LEMMA ReplyType ==
  ASSUME TypeOK, NEW k \in asks, NEW answer \in {"allowed", "none"}, Reply(k, answer)
  PROVE  asks' \subseteq Question /\ ans' \in [Frame -> {"unknown", "allowed", "none"}]
BY DEF Reply, TypeOK

(* onBeforeRequest: the frame has no record until its headers come. *)
LEMMA BeforeRequestRecord ==
  ASSUME RecordInv, NEW f \in Frame, BeforeRequest(f)
  PROVE  RecordInv'
<1>1. PICK o \in Origin, h \in Headers, allow \in BOOLEAN :
        nav' = [nav EXCEPT ![f] = [st |-> "sent", id |-> loads + 1, origin |-> o,
                                   headers |-> h, allow |-> allow]]
  BY DEF BeforeRequest
<1> DEFINE n == [st |-> "sent", id |-> loads + 1, origin |-> o, headers |-> h, allow |-> allow]
<1>2. n \in Navigation
  BY DEF RecordInv, TypeOK, Navigation, Loaded
<1>3. nav' \in [Frame -> Navigation \cup {NoNav}]
  BY <1>1, <1>2 DEF RecordInv, TypeOK
<1>4. doc' \in [Frame -> Document \cup {None}]
  <2>1. ASSUME doc[f] # None PROVE [doc[f] EXCEPT !.touched = TRUE] \in Document
    <3>1. doc[f] \in Document
      BY <2>1 DEF RecordInv, TypeOK
    <3> QED BY <3>1 DEF Document
  <2>2. doc \in [Frame -> Document \cup {None}]
    BY DEF RecordInv, TypeOK
  <2>3. doc' = [doc EXCEPT ![f] = IF @ = None THEN @ ELSE [@ EXCEPT !.touched = TRUE]]
    BY DEF BeforeRequest
  <2> QED BY <2>1, <2>2, <2>3
<1>5. /\ DOMAIN store' = DOMAIN store \ Cleared(store, f)
      /\ DOMAIN deleg' = DOMAIN deleg \ Cleared(deleg, f)
  BY WithoutDomain DEF BeforeRequest
<1>6. DOMAIN deleg' \subseteq DOMAIN store'
  BY <1>5 DEF Cleared, RecordInv
<1>7. \A x \in DOMAIN store' : x \in DOMAIN store /\ f # 0 /\ x[1] # f
  BY <1>5 DEF Cleared
<1>8. loads' \in Nat /\ asks' \subseteq Question /\ ans' \in [Frame -> {"unknown", "allowed", "none"}]
  BY DEF BeforeRequest, RecordInv, TypeOK
<1>9. TypeOK'
  BY <1>3, <1>4, <1>5, <1>8 DEF RecordInv, TypeOK
<1>10. OneRecordPerFrame'
  BY <1>5 DEF RecordInv, OneRecordPerFrame
<1>11. \A g \in Frame : nav'[g].st = "sent" => \A x \in DOMAIN store' : x[1] # g
  BY <1>1, <1>7 DEF RecordInv, TypeOK
<1> QED BY <1>6, <1>9, <1>10, <1>11 DEF RecordInv

(* onHeadersReceived: the record of the load is the frame's first. *)
LEMMA HeadersRecord ==
  ASSUME RecordInv, NEW f \in Frame, storePermissionsPolicy(f)
  PROVE  RecordInv'
<1> DEFINE known == IF f = 0 \/ Self(nav[f].headers, nav[f].origin) = {} THEN store
                    ELSE Adopted(f - 1, doc[f - 1].id)
<1>1. nav[f].st = "sent" /\ nav' = [nav EXCEPT ![f].st = "headers"]
  BY DEF storePermissionsPolicy
<1>2. UNCHANGED <<doc, deleg, asks, ans, loads>>
  BY DEF storePermissionsPolicy
<1>3. DOMAIN store' = DOMAIN known \cup {<<f, 0>>}
  BY WithDomain DEF storePermissionsPolicy
<1>4. /\ DOMAIN known \subseteq Frame \X Nat /\ OneKey(DOMAIN known)
      /\ DOMAIN deleg \subseteq DOMAIN known
      /\ \A x \in DOMAIN known : \E y \in DOMAIN store : y[1] = x[1]
  <2>1. CASE known = store
    BY <2>1, OneRecordIsOneKey DEF RecordInv, TypeOK
  <2>2. CASE f # 0 /\ known = Adopted(f - 1, doc[f - 1].id)
    <3>1. f - 1 \in Frame
      BY <2>2, PolicyAssumption DEF Frame
    <3>2. doc[f - 1].id \in Nat
      BY <3>1 DEF RecordInv, TypeOK, Document, None, Loaded
    <3> QED BY <2>2, <3>1, <3>2, AdoptedKeys
  <2> QED BY <2>1, <2>2
<1>5. \A x \in DOMAIN known : x[1] # f
  BY <1>1, <1>4 DEF RecordInv
<1>6. OneKey(DOMAIN store')
  BY <1>3, <1>4, <1>5 DEF OneKey
<1>7. OneKey(DOMAIN deleg')
  BY <1>2, OneRecordIsOneKey DEF RecordInv
<1>8. nav' \in [Frame -> Navigation \cup {NoNav}]
  <2>1. nav[f] \in Navigation
    BY <1>1 DEF RecordInv, TypeOK, NoNav
  <2>2. [nav[f] EXCEPT !.st = "headers"] \in Navigation
    BY <2>1 DEF Navigation
  <2> QED BY <1>1, <2>2 DEF RecordInv, TypeOK
<1>9. DOMAIN store' \subseteq Frame \X Nat
  BY <1>3, <1>4
<1>10. TypeOK'
  BY <1>2, <1>8, <1>9 DEF RecordInv, TypeOK
<1>11. \A g \in Frame : nav'[g].st = "sent" => \A x \in DOMAIN store' : x[1] # g
  <2> TAKE g \in Frame
  <2> HAVE nav'[g].st = "sent"
  <2>1. g # f /\ nav[g].st = "sent"
    BY <1>1 DEF RecordInv, TypeOK, Navigation, NoNav
  <2>2. \A x \in DOMAIN known : x[1] # g
    BY <1>4, <2>1 DEF RecordInv
  <2> QED BY <1>3, <2>1, <2>2
<1>12. OneRecordPerFrame'
  BY <1>6, <1>7 DEF OneRecordPerFrame, OneKey
<1>13. DOMAIN deleg' \subseteq DOMAIN store'
  BY <1>2, <1>3, <1>4
<1> QED BY <1>10, <1>11, <1>12, <1>13 DEF RecordInv

(* The end of a document and of the navigations in it touches no record. *)
LEMMA CommitRecord ==
  ASSUME RecordInv, NEW f \in Frame, Commit(f)
  PROVE  RecordInv'
<1>1. nav[f].st = "headers" /\ UNCHANGED <<store, deleg, loads>>
  BY DEF Commit
<1>2. nav[f] \in Navigation
  BY <1>1 DEF RecordInv, TypeOK, NoNav
<1> DEFINE new == [id |-> nav[f].id, origin |-> nav[f].origin, headers |-> nav[f].headers,
                   allow |-> nav[f].allow, touched |-> FALSE]
<1>3. new \in Document
  BY <1>2 DEF Navigation, Document
<1>4. doc' = [g \in Frame |-> IF g < f THEN doc[g] ELSE IF g > f THEN None ELSE new]
  BY DEF Commit
<1>5. doc' \in [Frame -> Document \cup {None}]
  BY <1>3, <1>4 DEF RecordInv, TypeOK
<1>6. nav' = [g \in Frame |-> IF g < f THEN nav[g] ELSE NoNav]
  BY DEF Commit
<1>7. nav' \in [Frame -> Navigation \cup {NoNav}]
  BY <1>6 DEF RecordInv, TypeOK
<1>8. ans' \in [Frame -> {"unknown", "allowed", "none"}]
  BY DEF Commit, RecordInv, TypeOK
<1>9. asks' \subseteq Question
  <2>1. ASSUME NEW k \in Question PROVE [k EXCEPT !.orphan = TRUE] \in Question
    BY DEF Question
  <2>2. asks' = asks \/ asks' \in {{}} \cup {{[k EXCEPT !.orphan = TRUE]} : k \in asks}
    BY DEF Commit
  <2> QED BY <2>1, <2>2 DEF RecordInv, TypeOK
<1>10. TypeOK'
  BY <1>1, <1>5, <1>7, <1>8, <1>9 DEF RecordInv, TypeOK
<1>11. \A g \in Frame : nav'[g].st = "sent" => nav[g].st = "sent"
  BY <1>6 DEF NoNav
<1> QED BY <1>1, <1>10, <1>11 DEF RecordInv, OneRecordPerFrame

(* Nor does a navigation that ends without a document. *)
LEMMA AbortRecord ==
  ASSUME RecordInv, NEW f \in Frame, Abort(f)
  PROVE  RecordInv'
<1>1. nav' = [nav EXCEPT ![f] = NoNav] /\ UNCHANGED <<doc, store, deleg, asks, ans, loads>>
  BY DEF Abort
<1>2. TypeOK'
  BY <1>1 DEF RecordInv, TypeOK
<1>3. \A g \in Frame : nav'[g].st = "sent" => nav[g].st = "sent"
  BY <1>1 DEF NoNav, RecordInv, TypeOK
<1> QED BY <1>1, <1>2, <1>3 DEF RecordInv, OneRecordPerFrame

(* A document asks. *)
LEMMA AskRecord ==
  ASSUME RecordInv, NEW f \in Frame, handleGetPolicyRequest(f)
  PROVE  RecordInv'
<1>1. UNCHANGED <<doc, nav, store, deleg, ans, loads>>
  BY DEF handleGetPolicyRequest
<1>2. doc[f] \in Document
  BY DEF handleGetPolicyRequest, RecordInv, TypeOK
<1>3. hasHidDelegation(f) \in BOOLEAN
  BY DEF hasHidDelegation
<1>4. [f |-> f, id |-> doc[f].id, origin |-> doc[f].origin, st |-> "set",
       delegated |-> hasHidDelegation(f), orphan |-> FALSE] \in Question
  BY <1>2, <1>3 DEF Document, Question
<1>5. asks' \subseteq Question
  BY <1>4 DEF handleGetPolicyRequest, RecordInv, TypeOK
<1>6. TypeOK'
  BY <1>1, <1>5 DEF RecordInv, TypeOK
<1> QED BY <1>1, <1>6 DEF RecordInv, OneRecordPerFrame

(* Both answers of the background read the record the way they adopt it: a *)
(* frame that waits for headers had none and gets none.                    *)
LEMMA EntriesRecord ==
  ASSUME RecordInv, NEW k \in asks, store' = Entries(k), UNCHANGED nav
  PROVE  /\ DOMAIN store' \subseteq Frame \X Nat /\ OneKey(DOMAIN store')
         /\ DOMAIN deleg \subseteq DOMAIN store'
         /\ \A f \in Frame : nav'[f].st = "sent" => \A x \in DOMAIN store' : x[1] # f
<1>1. k \in Question
  BY DEF RecordInv, TypeOK
<1>2. /\ DOMAIN store' \subseteq Frame \X Nat /\ OneKey(DOMAIN store')
      /\ DOMAIN deleg \subseteq DOMAIN store'
      /\ \A x \in DOMAIN store' : \E y \in DOMAIN store : y[1] = x[1]
  BY <1>1, EntriesKeys
<1> QED BY <1>2 DEF RecordInv

(* handleSetFrameDelegation: what it records has the frame's record. *)
LEMMA DelegationRecord ==
  ASSUME RecordInv, NEW k \in asks, handleSetFrameDelegation(k)
  PROVE  RecordInv'
<1>1. store' = Entries(k) /\ UNCHANGED <<doc, nav, loads>>
  BY DEF handleSetFrameDelegation
<1>2. /\ DOMAIN store' \subseteq Frame \X Nat /\ OneKey(DOMAIN store')
      /\ DOMAIN deleg \subseteq DOMAIN store'
      /\ \A f \in Frame : nav'[f].st = "sent" => \A x \in DOMAIN store' : x[1] # f
  BY <1>1, EntriesRecord
<1>3. k \in Question /\ <<k.f, k.id>> \in Frame \X Loaded
  BY DEF RecordInv, TypeOK, Question
<1>4. CASE Entry(k) = {}
  <2>1. deleg' = deleg /\ Reply(k, "none")
    BY <1>4 DEF handleSetFrameDelegation
  <2>2. asks' \subseteq Question /\ ans' \in [Frame -> {"unknown", "allowed", "none"}]
    BY <2>1, ReplyType DEF RecordInv
  <2>3. TypeOK'
    BY <1>1, <1>2, <2>1, <2>2 DEF RecordInv, TypeOK
  <2>4. OneRecordPerFrame'
    BY <1>2, <2>1, OneRecordIsOneKey DEF OneRecordPerFrame, OneKey, RecordInv
  <2> QED BY <1>2, <2>1, <2>3, <2>4 DEF RecordInv
<1>5. CASE Entry(k) # {}
  <2>1. /\ deleg' = With(deleg, <<k.f, k.id>>, k.delegated)
        /\ asks' = (asks \ {k}) \cup (IF k.orphan THEN {} ELSE {[k EXCEPT !.st = "get"]})
        /\ ans' = ans
    BY <1>5 DEF handleSetFrameDelegation
  <2>2. <<k.f, k.id>> \in DOMAIN store'
    BY <1>1, <1>5, EntryIsKey
  <2>3. DOMAIN deleg' = DOMAIN deleg \cup {<<k.f, k.id>>}
    BY <2>1, WithDomain
  <2>4. DOMAIN deleg' \subseteq DOMAIN store'
    BY <1>2, <2>2, <2>3
  <2>5. DOMAIN deleg' \subseteq Frame \X Loaded
    BY <1>3, <2>3 DEF RecordInv, TypeOK
  <2>6. [k EXCEPT !.st = "get"] \in Question
    BY <1>3 DEF Question
  <2>7. asks' \subseteq Question
    BY <2>1, <2>6 DEF RecordInv, TypeOK
  <2>8. TypeOK'
    BY <1>1, <1>2, <2>1, <2>5, <2>7 DEF RecordInv, TypeOK
  <2>9. OneRecordPerFrame'
    BY <1>2, <2>4 DEF OneRecordPerFrame, OneKey
  <2> QED BY <1>2, <2>4, <2>8, <2>9 DEF RecordInv
<1> QED BY <1>4, <1>5

(* handleGetPolicy: the answer changes no delegation. *)
LEMMA AnswerRecord ==
  ASSUME RecordInv, NEW k \in asks, handleGetPolicy(k)
  PROVE  RecordInv'
<1>1. store' = Entries(k) /\ UNCHANGED <<doc, nav, deleg, loads>>
  BY DEF handleGetPolicy
<1>2. /\ DOMAIN store' \subseteq Frame \X Nat /\ OneKey(DOMAIN store')
      /\ DOMAIN deleg \subseteq DOMAIN store'
      /\ \A f \in Frame : nav'[f].st = "sent" => \A x \in DOMAIN store' : x[1] # f
  BY <1>1, EntriesRecord
<1>3. PICK answer \in {"allowed", "none"} : Reply(k, answer)
  BY DEF handleGetPolicy
<1>4. asks' \subseteq Question /\ ans' \in [Frame -> {"unknown", "allowed", "none"}]
  BY <1>3, ReplyType DEF RecordInv
<1>5. TypeOK'
  BY <1>1, <1>2, <1>4 DEF RecordInv, TypeOK
<1>6. OneRecordPerFrame'
  BY <1>1, <1>2, OneRecordIsOneKey DEF OneRecordPerFrame, OneKey, RecordInv
<1> QED BY <1>1, <1>2, <1>5, <1>6 DEF RecordInv

LEMMA NextRecord == RecordInv /\ [Next]_vars => RecordInv'
<1> SUFFICES ASSUME RecordInv, [Next]_vars PROVE RecordInv'
  OBVIOUS
<1>1. CASE \E f \in Frame : BeforeRequest(f)
  BY <1>1, BeforeRequestRecord
<1>2. CASE \E f \in Frame : storePermissionsPolicy(f)
  BY <1>2, HeadersRecord
<1>3. CASE \E f \in Frame : Commit(f)
  BY <1>3, CommitRecord
<1>4. CASE \E f \in Frame : Abort(f)
  BY <1>4, AbortRecord
<1>5. CASE \E f \in Frame : handleGetPolicyRequest(f)
  BY <1>5, AskRecord
<1>6. CASE \E k \in asks : handleSetFrameDelegation(k)
  BY <1>6, DelegationRecord
<1>7. CASE \E k \in asks : handleGetPolicy(k)
  BY <1>7, AnswerRecord
<1>8. CASE UNCHANGED vars
  BY <1>8 DEF vars, RecordInv, TypeOK, OneRecordPerFrame
<1> QED BY <1>1, <1>2, <1>3, <1>4, <1>5, <1>6, <1>7, <1>8 DEF Next

---------------------------------------------------------------------------
(* The background keeps at most one record and one delegation for each     *)
(* frame of the tab, however often and in whatever order its frames are    *)
(* navigated (clearPolicyFrame, clearPolicyTab, storePermissionsPolicy,    *)
(* policyEntryForDocument).                                                *)
THEOREM OneRecordCorrect == Spec => []OneRecordPerFrame
<1>1. RecordInv => OneRecordPerFrame
  BY DEF RecordInv
<1> QED BY <1>1, InitRecord, NextRecord, PTL DEF Spec

(* Documents, navigations, questions and the keys of the background's maps *)
(* are of their kinds; a delegation always has the record of its frame.    *)
THEOREM RecordInvariant == Spec => []RecordInv
BY InitRecord, NextRecord, PTL DEF Spec

---------------------------------------------------------------------------
(* The answers.  Documents, navigations and records are parameters here:   *)
(* each operator is used of the state before and of the state after.       *)

Listed(d, f, o) == o \in Self(d[f].headers, d[f].origin)

(* No document that frame f is in has started a navigation *)
Above(d, f) == \A g \in Frame : g < f => d[g] # None /\ ~d[g].touched

(* The load that the records of a frame are of *)
Fresh(d, n, f) ==
  Above(d, f) /\ (n[f].st = "headers" \/ (d[f] # None /\ ~d[f].touched))
Load(d, n, f) == IF n[f].st = "headers" THEN n[f] ELSE d[f]

Key(d, f) == <<f, d[f].id>>
HasRecord(d, s, f) == <<f, 0>> \in DOMAIN s \/ Key(d, f) \in DOMAIN s

(* What a record of a load says.  The record of the parent was found when  *)
(* it was made, or is lost as long as the parent stays untouched.          *)
RecordOf(d, s, f, c, r) ==
  /\ r.origin = c.origin
  /\ r.parent = (IF f = 0 THEN <<>> ELSE Key(d, f - 1))
  /\ r.effective \subseteq Self(c.headers, c.origin)
  /\ f > 0 /\ r.effective # {} /\ HasRecord(d, s, f - 1) =>
       Key(d, f - 1) \in DOMAIN s /\ c.origin \in s[Key(d, f - 1)].effective

(* Frames: a document without navigation has none under way, and a frame   *)
(* in use is in a document.                                                *)
Shape == \A f \in Frame :
  /\ doc[f] # None /\ ~doc[f].touched => nav[f] = NoNav
  /\ f > 0 /\ (doc[f] # None \/ nav[f] # NoNav) => doc[f - 1] # None

(* The id of a document to come is not known to anyone. *)
Ids ==
  /\ \A f \in Frame :
       /\ doc[f].id <= loads
       /\ nav[f] # NoNav => /\ nav[f].id <= loads /\ nav[f].id # doc[f].id
                            /\ <<f, nav[f].id>> \notin DOMAIN deleg
  /\ \A k \in asks : k.id <= loads /\ (nav[k.f] # NoNav => k.id # nav[k.f].id)
  /\ \A x \in DOMAIN deleg : x[2] <= loads

(* Questions and delegations are those of their documents. *)
Questions == \A k \in asks : doc[k.f].id = k.id =>
  k.origin = doc[k.f].origin /\ k.delegated = hasHidDelegation(k.f)
Delegations == \A f \in Frame : Key(doc, f) \in DOMAIN deleg =>
  deleg[Key(doc, f)] = hasHidDelegation(f)

DocumentInv == RecordInv /\ Shape /\ Ids /\ Questions /\ Delegations

Content == \A f \in Frame, x \in DOMAIN store :
  x[1] = f /\ Fresh(doc, nav, f) =>
    RecordOf(doc, store, f, Load(doc, nav, f), store[x])

---------------------------------------------------------------------------
LEMMA NoneIsNo == None.id = 0 /\ NoNav.st = "none"
BY DEF None, NoNav

LEMMA ParentFrame == \A f \in Frame : f > 0 => f - 1 \in Frame
BY PolicyAssumption DEF Frame

LEMMA InitDocument == Init => DocumentInv
<1> SUFFICES ASSUME Init PROVE DocumentInv
  OBVIOUS
<1>1. RecordInv
  BY InitRecord
<1>2. /\ \A f \in Frame : doc[f] = None /\ nav[f] = NoNav
      /\ asks = {} /\ DOMAIN deleg = {} /\ loads = 0
  BY DEF Init
<1>3. Shape
  BY <1>2, ParentFrame DEF Shape
<1>4. Ids
  BY <1>2, NoneIsNo DEF Ids
<1> QED BY <1>1, <1>2, <1>3, <1>4 DEF DocumentInv, Questions, Delegations

(* onBeforeRequest: the document of the frame is touched, and stays. *)
LEMMA BeforeRequestDoc ==
  ASSUME TypeOK, NEW f \in Frame, BeforeRequest(f)
  PROVE  /\ \A g \in Frame : g # f => doc'[g] = doc[g] /\ nav'[g] = nav[g]
         /\ doc[f] = None => doc'[f] = None
         /\ doc[f] # None => /\ doc'[f] # None /\ doc'[f].touched
                             /\ doc'[f].id = doc[f].id /\ doc'[f].origin = doc[f].origin
                             /\ doc'[f].allow = doc[f].allow
         /\ doc'[f].id = doc[f].id
         /\ nav[f] = NoNav /\ nav'[f] # NoNav
         /\ nav'[f].st = "sent" /\ nav'[f].id = loads + 1 /\ loads' = loads + 1
<1>1. PICK o \in Origin, h \in Headers, allow \in BOOLEAN :
        nav' = [nav EXCEPT ![f] = [st |-> "sent", id |-> loads + 1, origin |-> o,
                                   headers |-> h, allow |-> allow]]
  BY DEF BeforeRequest
<1>2. /\ \A g \in Frame : g # f => nav'[g] = nav[g]
      /\ nav'[f].st = "sent" /\ nav'[f].id = loads + 1 /\ nav'[f] # NoNav
  BY <1>1 DEF TypeOK, NoNav
<1>3. doc' = [doc EXCEPT ![f] = IF @ = None THEN @ ELSE [@ EXCEPT !.touched = TRUE]]
  BY DEF BeforeRequest
<1>4. \A g \in Frame : g # f => doc'[g] = doc[g]
  BY <1>3 DEF TypeOK
<1>5. doc[f] = None => doc'[f] = None
  BY <1>3 DEF TypeOK
<1>6. ASSUME doc[f] # None
      PROVE  /\ doc'[f] # None /\ doc'[f].touched
             /\ doc'[f].id = doc[f].id /\ doc'[f].origin = doc[f].origin
             /\ doc'[f].allow = doc[f].allow
  <2>1. doc[f] \in Document /\ doc'[f] = [doc[f] EXCEPT !.touched = TRUE]
    BY <1>3, <1>6 DEF TypeOK
  <2>2. doc'[f].touched /\ doc'[f].id = doc[f].id /\ doc'[f].origin = doc[f].origin
        /\ doc'[f].allow = doc[f].allow
    BY <2>1 DEF Document
  <2>3. doc'[f].id # 0
    BY <2>1, <2>2 DEF Document, Loaded
  <2> QED BY <2>2, <2>3, NoneIsNo
<1>7. nav[f] = NoNav /\ loads' = loads + 1
  BY DEF BeforeRequest
<1> QED BY <1>2, <1>4, <1>5, <1>6, <1>7

(* The document of a navigation replaces that of its frame. *)
LEMMA CommitDoc ==
  ASSUME TypeOK, NEW f \in Frame, Commit(f)
  PROVE  /\ nav[f].st = "headers" /\ nav[f] \in Navigation /\ doc'[f] \in Document
         /\ \A g \in Frame : /\ g < f => doc'[g] = doc[g] /\ nav'[g] = nav[g] /\ ans'[g] = ans[g]
                             /\ g > f => doc'[g] = None
                             /\ ~(g < f) => nav'[g] = NoNav /\ ans'[g] = "unknown"
         /\ doc'[f] # None /\ doc'[f].id = nav[f].id /\ ~doc'[f].touched
         /\ doc'[f].origin = nav[f].origin /\ doc'[f].headers = nav[f].headers
<1> DEFINE new == [id |-> nav[f].id, origin |-> nav[f].origin, headers |-> nav[f].headers,
                   allow |-> nav[f].allow, touched |-> FALSE]
<1>1. nav[f].st = "headers" /\ nav[f] \in Navigation
  BY DEF Commit, TypeOK, NoNav
<1>2. new \in Document
  BY <1>1 DEF Navigation, Document
<1>3. doc' = [g \in Frame |-> IF g < f THEN doc[g] ELSE IF g > f THEN None ELSE new]
  BY DEF Commit
<1>4. /\ nav' = [g \in Frame |-> IF g < f THEN nav[g] ELSE NoNav]
      /\ ans' = [g \in Frame |-> IF g < f THEN ans[g] ELSE "unknown"]
  BY DEF Commit
<1>5. \A g \in Frame : /\ g < f => doc'[g] = doc[g]
                       /\ g > f => doc'[g] = None
  BY <1>3 DEF Frame
<1>6. \A g \in Frame : /\ g < f => nav'[g] = nav[g] /\ ans'[g] = ans[g]
                       /\ ~(g < f) => nav'[g] = NoNav /\ ans'[g] = "unknown"
  BY <1>4
<1>7. doc'[f] = new
  BY <1>3 DEF Frame
<1>8. new.id # 0
  BY <1>2 DEF Document, Loaded
<1>9. new # None
  BY <1>8, NoneIsNo
<1> QED BY <1>1, <1>2, <1>5, <1>6, <1>7, <1>9

LEMMA DelegationSame ==
  ASSUME NEW f \in Frame, doc'[f].allow = doc[f].allow
  PROVE  hasHidDelegation(f)' = hasHidDelegation(f)
BY DEF hasHidDelegation

LEMMA BeforeRequestDocument ==
  ASSUME DocumentInv, NEW f \in Frame, BeforeRequest(f)
  PROVE  DocumentInv'
<1>1. /\ \A g \in Frame : g # f => doc'[g] = doc[g] /\ nav'[g] = nav[g]
      /\ doc[f] = None => doc'[f] = None
      /\ doc[f] # None => /\ doc'[f] # None /\ doc'[f].touched
                          /\ doc'[f].id = doc[f].id /\ doc'[f].origin = doc[f].origin
                          /\ doc'[f].allow = doc[f].allow
      /\ doc'[f].id = doc[f].id
      /\ nav[f] = NoNav /\ nav'[f] # NoNav
      /\ nav'[f].st = "sent" /\ nav'[f].id = loads + 1 /\ loads' = loads + 1
  BY BeforeRequestDoc DEF DocumentInv, RecordInv
<1>2. RecordInv'
  BY BeforeRequestRecord DEF DocumentInv
<1>3. /\ asks' = asks
      /\ \A g \in Frame : g + 1 = f => doc[g] # None
      /\ deleg' = Without(deleg, Cleared(deleg, f))
  BY DEF BeforeRequest
<1>4. /\ DOMAIN deleg' \subseteq DOMAIN deleg
      /\ \A x \in DOMAIN deleg' : deleg'[x] = deleg[x]
  BY <1>3 DEF Without
<1>5. Shape'
  <2>1. ASSUME NEW g \in Frame PROVE doc'[g] # None /\ ~doc'[g].touched => nav'[g] = NoNav
    BY <1>1 DEF DocumentInv, Shape
  <2>2. ASSUME NEW g \in Frame, g > 0, doc'[g] # None \/ nav'[g] # NoNav
        PROVE  doc'[g - 1] # None
    <3>1. g - 1 \in Frame
      BY <2>2, ParentFrame
    <3>2. doc[g - 1] # None
      <4>1. CASE g = f
        BY <1>3, <2>2, <3>1, <4>1 DEF Frame
      <4>2. CASE g # f
        BY <1>1, <2>2, <4>2 DEF DocumentInv, Shape
      <4> QED BY <4>1, <4>2
    <3> QED BY <1>1, <3>1, <3>2
  <2> QED BY <2>1, <2>2 DEF Shape
<1>6. loads \in Nat
  BY DEF DocumentInv, RecordInv, TypeOK
<1>7. Ids'
  <2>1. ASSUME NEW g \in Frame
        PROVE  /\ doc'[g].id <= loads'
               /\ nav'[g] # NoNav => /\ nav'[g].id <= loads' /\ nav'[g].id # doc'[g].id
                                     /\ <<g, nav'[g].id>> \notin DOMAIN deleg'
    <3>0. doc[g].id \in Nat
      BY DEF DocumentInv, RecordInv, TypeOK, Document, None, Loaded
    <3>1. CASE g = f
      <4>1. <<g, loads + 1>> \notin DOMAIN deleg
        BY <1>6 DEF DocumentInv, Ids
      <4>2. doc[g].id <= loads
        BY DEF DocumentInv, Ids
      <4>3. doc'[g].id <= loads'
        BY <1>1, <1>6, <3>0, <3>1, <4>2
      <4>4. nav'[g].id = loads + 1 /\ loads + 1 <= loads'
        BY <1>1, <1>6, <3>1
      <4>5. loads + 1 # doc'[g].id
        BY <1>1, <1>6, <3>0, <3>1, <4>2
      <4> QED BY <1>4, <4>1, <4>3, <4>4, <4>5
    <3>2. CASE g # f
      <4>1. nav[g] # NoNav => nav[g].id \in Nat
        BY DEF DocumentInv, RecordInv, TypeOK, Navigation, Loaded
      <4> QED BY <1>1, <1>4, <1>6, <3>0, <3>2, <4>1 DEF DocumentInv, Ids
    <3> QED BY <3>1, <3>2
  <2>2. ASSUME NEW k \in asks
        PROVE  k.id <= loads' /\ (nav'[k.f] # NoNav => k.id # nav'[k.f].id)
    <3>1. k.id \in Nat /\ k.f \in Frame
      BY DEF DocumentInv, RecordInv, TypeOK, Question, Loaded
    <3> QED BY <1>1, <1>6, <3>1 DEF DocumentInv, Ids
  <2>3. ASSUME NEW x \in DOMAIN deleg' PROVE x[2] <= loads'
    <3>1. x[2] \in Nat /\ x[2] <= loads
      BY <1>4, <2>3 DEF DocumentInv, Ids, RecordInv, TypeOK, Loaded
    <3> QED BY <1>1, <1>6, <3>1
  <2> QED BY <1>3, <2>1, <2>2, <2>3 DEF Ids
<1>8. \A g \in Frame : /\ doc'[g].id = doc[g].id
                       /\ doc[g] # None => doc'[g].origin = doc[g].origin /\ doc'[g].allow = doc[g].allow
                       /\ doc[g] = None => doc'[g] = doc[g]
  BY <1>1
<1>9. Questions'
  <2>1. ASSUME NEW k \in asks, doc'[k.f].id = k.id
        PROVE  k.origin = doc'[k.f].origin /\ k.delegated = hasHidDelegation(k.f)'
    <3>1. k.f \in Frame /\ k.id # 0
      BY DEF DocumentInv, RecordInv, TypeOK, Question, Loaded
    <3>2. doc[k.f] # None
      BY <1>8, <2>1, <3>1, NoneIsNo
    <3> QED BY <1>8, <2>1, <3>1, <3>2, DelegationSame DEF DocumentInv, Questions
  <2> QED BY <1>3, <2>1 DEF Questions
<1>10. Delegations'
  <2>1. ASSUME NEW g \in Frame, <<g, doc'[g].id>> \in DOMAIN deleg'
        PROVE  deleg'[<<g, doc'[g].id>>] = hasHidDelegation(g)'
    <3>1. <<g, doc[g].id>> \in DOMAIN deleg
      BY <1>4, <1>8, <2>1
    <3>2. doc[g].id # 0
      BY <3>1 DEF DocumentInv, RecordInv, TypeOK, Loaded
    <3>3. doc[g] # None
      BY <3>2, NoneIsNo
    <3> QED BY <1>4, <1>8, <2>1, <3>1, <3>3, DelegationSame DEF DocumentInv, Delegations, Key
  <2> QED BY <2>1 DEF Delegations, Key
<1> QED BY <1>2, <1>5, <1>7, <1>9, <1>10 DEF DocumentInv

(* onHeadersReceived and the end of a navigation without a document change *)
(* the navigation only, as far as documents and delegations go.            *)
LEMMA NavigationDocument ==
  ASSUME DocumentInv, RecordInv', UNCHANGED <<doc, deleg, asks, loads>>,
         \A g \in Frame : nav'[g] # NoNav =>
           nav[g] # NoNav /\ nav'[g].id = nav[g].id
  PROVE  DocumentInv'
<1>1. Shape'
  BY DEF DocumentInv, Shape
<1>2. Ids'
  <2>1. \A k \in asks : k.f \in Frame
    BY DEF DocumentInv, RecordInv, TypeOK, Question
  <2> QED BY <2>1 DEF DocumentInv, Ids
<1>3. Questions' /\ Delegations'
  BY DEF DocumentInv, Questions, Delegations, Key, hasHidDelegation
<1> QED BY <1>1, <1>2, <1>3 DEF DocumentInv

LEMMA CommitDocument ==
  ASSUME DocumentInv, NEW f \in Frame, Commit(f)
  PROVE  DocumentInv'
<1>1. /\ nav[f].st = "headers" /\ nav[f] \in Navigation /\ doc'[f] \in Document
      /\ \A g \in Frame : /\ g < f => doc'[g] = doc[g] /\ nav'[g] = nav[g]
                          /\ g > f => doc'[g] = None
                          /\ ~(g < f) => nav'[g] = NoNav
      /\ doc'[f] # None /\ doc'[f].id = nav[f].id /\ ~doc'[f].touched
  BY CommitDoc DEF DocumentInv, RecordInv
<1>2. RecordInv'
  BY CommitRecord DEF DocumentInv
<1>3. UNCHANGED <<store, deleg, loads>>
  BY DEF Commit
<1>4. nav[f] # NoNav
  BY <1>1, NoneIsNo
<1>5. \A g \in Frame : g < f \/ g = f \/ g > f
  BY DEF Frame
<1>6. Shape'
  <2>1. ASSUME NEW g \in Frame PROVE doc'[g] # None /\ ~doc'[g].touched => nav'[g] = NoNav
    BY <1>1, <1>5 DEF DocumentInv, Shape
  <2>2. ASSUME NEW g \in Frame, g > 0, doc'[g] # None \/ nav'[g] # NoNav
        PROVE  doc'[g - 1] # None
    <3>1. g - 1 \in Frame
      BY <2>2, ParentFrame
    <3>2. CASE g = f
      <4>1. doc[g - 1] # None
        BY <1>4, <2>2, <3>2 DEF DocumentInv, Shape
      <4>2. g - 1 < f
        BY <3>2 DEF Frame
      <4> QED BY <1>1, <3>1, <4>1, <4>2
    <3>3. CASE g < f
      <4>1. doc[g - 1] # None
        BY <1>1, <2>2, <3>3 DEF DocumentInv, Shape
      <4>2. g - 1 < f
        BY <3>3 DEF Frame
      <4> QED BY <1>1, <3>1, <4>1, <4>2
    <3>4. CASE g > f
      BY <1>1, <2>2, <3>4 DEF Frame
    <3> QED BY <1>5, <3>2, <3>3, <3>4
  <2> QED BY <2>1, <2>2 DEF Shape
<1>7. \A k \in asks' : \E j \in asks : k = [j EXCEPT !.orphan = TRUE] \/ k = j
  BY DEF Commit
<1>8. \A k \in asks' : \E j \in asks : k.f = j.f /\ k.id = j.id /\ k.origin = j.origin
                                       /\ k.delegated = j.delegated
  <2>1. \A j \in asks : j \in Question
    BY DEF DocumentInv, RecordInv, TypeOK
  <2>2. \A j \in Question : LET k == [j EXCEPT !.orphan = TRUE]
                            IN  k.f = j.f /\ k.id = j.id /\ k.origin = j.origin
                                /\ k.delegated = j.delegated
    BY DEF Question
  <2> QED BY <1>7, <2>1, <2>2
<1>9. Ids'
  <2>1. ASSUME NEW g \in Frame
        PROVE  /\ doc'[g].id <= loads'
               /\ nav'[g] # NoNav => /\ nav'[g].id <= loads' /\ nav'[g].id # doc'[g].id
                                     /\ <<g, nav'[g].id>> \notin DOMAIN deleg'
    <3>1. CASE g < f
      BY <1>1, <1>3, <3>1 DEF DocumentInv, Ids
    <3>2. CASE g = f
      BY <1>1, <1>3, <1>4, <3>2 DEF DocumentInv, Ids, Frame
    <3>3. CASE g > f
      <4>1. doc'[g].id = 0 /\ nav'[g] = NoNav
        BY <1>1, <3>3, NoneIsNo DEF Frame
      <4>2. loads \in Nat
        BY DEF DocumentInv, RecordInv, TypeOK
      <4> QED BY <1>3, <4>1, <4>2
    <3> QED BY <1>5, <3>1, <3>2, <3>3
  <2>2. ASSUME NEW k \in asks'
        PROVE  k.id <= loads' /\ (nav'[k.f] # NoNav => k.id # nav'[k.f].id)
    <3>1. PICK j \in asks : k.f = j.f /\ k.id = j.id
      BY <1>8, <2>2
    <3>2. j.f \in Frame
      BY DEF DocumentInv, RecordInv, TypeOK, Question
    <3> QED BY <1>1, <1>3, <3>1, <3>2 DEF DocumentInv, Ids
  <2>3. ASSUME NEW x \in DOMAIN deleg' PROVE x[2] <= loads'
    BY <1>3, <2>3 DEF DocumentInv, Ids
  <2> QED BY <2>1, <2>2, <2>3 DEF Ids
<1>10. Questions'
  <2>1. ASSUME NEW k \in asks', doc'[k.f].id = k.id
        PROVE  k.origin = doc'[k.f].origin /\ k.delegated = hasHidDelegation(k.f)'
    <3>1. PICK j \in asks : k.f = j.f /\ k.id = j.id /\ k.origin = j.origin
                            /\ k.delegated = j.delegated
      BY <1>8, <2>1
    <3>2. j.f \in Frame /\ j.id # 0
      BY DEF DocumentInv, RecordInv, TypeOK, Question, Loaded
    <3>3. j.f # f
      BY <1>1, <1>4, <2>1, <3>1 DEF DocumentInv, Ids
    <3>4. ~(j.f > f)
      BY <1>1, <2>1, <3>1, <3>2, NoneIsNo
    <3>5. doc'[j.f] = doc[j.f]
      BY <1>1, <1>5, <3>2, <3>3, <3>4
    <3> QED BY <2>1, <3>1, <3>2, <3>5, DelegationSame DEF DocumentInv, Questions
  <2> QED BY <2>1 DEF Questions
<1>11. Delegations'
  <2>1. ASSUME NEW g \in Frame, <<g, doc'[g].id>> \in DOMAIN deleg
        PROVE  deleg[<<g, doc'[g].id>>] = hasHidDelegation(g)'
    <3>1. g # f
      BY <1>1, <1>4, <2>1 DEF DocumentInv, Ids
    <3>2. doc'[g].id # 0
      BY <2>1 DEF DocumentInv, RecordInv, TypeOK, Loaded
    <3>3. doc'[g] = doc[g]
      BY <1>1, <1>5, <3>1, <3>2, NoneIsNo
    <3> QED BY <2>1, <3>3, DelegationSame DEF DocumentInv, Delegations, Key
  <2> QED BY <1>3, <2>1 DEF Delegations, Key
<1> QED BY <1>2, <1>6, <1>9, <1>10, <1>11 DEF DocumentInv

(* A question that is still to be answered changes its state only. *)
LEMMA SetDocument ==
  ASSUME DocumentInv, NEW k \in asks, handleSetFrameDelegation(k)
  PROVE  DocumentInv'
<1>1. RecordInv'
  BY DelegationRecord DEF DocumentInv
<1>2. UNCHANGED <<doc, nav, loads>>
  BY DEF handleSetFrameDelegation
<1>3. k \in Question
  BY DEF DocumentInv, RecordInv, TypeOK
<1> DEFINE next == [k EXCEPT !.st = "get"]
<1>4. next.f = k.f /\ next.id = k.id /\ next.origin = k.origin /\ next.delegated = k.delegated
  BY <1>3 DEF Question
<1>5. asks' \subseteq asks \cup {next}
  BY DEF handleSetFrameDelegation, Reply
<1>6. \/ deleg' = deleg
      \/ deleg' = With(deleg, <<k.f, k.id>>, k.delegated)
  BY DEF handleSetFrameDelegation
<1>7. /\ DOMAIN deleg' \subseteq DOMAIN deleg \cup {<<k.f, k.id>>}
      /\ \A x \in DOMAIN deleg' : deleg'[x] = deleg[x] \/ (x = <<k.f, k.id>> /\ deleg'[x] = k.delegated)
  BY <1>6 DEF With
<1>8. Ids'
  <2>1. \A g \in Frame : nav[g] # NoNav => <<g, nav[g].id>> # <<k.f, k.id>>
    BY DEF DocumentInv, Ids
  <2>2. \A g \in Frame : nav'[g] # NoNav => <<g, nav'[g].id>> \notin DOMAIN deleg'
    <3>1. \A g \in Frame : nav[g] # NoNav => <<g, nav[g].id>> \notin DOMAIN deleg
      BY DEF DocumentInv, Ids
    <3> QED BY <1>2, <1>7, <2>1, <3>1
  <2>3. \A j \in asks' : j.id <= loads' /\ (nav'[j.f] # NoNav => j.id # nav'[j.f].id)
    <3>1. \A j \in asks : j.id <= loads /\ (nav[j.f] # NoNav => j.id # nav[j.f].id)
      BY DEF DocumentInv, Ids
    <3>2. next.id <= loads /\ (nav[next.f] # NoNav => next.id # nav[next.f].id)
      BY <1>4, <3>1
    <3> HIDE DEF next
    <3> QED BY <1>2, <1>5, <3>1, <3>2
  <2>4. \A x \in DOMAIN deleg' : x[2] <= loads'
    BY <1>2, <1>7 DEF DocumentInv, Ids
  <2> QED BY <1>2, <2>2, <2>3, <2>4 DEF DocumentInv, Ids
<1>9. \A g \in Frame : hasHidDelegation(g)' = hasHidDelegation(g)
  BY <1>2 DEF hasHidDelegation
<1>10. Questions'
  <2>1. \A j \in asks : doc[j.f].id = j.id =>
          j.origin = doc[j.f].origin /\ j.delegated = hasHidDelegation(j.f)
    BY DEF DocumentInv, Questions
  <2>2. doc[next.f].id = next.id =>
          next.origin = doc[next.f].origin /\ next.delegated = hasHidDelegation(next.f)
    BY <1>4, <2>1
  <2>3. \A j \in asks' : doc[j.f].id = j.id =>
          j.origin = doc[j.f].origin /\ j.delegated = hasHidDelegation(j.f)
    <3> HIDE DEF next
    <3> QED BY <1>5, <2>1, <2>2
  <2> QED BY <1>2, <2>3 DEF Questions, hasHidDelegation
<1>11. Delegations'
  <2>1. ASSUME NEW g \in Frame, <<g, doc[g].id>> \in DOMAIN deleg'
        PROVE  deleg'[<<g, doc[g].id>>] = hasHidDelegation(g)
    <3>1. CASE <<g, doc[g].id>> = <<k.f, k.id>>
      <4>1. g = k.f /\ doc[k.f].id = k.id
        BY <3>1
      <4>2. k.delegated = hasHidDelegation(g)
        BY <4>1 DEF DocumentInv, Questions
      <4>3. CASE deleg' = deleg
        BY <2>1, <4>3 DEF DocumentInv, Delegations, Key
      <4>4. CASE deleg' = With(deleg, <<k.f, k.id>>, k.delegated)
        BY <2>1, <3>1, <4>2, <4>4 DEF With
      <4> QED BY <1>6, <4>3, <4>4
    <3>2. CASE <<g, doc[g].id>> # <<k.f, k.id>>
      BY <1>7, <2>1, <3>2 DEF DocumentInv, Delegations, Key
    <3> QED BY <3>1, <3>2
  <2> QED BY <1>2, <1>9, <2>1 DEF Delegations, Key
<1>12. Shape'
  BY <1>2 DEF DocumentInv, Shape
<1> QED BY <1>1, <1>8, <1>10, <1>11, <1>12 DEF DocumentInv

LEMMA GetDocument ==
  ASSUME DocumentInv, NEW k \in asks, handleGetPolicy(k)
  PROVE  DocumentInv'
<1>1. RecordInv'
  BY AnswerRecord DEF DocumentInv
<1>2. UNCHANGED <<doc, nav, deleg, loads>> /\ asks' \subseteq asks
  BY DEF handleGetPolicy, Reply
<1>3. \A g \in Frame : hasHidDelegation(g)' = hasHidDelegation(g)
  BY <1>2 DEF hasHidDelegation
<1>4. Shape' /\ Ids'
  BY <1>2 DEF DocumentInv, Shape, Ids
<1>5. Questions'
  BY <1>2 DEF DocumentInv, Questions, hasHidDelegation
<1>6. Delegations'
  BY <1>2, <1>3 DEF DocumentInv, Delegations, Key
<1> QED BY <1>1, <1>4, <1>5, <1>6 DEF DocumentInv

LEMMA AskDocument ==
  ASSUME DocumentInv, NEW f \in Frame, handleGetPolicyRequest(f)
  PROVE  DocumentInv'
<1>1. RecordInv'
  BY AskRecord DEF DocumentInv
<1>2. UNCHANGED <<doc, nav, deleg, loads>>
  BY DEF handleGetPolicyRequest
<1> DEFINE new == [f |-> f, id |-> doc[f].id, origin |-> doc[f].origin, st |-> "set",
                   delegated |-> hasHidDelegation(f), orphan |-> FALSE]
<1>3. asks' = asks \cup {new}
  BY DEF handleGetPolicyRequest
<1>4. new.f = f /\ new.id = doc[f].id /\ new.origin = doc[f].origin
      /\ new.delegated = hasHidDelegation(f)
  OBVIOUS
<1>5. doc[f] # None
  BY DEF handleGetPolicyRequest
<1>6. \A g \in Frame : nav[g] # NoNav => nav[g].id # doc[g].id
  BY DEF DocumentInv, Ids
<1>7. Ids'
  BY <1>2, <1>3, <1>4, <1>6 DEF DocumentInv, Ids
<1>8. Questions'
  BY <1>2, <1>3, <1>4 DEF DocumentInv, Questions, hasHidDelegation
<1>9. Shape' /\ Delegations'
  BY <1>2 DEF DocumentInv, Shape, Delegations, Key, hasHidDelegation
<1> QED BY <1>1, <1>7, <1>8, <1>9 DEF DocumentInv

LEMMA NextDocument == DocumentInv /\ [Next]_vars => DocumentInv'
<1> SUFFICES ASSUME DocumentInv, [Next]_vars PROVE DocumentInv'
  OBVIOUS
<1>1. RecordInv'
  BY NextRecord DEF DocumentInv
<1>2. CASE \E f \in Frame : BeforeRequest(f)
  BY <1>2, BeforeRequestDocument
<1>3. ASSUME NEW f \in Frame, storePermissionsPolicy(f) PROVE DocumentInv'
  <2>1. UNCHANGED <<doc, deleg, asks, loads>> /\ nav[f].st = "sent"
    BY <1>3 DEF storePermissionsPolicy
  <2>2. nav' = [nav EXCEPT ![f].st = "headers"]
    BY <1>3 DEF storePermissionsPolicy
  <2>3. nav[f] # NoNav /\ nav[f] \in Navigation
    BY <2>1, NoneIsNo DEF DocumentInv, RecordInv, TypeOK
  <2>4. nav'[f].id = nav[f].id
    BY <2>2, <2>3 DEF Navigation, DocumentInv, RecordInv, TypeOK
  <2>5. \A g \in Frame : nav'[g] # NoNav => nav[g] # NoNav /\ nav'[g].id = nav[g].id
    BY <2>2, <2>3, <2>4 DEF DocumentInv, RecordInv, TypeOK
  <2> QED BY <1>1, <2>1, <2>5, NavigationDocument
<1>4. CASE \E f \in Frame : Commit(f)
  BY <1>4, CommitDocument
<1>5. ASSUME NEW f \in Frame, Abort(f) PROVE DocumentInv'
  <2>1. UNCHANGED <<doc, deleg, asks, loads>> /\ nav' = [nav EXCEPT ![f] = NoNav]
    BY <1>5 DEF Abort
  <2>2. \A g \in Frame : nav'[g] # NoNav => nav[g] # NoNav /\ nav'[g].id = nav[g].id
    BY <2>1 DEF DocumentInv, RecordInv, TypeOK
  <2> QED BY <1>1, <2>1, <2>2, NavigationDocument
<1>6. CASE \E f \in Frame : handleGetPolicyRequest(f)
  BY <1>6, AskDocument
<1>7. CASE \E k \in asks : handleSetFrameDelegation(k)
  BY <1>7, SetDocument
<1>8. CASE \E k \in asks : handleGetPolicy(k)
  BY <1>8, GetDocument
<1>9. CASE UNCHANGED vars
  BY <1>1, <1>9, NavigationDocument DEF vars
<1> QED BY <1>2, <1>3, <1>4, <1>5, <1>6, <1>7, <1>8, <1>9 DEF Next

---------------------------------------------------------------------------
(* Records *)

(* What is left of the records when the one of frame f that waits for a    *)
(* document may have been taken by the document id *)
Takes(s, f, id) ==
  /\ \A x \in DOMAIN s : \E y \in DOMAIN store : y[1] = x[1] /\ s[x] = store[y]
  /\ \A x \in DOMAIN store : x # <<f, 0>> => x \in DOMAIN s /\ s[x] = store[x]
  /\ \A x \in DOMAIN s : x \in DOMAIN store \/ (x = <<f, id>> /\ <<f, 0>> \in DOMAIN store)
  /\ <<f, 0>> \in DOMAIN store =>
       \/ <<f, id>> \in DOMAIN s
       \/ <<f, 0>> \in DOMAIN s /\ s[<<f, 0>>] = store[<<f, 0>>]

LEMMA AdoptedTakes ==
  ASSUME TypeOK, NEW f \in Frame, NEW id \in Nat PROVE Takes(Adopted(f, id), f, id)
<1>1. CASE <<f, id>> \in DOMAIN store \/ <<f, 0>> \notin DOMAIN store
  BY <1>1 DEF Adopted, Takes
<1>2. CASE ~(<<f, id>> \in DOMAIN store \/ <<f, 0>> \notin DOMAIN store)
  <2> DEFINE s == Adopted(f, id)
             rest == Without(store, {<<f, 0>>})
  <2>1. s = With(rest, <<f, id>>, store[<<f, 0>>])
    BY <1>2 DEF Adopted
  <2>2. DOMAIN rest = DOMAIN store \ {<<f, 0>>} /\ \A x \in DOMAIN rest : rest[x] = store[x]
    BY DEF Without
  <2>3. /\ DOMAIN s = DOMAIN rest \cup {<<f, id>>}
        /\ \A x \in DOMAIN s : s[x] = IF x = <<f, id>> THEN store[<<f, 0>>] ELSE rest[x]
    BY <2>1 DEF With
  <2> HIDE DEF s, rest
  <2>4. \A x \in DOMAIN s : \E y \in DOMAIN store : y[1] = x[1] /\ s[x] = store[y]
    <3> TAKE x \in DOMAIN s
    <3>1. CASE x = <<f, id>>
      BY <1>2, <2>3, <3>1
    <3>2. CASE x # <<f, id>>
      BY <2>2, <2>3, <3>2
    <3> QED BY <3>1, <3>2
  <2>5. \A x \in DOMAIN store : x # <<f, 0>> => x \in DOMAIN s /\ s[x] = store[x]
    BY <1>2, <2>2, <2>3
  <2>6. \A x \in DOMAIN s : x \in DOMAIN store \/ (x = <<f, id>> /\ <<f, 0>> \in DOMAIN store)
    BY <1>2, <2>2, <2>3
  <2>7. <<f, id>> \in DOMAIN s
    BY <2>3
  <2>8. s = Adopted(f, id)
    BY DEF s
  <2> QED BY <2>4, <2>5, <2>6, <2>7, <2>8 DEF Takes
<1> QED BY <1>1, <1>2

LEMMA EntriesTakes ==
  ASSUME TypeOK, NEW k \in asks PROVE Takes(Entries(k), k.f, k.id)
<1>1. k.f \in Frame /\ k.id \in Nat
  BY DEF TypeOK, Question, Loaded
<1>2. CASE Entries(k) = Adopted(k.f, k.id)
  BY <1>1, <1>2, AdoptedTakes
<1>3. CASE Entries(k) = store
  BY <1>3 DEF Takes
<1> QED BY <1>2, <1>3 DEF Entries

(* A record says the same as long as that of the parent stays what it was, *)
(* or is lost.                                                             *)
LEMMA RecordSame ==
  ASSUME NEW f, NEW d, NEW s, NEW e, NEW t, NEW c, NEW r,
         RecordOf(d, s, f, c, r),
         f > 0 => /\ Key(e, f - 1) = Key(d, f - 1)
                  /\ HasRecord(e, t, f - 1) =>
                       /\ HasRecord(d, s, f - 1)
                       /\ Key(d, f - 1) \in DOMAIN s =>
                            Key(d, f - 1) \in DOMAIN t /\ t[Key(d, f - 1)] = s[Key(d, f - 1)]
  PROVE  f = 0 \/ f > 0 => RecordOf(e, t, f, c, r)
BY DEF RecordOf

LEMMA RecordTakes ==
  ASSUME RecordInv, NEW f \in Frame, NEW c, NEW r, Above(doc, f),
         RecordOf(doc, store, f, c, r), NEW s, NEW g \in Frame, NEW id \in Nat, Takes(s, g, id)
  PROVE  RecordOf(doc, s, f, c, r)
<1>1. f \in Nat /\ (f = 0 \/ f > 0)
  BY PolicyAssumption DEF Frame
<1>2. ASSUME f > 0, HasRecord(doc, s, f - 1)
      PROVE  /\ HasRecord(doc, store, f - 1)
             /\ Key(doc, f - 1) \in DOMAIN store =>
                  Key(doc, f - 1) \in DOMAIN s /\ s[Key(doc, f - 1)] = store[Key(doc, f - 1)]
  <2>1. f - 1 \in Frame /\ f - 1 < f
    BY <1>1, <1>2, ParentFrame
  <2>2. doc[f - 1] # None /\ doc[f - 1] \in Document
    BY <2>1 DEF Above, RecordInv, TypeOK
  <2>3. doc[f - 1].id # 0
    BY <2>2 DEF Document, Loaded
  <2>4. Key(doc, f - 1) # <<g, 0>>
    BY <2>3 DEF Key
  <2>5. HasRecord(doc, store, f - 1)
    BY <1>2, <2>1, <2>4 DEF HasRecord, Takes, Key
  <2> QED BY <2>4, <2>5 DEF Takes
<1> QED BY <1>1, <1>2, RecordSame

LEMMA TakesContent ==
  ASSUME RecordInv, Content, NEW f \in Frame, NEW id \in Nat, Takes(store', f, id),
         UNCHANGED <<doc, nav>>
  PROVE  Content'
<1> SUFFICES ASSUME NEW g \in Frame, NEW x \in DOMAIN store', x[1] = g, Fresh(doc, nav, g)
             PROVE  RecordOf(doc, store', g, Load(doc, nav, g), store'[x])
  BY DEF Content, Fresh, Load, Above
<1>1. PICK y \in DOMAIN store : y[1] = x[1] /\ store'[x] = store[y]
  BY DEF Takes
<1>2. RecordOf(doc, store, g, Load(doc, nav, g), store[y])
  BY <1>1 DEF Content
<1>3. Above(doc, g)
  BY DEF Fresh
<1> QED BY <1>1, <1>2, <1>3, RecordTakes

(* A record that its document may take is found under the document's id. *)
LEMMA AdoptedHas ==
  ASSUME NEW f \in Frame, HasRecord(doc, Adopted(f, doc[f].id), f)
  PROVE  Key(doc, f) \in DOMAIN Adopted(f, doc[f].id)
<1> DEFINE rest == Without(store, {<<f, 0>>})
<1>1. DOMAIN With(rest, <<f, doc[f].id>>, store[<<f, 0>>]) = DOMAIN rest \cup {<<f, doc[f].id>>}
  BY WithDomain
<1> QED BY <1>1 DEF Adopted, HasRecord, Key

(* The record of a load, and the records known when it is made *)
Known(f) == IF f = 0 \/ Self(nav[f].headers, nav[f].origin) = {} THEN store
            ELSE Adopted(f - 1, doc[f - 1].id)
Inherited(f) == IF f > 0 /\ Key(doc, f - 1) \in DOMAIN Known(f)
                THEN Known(f)[Key(doc, f - 1)].effective ELSE Origin
Record(f) ==
  [origin |-> nav[f].origin, parent |-> IF f = 0 THEN <<>> ELSE Key(doc, f - 1),
   effective |-> IF nav[f].origin \in Inherited(f)
                 THEN Self(nav[f].headers, nav[f].origin) ELSE {}]

LEMMA KnownTakes ==
  ASSUME RecordInv, NEW f \in Frame
  PROVE  \E g \in Frame, id \in Nat : Takes(Known(f), g, id) /\ (f > 0 => g = f - 1 /\ id = doc[f - 1].id)
<1>0. f \in Nat
  BY PolicyAssumption DEF Frame
<1>1. CASE f = 0
  <2>1. Takes(store, 0, 1)
    BY DEF Takes
  <2> QED BY <1>1, <2>1 DEF Known
<1>2. CASE f > 0
  <2>1. f - 1 \in Frame
    BY <1>2, ParentFrame
  <2>2. doc[f - 1].id \in Nat
    BY <2>1 DEF RecordInv, TypeOK, Document, None, Loaded
  <2>3. Takes(Adopted(f - 1, doc[f - 1].id), f - 1, doc[f - 1].id)
    BY <2>1, <2>2, AdoptedTakes DEF RecordInv
  <2>4. Takes(store, f - 1, doc[f - 1].id)
    BY DEF Takes
  <2> QED BY <1>2, <2>1, <2>2, <2>3, <2>4 DEF Known
<1> QED BY <1>0, <1>1, <1>2

LEMMA HeadersStore ==
  ASSUME RecordInv, NEW f \in Frame, storePermissionsPolicy(f)
  PROVE  /\ nav[f].st = "sent" /\ nav[f] \in Navigation
         /\ nav'[f].st = "headers" /\ nav'[f].origin = nav[f].origin
         /\ nav'[f].headers = nav[f].headers
         /\ \A g \in Frame : g # f => nav'[g] = nav[g]
         /\ UNCHANGED <<doc, deleg, asks, ans, loads>>
         /\ \A x \in DOMAIN store : x[1] # f
         /\ DOMAIN store' = DOMAIN Known(f) \cup {<<f, 0>>}
         /\ store'[<<f, 0>>] = Record(f)
         /\ \A x \in DOMAIN Known(f) : x # <<f, 0>> => store'[x] = Known(f)[x]
<1>1. nav[f].st = "sent" /\ nav' = [nav EXCEPT ![f].st = "headers"]
      /\ UNCHANGED <<doc, deleg, asks, ans, loads>>
  BY DEF storePermissionsPolicy
<1>2. nav[f] \in Navigation
  BY <1>1, NoneIsNo DEF RecordInv, TypeOK
<1>3. /\ nav'[f].st = "headers" /\ nav'[f].origin = nav[f].origin
      /\ nav'[f].headers = nav[f].headers
      /\ \A g \in Frame : g # f => nav'[g] = nav[g]
  BY <1>1, <1>2 DEF RecordInv, TypeOK, Navigation
<1>4. \A x \in DOMAIN store : x[1] # f
  BY <1>1 DEF RecordInv
<1> DEFINE self == Self(nav[f].headers, nav[f].origin)
           parent == IF f = 0 THEN <<>> ELSE <<f - 1, doc[f - 1].id>>
           inherited == IF parent \in DOMAIN Known(f) THEN Known(f)[parent].effective ELSE Origin
           r == [origin |-> nav[f].origin, parent |-> parent,
                 effective |-> IF nav[f].origin \in inherited THEN self ELSE {}]
<1>5. store' = With(Known(f), <<f, 0>>, r)
  BY DEF storePermissionsPolicy, Known
<1>6. inherited = Inherited(f)
  <2>1. f \in Nat
    BY PolicyAssumption DEF Frame
  <2>2. CASE f = 0
    <3>1. DOMAIN Known(f) \subseteq Frame \X Nat
      BY <2>2 DEF Known, RecordInv, TypeOK
    <3>2. <<>> \notin DOMAIN Known(f)
      BY <3>1
    <3> QED BY <2>2, <3>2 DEF Inherited
  <2>3. CASE f > 0
    BY <2>3 DEF Inherited, Key
  <2> QED BY <2>1, <2>2, <2>3
<1>7. r = Record(f)
  BY <1>6 DEF Record, Key
<1> HIDE DEF r
<1>8. /\ DOMAIN store' = DOMAIN Known(f) \cup {<<f, 0>>}
      /\ store'[<<f, 0>>] = r
      /\ \A x \in DOMAIN Known(f) : x # <<f, 0>> => store'[x] = Known(f)[x]
  BY <1>5 DEF With
<1> QED BY <1>1, <1>2, <1>3, <1>4, <1>7, <1>8

(* The new record finds that of its parent if there is one. *)
LEMMA RecordIsOf ==
  ASSUME RecordInv, NEW f \in Frame, storePermissionsPolicy(f)
  PROVE  RecordOf(doc, store', f, nav'[f], Record(f))
<1>1. /\ nav'[f].origin = nav[f].origin /\ nav'[f].headers = nav[f].headers
      /\ DOMAIN store' = DOMAIN Known(f) \cup {<<f, 0>>}
      /\ \A x \in DOMAIN Known(f) : x # <<f, 0>> => store'[x] = Known(f)[x]
  BY HeadersStore
<1>2. ASSUME f > 0, Record(f).effective # {}, HasRecord(doc, store', f - 1)
      PROVE  Key(doc, f - 1) \in DOMAIN store' /\ nav[f].origin \in store'[Key(doc, f - 1)].effective
  <2>1. f - 1 \in Frame /\ f - 1 # f
    BY <1>2, ParentFrame DEF Frame
  <2>2. nav[f].origin \in Inherited(f) /\ Self(nav[f].headers, nav[f].origin) # {}
    BY <1>2 DEF Record
  <2>3. Known(f) = Adopted(f - 1, doc[f - 1].id)
    BY <1>2, <2>2 DEF Known
  <2>4. <<f - 1, 0>> # <<f, 0>> /\ Key(doc, f - 1) # <<f, 0>>
    BY <2>1 DEF Key
  <2>5. HasRecord(doc, Known(f), f - 1)
    BY <1>1, <1>2, <2>4 DEF HasRecord
  <2>6. Key(doc, f - 1) \in DOMAIN Known(f)
    BY <2>1, <2>3, <2>5, AdoptedHas
  <2>7. store'[Key(doc, f - 1)] = Known(f)[Key(doc, f - 1)]
    BY <1>1, <2>4, <2>6
  <2> QED BY <1>1, <1>2, <2>2, <2>6, <2>7 DEF Inherited
<1>3. /\ Record(f).origin = nav'[f].origin
      /\ Record(f).parent = (IF f = 0 THEN <<>> ELSE Key(doc, f - 1))
      /\ Record(f).effective \subseteq Self(nav'[f].headers, nav'[f].origin)
  BY <1>1 DEF Record
<1> QED BY <1>1, <1>2, <1>3 DEF RecordOf

LEMMA HeadersContent ==
  ASSUME DocumentInv, Content, NEW f \in Frame, storePermissionsPolicy(f)
  PROVE  Content'
<1>0. RecordInv
  BY DEF DocumentInv
<1>1. /\ nav[f].st = "sent" /\ nav'[f].st = "headers"
      /\ \A g \in Frame : g # f => nav'[g] = nav[g]
      /\ doc' = doc
      /\ \A x \in DOMAIN store : x[1] # f
      /\ DOMAIN store' = DOMAIN Known(f) \cup {<<f, 0>>}
      /\ store'[<<f, 0>>] = Record(f)
      /\ \A x \in DOMAIN Known(f) : x # <<f, 0>> => store'[x] = Known(f)[x]
  BY <1>0, HeadersStore
<1>2. PICK a \in Frame, id \in Nat : Takes(Known(f), a, id)
  BY <1>0, KnownTakes
<1>3. \A x \in DOMAIN Known(f) : x[1] # f
  BY <1>1, <1>2 DEF Takes
<1> SUFFICES ASSUME NEW g \in Frame, NEW x \in DOMAIN store', x[1] = g, Fresh(doc, nav', g)
             PROVE  RecordOf(doc, store', g, Load(doc, nav', g), store'[x])
  BY <1>1 DEF Content, Fresh, Load, Above
<1>4. CASE g = f
  <2>1. x = <<f, 0>>
    BY <1>1, <1>3, <1>4
  <2>2. Load(doc, nav', g) = nav'[f]
    BY <1>1, <1>4 DEF Load
  <2> QED BY <1>0, <1>1, <1>4, <2>1, <2>2, RecordIsOf
<1>5. CASE g # f
  <2>1. x \in DOMAIN Known(f) /\ x # <<f, 0>>
    BY <1>1, <1>5
  <2>2. PICK y \in DOMAIN store : y[1] = x[1] /\ Known(f)[x] = store[y]
    BY <1>2, <2>1 DEF Takes
  <2>3. store'[x] = store[y]
    BY <1>1, <2>1, <2>2
  <2>4. Fresh(doc, nav, g) /\ Load(doc, nav', g) = Load(doc, nav, g)
    BY <1>1, <1>5 DEF Fresh, Load
  <2>5. RecordOf(doc, store, g, Load(doc, nav, g), store[y])
    BY <2>2, <2>4 DEF Content
  <2>6. Above(doc, g)
    BY DEF Fresh
  <2>7. RecordOf(doc, Known(f), g, Load(doc, nav, g), store[y])
    BY <1>0, <1>2, <2>5, <2>6, RecordTakes
  <2>8. ASSUME g > 0 PROVE f # g - 1
    <3>1. g - 1 \in Frame /\ g - 1 < g
      BY <2>8, ParentFrame DEF Frame
    <3>2. nav[g - 1] = NoNav
      BY <2>6, <3>1 DEF Above, DocumentInv, Shape
    <3> QED BY <1>1, <3>1, <3>2, NoneIsNo
  <2>9. g \in Nat /\ (g = 0 \/ g > 0)
    BY PolicyAssumption DEF Frame
  <2>10. ASSUME g > 0, HasRecord(doc, store', g - 1)
         PROVE  /\ HasRecord(doc, Known(f), g - 1)
                /\ Key(doc, g - 1) \in DOMAIN Known(f) =>
                     /\ Key(doc, g - 1) \in DOMAIN store'
                     /\ store'[Key(doc, g - 1)] = Known(f)[Key(doc, g - 1)]
    <3>1. <<g - 1, 0>> # <<f, 0>> /\ Key(doc, g - 1) # <<f, 0>>
      BY <2>8, <2>10 DEF Key
    <3> QED BY <1>1, <2>10, <3>1 DEF HasRecord
  <2>11. RecordOf(doc, store', g, Load(doc, nav, g), store[y])
    BY <2>7, <2>9, <2>10, RecordSame
  <2> QED BY <2>3, <2>4, <2>11
<1> QED BY <1>4, <1>5

(* A frame in a document that has started a navigation is not fresh. *)
LEMMA BeforeRequestLower ==
  ASSUME TypeOK, NEW f \in Frame, BeforeRequest(f), NEW g \in Frame, Above(doc', g)
  PROVE  g <= f
<1>1. ~(f < g)
  BY BeforeRequestDoc DEF Above
<1> QED BY <1>1 DEF Frame

LEMMA BeforeRequestStore ==
  ASSUME NEW f \in Frame, BeforeRequest(f)
  PROVE  /\ DOMAIN store' = {x \in DOMAIN store : f # 0 /\ x[1] # f}
         /\ \A x \in DOMAIN store' : store'[x] = store[x]
         /\ DOMAIN deleg' = {x \in DOMAIN deleg : f # 0 /\ x[1] # f}
BY DEF BeforeRequest, Without, Cleared

LEMMA BeforeRequestContent ==
  ASSUME DocumentInv, Content, NEW f \in Frame, BeforeRequest(f)
  PROVE  Content'
<1>0. TypeOK
  BY DEF DocumentInv, RecordInv
<1>1. /\ \A g \in Frame : g # f => doc'[g] = doc[g] /\ nav'[g] = nav[g]
      /\ DOMAIN store' = {x \in DOMAIN store : f # 0 /\ x[1] # f}
      /\ \A x \in DOMAIN store' : store'[x] = store[x]
  BY <1>0, BeforeRequestDoc, BeforeRequestStore
<1> SUFFICES ASSUME NEW g \in Frame, NEW x \in DOMAIN store', x[1] = g, Fresh(doc', nav', g)
             PROVE  RecordOf(doc', store', g, Load(doc', nav', g), store'[x])
  BY DEF Content, Fresh, Load, Above
<1>2. g <= f /\ g # f /\ f # 0
  BY <1>0, <1>1, BeforeRequestLower DEF Fresh
<1>3. \A h \in Frame : h <= g => h # f /\ doc'[h] = doc[h] /\ nav'[h] = nav[h]
  BY <1>1, <1>2 DEF Frame
<1>4. g \in Nat /\ (g = 0 \/ g > 0)
  BY PolicyAssumption DEF Frame
<1>5. Fresh(doc, nav, g) /\ Load(doc', nav', g) = Load(doc, nav, g)
  BY <1>3, <1>4 DEF Fresh, Load, Above, Frame
<1>6. RecordOf(doc, store, g, Load(doc, nav, g), store[x])
  BY <1>1, <1>5 DEF Content
<1>7. ASSUME g > 0
      PROVE  /\ Key(doc', g - 1) = Key(doc, g - 1)
             /\ HasRecord(doc', store', g - 1) => HasRecord(doc, store, g - 1)
             /\ Key(doc, g - 1) \in DOMAIN store =>
                  /\ Key(doc, g - 1) \in DOMAIN store'
                  /\ store'[Key(doc, g - 1)] = store[Key(doc, g - 1)]
  <2>1. g - 1 \in Frame /\ g - 1 # f /\ doc'[g - 1] = doc[g - 1]
    BY <1>3, <1>4, <1>7, ParentFrame
  <2> QED BY <1>1, <1>2, <2>1 DEF Key, HasRecord
<1> QED BY <1>1, <1>4, <1>5, <1>6, <1>7, RecordSame

LEMMA CommitContent ==
  ASSUME DocumentInv, Content, NEW f \in Frame, Commit(f)
  PROVE  Content'
<1>0. TypeOK /\ store' = store
  BY DEF DocumentInv, RecordInv, Commit
<1>1. /\ nav[f].st = "headers"
      /\ \A g \in Frame : /\ g < f => doc'[g] = doc[g] /\ nav'[g] = nav[g]
                          /\ g > f => doc'[g] = None
                          /\ ~(g < f) => nav'[g] = NoNav
      /\ doc'[f].origin = nav[f].origin /\ doc'[f].headers = nav[f].headers
  BY <1>0, CommitDoc
<1> SUFFICES ASSUME NEW g \in Frame, NEW x \in DOMAIN store, x[1] = g, Fresh(doc', nav', g)
             PROVE  RecordOf(doc', store, g, Load(doc', nav', g), store[x])
  BY <1>0 DEF Content, Fresh, Load, Above
<1>2. g \in Nat /\ f \in Nat /\ (g = 0 \/ g > 0)
  BY PolicyAssumption DEF Frame
<1>3. g <= f
  BY <1>1, <1>2, NoneIsNo DEF Fresh
<1>4. \A h \in Frame : h < g => doc'[h] = doc[h]
  BY <1>1, <1>2, <1>3 DEF Frame
<1>5. Above(doc, g)
  BY <1>4 DEF Fresh, Above
<1>6. Fresh(doc, nav, g) /\ /\ Load(doc', nav', g).origin = Load(doc, nav, g).origin
                            /\ Load(doc', nav', g).headers = Load(doc, nav, g).headers
  <2>1. CASE g = f
    BY <1>1, <1>2, <1>5, <2>1, NoneIsNo DEF Fresh, Load
  <2>2. CASE g < f
    BY <1>1, <1>5, <2>2 DEF Fresh, Load
  <2> QED BY <1>2, <1>3, <2>1, <2>2
<1>7. RecordOf(doc, store, g, Load(doc, nav, g), store[x])
  BY <1>6 DEF Content
<1>8. RecordOf(doc, store, g, Load(doc', nav', g), store[x])
  BY <1>6, <1>7 DEF RecordOf
<1>9. g > 0 => Key(doc', g - 1) = Key(doc, g - 1)
  BY <1>2, <1>4, ParentFrame DEF Key
<1> QED BY <1>2, <1>8, <1>9, RecordSame DEF HasRecord

LEMMA AbortContent ==
  ASSUME DocumentInv, Content, NEW f \in Frame, Abort(f)
  PROVE  Content'
<1>1. nav[f] # NoNav /\ nav' = [nav EXCEPT ![f] = NoNav] /\ UNCHANGED <<doc, store>>
  BY DEF Abort
<1>2. nav'[f] = NoNav /\ \A g \in Frame : g # f => nav'[g] = nav[g]
  BY <1>1 DEF DocumentInv, RecordInv, TypeOK
<1> SUFFICES ASSUME NEW g \in Frame, NEW x \in DOMAIN store, x[1] = g, Fresh(doc, nav', g)
             PROVE  RecordOf(doc, store, g, Load(doc, nav', g), store[x])
  BY <1>1 DEF Content, Fresh, Load, Above
<1>3. g # f
  BY <1>1, <1>2, NoneIsNo DEF Fresh, DocumentInv, Shape
<1> QED BY <1>2, <1>3 DEF Content, Fresh, Load

LEMMA NextContent == DocumentInv /\ Content /\ [Next]_vars => Content'
<1> SUFFICES ASSUME DocumentInv, Content, [Next]_vars PROVE Content'
  OBVIOUS
<1>1. CASE \E f \in Frame : BeforeRequest(f)
  BY <1>1, BeforeRequestContent
<1>2. CASE \E f \in Frame : storePermissionsPolicy(f)
  BY <1>2, HeadersContent
<1>3. CASE \E f \in Frame : Commit(f)
  BY <1>3, CommitContent
<1>4. CASE \E f \in Frame : Abort(f)
  BY <1>4, AbortContent
<1>5. CASE UNCHANGED <<doc, nav, store>>
  BY <1>5 DEF Content, Fresh, Load, Above, RecordOf, HasRecord, Key
<1>6. ASSUME NEW k \in asks, store' = Entries(k), UNCHANGED <<doc, nav>> PROVE Content'
  <2>1. k.f \in Frame /\ k.id \in Nat
    BY DEF DocumentInv, RecordInv, TypeOK, Question, Loaded
  <2>2. Takes(Entries(k), k.f, k.id)
    BY EntriesTakes DEF DocumentInv, RecordInv
  <2>3. Takes(store', k.f, k.id)
    BY <1>6, <2>2
  <2> QED BY <1>6, <2>1, <2>3, TakesContent DEF DocumentInv
<1>7. (\E f \in Frame : handleGetPolicyRequest(f)) => UNCHANGED <<doc, nav, store>>
  BY DEF handleGetPolicyRequest
<1>8. \A k \in asks : handleSetFrameDelegation(k) \/ handleGetPolicy(k) =>
        store' = Entries(k) /\ UNCHANGED <<doc, nav>>
  BY DEF handleSetFrameDelegation, handleGetPolicy
<1>9. CASE UNCHANGED vars
  BY <1>5, <1>9 DEF vars
<1> QED BY <1>1, <1>2, <1>3, <1>4, <1>5, <1>6, <1>7, <1>8, <1>9 DEF Next

---------------------------------------------------------------------------
(* A document is allowed by itself, by the document it is in, and by the   *)
(* delegation.                                                             *)

NearListed(f) ==
  /\ Listed(doc, f, doc[f].origin)
  /\ f > 0 => /\ Listed(doc, f - 1, doc[f].origin)
              /\ doc[f].origin = doc[f - 1].origin \/ hasHidDelegation(f)
Near == \A f \in Frame : Untouched(f) /\ ans[f] = "allowed" => NearListed(f)

LEMMA FrameNat == \A f \in Frame : f \in Nat /\ (f = 0 \/ f > 0) /\ 0..f \subseteq Frame
BY PolicyAssumption DEF Frame

LEMMA UntouchedIs ==
  ASSUME Shape, NEW f \in Frame, Untouched(f)
  PROVE  /\ doc[f] # None /\ nav[f] = NoNav
         /\ Above(doc, f) /\ Fresh(doc, nav, f) /\ Load(doc, nav, f) = doc[f]
         /\ f > 0 => Untouched(f - 1)
<1>1. \A g \in Frame : g <= f => doc[g] # None /\ ~doc[g].touched
  BY FrameNat DEF Untouched, Frame
<1>2. doc[f] # None /\ ~doc[f].touched /\ nav[f] = NoNav
  BY <1>1, FrameNat DEF Shape
<1>3. Above(doc, f)
  BY <1>1, FrameNat DEF Above
<1>4. f > 0 => Untouched(f - 1)
  BY FrameNat DEF Untouched
<1> QED BY <1>2, <1>3, <1>4, NoneIsNo DEF Fresh, Load

(* What is above a frame decides about it. *)
LEMMA LowerSame ==
  ASSUME NEW f \in Frame, \A g \in Frame : g <= f => doc'[g] = doc[g]
  PROVE  Untouched(f)' = Untouched(f) /\ NearListed(f)' = NearListed(f)
<1>1. \A g \in 0..f : doc'[g] = doc[g]
  BY FrameNat DEF Frame
<1>2. doc'[f] = doc[f] /\ (f > 0 => doc'[f - 1] = doc[f - 1])
  BY <1>1, FrameNat
<1>3. Untouched(f)' = Untouched(f)
  BY <1>1 DEF Untouched
<1>4. hasHidDelegation(f)' = hasHidDelegation(f)
  BY <1>2, DelegationSame
<1> QED BY <1>2, <1>3, <1>4 DEF NearListed, Listed

LEMMA ReplyAns ==
  ASSUME TypeOK, NEW k \in asks, NEW a, Reply(k, a)
  PROVE  \A f \in Frame : \/ ans'[f] = ans[f]
                          \/ f = k.f /\ doc[f].id = k.id /\ ans'[f] = a
BY DEF Reply, TypeOK

(* The entry a question finds is the record of the document's load. *)
LEMMA EntryIs ==
  ASSUME DocumentInv, Content, NEW k \in asks, NEW e \in Entry(k), Untouched(k.f)
  PROVE  RecordOf(doc, store, k.f, doc[k.f], e)
<1>1. k.f \in Frame /\ TypeOK /\ Shape
  BY DEF DocumentInv, RecordInv, TypeOK, Question
<1>2. Takes(Entries(k), k.f, k.id)
  BY <1>1, EntriesTakes
<1>3. <<k.f, k.id>> \in DOMAIN Entries(k) /\ e = Entries(k)[<<k.f, k.id>>]
  BY DEF Entry
<1>4. PICK y \in DOMAIN store : y[1] = k.f /\ e = store[y]
  BY <1>2, <1>3 DEF Takes
<1>5. Fresh(doc, nav, k.f) /\ Load(doc, nav, k.f) = doc[k.f]
  BY <1>1, UntouchedIs
<1> QED BY <1>1, <1>4, <1>5 DEF Content

(* A record under the id of an untouched document is that of its load. *)
LEMMA KeyIs ==
  ASSUME DocumentInv, Content, NEW f \in Frame, Untouched(f), Key(doc, f) \in DOMAIN store
  PROVE  RecordOf(doc, store, f, doc[f], store[Key(doc, f)])
<1>1. Fresh(doc, nav, f) /\ Load(doc, nav, f) = doc[f]
  BY UntouchedIs DEF DocumentInv
<1>2. Key(doc, f)[1] = f
  BY DEF Key
<1> QED BY <1>1, <1>2 DEF Content

(* policyForRequest: the chain of records stands for the documents.        *)
LEMMA PermitsNear ==
  ASSUME DocumentInv, Content, NEW k \in asks, NEW e \in Entry(k), Permits(k, e),
         Untouched(k.f), doc[k.f].id = k.id
  PROVE  NearListed(k.f)
<1> DEFINE f == k.f
<1>1. f \in Frame
  BY DEF DocumentInv, RecordInv, TypeOK, Question
<1>2. RecordOf(doc, store, f, doc[f], e)
  BY EntryIs
<1>3. e.origin = doc[f].origin /\ e.origin \in e.effective
  BY <1>2 DEF Permits, RecordOf
<1>4. Listed(doc, f, doc[f].origin)
  BY <1>2, <1>3 DEF Listed, RecordOf
<1>5. ASSUME f > 0
      PROVE  /\ Listed(doc, f - 1, doc[f].origin)
             /\ doc[f].origin = doc[f - 1].origin \/ hasHidDelegation(f)
  <2>1. f - 1 \in Frame /\ Untouched(f - 1)
    BY <1>1, <1>5, ParentFrame, UntouchedIs DEF DocumentInv
  <2>2. f # 0
    BY <1>5, <1>1, FrameNat
  <2>3. e.parent = Key(doc, f - 1) /\ e.parent # <<>>
    BY <1>2, <2>2 DEF RecordOf, Key
  <2>4. Key(doc, f - 1) \in DOMAIN store
    BY <2>3 DEF Permits
  <2>5. doc[f].origin \in store[Key(doc, f - 1)].effective
    BY <1>2, <1>3, <1>5, <2>4 DEF RecordOf, HasRecord
  <2>6. RecordOf(doc, store, f - 1, doc[f - 1], store[Key(doc, f - 1)])
    BY <2>1, <2>4, KeyIs
  <2>7. Listed(doc, f - 1, doc[f].origin)
    BY <2>5, <2>6 DEF RecordOf, Listed
  <2>8. store[e.parent].origin = doc[f - 1].origin
    BY <2>3, <2>6 DEF RecordOf
  <2>9. CASE store[e.parent].origin = e.origin
    BY <1>3, <2>7, <2>8, <2>9
  <2>10. CASE <<k.f, k.id>> \in DOMAIN deleg /\ deleg[<<k.f, k.id>>]
    <3>1. deleg[Key(doc, f)] = hasHidDelegation(f) /\ Key(doc, f) = <<k.f, k.id>>
      BY <1>1, <2>10 DEF DocumentInv, Delegations, Key
    <3> QED BY <2>7, <2>10, <3>1
  <2> QED BY <2>3, <2>9, <2>10 DEF Permits
<1> QED BY <1>4, <1>5 DEF NearListed

LEMMA NextNear == DocumentInv /\ Content /\ Near /\ [Next]_vars => Near'
<1> SUFFICES ASSUME DocumentInv, Content, Near, [Next]_vars,
                    NEW g \in Frame, Untouched(g)', ans'[g] = "allowed"
             PROVE  NearListed(g)'
  BY DEF Near
<1>0. TypeOK
  BY DEF DocumentInv, RecordInv
<1>1. ASSUME \A h \in Frame : h <= g => doc'[h] = doc[h], ans'[g] = ans[g]
      PROVE  NearListed(g)'
  BY <1>1, LowerSame DEF Near
<1>2. ASSUME NEW f \in Frame, BeforeRequest(f) PROVE NearListed(g)'
  <2>1. g \in 0..g
    BY FrameNat
  <2>2. doc'[g] # None /\ ~doc'[g].touched
    BY <2>1 DEF Untouched
  <2>3. g # f
    BY <1>0, <1>2, <2>2, BeforeRequestDoc
  <2>4. ~(f < g)
    <3>1. f < g => f \in 0..g
      BY FrameNat
    <3>2. ~(doc'[f] # None /\ ~doc'[f].touched)
      BY <1>0, <1>2, BeforeRequestDoc
    <3> QED BY <3>1, <3>2 DEF Untouched
  <2>5. \A h \in Frame : h <= g => h # f
    BY <2>3, <2>4 DEF Frame
  <2>6. \A h \in Frame : h <= g => doc'[h] = doc[h]
    BY <1>0, <1>2, <2>5, BeforeRequestDoc
  <2>7. ans' = ans
    BY <1>2 DEF BeforeRequest
  <2> QED BY <1>1, <2>6, <2>7
<1>3. ASSUME NEW f \in Frame, Commit(f) PROVE NearListed(g)'
  <2>1. g < f
    BY <1>0, <1>3, CommitDoc
  <2>2. \A h \in Frame : h <= g => h < f
    BY <2>1 DEF Frame
  <2> QED BY <1>0, <1>1, <1>3, <2>1, <2>2, CommitDoc
<1>4. CASE UNCHANGED <<doc, ans>>
  BY <1>1, <1>4
<1>5. ASSUME NEW k \in asks, NEW a, Reply(k, a), a = "allowed" => handleGetPolicy(k),
             UNCHANGED doc
      PROVE  NearListed(g)'
  <2>1. Untouched(g) /\ NearListed(g)' = NearListed(g)
    BY <1>5, LowerSame
  <2>2. CASE ans'[g] = ans[g]
    BY <1>1, <1>5, <2>2
  <2>3. CASE g = k.f /\ doc[g].id = k.id /\ ans'[g] = a
    <3>1. handleGetPolicy(k)
      BY <1>5, <2>3
    <3>2. Reply(k, IF \E e \in Entry(k) : Permits(k, e) THEN "allowed" ELSE "none")
      BY <3>1 DEF handleGetPolicy
    <3>3. ans[g] = "allowed" \/ \E e \in Entry(k) : Permits(k, e)
      BY <1>0, <3>2, ReplyAns
    <3>4. CASE ans[g] = "allowed"
      BY <2>1, <3>4 DEF Near
    <3>5. CASE \E e \in Entry(k) : Permits(k, e)
      BY <2>1, <2>3, <3>5, PermitsNear
    <3> QED BY <3>3, <3>4, <3>5
  <2> QED BY <1>0, <1>5, <2>2, <2>3, ReplyAns
<1>6. ASSUME NEW k \in asks, handleSetFrameDelegation(k) PROVE NearListed(g)'
  <2>1. UNCHANGED doc /\ (Reply(k, "none") \/ UNCHANGED ans)
    BY <1>6 DEF handleSetFrameDelegation
  <2>2. CASE Reply(k, "none")
    BY <1>5, <2>1, <2>2
  <2> QED BY <1>4, <2>1, <2>2
<1>7. ASSUME NEW k \in asks, handleGetPolicy(k) PROVE NearListed(g)'
  <2>1. PICK a : Reply(k, a)
    BY <1>7 DEF handleGetPolicy
  <2>2. UNCHANGED doc
    BY <1>7 DEF handleGetPolicy
  <2> QED BY <1>5, <1>7, <2>1, <2>2
<1>8. \A f \in Frame : storePermissionsPolicy(f) \/ Abort(f) \/ handleGetPolicyRequest(f) =>
        UNCHANGED <<doc, ans>>
  BY DEF storePermissionsPolicy, Abort, handleGetPolicyRequest
<1>9. CASE UNCHANGED vars
  BY <1>4, <1>9 DEF vars
<1> QED BY <1>2, <1>3, <1>4, <1>6, <1>7, <1>8, <1>9 DEF Next

---------------------------------------------------------------------------
(* Loads.  Each is a navigation under way or a document, or it is over.    *)

Pending == {f \in Frame : nav[f] # NoNav}
Count == Cardinality(Opened) + Cardinality(Pending) <= loads

(* No frame was navigated before, and no navigation was given up. *)
Clean == loads = Cardinality(Opened) + Cardinality(Pending)

LEMMA FiniteFrames ==
  ASSUME NEW S \in SUBSET Frame PROVE IsFiniteSet(S) /\ Cardinality(S) \in Nat
<1>1. IsFiniteSet(Frame)
  BY FS_Interval, PolicyAssumption DEF Frame
<1>2. IsFiniteSet(S)
  BY <1>1, FS_Subset
<1> QED BY <1>2, FS_CardinalityType

LEMMA OpenedFrames == Opened \subseteq Frame /\ Pending \subseteq Frame
BY DEF Opened, Pending

LEMMA OpenedFramesNext == Opened' \subseteq Frame /\ Pending' \subseteq Frame
BY DEF Opened, Pending

LEMMA InitCount == Init => Count
<1> SUFFICES ASSUME Init PROVE Count
  OBVIOUS
<1>1. Opened = {} /\ Pending = {} /\ loads = 0
  BY DEF Init, Opened, Pending
<1>2. Cardinality(Opened) = 0 /\ Cardinality(Pending) = 0
  BY <1>1, FS_EmptySet
<1> QED BY <1>1, <1>2 DEF Count

LEMMA BeforeRequestCount ==
  ASSUME TypeOK, NEW f \in Frame, BeforeRequest(f)
  PROVE  (Count => Count') /\ (Clean' => Clean)
<1>1. Opened' = Opened /\ Pending' = Pending \cup {f} /\ f \notin Pending
  BY BeforeRequestDoc DEF Opened, Pending
<1>2. loads' = loads + 1 /\ loads \in Nat
  BY BeforeRequestDoc DEF TypeOK
<1>3. Cardinality(Pending') = Cardinality(Pending) + 1
  BY <1>1, FS_AddElement, FiniteFrames, OpenedFrames
<1>4. Cardinality(Opened') = Cardinality(Opened)
  BY <1>1
<1>5. Cardinality(Opened) \in Nat /\ Cardinality(Pending) \in Nat
  BY FiniteFrames, OpenedFrames
<1> DEFINE o == Cardinality(Opened)
           p == Cardinality(Pending)
<1>6. Count => o + (p + 1) <= loads + 1
  BY <1>2, <1>5 DEF Count
<1>7. loads + 1 = o + (p + 1) => loads = o + p
  BY <1>2, <1>5
<1> QED BY <1>2, <1>3, <1>4, <1>6, <1>7 DEF Count, Clean

(* A document that replaces another, or ends those in it, is not clean. *)
LEMMA CommitCount ==
  ASSUME DocumentInv, Count, NEW f \in Frame, Commit(f)
  PROVE  Count' /\ (Clean' => Clean /\ \A g \in Frame : f <= g => doc[g] = None)
<1>0. TypeOK /\ loads' = loads /\ loads \in Nat
  BY DEF DocumentInv, RecordInv, TypeOK, Commit
<1> DEFINE low == {g \in Opened : g < f}
           rest == {g \in Pending : g < f}
<1>1. /\ nav[f].st = "headers" /\ doc'[f] # None
      /\ \A g \in Frame : /\ g < f => doc'[g] = doc[g] /\ nav'[g] = nav[g]
                          /\ g > f => doc'[g] = None
                          /\ ~(g < f) => nav'[g] = NoNav
  BY <1>0, CommitDoc
<1>2. Opened' = low \cup {f} /\ f \notin low
  BY <1>1, FrameNat DEF Opened, Frame
<1>3. Pending' = rest /\ f \in Pending /\ f \notin rest
  BY <1>1, FrameNat, NoneIsNo DEF Pending
<1>4. low \subseteq Opened /\ rest \subseteq Pending \ {f}
  BY <1>3
<1>5. IsFiniteSet(low) /\ Cardinality(low) \in Nat
  BY <1>4, FiniteFrames, OpenedFrames
<1>6. IsFiniteSet(rest) /\ Cardinality(rest) \in Nat
  BY <1>4, FiniteFrames, OpenedFrames
<1>7. /\ IsFiniteSet(Opened) /\ Cardinality(Opened) \in Nat
      /\ IsFiniteSet(Pending) /\ Cardinality(Pending) \in Nat
  BY FiniteFrames, OpenedFrames
<1>8. Cardinality(low \cup {f}) = Cardinality(low) + 1
  BY <1>2, <1>5, FS_AddElement
<1>9. IsFiniteSet(Pending \ {f}) /\ Cardinality(Pending \ {f}) = Cardinality(Pending) - 1
  BY <1>3, <1>7, FS_RemoveElement
<1>10. Cardinality(rest) <= Cardinality(Pending) - 1
  BY <1>4, <1>9, FS_Subset
<1>11. Cardinality(low) <= Cardinality(Opened) /\ (Cardinality(low) = Cardinality(Opened) => low = Opened)
  BY <1>4, <1>7, FS_Subset
<1>12. Cardinality(Opened') = Cardinality(low) + 1 /\ Cardinality(Pending') = Cardinality(rest)
  BY <1>2, <1>3, <1>8
<1> DEFINE l == Cardinality(low)
           r == Cardinality(rest)
           o == Cardinality(Opened)
           p == Cardinality(Pending)
<1>13. o + p <= loads /\ l \in Nat /\ r \in Nat /\ o \in Nat /\ p \in Nat
       /\ l <= o /\ r <= p - 1
  BY <1>5, <1>6, <1>7, <1>10, <1>11 DEF Count
<1> HIDE DEF l, r, o, p
<1>14. (l + 1) + r <= loads
  BY <1>0, <1>13
<1>15. loads = (l + 1) + r => loads = o + p /\ l = o
  BY <1>0, <1>13
<1>16. Count'
  BY <1>0, <1>12, <1>14 DEF Count, l, r
<1>17. ASSUME Clean' PROVE Clean /\ \A g \in Frame : f <= g => doc[g] = None
  <2>1. loads = (l + 1) + r
    BY <1>0, <1>12, <1>17 DEF Clean, l, r
  <2>2. Clean
    BY <1>15, <2>1 DEF Clean, o, p
  <2>3. low = Opened
    BY <1>11, <1>15, <2>1 DEF l, o
  <2>4. \A g \in Frame : f <= g => g \notin low
    BY FrameNat
  <2>5. \A g \in Frame : f <= g => doc[g] = None
    BY <2>3, <2>4 DEF Opened
  <2> QED BY <2>2, <2>5
<1> QED BY <1>16, <1>17

LEMMA AbortCount ==
  ASSUME TypeOK, Count, NEW f \in Frame, Abort(f)
  PROVE  Count' /\ ~Clean'
<1>1. nav[f] # NoNav /\ nav' = [nav EXCEPT ![f] = NoNav] /\ doc' = doc /\ loads' = loads
  BY DEF Abort
<1>2. Opened' = Opened /\ f \in Pending /\ Pending' = Pending \ {f}
  BY <1>1 DEF Opened, Pending, TypeOK
<1>3. /\ Cardinality(Opened) \in Nat
      /\ IsFiniteSet(Pending) /\ Cardinality(Pending) \in Nat
  BY FiniteFrames, OpenedFrames
<1>4. Cardinality(Pending') = Cardinality(Pending) - 1 /\ Cardinality(Opened') = Cardinality(Opened)
  BY <1>2, <1>3, FS_RemoveElement
<1> DEFINE o == Cardinality(Opened)
           p == Cardinality(Pending)
<1>5. o + p <= loads /\ o \in Nat /\ p \in Nat /\ loads \in Nat
  BY <1>3 DEF Count, TypeOK
<1> HIDE DEF o, p
<1>6. o + (p - 1) <= loads /\ loads # o + (p - 1)
  BY <1>5
<1> QED BY <1>1, <1>4, <1>6 DEF Count, Clean, o, p

LEMMA OtherCount ==
  ASSUME UNCHANGED <<doc, loads>>, \A f \in Frame : nav'[f] # NoNav <=> nav[f] # NoNav
  PROVE  (Count' <=> Count) /\ (Clean' <=> Clean)
<1>1. Opened' = Opened /\ Pending' = Pending
  BY DEF Opened, Pending
<1> QED BY <1>1 DEF Count, Clean

LEMMA NextCount ==
  ASSUME DocumentInv, Count, [Next]_vars
  PROVE  /\ Count' /\ (Clean' => Clean)
         /\ \A f \in Frame : /\ Commit(f) /\ Clean' => \A g \in Frame : f <= g => doc[g] = None
                             /\ Abort(f) => ~Clean'
<1>0. TypeOK
  BY DEF DocumentInv, RecordInv
<1>1. ASSUME NEW f \in Frame, BeforeRequest(f) PROVE Count' /\ (Clean' => Clean)
  BY <1>0, <1>1, BeforeRequestCount
<1>2. ASSUME NEW f \in Frame, Commit(f) PROVE Count' /\ (Clean' => Clean)
  BY <1>2, CommitCount
<1>3. ASSUME NEW f \in Frame, Abort(f) PROVE Count' /\ (Clean' => Clean)
  BY <1>0, <1>3, AbortCount
<1>4. ASSUME NEW f \in Frame, storePermissionsPolicy(f) PROVE Count' /\ (Clean' => Clean)
  <2>1. /\ nav[f].st = "sent" /\ nav'[f].st = "headers" /\ UNCHANGED <<doc, loads>>
        /\ \A g \in Frame : g # f => nav'[g] = nav[g]
    BY <1>4, HeadersStore DEF DocumentInv
  <2>2. nav[f] # NoNav /\ nav'[f] # NoNav
    BY <2>1, NoneIsNo
  <2>3. \A g \in Frame : nav'[g] # NoNav <=> nav[g] # NoNav
    BY <2>1, <2>2
  <2> QED BY <2>1, <2>3, OtherCount
<1>5. ASSUME UNCHANGED <<doc, nav, loads>> PROVE Count' /\ (Clean' => Clean)
  <2>1. \A g \in Frame : nav'[g] # NoNav <=> nav[g] # NoNav
    BY <1>5
  <2> QED BY <1>5, <2>1, OtherCount
<1>6. /\ \A f \in Frame : handleGetPolicyRequest(f) => UNCHANGED <<doc, nav, loads>>
      /\ \A k \in asks : handleSetFrameDelegation(k) \/ handleGetPolicy(k) =>
           UNCHANGED <<doc, nav, loads>>
  BY DEF handleGetPolicyRequest, handleSetFrameDelegation, handleGetPolicy
<1>7. ASSUME UNCHANGED vars PROVE Count' /\ (Clean' => Clean)
  <2>1. UNCHANGED <<doc, nav, loads>>
    BY <1>7 DEF vars
  <2> QED BY <1>5, <2>1
<1>8. Count' /\ (Clean' => Clean)
  BY <1>1, <1>2, <1>3, <1>4, <1>5, <1>6, <1>7 DEF Next
<1>9. \A f \in Frame : /\ Commit(f) /\ Clean' => \A g \in Frame : f <= g => doc[g] = None
                       /\ Abort(f) => ~Clean'
  BY <1>0, CommitCount, AbortCount
<1> QED BY <1>8, <1>9

---------------------------------------------------------------------------
(* As long as no frame was navigated before *)

(* Every document from the top to frame f lists the one in it; the one in  *)
(* frame f is of origin o.                                                 *)
Chain(d, f, o) ==
  \A g \in Frame : 0 < g /\ g <= f => Listed(d, g - 1, IF g = f THEN o ELSE d[g].origin)
Exact(d, f, c, r) ==
  r.effective = IF Chain(d, f, c.origin) THEN Self(c.headers, c.origin) ELSE {}

(* Only documents of now ask, *)
Asked == Clean => \A k \in asks : doc[k.f] # None /\ doc[k.f].id = k.id

(* a load has its record, which says what the chain of documents permits,  *)
Filed(d, n, s, f) ==
  Fresh(d, n, f) /\ (n[f].st = "headers" => d[f] = None) =>
    /\ <<f, 0>> \in DOMAIN s \/ (n[f].st # "headers" /\ Key(d, f) \in DOMAIN s)
    /\ \A x \in DOMAIN s : x[1] = f => Exact(d, f, Load(d, n, f), s[x])
Recorded == Clean => \A f \in Frame : Filed(doc, nav, store, f)

(* the delegation that was recorded for a question is there when it is     *)
(* answered,                                                               *)
Delegated == Clean =>
  \A k \in asks : k.st = "get" /\ Untouched(k.f) => <<k.f, k.id>> \in DOMAIN deleg

(* and the answer is that of the chain.                                    *)
ChainListed(f) ==
  /\ Listed(doc, f, doc[f].origin) /\ Chain(doc, f, doc[f].origin)
  /\ f > 0 => doc[f].origin = doc[f - 1].origin \/ hasHidDelegation(f)
Full == Clean => \A f \in Frame :
  Untouched(f) /\ ans[f] # "unknown" => (ans[f] = "allowed" <=> ChainListed(f))

LEMMA ChainTop == \A d, o : Chain(d, 0, o)
BY FrameNat DEF Chain, Frame

LEMMA ChainStep ==
  ASSUME NEW d, NEW f \in Frame, f > 0, NEW o
  PROVE  Chain(d, f, o) <=> Chain(d, f - 1, d[f - 1].origin) /\ Listed(d, f - 1, o)
<1>0. f \in Nat /\ f - 1 \in Frame /\ f - 1 \in Nat
  BY ParentFrame, FrameNat
<1>1. ASSUME Chain(d, f, o) PROVE Chain(d, f - 1, d[f - 1].origin) /\ Listed(d, f - 1, o)
  <2>1. Listed(d, f - 1, o)
    BY <1>0, <1>1 DEF Chain
  <2>2. ASSUME NEW g \in Frame, 0 < g, g <= f - 1
        PROVE  Listed(d, g - 1, IF g = f - 1 THEN d[f - 1].origin ELSE d[g].origin)
    <3>1. g \in Nat /\ g <= f /\ g # f
      BY <1>0, <2>2, FrameNat
    <3>2. Listed(d, g - 1, d[g].origin)
      BY <1>1, <2>2, <3>1 DEF Chain
    <3> QED BY <3>2
  <2> QED BY <2>1, <2>2 DEF Chain
<1>2. ASSUME Chain(d, f - 1, d[f - 1].origin), Listed(d, f - 1, o) PROVE Chain(d, f, o)
  <2>1. ASSUME NEW g \in Frame, 0 < g, g <= f
        PROVE  Listed(d, g - 1, IF g = f THEN o ELSE d[g].origin)
    <3>1. CASE g = f
      BY <1>2, <3>1
    <3>2. CASE g # f
      <4>1. g <= f - 1
        BY <1>0, <2>1, <3>2, FrameNat
      <4>2. Listed(d, g - 1, IF g = f - 1 THEN d[f - 1].origin ELSE d[g].origin)
        BY <1>2, <2>1, <4>1 DEF Chain
      <4> QED BY <3>2, <4>2
    <3> QED BY <3>1, <3>2
  <2> QED BY <2>1 DEF Chain
<1> QED BY <1>1, <1>2

LEMMA ChainSame ==
  ASSUME NEW d, NEW e, NEW f \in Frame, NEW o, \A g \in Frame : g < f => e[g] = d[g]
  PROVE  Chain(e, f, o) <=> Chain(d, f, o)
<1>1. ASSUME NEW g \in Frame, 0 < g, g <= f
      PROVE  Listed(e, g - 1, IF g = f THEN o ELSE e[g].origin) <=>
             Listed(d, g - 1, IF g = f THEN o ELSE d[g].origin)
  <2>1. g - 1 \in Frame /\ g - 1 < f /\ (g # f => g < f)
    BY <1>1, ParentFrame, FrameNat
  <2>2. e[g - 1] = d[g - 1] /\ (g # f => e[g] = d[g])
    BY <2>1
  <2> QED BY <2>2 DEF Listed
<1> QED BY <1>1 DEF Chain

LEMMA NextAsked == DocumentInv /\ Count /\ Asked /\ [Next]_vars => Asked'
<1> SUFFICES ASSUME DocumentInv, Count, Asked, [Next]_vars, Clean', NEW k \in asks'
             PROVE  doc'[k.f] # None /\ doc'[k.f].id = k.id
  BY DEF Asked
<1>0. TypeOK
  BY DEF DocumentInv, RecordInv
<1>1. Clean /\ \A f \in Frame : /\ Commit(f) => \A g \in Frame : f <= g => doc[g] = None
  BY NextCount
<1>2. \A j \in asks : j.f \in Frame /\ doc[j.f] # None /\ doc[j.f].id = j.id
  BY <1>0, <1>1 DEF Asked, TypeOK, Question
<1>3. ASSUME UNCHANGED doc, NEW j \in asks, k.f = j.f, k.id = j.id
      PROVE  doc'[k.f] # None /\ doc'[k.f].id = k.id
  BY <1>2, <1>3
<1>4. ASSUME NEW f \in Frame, BeforeRequest(f) PROVE doc'[k.f] # None /\ doc'[k.f].id = k.id
  <2>1. k \in asks
    BY <1>4 DEF BeforeRequest
  <2> QED BY <1>0, <1>2, <1>4, <2>1, BeforeRequestDoc
<1>5. ASSUME NEW f \in Frame, Commit(f) PROVE doc'[k.f] # None /\ doc'[k.f].id = k.id
  <2>1. PICK j \in asks : k = j \/ k = [j EXCEPT !.orphan = TRUE]
    BY <1>5 DEF Commit
  <2>2. k.f = j.f /\ k.id = j.id
    BY <1>0, <2>1 DEF TypeOK, Question
  <2>3. j.f < f
    BY <1>1, <1>2, <1>5, FrameNat
  <2> QED BY <1>0, <1>2, <1>5, <2>2, <2>3, CommitDoc
<1>6. ASSUME NEW f \in Frame, handleGetPolicyRequest(f) PROVE doc'[k.f] # None /\ doc'[k.f].id = k.id
  <2>1. UNCHANGED doc /\ doc[f] # None
    BY <1>6 DEF handleGetPolicyRequest
  <2>2. CASE k \in asks
    BY <1>3, <2>1, <2>2
  <2>3. CASE k \notin asks
    <3>1. k.f = f /\ k.id = doc[f].id
      BY <1>6, <2>3 DEF handleGetPolicyRequest
    <3> QED BY <2>1, <3>1
  <2> QED BY <2>2, <2>3
<1>7. ASSUME NEW q \in asks, handleSetFrameDelegation(q)
      PROVE  doc'[k.f] # None /\ doc'[k.f].id = k.id
  <2>1. UNCHANGED doc
    BY <1>7 DEF handleSetFrameDelegation
  <2>2. k \in asks \/ k = [q EXCEPT !.st = "get"]
    BY <1>7 DEF handleSetFrameDelegation, Reply
  <2>3. [q EXCEPT !.st = "get"].f = q.f /\ [q EXCEPT !.st = "get"].id = q.id
    BY <1>0 DEF TypeOK, Question
  <2> QED BY <1>3, <2>1, <2>2, <2>3
<1>8. ASSUME NEW q \in asks, handleGetPolicy(q) PROVE doc'[k.f] # None /\ doc'[k.f].id = k.id
  <2>1. UNCHANGED doc /\ k \in asks
    BY <1>8 DEF handleGetPolicy, Reply
  <2> QED BY <1>3, <2>1
<1>9. CASE UNCHANGED <<doc, asks>>
  BY <1>3, <1>9
<1>10. \A f \in Frame : storePermissionsPolicy(f) \/ Abort(f) => UNCHANGED <<doc, asks>>
  BY DEF storePermissionsPolicy, Abort
<1>11. CASE UNCHANGED vars
  BY <1>9, <1>11 DEF vars
<1> QED BY <1>4, <1>5, <1>6, <1>7, <1>8, <1>9, <1>10, <1>11 DEF Next

(* A record that is taken by the document it is of stays the frame's.      *)
LEMMA FiledTakes ==
  ASSUME RecordInv, NEW f \in Frame, Filed(doc, nav, store, f),
         NEW s, NEW a \in Frame, NEW id \in Nat, Takes(s, a, id),
         f = a => doc[a] # None /\ id = doc[a].id
  PROVE  Filed(doc, nav, s, f)
<1> SUFFICES ASSUME Fresh(doc, nav, f), nav[f].st = "headers" => doc[f] = None
             PROVE  /\ \/ <<f, 0>> \in DOMAIN s
                       \/ nav[f].st # "headers" /\ Key(doc, f) \in DOMAIN s
                    /\ \A x \in DOMAIN s : x[1] = f => Exact(doc, f, Load(doc, nav, f), s[x])
  BY DEF Filed
<1>1. /\ <<f, 0>> \in DOMAIN store \/ (nav[f].st # "headers" /\ Key(doc, f) \in DOMAIN store)
      /\ \A x \in DOMAIN store : x[1] = f => Exact(doc, f, Load(doc, nav, f), store[x])
  BY DEF Filed
<1>2. \A x \in DOMAIN s : x[1] = f => Exact(doc, f, Load(doc, nav, f), s[x])
  BY <1>1 DEF Takes
<1>3. CASE <<f, 0>> \in DOMAIN store
  <2>1. CASE f = a
    <3>1. nav[f].st # "headers" /\ Key(doc, f) = <<a, id>>
      BY <2>1 DEF Key
    <3>2. <<a, id>> \in DOMAIN s \/ <<f, 0>> \in DOMAIN s
      BY <1>3, <2>1 DEF Takes
    <3> QED BY <1>2, <3>1, <3>2
  <2>2. CASE f # a
    <3>1. <<f, 0>> # <<a, 0>>
      BY <2>2
    <3> QED BY <1>2, <1>3, <3>1 DEF Takes
  <2> QED BY <2>1, <2>2
<1>4. CASE nav[f].st # "headers" /\ Key(doc, f) \in DOMAIN store
  <2>1. CASE Key(doc, f) = <<a, 0>>
    <3>1. f = a /\ doc[f].id = 0
      BY <2>1 DEF Key
    <3> QED BY <1>3, <1>4, <2>1, <3>1 DEF Key
  <2>2. CASE Key(doc, f) # <<a, 0>>
    BY <1>2, <1>4, <2>2 DEF Takes
  <2> QED BY <2>1, <2>2
<1> QED BY <1>1, <1>3, <1>4

(* The record of a frame says of its document what the frames above say.   *)
LEMMA FiledSame ==
  ASSUME NEW f \in Frame, NEW d, NEW n, NEW s, NEW e, NEW m, NEW t,
         Filed(d, n, s, f), \A g \in Frame : g <= f => e[g] = d[g], m[f] = n[f],
         \A x : x[1] = f => (x \in DOMAIN t <=> x \in DOMAIN s) /\ (x \in DOMAIN s => t[x] = s[x])
  PROVE  Filed(e, m, t, f)
<1>1. e[f] = d[f] /\ \A g \in Frame : g < f => e[g] = d[g]
  BY FrameNat
<1>2. Fresh(e, m, f) <=> Fresh(d, n, f)
  BY <1>1 DEF Fresh, Above
<1>3. Load(e, m, f) = Load(d, n, f) /\ Key(e, f) = Key(d, f)
  BY <1>1 DEF Load, Key
<1>4. \A c, r : Exact(e, f, c, r) <=> Exact(d, f, c, r)
  <2> TAKE c, r
  <2>1. Chain(e, f, c.origin) <=> Chain(d, f, c.origin)
    BY <1>1, ChainSame
  <2> QED BY <2>1 DEF Exact
<1>5. Key(d, f)[1] = f /\ <<f, 0>>[1] = f
  BY DEF Key
<1>6. /\ <<f, 0>> \in DOMAIN t <=> <<f, 0>> \in DOMAIN s
      /\ Key(d, f) \in DOMAIN t <=> Key(d, f) \in DOMAIN s
  BY <1>5
<1>7. ASSUME \A x \in DOMAIN s : x[1] = f => Exact(d, f, Load(d, n, f), s[x])
      PROVE  \A x \in DOMAIN t : x[1] = f => Exact(e, f, Load(e, m, f), t[x])
  <2> TAKE x \in DOMAIN t
  <2> HAVE x[1] = f
  <2>1. x \in DOMAIN s /\ t[x] = s[x]
    OBVIOUS
  <2> QED BY <1>3, <1>4, <1>7, <2>1
<1> QED BY <1>1, <1>2, <1>3, <1>6, <1>7 DEF Filed

LEMMA HeadersFiled ==
  ASSUME DocumentInv, NEW f \in Frame, storePermissionsPolicy(f),
         \A g \in Frame : Filed(doc, nav, store, g), NEW h \in Frame
  PROVE  Filed(doc, nav', store', h)
<1>0. RecordInv /\ Shape
  BY DEF DocumentInv
<1>1. /\ nav[f].st = "sent" /\ nav[f] \in Navigation
      /\ nav'[f].st = "headers" /\ nav'[f].origin = nav[f].origin
      /\ nav'[f].headers = nav[f].headers
      /\ \A g \in Frame : g # f => nav'[g] = nav[g]
      /\ \A x \in DOMAIN store : x[1] # f
      /\ DOMAIN store' = DOMAIN Known(f) \cup {<<f, 0>>}
      /\ store'[<<f, 0>>] = Record(f)
      /\ \A x \in DOMAIN Known(f) : x # <<f, 0>> => store'[x] = Known(f)[x]
  BY <1>0, HeadersStore
<1>2. PICK a \in Frame, id \in Nat :
        Takes(Known(f), a, id) /\ (f > 0 => a = f - 1 /\ id = doc[f - 1].id)
  BY <1>0, KnownTakes
<1>3. f \in Nat /\ (f = 0 \/ f > 0)
  BY FrameNat
<1>4. ASSUME f > 0 PROVE f - 1 \in Frame /\ f - 1 < f /\ doc[f - 1] # None
  BY <1>0, <1>1, <1>3, <1>4, ParentFrame, NoneIsNo DEF Shape
<1>5. CASE h # f
  <2>1. Filed(doc, nav, Known(f), h)
    <3>1. CASE f = 0
      BY <3>1 DEF Known
    <3>2. CASE f > 0
      BY <1>0, <1>2, <1>4, <3>2, FiledTakes
    <3> QED BY <1>3, <3>1, <3>2
  <2>2. \A x : x[1] = h => x # <<f, 0>>
    BY <1>5
  <2>3. \A x : x[1] = h => (x \in DOMAIN store' <=> x \in DOMAIN Known(f))
    BY <1>1, <2>2
  <2>4. \A x \in DOMAIN Known(f) : x[1] = h => store'[x] = Known(f)[x]
    BY <1>1, <2>2
  <2>5. nav'[h] = nav[h]
    BY <1>1, <1>5
  <2>6. Fresh(doc, nav', h) <=> Fresh(doc, nav, h)
    BY <2>5 DEF Fresh
  <2>7. Load(doc, nav', h) = Load(doc, nav, h)
    BY <2>5 DEF Load
  <2>8. Key(doc, h)[1] = h /\ <<h, 0>>[1] = h
    BY DEF Key
  <2> QED BY <2>1, <2>3, <2>4, <2>5, <2>6, <2>7, <2>8 DEF Filed
<1>6. CASE h = f
  <2> SUFFICES ASSUME Above(doc, f) PROVE Filed(doc, nav', store', f)
    BY <1>6 DEF Filed, Fresh
  <2>1. \A x \in DOMAIN store' : x[1] = f => x = <<f, 0>>
    BY <1>1, <1>2 DEF Takes
  <2>2. Load(doc, nav', f) = nav'[f]
    BY <1>1 DEF Load
  <2> DEFINE o == nav[f].origin
             self == Self(nav[f].headers, o)
  <2>3. self # {} => (o \in Inherited(f) <=> Chain(doc, f, o))
    <3>1. CASE f = 0
      <4>1. Inherited(f) = Origin
        BY <1>3, <3>1 DEF Inherited
      <4>2. o \in Origin
        BY <1>1 DEF Navigation
      <4> QED BY <3>1, <4>1, <4>2, ChainTop
    <3>2. ASSUME f > 0, self # {} PROVE o \in Inherited(f) <=> Chain(doc, f, o)
      <4> DEFINE p == f - 1
                 s == Known(f)
      <4>1. p \in Frame /\ p < f /\ doc[p] # None /\ ~doc[p].touched /\ nav[p] = NoNav
        BY <1>0, <1>4, <3>2 DEF Above, Shape
      <4>2. Above(doc, p)
        BY <1>3, <4>1, FrameNat DEF Above
      <4>3. Fresh(doc, nav, p) /\ nav[p].st # "headers" /\ Load(doc, nav, p) = doc[p]
        BY <4>1, <4>2, NoneIsNo DEF Fresh, Load
      <4>4. /\ <<p, 0>> \in DOMAIN store \/ Key(doc, p) \in DOMAIN store
            /\ \A x \in DOMAIN store : x[1] = p => Exact(doc, p, doc[p], store[x])
        BY <4>1, <4>3 DEF Filed
      <4>5. Takes(s, p, doc[p].id)
        BY <1>2, <3>2
      <4>6. HasRecord(doc, s, p)
        <5>1. CASE Key(doc, p) = <<p, 0>>
          BY <4>4, <4>5, <5>1 DEF Takes, HasRecord, Key
        <5>2. CASE Key(doc, p) # <<p, 0>>
          BY <4>4, <4>5, <5>2 DEF Takes, HasRecord, Key
        <5> QED BY <5>1, <5>2
      <4>7. s = Adopted(p, doc[p].id)
        BY <1>3, <3>2 DEF Known
      <4>8. Key(doc, p) \in DOMAIN s
        BY <4>1, <4>6, <4>7, AdoptedHas
      <4>9. PICK y \in DOMAIN store : y[1] = p /\ s[Key(doc, p)] = store[y]
        BY <4>5, <4>8 DEF Takes, Key
      <4>10. Exact(doc, p, doc[p], s[Key(doc, p)])
        BY <4>4, <4>9
      <4>11. Inherited(f) = s[Key(doc, p)].effective
        BY <3>2, <4>8 DEF Inherited
      <4>12. o \in Inherited(f) <=> Chain(doc, p, doc[p].origin) /\ Listed(doc, p, o)
        BY <4>10, <4>11 DEF Exact, Listed
      <4>13. Chain(doc, f, o) <=> Chain(doc, p, doc[p].origin) /\ Listed(doc, p, o)
        BY <3>2, ChainStep
      <4> QED BY <4>12, <4>13
    <3> QED BY <1>3, <3>1, <3>2
  <2>4. Exact(doc, f, nav'[f], Record(f))
    BY <1>1, <2>3 DEF Exact, Record
  <2> QED BY <1>1, <2>1, <2>2, <2>4 DEF Filed
<1> QED BY <1>5, <1>6

LEMMA BeforeRequestFiled ==
  ASSUME TypeOK, NEW f \in Frame, BeforeRequest(f),
         \A g \in Frame : Filed(doc, nav, store, g), NEW h \in Frame
  PROVE  Filed(doc', nav', store', h)
<1> SUFFICES ASSUME Fresh(doc', nav', h) PROVE Filed(doc', nav', store', h)
  BY DEF Filed
<1>1. /\ \A g \in Frame : g # f => doc'[g] = doc[g] /\ nav'[g] = nav[g]
      /\ nav'[f].st = "sent" /\ ~(doc'[f] # None /\ ~doc'[f].touched)
      /\ DOMAIN store' = {x \in DOMAIN store : f # 0 /\ x[1] # f}
      /\ \A x \in DOMAIN store' : store'[x] = store[x]
  BY BeforeRequestDoc, BeforeRequestStore
<1>2. h <= f /\ h # f /\ f # 0
  BY <1>1, BeforeRequestLower, FrameNat DEF Fresh, Frame
<1>3. \A g \in Frame : g <= h => g # f /\ doc'[g] = doc[g] /\ nav'[g] = nav[g]
  BY <1>1, <1>2 DEF Frame
<1>4. \A x : x[1] = h => (x \in DOMAIN store' <=> x \in DOMAIN store)
                        /\ (x \in DOMAIN store => store'[x] = store[x])
  BY <1>1, <1>2
<1>5. nav'[h] = nav[h] /\ Filed(doc, nav, store, h)
  BY <1>3, FrameNat
<1> QED BY <1>3, <1>4, <1>5, FiledSame

LEMMA CommitFiled ==
  ASSUME TypeOK, NEW f \in Frame, Commit(f), doc[f] = None,
         \A g \in Frame : Filed(doc, nav, store, g), NEW h \in Frame
  PROVE  Filed(doc', nav', store, h)
<1>1. /\ nav[f].st = "headers" /\ doc'[f] # None
      /\ \A g \in Frame : /\ g < f => doc'[g] = doc[g] /\ nav'[g] = nav[g]
                          /\ g > f => doc'[g] = None
                          /\ ~(g < f) => nav'[g] = NoNav
      /\ doc'[f].origin = nav[f].origin /\ doc'[f].headers = nav[f].headers
  BY CommitDoc
<1>2. h < f \/ h = f \/ h > f
  BY FrameNat
<1>3. CASE h < f
  <2>1. \A g \in Frame : g <= h => doc'[g] = doc[g]
    BY <1>1, <1>3, FrameNat
  <2>2. nav'[h] = nav[h]
    BY <1>1, <1>3
  <2> QED BY <2>1, <2>2, FiledSame
<1>4. CASE h > f
  <2>1. ~Fresh(doc', nav', h)
    BY <1>1, <1>4, FrameNat, NoneIsNo DEF Fresh
  <2> QED BY <2>1 DEF Filed
<1>5. CASE h = f
  <2> SUFFICES ASSUME Fresh(doc', nav', f) PROVE Filed(doc', nav', store, f)
    BY <1>5 DEF Filed
  <2>1. \A g \in Frame : g < f => doc'[g] = doc[g]
    BY <1>1
  <2>2. Fresh(doc, nav, f)
    BY <1>1, <2>1 DEF Fresh, Above
  <2>3. nav'[f].st # "headers" /\ Load(doc', nav', f) = doc'[f] /\ Load(doc, nav, f) = nav[f]
    BY <1>1, NoneIsNo, FrameNat DEF Load
  <2>4. <<f, 0>> \in DOMAIN store /\ \A x \in DOMAIN store : x[1] = f => Exact(doc, f, nav[f], store[x])
    BY <1>1, <2>2, <2>3 DEF Filed
  <2>5. \A o : Chain(doc', f, o) <=> Chain(doc, f, o)
    BY <2>1, ChainSame
  <2>6. \A r : Exact(doc, f, nav[f], r) => Exact(doc', f, doc'[f], r)
    BY <1>1, <2>5 DEF Exact
  <2> QED BY <2>3, <2>4, <2>6 DEF Filed
<1> QED BY <1>2, <1>3, <1>4, <1>5

LEMMA NextRecorded == DocumentInv /\ Count /\ Asked /\ Recorded /\ [Next]_vars => Recorded'
<1> SUFFICES ASSUME DocumentInv, Count, Asked, Recorded, [Next]_vars, Clean', NEW h \in Frame
             PROVE  Filed(doc', nav', store', h)
  BY DEF Recorded
<1>0. RecordInv /\ TypeOK
  BY DEF DocumentInv, RecordInv
<1>1. Clean /\ \A f \in Frame : /\ Commit(f) => \A g \in Frame : f <= g => doc[g] = None
                                /\ ~Abort(f)
  BY NextCount
<1>2. \A g \in Frame : Filed(doc, nav, store, g)
  BY <1>1 DEF Recorded
<1>3. CASE \E f \in Frame : BeforeRequest(f)
  BY <1>0, <1>2, <1>3, BeforeRequestFiled
<1>4. ASSUME NEW f \in Frame, storePermissionsPolicy(f) PROVE Filed(doc', nav', store', h)
  <2>1. Filed(doc, nav', store', h)
    BY <1>2, <1>4, HeadersFiled
  <2> QED BY <1>4, <2>1 DEF storePermissionsPolicy
<1>5. ASSUME NEW f \in Frame, Commit(f) PROVE Filed(doc', nav', store', h)
  <2>1. doc[f] = None /\ store' = store
    BY <1>1, <1>5, FrameNat DEF Commit
  <2>2. Filed(doc', nav', store, h)
    BY <1>0, <1>2, <1>5, <2>1, CommitFiled
  <2> QED BY <2>1, <2>2
<1>6. CASE UNCHANGED <<doc, nav, store>>
  BY <1>2, <1>6
<1>7. ASSUME NEW k \in asks, store' = Entries(k), UNCHANGED <<doc, nav>>
      PROVE  Filed(doc', nav', store', h)
  <2>1. k.f \in Frame /\ k.id \in Nat
    BY <1>0 DEF TypeOK, Question, Loaded
  <2>2. doc[k.f] # None /\ k.id = doc[k.f].id
    BY <1>1 DEF Asked
  <2>3. Takes(Entries(k), k.f, k.id)
    BY <1>0, EntriesTakes
  <2>4. Filed(doc, nav, Entries(k), h)
    BY <1>0, <1>2, <2>1, <2>2, <2>3, FiledTakes
  <2> QED BY <1>7, <2>4
<1>8. /\ \A f \in Frame : handleGetPolicyRequest(f) => UNCHANGED <<doc, nav, store>>
      /\ \A k \in asks : handleSetFrameDelegation(k) \/ handleGetPolicy(k) =>
           store' = Entries(k) /\ UNCHANGED <<doc, nav>>
  BY DEF handleGetPolicyRequest, handleSetFrameDelegation, handleGetPolicy
<1>9. CASE UNCHANGED vars
  BY <1>6, <1>9 DEF vars
<1> QED BY <1>1, <1>3, <1>4, <1>5, <1>6, <1>7, <1>8, <1>9 DEF Next

LEMMA NextDelegated ==
  DocumentInv /\ Count /\ Asked /\ Delegated /\ [Next]_vars => Delegated'
<1> SUFFICES ASSUME DocumentInv, Count, Asked, Delegated, [Next]_vars, Clean',
                    NEW k \in asks', k.st = "get", Untouched(k.f)'
             PROVE  <<k.f, k.id>> \in DOMAIN deleg'
  BY DEF Delegated
<1>0. TypeOK
  BY DEF DocumentInv, RecordInv
<1>1. Clean /\ \A f \in Frame : /\ Commit(f) => \A g \in Frame : f <= g => doc[g] = None
                                /\ ~Abort(f)
  BY NextCount
<1>2. \A j \in asks : j.f \in Frame /\ doc[j.f] # None /\ doc[j.f].id = j.id
  BY <1>0, <1>1 DEF Asked, TypeOK, Question
<1>3. ASSUME NEW j \in asks, k.f = j.f, k.id = j.id, j.st = "get", Untouched(j.f),
             DOMAIN deleg \subseteq DOMAIN deleg'
      PROVE  <<k.f, k.id>> \in DOMAIN deleg'
  BY <1>1, <1>3 DEF Delegated
<1>4. ASSUME NEW f \in Frame, BeforeRequest(f) PROVE <<k.f, k.id>> \in DOMAIN deleg'
  <2>1. k \in asks /\ k.f \in Frame
    BY <1>2, <1>4 DEF BeforeRequest
  <2>2. \A g \in Frame : g <= k.f => doc'[g] # None /\ ~doc'[g].touched
    BY <2>1, FrameNat DEF Untouched, Frame
  <2>3. ~(doc'[f] # None /\ ~doc'[f].touched)
    BY <1>0, <1>4, BeforeRequestDoc
  <2>4. ~(f <= k.f)
    BY <2>2, <2>3
  <2>5. f # 0 /\ f # k.f
    BY <2>1, <2>4, FrameNat
  <2>6. \A g \in Frame : g <= k.f => doc'[g] = doc[g]
    BY <1>0, <1>4, <2>4, BeforeRequestDoc
  <2>7. Untouched(k.f)
    BY <2>1, <2>6, LowerSame
  <2>8. <<k.f, k.id>> \in DOMAIN deleg
    BY <1>1, <2>1, <2>7 DEF Delegated
  <2> QED BY <1>4, <2>5, <2>8, BeforeRequestStore
<1>5. ASSUME NEW f \in Frame, Commit(f) PROVE <<k.f, k.id>> \in DOMAIN deleg'
  <2>1. PICK j \in asks : k = j \/ k = [j EXCEPT !.orphan = TRUE]
    BY <1>5 DEF Commit
  <2>2. k.f = j.f /\ k.id = j.id /\ k.st = j.st /\ j.f \in Frame
    BY <1>0, <2>1 DEF TypeOK, Question
  <2>3. j.f < f
    BY <1>1, <1>2, <1>5, FrameNat
  <2>4. \A g \in Frame : g <= j.f => g < f
    BY <2>2, <2>3, FrameNat
  <2>5. \A g \in Frame : g <= j.f => doc'[g] = doc[g]
    BY <1>0, <1>5, <2>4, CommitDoc
  <2>6. Untouched(j.f)
    BY <2>2, <2>5, LowerSame
  <2>7. deleg' = deleg
    BY <1>5 DEF Commit
  <2> QED BY <1>3, <2>2, <2>6, <2>7
<1>6. ASSUME UNCHANGED <<doc, deleg>>, k \in asks PROVE <<k.f, k.id>> \in DOMAIN deleg'
  <2>1. Untouched(k.f)
    BY <1>6 DEF Untouched
  <2> QED BY <1>3, <1>6, <2>1
<1>7. ASSUME NEW f \in Frame, handleGetPolicyRequest(f) PROVE <<k.f, k.id>> \in DOMAIN deleg'
  <2>1. UNCHANGED <<doc, deleg>> /\ k \in asks
    BY <1>7 DEF handleGetPolicyRequest
  <2> QED BY <1>6, <2>1
<1>8. ASSUME NEW q \in asks, handleSetFrameDelegation(q) PROVE <<k.f, k.id>> \in DOMAIN deleg'
  <2>1. CASE Entry(q) = {}
    <3>1. UNCHANGED <<doc, deleg>> /\ k \in asks
      BY <1>8, <2>1 DEF handleSetFrameDelegation, Reply
    <3> QED BY <1>6, <3>1
  <2>2. CASE Entry(q) # {}
    <3>1. /\ deleg' = With(deleg, <<q.f, q.id>>, q.delegated) /\ doc' = doc
          /\ k \in asks \/ k = [q EXCEPT !.st = "get"]
      BY <1>8, <2>2 DEF handleSetFrameDelegation
    <3>2. DOMAIN deleg' = DOMAIN deleg \cup {<<q.f, q.id>>}
      BY <3>1, WithDomain
    <3>3. [q EXCEPT !.st = "get"].f = q.f /\ [q EXCEPT !.st = "get"].id = q.id
      BY <1>0 DEF TypeOK, Question
    <3>4. CASE k \in asks
      <4>1. Untouched(k.f)
        BY <3>1 DEF Untouched
      <4> QED BY <1>3, <3>2, <3>4, <4>1
    <3>5. CASE k = [q EXCEPT !.st = "get"]
      BY <3>2, <3>3, <3>5
    <3> QED BY <3>1, <3>4, <3>5
  <2> QED BY <2>1, <2>2
<1>9. ASSUME NEW q \in asks, handleGetPolicy(q) PROVE <<k.f, k.id>> \in DOMAIN deleg'
  <2>1. UNCHANGED <<doc, deleg>> /\ k \in asks
    BY <1>9 DEF handleGetPolicy, Reply
  <2> QED BY <1>6, <2>1
<1>10. ASSUME NEW f \in Frame, storePermissionsPolicy(f) PROVE <<k.f, k.id>> \in DOMAIN deleg'
  <2>1. UNCHANGED <<doc, deleg>> /\ k \in asks
    BY <1>10 DEF storePermissionsPolicy
  <2> QED BY <1>6, <2>1
<1>11. ASSUME UNCHANGED vars PROVE <<k.f, k.id>> \in DOMAIN deleg'
  <2>1. UNCHANGED <<doc, deleg>> /\ k \in asks
    BY <1>11 DEF vars
  <2> QED BY <1>6, <2>1
<1> QED BY <1>1, <1>4, <1>5, <1>7, <1>8, <1>9, <1>10, <1>11 DEF Next

(* The record of an untouched document, whatever its key *)
LEMMA FiledIs ==
  ASSUME DocumentInv, Content, NEW f \in Frame, Filed(doc, nav, store, f), Untouched(f)
  PROVE  /\ HasRecord(doc, store, f)
         /\ \A x \in DOMAIN store : x[1] = f =>
              /\ RecordOf(doc, store, f, doc[f], store[x])
              /\ Exact(doc, f, doc[f], store[x])
<1>1. Fresh(doc, nav, f) /\ Load(doc, nav, f) = doc[f] /\ nav[f].st # "headers"
  BY UntouchedIs, NoneIsNo DEF DocumentInv
<1> QED BY <1>1 DEF Filed, HasRecord, Content

(* The background answers as the chain of documents does. *)
LEMMA EntryFound ==
  ASSUME DocumentInv, Content, NEW k \in asks, Filed(doc, nav, store, k.f),
         Untouched(k.f), doc[k.f].id = k.id
  PROVE  \E e \in Entry(k) : Exact(doc, k.f, doc[k.f], e)
<1> DEFINE f == k.f
           s == Entries(k)
<1>0. TypeOK /\ RecordInv /\ f \in Frame /\ k.id \in Nat
  BY DEF DocumentInv, RecordInv, TypeOK, Question, Loaded
<1>1. /\ HasRecord(doc, store, f)
      /\ \A x \in DOMAIN store : x[1] = f =>
           /\ RecordOf(doc, store, f, doc[f], store[x])
           /\ Exact(doc, f, doc[f], store[x])
  BY <1>0, FiledIs
<1>2. k.origin = doc[f].origin
  BY DEF DocumentInv, Questions
<1>3. Takes(s, f, k.id)
  BY <1>0, EntriesTakes
<1>4. <<f, k.id>> \in DOMAIN s
  <2>1. CASE <<f, k.id>> \in DOMAIN store
    BY <2>1 DEF Entries
  <2>2. CASE <<f, k.id>> \notin DOMAIN store
    <3>1. <<f, 0>> \in DOMAIN store
      BY <1>1, <2>2 DEF HasRecord, Key
    <3>2. <<f, 0>>[1] = f
      OBVIOUS
    <3>3. store[<<f, 0>>].origin = k.origin
      BY <1>1, <1>2, <3>1, <3>2 DEF RecordOf
    <3>4. s = Adopted(f, k.id)
      BY <2>2, <3>1, <3>3 DEF Entries
    <3>5. HasRecord(doc, s, f)
      BY <1>3, <3>1 DEF Takes, HasRecord, Key
    <3> QED BY <1>0, <3>4, <3>5, AdoptedHas DEF Key
  <2> QED BY <2>1, <2>2
<1>5. PICK y \in DOMAIN store : y[1] = f /\ s[<<f, k.id>>] = store[y]
  BY <1>3, <1>4 DEF Takes
<1>6. s[<<f, k.id>>].origin = k.origin /\ Exact(doc, f, doc[f], s[<<f, k.id>>])
  BY <1>1, <1>2, <1>5 DEF RecordOf
<1>7. s[<<f, k.id>>] \in Entry(k)
  BY <1>4, <1>6 DEF Entry
<1> QED BY <1>6, <1>7

LEMMA PermitsFull ==
  ASSUME DocumentInv, Content, NEW k \in asks, \A g \in Frame : Filed(doc, nav, store, g),
         Untouched(k.f), doc[k.f].id = k.id, <<k.f, k.id>> \in DOMAIN deleg
  PROVE  (\E e \in Entry(k) : Permits(k, e)) <=> ChainListed(k.f)
<1> DEFINE f == k.f
<1>0. f \in Frame
  BY DEF DocumentInv, RecordInv, TypeOK, Question
<1>1. PICK r \in Entry(k) : Exact(doc, f, doc[f], r)
  BY <1>0, EntryFound
<1>2. Entry(k) = {r}
  BY <1>1 DEF Entry
<1>3. RecordOf(doc, store, f, doc[f], r)
  BY EntryIs
<1>4. ASSUME NEW e \in Entry(k), Permits(k, e) PROVE ChainListed(f)
  <2>1. NearListed(f)
    BY <1>4, PermitsNear
  <2>2. r.effective # {}
    BY <1>2, <1>4 DEF Permits
  <2>3. Chain(doc, f, doc[f].origin)
    BY <1>1, <2>2 DEF Exact
  <2> QED BY <2>1, <2>3 DEF NearListed, ChainListed
<1>5. ASSUME ChainListed(f) PROVE Permits(k, r)
  <2>1. r.origin = doc[f].origin /\ r.origin \in r.effective
    BY <1>1, <1>3, <1>5 DEF Exact, RecordOf, ChainListed, Listed
  <2>2. ASSUME r.parent # <<>>
        PROVE  /\ r.parent \in DOMAIN store
               /\ store[r.parent].origin = r.origin
                  \/ (<<k.f, k.id>> \in DOMAIN deleg /\ deleg[<<k.f, k.id>>])
    <3>1. f > 0
      BY <1>0, <1>3, <2>2, FrameNat DEF RecordOf
    <3>2. f # 0
      BY <3>1, <1>0, FrameNat
    <3>3. f - 1 \in Frame /\ Untouched(f - 1) /\ Filed(doc, nav, store, f - 1)
      BY <1>0, <3>1, ParentFrame, UntouchedIs DEF DocumentInv
    <3>4. HasRecord(doc, store, f - 1)
      BY <3>3, FiledIs
    <3>5. r.parent = Key(doc, f - 1) /\ Key(doc, f - 1) \in DOMAIN store
      BY <1>3, <2>1, <3>1, <3>2, <3>4 DEF RecordOf
    <3>6. store[r.parent].origin = doc[f - 1].origin
      BY <3>3, <3>5, KeyIs DEF RecordOf
    <3>7. deleg[<<k.f, k.id>>] = hasHidDelegation(f)
      BY <1>0 DEF DocumentInv, Delegations, Key
    <3>8. doc[f].origin = doc[f - 1].origin \/ hasHidDelegation(f)
      BY <1>5, <3>1 DEF ChainListed
    <3> QED BY <2>1, <3>5, <3>6, <3>7, <3>8
  <2> QED BY <2>1, <2>2 DEF Permits
<1> QED BY <1>1, <1>4, <1>5

LEMMA ChainListedSame ==
  ASSUME NEW f \in Frame, \A g \in Frame : g <= f => doc'[g] = doc[g]
  PROVE  (Untouched(f)' <=> Untouched(f)) /\ (ChainListed(f)' <=> ChainListed(f))
<1>1. doc'[f] = doc[f] /\ (f > 0 => doc'[f - 1] = doc[f - 1])
  BY ParentFrame, FrameNat
<1>2. \A g \in 0..f : doc'[g] = doc[g]
  BY FrameNat DEF Frame
<1>3. Untouched(f)' <=> Untouched(f)
  BY <1>2 DEF Untouched
<1>4. \A g \in Frame : g < f => doc'[g] = doc[g]
  BY FrameNat
<1>5. Chain(doc', f, doc[f].origin) <=> Chain(doc, f, doc[f].origin)
  BY <1>4, ChainSame
<1>6. hasHidDelegation(f)' <=> hasHidDelegation(f)
  BY <1>1 DEF hasHidDelegation
<1> QED BY <1>1, <1>3, <1>5, <1>6 DEF ChainListed, Listed

LEMMA NextFull ==
  ASSUME DocumentInv, Content, Count, Asked, Recorded, Delegated, Full, [Next]_vars PROVE Full'
<1> SUFFICES ASSUME Clean', NEW g \in Frame, Untouched(g)', ans'[g] # "unknown"
             PROVE  (ans'[g] = "allowed" <=> ChainListed(g)')
  BY DEF Full
<1> DEFINE Goal == (ans'[g] = "allowed" <=> ChainListed(g)')
<1>0. TypeOK
  BY DEF DocumentInv, RecordInv
<1>1. Clean /\ \A f \in Frame : Commit(f) => \A h \in Frame : f <= h => doc[h] = None
  BY NextCount
<1>2. ASSUME \A h \in Frame : h <= g => doc'[h] = doc[h], ans'[g] = ans[g] PROVE Goal
  BY <1>1, <1>2, ChainListedSame DEF Full
<1>3. ASSUME NEW f \in Frame, BeforeRequest(f) PROVE Goal
  <2>1. \A h \in Frame : h <= g => doc'[h] # None /\ ~doc'[h].touched
    BY FrameNat DEF Untouched, Frame
  <2>2. ~(doc'[f] # None /\ ~doc'[f].touched)
    BY <1>0, <1>3, BeforeRequestDoc
  <2>3. \A h \in Frame : h <= g => h # f
    BY <2>1, <2>2
  <2>4. \A h \in Frame : h <= g => doc'[h] = doc[h]
    BY <1>0, <1>3, <2>3, BeforeRequestDoc
  <2>5. ans' = ans
    BY <1>3 DEF BeforeRequest
  <2> QED BY <1>2, <2>4, <2>5
<1>4. ASSUME NEW f \in Frame, Commit(f) PROVE Goal
  <2>1. g < f
    BY <1>0, <1>4, CommitDoc
  <2>2. \A h \in Frame : h <= g => h < f
    BY <2>1, FrameNat
  <2> QED BY <1>0, <1>2, <1>4, <2>1, <2>2, CommitDoc
<1>5. ASSUME UNCHANGED <<doc, ans>> PROVE Goal
  BY <1>2, <1>5
<1>6. ASSUME NEW k \in asks, UNCHANGED doc, Untouched(k.f)
      PROVE  /\ k.f \in Frame /\ doc[k.f].id = k.id /\ \A h \in Frame : Filed(doc, nav, store, h)
             /\ k.st = "get" => <<k.f, k.id>> \in DOMAIN deleg
  BY <1>0, <1>1, <1>6 DEF Asked, Recorded, Delegated, TypeOK, Question
<1>7. ASSUME UNCHANGED doc PROVE Untouched(g) /\ (ChainListed(g)' <=> ChainListed(g))
  BY <1>7, ChainListedSame
<1>8. ASSUME NEW k \in asks, handleSetFrameDelegation(k) PROVE Goal
  <2>1. UNCHANGED doc
    BY <1>8 DEF handleSetFrameDelegation
  <2>2. CASE Entry(k) # {}
    BY <1>5, <1>8, <2>1, <2>2 DEF handleSetFrameDelegation
  <2>3. CASE Entry(k) = {}
    <3>1. Reply(k, "none")
      BY <1>8, <2>3 DEF handleSetFrameDelegation
    <3>2. g # k.f
      BY <1>6, <1>7, <2>1, <2>3, EntryFound
    <3>3. ans'[g] = ans[g]
      BY <1>0, <3>1, <3>2, ReplyAns
    <3> QED BY <1>2, <2>1, <3>3
  <2> QED BY <2>2, <2>3
<1>9. ASSUME NEW k \in asks, handleGetPolicy(k) PROVE Goal
  <2> DEFINE a == IF \E e \in Entry(k) : Permits(k, e) THEN "allowed" ELSE "none"
  <2>1. UNCHANGED doc /\ k.st = "get" /\ Reply(k, a)
    BY <1>9 DEF handleGetPolicy
  <2>2. ans'[g] = ans[g] \/ (g = k.f /\ ans'[g] = a)
    <3> HIDE DEF a
    <3> QED BY <1>0, <2>1, ReplyAns
  <2>3. CASE ans'[g] = ans[g]
    BY <1>2, <2>1, <2>3
  <2>4. CASE g = k.f /\ ans'[g] = a
    <3>1. Untouched(k.f) /\ (ChainListed(g)' <=> ChainListed(g))
      BY <1>7, <2>1, <2>4
    <3>2. (\E e \in Entry(k) : Permits(k, e)) <=> ChainListed(k.f)
      BY <1>6, <2>1, <3>1, PermitsFull
    <3> QED BY <2>4, <3>1, <3>2
  <2> QED BY <2>2, <2>3, <2>4
<1>10. \A f \in Frame : storePermissionsPolicy(f) \/ Abort(f) \/ handleGetPolicyRequest(f) =>
         UNCHANGED <<doc, ans>>
  BY DEF storePermissionsPolicy, Abort, handleGetPolicyRequest
<1>11. CASE UNCHANGED vars
  BY <1>5, <1>11 DEF vars
<1> QED BY <1>3, <1>4, <1>5, <1>8, <1>9, <1>10, <1>11 DEF Next

---------------------------------------------------------------------------
(* What the records list is what the declarations of the documents say.    *)

(* intersectAllowlists finds no origin that a declaration does not list. *)
LEMMA ListedLists ==
  ASSUME TypeOK, NEW f \in Frame, doc[f] # None, NEW o \in Origin, Listed(doc, f, o)
  PROVE  Lists(f, o)
<1> DEFINE h == doc[f].headers
<1>1. doc[f] \in Document
  BY DEF TypeOK
<1>2. PICK x \in intersectAllowlists(h) : o = IF x = "self" THEN doc[f].origin ELSE x
  BY DEF Listed, Self
<1>3. x \in All /\ \A v \in h : x \in parseHidPolicy(v)
  BY DEF intersectAllowlists
<1>4. x # "*" /\ (x = "self" \/ x = o)
  BY <1>2, <1>3, PolicyAssumption DEF All
<1>5. ASSUME NEW v \in h PROVE "malformed" \notin v /\ ("*" \in v \/ x \in v)
  <2>1. x \in parseHidPolicy(v)
    BY <1>3
  <2>2. CASE "malformed" \in v
    BY <2>1, <2>2 DEF parseHidPolicy
  <2>3. CASE "malformed" \notin v /\ "*" \notin v
    BY <2>1, <2>3 DEF parseHidPolicy
  <2> QED BY <2>2, <2>3
<1>6. x = "self" => o = doc[f].origin
  BY <1>2
<1> QED BY <1>4, <1>5, <1>6 DEF Lists

(* It finds all that they list, unless they spell an origin differently. *)
LEMMA ListsListed ==
  ASSUME NEW f \in Frame, NEW o \in Origin, Unmixed(f), Lists(f, o)
  PROVE  Listed(doc, f, o)
<1> DEFINE h == doc[f].headers
<1>1. o # "self" /\ o \in All /\ "self" \in All
  BY PolicyAssumption DEF All
<1>2. ASSUME NEW x \in {o, "self"}, x = "self" => o = doc[f].origin,
             \A v \in h : "malformed" \notin v /\ ("*" \in v \/ x \in v)
      PROVE  Listed(doc, f, o)
  <2>1. \A v \in h : x \in parseHidPolicy(v)
    BY <1>1, <1>2 DEF parseHidPolicy
  <2>2. x \in intersectAllowlists(h)
    BY <1>1, <2>1 DEF intersectAllowlists
  <2>3. o = IF x = "self" THEN doc[f].origin ELSE x
    BY <1>1, <1>2
  <2> QED BY <2>2, <2>3 DEF Listed, Self
<1>3. \A v \in h : "malformed" \notin v
                   /\ ("*" \in v \/ o \in v \/ ("self" \in v /\ o = doc[f].origin))
  BY DEF Lists
<1>4. CASE \A v \in h : "*" \in v \/ o \in v
  BY <1>2, <1>3, <1>1, <1>4
<1>5. CASE ~(\A v \in h : "*" \in v \/ o \in v)
  <2>1. o = doc[f].origin /\ \E v \in h : "self" \in v
    BY <1>3, <1>5
  <2>2. \A v \in h : o \notin v
    BY <2>1 DEF Unmixed
  <2>3. \A v \in h : "*" \in v \/ "self" \in v
    BY <1>3, <2>2
  <2> QED BY <1>2, <1>3, <2>1, <2>3
<1> QED BY <1>4, <1>5

(* The documents of an untouched chain and their origins *)
LEMMA UntouchedOrigin ==
  ASSUME TypeOK, NEW f \in Frame, Untouched(f)
  PROVE  \A g \in Frame : g <= f => doc[g] # None /\ doc[g].origin \in Origin
<1> SUFFICES ASSUME NEW g \in Frame, g <= f PROVE doc[g] # None /\ doc[g].origin \in Origin
  OBVIOUS
<1>1. g \in 0..f
  BY FrameNat
<1>2. doc[g] # None
  BY <1>1 DEF Untouched
<1>3. doc[g] \in Document
  BY <1>2 DEF TypeOK
<1> QED BY <1>2, <1>3 DEF Document

LEMMA NearAllowed ==
  ASSUME TypeOK, NEW f \in Frame, Untouched(f), NearListed(f) PROVE AllowedFrom(f, f)
<1>1. \A g \in Frame : g <= f => doc[g] # None /\ doc[g].origin \in Origin
  BY UntouchedOrigin
<1>2. doc[f] # None /\ doc[f].origin \in Origin
  BY <1>1, FrameNat
<1>3. Lists(f, doc[f].origin)
  BY <1>2, ListedLists DEF NearListed
<1>4. ASSUME f > 0 PROVE Lists(f - 1, doc[f].origin)
  <2>1. f - 1 \in Frame /\ f - 1 <= f
    BY <1>4, ParentFrame, FrameNat
  <2> QED BY <1>1, <1>2, <1>4, <2>1, ListedLists DEF NearListed
<1>5. \A g \in f..f : g = f
  BY FrameNat
<1> QED BY <1>3, <1>4, <1>5 DEF AllowedFrom, NearListed

LEMMA ChainAllowed ==
  ASSUME TypeOK, NEW f \in Frame, Untouched(f)
  PROVE  /\ ChainListed(f) => AllowedFrom(1, f)
         /\ AllowedFrom(1, f) /\ (\A g \in 0..f : Unmixed(g)) => ChainListed(f)
<1>1. \A g \in Frame : g <= f => doc[g] # None /\ doc[g].origin \in Origin
  BY UntouchedOrigin
<1>2. \A g \in Frame : 0 < g /\ g <= f => g - 1 \in Frame /\ g - 1 <= f /\ g \in 1..f
  BY ParentFrame, FrameNat
<1>3. \A g \in 1..f : g \in Frame /\ 0 < g /\ g <= f
  BY FrameNat DEF Frame
<1>4. Chain(doc, f, doc[f].origin) <=>
        \A g \in Frame : 0 < g /\ g <= f => Listed(doc, g - 1, doc[g].origin)
  BY DEF Chain
<1>5. ASSUME ChainListed(f) PROVE AllowedFrom(1, f)
  <2>1. Lists(f, doc[f].origin)
    BY <1>1, <1>5, FrameNat, ListedLists DEF ChainListed
  <2>2. \A g \in 1..f : Lists(g - 1, doc[g].origin)
    <3> TAKE g \in 1..f
    <3>1. g \in Frame /\ 0 < g /\ g <= f /\ g - 1 \in Frame /\ g - 1 <= f
      BY <1>2, <1>3
    <3>2. Listed(doc, g - 1, doc[g].origin)
      BY <1>4, <1>5, <3>1 DEF ChainListed
    <3> QED BY <1>1, <3>1, <3>2, ListedLists
  <2> QED BY <1>5, <2>1, <2>2 DEF AllowedFrom, ChainListed
<1>6. ASSUME AllowedFrom(1, f), \A g \in 0..f : Unmixed(g) PROVE ChainListed(f)
  <2>0. \A g \in Frame : g <= f => Unmixed(g)
    BY <1>6, FrameNat
  <2>1. Listed(doc, f, doc[f].origin)
    BY <1>1, <1>6, <2>0, FrameNat, ListsListed DEF AllowedFrom
  <2>2. \A g \in Frame : 0 < g /\ g <= f => Listed(doc, g - 1, doc[g].origin)
    <3> SUFFICES ASSUME NEW g \in Frame, 0 < g, g <= f PROVE Listed(doc, g - 1, doc[g].origin)
      OBVIOUS
    <3>1. g - 1 \in Frame /\ g - 1 <= f /\ g \in 1..f
      BY <1>2
    <3>2. Lists(g - 1, doc[g].origin)
      BY <1>6, <3>1 DEF AllowedFrom
    <3> QED BY <1>1, <2>0, <3>1, <3>2, ListsListed
  <2> QED BY <1>4, <1>6, <2>1, <2>2 DEF AllowedFrom, ChainListed
<1> QED BY <1>5, <1>6

---------------------------------------------------------------------------
(* The invariant that the answers rest on *)
AnswerInv ==
  /\ DocumentInv /\ Content /\ Near
  /\ Count /\ Asked /\ Recorded /\ Delegated /\ Full

LEMMA InitAnswer == Init => AnswerInv
<1> SUFFICES ASSUME Init PROVE AnswerInv
  OBVIOUS
<1>1. DocumentInv /\ Count
  BY InitDocument, InitCount
<1>2. \A f \in Frame : doc[f] = None /\ nav[f] = NoNav /\ ans[f] = "unknown"
  BY DEF Init
<1>3. DOMAIN store = {} /\ asks = {}
  BY DEF Init
<1>4. Content /\ Near /\ Asked /\ Delegated /\ Full
  BY <1>2, <1>3 DEF Content, Near, Asked, Delegated, Full
<1>5. Recorded
  BY <1>2, NoneIsNo DEF Recorded, Filed, Fresh
<1> QED BY <1>1, <1>4, <1>5 DEF AnswerInv

LEMMA NextAnswer == AnswerInv /\ [Next]_vars => AnswerInv'
BY NextDocument, NextContent, NextNear, NextCount, NextAsked, NextRecorded, NextDelegated,
   NextFull DEF AnswerInv

LEMMA AnswerInvPolicy == AnswerInv => AnswerIsPolicy
<1> SUFFICES ASSUME AnswerInv, NEW f \in Frame, Untouched(f)
             PROVE  /\ ans[f] = "allowed" => AllowedFrom(f, f)
                    /\ ans[f] # "unknown" /\ loads = Cardinality(Opened) =>
                         /\ ans[f] = "allowed" => AllowedFrom(1, f)
                         /\ AllowedFrom(1, f) /\ (\A g \in 0..f : Unmixed(g)) =>
                              ans[f] = "allowed"
  BY DEF AnswerIsPolicy
<1>1. TypeOK
  BY DEF AnswerInv, DocumentInv, RecordInv
<1>2. ans[f] = "allowed" => AllowedFrom(f, f)
  BY <1>1, NearAllowed DEF AnswerInv, Near
<1>3. loads = Cardinality(Opened) => Clean
  <2> DEFINE n == Cardinality(Opened)
             p == Cardinality(Pending)
  <2>1. n \in Nat /\ p \in Nat
    BY OpenedFrames, FiniteFrames
  <2>2. n + p <= loads
    BY DEF AnswerInv, Count
  <2>3. loads = n + p => Clean
    BY DEF Clean
  <2> HIDE DEF n, p
  <2>4. loads = n => loads = n + p
    BY <2>1, <2>2
  <2> QED BY <2>3, <2>4 DEF n
<1>4. ASSUME ans[f] # "unknown", Clean PROVE ans[f] = "allowed" <=> ChainListed(f)
  BY <1>4 DEF AnswerInv, Full
<1> QED BY <1>1, <1>2, <1>3, <1>4, ChainAllowed

(* Whatever was loaded, aborted and asked before, and in whatever order: a *)
(* document none of whose frames starts a navigation is allowed only what  *)
(* its own declarations, those of the document it is in, and the           *)
(* delegation permit; and while each frame is at its first document, the   *)
(* answer is the policy of the whole chain (policyForRequest).             *)
THEOREM AnswerCorrect == Spec => []AnswerIsPolicy
BY InitAnswer, NextAnswer, AnswerInvPolicy, PTL DEF Spec

(* What it rests on: every record is that of the load of its frame, with   *)
(* what the record of the parent permitted when it was made.               *)
THEOREM AnswerInvariant == Spec => []AnswerInv
BY InitAnswer, NextAnswer, PTL DEF Spec
=============================================================================
