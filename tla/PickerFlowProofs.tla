--------------------------- MODULE PickerFlowProofs ---------------------------
(***************************************************************************)
(* The choosers and the grants, for any number of requests, frames, tabs   *)
(* and revocations: a request with a chooser page is answered with its own *)
(* choice, and a device a page was given can be opened and is listed.      *)
(*                                                                         *)
(* What a request may be answered with is bounded from the moment it is    *)
(* chosen: a result names the request whose list it was chosen from, a     *)
(* selection is that of the request that pairs it, and the modal chooser   *)
(* resolves modal requests only.                                           *)
(*                                                                         *)
(* What it was answered with stays known because the background stores a   *)
(* grant before it tells the tabs, and tells them all before it answers:   *)
(* a message or an answer made without the grant is older than the one     *)
(* that follows the grant, and is never overtaken by it.                   *)
(***************************************************************************)
EXTENDS PickerFlow, WellFoundedInduction, TLAPS

-----------------------------------------------------------------------------
(* The inductive invariant *)

Popup(r) == q[r].mode = "popup"

\* The requests, and the modal choosers, are records throughout.
Fields == {"tab", "site", "mode", "page", "got", "brg", "sel"}
IsRequest(x) == DOMAIN x = Fields
DialogFields == {"open", "rv", "checked", "listed", "loads", "resolve", "closing", "filters"}
IsDialog(d) == DOMAIN d = DialogFields

\* What a request with a chooser page was given, and what is being granted for
\* it (grantSelectedDevices), is of its own list.
OwnAnswer ==
    /\ DOMAIN q = Req /\ \A r \in Req : IsRequest(q[r])
    /\ \A r \in Req : Popup(r) => q[r].got \subseteq {r} /\ q[r].sel \subseteq {r}

\* So is what a chooser page reported for it (handlePickerResult).
OwnResult == \A m \in res : m[2] \subseteq {m[1]}

\* The modal chooser of a tab resolves no request that has a page (show).
ModalOnly ==
    /\ DOMAIN dlg = Tab /\ \A t \in Tab : IsDialog(dlg[t])
    /\ \A r \in Req : q[r].brg = "frame" => ~Popup(r)
    /\ \A t \in Tab : \A r \in dlg[t].resolve : r \in Req /\ ~Popup(r)

ChoiceInv == OwnAnswer /\ OwnResult /\ ModalOnly

-----------------------------------------------------------------------------
(* What a step does to the requests *)

\* No request changes its mode, and none gets what it did not have unless it
\* is its own device.
Answers ==
    /\ OwnAnswer' /\ \A r \in Req : q'[r].mode = q[r].mode
    /\ \A r \in Req : q'[r].brg = "frame" => q[r].brg = "frame"

SameDialogs == dlg' = dlg

\* Only one request moves, and it is given and selects what it may.
LEMMA RequestMoves ==
    ASSUME OwnAnswer, NEW r, NEW x, q' = [q EXCEPT ![r] = x], r \in Req => IsRequest(x),
           r \in Req => x.mode = q[r].mode /\ x.brg # "frame",
           r \in Req /\ Popup(r) => x.got \subseteq {r} /\ x.sel \subseteq {r}
    PROVE  Answers
BY DEF OwnAnswer, Popup, Answers

\* The bridge answers a request, or goes on to grant what was selected for it.
LEMMA SettleAnswers ==
    ASSUME OwnAnswer, NEW r, NEW ds, Answer(r, ds) \/ grantSelectedDevices(r, ds),
           r \in Req /\ Popup(r) => ds \subseteq {r}
    PROVE  Answers
<1>1. CASE Answer(r, ds)
  <2> DEFINE x == [q[r] EXCEPT !.brg = "done", !.sel = {},
                     !.page = CASE FrameOf(r) \in gone -> @
                                [] FrameOf(r) \notin gone /\ ds = {} -> "none"
                                [] OTHER -> "granted",
                     !.got = IF FrameOf(r) \in gone THEN {} ELSE ds]
  <2>1. q' = [q EXCEPT ![r] = x]
    BY <1>1 DEF Answer
  <2>2. r \in Req => /\ IsRequest(x) /\ x.mode = q[r].mode /\ x.brg = "done" /\ x.sel = {}
                     /\ x.got \in {{}, ds}
    BY DEF OwnAnswer, IsRequest, Fields
  <2> HIDE DEF x
  <2> QED BY <2>1, <2>2, RequestMoves
<1>2. CASE grantSelectedDevices(r, ds)
  <2> DEFINE x == [q[r] EXCEPT !.brg = "pairing", !.sel = ds]
  <2>1. q' = [q EXCEPT ![r] = x]
    BY <1>2 DEF grantSelectedDevices
  <2>2. r \in Req => /\ IsRequest(x) /\ x.mode = q[r].mode /\ x.brg = "pairing" /\ x.sel = ds
                     /\ x.got = q[r].got
    BY DEF OwnAnswer, IsRequest, Fields
  <2>3. r \in Req /\ Popup(r) => x.got \subseteq {r} /\ x.sel \subseteq {r}
    BY <2>2 DEF OwnAnswer
  <2> HIDE DEF x
  <2> QED BY <2>1, <2>2, <2>3, RequestMoves
<1> QED BY <1>1, <1>2

LEMMA SettleOwn ==
    ASSUME OwnAnswer, NEW r, NEW ds, Settle(r, ds), r \in Req /\ Popup(r) => ds \subseteq {r}
    PROVE  Answers
BY SettleAnswers DEF Settle

\* Nobody's request moves.
LEMMA SameAnswers == ASSUME OwnAnswer, q' = q PROVE Answers
BY DEF OwnAnswer, Answers, Popup

\* If the requests, the results and the choosers keep to their own, so does all.
LEMMA ChoiceKept ==
    ASSUME ChoiceInv, Answers, OwnResult', DOMAIN dlg' = Tab,
           \A t \in Tab : IsDialog(dlg'[t]) /\ dlg'[t].resolve \subseteq dlg[t].resolve
    PROVE  ChoiceInv'
BY DEF ChoiceInv, OwnResult, ModalOnly, Answers, Popup

LEMMA SameDialogsKept ==
    ASSUME ChoiceInv, Answers, OwnResult', dlg' = dlg
    PROVE  ChoiceInv'
BY ChoiceKept DEF ChoiceInv, ModalOnly

-----------------------------------------------------------------------------
(* The steps *)

\* The page and the bridge, short of the choosers.
LEMMA PageStep ==
    ASSUME ChoiceInv, NEW r \in Req, requestDevice(r) \/ showPicker(r) \/ pickerTimeout(r) \/ loadPending(r)
    PROVE  ChoiceInv'
<1>0. OwnAnswer /\ OwnResult /\ res' = res /\ dlg' = dlg
  BY DEF ChoiceInv, requestDevice, showPicker, pickerTimeout, loadPending
<1>1. CASE requestDevice(r) \/ showPicker(r)
  <2>1. /\ DOMAIN q' = Req /\ \A e \in Req \ {r} : q'[e] = q[e]
        /\ IsRequest(q'[r]) /\ q'[r].mode = q[r].mode
        /\ q'[r].brg # "frame" /\ q'[r].got = q[r].got /\ q'[r].sel = q[r].sel
    <3>1. CASE requestDevice(r)
      BY <1>0, <3>1 DEF requestDevice, Refuse, OwnAnswer, IsRequest, Fields
    <3>2. CASE showPicker(r)
      BY <1>0, <3>2 DEF showPicker, OwnAnswer, IsRequest, Fields
    <3> QED BY <1>1, <3>1, <3>2
  <2>2. Answers
    BY <1>0, <2>1 DEF OwnAnswer, Answers, Popup
  <2> QED BY <1>0, <2>2, SameDialogsKept DEF OwnResult
<1>2. CASE pickerTimeout(r)
  <2>1. Answers
    BY <1>0, <1>2, SettleAnswers DEF pickerTimeout
  <2> QED BY <1>0, <2>1, SameDialogsKept DEF OwnResult
<1>3. CASE loadPending(r)
  <2>1. Answers
    BY <1>0, <1>3, SameAnswers DEF loadPending
  <2> QED BY <1>0, <2>1, SameDialogsKept DEF OwnResult
<1> QED BY <1>1, <1>2, <1>3

\* The listener of a request takes the result with its id (onPickerResult).
LEMMA ResultStep ==
    ASSUME ChoiceInv, NEW m \in res, onPickerResult(m)
    PROVE  ChoiceInv'
<1>0. OwnAnswer /\ OwnResult /\ OwnResult' /\ dlg' = dlg
  BY DEF ChoiceInv, OwnResult, onPickerResult
<1>1. q' = q \/ Settle(m[1], m[2])
  BY DEF onPickerResult, Listeners
<1>2. Answers
  BY <1>0, <1>1, SameAnswers, SettleOwn DEF OwnResult
<1> QED BY <1>0, <1>2, SameDialogsKept

\* A destroyed frame takes its requests' answers with it (destroyFrameContext).
LEMMA LeaveStep ==
    ASSUME ChoiceInv, NEW f, Leave(f)
    PROVE  ChoiceInv'
<1>0. OwnAnswer /\ OwnResult /\ OwnResult'
  BY DEF ChoiceInv, OwnResult, Leave
<1>1. Answers
  <2>1. q' = [r \in Req |-> IF ~Ended(r, f) THEN q[r]
                            ELSE [q[r] EXCEPT !.page = "left", !.got = {},
                                    !.brg = IF f[2] = "top" \/ @ = "idle" THEN "done" ELSE @,
                                    !.sel = IF f[2] = "top" THEN {} ELSE @]]
    BY DEF Leave
  <2>2. ASSUME NEW r \in Req
        PROVE  /\ IsRequest(q'[r]) /\ q'[r].mode = q[r].mode
               /\ q'[r].got \in {{}, q[r].got} /\ q'[r].sel \in {{}, q[r].sel}
               /\ q'[r].brg \in {"done", q[r].brg}
    <3>1. IsRequest(q[r])
      BY <1>0 DEF OwnAnswer
    <3>2. CASE ~Ended(r, f)
      BY <2>1, <3>1, <3>2
    <3>3. CASE Ended(r, f)
      <4>1. q'[r] = [q[r] EXCEPT !.page = "left", !.got = {},
                                    !.brg = IF f[2] = "top" \/ @ = "idle" THEN "done" ELSE @,
                                    !.sel = IF f[2] = "top" THEN {} ELSE @]
        BY <2>1, <3>3
      <4> QED BY <3>1, <4>1 DEF IsRequest, Fields
    <3> QED BY <3>2, <3>3
  <2> QED BY <1>0, <2>1, <2>2 DEF Answers, OwnAnswer, Popup
<1>2. /\ DOMAIN dlg' = Tab
      /\ \A t \in Tab : IsDialog(dlg'[t]) /\ dlg'[t].resolve \subseteq dlg[t].resolve
  <2>1. dlg' = dlg \/ dlg' = [dlg EXCEPT ![f[1]] = Closed]
    BY DEF Leave
  <2>2. IsDialog(Closed) /\ Closed.resolve = {}
    BY DEF IsDialog, DialogFields, Closed
  <2> QED BY <2>1, <2>2 DEF ChoiceInv, ModalOnly
<1> QED BY <1>0, <1>1, <1>2, ChoiceKept

\* A chooser that lists, closes or is dismissed resolves nobody else.
LEMMA ChooserStep ==
    ASSUME ChoiceInv, NEW t \in Tab, Listed(t) \/ Check(t) \/ Connect(t) \/ Dismiss(t)
    PROVE  ChoiceInv'
<1>0. OwnAnswer /\ OwnResult /\ OwnResult' /\ q' = q
  BY DEF ChoiceInv, OwnResult, Listed, Check, Connect, Dismiss, Dialog
<1>1. PICK x : dlg' = [dlg EXCEPT ![t] = x] /\ IsDialog(x) /\ x.resolve = dlg[t].resolve
  <2>0. IsDialog(dlg[t])
    BY DEF ChoiceInv, ModalOnly
  <2>1. CASE Listed(t)
    <3>1. PICK r : Dialog(t, [dlg[t] EXCEPT !.loads = @ \ {r}, !.listed = {r}, !.checked = {}])
      BY <2>1 DEF Listed
    <3> DEFINE x == [dlg[t] EXCEPT !.loads = @ \ {r}, !.listed = {r}, !.checked = {}]
    <3>2. IsDialog(x) /\ x.resolve = dlg[t].resolve
      BY <2>0 DEF IsDialog, DialogFields
    <3> QED BY <3>1, <3>2 DEF Dialog
  <2>2. CASE Check(t)
    <3> DEFINE x == [dlg[t] EXCEPT !.checked = @ \cup dlg[t].listed]
    <3>1. IsDialog(x) /\ x.resolve = dlg[t].resolve
      BY <2>0 DEF IsDialog, DialogFields
    <3> QED BY <2>2, <3>1 DEF Check, Dialog
  <2>3. CASE Connect(t) \/ Dismiss(t)
    <3>1. PICK rv : Dialog(t, [Close(dlg[t]) EXCEPT !.rv = rv])
      BY <2>3 DEF Connect, Dismiss
    <3> DEFINE x == [Close(dlg[t]) EXCEPT !.rv = rv]
    <3>2. IsDialog(x) /\ x.resolve = dlg[t].resolve
      BY <2>0 DEF Close, IsDialog, DialogFields
    <3> QED BY <3>1, <3>2 DEF Dialog
  <2> QED BY <2>1, <2>2, <2>3
<1>2. Answers
  BY <1>0, SameAnswers
<1> QED BY <1>0, <1>1, <1>2, ChoiceKept DEF ChoiceInv, ModalOnly

\* A modal request opens the chooser of its tab, and is the one it resolves.
LEMMA ShowStep ==
    ASSUME ChoiceInv, NEW r \in Req, show(r) \/ Shown(r)
    PROVE  ChoiceInv'
<1> DEFINE t == q[r].tab
<1>0. OwnAnswer /\ ModalOnly /\ OwnResult' /\ ~Popup(r)
  BY DEF ChoiceInv, OwnResult, ModalOnly, show, Shown, Dialog, Popup
<1>1. /\ DOMAIN q' = Req /\ \A e \in Req \ {r} : q'[e] = q[e]
      /\ IsRequest(q'[r]) /\ q'[r].mode = q[r].mode
      /\ q'[r].got = q[r].got /\ q'[r].sel = q[r].sel
  BY <1>0 DEF show, Shown, OwnAnswer, IsRequest, Fields
<1>2. OwnAnswer' /\ \A e \in Req : Popup(e)' <=> Popup(e)
  BY <1>0, <1>1 DEF OwnAnswer, Popup
<1>3. \A e \in Req : q'[e].brg = "frame" => ~Popup(e)
  BY <1>0, <1>1 DEF ModalOnly
<1>4. /\ DOMAIN dlg' = Tab
      /\ \A u \in Tab : IsDialog(dlg'[u]) /\ dlg'[u].resolve \subseteq dlg[u].resolve \cup {r}
  <2>1. CASE show(r)
    <3> DEFINE x == [(IF dlg[t].open THEN Close(dlg[t]) ELSE dlg[t]) EXCEPT !.filters = {r}]
    <3>1. dlg' = [dlg EXCEPT ![t] = x]
      BY <2>1 DEF show, Dialog
    <3>2. t \in Tab => IsDialog(x) /\ x.resolve = dlg[t].resolve
      BY <1>0 DEF ModalOnly, Close, IsDialog, DialogFields
    <3> HIDE DEF x, t
    <3> QED BY <1>0, <3>1, <3>2 DEF ModalOnly
  <2>2. CASE Shown(r)
    <3> DEFINE x == [dlg[t] EXCEPT !.open = TRUE, !.loads = @ \cup dlg[t].filters, !.resolve = {r}]
    <3>1. dlg' = [dlg EXCEPT ![t] = x]
      BY <2>2 DEF Shown, Dialog
    <3>2. t \in Tab => IsDialog(x) /\ x.resolve = {r}
      BY <1>0 DEF ModalOnly, IsDialog, DialogFields
    <3> HIDE DEF x, t
    <3> QED BY <1>0, <3>1, <3>2 DEF ModalOnly
  <2> QED BY <2>1, <2>2
<1>5. ModalOnly'
  BY <1>0, <1>2, <1>3, <1>4 DEF ModalOnly
<1> QED BY <1>0, <1>2, <1>5 DEF ChoiceInv

\* The close event answers the modal request, with whatever is checked.
LEMMA CloseStep ==
    ASSUME ChoiceInv, NEW t \in Tab, onClose(t)
    PROVE  ChoiceInv'
<1> DEFINE ds == IF dlg[t].rv = "selected" THEN dlg[t].checked ELSE {}
<1>0. OwnAnswer /\ ModalOnly /\ OwnResult'
  BY DEF ChoiceInv, OwnResult, onClose, Dialog
<1>1. q' = q \/ \E r \in dlg[t].resolve : Settle(r, ds)
  BY DEF onClose, Resolve
<1>2. \A r \in dlg[t].resolve : r \in Req /\ ~Popup(r)
  BY <1>0 DEF ModalOnly
<1>3. Answers
  BY <1>0, <1>1, <1>2, SameAnswers, SettleOwn
<1>4. /\ DOMAIN dlg' = Tab
      /\ \A u \in Tab : IsDialog(dlg'[u]) /\ dlg'[u].resolve \subseteq dlg[u].resolve
  <2> DEFINE x == [dlg[t] EXCEPT !.closing = @ - 1, !.resolve = {}]
  <2>1. dlg' = [dlg EXCEPT ![t] = x]
    BY DEF onClose, Dialog
  <2>2. IsDialog(x) /\ x.resolve = {}
    BY <1>0 DEF ModalOnly, IsDialog, DialogFields
  <2> HIDE DEF x
  <2> QED BY <1>0, <2>1, <2>2 DEF ModalOnly
<1> QED BY <1>0, <1>3, <1>4, ChoiceKept

\* A chooser page reports a choice from the list of the request it shows, or none.
LEMMA ChooserPageStep ==
    ASSUME ChoiceInv, NEW r \in Req, Choose(r) \/ Unload(r)
    PROVE  ChoiceInv'
<1>0. OwnAnswer /\ OwnResult /\ q' = q /\ dlg' = dlg
  BY DEF ChoiceInv, Choose, Unload
<1>1. res' = res \/ \E x \in pk[r].req : \E ds \in {{x}, {}} : res' = res \cup {<<x, ds>>}
  <2>1. CASE Choose(r)
    BY <2>1 DEF Choose, handlePickerResult
  <2>2. CASE Unload(r)
    BY <2>2 DEF Unload, handlePickerResult
  <2> QED BY <2>1, <2>2
<1>2. OwnResult'
  BY <1>0, <1>1 DEF OwnResult
<1> QED BY <1>0, <1>2, SameAnswers, SameDialogsKept

\* The background answers a bridge: what it granted goes to the request it was
\* selected for (grantSelectedDevices, after its awaits).
LEMMA RespondStep ==
    ASSUME ChoiceInv, NEW t \in Tab, Respond(t)
    PROVE  ChoiceInv'
<1> DEFINE r == srv[t].msg.r
<1>0. OwnAnswer /\ OwnResult /\ OwnResult' /\ dlg' = dlg
  BY DEF ChoiceInv, OwnResult, Respond
<1>1. q' = q \/ q' = [q EXCEPT ![r].brg = "loading"] \/ Answer(r, q[r].sel)
  BY DEF Respond
<1>2. CASE q' = q
  BY <1>0, <1>2, SameAnswers, SameDialogsKept
<1>3. CASE q' = [q EXCEPT ![r].brg = "loading"]
  <2> DEFINE x == [q[r] EXCEPT !.brg = "loading"]
  <2>1. q' = [q EXCEPT ![r] = x]
    BY <1>3
  <2>2. r \in Req => /\ IsRequest(x) /\ x.mode = q[r].mode /\ x.brg = "loading"
                     /\ x.got = q[r].got /\ x.sel = q[r].sel
    BY <1>0 DEF OwnAnswer, IsRequest, Fields
  <2>3. r \in Req /\ Popup(r) => x.got \subseteq {r} /\ x.sel \subseteq {r}
    BY <1>0, <2>2 DEF OwnAnswer
  <2> HIDE DEF x, r
  <2>4. Answers
    BY <1>0, <2>1, <2>2, <2>3, RequestMoves
  <2> QED BY <1>0, <2>4, SameDialogsKept
<1>4. CASE Answer(r, q[r].sel)
  <2>1. r \in Req /\ Popup(r) => q[r].sel \subseteq {r}
    BY <1>0 DEF OwnAnswer
  <2> HIDE DEF r
  <2>2. Answers
    BY <1>0, <1>4, <2>1, SettleAnswers
  <2> QED BY <1>0, <2>2, SameDialogsKept
<1> QED BY <1>1, <1>2, <1>3, <1>4

\* Steps that leave the requests, the results and the choosers alone.
LEMMA AsideStep == ASSUME ChoiceInv, UNCHANGED <<q, res, dlg>> PROVE ChoiceInv'
<1>1. OwnAnswer /\ OwnResult' /\ dlg' = dlg
  BY DEF ChoiceInv, OwnResult
<1> QED BY <1>1, SameAnswers, SameDialogsKept

LEMMA ServeStep == ASSUME ChoiceInv, NEW t \in Tab, Serve(t) \/ Hear(t) PROVE ChoiceInv'
<1>1. CASE Respond(t)
  BY <1>1, RespondStep
<1>2. ASSUME UNCHANGED <<q, res, dlg>> PROVE ChoiceInv'
  BY <1>2, AsideStep
<1>3. CASE handleShowPicker(t) \/ handleCancelPicker(t) \/ ReadGrants(t) \/ addAllowedDevice(t)
  BY <1>2, <1>3 DEF handleShowPicker, handleCancelPicker, ReadGrants, addAllowedDevice, Take
<1>4. CASE notifyAllowedDevicesChanged(t) \/ Hear(t)
  BY <1>2, <1>4 DEF notifyAllowedDevicesChanged, Hear
<1> QED BY <1>1, <1>3, <1>4 DEF Serve

LEMMA InitChoice == Init => ChoiceInv
<1> SUFFICES ASSUME Init PROVE ChoiceInv
  OBVIOUS
<1>1. /\ DOMAIN q = Req
      /\ \A r \in Req : IsRequest(q[r]) /\ q[r].got = {} /\ q[r].sel = {} /\ q[r].brg = "idle"
  BY DEF Init, IsRequest, Fields
<1>2. DOMAIN dlg = Tab /\ (\A t \in Tab : IsDialog(dlg[t]) /\ dlg[t].resolve = {}) /\ res = {}
  BY DEF Init, Closed, IsDialog, DialogFields
<1> QED BY <1>1, <1>2 DEF ChoiceInv, OwnAnswer, OwnResult, ModalOnly

LEMMA ChoiceStep == ChoiceInv /\ [Next]_vars => ChoiceInv'
<1> SUFFICES ASSUME ChoiceInv, [Next]_vars PROVE ChoiceInv'
  OBVIOUS
<1>1. CASE UNCHANGED vars
  BY <1>1, AsideStep DEF vars
<1>2. ASSUME NEW f, getDevices(f) \/ isDeviceAllowed(f) PROVE ChoiceInv'
  BY <1>2, AsideStep DEF getDevices, isDeviceAllowed
<1>3. ASSUME NEW g, Revoke(g) \/ TellRevoked PROVE ChoiceInv'
  BY <1>3, AsideStep DEF Revoke, TellRevoked
<1>4. CASE User
  BY <1>3, <1>4, ChooserStep, ChooserPageStep DEF User
<1>5. CASE \E r \in Req : \/ requestDevice(r) \/ showPicker(r) \/ show(r) \/ Shown(r)
                          \/ pickerTimeout(r) \/ loadPending(r)
  BY <1>5, PageStep, ShowStep
<1>6. CASE \E t \in Tab : Serve(t) \/ Hear(t) \/ Listed(t) \/ onClose(t)
  BY <1>6, ServeStep, ChooserStep, CloseStep
<1> QED BY <1>1, <1>2, <1>3, <1>4, <1>5, <1>6, LeaveStep, ResultStep DEF Next

-----------------------------------------------------------------------------
(* The theorems *)

\* The inductive invariant holds in every reachable state.
THEOREM ChoiceInvCorrect == Spec => []ChoiceInv
BY InitChoice, ChoiceStep, PTL DEF Spec

\* A request with a chooser page is answered with the device of its own list,
\* whichever request a page came to show and however many results came for the
\* tab (showPicker's listener, handlePickerResult, grantSelectedDevices).
THEOREM AnsweredCorrect == Spec => []AnsweredByOwnChoice
<1>1. ChoiceInv => AnsweredByOwnChoice
  BY DEF ChoiceInv, OwnAnswer, AnsweredByOwnChoice, Popup
<1> QED BY <1>1, ChoiceInvCorrect, PTL

-----------------------------------------------------------------------------
(* The grants: the inductive invariant *)

\* The queues are sequences, whatever is in them.
IsSequence(s) == s \in Seq({s[i] : i \in DOMAIN s})

SrvFields == {"st", "msg", "set"}
Shapes ==
    /\ DOMAIN q = Req /\ \A r \in Req : IsRequest(q[r]) /\ FrameOf(r) \in Place
    /\ DOMAIN ctl = Tab /\ DOMAIN srv = Tab /\ DOMAIN news = Tab /\ DOMAIN allowed = Tab
    /\ \A t \in Tab : /\ IsSequence(ctl[t]) /\ IsSequence(news[t])
                      /\ DOMAIN srv[t] = SrvFields
                      /\ DOMAIN allowed[t] = {"loaded", "set"} /\ DOMAIN allowed[t].set = Site
    /\ DOMAIN paired = Place /\ \A f \in Place : DOMAIN paired[f] = {"known", "set", "asked"}
    /\ DOMAIN hist = {"revoked", "failed", "revoke", "n", "lists"}

\* The frames of a tab go with its top frame (destroyFrameContext).
WithTop == \A p \in Place : <<p[1], "top">> \in gone => p \in gone

Here(r) == FrameOf(r) \notin gone

\* A grant under way is that of its request: for its frame's site, of what was
\* selected (grantSelectedDevices), one question after the other.
Granting == {"pairing", "loading", "done"}
Granted(m, t) ==
    /\ m.a \in {"pair", "load"} =>
         /\ DOMAIN m = {"a", "r", "site", "ds"} /\ m.r \in Req
         /\ q[m.r].brg \in IF m.a = "pair" THEN Granting ELSE {"loading", "done"}
         /\ q[m.r].tab = t
         /\ Here(m.r) => q[m.r].site = m.site /\ (q[m.r].brg = "pairing" => q[m.r].sel \subseteq m.ds)
    /\ m.a = "list" => m.f \in Place /\ m.f[1] = t
Messages ==
    /\ \A t \in Tab : \A i \in 1..Len(ctl[t]) : Granted(ctl[t][i], t)
    /\ \A t \in Tab : srv[t].st # "idle" => Granted(srv[t].msg, t)

\* Only what is being granted is selected, and a chooser resolves a request of
\* its tab, once (onClose).
Selections ==
    /\ \A r \in Req : Here(r) /\ q[r].brg \notin {"pairing", "loading"} => q[r].sel = {}
    /\ \A r \in Req : Here(r) /\ q[r].page = "new" => q[r].brg = "idle"
    /\ \A t \in Tab : \A r \in dlg[t].resolve : r \in Req /\ q[r].brg = "modal" /\ q[r].tab = t

\* A tab's grant that is notified has one message on its way.
Told ==
    /\ \A t \in Tab : srv[t].st \in {"added", "notify"} => srv[t].msg.a = "pair"
    /\ \A u \in Tab : \A i \in 1..Len(news[u]) :
         news[u][i].by # 0 => news[u][i].by \in Tab /\ srv[news[u][i].by].st = "notify"
    /\ \A u, v \in Tab : \A i \in 1..Len(news[u]), j \in 1..Len(news[v]) :
         news[u][i].by = news[v][j].by /\ news[u][i].by # 0 => u = v /\ i = j

Kept(g) == g \notin hist.revoked /\ g \notin hist.failed

\* A message that would have a bridge forget the grant.
Misses(m, g) == m.site = g[1] /\ g[2] \notin m.set
NoneMisses(g) == \A u \in Tab : \A i \in 1..Len(news[u]) : ~Misses(news[u][i], g)

\* The message of tab t's grant overtakes none of them: they are in tabs that
\* are told later, or before it in its own queue.
Overtaken(t, g) ==
    \A u, v \in Tab : \A i \in 1..Len(news[u]), j \in 1..Len(news[v]) :
        news[u][i].by = t /\ Misses(news[v][j], g) => v > u \/ (v = u /\ j < i)

StoredFor(t, g) ==
    /\ g \in store
    /\ srv[t].st = "notify" => Overtaken(t, g)
    /\ srv[t].st = "reply" => NoneMisses(g)
Pairs(t, g) ==
    /\ srv[t].msg.a = "pair" /\ srv[t].st # "idle"
    /\ srv[t].msg.site = g[1] /\ g[2] \in srv[t].msg.ds
Grant(g) == g = <<g[1], g[2]>>
Storing == \A t \in Tab : \A g : Grant(g) /\ Pairs(t, g) /\ Kept(g) => StoredFor(t, g)

\* Nothing on its way to the bridge of tab t lacks the grant.
Answering(t, g) ==
    srv[t].st = "reply" /\ srv[t].msg.a \in {"ask", "load", "list"} /\ SiteOf(srv[t].msg) = g[1]
      => g[2] \in srv[t].set
Secure(t, g) == g \in store /\ NoneMisses(g) /\ Answering(t, g)

\* What a request has got, or will get when its bridge has loaded the grants.
Due(r) == q[r].got \cup IF q[r].brg = "loading" THEN q[r].sel ELSE {}
Has(r, d) ==
    d \in q[r].got =>
      /\ d \in allowed[q[r].tab].set[q[r].site]
      /\ paired[FrameOf(r)].known => d \in paired[FrameOf(r)].set
Secured ==
    \A r \in Req : \A d \in Due(r) : \A t \in {q[r].tab}, g \in {<<q[r].site, d>>} :
      Here(r) /\ Kept(g) => Secure(t, g) /\ Has(r, d)

GrantInv == Shapes /\ WithTop /\ Messages /\ Selections /\ Told /\ Storing /\ Secured

-----------------------------------------------------------------------------
(* Sequences and tabs *)

LEMMA AppendIs ==
    ASSUME NEW s, IsSequence(s), NEW e
    PROVE  /\ IsSequence(Append(s, e)) /\ Len(s) \in Nat /\ Len(Append(s, e)) = Len(s) + 1
           /\ \A i \in 1..Len(s) : Append(s, e)[i] = s[i]
           /\ Append(s, e)[Len(s) + 1] = e
<1> DEFINE S == {s[i] : i \in DOMAIN s} \cup {e}
           p == Append(s, e)
<1>1. s \in Seq(S) /\ e \in S
  BY DEF IsSequence
<1> HIDE DEF S
<1>2. /\ p \in Seq(S) /\ Len(s) \in Nat /\ Len(p) = Len(s) + 1
      /\ \A i \in 1..Len(s) : p[i] = s[i]
      /\ p[Len(s) + 1] = e
  BY <1>1
<1> HIDE DEF p
<1>3. p \in Seq({p[i] : i \in DOMAIN p})
  BY <1>2
<1> QED BY <1>2, <1>3 DEF IsSequence, p

LEMMA TailIs ==
    ASSUME NEW s, IsSequence(s), s # <<>>
    PROVE  /\ IsSequence(Tail(s)) /\ Len(s) \in Nat \ {0} /\ Len(Tail(s)) = Len(s) - 1
           /\ \A i \in 1..Len(s) - 1 : Tail(s)[i] = s[i + 1]
           /\ Head(s) = s[1]
<1> DEFINE S == {s[i] : i \in DOMAIN s}
           p == Tail(s)
<1>1. s \in Seq(S)
  BY DEF IsSequence
<1> HIDE DEF S
<1>2. /\ p \in Seq(S) /\ Len(s) \in Nat \ {0} /\ Len(p) = Len(s) - 1
      /\ \A i \in 1..Len(s) - 1 : p[i] = s[i + 1]
      /\ Head(s) = s[1]
  BY <1>1
<1> HIDE DEF p
<1>3. p \in Seq({p[i] : i \in DOMAIN p})
  BY <1>2
<1> QED BY <1>2, <1>3 DEF IsSequence, p

\* A set of numbers has a least one.
LEMMA Least == ASSUME NEW T, T \subseteq Nat, T # {} PROVE \E x \in T : \A y \in T : x <= y
<1> DEFINE R == {ss \in Nat \X Nat : ss[1] < ss[2]}
<1>1. IsWellFoundedOn(R, Nat)
  BY NatLessThanWellFounded DEF OpToRel
<1>2. \A x, y \in Nat : x < y => <<x, y>> \in R
  OBVIOUS
<1> HIDE DEF R
<1>3. PICK x \in T : \A y \in T : ~(<<y, x>> \in R)
  BY <1>1, WFMin
<1>4. \A y \in T : ~(y < x)
  BY <1>2, <1>3
<1>5. \A y \in T : x <= y
  BY <1>4
<1> QED BY <1>5

LEMMA TabNat == Tab \subseteq Nat \ {0}
BY PickerAssumption DEF Tab

LEMMA FirstIs == Tab # {} => First \in Tab /\ \A u \in Tab : First <= u
BY TabNat, Least DEF First

-----------------------------------------------------------------------------
(* What the tabs are told *)

TellShapes ==
    /\ DOMAIN srv = Tab /\ DOMAIN news = Tab /\ DOMAIN hist = {"revoked", "failed", "revoke", "n", "lists"}
    /\ \A t \in Tab : IsSequence(news[t]) /\ DOMAIN srv[t] = SrvFields

\* Where the message at a place was before tab t heard the first of its own.
Moved(t, n, v, k, w, j) ==
    \/ w = v /\ v # t /\ j = k
    \/ w = v /\ v = t /\ j = k + 1
    \/ w = t /\ j = 1 /\ v = n /\ n \in Tab /\ n > t /\ (\A u \in Tab : u > t => n <= u)
       /\ k = Len(news[n]) + 1
Ends(t) == \A u \in Tab : u <= t

\* The queues after tab t has heard a message (Hear).
Hears(t, n) ==
    /\ \A v \in Tab : IsSequence(news'[v]) /\ DOMAIN news' = Tab
    /\ \A v \in Tab : \A k \in 1..Len(news'[v]) :
         \E w \in Tab : \E j \in 1..Len(news[w]) : news'[v][k] = news[w][j] /\ Moved(t, n, v, k, w, j)
    /\ \A v \in Tab : \A j \in 1..Len(news[v]) : j > 1 \/ v # t =>
         \E k \in 1..Len(news'[v]) : news'[v][k] = news[v][j]

LEMMA HearNews ==
    ASSUME TellShapes, NEW t \in Tab, Hear(t)
    PROVE  /\ \E n : Hears(t, n)
           /\ Len(news[t]) \in Nat \ {0}
           /\ \/ srv' = srv
              \/ /\ Ends(t) /\ news[t][1].by # 0
                 /\ srv' = [srv EXCEPT ![news[t][1].by].st = "reply"]
           /\ UNCHANGED <<q, gone, ctl, store, dlg, bgp, pk, res, hist>>
<1> DEFINE m == Head(news[t])
           rest == {u \in Tab : u > t}
           n == CHOOSE u \in rest : \A v \in rest : u <= v
           x == Tail(news[t])
           heard == [news EXCEPT ![t] = x]
<1>0. news[t] # <<>> /\ IsSequence(news[t]) /\ DOMAIN news = Tab /\ t \in Nat
  BY TabNat DEF TellShapes, Hear
<1>1. /\ news' = IF m.by = 0 \/ rest = {} THEN heard ELSE [heard EXCEPT ![n] = Append(@, m)]
      /\ srv' = IF m.by # 0 /\ rest = {} THEN [srv EXCEPT ![m.by].st = "reply"] ELSE srv
  BY DEF Hear
<1>2. /\ IsSequence(x) /\ Len(news[t]) \in Nat \ {0} /\ Len(x) = Len(news[t]) - 1
      /\ \A i \in 1..Len(news[t]) - 1 : x[i] = news[t][i + 1]
      /\ m = news[t][1]
  BY <1>0, TailIs
<1>3. rest # {} => n \in Tab /\ n > t /\ \A u \in Tab : u > t => n <= u
  <2>1. rest \subseteq Nat
    BY TabNat
  <2>2. rest # {} => \E u \in rest : \A v \in rest : u <= v
    BY <2>1, Least
  <2>3. rest # {} => n \in rest /\ \A v \in rest : n <= v
    BY <2>2
  <2> QED BY <2>3
<1>4. rest = {} => Ends(t)
  BY TabNat, <1>0 DEF Ends
<1>5. \A v \in Tab : IsSequence(news[v]) /\ Len(news[v]) \in Nat
  <2>1. ASSUME NEW v \in Tab PROVE IsSequence(news[v]) /\ Len(news[v]) \in Nat
    BY AppendIs DEF TellShapes
  <2> QED BY <2>1
<1>6. Hears(t, n)
  <2>1. CASE news' = heard
    <3> HIDE DEF x, m, n
    <3>1. DOMAIN news' = Tab /\ news'[t] = x /\ \A v \in Tab \ {t} : news'[v] = news[v]
      BY <1>0, <2>1
    <3>2. \A v \in Tab : IsSequence(news'[v])
      BY <1>2, <1>5, <3>1
    <3>3. ASSUME NEW v \in Tab, NEW k \in 1..Len(news'[v])
          PROVE \E w \in Tab : \E j \in 1..Len(news[w]) : news'[v][k] = news[w][j] /\ Moved(t, n, v, k, w, j)
      <4>1. CASE v = t
        <5>1. k + 1 \in 1..Len(news[t]) /\ news'[t][k] = news[t][k + 1]
          BY <1>2, <3>1, <4>1
        <5> QED BY <4>1, <5>1 DEF Moved
      <4>2. CASE v # t
        BY <3>1, <4>2 DEF Moved
      <4> QED BY <4>1, <4>2
    <3>4. ASSUME NEW v \in Tab, NEW j \in 1..Len(news[v]), j > 1 \/ v # t
          PROVE \E k \in 1..Len(news'[v]) : news'[v][k] = news[v][j]
      <4>1. CASE v = t
        <5>1. j - 1 \in 1..Len(x) /\ x[j - 1] = news[t][j]
          BY <1>2, <3>4, <4>1
        <5> QED BY <3>1, <4>1, <5>1
      <4>2. CASE v # t
        BY <3>1, <4>2
      <4> QED BY <4>1, <4>2
    <3> QED BY <3>1, <3>2, <3>3, <3>4 DEF Hears
  <2>2. CASE rest # {} /\ news' = [heard EXCEPT ![n] = Append(@, m)]
    <3> DEFINE y == Append(news[n], m)
    <3>0. n \in Tab /\ n > t /\ (\A u \in Tab : u > t => n <= u) /\ n # t
      <4> HIDE DEF n, rest, heard, m
      <4>1. n \in Tab /\ n > t /\ \A u \in Tab : u > t => n <= u
        BY <1>3, <2>2
      <4>2. n \in Nat
        BY <4>1, TabNat
      <4> QED BY <1>0, <4>1, <4>2
    <3>y. /\ IsSequence(y) /\ Len(news[n]) \in Nat /\ Len(y) = Len(news[n]) + 1
          /\ \A i \in 1..Len(news[n]) : y[i] = news[n][i]
          /\ y[Len(news[n]) + 1] = m
      BY <1>5, <3>0, AppendIs
    <3>1. /\ DOMAIN news' = Tab /\ news'[t] = x /\ news'[n] = y
          /\ \A v \in Tab \ {t, n} : news'[v] = news[v]
      <4> HIDE DEF x, m, n
      <4>1. DOMAIN heard = Tab /\ heard[t] = x /\ \A v \in Tab \ {t} : heard[v] = news[v]
        BY <1>0
      <4>2. heard[n] = news[n]
        BY <3>0, <4>1
      <4> HIDE DEF heard
      <4>3. news' = [heard EXCEPT ![n] = Append(heard[n], m)]
        BY <2>2
      <4> QED BY <3>0, <4>1, <4>2, <4>3
    <3> HIDE DEF x, m, n, y
    <3>2. \A v \in Tab : IsSequence(news'[v])
      BY <1>2, <1>5, <3>1, <3>y
    <3>3. ASSUME NEW v \in Tab, NEW k \in 1..Len(news'[v])
          PROVE \E w \in Tab : \E j \in 1..Len(news[w]) : news'[v][k] = news[w][j] /\ Moved(t, n, v, k, w, j)
      <4>1. CASE v = t
        <5>1. k + 1 \in 1..Len(news[t]) /\ news'[t][k] = news[t][k + 1]
          BY <1>2, <3>1, <4>1
        <5> QED BY <4>1, <5>1 DEF Moved
      <4>2. CASE v = n /\ k = Len(news[n]) + 1
        <5>1. 1 \in 1..Len(news[t]) /\ news'[n][k] = news[t][1]
          BY <1>2, <3>1, <3>y, <4>2
        <5>2. Moved(t, n, v, k, t, 1)
          BY <3>0, <4>2 DEF Moved
        <5> QED BY <4>2, <5>1, <5>2
      <4>3. CASE v = n /\ k # Len(news[n]) + 1
        <5>1. k \in 1..Len(news[n]) /\ news'[n][k] = news[n][k]
          BY <3>1, <3>y, <4>3
        <5> QED BY <3>0, <4>3, <5>1 DEF Moved
      <4>4. CASE v \notin {t, n}
        BY <3>1, <4>4 DEF Moved
      <4> QED BY <4>1, <4>2, <4>3, <4>4
    <3>4. ASSUME NEW v \in Tab, NEW j \in 1..Len(news[v]), j > 1 \/ v # t
          PROVE \E k \in 1..Len(news'[v]) : news'[v][k] = news[v][j]
      <4>1. CASE v = t
        <5>1. j - 1 \in 1..Len(x) /\ x[j - 1] = news[t][j]
          BY <1>2, <3>4, <4>1
        <5> QED BY <3>1, <4>1, <5>1
      <4>2. CASE v = n
        <5>1. j \in 1..Len(y) /\ y[j] = news[n][j]
          BY <3>y, <4>2
        <5> QED BY <3>1, <4>2, <5>1
      <4>3. CASE v \notin {t, n}
        BY <3>1, <4>3
      <4> QED BY <4>1, <4>2, <4>3
    <3> QED BY <3>1, <3>2, <3>3, <3>4 DEF Hears
  <2> QED BY <1>1, <2>1, <2>2
<1>7. \/ srv' = srv
      \/ Ends(t) /\ news[t][1].by # 0 /\ srv' = [srv EXCEPT ![news[t][1].by].st = "reply"]
  <2> HIDE DEF m, n, rest, heard
  <2> QED BY <1>1, <1>2, <1>4
<1> QED BY <1>2, <1>6, <1>7 DEF Hear

\* What happens to the queues and the grants but for a step of the background.
Silent ==
    /\ news' = news /\ srv' = srv /\ store' = store
    /\ hist'.revoked = hist.revoked /\ hist'.failed = hist.failed
    /\ DOMAIN hist' = DOMAIN hist

LEMMA Kinds ==
    ASSUME [Next]_vars, DOMAIN hist = {"revoked", "failed", "revoke", "n", "lists"}
    PROVE  \/ Silent
           \/ \E t \in Tab : Serve(t) \/ Hear(t)
           \/ (\E g \in store : Revoke(g)) \/ TellRevoked
<1>1. CASE UNCHANGED vars
  BY <1>1 DEF vars, Silent
<1>2. ASSUME UNCHANGED <<news, srv, store, hist>> PROVE Silent
  BY <1>2 DEF Silent
<1>3. ASSUME NEW r, \/ requestDevice(r) \/ showPicker(r) \/ show(r) \/ Shown(r)
                    \/ pickerTimeout(r) \/ loadPending(r) \/ Choose(r) \/ Unload(r)
      PROVE  Silent
  BY <1>2, <1>3 DEF requestDevice, showPicker, show, Shown, Dialog, pickerTimeout, loadPending, Choose, Unload
<1>4. ASSUME NEW f, getDevices(f) PROVE Silent
  BY <1>4 DEF getDevices, Silent
<1>5. ASSUME NEW f, isDeviceAllowed(f) \/ Leave(f) PROVE Silent
  BY <1>2, <1>5 DEF isDeviceAllowed, Leave
<1>6. ASSUME NEW t, Listed(t) \/ onClose(t) \/ Check(t) \/ Connect(t) \/ Dismiss(t) PROVE Silent
  BY <1>2, <1>6 DEF Listed, onClose, Check, Connect, Dismiss, Dialog
<1>7. ASSUME NEW m, onPickerResult(m) PROVE Silent
  BY <1>2, <1>7 DEF onPickerResult
<1>8. CASE User
  BY <1>3, <1>6, <1>8 DEF User
<1> QED BY <1>1, <1>3, <1>4, <1>5, <1>6, <1>7, <1>8 DEF Next

LEMMA PlusOne ==
    ASSUME NEW u, NEW e, u \in Tab, IsSequence(news[u]), DOMAIN news = Tab,
           news' = [news EXCEPT ![u] = Append(@, e)]
    PROVE  /\ DOMAIN news' = Tab /\ IsSequence(news'[u]) /\ \A v \in Tab \ {u} : news'[v] = news[v]
           /\ Len(news[u]) \in Nat /\ Len(news'[u]) = Len(news[u]) + 1
           /\ \A i \in 1..Len(news[u]) : news'[u][i] = news[u][i]
           /\ news'[u][Len(news[u]) + 1] = e
<1> DEFINE y == Append(news[u], e)
<1>1. news'[u] = y /\ DOMAIN news' = Tab /\ \A v \in Tab \ {u} : news'[v] = news[v]
  OBVIOUS
<1> HIDE DEF y
<1> QED BY <1>1, AppendIs DEF y

\* A question's answer, and the steps of one tab's server but for the news.
Turn(t) ==
    /\ news' = news
    /\ \E x : /\ srv' = [srv EXCEPT ![t] = x] /\ DOMAIN x = SrvFields
              /\ x.st \in {"idle", "reply", "added"} /\ (x.st = "added" => x.msg.a = "pair")

LEMMA Turns ==
    ASSUME NEW t \in Tab, Serve(t), ~notifyAllowedDevicesChanged(t)
    PROVE  Turn(t) /\ srv[t].st # "notify"
<1>0. /\ DOMAIN Idle = SrvFields /\ Idle.st = "idle"
      /\ \A st, m, s : LET x == [st |-> st, msg |-> m, set |-> s]
                       IN  DOMAIN x = SrvFields /\ x.st = st /\ x.msg = m
  BY DEF Idle, SrvFields
<1>1. CASE handleShowPicker(t) \/ handleCancelPicker(t)
  BY <1>0, <1>1 DEF handleShowPicker, handleCancelPicker, Take, AtHead, Turn
<1>2. CASE ReadGrants(t)
  <2>1. PICK m, s : news' = news /\ srv' = [srv EXCEPT ![t] = [st |-> "reply", msg |-> m, set |-> s]]
    BY <1>2 DEF ReadGrants, Take
  <2>2. srv[t].st # "notify"
    BY <1>2 DEF ReadGrants, AtHead
  <2> QED BY <1>0, <2>1, <2>2 DEF Turn
<1>3. CASE addAllowedDevice(t)
  <2>1. news' = news /\ srv[t].st # "notify" /\ Head(ctl[t]).a = "pair"
    BY <1>3 DEF addAllowedDevice, AtHead, Take
  <2>2. PICK st \in {"added", "reply"} : srv' = [srv EXCEPT ![t] = [st |-> st, msg |-> Head(ctl[t]), set |-> {}]]
    BY <1>3 DEF addAllowedDevice, Take
  <2> DEFINE x == [st |-> st, msg |-> Head(ctl[t]), set |-> {}]
  <2>3. DOMAIN x = SrvFields /\ x.st = st /\ x.msg = Head(ctl[t])
    BY <1>0
  <2>4. srv' = [srv EXCEPT ![t] = x]
    BY <2>2
  <2> HIDE DEF x
  <2> QED BY <2>1, <2>3, <2>4 DEF Turn
<1>4. CASE Respond(t)
  <2>1. news' = news /\ srv' = [srv EXCEPT ![t] = Idle] /\ srv[t].st # "notify"
    BY <1>4 DEF Respond
  <2> QED BY <1>0, <2>1 DEF Turn
<1> QED BY <1>1, <1>2, <1>3, <1>4 DEF Serve

\* The queues keep to one message of each grant that is being notified.
LEMMA TellStep ==
    ASSUME TellShapes, Told, [Next]_vars
    PROVE  TellShapes' /\ Told'
<1>0. \A v \in Tab : Len(news[v]) \in Nat
  <2>1. ASSUME NEW v \in Tab PROVE Len(news[v]) \in Nat
    BY AppendIs DEF TellShapes
  <2> QED BY <2>1
<1>1. CASE Silent
  BY <1>1 DEF Silent, TellShapes, Told
<1>2. ASSUME NEW t \in Tab, Serve(t), ~notifyAllowedDevicesChanged(t) PROVE TellShapes' /\ Told'
  <2>1. Turn(t) /\ srv[t].st # "notify" /\ DOMAIN hist' = DOMAIN hist
    <3>1. DOMAIN hist' = DOMAIN hist
      <4>1. CASE addAllowedDevice(t)
        BY <4>1 DEF addAllowedDevice
      <4>2. CASE handleShowPicker(t) \/ handleCancelPicker(t) \/ ReadGrants(t)
        BY <4>2 DEF handleShowPicker, handleCancelPicker, ReadGrants
      <4>3. CASE Respond(t)
        BY <4>3 DEF Respond
      <4> QED BY <1>2, <4>1, <4>2, <4>3 DEF Serve
    <3> QED BY <1>2, <3>1, Turns
  <2>2. PICK x : /\ srv' = [srv EXCEPT ![t] = x] /\ DOMAIN x = SrvFields
                 /\ x.st \in {"idle", "reply", "added"} /\ (x.st = "added" => x.msg.a = "pair")
    BY <2>1 DEF Turn
  <2>3. news' = news
    BY <2>1 DEF Turn
  <2>4. DOMAIN srv' = Tab /\ srv'[t] = x /\ \A u \in Tab \ {t} : srv'[u] = srv[u]
    BY <2>2 DEF TellShapes
  <2>5. TellShapes'
    BY <2>1, <2>2, <2>3, <2>4 DEF TellShapes
  <2>6. Told'
    BY <2>1, <2>2, <2>3, <2>4 DEF Told
  <2> QED BY <2>5, <2>6
<1>3. ASSUME NEW t \in Tab, notifyAllowedDevicesChanged(t) PROVE TellShapes' /\ Told'
  <2> DEFINE e == Note(SiteOf(srv[t].msg), t, FALSE)
             u == First
  <2>1. /\ srv[t].st = "added" /\ srv' = [srv EXCEPT ![t].st = "notify"]
        /\ news' = [news EXCEPT ![u] = Append(@, e)] /\ hist' = hist
    BY <1>3 DEF notifyAllowedDevicesChanged
  <2>2. u \in Tab
    BY FirstIs
  <2>3. e.by = t
    BY DEF Note
  <2>4. t # 0
    BY TabNat
  <2> HIDE DEF e, u
  <2>5. /\ DOMAIN srv' = Tab /\ srv'[t].st = "notify" /\ srv'[t].msg = srv[t].msg
        /\ DOMAIN srv'[t] = SrvFields /\ \A v \in Tab \ {t} : srv'[v] = srv[v]
    BY <2>1 DEF TellShapes, SrvFields
  <2>6. /\ DOMAIN news' = Tab /\ IsSequence(news'[u]) /\ \A v \in Tab \ {u} : news'[v] = news[v]
        /\ Len(news'[u]) = Len(news[u]) + 1
        /\ \A i \in 1..Len(news[u]) : news'[u][i] = news[u][i]
        /\ news'[u][Len(news[u]) + 1] = e
    BY <2>1, <2>2, PlusOne DEF TellShapes
  <2>7. TellShapes'
    BY <2>1, <2>5, <2>6 DEF TellShapes
  <2>8. ASSUME NEW v \in Tab, NEW k \in 1..Len(news'[v])
        PROVE  \/ k \in 1..Len(news[v]) /\ news'[v][k] = news[v][k] /\ news[v][k].by # t
               \/ v = u /\ k = Len(news[u]) + 1 /\ news'[v][k] = e
    <3>1. \A w \in Tab : \A i \in 1..Len(news[w]) : news[w][i].by # t
      BY <2>1, <2>4 DEF Told
    <3>2. CASE v = u
      BY <1>0, <2>2, <2>6, <3>1, <3>2
    <3>3. CASE v # u
      BY <2>6, <3>1, <3>3
    <3> QED BY <3>2, <3>3
  <2>9. Told'
    <3>1. \A v \in Tab : srv'[v].st \in {"added", "notify"} => srv'[v].msg.a = "pair"
      BY <2>1, <2>5 DEF Told
    <3>2. ASSUME NEW v \in Tab, NEW k \in 1..Len(news'[v]), news'[v][k].by # 0
          PROVE  news'[v][k].by \in Tab /\ srv'[news'[v][k].by].st = "notify"
      BY <2>3, <2>5, <2>8, <3>2 DEF Told
    <3>3. ASSUME NEW v \in Tab, NEW w \in Tab, NEW i \in 1..Len(news'[v]), NEW j \in 1..Len(news'[w]),
                 news'[v][i].by = news'[w][j].by, news'[v][i].by # 0
          PROVE  v = w /\ i = j
      <4>1. \/ i \in 1..Len(news[v]) /\ news'[v][i] = news[v][i] /\ news[v][i].by # t
            \/ v = u /\ i = Len(news[u]) + 1 /\ news'[v][i] = e
        BY <2>8
      <4>2. \/ j \in 1..Len(news[w]) /\ news'[w][j] = news[w][j] /\ news[w][j].by # t
            \/ w = u /\ j = Len(news[u]) + 1 /\ news'[w][j] = e
        BY <2>8
      <4>3. CASE i \in 1..Len(news[v]) /\ news'[v][i] = news[v][i] /\ j \in 1..Len(news[w]) /\ news'[w][j] = news[w][j]
        BY <3>3, <4>3 DEF Told
      <4> QED BY <2>3, <3>3, <4>1, <4>2, <4>3
    <3> QED BY <3>1, <3>2, <3>3 DEF Told
  <2> QED BY <2>7, <2>9
<1>4. ASSUME NEW t \in Tab, Hear(t) PROVE TellShapes' /\ Told'
  <2>1. PICK n : Hears(t, n)
    BY <1>4, HearNews
  <2>2. /\ Len(news[t]) \in Nat \ {0} /\ hist' = hist
        /\ \/ srv' = srv
           \/ /\ Ends(t) /\ news[t][1].by # 0
              /\ srv' = [srv EXCEPT ![news[t][1].by].st = "reply"]
    BY <1>4, HearNews
  <2> DEFINE b == news[t][1].by
  <2>3. \A v \in Tab : \A k \in 1..Len(news'[v]) :
          \E w \in Tab : \E j \in 1..Len(news[w]) : news'[v][k] = news[w][j] /\ Moved(t, n, v, k, w, j)
    BY <2>1 DEF Hears
  <2>4. 1 \in 1..Len(news[t])
    BY <2>2
  <2>5. CASE srv' = srv
    <3>1. TellShapes'
      BY <2>1, <2>2, <2>5 DEF TellShapes, Hears
    <3>2. Told'
      <4>1. \A v \in Tab : \A i \in 1..Len(news'[v]) :
              news'[v][i].by # 0 => news'[v][i].by \in Tab /\ srv'[news'[v][i].by].st = "notify"
        BY <2>3, <2>5 DEF Told
      <4>2. ASSUME NEW v \in Tab, NEW x \in Tab, NEW i \in 1..Len(news'[v]), NEW j \in 1..Len(news'[x]),
                   news'[v][i].by = news'[x][j].by, news'[v][i].by # 0
            PROVE  v = x /\ i = j
        <5>1. PICK v0, i0 : /\ v0 \in Tab /\ i0 \in 1..Len(news[v0])
                          /\ news'[v][i] = news[v0][i0] /\ Moved(t, n, v, i, v0, i0)
          BY <2>3
        <5>2. PICK x0, j0 : /\ x0 \in Tab /\ j0 \in 1..Len(news[x0])
                          /\ news'[x][j] = news[x0][j0] /\ Moved(t, n, x, j, x0, j0)
          BY <2>3
        <5>3. v0 = x0 /\ i0 = j0
          BY <4>2, <5>1, <5>2 DEF Told
        <5>4. i \in Nat \ {0} /\ j \in Nat \ {0}
          BY <2>1
        <5> QED BY <5>1, <5>2, <5>3, <5>4 DEF Moved
      <4>3. \A v \in Tab : srv'[v].st \in {"added", "notify"} => srv'[v].msg.a = "pair"
        BY <2>5 DEF Told
      <4> QED BY <4>1, <4>2, <4>3 DEF Told
    <3> QED BY <3>1, <3>2
  <2>6. CASE Ends(t) /\ b # 0 /\ srv' = [srv EXCEPT ![b].st = "reply"]
    <3>1. b \in Tab
      BY <2>4, <2>6 DEF Told
    <3>2. /\ DOMAIN srv' = Tab /\ srv'[b].st = "reply" /\ srv'[b].msg = srv[b].msg
          /\ DOMAIN srv'[b] = SrvFields /\ \A v \in Tab \ {b} : srv'[v] = srv[v]
      <4> HIDE DEF b
      <4> QED BY <2>6, <3>1 DEF TellShapes, SrvFields
    <3>3. TellShapes'
      <4> HIDE DEF b
      <4> QED BY <2>1, <2>2, <3>2 DEF TellShapes, Hears
    <3>4. ASSUME NEW v \in Tab, NEW k \in 1..Len(news'[v])
          PROVE  \E w \in Tab : \E j \in 1..Len(news[w]) :
                   /\ news'[v][k] = news[w][j] /\ Moved(t, n, v, k, w, j) /\ ~(w = t /\ j = 1)
      <4>1. PICK w, j : /\ w \in Tab /\ j \in 1..Len(news[w])
                          /\ news'[v][k] = news[w][j] /\ Moved(t, n, v, k, w, j)
        BY <2>3
      <4>2. k # 0 /\ ~(n \in Tab /\ n > t)
        BY <2>6, TabNat DEF Ends
      <4>3. k \in Nat
        OBVIOUS
      <4> QED BY <4>1, <4>2, <4>3 DEF Moved
    <3>5. ASSUME NEW v \in Tab, NEW k \in 1..Len(news'[v]) PROVE news'[v][k].by # b
      <4>1. PICK w, j : /\ w \in Tab /\ j \in 1..Len(news[w]) /\ news'[v][k] = news[w][j]
                        /\ ~(w = t /\ j = 1)
        <5>1. \E w \in Tab : \E j \in 1..Len(news[w]) : news'[v][k] = news[w][j] /\ ~(w = t /\ j = 1)
          BY <3>4
        <5> QED BY <5>1
      <4>2. news[w][j].by = news[t][1].by /\ news[w][j].by # 0 => w = t /\ j = 1
        BY <2>4, <4>1 DEF Told
      <4> QED BY <2>6, <4>1, <4>2
    <3>6. Told'
      <4>1. \A v \in Tab : \A i \in 1..Len(news'[v]) :
              news'[v][i].by # 0 => news'[v][i].by \in Tab /\ srv'[news'[v][i].by].st = "notify"
        <5> HIDE DEF b
        <5>1. ASSUME NEW v \in Tab, NEW k \in 1..Len(news'[v]), news'[v][k].by # 0
              PROVE  news'[v][k].by \in Tab /\ srv'[news'[v][k].by].st = "notify"
          <6>0. PICK w \in Tab : \E j \in 1..Len(news[w]) : news'[v][k] = news[w][j] /\ Moved(t, n, v, k, w, j)
            BY <2>3
          <6>1. PICK j \in 1..Len(news[w]) : news'[v][k] = news[w][j]
            BY <6>0
          <6>2. news[w][j].by \in Tab /\ srv[news[w][j].by].st = "notify"
            BY <5>1, <6>1 DEF Told
          <6>3. news'[v][k].by # b
            BY <3>5
          <6> QED BY <3>2, <6>1, <6>2, <6>3
        <5> QED BY <5>1
      <4>2. ASSUME NEW v \in Tab, NEW x \in Tab, NEW i \in 1..Len(news'[v]), NEW j \in 1..Len(news'[x]),
                   news'[v][i].by = news'[x][j].by, news'[v][i].by # 0
            PROVE  v = x /\ i = j
        <5>1. PICK v0, i0 : /\ v0 \in Tab /\ i0 \in 1..Len(news[v0])
                          /\ news'[v][i] = news[v0][i0] /\ Moved(t, n, v, i, v0, i0)
          BY <2>3
        <5>2. PICK x0, j0 : /\ x0 \in Tab /\ j0 \in 1..Len(news[x0])
                          /\ news'[x][j] = news[x0][j0] /\ Moved(t, n, x, j, x0, j0)
          BY <2>3
        <5>3. v0 = x0 /\ i0 = j0
          BY <4>2, <5>1, <5>2 DEF Told
        <5>4. i \in Nat \ {0} /\ j \in Nat \ {0}
          BY <2>1
        <5> QED BY <5>1, <5>2, <5>3, <5>4 DEF Moved
      <4>3. \A v \in Tab : srv'[v].st \in {"added", "notify"} => srv'[v].msg.a = "pair"
        <5> HIDE DEF b
        <5> QED BY <3>2 DEF Told
      <4> QED BY <4>1, <4>2, <4>3 DEF Told
    <3> QED BY <3>3, <3>6
  <2> QED BY <2>2, <2>5, <2>6
<1>5. ASSUME NEW g, Revoke(g) PROVE TellShapes' /\ Told'
  <2>1. news' = news /\ srv' = srv /\ DOMAIN hist' = DOMAIN hist
    BY <1>5 DEF Revoke
  <2> QED BY <2>1 DEF TellShapes, Told
<1>6. CASE TellRevoked
  <2> DEFINE e == Note(hist.revoke[1], 0, TRUE)
  <2>1. srv' = srv /\ DOMAIN hist' = DOMAIN hist /\ news' = [v \in Tab |-> Append(news[v], e)]
    BY <1>6 DEF TellRevoked
  <2>2. e.by = 0
    BY DEF Note
  <2> HIDE DEF e
  <2>3. ASSUME NEW v \in Tab
        PROVE  /\ IsSequence(news'[v]) /\ Len(news'[v]) = Len(news[v]) + 1
               /\ \A i \in 1..Len(news[v]) : news'[v][i] = news[v][i]
               /\ news'[v][Len(news[v]) + 1] = e
    <3> DEFINE y == Append(news[v], e)
    <3>1. news'[v] = y
      BY <2>1
    <3>2. IsSequence(news[v])
      BY DEF TellShapes
    <3> HIDE DEF y
    <3> QED BY <3>1, <3>2, AppendIs DEF y
  <2>4. DOMAIN news' = Tab
    BY <2>1
  <2>5. TellShapes'
    BY <2>1, <2>3, <2>4 DEF TellShapes
  <2>6. ASSUME NEW v \in Tab, NEW k \in 1..Len(news'[v]), news'[v][k].by # 0
        PROVE  k \in 1..Len(news[v]) /\ news'[v][k] = news[v][k]
    BY <1>0, <2>2, <2>3, <2>6
  <2>7. Told'
    BY <2>1, <2>6 DEF Told
  <2> QED BY <2>5, <2>7
<1> QED BY <1>1, <1>2, <1>3, <1>4, <1>5, <1>6, Kinds DEF TellShapes

-----------------------------------------------------------------------------
(* What is stored stays known *)

\* What is kept after a step was kept before it, and is stored still.
LEMMA KeptStep ==
    ASSUME TellShapes, [Next]_vars, NEW g, Kept(g)'
    PROVE  Kept(g) /\ (g \in store => g \in store')
<1>1. CASE Silent
  BY <1>1 DEF Silent, Kept
<1>2. ASSUME NEW t \in Tab, Serve(t) \/ Hear(t) PROVE Kept(g) /\ (g \in store => g \in store')
  <2>1. CASE addAllowedDevice(t)
    <3> DEFINE new == {Head(ctl[t]).site} \X Head(ctl[t]).ds
    <3>1. \/ store' = store \cup new /\ hist' = hist
          \/ hist' = [hist EXCEPT !.failed = @ \cup new] /\ store' = store
      BY <2>1 DEF addAllowedDevice
    <3> HIDE DEF new
    <3> QED BY <3>1 DEF Kept, TellShapes
  <2>2. CASE UNCHANGED <<store, hist>>
    BY <2>2 DEF Kept
  <2>3. CASE Hear(t)
    BY <2>2, <2>3 DEF Hear
  <2>4. CASE handleShowPicker(t) \/ handleCancelPicker(t) \/ ReadGrants(t)
    BY <2>2, <2>4 DEF handleShowPicker, handleCancelPicker, ReadGrants
  <2>5. CASE notifyAllowedDevicesChanged(t)
    BY <2>2, <2>5 DEF notifyAllowedDevicesChanged
  <2>6. CASE Respond(t)
    BY <2>2, <2>6 DEF Respond
  <2> QED BY <1>2, <2>1, <2>3, <2>4, <2>5, <2>6 DEF Serve
<1>3. ASSUME NEW x, Revoke(x) PROVE Kept(g) /\ (g \in store => g \in store')
  BY <1>3 DEF Revoke, Kept, TellShapes
<1>4. CASE TellRevoked
  BY <1>4 DEF TellRevoked, Kept, TellShapes
<1> QED BY <1>1, <1>2, <1>3, <1>4, Kinds DEF TellShapes

\* A message made now has what is stored now.
LEMMA NoteHas ==
    ASSUME NEW g \in store, NEW s, NEW by, NEW revoked PROVE ~Misses(Note(s, by, revoked), g)
BY DEF Misses, Note, getAllowedDevices

\* How the queues may change.
OneNote(u, e) == u \in Tab /\ news' = [news EXCEPT ![u] = Append(@, e)]
AllNotes(e) == news' = [v \in Tab |-> Append(news[v], e)]

LEMMA NewsKinds ==
    ASSUME TellShapes, [Next]_vars
    PROVE  \/ news' = news
           \/ \E t \in Tab : Hear(t)
           \/ \E t \in Tab : /\ notifyAllowedDevicesChanged(t)
                             /\ OneNote(First, Note(SiteOf(srv[t].msg), t, FALSE))
           \/ \E s : AllNotes(Note(s, 0, TRUE))
<1>1. ASSUME NEW t \in Tab, Serve(t) PROVE news' = news \/ notifyAllowedDevicesChanged(t)
  BY <1>1, Turns DEF Turn
<1>2. ASSUME NEW t \in Tab, notifyAllowedDevicesChanged(t)
      PROVE OneNote(First, Note(SiteOf(srv[t].msg), t, FALSE))
  BY <1>2, FirstIs DEF notifyAllowedDevicesChanged, OneNote
<1>3. CASE TellRevoked
  BY <1>3 DEF TellRevoked, AllNotes
<1>4. ASSUME NEW g, Revoke(g) PROVE news' = news
  BY <1>4 DEF Revoke
<1> QED BY <1>1, <1>2, <1>3, <1>4, Kinds DEF TellShapes, Silent

\* No step adds a message that misses a stored grant, and none reorders them.
LEMMA MissesStep ==
    ASSUME TellShapes, [Next]_vars, NEW g \in store, NoneMisses(g)
    PROVE  NoneMisses(g)'
<1>0. \A v \in Tab : Len(news[v]) \in Nat
  <2>1. ASSUME NEW v \in Tab PROVE Len(news[v]) \in Nat
    BY AppendIs DEF TellShapes
  <2> QED BY <2>1
<1>1. CASE news' = news
  BY <1>1 DEF NoneMisses, Misses
<1>2. ASSUME NEW t \in Tab, Hear(t) PROVE NoneMisses(g)'
  <2>1. PICK n : Hears(t, n)
    BY <1>2, HearNews
  <2>2. \A v \in Tab : \A k \in 1..Len(news'[v]) :
          \E w \in Tab : \E j \in 1..Len(news[w]) : news'[v][k] = news[w][j]
    BY <2>1 DEF Hears
  <2>3. ASSUME NEW v \in Tab, NEW k \in 1..Len(news'[v]) PROVE ~Misses(news'[v][k], g)
    <3>0. PICK w \in Tab : \E j \in 1..Len(news[w]) : news'[v][k] = news[w][j]
      BY <2>2
    <3>1. PICK j \in 1..Len(news[w]) : news'[v][k] = news[w][j]
      BY <3>0
    <3> QED BY <3>1 DEF NoneMisses
  <2> QED BY <2>3 DEF NoneMisses, Misses
<1>3. ASSUME NEW u, NEW e, OneNote(u, e), ~Misses(e, g) PROVE NoneMisses(g)'
  <2>1. /\ u \in Tab /\ \A v \in Tab \ {u} : news'[v] = news[v]
        /\ Len(news'[u]) = Len(news[u]) + 1
        /\ \A i \in 1..Len(news[u]) : news'[u][i] = news[u][i]
        /\ news'[u][Len(news[u]) + 1] = e
    BY <1>3, PlusOne DEF OneNote, TellShapes
  <2>2. ASSUME NEW v \in Tab, NEW k \in 1..Len(news'[v])
        PROVE  (k \in 1..Len(news[v]) /\ news'[v][k] = news[v][k]) \/ news'[v][k] = e
    BY <1>0, <2>1
  <2>3. \A v \in Tab : \A k \in 1..Len(news'[v]) : ~Misses(news'[v][k], g)
    BY <1>3, <2>2 DEF NoneMisses
  <2> QED BY <2>3 DEF NoneMisses, Misses
<1>4. ASSUME NEW e, AllNotes(e), ~Misses(e, g) PROVE NoneMisses(g)'
  <2>2. ASSUME NEW v \in Tab, NEW k \in 1..Len(news'[v])
        PROVE  (k \in 1..Len(news[v]) /\ news'[v][k] = news[v][k]) \/ news'[v][k] = e
    <3> DEFINE y == Append(news[v], e)
    <3>1. news'[v] = y
      BY <1>4 DEF AllNotes
    <3>2. IsSequence(news[v])
      BY DEF TellShapes
    <3>3. /\ Len(y) = Len(news[v]) + 1 /\ \A i \in 1..Len(news[v]) : y[i] = news[v][i]
          /\ y[Len(news[v]) + 1] = e
      BY <3>2, AppendIs
    <3> HIDE DEF y
    <3> QED BY <1>0, <3>1, <3>3
  <2>3. \A v \in Tab : \A k \in 1..Len(news'[v]) : ~Misses(news'[v][k], g)
    BY <1>4, <2>2 DEF NoneMisses
  <2> QED BY <2>3 DEF NoneMisses, Misses
<1> QED BY <1>1, <1>2, <1>3, <1>4, NewsKinds, NoteHas

LEMMA OvertakenStep ==
    ASSUME TellShapes, [Next]_vars, NEW g \in store, NEW t \in Tab, Overtaken(t, g),
           srv[t].st = "notify"
    PROVE  Overtaken(t, g)'
<1>0. /\ \A v \in Tab : Len(news[v]) \in Nat
      /\ t # 0 /\ Tab \subseteq Nat
  <2>1. ASSUME NEW v \in Tab PROVE Len(news[v]) \in Nat
    BY AppendIs DEF TellShapes
  <2> QED BY <2>1, TabNat
<1>1. CASE news' = news
  BY <1>1 DEF Overtaken, Misses
<1>2. ASSUME NEW h \in Tab, Hear(h) PROVE Overtaken(t, g)'
  <2>1. PICK n : Hears(h, n)
    BY <1>2, HearNews
  <2>2. \A v \in Tab : \A k \in 1..Len(news'[v]) :
          \E w \in Tab : \E j \in 1..Len(news[w]) : news'[v][k] = news[w][j] /\ Moved(h, n, v, k, w, j)
    BY <2>1 DEF Hears
  <2>3. ASSUME NEW u \in Tab, NEW v \in Tab, NEW i \in 1..Len(news'[u]), NEW j \in 1..Len(news'[v]),
               news'[u][i].by = t, Misses(news'[v][j], g)
        PROVE  v > u \/ (v = u /\ j < i)
    <3>1. PICK u0, i0 : u0 \in Tab /\ i0 \in 1..Len(news[u0]) /\ news'[u][i] = news[u0][i0]
                        /\ Moved(h, n, u, i, u0, i0)
      BY <2>2
    <3>2. PICK v0, j0 : v0 \in Tab /\ j0 \in 1..Len(news[v0]) /\ news'[v][j] = news[v0][j0]
                        /\ Moved(h, n, v, j, v0, j0)
      BY <2>2
    <3>3. v0 > u0 \/ (v0 = u0 /\ j0 < i0)
      BY <2>3, <3>1, <3>2 DEF Overtaken
    <3>4. /\ u \in Nat /\ v \in Nat /\ h \in Nat /\ u0 \in Nat /\ v0 \in Nat
          /\ i \in Nat \ {0} /\ j \in Nat \ {0} /\ i0 \in Nat \ {0} /\ j0 \in Nat \ {0}
      <4>1. u0 \in Tab /\ v0 \in Tab
        BY <3>1, <3>2
      <4>2. u \in Nat /\ v \in Nat /\ h \in Nat /\ u0 \in Nat /\ v0 \in Nat
        BY <1>0, <4>1
      <4>3. i \in Nat \ {0} /\ j \in Nat \ {0}
        OBVIOUS
      <4>4. i0 \in Nat \ {0} /\ j0 \in Nat \ {0}
        <5>1. i0 \in 1..Len(news[u0]) /\ j0 \in 1..Len(news[v0])
          BY <3>1, <3>2
        <5> QED BY <5>1
      <4> QED BY <4>2, <4>3, <4>4
    <3>5. n \in Tab => n \in Nat /\ Len(news[n]) \in Nat
      BY <1>0
    <3>6. v = n /\ n \in Tab /\ v # h => j <= Len(news[n]) \/ (v0 = h /\ j0 = 1 /\ n > h)
      BY <3>2 DEF Moved
    <3>7. v > h /\ n \in Tab /\ n > h /\ (\A w \in Tab : w > h => n <= w) => v >= n
      BY <3>4, <3>5
    <3>8. CASE u0 = h /\ i0 = 1 /\ u = n /\ n \in Tab /\ n > h /\ (\A w \in Tab : w > h => n <= w)
                /\ i = Len(news[n]) + 1
      <4>1. v0 > h /\ v0 # h
        BY <3>3, <3>4, <3>8
      <4>2. v = v0 /\ j = j0
        BY <3>2, <4>1 DEF Moved
      <4>3. v >= n
        BY <3>7, <3>8, <4>1, <4>2
      <4>4. v = n => j < i
        BY <3>2, <3>4, <3>5, <3>8, <4>2
      <4> QED BY <3>4, <3>5, <3>8, <4>3, <4>4
    <3>9. CASE u0 = u /\ (u # h => i0 = i) /\ (u = h => i0 = i + 1)
      <4>1. CASE v0 = v /\ (v # h => j0 = j) /\ (v = h => j0 = j + 1)
        BY <3>3, <3>4, <3>9, <4>1
      <4>2. CASE v0 = h /\ v = n /\ n > h /\ n \in Tab
        BY <3>3, <3>4, <3>5, <3>9, <4>2
      <4> QED BY <3>2, <4>1, <4>2 DEF Moved
    <3> QED BY <3>1, <3>8, <3>9 DEF Moved
  <2> QED BY <2>3 DEF Overtaken, Misses
<1>3. ASSUME NEW u, NEW e, OneNote(u, e), ~Misses(e, g), e.by # t PROVE Overtaken(t, g)'
  <2>1. /\ u \in Tab /\ \A v \in Tab \ {u} : news'[v] = news[v]
        /\ Len(news'[u]) = Len(news[u]) + 1
        /\ \A i \in 1..Len(news[u]) : news'[u][i] = news[u][i]
        /\ news'[u][Len(news[u]) + 1] = e
    BY <1>3, PlusOne DEF OneNote, TellShapes
  <2>2. ASSUME NEW v \in Tab, NEW k \in 1..Len(news'[v])
        PROVE  (k \in 1..Len(news[v]) /\ news'[v][k] = news[v][k]) \/ news'[v][k] = e
    <3>1. CASE v = u
      <4>1. k \in 1..Len(news[u]) \/ k = Len(news[u]) + 1
        BY <1>0, <2>1, <3>1
      <4> QED BY <2>1, <3>1, <4>1
    <3>2. CASE v # u
      BY <2>1, <3>2
    <3> QED BY <3>1, <3>2
  <2>3. ASSUME NEW x \in Tab, NEW v \in Tab, NEW i \in 1..Len(news'[x]), NEW j \in 1..Len(news'[v]),
               news'[x][i].by = t, Misses(news'[v][j], g)
        PROVE  v > x \/ (v = x /\ j < i)
    BY <1>3, <2>2, <2>3 DEF Overtaken
  <2> QED BY <2>3 DEF Overtaken, Misses
<1>4. ASSUME NEW e, AllNotes(e), ~Misses(e, g), e.by # t PROVE Overtaken(t, g)'
  <2>2. ASSUME NEW v \in Tab, NEW k \in 1..Len(news'[v])
        PROVE  (k \in 1..Len(news[v]) /\ news'[v][k] = news[v][k]) \/ news'[v][k] = e
    <3> DEFINE y == Append(news[v], e)
    <3>1. news'[v] = y
      BY <1>4 DEF AllNotes
    <3>2. IsSequence(news[v])
      BY DEF TellShapes
    <3>3. /\ Len(y) = Len(news[v]) + 1 /\ \A i \in 1..Len(news[v]) : y[i] = news[v][i]
          /\ y[Len(news[v]) + 1] = e
      BY <3>2, AppendIs
    <3> HIDE DEF y
    <3> QED BY <1>0, <3>1, <3>3
  <2>3. ASSUME NEW x \in Tab, NEW v \in Tab, NEW i \in 1..Len(news'[x]), NEW j \in 1..Len(news'[v]),
               news'[x][i].by = t, Misses(news'[v][j], g)
        PROVE  v > x \/ (v = x /\ j < i)
    BY <1>4, <2>2, <2>3 DEF Overtaken
  <2> QED BY <2>3 DEF Overtaken, Misses
<1>5. ASSUME NEW u \in Tab, notifyAllowedDevicesChanged(u) PROVE u # t
  BY <1>5 DEF notifyAllowedDevicesChanged
<1>6. \A s, by, revoked : Note(s, by, revoked).by = by
  BY DEF Note
<1>7. ASSUME NEW u \in Tab, notifyAllowedDevicesChanged(u), OneNote(First, Note(SiteOf(srv[u].msg), u, FALSE))
      PROVE  Overtaken(t, g)'
  BY <1>3, <1>5, <1>6, <1>7, NoteHas
<1>8. ASSUME NEW s, AllNotes(Note(s, 0, TRUE)) PROVE Overtaken(t, g)'
  BY <1>0, <1>4, <1>6, <1>8, NoteHas
<1> QED BY <1>1, <1>2, <1>7, <1>8, NewsKinds

\* A grant that a tab's server has stored stays in the store, and all tabs are
\* told of it before the answer.
LEMMA StoringStep ==
    ASSUME TellShapes, Told, Storing, [Next]_vars
    PROVE  Storing'
<1>0. ASSUME NEW g, Kept(g)' PROVE Kept(g) /\ (g \in store => g \in store')
  BY <1>0, KeptStep
<1>1. ASSUME NEW t \in Tab, NEW g, Grant(g), Kept(g)', srv'[t] = srv[t], Pairs(t, g)
      PROVE  StoredFor(t, g)'
  <2>1. g \in store /\ g \in store' /\ StoredFor(t, g)
    BY <1>0, <1>1 DEF Storing, StoredFor
  <2>2. srv[t].st = "notify" => Overtaken(t, g)'
    BY <2>1, OvertakenStep DEF StoredFor
  <2>3. srv[t].st = "reply" => NoneMisses(g)'
    BY <2>1, MissesStep DEF StoredFor
  <2> QED BY <1>1, <2>1, <2>2, <2>3 DEF StoredFor
<1>2. ASSUME NEW t \in Tab, NEW g, srv'[t] = srv[t], Pairs(t, g)' PROVE Pairs(t, g)
  BY <1>2 DEF Pairs
<1>3. CASE srv' = srv
  BY <1>1, <1>2, <1>3 DEF Storing, Grant
<1>4. ASSUME NEW t \in Tab, Serve(t) PROVE Storing'
  <2> SUFFICES ASSUME NEW u \in Tab, NEW g, Grant(g), Pairs(u, g)', Kept(g)'
               PROVE  StoredFor(u, g)'
    BY DEF Storing, Grant
  <2>1. CASE notifyAllowedDevicesChanged(t)
    <3>1. /\ srv[t].st = "added" /\ srv' = [srv EXCEPT ![t].st = "notify"]
          /\ OneNote(First, Note(SiteOf(srv[t].msg), t, FALSE))
      BY <2>1, FirstIs DEF notifyAllowedDevicesChanged, OneNote
    <3>2. /\ srv'[t].st = "notify" /\ srv'[t].msg = srv[t].msg
          /\ \A v \in Tab \ {t} : srv'[v] = srv[v]
      BY <3>1 DEF TellShapes, SrvFields
    <3>3. CASE u # t
      BY <1>1, <1>2, <3>2, <3>3
    <3>4. CASE u = t
      <4> DEFINE e == Note(SiteOf(srv[t].msg), t, FALSE)
                 f == First
      <4>1. Pairs(t, g)
        BY <3>1, <3>2, <3>4 DEF Pairs
      <4>2. g \in store /\ g \in store'
        BY <1>0, <4>1 DEF Storing, StoredFor
      <4>3. ~Misses(e, g) /\ OneNote(f, e)
        BY <3>1, <4>2, NoteHas
      <4> HIDE DEF e, f
      <4>4. /\ f \in Tab /\ \A v \in Tab \ {f} : news'[v] = news[v]
            /\ Len(news[f]) \in Nat /\ Len(news'[f]) = Len(news[f]) + 1
            /\ \A i \in 1..Len(news[f]) : news'[f][i] = news[f][i]
            /\ news'[f][Len(news[f]) + 1] = e
        BY <4>3, PlusOne DEF OneNote, TellShapes
      <4>5. \A v \in Tab : f <= v
        BY FirstIs DEF f
      <4>6. t # 0 /\ Tab \subseteq Nat
        BY TabNat
      <4>7. \A v \in Tab : \A i \in 1..Len(news[v]) : news[v][i].by # t
        BY <3>1, <4>6 DEF Told
      <4>8. ASSUME NEW v \in Tab, NEW w \in Tab, NEW i \in 1..Len(news'[v]), NEW j \in 1..Len(news'[w]),
                   news'[v][i].by = t, Misses(news'[w][j], g)
            PROVE  w > v \/ (w = v /\ j < i)
        <5>1. v = f /\ i = Len(news[f]) + 1
          <6>1. CASE v # f
            BY <4>4, <4>7, <4>8, <6>1
          <6>2. CASE v = f
            <7>1. i \in 1..Len(news[f]) \/ i = Len(news[f]) + 1
              BY <4>4, <6>2
            <7> QED BY <4>4, <4>7, <4>8, <6>2, <7>1
          <6> QED BY <6>1, <6>2
        <5>2. w = f => j < Len(news[f]) + 1
          BY <4>3, <4>4, <4>8
        <5> QED BY <4>5, <4>6, <5>1, <5>2
      <4>9. Overtaken(t, g)'
        BY <4>8 DEF Overtaken, Misses
      <4> QED BY <3>2, <3>4, <4>2, <4>9 DEF StoredFor
    <3> QED BY <3>3, <3>4
  <2>2. CASE addAllowedDevice(t)
    <3> DEFINE m == Head(ctl[t])
               new == {m.site} \X m.ds
    <3>1. \/ /\ store' = store \cup new
             /\ srv' = [srv EXCEPT ![t] = [st |-> "added", msg |-> m, set |-> {}]]
          \/ /\ hist' = [hist EXCEPT !.failed = @ \cup new]
             /\ srv' = [srv EXCEPT ![t] = [st |-> "reply", msg |-> m, set |-> {}]]
      BY <2>2 DEF addAllowedDevice, Take
    <3> HIDE DEF m
    <3>2. /\ \A v \in Tab \ {t} : srv'[v] = srv[v]
          /\ srv'[t].msg = m
          /\ (srv'[t].st = "added" /\ store' = store \cup new) \/ new \subseteq hist'.failed
      BY <3>1 DEF TellShapes
    <3>3. CASE u # t
      BY <1>1, <1>2, <3>2, <3>3
    <3>4. CASE u = t
      <4>1. g \in new
        BY <3>2, <3>4 DEF Pairs, Grant
      <4>2. srv'[t].st = "added" /\ g \in store'
        BY <3>2, <4>1 DEF Kept
      <4> QED BY <3>4, <4>2 DEF StoredFor
    <3> QED BY <3>3, <3>4
  <2>3. CASE handleShowPicker(t) \/ handleCancelPicker(t) \/ Respond(t)
    <3>1. srv' = [srv EXCEPT ![t] = Idle]
      BY <2>3 DEF handleShowPicker, handleCancelPicker, Respond, Take
    <3>2. (\A v \in Tab \ {t} : srv'[v] = srv[v]) /\ srv'[t].st = "idle"
      BY <3>1 DEF TellShapes, Idle
    <3>3. u # t
      BY <3>2 DEF Pairs
    <3> QED BY <1>1, <1>2, <3>2, <3>3
  <2>4. CASE ReadGrants(t)
    <3> DEFINE m == Head(ctl[t])
    <3>1. m.a # "pair" /\ \E s : srv' = [srv EXCEPT ![t] = [st |-> "reply", msg |-> m, set |-> s]]
      BY <2>4 DEF ReadGrants, Take, AtHead
    <3> HIDE DEF m
    <3>2. (\A v \in Tab \ {t} : srv'[v] = srv[v]) /\ srv'[t].msg.a # "pair"
      BY <3>1 DEF TellShapes
    <3>3. u # t
      BY <3>2 DEF Pairs
    <3> QED BY <1>1, <1>2, <3>2, <3>3
  <2> QED BY <1>4, <2>1, <2>2, <2>3, <2>4 DEF Serve
<1>5. ASSUME NEW t \in Tab, Hear(t), srv' # srv PROVE Storing'
  <2> SUFFICES ASSUME NEW u \in Tab, NEW g, Grant(g), Pairs(u, g)', Kept(g)'
               PROVE  StoredFor(u, g)'
    BY DEF Storing, Grant
  <2> DEFINE b == news[t][1].by
  <2>1. Ends(t) /\ b # 0 /\ srv' = [srv EXCEPT ![b].st = "reply"] /\ 1 \in 1..Len(news[t])
    BY <1>5, HearNews
  <2>2. b \in Tab /\ srv[b].st = "notify"
    BY <2>1 DEF Told
  <2>3. /\ srv'[b].st = "reply" /\ srv'[b].msg = srv[b].msg
        /\ \A v \in Tab \ {b} : srv'[v] = srv[v]
    <3> HIDE DEF b
    <3> QED BY <2>1, <2>2 DEF TellShapes, SrvFields
  <2>4. CASE u # b
    BY <1>1, <1>2, <2>3, <2>4
  <2>5. CASE u = b
    <3>1. Pairs(b, g)
      BY <2>2, <2>3, <2>5 DEF Pairs
    <3>2. g \in store /\ g \in store' /\ Overtaken(b, g)
      BY <1>0, <2>2, <3>1 DEF Storing, StoredFor
    <3>3. ASSUME NEW v \in Tab, NEW j \in 1..Len(news[v]), Misses(news[v][j], g) PROVE FALSE
      <4>1. v > t \/ (v = t /\ j < 1)
        BY <2>1, <3>2, <3>3 DEF Overtaken
      <4>2. v <= t /\ v \in Nat /\ t \in Nat
        BY <2>1, TabNat DEF Ends
      <4> QED BY <4>1, <4>2
    <3>4. NoneMisses(g)'
      BY <3>2, <3>3, MissesStep DEF NoneMisses
    <3> QED BY <2>3, <2>5, <3>2, <3>4 DEF StoredFor
  <2> QED BY <2>4, <2>5
<1>6. ASSUME NEW g, Revoke(g) PROVE srv' = srv
  BY <1>6 DEF Revoke
<1>7. TellRevoked => srv' = srv
  BY DEF TellRevoked
<1> QED BY <1>3, <1>4, <1>5, <1>6, <1>7, Kinds DEF Silent, TellShapes

\* Nothing that would have the bridge of a tab forget a grant comes up.
LEMMA SecureStep ==
    ASSUME TellShapes, Told, [Next]_vars, NEW t \in Tab, NEW g, Grant(g), Kept(g)', Secure(t, g)
    PROVE  Secure(t, g)'
<1>1. g \in store /\ g \in store' /\ NoneMisses(g)'
  BY KeptStep, MissesStep DEF Secure
<1>2. ASSUME srv'[t] = srv[t] PROVE Answering(t, g)'
  BY <1>2 DEF Answering, Secure, SiteOf
<1>3. ASSUME NEW u \in Tab, Serve(u) PROVE Answering(t, g)'
  <2>1. CASE ReadGrants(u)
    <3> DEFINE m == Head(ctl[u])
               x == [st |-> "reply", msg |-> m, set |-> getAllowedDevices(SiteOf(m))]
    <3>1. srv' = [srv EXCEPT ![u] = x]
      BY <2>1 DEF ReadGrants, Take
    <3>2. SiteOf(m) = g[1] => g[2] \in x.set
      BY <1>1 DEF getAllowedDevices
    <3>3. x.msg = m
      OBVIOUS
    <3> HIDE DEF x, m
    <3>4. CASE t = u
      <4>1. srv'[t] = x
        BY <3>1, <3>4 DEF TellShapes
      <4> QED BY <3>2, <3>3, <4>1 DEF Answering, SiteOf
    <3>5. CASE t # u
      <4>1. srv'[t] = srv[t]
        BY <3>1, <3>5
      <4> QED BY <1>2, <4>1
    <3> QED BY <3>4, <3>5
  <2>2. CASE notifyAllowedDevicesChanged(u)
    <3>1. srv' = [srv EXCEPT ![u].st = "notify"]
      BY <2>2 DEF notifyAllowedDevicesChanged
    <3>2. srv'[t] = srv[t] \/ srv'[t].st = "notify"
      BY <3>1 DEF TellShapes, SrvFields
    <3> QED BY <1>2, <3>2 DEF Answering
  <2>3. CASE handleShowPicker(u) \/ handleCancelPicker(u) \/ Respond(u)
    <3>1. srv' = [srv EXCEPT ![u] = Idle]
      BY <2>3 DEF handleShowPicker, handleCancelPicker, Respond, Take
    <3>2. srv'[t] = srv[t] \/ srv'[t].st = "idle"
      BY <3>1 DEF TellShapes, Idle
    <3> QED BY <1>2, <3>2 DEF Answering
  <2>4. CASE addAllowedDevice(u)
    <3> DEFINE m == Head(ctl[u])
    <3>1. m.a = "pair" /\ \E st : srv' = [srv EXCEPT ![u] = [st |-> st, msg |-> m, set |-> {}]]
      BY <2>4 DEF addAllowedDevice, Take, AtHead
    <3> HIDE DEF m
    <3>2. srv'[t] = srv[t] \/ srv'[t].msg.a = "pair"
      BY <3>1 DEF TellShapes
    <3> QED BY <1>2, <3>2 DEF Answering
  <2> QED BY <1>3, <2>1, <2>2, <2>3, <2>4 DEF Serve
<1>4. ASSUME NEW u \in Tab, Hear(u) PROVE Answering(t, g)'
  <2> DEFINE b == news[u][1].by
  <2>1. srv' = srv \/ (b # 0 /\ srv' = [srv EXCEPT ![b].st = "reply"] /\ 1 \in 1..Len(news[u]))
    BY <1>4, HearNews
  <2>2. b # 0 /\ 1 \in 1..Len(news[u]) => b \in Tab /\ srv[b].msg.a = "pair"
    BY DEF Told
  <2> HIDE DEF b
  <2>3. srv'[t] = srv[t] \/ srv'[t].msg.a = "pair"
    BY <2>1, <2>2 DEF TellShapes, SrvFields
  <2> QED BY <1>2, <2>3 DEF Answering
<1>5. Answering(t, g)'
  <2>1. ASSUME NEW x, Revoke(x) PROVE srv' = srv
    BY <2>1 DEF Revoke
  <2>2. TellRevoked => srv' = srv
    BY DEF TellRevoked
  <2> QED BY <1>2, <1>3, <1>4, <2>1, <2>2, Kinds DEF Silent, TellShapes
<1> QED BY <1>1, <1>5 DEF Secure

-----------------------------------------------------------------------------
(* What a step does to the requests, for the grants *)

Fwd(r) ==
    /\ q'[r].tab = q[r].tab /\ q'[r].site = q[r].site /\ IsRequest(q'[r])
    /\ q[r].brg \in Granting => q'[r].brg \in Granting
    /\ q[r].brg \in {"loading", "done"} => q'[r].brg \in {"loading", "done"}
    /\ FrameOf(r) \notin gone' =>
         /\ q'[r].brg = "pairing" => \/ q[r].brg = "pairing" /\ q'[r].sel = q[r].sel
                                     \/ q[r].brg \notin Granting
         /\ q'[r].brg \notin {"pairing", "loading"} => q'[r].sel = {}
         /\ q'[r].page = "new" => q'[r].brg = "idle"
Forward == DOMAIN q' = Req /\ gone \subseteq gone' /\ \A r \in Req : Fwd(r)

\* Granted, after the step.
GrantedThen(m, t) ==
    /\ m.a \in {"pair", "load"} =>
         /\ DOMAIN m = {"a", "r", "site", "ds"} /\ m.r \in Req
         /\ q'[m.r].brg \in IF m.a = "pair" THEN Granting ELSE {"loading", "done"}
         /\ q'[m.r].tab = t
         /\ <<q'[m.r].tab, q'[m.r].site>> \notin gone' =>
              q'[m.r].site = m.site /\ (q'[m.r].brg = "pairing" => q'[m.r].sel \subseteq m.ds)
    /\ m.a = "list" => m.f \in Place /\ m.f[1] = t

CtlFrom ==
    /\ DOMAIN ctl' = Tab
    /\ \A t \in Tab :
         /\ IsSequence(ctl'[t])
         /\ \A i \in 1..Len(ctl'[t]) :
              \/ \E j \in 1..Len(ctl[t]) : ctl'[t][i] = ctl[t][j]
              \/ GrantedThen(ctl'[t][i], t)
SrvFrom ==
    \A t \in Tab : srv'[t].st # "idle" =>
      \/ srv'[t].msg = srv[t].msg /\ srv[t].st # "idle"
      \/ \E j \in 1..Len(ctl[t]) : srv'[t].msg = ctl[t][j]

Tables ==
    /\ DOMAIN allowed' = Tab
    /\ \A t \in Tab : DOMAIN allowed'[t] = {"loaded", "set"} /\ DOMAIN allowed'[t].set = Site
    /\ DOMAIN paired' = Place /\ \A f \in Place : DOMAIN paired'[f] = {"known", "set", "asked"}

Resolving == \A t \in Tab : \A r \in dlg[t].resolve : r \in Req /\ q[r].brg = "modal" /\ q[r].tab = t

DueFrom ==
    \A r \in Req : \A d \in Due(r)' : \A t \in {q[r].tab}, g \in {<<q[r].site, d>>} :
      FrameOf(r) \notin gone' /\ Kept(g)' => Has(r, d)' /\ (d \in Due(r) \/ Secure(t, g)')

Grants == Forward /\ CtlFrom /\ SrvFrom /\ Tables /\ Resolving' /\ WithTop' /\ DueFrom

LEMMA TellOf == Shapes => TellShapes
BY DEF Shapes, TellShapes

LEMMA TabOf == ASSUME Shapes, NEW r \in Req PROVE q[r].tab \in Tab
<1>1. FrameOf(r) \in Place /\ FrameOf(r)[1] = q[r].tab
  BY DEF Shapes, FrameOf
<1> QED BY <1>1 DEF Tab

LEMMA SameFrame == ASSUME NEW r, Fwd(r) PROVE FrameOf(r)' = FrameOf(r)
BY DEF Fwd, FrameOf

LEMMA GrantedKept ==
    ASSUME Forward, NEW m, NEW t, Granted(m, t) PROVE GrantedThen(m, t)
<1>1. CASE m.a \in {"pair", "load"}
  <2>1. m.r \in Req /\ Fwd(m.r)
    BY <1>1 DEF Granted, Forward
  <2>2. <<q'[m.r].tab, q'[m.r].site>> \notin gone' => Here(m.r) /\ FrameOf(m.r) \notin gone'
    BY <2>1 DEF Here, Forward, FrameOf, Fwd
  <2> QED BY <1>1, <2>1, <2>2 DEF Granted, GrantedThen, Fwd, Granting
<1>2. CASE m.a \notin {"pair", "load"}
  BY <1>2 DEF Granted, GrantedThen
<1> QED BY <1>1, <1>2

\* The invariant follows from what a step does to the requests, the questions,
\* the tables, and what is due.
LEMMA GrantsKept ==
    ASSUME GrantInv, [Next]_vars, Grants PROVE GrantInv'
<1>1. TellShapes' /\ Told' /\ Storing' /\ TellShapes
  BY TellOf, TellStep, StoringStep DEF GrantInv
<1>2. ASSUME NEW r \in Req PROVE FrameOf(r)' = FrameOf(r) /\ Fwd(r)
  BY SameFrame DEF Grants, Forward
<1>3. Shapes'
  <2>1. DOMAIN q' = Req /\ \A r \in Req : IsRequest(q'[r]) /\ FrameOf(r)' \in Place
    BY <1>2 DEF GrantInv, Shapes, Grants, Forward, Fwd
  <2> QED BY <1>1, <2>1 DEF Shapes, TellShapes, Grants, CtlFrom, Tables
<1>4. Messages'
  <2>1. \A t \in Tab : \A j \in 1..Len(ctl[t]) : GrantedThen(ctl[t][j], t)
    BY GrantedKept DEF GrantInv, Messages, Grants
  <2>2. \A t \in Tab : srv[t].st # "idle" => GrantedThen(srv[t].msg, t)
    BY GrantedKept DEF GrantInv, Messages, Grants
  <2>3. ASSUME NEW t \in Tab, NEW i \in 1..Len(ctl'[t]) PROVE GrantedThen(ctl'[t][i], t)
    <3>1. \/ \E j \in 1..Len(ctl[t]) : ctl'[t][i] = ctl[t][j]
          \/ GrantedThen(ctl'[t][i], t)
      BY DEF Grants, CtlFrom
    <3> QED BY <2>1, <3>1
  <2>4. ASSUME NEW t \in Tab, srv'[t].st # "idle" PROVE GrantedThen(srv'[t].msg, t)
    <3>1. \/ srv'[t].msg = srv[t].msg /\ srv[t].st # "idle"
          \/ \E j \in 1..Len(ctl[t]) : srv'[t].msg = ctl[t][j]
      BY <2>4 DEF Grants, SrvFrom
    <3> QED BY <2>1, <2>2, <3>1
  <2> QED BY <2>3, <2>4 DEF Messages, Granted, GrantedThen, Here, FrameOf
<1>5. Selections'
  BY <1>2 DEF Selections, Here, Fwd, FrameOf, Grants, Resolving
<1>6. Secured'
  <2>1. ASSUME NEW r \in Req, NEW d \in Due(r)', NEW t \in {q'[r].tab}, NEW g \in {<<q'[r].site, d>>},
               Here(r)', Kept(g)'
        PROVE  Secure(t, g)' /\ Has(r, d)'
    <3>1. t = q[r].tab /\ g = <<q[r].site, d>> /\ FrameOf(r) \notin gone' /\ Here(r)
      BY <1>2, <2>1 DEF Fwd, Grants, Forward, Here
    <3>2. Has(r, d)' /\ (d \in Due(r) \/ Secure(t, g)')
      BY <2>1, <3>1 DEF Grants, DueFrom
    <3>3. CASE d \in Due(r)
      <4>1. Kept(g)
        BY <1>1, <2>1, KeptStep
      <4>2. Secure(t, g)
        BY <3>1, <3>3, <4>1 DEF GrantInv, Secured
      <4>3. t \in Tab
        BY <3>1, TabOf DEF GrantInv
      <4> QED BY <1>1, <2>1, <3>1, <3>2, <4>2, <4>3, SecureStep DEF GrantInv, Grant
    <3> QED BY <3>2, <3>3
  <2> QED BY <2>1 DEF Secured
<1> QED BY <1>1, <1>3, <1>4, <1>5, <1>6 DEF GrantInv, Grants

LEMMA CtlSame == ASSUME Shapes, ctl' = ctl PROVE CtlFrom
BY DEF Shapes, CtlFrom

LEMMA CtlAppend ==
    ASSUME Shapes, NEW t, NEW e, ctl' = [ctl EXCEPT ![t] = Append(@, e)], t \in Tab => GrantedThen(e, t)
    PROVE  CtlFrom
<1> DEFINE y == Append(ctl[t], e)
<1>1. ctl' = [ctl EXCEPT ![t] = y] /\ DOMAIN ctl = Tab /\ \A u \in Tab : IsSequence(ctl[u])
  BY DEF Shapes
<1>2. t \in Tab => /\ IsSequence(y) /\ Len(ctl[t]) \in Nat /\ Len(y) = Len(ctl[t]) + 1
                   /\ \A i \in 1..Len(ctl[t]) : y[i] = ctl[t][i]
                   /\ y[Len(ctl[t]) + 1] = e
  BY <1>1, AppendIs
<1> HIDE DEF y
<1>3. ASSUME NEW u \in Tab, NEW i \in 1..Len(ctl'[u])
      PROVE  \/ \E j \in 1..Len(ctl[u]) : ctl'[u][i] = ctl[u][j]
             \/ GrantedThen(ctl'[u][i], u)
  <2>1. CASE u = t
    <3>1. ctl'[u] = y
      BY <1>1, <2>1
    <3>2. i \in 1..Len(ctl[t]) \/ i = Len(ctl[t]) + 1
      BY <1>2, <2>1, <3>1
    <3> QED BY <1>2, <2>1, <3>1, <3>2
  <2>2. CASE u # t
    BY <1>1, <2>2
  <2> QED BY <2>1, <2>2
<1>4. DOMAIN ctl' = Tab /\ \A u \in Tab : IsSequence(ctl'[u])
  BY <1>1, <1>2
<1> QED BY <1>3, <1>4 DEF CtlFrom

LEMMA CtlTail ==
    ASSUME Shapes, NEW t \in Tab, ctl' = [ctl EXCEPT ![t] = Tail(@)], ctl[t] # <<>>
    PROVE  CtlFrom
<1> DEFINE y == Tail(ctl[t])
<1>1. ctl' = [ctl EXCEPT ![t] = y] /\ DOMAIN ctl = Tab /\ \A u \in Tab : IsSequence(ctl[u])
  BY DEF Shapes
<1>2. /\ IsSequence(y) /\ Len(ctl[t]) \in Nat /\ Len(y) = Len(ctl[t]) - 1
      /\ \A i \in 1..Len(ctl[t]) - 1 : y[i] = ctl[t][i + 1]
  BY <1>1, TailIs
<1> HIDE DEF y
<1>3. ASSUME NEW u \in Tab, NEW i \in 1..Len(ctl'[u])
      PROVE  \E j \in 1..Len(ctl[u]) : ctl'[u][i] = ctl[u][j]
  <2>1. CASE u = t
    <3>1. ctl'[u] = y /\ i \in 1..Len(ctl[t]) - 1
      BY <1>1, <1>2, <2>1
    <3>2. i + 1 \in 1..Len(ctl[t]) /\ ctl'[u][i] = ctl[t][i + 1]
      BY <1>2, <3>1
    <3> QED BY <2>1, <3>2
  <2>2. CASE u # t
    BY <1>1, <2>2
  <2> QED BY <2>1, <2>2
<1>4. DOMAIN ctl' = Tab /\ \A u \in Tab : IsSequence(ctl'[u])
  BY <1>1, <1>2
<1> QED BY <1>3, <1>4 DEF CtlFrom

\* A tab's server takes the next question.
LEMMA TakeFrom ==
    ASSUME Shapes, NEW t \in Tab, NEW a, AtHead(t, a), NEW x, Take(t, x),
           x.st # "idle" => x.msg = Head(ctl[t])
    PROVE  CtlFrom /\ SrvFrom
<1>1. CtlFrom
  BY CtlTail DEF Take, AtHead
<1>2. IsSequence(ctl[t]) /\ ctl[t] # <<>> /\ srv' = [srv EXCEPT ![t] = x] /\ DOMAIN srv = Tab
  BY DEF Shapes, Take, AtHead
<1>3. 1 \in 1..Len(ctl[t]) /\ Head(ctl[t]) = ctl[t][1]
  BY <1>2, TailIs
<1> QED BY <1>1, <1>2, <1>3 DEF SrvFrom

LEMMA ForwardSame ==
    ASSUME GrantInv, q' = q, gone' = gone
    PROVE  Forward
BY DEF GrantInv, Shapes, Selections, Forward, Fwd, Here

LEMMA ForwardOne ==
    ASSUME GrantInv, NEW r \in Req, NEW x, q' = [q EXCEPT ![r] = x], gone' = gone,
           IsRequest(x), x.tab = q[r].tab, x.site = q[r].site,
           q[r].brg \in Granting => x.brg \in Granting,
           q[r].brg \in {"loading", "done"} => x.brg \in {"loading", "done"},
           x.brg = "pairing" => q[r].brg \notin Granting,
           Here(r) /\ x.brg \notin {"pairing", "loading"} => x.sel = {},
           Here(r) /\ x.page = "new" => x.brg = "idle"
    PROVE  Forward
<1>1. DOMAIN q' = Req /\ q'[r] = x /\ \A e \in Req \ {r} : q'[e] = q[e]
  BY DEF GrantInv, Shapes
<1>2. Fwd(r)
  BY <1>1 DEF Fwd, Here
<1>3. \A e \in Req \ {r} : Fwd(e)
  BY <1>1 DEF GrantInv, Shapes, Selections, Fwd, Here
<1> QED BY <1>1, <1>2, <1>3 DEF Forward

LEMMA ResolveSame ==
    ASSUME Selections, \A t \in Tab : dlg'[t].resolve \subseteq dlg[t].resolve, Forward,
           \A t \in Tab : \A r \in dlg'[t].resolve : q'[r].brg = q[r].brg
    PROVE  Resolving'
BY DEF Selections, Resolving, Forward, Fwd

\* A step that grants nothing and lets the bridges and the pages know no less.
LEMMA DueCalm ==
    ASSUME GrantInv, [Next]_vars, Forward,
           \A r \in Req : FrameOf(r) \notin gone' =>
             /\ q'[r].got \subseteq q[r].got /\ Due(r)' \subseteq Due(r)
             /\ allowed[q[r].tab].set[q[r].site] = allowed'[q[r].tab].set[q[r].site]
             /\ paired'[FrameOf(r)].known => /\ paired[FrameOf(r)].known
                                             /\ paired'[FrameOf(r)].set = paired[FrameOf(r)].set
    PROVE  DueFrom
<1> SUFFICES ASSUME NEW r \in Req, NEW d \in Due(r)', NEW t \in {q[r].tab}, NEW g \in {<<q[r].site, d>>},
                    FrameOf(r) \notin gone', Kept(g)'
             PROVE  Has(r, d)' /\ d \in Due(r)
  BY DEF DueFrom
<1>1. d \in Due(r)
  OBVIOUS
<1>2. Kept(g) /\ Here(r)
  BY KeptStep, TellOf DEF GrantInv, Forward, Here
<1>3. Has(r, d)
  BY <1>1, <1>2 DEF GrantInv, Secured
<1>4. q'[r].tab = q[r].tab /\ q'[r].site = q[r].site /\ FrameOf(r)' = FrameOf(r)
  BY SameFrame DEF Forward, Fwd
<1> QED BY <1>1, <1>3, <1>4 DEF Has

\* A step that moves no request.
LEMMA AsideGrants ==
    ASSUME GrantInv, [Next]_vars, UNCHANGED <<q, gone, allowed, paired>>, CtlFrom, SrvFrom,
           \A t \in Tab : dlg'[t].resolve \subseteq dlg[t].resolve
    PROVE  GrantInv'
<1>1. Forward
  BY ForwardSame
<1>2. Resolving'
  BY <1>1, ResolveSame DEF GrantInv
<1>3. DueFrom
  BY <1>1, DueCalm DEF Due
<1>4. Tables /\ WithTop'
  BY DEF GrantInv, Shapes, Tables, WithTop
<1> QED BY <1>1, <1>2, <1>3, <1>4, GrantsKept DEF Grants

\* A step that moves one request, and grants it nothing.
LEMMA OneGrants ==
    ASSUME GrantInv, [Next]_vars, NEW r \in Req, NEW x, q' = [q EXCEPT ![r] = x],
           Forward, CtlFrom, UNCHANGED <<gone, srv, allowed>>, Resolving',
           Here(r) => x.got \subseteq q[r].got,
           Here(r) /\ x.brg = "loading" => q[r].brg = "loading" /\ x.sel = q[r].sel,
           paired' = paired \/ \E f : paired' = Forget(f)
    PROVE  GrantInv'
<1>1. DOMAIN q' = Req /\ q'[r] = x /\ \A e \in Req \ {r} : q'[e] = q[e]
  BY DEF GrantInv, Shapes
<1>2. \A f \in Place : /\ DOMAIN paired'[f] = {"known", "set", "asked"} /\ paired'[f].set = paired[f].set
                       /\ (paired'[f].known => paired[f].known)
  <2>1. ASSUME NEW g, paired' = Forget(g), NEW f \in Place
        PROVE  /\ DOMAIN paired'[f] = {"known", "set", "asked"} /\ paired'[f].set = paired[f].set
               /\ (paired'[f].known => paired[f].known)
    BY <2>1 DEF GrantInv, Shapes, Forget
  <2> QED BY <2>1 DEF GrantInv, Shapes
<1>3. Tables /\ SrvFrom /\ WithTop'
  BY <1>2 DEF GrantInv, Shapes, Tables, SrvFrom, WithTop, Forget
<1>4. \A e \in Req : FrameOf(e) \notin gone' =>
          /\ q'[e].got \subseteq q[e].got /\ Due(e)' \subseteq Due(e)
          /\ allowed[q[e].tab].set[q[e].site] = allowed'[q[e].tab].set[q[e].site]
          /\ paired'[FrameOf(e)].known => /\ paired[FrameOf(e)].known
                                          /\ paired'[FrameOf(e)].set = paired[FrameOf(e)].set
  <2>1. ASSUME NEW e \in Req, FrameOf(e) \notin gone'
        PROVE q'[e].got \subseteq q[e].got /\ Due(e)' \subseteq Due(e)
    BY <1>1, <2>1 DEF Due, Here
  <2>2. \A e \in Req : FrameOf(e) \in Place
    BY DEF GrantInv, Shapes
  <2> QED BY <1>2, <2>1, <2>2
<1>5. DueFrom
  BY <1>4, DueCalm
<1> QED BY <1>3, <1>5, GrantsKept DEF Grants

-----------------------------------------------------------------------------
(* The steps, for the grants *)

\* The bridge answers with nothing, or goes on to grant what was selected.
LEMMA SettleGrants ==
    ASSUME GrantInv, [Next]_vars, NEW r \in Req, NEW ds, Settle(r, ds), q[r].brg \in {"waiting", "modal"},
           UNCHANGED <<gone, srv, allowed>>,
           \A t \in Tab : dlg'[t].resolve \subseteq dlg[t].resolve /\ r \notin dlg'[t].resolve
    PROVE  GrantInv'
<1>0. IsRequest(q[r]) /\ DOMAIN q = Req /\ Shapes /\ Selections
  BY DEF GrantInv, Shapes
<1>1. CASE ds = {}
  <2> DEFINE x == [q[r] EXCEPT !.brg = "done", !.sel = {},
                     !.page = CASE FrameOf(r) \in gone -> @
                                [] FrameOf(r) \notin gone /\ ds = {} -> "none"
                                [] OTHER -> "granted",
                     !.got = IF FrameOf(r) \in gone THEN {} ELSE ds]
  <2>1. q' = [q EXCEPT ![r] = x] /\ ctl' = ctl
        /\ paired' = IF FrameOf(r) \in gone THEN paired ELSE grantRequestedDevices(r, ds)
    BY <1>1 DEF Settle, Answer
  <2>2. /\ IsRequest(x) /\ x.tab = q[r].tab /\ x.site = q[r].site /\ x.brg = "done" /\ x.sel = {}
        /\ x.got = {} /\ (Here(r) => x.page = "none")
    BY <1>0, <1>1 DEF IsRequest, Fields, Here
  <2>3. paired' = paired
    BY <1>1, <2>1 DEF grantRequestedDevices
  <2> HIDE DEF x
  <2>4. Forward
    BY <2>1, <2>2, ForwardOne DEF Granting
  <2>5. \A t \in Tab : \A e \in dlg'[t].resolve : q'[e].brg = q[e].brg
    BY <2>1
  <2>6. Resolving'
    BY <1>0, <2>4, <2>5, ResolveSame
  <2>7. CtlFrom
    BY <1>0, <2>1, CtlSame
  <2> QED BY <2>1, <2>2, <2>3, <2>4, <2>6, <2>7, OneGrants
<1>2. CASE ds # {}
  <2> DEFINE x == [q[r] EXCEPT !.brg = "pairing", !.sel = ds]
             e == Pair(r, ds)
             t == q[r].tab
  <2>1. q' = [q EXCEPT ![r] = x] /\ paired' = paired /\ ctl' = [ctl EXCEPT ![t] = Append(@, e)]
    BY <1>2 DEF Settle, grantSelectedDevices
  <2>2. /\ IsRequest(x) /\ x.tab = t /\ x.site = q[r].site /\ x.brg = "pairing" /\ x.sel = ds
        /\ x.got = q[r].got /\ x.page = q[r].page
    BY <1>0 DEF IsRequest, Fields
  <2>3. /\ DOMAIN e = {"a", "r", "site", "ds"} /\ e.a = "pair" /\ e.r = r /\ e.ds = ds
        /\ e.site = RequestOrigin(r)
    BY DEF Pair
  <2>4. Here(r) => q[r].page # "new" /\ e.site = q[r].site
    BY <1>0, <2>3 DEF Selections, Here, RequestOrigin
  <2>5. t \in Tab
    BY <1>0, TabOf
  <2> HIDE DEF x, e
  <2>6. Forward
    <3> HIDE DEF t
    <3> QED BY <2>1, <2>2, <2>4, ForwardOne DEF Granting, t
  <2>7. q'[r] = x
    BY <1>0, <2>1
  <2>8. GrantedThen(e, t)
    BY <2>2, <2>3, <2>4, <2>7 DEF GrantedThen, Granting, Here, FrameOf
  <2>9. CtlFrom
    BY <1>0, <2>1, <2>8, CtlAppend
  <2>10. \A u \in Tab : \A y \in dlg'[u].resolve : q'[y].brg = q[y].brg
    BY <2>1
  <2>11. Resolving'
    BY <1>0, <2>6, <2>10, ResolveSame
  <2> QED BY <2>1, <2>2, <2>6, <2>9, <2>11, OneGrants
<1> QED BY <1>1, <1>2

LEMMA CloseGrants == ASSUME GrantInv, ChoiceInv, [Next]_vars, NEW t \in Tab, onClose(t) PROVE GrantInv'
<1> DEFINE ds == IF dlg[t].rv = "selected" THEN dlg[t].checked ELSE {}
           x == [dlg[t] EXCEPT !.closing = @ - 1, !.resolve = {}]
<1>0. Shapes /\ Selections /\ UNCHANGED <<gone, srv, allowed>>
  BY DEF GrantInv, onClose, Dialog
<1>1. dlg' = [dlg EXCEPT ![t] = x] /\ x.resolve = {} /\ DOMAIN dlg = Tab
  BY DEF onClose, Dialog, ChoiceInv, ModalOnly, IsDialog, DialogFields
<1> HIDE DEF x
<1>2. dlg'[t].resolve = {} /\ \A u \in Tab \ {t} : dlg'[u].resolve = dlg[u].resolve
  BY <1>1
<1>3. UNCHANGED <<q, ctl, paired>> \/ \E r \in dlg[t].resolve : Settle(r, ds)
  BY DEF onClose, Resolve
<1>4. CASE UNCHANGED <<q, ctl, paired>>
  <2>1. CtlFrom /\ SrvFrom
    BY <1>0, <1>4, CtlSame DEF SrvFrom
  <2> QED BY <1>0, <1>2, <1>4, <2>1, AsideGrants
<1>5. ASSUME NEW r \in dlg[t].resolve, Settle(r, ds) PROVE GrantInv'
  <2>1. r \in Req /\ q[r].brg = "modal" /\ q[r].tab = t
    BY <1>0 DEF Selections
  <2>2. \A u \in Tab : dlg'[u].resolve \subseteq dlg[u].resolve /\ r \notin dlg'[u].resolve
    BY <1>0, <1>2, <2>1 DEF Selections
  <2> QED BY <1>0, <1>5, <2>1, <2>2, SettleGrants
<1> QED BY <1>3, <1>4, <1>5

LEMMA ResultGrants == ASSUME GrantInv, [Next]_vars, NEW m \in res, onPickerResult(m) PROVE GrantInv'
<1>0. Shapes /\ Selections /\ UNCHANGED <<gone, srv, allowed, dlg>>
  BY DEF GrantInv, onPickerResult
<1>1. \/ UNCHANGED <<q, ctl, paired>>
      \/ \E r \in Req : q[r].brg = "waiting" /\ Settle(r, m[2])
  <2> DEFINE hears == {r \in Listeners(m[1]) : Live(q[r].tab) /\ q[r].brg = "waiting"}
  <2>1. UNCHANGED <<q, ctl, paired>> \/ \E r \in hears : Settle(r, m[2])
    BY DEF onPickerResult
  <2>2. \A r \in hears : r \in Req /\ q[r].brg = "waiting"
    BY DEF Listeners
  <2> HIDE DEF hears
  <2> QED BY <2>1, <2>2
<1>2. CASE UNCHANGED <<q, ctl, paired>>
  <2>1. CtlFrom /\ SrvFrom
    BY <1>0, <1>2, CtlSame DEF SrvFrom
  <2> QED BY <1>0, <1>2, <2>1, AsideGrants
<1>3. ASSUME NEW r \in Req, q[r].brg = "waiting", Settle(r, m[2]) PROVE GrantInv'
  <2>1. \A u \in Tab : dlg'[u].resolve \subseteq dlg[u].resolve /\ r \notin dlg'[u].resolve
    BY <1>0, <1>3 DEF Selections
  <2> QED BY <1>0, <1>3, <2>1, SettleGrants
<1> QED BY <1>1, <1>2, <1>3

\* What a request does on its way to the chooser.
Opens(r, x) ==
    /\ q' = [q EXCEPT ![r] = x] /\ IsRequest(x) /\ x.tab = q[r].tab /\ x.site = q[r].site
    /\ x.got = q[r].got /\ x.sel = q[r].sel
    /\ x.brg \notin {"pairing", "loading"}
    /\ Here(r) => q[r].brg \in {"idle", "settings", "frame"}
    /\ q[r].brg \in Granting => x.brg = "done"
    /\ Here(r) => x.page # "new"
    /\ q[r].brg = "modal" => x.brg = "done" /\ ~Here(r)

LEMMA Opening1 ==
    ASSUME GrantInv, NEW r \in Req, requestDevice(r) \/ showPicker(r) \/ show(r) \/ Shown(r)
    PROVE  \E x : Opens(r, x)
<1>0. Selections /\ IsRequest(q[r])
  BY DEF GrantInv, Shapes
<1>1. CASE requestDevice(r)
  <2> DEFINE y == [q[r] EXCEPT !.page = "none", !.brg = "done"]
             z == [q[r] EXCEPT !.page = "asked", !.brg = "settings"]
  <2>1. Here(r) /\ q[r].brg = "idle"
    BY <1>0, <1>1 DEF requestDevice, Selections, Here
  <2>2. q' = [q EXCEPT ![r] = y] \/ q' = [q EXCEPT ![r] = z]
    BY <1>1 DEF requestDevice, Refuse
  <2>3. /\ IsRequest(y) /\ y.tab = q[r].tab /\ y.site = q[r].site /\ y.got = q[r].got
        /\ y.sel = q[r].sel /\ y.brg = "done" /\ y.page = "none"
    BY <1>0 DEF IsRequest, Fields
  <2>4. /\ IsRequest(z) /\ z.tab = q[r].tab /\ z.site = q[r].site /\ z.got = q[r].got
        /\ z.sel = q[r].sel /\ z.brg = "settings" /\ z.page = "asked"
    BY <1>0 DEF IsRequest, Fields
  <2> HIDE DEF y, z
  <2>5. q' = [q EXCEPT ![r] = y] => Opens(r, y)
    BY <2>1, <2>3 DEF Opens, Granting
  <2>6. q' = [q EXCEPT ![r] = z] => Opens(r, z)
    BY <2>1, <2>4 DEF Opens, Granting
  <2> QED BY <2>2, <2>5, <2>6
<1>2. ASSUME NEW st \in {"waiting", "frame", "modal"}, q' = [q EXCEPT ![r].brg = st],
             q[r].brg \in {"settings", "frame"}
      PROVE  \E x : Opens(r, x)
  <2> DEFINE y == [q[r] EXCEPT !.brg = st]
  <2>1. q' = [q EXCEPT ![r] = y]
    BY <1>2
  <2>2. /\ IsRequest(y) /\ y.tab = q[r].tab /\ y.site = q[r].site /\ y.got = q[r].got
        /\ y.sel = q[r].sel /\ y.brg = st /\ y.page = q[r].page
    BY <1>0 DEF IsRequest, Fields
  <2>3. Here(r) => q[r].page # "new"
    BY <1>0, <1>2 DEF Selections
  <2> HIDE DEF y
  <2>4. Opens(r, y)
    BY <1>2, <2>1, <2>2, <2>3 DEF Opens, Granting
  <2> QED BY <2>4
<1>3. showPicker(r) => \E x : Opens(r, x)
  BY <1>2 DEF showPicker
<1>4. show(r) => \E x : Opens(r, x)
  BY <1>2 DEF show
<1>5. Shown(r) => \E x : Opens(r, x)
  BY <1>2 DEF Shown
<1> QED BY <1>1, <1>3, <1>4, <1>5

LEMMA RequestGrants ==
    ASSUME GrantInv, ChoiceInv, [Next]_vars, NEW r \in Req, requestDevice(r) \/ showPicker(r) \/ show(r) \/ Shown(r)
    PROVE  GrantInv'
<1>0. /\ Shapes /\ Selections /\ IsRequest(q[r]) /\ DOMAIN q = Req /\ DOMAIN dlg = Tab
      /\ \A t \in Tab : IsDialog(dlg[t])
  BY DEF GrantInv, Shapes, ChoiceInv, ModalOnly
<1>1. UNCHANGED <<gone, srv, allowed, paired>>
  BY DEF requestDevice, showPicker, show, Shown, Dialog
<1>2. PICK x : Opens(r, x)
  BY Opening1
<1>3. q'[r] = x /\ \A e \in Req \ {r} : q'[e] = q[e]
  BY <1>0, <1>2 DEF Opens
<1>4. Forward
  <2>1. Here(r) => x.sel = {}
    BY <1>0, <1>2 DEF Opens, Selections
  <2>2. /\ q[r].brg \in Granting => x.brg \in Granting
        /\ q[r].brg \in {"loading", "done"} => x.brg \in {"loading", "done"}
    BY <1>2 DEF Opens, Granting
  <2> QED BY <1>1, <1>2, <2>1, <2>2, ForwardOne DEF Opens
<1>5. CtlFrom
  <2>1. CASE showPicker(r)
    <3> DEFINE t == q[r].tab
               e == [a |-> "show", r |-> r]
    <3>1. ctl' = [ctl EXCEPT ![t] = Append(@, e)]
      BY <2>1 DEF showPicker
    <3>2. GrantedThen(e, t)
      BY DEF GrantedThen
    <3> HIDE DEF e, t
    <3> QED BY <1>0, <3>1, <3>2, CtlAppend
  <2>2. CASE ctl' = ctl
    BY <1>0, <2>2, CtlSame
  <2> QED BY <2>1, <2>2 DEF requestDevice, show, Shown
<1>6. Resolving'
  <2>1. \A t \in Tab : \A e \in dlg[t].resolve : e \in Req /\ q[e].brg = "modal" /\ q[e].tab = t
    BY <1>0 DEF Selections
  <2>2. \A e \in Req : q'[e].tab = q[e].tab
    BY <1>4 DEF Forward, Fwd
  <2>3. CASE Shown(r)
    <3> DEFINE t == q[r].tab
               y == [dlg[t] EXCEPT !.open = TRUE, !.loads = @ \cup dlg[t].filters, !.resolve = {r}]
    <3>1. dlg' = [dlg EXCEPT ![t] = y] /\ q[r].brg = "frame" /\ q' = [q EXCEPT ![r].brg = "modal"] /\ t \in Tab
      BY <1>0, <2>3, TabOf DEF Shown, Dialog
    <3>2. y.resolve = {r}
      BY <1>0, <3>1 DEF IsDialog, DialogFields
    <3>3. q'[r].brg = "modal" /\ q'[r].tab = t
      BY <1>0, <2>2, <3>1 DEF IsRequest, Fields
    <3> HIDE DEF y
    <3>4. dlg'[t].resolve = {r} /\ \A u \in Tab \ {t} : dlg'[u].resolve = dlg[u].resolve
      BY <1>0, <3>1, <3>2
    <3>5. ASSUME NEW u \in Tab, NEW e \in dlg'[u].resolve
          PROVE  e \in Req /\ q'[e].brg = "modal" /\ q'[e].tab = u
      <4>1. CASE u = t
        BY <3>3, <3>4, <3>5, <4>1
      <4>2. CASE u # t
        <5>1. e \in Req /\ q[e].brg = "modal" /\ q[e].tab = u
          BY <2>1, <3>4, <3>5, <4>2
        <5>2. e # r
          BY <3>1, <5>1
        <5> QED BY <1>3, <5>1, <5>2
      <4> QED BY <4>1, <4>2
    <3> QED BY <3>5 DEF Resolving
  <2>4. CASE requestDevice(r) \/ showPicker(r) \/ show(r)
    <3>1. ASSUME NEW t \in Tab PROVE dlg'[t].resolve = dlg[t].resolve
      <4>1. CASE show(r)
        <5> DEFINE v == q[r].tab
                   y == [(IF dlg[v].open THEN Close(dlg[v]) ELSE dlg[v]) EXCEPT !.filters = {r}]
        <5>1. dlg' = [dlg EXCEPT ![v] = y] /\ v \in Tab
          BY <1>0, <4>1, TabOf DEF show, Dialog
        <5>2. y.resolve = dlg[v].resolve
          BY <1>0, <5>1 DEF Close, IsDialog, DialogFields
        <5> HIDE DEF y, v
        <5> QED BY <1>0, <5>1, <5>2
      <4> QED BY <2>4, <4>1 DEF requestDevice, showPicker
    <3>2. q[r].brg # "modal"
      <4>1. requestDevice(r) => q[r].brg = "idle"
        BY <1>0 DEF requestDevice, Selections, Here
      <4>2. showPicker(r) \/ show(r) => q[r].brg = "settings"
        BY DEF showPicker, show
      <4> QED BY <2>4, <4>1, <4>2
    <3>3. ASSUME NEW t \in Tab, NEW e \in dlg[t].resolve PROVE q'[e].brg = q[e].brg
      <4>1. e # r /\ e \in Req
        BY <2>1, <3>2
      <4> QED BY <1>3, <4>1
    <3> QED BY <1>0, <1>4, <3>1, <3>3, ResolveSame
  <2> QED BY <2>3, <2>4
<1>7. ~(x.brg = "loading") /\ x.got = q[r].got /\ q' = [q EXCEPT ![r] = x]
  BY <1>2 DEF Opens
<1> QED BY <1>1, <1>4, <1>5, <1>6, <1>7, OneGrants

LEMMA TimeoutGrants == ASSUME GrantInv, [Next]_vars, NEW r \in Req, pickerTimeout(r) PROVE GrantInv'
<1> DEFINE x == [q[r] EXCEPT !.brg = "done", !.sel = {},
                   !.page = CASE FrameOf(r) \in gone -> @
                              [] FrameOf(r) \notin gone /\ {} = {} -> "none"
                              [] OTHER -> "granted",
                   !.got = IF FrameOf(r) \in gone THEN {} ELSE {}]
           t == q[r].tab
           e == [a |-> "cancel", r |-> r]
<1>0. IsRequest(q[r]) /\ DOMAIN q = Req /\ Shapes /\ Selections /\ q[r].brg = "waiting"
  BY DEF GrantInv, Shapes, pickerTimeout
<1>1. /\ q' = [q EXCEPT ![r] = x] /\ ctl' = [ctl EXCEPT ![t] = Append(@, e)] /\ paired' = paired
      /\ UNCHANGED <<gone, srv, allowed, dlg>>
  BY DEF pickerTimeout, Answer, grantRequestedDevices
<1>2. /\ IsRequest(x) /\ x.tab = q[r].tab /\ x.site = q[r].site /\ x.brg = "done" /\ x.sel = {}
      /\ x.got = {} /\ (Here(r) => x.page = "none")
  BY <1>0 DEF IsRequest, Fields, Here
<1>3. GrantedThen(e, t)
  BY DEF GrantedThen
<1> HIDE DEF x, e, t
<1>4. Forward
  BY <1>0, <1>1, <1>2, ForwardOne DEF Granting
<1>5. CtlFrom
  BY <1>0, <1>1, <1>3, CtlAppend
<1>6. \A u \in Tab : \A y \in dlg'[u].resolve : q'[y].brg = q[y].brg
  BY <1>0, <1>1 DEF Selections
<1>7. Resolving'
  BY <1>0, <1>1, <1>4, <1>6, ResolveSame
<1> QED BY <1>1, <1>2, <1>4, <1>5, <1>7, OneGrants

\* The steps of the choosers, of the chooser pages and of the background that
\* move no request.
LEMMA CalmGrants ==
    ASSUME GrantInv, [Next]_vars, UNCHANGED <<q, ctl, gone, allowed, paired>>, SrvFrom,
           \A t \in Tab : dlg'[t].resolve \subseteq dlg[t].resolve
    PROVE  GrantInv'
<1>1. CtlFrom
  BY CtlSame DEF GrantInv
<1> QED BY <1>1, AsideGrants

LEMMA ChooserGrants ==
    ASSUME GrantInv, ChoiceInv, [Next]_vars, NEW t \in Tab,
           Listed(t) \/ Check(t) \/ Connect(t) \/ Dismiss(t)
    PROVE  GrantInv'
<1>0. UNCHANGED <<q, ctl, gone, allowed, paired, srv>> /\ SrvFrom
  BY DEF Listed, Check, Connect, Dismiss, Dialog, SrvFrom
<1>1. IsDialog(dlg[t]) /\ DOMAIN dlg = Tab
  BY DEF ChoiceInv, ModalOnly
<1>2. \E d : dlg' = [dlg EXCEPT ![t] = d] /\ d.resolve = dlg[t].resolve
  <2>1. CASE Listed(t)
    <3>1. PICK r : dlg' = [dlg EXCEPT ![t] = [dlg[t] EXCEPT !.loads = @ \ {r}, !.listed = {r}, !.checked = {}]]
      BY <2>1 DEF Listed, Dialog
    <3> DEFINE d == [dlg[t] EXCEPT !.loads = @ \ {r}, !.listed = {r}, !.checked = {}]
    <3>2. d.resolve = dlg[t].resolve
      BY <1>1 DEF IsDialog, DialogFields
    <3> HIDE DEF d
    <3> QED BY <3>1, <3>2 DEF d
  <2>2. CASE Check(t)
    <3> DEFINE d == [dlg[t] EXCEPT !.checked = @ \cup dlg[t].listed]
    <3>1. dlg' = [dlg EXCEPT ![t] = d]
      BY <2>2 DEF Check, Dialog
    <3>2. d.resolve = dlg[t].resolve
      BY <1>1 DEF IsDialog, DialogFields
    <3> HIDE DEF d
    <3> QED BY <3>1, <3>2
  <2>3. CASE Connect(t) \/ Dismiss(t)
    <3>1. PICK rv : dlg' = [dlg EXCEPT ![t] = [Close(dlg[t]) EXCEPT !.rv = rv]]
      BY <2>3 DEF Connect, Dismiss, Dialog
    <3> DEFINE d == [Close(dlg[t]) EXCEPT !.rv = rv]
    <3>2. d.resolve = dlg[t].resolve
      BY <1>1 DEF IsDialog, DialogFields, Close
    <3> HIDE DEF d
    <3> QED BY <3>1, <3>2 DEF d
  <2> QED BY <2>1, <2>2, <2>3
<1>3. \A u \in Tab : dlg'[u].resolve \subseteq dlg[u].resolve
  BY <1>1, <1>2
<1> QED BY <1>0, <1>3, CalmGrants

LEMMA PageGrants ==
    ASSUME GrantInv, [Next]_vars, NEW r, loadPending(r) \/ Choose(r) \/ Unload(r)
    PROVE  GrantInv'
<1>1. UNCHANGED <<q, ctl, gone, allowed, paired, srv, dlg>>
  BY DEF loadPending, Choose, Unload
<1> QED BY <1>1, CalmGrants DEF SrvFrom

LEMMA RevokeGrants ==
    ASSUME GrantInv, [Next]_vars, TellRevoked \/ \E g : Revoke(g)
    PROVE  GrantInv'
<1>1. UNCHANGED <<q, ctl, gone, allowed, paired, srv, dlg>>
  BY DEF TellRevoked, Revoke
<1> QED BY <1>1, CalmGrants DEF SrvFrom

LEMMA StillGrants == ASSUME GrantInv, UNCHANGED vars PROVE GrantInv'
<1>1. UNCHANGED <<q, ctl, gone, allowed, paired, srv, dlg>> /\ [Next]_vars
  BY DEF vars
<1> QED BY <1>1, CalmGrants DEF SrvFrom

LEMMA AskGrants == ASSUME GrantInv, [Next]_vars, NEW f, isDeviceAllowed(f) PROVE GrantInv'
<1> DEFINE e == [a |-> "ask", f |-> f]
<1>1. UNCHANGED <<q, gone, allowed, paired, srv, dlg>> /\ \E t : ctl' = [ctl EXCEPT ![t] = Append(@, e)]
  BY DEF isDeviceAllowed
<1>2. \A t : GrantedThen(e, t)
  BY DEF GrantedThen
<1> HIDE DEF e
<1>3. CtlFrom
  BY <1>1, <1>2, CtlAppend DEF GrantInv
<1> QED BY <1>1, <1>3, AsideGrants DEF SrvFrom

LEMMA ListGrants == ASSUME GrantInv, [Next]_vars, NEW f \in Place, getDevices(f) PROVE GrantInv'
<1> DEFINE e == [a |-> "list", f |-> f]
           t == f[1]
<1>1. /\ UNCHANGED <<q, gone, allowed, srv, dlg>> /\ ctl' = [ctl EXCEPT ![t] = Append(@, e)]
      /\ paired' = [paired EXCEPT ![f].asked = TRUE]
  BY DEF getDevices
<1>2. GrantedThen(e, t)
  BY DEF GrantedThen
<1> HIDE DEF e, t
<1>3. CtlFrom /\ SrvFrom
  BY <1>1, <1>2, CtlAppend DEF GrantInv, SrvFrom
<1>4. /\ DOMAIN paired' = Place
      /\ \A g \in Place : /\ DOMAIN paired'[g] = {"known", "set", "asked"} /\ paired'[g].set = paired[g].set
                          /\ paired'[g].known = paired[g].known
  BY <1>1 DEF GrantInv, Shapes
<1>5. Forward
  BY <1>1, ForwardSame
<1>6. Resolving'
  BY <1>1, <1>5, ResolveSame DEF GrantInv
<1>7. \A r \in Req : FrameOf(r) \in Place
  BY DEF GrantInv, Shapes
<1>8. DueFrom
  BY <1>1, <1>4, <1>5, <1>7, DueCalm DEF Due
<1>9. Tables /\ WithTop'
  BY <1>1, <1>4 DEF GrantInv, Shapes, Tables, WithTop
<1> QED BY <1>3, <1>5, <1>6, <1>8, <1>9, GrantsKept DEF Grants

\* The tab's server takes a question.
LEMMA TakeGrants ==
    ASSUME GrantInv, [Next]_vars, NEW t \in Tab,
           handleShowPicker(t) \/ handleCancelPicker(t) \/ ReadGrants(t) \/ addAllowedDevice(t)
    PROVE  GrantInv'
<1>0. UNCHANGED <<q, gone, allowed, paired, dlg>> /\ Shapes
  BY DEF handleShowPicker, handleCancelPicker, ReadGrants, addAllowedDevice, Take, GrantInv
<1>1. CASE handleShowPicker(t) \/ handleCancelPicker(t)
  <2>1. Take(t, Idle) /\ (AtHead(t, "show") \/ AtHead(t, "cancel")) /\ Idle.st = "idle"
    BY <1>1 DEF handleShowPicker, handleCancelPicker, Idle
  <2>2. CtlFrom /\ SrvFrom
    BY <1>0, <2>1, TakeFrom
  <2> QED BY <1>0, <2>2, AsideGrants
<1>2. CASE ReadGrants(t)
  <2> DEFINE x == [st |-> "reply", msg |-> Head(ctl[t]), set |-> getAllowedDevices(SiteOf(Head(ctl[t])))]
  <2>1. Take(t, x) /\ x.msg = Head(ctl[t]) /\ \E a : AtHead(t, a)
    BY <1>2 DEF ReadGrants
  <2> HIDE DEF x
  <2>2. CtlFrom /\ SrvFrom
    BY <1>0, <2>1, TakeFrom
  <2> QED BY <1>0, <2>2, AsideGrants
<1>3. CASE addAllowedDevice(t)
  <2>1. PICK st : Take(t, [st |-> st, msg |-> Head(ctl[t]), set |-> {}])
    BY <1>3 DEF addAllowedDevice
  <2> DEFINE x == [st |-> st, msg |-> Head(ctl[t]), set |-> {}]
  <2>2. Take(t, x) /\ x.msg = Head(ctl[t]) /\ \E a : AtHead(t, a)
    BY <1>3, <2>1 DEF addAllowedDevice
  <2> HIDE DEF x
  <2>3. CtlFrom /\ SrvFrom
    BY <1>0, <2>2, TakeFrom
  <2> QED BY <1>0, <2>3, AsideGrants
<1> QED BY <1>1, <1>2, <1>3

LEMMA NotifyGrants ==
    ASSUME GrantInv, [Next]_vars, NEW t \in Tab, notifyAllowedDevicesChanged(t) PROVE GrantInv'
<1>1. /\ UNCHANGED <<q, ctl, gone, allowed, paired, dlg>>
      /\ srv' = [srv EXCEPT ![t].st = "notify"] /\ srv[t].st = "added"
  BY DEF notifyAllowedDevicesChanged
<1>2. SrvFrom
  BY <1>1 DEF GrantInv, Shapes, SrvFields, SrvFrom
<1> QED BY <1>1, <1>2, CalmGrants

LEMMA LeaveGrants ==
    ASSUME GrantInv, ChoiceInv, [Next]_vars, NEW f \in Place \cup {<<t, "top">> : t \in Tab}, Leave(f)
    PROVE  GrantInv'
<1>0. /\ Shapes /\ Selections /\ WithTop /\ DOMAIN q = Req /\ DOMAIN dlg = Tab /\ DOMAIN ctl = Tab
      /\ \A r \in Req : IsRequest(q[r]) /\ FrameOf(r) \in Place
      /\ f[1] \in Tab
  <2>1. f[1] \in Tab
    BY DEF Tab
  <2> QED BY <2>1 DEF GrantInv, Shapes, ChoiceInv, ModalOnly
<1>1. /\ gone' = gone \cup {f} \cup {g \in Place : f[2] = "top" /\ g[1] = f[1]}
      /\ paired' = [g \in Place |-> IF g \in gone' THEN Unasked ELSE paired[g]]
      /\ srv' = srv
  BY DEF Leave
<1>2. ASSUME NEW r \in Req, FrameOf(r) \notin gone' PROVE ~Ended(r, f) /\ Here(r)
  <2>1. FrameOf(r)[1] = q[r].tab /\ FrameOf(r) \in Place
    BY <1>0 DEF FrameOf
  <2> QED BY <1>1, <1>2, <2>1 DEF Ended, Here
<1>3. ASSUME NEW r \in Req
      PROVE  /\ IsRequest(q'[r]) /\ q'[r].tab = q[r].tab /\ q'[r].site = q[r].site
             /\ \/ ~Ended(r, f) /\ q'[r] = q[r]
                \/ /\ Ended(r, f)
                   /\ q'[r].brg = IF f[2] = "top" \/ q[r].brg = "idle" THEN "done" ELSE q[r].brg
  <2> DEFINE x == [q[r] EXCEPT !.page = "left", !.got = {},
                     !.brg = IF f[2] = "top" \/ @ = "idle" THEN "done" ELSE @,
                     !.sel = IF f[2] = "top" THEN {} ELSE @]
  <2>1. q'[r] = IF ~Ended(r, f) THEN q[r] ELSE x
    BY DEF Leave
  <2>2. /\ IsRequest(x) /\ x.tab = q[r].tab /\ x.site = q[r].site
        /\ x.brg = IF f[2] = "top" \/ q[r].brg = "idle" THEN "done" ELSE q[r].brg
    BY <1>0 DEF IsRequest, Fields
  <2> HIDE DEF x
  <2> QED BY <1>0, <2>1, <2>2
<1>4. DOMAIN q' = Req
  BY DEF Leave
<1>5. Forward
  <2>1. ASSUME NEW r \in Req PROVE Fwd(r)
    <3>1. CASE Ended(r, f)
      <4>1. FrameOf(r) \in gone'
        BY <1>2, <3>1
      <4> QED BY <1>3, <3>1, <4>1 DEF Fwd, Granting
    <3>2. CASE ~Ended(r, f)
      <4>1. q'[r] = q[r]
        BY <1>3, <3>2
      <4> QED BY <1>0, <1>2, <4>1 DEF Fwd, Selections
    <3> QED BY <3>1, <3>2
  <2> QED BY <1>1, <1>4, <2>1 DEF Forward
<1>6. CtlFrom
  <2>1. CASE f[2] # "top"
    BY <1>0, <2>1, CtlSame DEF Leave
  <2>2. CASE f[2] = "top"
    <3> DEFINE t == f[1]
               y == IF ctl[t] # <<>> /\ srv[t] = Idle THEN <<Head(ctl[t])>> ELSE <<>>
    <3>1. ctl' = [ctl EXCEPT ![t] = y]
      BY <2>2 DEF Leave
    <3>2. /\ IsSequence(y) /\ Len(y) \in Nat
          /\ \A i \in 1..Len(y) : \E j \in 1..Len(ctl[t]) : y[i] = ctl[t][j]
      <4>1. CASE ctl[t] # <<>> /\ srv[t] = Idle
        <5> DEFINE h == Head(ctl[t])
        <5>1. y = <<h>>
          BY <4>1
        <5>2. h = ctl[t][1] /\ Len(ctl[t]) \in Nat \ {0}
          BY <1>0, <4>1, TailIs DEF Shapes
        <5> HIDE DEF h, y
        <5>3. y \in Seq({h}) /\ Len(y) = 1 /\ y[1] = h /\ DOMAIN y = 1..1
          BY <5>1
        <5>4. y \in Seq({y[i] : i \in DOMAIN y})
          BY <5>3
        <5> QED BY <5>2, <5>3, <5>4 DEF IsSequence
      <4>2. CASE ~(ctl[t] # <<>> /\ srv[t] = Idle)
        <5>1. y = <<>>
          BY <4>2
        <5> QED BY <5>1 DEF IsSequence
      <4> QED BY <4>1, <4>2
    <3> HIDE DEF y
    <3>3. DOMAIN ctl' = Tab /\ ctl'[t] = y /\ \A u \in Tab \ {t} : ctl'[u] = ctl[u]
      BY <1>0, <3>1
    <3>4. ASSUME NEW u \in Tab, NEW i \in 1..Len(ctl'[u])
          PROVE  IsSequence(ctl'[u]) /\ \E j \in 1..Len(ctl[u]) : ctl'[u][i] = ctl[u][j]
      BY <1>0, <3>2, <3>3 DEF Shapes
    <3>5. \A u \in Tab : IsSequence(ctl'[u])
      BY <1>0, <3>2, <3>3 DEF Shapes
    <3> QED BY <3>3, <3>4, <3>5 DEF CtlFrom
  <2> QED BY <2>1, <2>2
<1>7. /\ DOMAIN allowed' = Tab
      /\ \A t \in Tab : DOMAIN allowed'[t] = {"loaded", "set"} /\ DOMAIN allowed'[t].set = Site
      /\ \A t \in Tab : f[2] # "top" \/ t # f[1] => allowed'[t] = allowed[t]
  <2>1. DOMAIN Unloaded = {"loaded", "set"} /\ DOMAIN Unloaded.set = Site
    BY DEF Unloaded
  <2>2. allowed' = allowed \/ (f[2] = "top" /\ allowed' = [allowed EXCEPT ![f[1]] = Unloaded])
    BY DEF Leave
  <2> QED BY <1>0, <2>1, <2>2 DEF Shapes
<1>8. Tables
  <2>1. DOMAIN Unasked = {"known", "set", "asked"}
    BY DEF Unasked
  <2> QED BY <1>0, <1>1, <1>7, <2>1 DEF Shapes, Tables
<1>9. Resolving'
  <2>1. ASSUME NEW t \in Tab, NEW r \in dlg'[t].resolve
        PROVE  r \in Req /\ q'[r].brg = "modal" /\ q'[r].tab = t
    <3>1. (f[2] # "top" \/ t # f[1]) /\ dlg'[t] = dlg[t]
      <4>1. Closed.resolve = {}
        BY DEF Closed
      <4>2. IF f[2] = "top" THEN dlg' = [dlg EXCEPT ![f[1]] = Closed] ELSE dlg' = dlg
        BY DEF Leave
      <4> QED BY <1>0, <2>1, <4>1, <4>2
    <3>2. r \in Req /\ q[r].brg = "modal" /\ q[r].tab = t
      BY <1>0, <2>1, <3>1 DEF Selections
    <3>3. Ended(r, f) => f[2] # "top"
      BY <3>1, <3>2 DEF Ended, FrameOf
    <3> QED BY <1>3, <3>2, <3>3
  <2> QED BY <2>1 DEF Resolving
<1>10. WithTop'
  <2>1. ASSUME NEW p \in Place, <<p[1], "top">> \in gone' PROVE p \in gone'
    <3>1. CASE <<p[1], "top">> \in gone
      BY <1>0, <1>1, <3>1 DEF WithTop
    <3>2. CASE <<p[1], "top">> \notin gone
      <4>1. f[2] = "top" /\ f[1] = p[1]
        BY <1>1, <2>1, <3>2
      <4> QED BY <1>1, <4>1
    <3> QED BY <3>1, <3>2
  <2> QED BY <2>1 DEF WithTop
<1>11. DueFrom
  <2>1. ASSUME NEW r \in Req, FrameOf(r) \notin gone'
        PROVE  /\ q'[r].got \subseteq q[r].got /\ Due(r)' \subseteq Due(r)
               /\ allowed[q[r].tab].set[q[r].site] = allowed'[q[r].tab].set[q[r].site]
               /\ paired'[FrameOf(r)] = paired[FrameOf(r)]
    <3>1. q'[r] = q[r] /\ ~Ended(r, f)
      BY <1>2, <1>3, <2>1
    <3>2. q[r].tab \in Tab
      BY <1>0, TabOf
    <3>3. allowed'[q[r].tab] = allowed[q[r].tab]
      BY <1>7, <3>1, <3>2 DEF Ended
    <3> QED BY <1>0, <1>1, <2>1, <3>1, <3>3 DEF Due
  <2> QED BY <1>5, <2>1, DueCalm
<1>12. SrvFrom
  BY <1>1 DEF SrvFrom
<1> QED BY <1>5, <1>6, <1>8, <1>9, <1>10, <1>11, <1>12, GrantsKept DEF Grants

\* A step that moves no request, and has the bridges and pages know what is due.
LEMMA KnowGrants ==
    ASSUME GrantInv, [Next]_vars, UNCHANGED <<q, gone, ctl, dlg>>, SrvFrom, Tables,
           \A r \in Req : \A d \in q[r].got : \A g \in {<<q[r].site, d>>}, u \in {q[r].tab} :
             Here(r) /\ Secure(u, g) /\ Has(r, d) => Has(r, d)'
    PROVE  GrantInv'
<1>1. Forward
  BY ForwardSame
<1>2. Resolving'
  BY <1>1, ResolveSame DEF GrantInv
<1>3. ASSUME NEW r \in Req, NEW d \in Due(r)', NEW t \in {q[r].tab}, NEW g \in {<<q[r].site, d>>},
             FrameOf(r) \notin gone', Kept(g)'
      PROVE  Has(r, d)' /\ d \in Due(r)
  <2>1. d \in Due(r) /\ Here(r)
    BY <1>3 DEF Due, Here
  <2>2. Kept(g)
    BY <1>3, KeptStep, TellOf DEF GrantInv
  <2>3. Secure(t, g) /\ Has(r, d)
    BY <2>1, <2>2 DEF GrantInv, Secured
  <2>4. CASE d \in q[r].got
    BY <2>1, <2>3, <2>4
  <2>5. CASE d \notin q[r].got
    <3>1. d \notin q'[r].got
      BY <2>5
    <3>2. Has(r, d)'
      BY <3>1 DEF Has
    <3> QED BY <2>1, <3>2
  <2> QED BY <2>1, <2>4, <2>5
<1>4. DueFrom
  BY <1>3 DEF DueFrom
<1>5. CtlFrom /\ WithTop'
  BY CtlSame DEF GrantInv, WithTop
<1> QED BY <1>1, <1>2, <1>4, <1>5, GrantsKept DEF Grants

\* A bridge learns the grants of a site (loadAllowedDeviceIds, the news).
LEMMA KnownIs ==
    ASSUME Shapes, NEW t \in Tab, NEW s, NEW ds, allowed' = Known(t, s, ds)
    PROVE  /\ DOMAIN allowed' = Tab
           /\ \A u \in Tab : /\ DOMAIN allowed'[u] = {"loaded", "set"} /\ DOMAIN allowed'[u].set = Site
                             /\ \A w \in Site : allowed'[u].set[w] =
                                  IF u = t /\ w = s THEN ds ELSE allowed[u].set[w]
<1> DEFINE y == [allowed[t].set EXCEPT ![s] = ds]
           z == [allowed[t] EXCEPT !.loaded = @ \cup {s}, !.set = y]
<1>1. DOMAIN allowed = Tab /\ \A u \in Tab : DOMAIN allowed[u] = {"loaded", "set"} /\ DOMAIN allowed[u].set = Site
  BY DEF Shapes
<1>2. DOMAIN y = Site /\ \A w \in Site : y[w] = IF w = s THEN ds ELSE allowed[t].set[w]
  BY <1>1
<1>3. allowed' = [allowed EXCEPT ![t] = z]
  BY <1>1 DEF Known
<1> HIDE DEF y
<1>4. DOMAIN z = {"loaded", "set"} /\ z.set = y
  BY <1>1
<1> HIDE DEF z
<1>5. DOMAIN allowed' = Tab /\ allowed'[t] = z /\ \A u \in Tab \ {t} : allowed'[u] = allowed[u]
  BY <1>1, <1>3
<1> QED BY <1>1, <1>2, <1>4, <1>5

LEMMA SiteIs == ASSUME Shapes, NEW r \in Req PROVE q[r].site \in Site
<1>1. FrameOf(r) \in Place /\ FrameOf(r)[2] = q[r].site
  BY DEF Shapes, FrameOf
<1> QED BY <1>1, PickerAssumption DEF Site

LEMMA HearGrants == ASSUME GrantInv, [Next]_vars, NEW t \in Tab, Hear(t) PROVE GrantInv'
<1> DEFINE m == Head(news[t])
<1>0. Shapes /\ TellShapes
  BY TellOf DEF GrantInv
<1>1. /\ allowed' = IF Live(t) THEN Known(t, m.site, m.set) ELSE allowed
      /\ paired' = IF m.revoked /\ <<t, m.site>> \in Place THEN Forget(<<t, m.site>>) ELSE paired
  BY DEF Hear
<1>2. /\ UNCHANGED <<q, gone, ctl, dlg>>
      /\ (srv' = srv \/ (srv' = [srv EXCEPT ![news[t][1].by].st = "reply"] /\ news[t][1].by # 0))
      /\ Len(news[t]) \in Nat \ {0}
  BY <1>0, HearNews
<1>3. m = news[t][1] /\ 1 \in 1..Len(news[t])
  BY <1>0, <1>2, TailIs DEF Hear, Shapes
<1> HIDE DEF m
<1>4. SrvFrom
  <2> DEFINE b == news[t][1].by
  <2>1. b # 0 => b \in Tab /\ srv[b].st = "notify"
    BY <1>3 DEF GrantInv, Told
  <2>2. srv' = srv \/ (srv' = [srv EXCEPT ![b].st = "reply"] /\ b # 0)
    BY <1>2
  <2> HIDE DEF b
  <2> QED BY <1>0, <2>1, <2>2 DEF SrvFrom, Shapes, SrvFields
<1>5. /\ DOMAIN paired' = Place
      /\ \A f \in Place : /\ DOMAIN paired'[f] = {"known", "set", "asked"}
                          /\ (paired'[f].known => paired[f].known) /\ paired'[f].set = paired[f].set
  <2>1. paired' = paired \/ paired' = Forget(<<t, m.site>>)
    BY <1>1
  <2> QED BY <1>0, <2>1 DEF Shapes, Forget
<1>6. Tables
  BY <1>0, <1>1, <1>5, KnownIs DEF Tables, Shapes
<1>7. ASSUME NEW r \in Req, NEW d \in q[r].got, NEW g \in {<<q[r].site, d>>}, NEW u \in {q[r].tab},
             Here(r), Secure(u, g), Has(r, d)
      PROVE  Has(r, d)'
  <2>1. ~Misses(m, g)
    BY <1>3, <1>7 DEF Secure, NoneMisses
  <2>2. q[r].site = m.site => d \in m.set
    BY <2>1 DEF Misses
  <2>3. q[r].tab \in Tab /\ q[r].site \in Site /\ FrameOf(r) \in Place
    BY <1>0, TabOf, SiteIs DEF Shapes
  <2>4. d \in allowed'[q[r].tab].set[q[r].site]
    <3>1. d \in allowed[q[r].tab].set[q[r].site]
      BY <1>7 DEF Has
    <3>2. CASE Live(t)
      <4>1. allowed'[q[r].tab].set[q[r].site] =
              IF q[r].tab = t /\ q[r].site = m.site THEN m.set ELSE allowed[q[r].tab].set[q[r].site]
        BY <1>0, <1>1, <2>3, <3>2, KnownIs
      <4> QED BY <2>2, <3>1, <4>1
    <3> QED BY <1>1, <3>1, <3>2
  <2>5. q'[r] = q[r] /\ FrameOf(r)' = FrameOf(r)
    BY <1>2 DEF FrameOf
  <2> QED BY <1>5, <1>7, <2>3, <2>4, <2>5 DEF Has
<1> QED BY <1>2, <1>4, <1>6, <1>7, KnowGrants

-----------------------------------------------------------------------------
(* The answers of the background *)

LEMMA RespondSrv == ASSUME Shapes, NEW t, srv' = [srv EXCEPT ![t] = Idle] PROVE SrvFrom
BY DEF Shapes, SrvFrom, Idle

\* The grant is stored: the bridge loads the grants anew (grantSelectedDevices).
LEMMA PairedGrants ==
    ASSUME GrantInv, [Next]_vars, NEW t \in Tab, srv[t].st = "reply", srv[t].msg.a = "pair",
           srv' = [srv EXCEPT ![t] = Idle], q[srv[t].msg.r].brg = "pairing",
           ctl' = [ctl EXCEPT ![t] = Append(@, [srv[t].msg EXCEPT !.a = "load"])],
           q' = [q EXCEPT ![srv[t].msg.r].brg = "loading"],
           UNCHANGED <<gone, store, news, allowed, paired, dlg>>
    PROVE  GrantInv'
<1> DEFINE m == srv[t].msg
           r == m.r
           e == [m EXCEPT !.a = "load"]
           x == [q[r] EXCEPT !.brg = "loading"]
<1>0. Shapes /\ Selections /\ DOMAIN q = Req /\ DOMAIN srv = Tab
  BY DEF GrantInv, Shapes
<1>1. Granted(m, t)
  BY DEF GrantInv, Messages
<1>2. m.a = "pair" /\ q[r].brg = "pairing" /\ ctl' = [ctl EXCEPT ![t] = Append(@, e)] /\ q' = [q EXCEPT ![r] = x]
  OBVIOUS
<1> HIDE DEF m
<1>3. /\ DOMAIN m = {"a", "r", "site", "ds"} /\ r \in Req /\ q[r].tab = t
      /\ (Here(r) => q[r].site = m.site /\ q[r].sel \subseteq m.ds)
  BY <1>1, <1>2 DEF Granted
<1>4. IsRequest(q[r])
  BY <1>3 DEF GrantInv, Shapes
<1>5. /\ IsRequest(x) /\ x.tab = t /\ x.site = q[r].site /\ x.got = q[r].got /\ x.sel = q[r].sel
      /\ x.brg = "loading" /\ x.page = q[r].page
  BY <1>3, <1>4 DEF IsRequest, Fields
<1>6. DOMAIN e = {"a", "r", "site", "ds"} /\ e.a = "load" /\ e.r = r /\ e.site = m.site
  BY <1>3
<1> HIDE DEF r, e, x
<1>7. q'[r] = x /\ \A y \in Req \ {r} : q'[y] = q[y]
  BY <1>0, <1>2, <1>3
<1>8. Here(r) => x.page # "new"
  BY <1>0, <1>2, <1>3, <1>5 DEF Selections
<1>9. Forward
  BY <1>2, <1>3, <1>5, <1>8, ForwardOne DEF Granting
<1>10. GrantedThen(e, t)
  BY <1>3, <1>5, <1>6, <1>7 DEF GrantedThen, Here, FrameOf
<1>11. CtlFrom /\ SrvFrom
  BY <1>0, <1>2, <1>10, CtlAppend, RespondSrv
<1>12. \A u \in Tab : \A y \in dlg'[u].resolve : q'[y].brg = q[y].brg
  BY <1>0, <1>2, <1>7 DEF Selections
<1>13. Resolving'
  BY <1>0, <1>9, <1>12, ResolveSame
<1>14. Tables /\ WithTop'
  BY DEF GrantInv, Shapes, Tables, WithTop
<1>15. ASSUME NEW y \in Req, NEW d \in Due(y)', NEW u \in {q[y].tab}, NEW g \in {<<q[y].site, d>>},
              FrameOf(y) \notin gone', Kept(g)'
       PROVE  Has(y, d)' /\ (d \in Due(y) \/ Secure(u, g)')
  <2>1. Kept(g) /\ Here(y)
    BY <1>15, KeptStep, TellOf DEF GrantInv, Here
  <2>2. q'[y].got = q[y].got /\ q'[y].tab = q[y].tab /\ q'[y].site = q[y].site /\ FrameOf(y)' = FrameOf(y)
    BY <1>3, <1>5, <1>7 DEF FrameOf
  <2>3. d \in Due(y) => Has(y, d)
    BY <2>1 DEF GrantInv, Secured
  <2>4. d \in q[y].got => d \in Due(y)
    BY DEF Due
  <2>5. Has(y, d)'
    BY <2>2, <2>3, <2>4 DEF Has
  <2>6. CASE d \notin Due(y)
    <3>1. y = r /\ d \in q[r].sel
      <4>1. y # r => Due(y)' = Due(y)
        BY <1>7 DEF Due
      <4>2. y = r => Due(y)' = q[y].got \cup q[y].sel
        BY <1>5, <1>7 DEF Due
      <4>3. d \notin q[y].got /\ d \in Due(y)'
        BY <2>4, <2>6
      <4>4. y = r
        BY <2>6, <4>1, <4>3
      <4> QED BY <4>2, <4>3, <4>4
    <3>2. g = <<q[r].site, d>> /\ u = t /\ q[r].site = m.site /\ d \in m.ds
      BY <1>3, <2>1, <3>1
    <3>3. Grant(g) /\ Pairs(t, g)
      BY <1>2, <3>2 DEF Grant, Pairs, m
    <3>4. g \in store /\ NoneMisses(g)
      BY <2>1, <3>3 DEF GrantInv, Storing, StoredFor
    <3>5. srv'[t].st = "idle"
      BY <1>0 DEF Idle
    <3>6. Secure(u, g)'
      BY <3>2, <3>4, <3>5 DEF Secure, NoneMisses, Misses, Answering
    <3> QED BY <2>5, <3>6
  <2> QED BY <2>5, <2>6
<1>16. DueFrom
  BY <1>15 DEF DueFrom
<1> QED BY <1>9, <1>11, <1>13, <1>14, <1>16, GrantsKept DEF Grants

\* What the bridge learns of a site has what its requests have got.
LEMMA LearnGrants ==
    ASSUME GrantInv, NEW t \in Tab, srv[t].st = "reply", srv[t].msg.a \in {"ask", "load", "list"},
           NEW r \in Req, NEW d, NEW g \in {<<q[r].site, d>>}, NEW u \in {q[r].tab},
           Secure(u, g), q[r].tab = t, q[r].site = SiteOf(srv[t].msg)
    PROVE  d \in srv[t].set
BY DEF Secure, Answering

LEMMA AskedGrants ==
    ASSUME GrantInv, [Next]_vars, NEW t \in Tab, srv[t].st = "reply", srv[t].msg.a = "ask",
           srv' = [srv EXCEPT ![t] = Idle], allowed' = Known(t, SiteOf(srv[t].msg), srv[t].set),
           UNCHANGED <<q, gone, ctl, paired, dlg>>
    PROVE  GrantInv'
<1>0. Shapes
  BY DEF GrantInv
<1>1. SrvFrom
  BY <1>0, RespondSrv
<1>2. Tables
  BY <1>0, KnownIs DEF Tables, Shapes
<1>3. ASSUME NEW r \in Req, NEW d \in q[r].got, NEW g \in {<<q[r].site, d>>}, NEW u \in {q[r].tab},
             Here(r), Secure(u, g), Has(r, d)
      PROVE  Has(r, d)'
  <2>1. q[r].tab \in Tab /\ q[r].site \in Site
    BY <1>0, TabOf, SiteIs
  <2>2. d \in allowed'[q[r].tab].set[q[r].site]
    <3>1. d \in allowed[q[r].tab].set[q[r].site]
      BY <1>3 DEF Has
    <3>2. q[r].tab = t /\ q[r].site = SiteOf(srv[t].msg) => d \in srv[t].set
      BY <1>3, LearnGrants
    <3>3. allowed'[q[r].tab].set[q[r].site] =
            IF q[r].tab = t /\ q[r].site = SiteOf(srv[t].msg) THEN srv[t].set
            ELSE allowed[q[r].tab].set[q[r].site]
      BY <1>0, <2>1, KnownIs
    <3> QED BY <3>1, <3>2, <3>3
  <2>3. q'[r] = q[r] /\ FrameOf(r)' = FrameOf(r) /\ paired' = paired
    BY DEF FrameOf
  <2> QED BY <1>3, <2>2, <2>3 DEF Has
<1> QED BY <1>1, <1>2, <1>3, KnowGrants

LEMMA ListedGrants ==
    ASSUME GrantInv, [Next]_vars, NEW t \in Tab, srv[t].st = "reply", srv[t].msg.a = "list",
           srv' = [srv EXCEPT ![t] = Idle],
           paired' = IF srv[t].msg.f \in gone THEN paired
                     ELSE [paired EXCEPT ![srv[t].msg.f] = [known |-> TRUE, asked |-> FALSE,
                                                            set |-> srv[t].set]],
           UNCHANGED <<q, gone, ctl, allowed, dlg>>
    PROVE  GrantInv'
<1> DEFINE f == srv[t].msg.f
           x == [known |-> TRUE, asked |-> FALSE, set |-> srv[t].set]
<1>0. Shapes /\ DOMAIN paired = Place
  BY DEF GrantInv, Shapes
<1>1. SrvFrom
  BY <1>0, RespondSrv
<1>2. f \in Place /\ f[1] = t
  <2>1. Granted(srv[t].msg, t)
    BY DEF GrantInv, Messages
  <2> QED BY <2>1 DEF Granted
<1>3. paired' = paired \/ paired' = [paired EXCEPT ![f] = x]
  OBVIOUS
<1>4. DOMAIN x = {"known", "set", "asked"} /\ x.set = srv[t].set
  OBVIOUS
<1>5. SiteOf(srv[t].msg) = f[2]
  BY DEF SiteOf
<1> HIDE DEF f, x
<1>6. /\ DOMAIN paired' = Place
      /\ \A p \in Place : paired'[p] = paired[p] \/ (p = f /\ paired'[p] = x)
  BY <1>0, <1>3
<1>7. Tables
  BY <1>0, <1>4, <1>6 DEF Tables, Shapes
<1>8. ASSUME NEW r \in Req, NEW d \in q[r].got, NEW g \in {<<q[r].site, d>>}, NEW u \in {q[r].tab},
             Here(r), Secure(u, g), Has(r, d)
      PROVE  Has(r, d)'
  <2>1. FrameOf(r) \in Place /\ FrameOf(r)[1] = q[r].tab /\ FrameOf(r)[2] = q[r].site
    BY <1>0 DEF Shapes, FrameOf
  <2>2. q'[r] = q[r] /\ FrameOf(r)' = FrameOf(r) /\ allowed' = allowed
    BY DEF FrameOf
  <2>3. CASE paired'[FrameOf(r)] = paired[FrameOf(r)]
    BY <1>8, <2>2, <2>3 DEF Has
  <2>4. CASE FrameOf(r) = f /\ paired'[FrameOf(r)] = x
    <3>1. d \in srv[t].set
      BY <1>2, <1>5, <1>8, <2>1, <2>4, LearnGrants
    <3>2. d \in allowed[q[r].tab].set[q[r].site]
      BY <1>8 DEF Has
    <3> QED BY <1>4, <2>2, <2>4, <3>1, <3>2 DEF Has
  <2> QED BY <1>6, <2>1, <2>3, <2>4
<1> QED BY <1>1, <1>7, <1>8, KnowGrants

\* The bridge has loaded the grants, and answers its page.
LEMMA LoadedGrants ==
    ASSUME GrantInv, [Next]_vars, NEW t \in Tab, NEW r, r = srv[t].msg.r,
           srv[t].st = "reply", srv[t].msg.a = "load",
           srv' = [srv EXCEPT ![t] = Idle], allowed' = Known(t, SiteOf(srv[t].msg), srv[t].set),
           Answer(r, q[r].sel), UNCHANGED <<gone, store, news, ctl, dlg>>
    PROVE  GrantInv'
<1> DEFINE ds == q[r].sel
           x == [q[r] EXCEPT !.brg = "done", !.sel = {},
                   !.page = CASE FrameOf(r) \in gone -> @
                              [] FrameOf(r) \notin gone /\ ds = {} -> "none"
                              [] OTHER -> "granted",
                   !.got = IF FrameOf(r) \in gone THEN {} ELSE ds]
           s == SiteOf(srv[t].msg)
<1>0. Shapes /\ Selections /\ DOMAIN q = Req
  BY DEF GrantInv, Shapes
<1>1. Granted(srv[t].msg, t)
  BY DEF GrantInv, Messages
<1>2. /\ r \in Req /\ q[r].tab = t /\ q[r].brg \in {"loading", "done"}
      /\ (Here(r) => q[r].site = s)
  BY <1>1 DEF Granted, SiteOf
<1>3. IsRequest(q[r])
  BY <1>2 DEF GrantInv, Shapes
<1>4. q' = [q EXCEPT ![r] = x]
      /\ paired' = IF FrameOf(r) \in gone THEN paired ELSE grantRequestedDevices(r, ds)
  BY DEF Answer
<1>5. /\ IsRequest(x) /\ x.tab = q[r].tab /\ x.site = q[r].site /\ x.brg = "done" /\ x.sel = {}
      /\ x.got = (IF FrameOf(r) \in gone THEN {} ELSE ds)
      /\ (Here(r) => x.page # "new")
  <2>1. /\ IsRequest(x) /\ x.tab = q[r].tab /\ x.site = q[r].site /\ x.brg = "done" /\ x.sel = {}
        /\ x.got = (IF FrameOf(r) \in gone THEN {} ELSE ds)
    BY <1>3 DEF IsRequest, Fields
  <2>2. Here(r) => x.page \in {"none", "granted"}
    BY <1>3 DEF IsRequest, Fields, Here
  <2> QED BY <2>1, <2>2
<1> HIDE DEF x, s
<1>6. q'[r] = x /\ \A y \in Req \ {r} : q'[y] = q[y]
  BY <1>0, <1>2, <1>4
<1>7. Forward
  BY <1>2, <1>4, <1>5, ForwardOne DEF Granting
<1>8. CtlFrom /\ SrvFrom
  BY <1>0, CtlSame, RespondSrv
<1>9. \A u \in Tab : \A y \in dlg'[u].resolve : q'[y].brg = q[y].brg
  BY <1>0, <1>2, <1>6 DEF Selections
<1>10. Resolving'
  BY <1>0, <1>7, <1>9, ResolveSame
<1>11. /\ DOMAIN paired' = Place
       /\ \A f \in Place : /\ DOMAIN paired'[f] = {"known", "set", "asked"} /\ paired'[f].set = paired[f].set
                           /\ (paired'[f].known => paired[f].known)
       /\ (Here(r) /\ ds # {} => ~paired'[FrameOf(r)].known)
  <2>1. paired' = paired \/ paired' = Forget(FrameOf(r))
    BY <1>4 DEF grantRequestedDevices
  <2>2. Here(r) /\ ds # {} => paired' = Forget(FrameOf(r))
    BY <1>4 DEF grantRequestedDevices, Here
  <2>3. FrameOf(r) \in Place
    BY <1>0, <1>2 DEF Shapes
  <2> QED BY <1>0, <2>1, <2>2, <2>3 DEF Shapes, Forget
<1>12. Tables /\ WithTop'
  BY <1>0, <1>11, KnownIs DEF GrantInv, Tables, WithTop
<1>13. ASSUME NEW y \in Req, NEW d \in Due(y)', NEW u \in {q[y].tab}, NEW g \in {<<q[y].site, d>>},
              FrameOf(y) \notin gone', Kept(g)'
       PROVE  Has(y, d)' /\ d \in Due(y)
  <2>1. Kept(g) /\ Here(y)
    BY <1>13, KeptStep, TellOf DEF GrantInv, Here
  <2>2. q'[y].tab = q[y].tab /\ q'[y].site = q[y].site /\ FrameOf(y)' = FrameOf(y)
    BY <1>5, <1>6 DEF FrameOf
  <2>3. d \in Due(y)
    <3>1. CASE y = r
      <4>1. Due(y)' = ds
        BY <1>5, <1>6, <2>1, <3>1 DEF Due, Here
      <4>2. q[r].brg # "loading" => ds = {}
        BY <1>0, <1>2, <2>1, <3>1 DEF Selections
      <4> QED BY <1>13, <3>1, <4>1, <4>2 DEF Due
    <3>2. CASE y # r
      BY <1>6, <1>13, <3>2 DEF Due
    <3> QED BY <3>1, <3>2
  <2>4. Secure(u, g) /\ Has(y, d)
    BY <2>1, <2>3 DEF GrantInv, Secured
  <2>5. q[y].tab \in Tab /\ q[y].site \in Site /\ FrameOf(y) \in Place
    BY <1>0, TabOf, SiteIs DEF Shapes
  <2>6. q[y].tab = t /\ q[y].site = s => d \in srv[t].set
    BY <2>4, LearnGrants DEF s
  <2>7. allowed'[q[y].tab].set[q[y].site] =
          IF q[y].tab = t /\ q[y].site = s THEN srv[t].set ELSE allowed[q[y].tab].set[q[y].site]
    BY <1>0, <2>5, KnownIs DEF s
  <2>8. CASE y = r
    <3>1. d \in allowed'[q[y].tab].set[q[y].site]
      BY <1>2, <2>1, <2>6, <2>7, <2>8
    <3>2. d \in ds
      BY <1>5, <1>6, <1>13, <2>8 DEF Due
    <3> QED BY <1>11, <2>1, <2>2, <2>3, <2>8, <3>1, <3>2 DEF Has
  <2>9. CASE y # r
    <3>1. q'[y] = q[y]
      BY <1>6, <2>9
    <3>2. d \in q[y].got => d \in allowed'[q[y].tab].set[q[y].site]
      BY <2>4, <2>6, <2>7 DEF Has
    <3> QED BY <1>11, <2>2, <2>3, <2>4, <2>5, <3>1, <3>2 DEF Has
  <2> QED BY <2>3, <2>8, <2>9
<1>14. DueFrom
  BY <1>13 DEF DueFrom
<1> QED BY <1>7, <1>8, <1>10, <1>12, <1>14, GrantsKept DEF Grants

LEMMA RespondGrants == ASSUME GrantInv, [Next]_vars, NEW t \in Tab, Respond(t) PROVE GrantInv'
<1> DEFINE m == srv[t].msg
<1>0. /\ srv[t].st = "reply" /\ srv' = [srv EXCEPT ![t] = Idle] /\ UNCHANGED <<gone, store, news, dlg>>
  BY DEF Respond
<1>1. \/ UNCHANGED <<q, ctl, allowed, paired>>
      \/ /\ m.a = "pair" /\ q[m.r].brg = "pairing"
         /\ ctl' = [ctl EXCEPT ![t] = Append(@, [m EXCEPT !.a = "load"])]
         /\ q' = [q EXCEPT ![m.r].brg = "loading"] /\ UNCHANGED <<allowed, paired>>
      \/ /\ m.a = "load" /\ allowed' = Known(t, SiteOf(m), srv[t].set) /\ UNCHANGED ctl
         /\ Answer(m.r, q[m.r].sel)
      \/ /\ m.a = "ask" /\ allowed' = Known(t, SiteOf(m), srv[t].set) /\ UNCHANGED <<q, ctl, paired>>
      \/ /\ m.a = "list"
         /\ paired' = IF m.f \in gone THEN paired
                      ELSE [paired EXCEPT ![m.f] = [known |-> TRUE, asked |-> FALSE, set |-> srv[t].set]]
         /\ UNCHANGED <<q, ctl, allowed>>
  BY Zenon DEF Respond
<1>2. CASE UNCHANGED <<q, ctl, allowed, paired>>
  <2>1. SrvFrom
    BY <1>0, RespondSrv DEF GrantInv
  <2> QED BY <1>0, <1>2, <2>1, CalmGrants
<1>3. CASE /\ m.a = "pair" /\ q[m.r].brg = "pairing"
           /\ ctl' = [ctl EXCEPT ![t] = Append(@, [m EXCEPT !.a = "load"])]
           /\ q' = [q EXCEPT ![m.r].brg = "loading"] /\ UNCHANGED <<allowed, paired>>
  BY <1>0, <1>3, PairedGrants
<1>4. CASE /\ m.a = "load" /\ allowed' = Known(t, SiteOf(m), srv[t].set) /\ UNCHANGED ctl
           /\ Answer(m.r, q[m.r].sel)
  BY <1>0, <1>4, LoadedGrants
<1>5. CASE m.a = "ask" /\ allowed' = Known(t, SiteOf(m), srv[t].set) /\ UNCHANGED <<q, ctl, paired>>
  BY <1>0, <1>5, AskedGrants
<1>6. CASE /\ m.a = "list"
           /\ paired' = IF m.f \in gone THEN paired
                        ELSE [paired EXCEPT ![m.f] = [known |-> TRUE, asked |-> FALSE, set |-> srv[t].set]]
           /\ UNCHANGED <<q, ctl, allowed>>
  BY <1>0, <1>6, ListedGrants
<1> QED BY <1>1, <1>2, <1>3, <1>4, <1>5, <1>6

-----------------------------------------------------------------------------
(* The grants: the theorems *)

LEMMA InitGrants == Init => GrantInv
<1> SUFFICES ASSUME Init PROVE GrantInv
  OBVIOUS
<1>1. PICK where \in [Req -> Place], mode \in [Place -> Mode] :
        q = [r \in Req |-> [tab |-> where[r][1], site |-> where[r][2],
                            mode |-> mode[where[r]], page |-> "new", got |-> {},
                            brg |-> "idle", sel |-> {}]]
  BY DEF Init
<1>2. /\ DOMAIN q = Req
      /\ \A r \in Req : /\ IsRequest(q[r]) /\ q[r].tab = where[r][1] /\ q[r].site = where[r][2]
                        /\ q[r].got = {} /\ q[r].brg = "idle" /\ q[r].sel = {}
  BY <1>1 DEF IsRequest, Fields
<1>3. \A r \in Req : FrameOf(r) \in Place
  <2>1. ASSUME NEW r \in Req PROVE FrameOf(r) \in Place
    <3>1. where[r] \in Place /\ Place \subseteq (Nat \ {0}) \X {"top", "sub"}
      BY PickerAssumption
    <3>2. where[r] = <<where[r][1], where[r][2]>>
      BY <3>1
    <3> QED BY <1>2, <3>1, <3>2 DEF FrameOf
  <2> QED BY <2>1
<1>4. /\ gone = {} /\ store = {}
      /\ DOMAIN ctl = Tab /\ DOMAIN srv = Tab /\ DOMAIN news = Tab /\ DOMAIN allowed = Tab
      /\ DOMAIN paired = Place
      /\ \A t \in Tab : ctl[t] = <<>> /\ srv[t] = Idle /\ news[t] = <<>> /\ allowed[t] = Unloaded /\ dlg[t] = Closed
      /\ \A f \in Place : paired[f] = Unasked
      /\ DOMAIN hist = {"revoked", "failed", "revoke", "n", "lists"}
  BY DEF Init
<1>5. /\ IsSequence(<<>>) /\ Len(<<>>) = 0
      /\ DOMAIN Idle = SrvFields /\ Idle.st = "idle"
      /\ DOMAIN Unloaded = {"loaded", "set"} /\ DOMAIN Unloaded.set = Site
      /\ DOMAIN Unasked = {"known", "set", "asked"} /\ Closed.resolve = {}
  BY DEF IsSequence, Idle, SrvFields, Unloaded, Unasked, Closed
<1>6. Shapes
  BY <1>2, <1>3, <1>4, <1>5 DEF Shapes
<1>7. WithTop
  BY <1>4 DEF WithTop
<1>8. Messages
  BY <1>4, <1>5 DEF Messages
<1>9. Selections
  BY <1>2, <1>4, <1>5 DEF Selections
<1>10. Told
  BY <1>4, <1>5 DEF Told
<1>11. Storing
  BY <1>4, <1>5 DEF Storing, Pairs
<1>12. Secured
  BY <1>2 DEF Secured, Due
<1> QED BY <1>6, <1>7, <1>8, <1>9, <1>10, <1>11, <1>12 DEF GrantInv

LEMMA StepGrants == GrantInv /\ ChoiceInv /\ [Next]_vars => GrantInv'
<1> SUFFICES ASSUME GrantInv, ChoiceInv, [Next]_vars PROVE GrantInv'
  OBVIOUS
<1>1. CASE UNCHANGED vars
  BY <1>1, StillGrants
<1>2. ASSUME NEW r \in Req,
             \/ requestDevice(r) \/ showPicker(r) \/ show(r) \/ Shown(r)
             \/ pickerTimeout(r) \/ loadPending(r)
      PROVE  GrantInv'
  BY <1>2, RequestGrants, TimeoutGrants, PageGrants
<1>3. ASSUME NEW f \in Place, getDevices(f) \/ isDeviceAllowed(f) PROVE GrantInv'
  BY <1>3, ListGrants, AskGrants
<1>4. ASSUME NEW f \in Place \cup {<<t, "top">> : t \in Tab}, Leave(f) PROVE GrantInv'
  BY <1>4, LeaveGrants
<1>5. ASSUME NEW t \in Tab, Serve(t) PROVE GrantInv'
  BY <1>5, TakeGrants, NotifyGrants, RespondGrants DEF Serve
<1>6. ASSUME NEW t \in Tab, Hear(t) \/ Listed(t) \/ onClose(t) PROVE GrantInv'
  BY <1>6, HearGrants, ChooserGrants, CloseGrants
<1>7. ASSUME NEW m \in res, onPickerResult(m) PROVE GrantInv'
  BY <1>7, ResultGrants
<1>8. CASE TellRevoked
  BY <1>8, RevokeGrants
<1>9. CASE User
  BY <1>9, ChooserGrants, PageGrants, RevokeGrants DEF User
<1> QED BY <1>1, <1>2, <1>3, <1>4, <1>5, <1>6, <1>7, <1>8, <1>9 DEF Next

\* The invariant of the grants holds throughout: what a page was given is
\* stored, no message on its way to the bridge of its tab lacks it, and the
\* bridge and the page have it among the grants they know of.
THEOREM GrantInvCorrect == Spec => []GrantInv
<1>1. Spec => []ChoiceInv
  BY ChoiceInvCorrect
<1> QED BY <1>1, InitGrants, StepGrants, PTL DEF Spec

LEMMA GrantsHold == GrantInv => GrantedIsAllowed /\ GrantIsListed
<1> SUFFICES ASSUME GrantInv, NEW r \in Req, NEW d \in Lasting(r), FrameOf(r) \notin gone
             PROVE  /\ d \in allowed[q[r].tab].set[q[r].site]
                    /\ paired[FrameOf(r)].known => d \in paired[FrameOf(r)].set
  BY DEF GrantedIsAllowed, GrantIsListed
<1>1. d \in q[r].got /\ Kept(<<q[r].site, d>>) /\ d \in Due(r)
  BY DEF Lasting, Kept, Due
<1>2. Has(r, d)
  BY <1>1 DEF GrantInv, Secured, Here
<1> QED BY <1>1, <1>2 DEF Has

\* A device the page was given can be opened: the bridge of its tab has it
\* among the grants of the frame's site (allowedByOrigin), whatever the other
\* frames and tabs are granted, whatever is revoked meanwhile, and in whatever
\* order the answers and the messages of the background arrive.
THEOREM AllowedCorrect == Spec => []GrantedIsAllowed
BY GrantInvCorrect, GrantsHold, PTL

\* A page that was given a device does not go on with a list of its paired
\* devices from before (grantRequestedDevices), even when it had asked for
\* that list before the grant (getPairedDevices).
THEOREM ListedCorrect == Spec => []GrantIsListed
BY GrantInvCorrect, GrantsHold, PTL
=============================================================================
