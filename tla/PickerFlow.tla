------------------------------ MODULE PickerFlow ------------------------------
(***************************************************************************)
(* navigator.hid.requestDevice from the page to its answer: the page       *)
(* (content/main/index.js), the bridge of its tab (content/isolated/       *)
(* bridge.js) with the modal chooser (content/isolated/picker/index.js),   *)
(* the chooser in a page of the extension (internal/pages/picker/index.js) *)
(* and the background (background/messages.js, background/storage.js),     *)
(* which stores the grants and tells every tab.  The device that matches   *)
(* the filters of a request bears the name of the request.                 *)
(***************************************************************************)
EXTENDS Naturals, Sequences, FiniteSets

CONSTANTS Req,       \* calls of requestDevice
          Place,     \* frames they are made in, <<tab, site>>; the top
                     \* frame of a tab is of site "top"
          Mode,      \* "modal", or "popup" for "pageAction" and "window"
          MaxLists,  \* calls of getDevices that ask the background
          MaxRevokes \* revocations by the user, from a page of the extension

ASSUME PickerAssumption ==
  /\ Place \subseteq (Nat \ {0}) \X {"top", "sub"} /\ Mode \subseteq {"modal", "popup"}
  /\ MaxLists \in Nat /\ MaxRevokes \in Nat

VARIABLES q,       \* each request: its frame, the page's side, the bridge's
          gone,    \* frames that were destroyed
          ctl,     \* requests of each bridge on its control port
          srv,     \* the one the background serves
          store,   \* the grants stored, <<site, device>>
          news,    \* messages of the background to each tab
          allowed, \* allowedByOrigin and loadedOrigins of each bridge
          paired,  \* pairedDevices of each page
          dlg,     \* the modal chooser of each tab
          bgp,     \* pendingPicker: <<tab, request>> in insertion order
          pk,      \* the chooser page opened for each request
          res,     \* results on their way to the bridges, <<request, devices>>
          hist     \* revocations, grants that failed, calls of getDevices

vars == <<q, gone, ctl, srv, store, news, allowed, paired, dlg, bgp, pk, res, hist>>

Tab == {p[1] : p \in Place}
Site == {"top", "sub"}
Live(t) == <<t, "top">> \notin gone
FrameOf(r) == <<q[r].tab, q[r].site>>
Frames == {FrameOf(r) : r \in Req} \ gone
Unloaded == [loaded |-> {}, set |-> [s \in Site |-> {}]]
Unasked == [known |-> FALSE, set |-> {}, asked |-> FALSE]
Idle == [st |-> "idle", msg |-> [a |-> "none"], set |-> {}]
Closed == [open |-> FALSE, rv |-> "", checked |-> {}, listed |-> {}, loads |-> {},
           resolve |-> {}, closing |-> 0, filters |-> {}]

Init ==
  /\ \E where \in [Req -> Place], mode \in [Place -> Mode] :
       q = [r \in Req |-> [tab |-> where[r][1], site |-> where[r][2],
                           mode |-> mode[where[r]], page |-> "new", got |-> {},
                           brg |-> "idle", sel |-> {}]]
  /\ gone = {} /\ store = {} /\ bgp = <<>> /\ res = {}
  /\ ctl = [t \in Tab |-> <<>>] /\ srv = [t \in Tab |-> Idle] /\ news = [t \in Tab |-> <<>>]
  /\ allowed = [t \in Tab |-> Unloaded]
  /\ paired = [f \in Place |-> Unasked]
  /\ dlg = [t \in Tab |-> Closed]
  /\ pk = [r \in Req |-> [st |-> "none", req |-> {}]]
  /\ hist = [revoked |-> {}, failed |-> {}, revoke |-> <<>>, n |-> 0, lists |-> 0]

---------------------------------------------------------------------------
(* The page *)

Refuse(r) == q' = [q EXCEPT ![r].page = "none", ![r].brg = "done"]

(* requestDeviceImpl: bad options, the policy or a missing user gesture    *)
(* refuse the call; else it waits for the bridge without a limit.          *)
requestDevice(r) ==
  /\ q[r].page = "new" /\ FrameOf(r) \notin gone
  /\ \/ Refuse(r)
     \/ q' = [q EXCEPT ![r].page = "asked", ![r].brg = "settings"]
  /\ UNCHANGED <<gone, ctl, srv, store, news, allowed, paired, dlg, bgp, pk, res, hist>>

(* getPairedDevices: what the page knows is not asked for again. *)
getDevices(f) ==
  /\ f \in Frames /\ ~paired[f].known /\ ~paired[f].asked
  /\ hist.lists < MaxLists /\ hist' = [hist EXCEPT !.lists = @ + 1]
  /\ paired' = [paired EXCEPT ![f].asked = TRUE]
  /\ ctl' = [ctl EXCEPT ![f[1]] = Append(@, [a |-> "list", f |-> f])]
  /\ UNCHANGED <<q, gone, srv, store, news, allowed, dlg, bgp, pk, res>>

Forget(f) == [paired EXCEPT ![f].known = FALSE]

(* Faulty variant: the page goes on with the list it has. *)
MutKeepList(r, ds) == paired

(* grantRequestedDevices *)
grantRequestedDevices(r, ds) == IF ds = {} THEN paired ELSE Forget(FrameOf(r))

---------------------------------------------------------------------------
(* The bridge *)

(* replyToPage: a destroyed frame has no port for it. *)
Answer(r, ds) ==
  /\ q' = [q EXCEPT ![r].brg = "done", ![r].sel = {},
                    ![r].page = CASE FrameOf(r) \in gone -> @
                                  [] FrameOf(r) \notin gone /\ ds = {} -> "none"
                                  [] OTHER -> "granted",
                    ![r].got = IF FrameOf(r) \in gone THEN {} ELSE ds]
  /\ paired' = IF FrameOf(r) \in gone THEN paired ELSE grantRequestedDevices(r, ds)

(* getRequestOrigin *)
RequestOrigin(r) == IF FrameOf(r) \in gone THEN "top" ELSE q[r].site

Pair(r, ds) == [a |-> "pair", r |-> r, site |-> RequestOrigin(r), ds |-> ds]

(* grantSelectedDevices, up to its first await *)
grantSelectedDevices(r, ds) ==
  /\ q' = [q EXCEPT ![r].brg = "pairing", ![r].sel = ds]
  /\ ctl' = [ctl EXCEPT ![q[r].tab] = Append(@, Pair(r, ds))]
  /\ UNCHANGED paired

Settle(r, ds) == IF ds = {} THEN Answer(r, ds) /\ UNCHANGED ctl ELSE grantSelectedDevices(r, ds)

(* handleRequestDeviceRequest with a chooser page: the listener and the    *)
(* timer are set before the background hears of it.                        *)
showPicker(r) ==
  /\ Live(q[r].tab) /\ q[r].brg = "settings" /\ q[r].mode = "popup"
  /\ q' = [q EXCEPT ![r].brg = "waiting"]
  /\ ctl' = [ctl EXCEPT ![q[r].tab] = Append(@, [a |-> "show", r |-> r])]
  /\ UNCHANGED <<gone, srv, store, news, allowed, paired, dlg, bgp, pk, res, hist>>

pickerTimeout(r) ==
  /\ Live(q[r].tab) /\ q[r].brg = "waiting" /\ Answer(r, {})
  /\ ctl' = [ctl EXCEPT ![q[r].tab] = Append(@, [a |-> "cancel", r |-> r])]
  /\ UNCHANGED <<gone, srv, store, news, allowed, dlg, bgp, pk, res, hist>>

(* Faulty variant: a request's listener answers to any result for its tab. *)
MutAnyResult(r) == {x \in Req : q[x].tab = q[r].tab}

(* The listener of a request answers to the result with its id. *)
Listeners(r) == {x \in Req : x = r}

onPickerResult(m) ==
  /\ m \in res /\ res' = res \ {m}
  /\ LET hears == {r \in Listeners(m[1]) : Live(q[r].tab) /\ q[r].brg = "waiting"}
     IN  IF hears = {} THEN UNCHANGED <<q, ctl, paired>>
         ELSE \E r \in hears : Settle(r, m[2])
  /\ UNCHANGED <<gone, srv, store, news, allowed, dlg, bgp, pk, hist>>

(* isDeviceAllowed: the first question about a site loads its grants. *)
isDeviceAllowed(f) ==
  LET t == f[1]
      loads(m) == m.a = "ask" /\ m.f[2] = f[2]
  IN  /\ f \in Frames /\ f[2] \notin allowed[t].loaded
      /\ ~loads(srv[t].msg) /\ \A i \in DOMAIN ctl[t] : ~loads(ctl[t][i])
      /\ ctl' = [ctl EXCEPT ![t] = Append(@, [a |-> "ask", f |-> f])]
      /\ UNCHANGED <<q, gone, srv, store, news, allowed, paired, dlg, bgp, pk, res, hist>>

Known(t, s, ds) == [allowed EXCEPT ![t].loaded = @ \cup {s}, ![t].set[s] = ds]

(* destroyFrameContext of a frame: what it has asked for goes on, its      *)
(* answer is lost.  The bridge ends with its top frame, but for what it    *)
(* has sent already.                                                       *)
Ended(r, f) == FrameOf(r) = f \/ (f[2] = "top" /\ q[r].tab = f[1])
Leave(f) ==
  /\ \/ f \in Frames
     \/ f[2] = "top" /\ f \notin gone /\ \E r \in Req : q[r].tab = f[1]
  /\ gone' = gone \cup {f} \cup {g \in Place : f[2] = "top" /\ g[1] = f[1]}
  /\ paired' = [g \in Place |-> IF g \in gone' THEN Unasked ELSE paired[g]]
  /\ q' = [r \in Req |->
            IF ~Ended(r, f) THEN q[r]
            ELSE [q[r] EXCEPT !.page = "left", !.got = {},
                    !.brg = IF f[2] = "top" \/ @ = "idle" THEN "done" ELSE @,
                    !.sel = IF f[2] = "top" THEN {} ELSE @]]
  /\ IF f[2] = "top"
       THEN /\ ctl' = [ctl EXCEPT ![f[1]] = IF @ # <<>> /\ srv[f[1]] = Idle THEN <<Head(@)>> ELSE <<>>]
            /\ allowed' = [allowed EXCEPT ![f[1]] = Unloaded] /\ dlg' = [dlg EXCEPT ![f[1]] = Closed]
       ELSE UNCHANGED <<ctl, allowed, dlg>>
  /\ UNCHANGED <<srv, store, news, bgp, pk, res, hist>>

---------------------------------------------------------------------------
(* The modal chooser (WebHidDevicePicker), one for all frames of a tab *)

Dialog(t, d) ==
  /\ Live(t) /\ dlg' = [dlg EXCEPT ![t] = d]
  /\ UNCHANGED <<gone, srv, store, news, allowed, bgp, pk, res>>

(* close(): the event follows as a task; returnValue stays what it was *)
Close(d) == [d EXCEPT !.open = FALSE, !.closing = @ + 1]

(* show, up to the next frame of the screen *)
show(r) ==
  /\ q[r].brg = "settings" /\ q[r].mode = "modal"
  /\ q' = [q EXCEPT ![r].brg = "frame"]
  /\ LET d == dlg[q[r].tab]
     IN  Dialog(q[r].tab, [(IF d.open THEN Close(d) ELSE d) EXCEPT !.filters = {r}])
  /\ UNCHANGED <<ctl, paired, hist>>

(* The rest of show; a dialog that is open already stays as it is. *)
Shown(r) ==
  /\ q[r].brg = "frame" /\ q' = [q EXCEPT ![r].brg = "modal"]
  /\ LET d == dlg[q[r].tab]
     IN  Dialog(q[r].tab, [d EXCEPT !.open = TRUE, !.loads = @ \cup d.filters, !.resolve = {r}])
  /\ UNCHANGED <<ctl, paired, hist>>

(* loadDevices and renderDevices; the list before stays until then *)
Listed(t) ==
  \E r \in dlg[t].loads :
    /\ Dialog(t, [dlg[t] EXCEPT !.loads = @ \ {r}, !.listed = {r}, !.checked = {}])
    /\ UNCHANGED <<q, ctl, paired, hist>>

Check(t) ==
  /\ dlg[t].open /\ dlg[t].checked # dlg[t].listed
  /\ Dialog(t, [dlg[t] EXCEPT !.checked = @ \cup dlg[t].listed])
  /\ UNCHANGED <<q, ctl, paired, hist>>

(* The buttons submit the form with their value; Escape and a click beside *)
(* the form close the dialog without one.                                  *)
Connect(t) ==
  /\ dlg[t].open /\ dlg[t].checked # {}
  /\ Dialog(t, [Close(dlg[t]) EXCEPT !.rv = "selected"])
  /\ UNCHANGED <<q, ctl, paired, hist>>

Dismiss(t) ==
  /\ dlg[t].open
  /\ \E rv \in {"cancel", dlg[t].rv} : Dialog(t, [Close(dlg[t]) EXCEPT !.rv = rv])
  /\ UNCHANGED <<q, ctl, paired, hist>>

(* onDeviceSelected and onDeviceCancelled *)
Resolve(t, ds) ==
  IF dlg[t].resolve = {} THEN UNCHANGED <<q, ctl, paired>>
  ELSE \E r \in dlg[t].resolve : Settle(r, ds)

(* The close event *)
onClose(t) ==
  LET d == dlg[t]
      chosen == IF d.rv = "selected" THEN d.checked ELSE {}
  IN  /\ d.closing > 0
      /\ Dialog(t, [d EXCEPT !.closing = @ - 1, !.resolve = {}])
      /\ Resolve(t, chosen) /\ UNCHANGED hist

---------------------------------------------------------------------------
(* The chooser page *)

Page(r, p) == pk' = [pk EXCEPT ![r] = p]

(* getPendingPicker: the first of the pending requests, of whatever tab *)
loadPending(r) ==
  /\ pk[r].st = "opening"
  /\ Page(r, [st |-> "shown", req |-> IF bgp = <<>> THEN {} ELSE {bgp[1][2]}])
  /\ UNCHANGED <<q, gone, ctl, srv, store, news, allowed, paired, dlg, bgp, res, hist>>

(* handlePickerResult, called with what the page shows; a result nobody    *)
(* listens for is lost.                                                    *)
handlePickerResult(x, ds) ==
  /\ bgp' = SelectSeq(bgp, LAMBDA e : e[1] # q[x].tab)
  /\ res' = IF \E r \in Listeners(x) : q[r].brg = "waiting" THEN res \cup {<<x, ds>>} ELSE res

(* Connect, with the device of the list *)
Choose(r) ==
  /\ pk[r].st = "shown" /\ Page(r, [pk[r] EXCEPT !.st = "closing"])
  /\ \E x \in pk[r].req : handlePickerResult(x, {x})
  /\ UNCHANGED <<q, gone, ctl, srv, store, news, allowed, paired, dlg, hist>>

(* Cancel, the window's close button, or the end of the window after       *)
(* Connect: removed by the background before the page forgot its request,  *)
(* it reports a second result.                                             *)
Unload(r) ==
  /\ pk[r].st \in {"shown", "closing"} /\ Page(r, [pk[r] EXCEPT !.st = "closed"])
  /\ \/ (pk[r].st = "closing" \/ pk[r].req = {}) /\ UNCHANGED <<bgp, res>>
     \/ \E x \in pk[r].req : handlePickerResult(x, {})
  /\ UNCHANGED <<q, gone, ctl, srv, store, news, allowed, paired, dlg, hist>>

---------------------------------------------------------------------------
(* The background *)

getAllowedDevices(s) == {g[2] : g \in {x \in store : x[1] = s}}

Take(t, answer) ==
  /\ srv' = [srv EXCEPT ![t] = answer] /\ ctl' = [ctl EXCEPT ![t] = Tail(@)]
  /\ UNCHANGED <<q, gone, news, allowed, paired, dlg, res>>
AtHead(t, a) == srv[t].st = "idle" /\ ctl[t] # <<>> /\ Head(ctl[t]).a = a

(* openPickerWindow, openPickerPageAction *)
Opening == [st |-> "opening", req |-> {}]

SetPending(t, r) ==
  IF \E i \in DOMAIN bgp : bgp[i][1] = t
    THEN [i \in DOMAIN bgp |-> IF bgp[i][1] = t THEN <<t, r>> ELSE bgp[i]]
    ELSE Append(bgp, <<t, r>>)

handleShowPicker(t) ==
  /\ AtHead(t, "show") /\ Take(t, Idle)
  /\ LET r == Head(ctl[t]).r
     IN  /\ bgp' = SetPending(t, r)
         /\ Page(r, Opening)
  /\ UNCHANGED <<store, hist>>

handleCancelPicker(t) ==
  /\ AtHead(t, "cancel") /\ Take(t, Idle)
  /\ bgp' = SelectSeq(bgp, LAMBDA e : e # <<t, Head(ctl[t]).r>>)
  /\ UNCHANGED <<store, pk, hist>>

(* handleGetPairedDevices, handleGetAllowedDevices *)
SiteOf(m) == IF m.a \in {"pair", "load"} THEN m.site ELSE m.f[2]
ReadGrants(t) ==
  /\ \E a \in {"list", "ask", "load"} : AtHead(t, a)
  /\ Take(t, [st |-> "reply", msg |-> Head(ctl[t]), set |-> getAllowedDevices(SiteOf(Head(ctl[t])))])
  /\ UNCHANGED <<store, bgp, pk, hist>>

(* handlePairDevice: the grant is stored, or the database fails; every tab *)
(* is told what is stored then, one after the other; then the answer.      *)
addAllowedDevice(t) ==
  /\ AtHead(t, "pair")
  /\ LET m == Head(ctl[t])
         new == {m.site} \X m.ds
     IN  \/ /\ store' = store \cup new /\ UNCHANGED hist
            /\ Take(t, [st |-> "added", msg |-> m, set |-> {}])
         \/ /\ hist' = [hist EXCEPT !.failed = @ \cup new] /\ UNCHANGED store
            /\ Take(t, [st |-> "reply", msg |-> m, set |-> {}])
  /\ UNCHANGED <<bgp, pk>>

First == CHOOSE t \in Tab : \A u \in Tab : t <= u
(* Faulty variant: the tabs are told of the new device only. *)
MutNewOnly(s, by, revoked) ==
  [site |-> s, by |-> by, revoked |-> revoked,
   set |-> IF revoked THEN getAllowedDevices(s) ELSE srv[by].msg.ds]

Note(s, by, revoked) == [site |-> s, set |-> getAllowedDevices(s), by |-> by, revoked |-> revoked]
notifyAllowedDevicesChanged(t) ==
  /\ srv[t].st = "added" /\ srv' = [srv EXCEPT ![t].st = "notify"]
  /\ news' = [news EXCEPT ![First] = Append(@, Note(SiteOf(srv[t].msg), t, FALSE))]
  /\ UNCHANGED <<q, gone, ctl, store, allowed, paired, dlg, bgp, pk, res, hist>>

(* A tab hears of it; the next tab is told when this one has. *)
Hear(t) ==
  /\ news[t] # <<>>
  /\ LET m == Head(news[t])
         rest == {u \in Tab : u > t}
         next == CHOOSE u \in rest : \A v \in rest : u <= v
         heard == [news EXCEPT ![t] = Tail(@)]
     IN  /\ allowed' = IF Live(t) THEN Known(t, m.site, m.set) ELSE allowed
         /\ paired' = IF m.revoked /\ <<t, m.site>> \in Place THEN Forget(<<t, m.site>>)
                      ELSE paired
         /\ news' = IF m.by = 0 \/ rest = {} THEN heard
                    ELSE [heard EXCEPT ![next] = Append(@, m)]
         /\ srv' = IF m.by # 0 /\ rest = {} THEN [srv EXCEPT ![m.by].st = "reply"] ELSE srv
  /\ UNCHANGED <<q, gone, ctl, store, dlg, bgp, pk, res, hist>>

(* The answer reaches the bridge: loadAllowedDeviceIds,                    *)
(* grantSelectedDevices after its awaits, or the page's list.              *)
Respond(t) ==
  LET m == srv[t].msg
  IN  /\ srv[t].st = "reply" /\ srv' = [srv EXCEPT ![t] = Idle]
      /\ IF ~Live(t) THEN UNCHANGED <<q, ctl, allowed, paired>>
         ELSE CASE m.a = "pair" /\ q[m.r].brg = "pairing" ->
                     /\ ctl' = [ctl EXCEPT ![t] = Append(@, [m EXCEPT !.a = "load"])]
                     /\ q' = [q EXCEPT ![m.r].brg = "loading"] /\ UNCHANGED <<allowed, paired>>
                [] m.a = "load" ->
                     /\ allowed' = Known(t, SiteOf(m), srv[t].set) /\ UNCHANGED ctl
                     /\ Answer(m.r, q[m.r].sel)
                [] m.a = "ask" ->
                     /\ allowed' = Known(t, SiteOf(m), srv[t].set) /\ UNCHANGED <<q, ctl, paired>>
                [] m.a = "list" ->
                     /\ paired' = IF m.f \in gone THEN paired
                                  ELSE [paired EXCEPT ![m.f] = [known |-> TRUE, asked |-> FALSE,
                                                                set |-> srv[t].set]]
                     /\ UNCHANGED <<q, ctl, allowed>>
                [] OTHER -> UNCHANGED <<q, ctl, allowed, paired>>
      /\ UNCHANGED <<gone, store, news, dlg, bgp, pk, res, hist>>

(* revokeDevices, called by a page of the extension: the grant goes, then  *)
(* the tabs are told, none of them waited for.                             *)
Revoke(g) ==
  /\ g \in store /\ hist.revoke = <<>> /\ hist.n < MaxRevokes
  /\ store' = store \ {g}
  /\ hist' = [hist EXCEPT !.revoked = @ \cup {g}, !.revoke = g, !.n = @ + 1]
  /\ UNCHANGED <<q, gone, ctl, srv, news, allowed, paired, dlg, bgp, pk, res>>

TellRevoked ==
  /\ hist.revoke # <<>> /\ hist' = [hist EXCEPT !.revoke = <<>>]
  /\ news' = [t \in Tab |-> Append(news[t], Note(hist.revoke[1], 0, TRUE))]
  /\ UNCHANGED <<q, gone, ctl, srv, store, allowed, paired, dlg, bgp, pk, res>>

---------------------------------------------------------------------------
Serve(t) ==
  \/ handleShowPicker(t) \/ handleCancelPicker(t) \/ ReadGrants(t) \/ addAllowedDevice(t)
  \/ notifyAllowedDevicesChanged(t) \/ Respond(t)

User ==
  \/ \E t \in Tab : Check(t) \/ Connect(t) \/ Dismiss(t)
  \/ \E r \in Req : Choose(r) \/ Unload(r)
  \/ \E g \in store : Revoke(g)

Next ==
  \/ \E r \in Req : \/ requestDevice(r) \/ showPicker(r) \/ show(r) \/ Shown(r)
                    \/ pickerTimeout(r) \/ loadPending(r)
  \/ \E f \in Place : getDevices(f) \/ isDeviceAllowed(f)
  \/ \E f \in Place \cup {<<t, "top">> : t \in Tab} : Leave(f)
  \/ \E t \in Tab : Serve(t) \/ Hear(t) \/ Listed(t) \/ onClose(t)
  \/ \E m \in res : onPickerResult(m)
  \/ TellRevoked \/ User

Spec == Init /\ [][Next]_vars

---------------------------------------------------------------------------

(* A request with a chooser page is answered with the device of its own    *)
(* list, whichever request a chooser page came to show and however many    *)
(* results came for the tab.                                               *)
AnsweredByOwnChoice ==
  \A r \in Req : q[r].mode = "popup" /\ q[r].got # {} => q[r].got = {r}

Lasting(r) ==
  {d \in q[r].got : <<q[r].site, d>> \notin hist.revoked \cup hist.failed}

(* A device the page was given can be opened: its bridge has it among the  *)
(* site's grants, whatever other tabs grant and revoke meanwhile.          *)
GrantedIsAllowed ==
  \A r \in Req : FrameOf(r) \notin gone => Lasting(r) \subseteq allowed[q[r].tab].set[q[r].site]

(* ... and the page that was given it does not go on with a list of its    *)
(* paired devices from before.                                             *)
GrantIsListed ==
  \A r \in Req : paired[FrameOf(r)].known /\ FrameOf(r) \notin gone =>
                   Lasting(r) \subseteq paired[FrameOf(r)].set
=============================================================================
