-------------------------------- MODULE Panel --------------------------------
(***************************************************************************)
(* The management page: the socket and the routes of management/index.ts,  *)
(* and the page itself, html/panel.js.  The server sends what has changed  *)
(* to every page; a page that loses its socket opens another one 5 s later *)
(* and is given everything at once.                                        *)
(*                                                                         *)
(* An action is one callback of the server, with all it broadcasts, or one *)
(* of the page.  The socket keeps the order of messages; the answer to a   *)
(* request comes over another connection and may overtake them, or come    *)
(* late.                                                                   *)
(***************************************************************************)
EXTENDS Naturals, Sequences, FiniteSets

CONSTANTS
  Ids,       \* the appliances
  Calls,     \* requests of the page that may be under way at once
  None,
  MaxQueue   \* messages under way beyond which nobody does anything

\* A request of the page and how far it is; "row" says that its row is still there.
Stages == {"sent", "registering", "answered"}
Requests == [id : Ids, op : {"enable", "disable"}, stage : Stages, row : BOOLEAN]

\* The dialog for the type of an appliance, and whether its row is still there.
Dialogs == [id : Ids, row : BOOLEAN]

ASSUME PanelAssumption == None \notin Requests \cup Dialogs

VARIABLES
  \* the server
  allDevices,   \* DeviceManager.allDevices
  bridged,      \* Bridge.bridgedDevices
  loggedIn,     \* Bridge.isLoggedIn
  \* between the two
  ws,           \* the socket: none, open, broken
  queue,        \* messages on it
  request,      \* the requests under way, and how far they are
  \* the page
  rows,         \* appliances in the table
  remote,       \* remoteState.bridged of each row
  bridgeStatus, \* bridge_status
  checked,      \* the switch of each row is on
  bridgeBusy,   \* bridgeBusy of each row
  spinner,      \* the row shows the spinner instead of its switch
  typed,        \* appliances whose metadata tell their type
  dialog,       \* devicetype_query, when it is open
  undecided     \* rows put on for whose type the dialog asked, not drawn since

server == <<allDevices, bridged, loggedIn>>
page == <<rows, remote, bridgeStatus, checked, bridgeBusy, spinner, typed, dialog, undecided>>
vars == <<server, ws, queue, request, page>>

Init ==
  /\ allDevices = {} /\ bridged = {} /\ loggedIn \in BOOLEAN
  /\ ws = "none" /\ queue = <<>>
  /\ request = [k \in Calls |-> None]
  /\ rows = {} /\ remote = {} /\ checked = {} /\ bridgeBusy = {} /\ spinner = {}
  /\ bridgeStatus = FALSE
  /\ typed \in SUBSET Ids /\ dialog = None /\ undecided = {}

-----------------------------------------------------------------------------
(* The server.                                                             *)

\* What the messages say; enumDevices looks at the maps as they are when sent.
Devices(all, br) == [kind |-> "devices", all |-> all, bridged |-> br \cap all]
BridgeStatus(in) == [kind |-> "bridge", loggedIn |-> in]

Broadcast(ms) == queue' = IF ws = "open" THEN queue \o ms ELSE queue
Calm == Len(queue) <= MaxQueue

\* The manager's event reaches the bridge and then the page's listener: an appliance
\* that is registered and not suspended is started and told, then all is told again.
NewDevice(i) ==
  /\ Calm
  /\ allDevices' = allDevices \cup {i}
  /\ \/ /\ bridged' = bridged \cup {i}
        /\ Broadcast(<<Devices(allDevices', bridged'), Devices(allDevices', bridged')>>)
     \/ /\ bridged' = bridged
        /\ Broadcast(<<Devices(allDevices', bridged')>>)
  /\ UNCHANGED <<loggedIn, ws, request, page>>

DropDevice(i) ==
  /\ Calm /\ i \in allDevices
  /\ allDevices' = allDevices \ {i}
  /\ bridged' = bridged \ {i}
  /\ LET m == Devices(allDevices', bridged') IN
     Broadcast(IF i \in bridged THEN <<m, m>> ELSE <<m>>)
  /\ UNCHANGED <<loggedIn, ws, request, page>>

Stopped_XBeforeDelete(i) == IF i \in bridged THEN <<Devices(allDevices, bridged)>> ELSE <<>>

\* What #stop makes the listener of 'stopped' send.
Stopped(i) == IF i \in bridged THEN <<Devices(allDevices, bridged \ {i})>> ELSE <<>>

\* The switch in Home Assistant stops a bridge, and starts one that is registered.
Suspend(i) ==
  /\ Calm /\ i \in bridged
  /\ bridged' = bridged \ {i}
  /\ Broadcast(Stopped(i))
  /\ UNCHANGED <<allDevices, loggedIn, ws, request, page>>

Resume(i) ==
  /\ Calm /\ i \in allDevices \ bridged
  /\ bridged' = bridged \cup {i}
  /\ Broadcast(<<Devices(allDevices, bridged')>>)
  /\ UNCHANGED <<allDevices, loggedIn, ws, request, page>>

Login ==
  /\ Calm
  /\ loggedIn' = ~loggedIn
  /\ Broadcast(<<BridgeStatus(loggedIn')>>)
  /\ UNCHANGED <<allDevices, bridged, ws, request, page>>

Request(i, op, stage) == [id |-> i, op |-> op, stage |-> stage, row |-> TRUE]
Now(k, stage) == [request EXCEPT ![k].stage = stage]
At(k, stage) == request[k] # None /\ request[k].stage = stage

\* enable(): the early returns answer at once, otherwise register() is awaited.
EnableBegins(k) ==
  /\ At(k, "sent") /\ request[k].op = "enable"
  /\ LET i == request[k].id IN
     request' = IF loggedIn /\ i \notin bridged /\ i \in allDevices
                THEN Now(k, "registering") ELSE Now(k, "answered")
  /\ UNCHANGED <<server, ws, queue, page>>

\* What follows the await does not look at the appliance again.
EnableEnds(k) ==
  /\ Calm /\ At(k, "registering")
  /\ request' = Now(k, "answered")
  /\ \/ /\ bridged' = bridged \cup {request[k].id}
        /\ Broadcast(<<Devices(allDevices, bridged')>>)
     \/ UNCHANGED <<bridged, queue>>
  /\ UNCHANGED <<allDevices, loggedIn, ws, page>>

Disable(k) ==
  /\ Calm /\ At(k, "sent") /\ request[k].op = "disable"
  /\ LET i == request[k].id IN
     /\ bridged' = bridged \ {i}
     /\ Broadcast(Stopped(i))
  /\ request' = Now(k, "answered")
  /\ UNCHANGED <<allDevices, loggedIn, ws, page>>

-----------------------------------------------------------------------------
(* The socket.                                                             *)

\* The handler of /ws: the parts of the first message, which the page takes
\* in this order.
Snapshot ==
  <<Devices(allDevices, bridged), BridgeStatus(loggedIn)>>

Connect ==
  /\ ws = "none"
  /\ ws' = "open"
  /\ queue' = Snapshot
  /\ UNCHANGED <<server, request, page>>

Break ==
  /\ ws = "open"
  /\ ws' = "broken"
  /\ UNCHANGED <<server, queue, request, page>>

\* onclose: what had not arrived is lost, the table stays.
Closed ==
  /\ ws = "broken"
  /\ ws' = "none"
  /\ queue' = <<>>
  /\ UNCHANGED <<server, request, page>>

-----------------------------------------------------------------------------
(* The page.                                                               *)

\* What a request or the dialog knows of its row, when the table becomes that of all.
Kept(x, all) == IF x # None /\ x.id \notin all THEN [x EXCEPT !.row = FALSE] ELSE x

\* updateDom makes the row anew: the switch off and visible.
UpdateDom(m) ==
  /\ rows' = m.all
  /\ remote' = m.bridged
  /\ checked' = {} /\ spinner' = {} /\ undecided' = {}
  /\ bridgeBusy' = bridgeBusy \cap m.all
  /\ request' = [k \in Calls |-> Kept(request[k], m.all)]
  /\ dialog' = Kept(dialog, m.all)
  /\ UNCHANGED bridgeStatus

\* refreshUI of the rows ids: a busy row shows the spinner and leaves its switch.
Shown(ids, ch, busy) == (ch \ (ids \ busy)) \cup ((ids \ busy) \cap remote)

RefreshUI(ids, ch, busy) ==
  /\ checked' = Shown(ids, ch, busy)
  /\ spinner' = (spinner \ ids) \cup (ids \cap busy)
  /\ undecided' = undecided \ (ids \ busy)
  /\ bridgeBusy' = busy

Receive ==
  /\ ws = "open" /\ queue # <<>>
  /\ queue' = Tail(queue)
  /\ LET m == Head(queue) IN
     CASE m.kind = "devices" -> UpdateDom(m)
       [] m.kind = "bridge" -> /\ bridgeStatus' = m.loggedIn
                               /\ RefreshUI(rows, checked, bridgeBusy)
                               /\ UNCHANGED <<rows, remote, request, dialog>>
  /\ UNCHANGED <<server, ws, typed>>

Send(r) == \E k \in Calls : request[k] = None /\ request' = [request EXCEPT ![k] = r]

\* startBridge and stopBridge, from the row's present DeviceEntry.
Start(i, op, ch) ==
  /\ Send(Request(i, op, "sent"))
  /\ RefreshUI({i}, ch, bridgeBusy \cup {i})

\* onchange of a visible switch that no dialog covers.
SwitchOff(i) ==
  /\ i \in checked
  /\ Start(i, "disable", checked \ {i})
  /\ UNCHANGED dialog

SwitchOn(i) ==
  /\ i \in typed \ checked
  /\ Start(i, "enable", checked \cup {i})
  /\ UNCHANGED dialog

\* Without a type the switch is on, and nothing is sent before the dialog's answer.
AskType(i) ==
  /\ i \notin typed \cup checked
  /\ checked' = checked \cup {i} /\ undecided' = undecided \cup {i}
  /\ dialog' = [id |-> i, row |-> TRUE]
  /\ UNCHANGED <<request, bridgeBusy, spinner>>

Toggle(i) ==
  /\ dialog = None /\ i \in rows \ spinner
  /\ SwitchOff(i) \/ SwitchOn(i) \/ AskType(i)
  /\ UNCHANGED <<server, ws, queue, rows, remote, bridgeStatus, typed>>

\* btn_devicetype_continue: its onclick is that of the DeviceEntry that asked, which
\* may have left the table.
DialogContinues ==
  /\ dialog # None /\ dialog' = None
  /\ IF dialog.row
     THEN Start(dialog.id, "enable", checked)
     ELSE /\ Send([Request(dialog.id, "enable", "sent") EXCEPT !.row = FALSE])
          /\ UNCHANGED <<checked, undecided, bridgeBusy, spinner>>
  /\ UNCHANGED <<server, ws, queue, rows, remote, bridgeStatus, typed>>

\* The dialog is closed without an answer, and the switch is left as it is.
DialogDismissed ==
  /\ dialog # None /\ dialog' = None
  /\ UNCHANGED <<server, ws, queue, request, rows, remote, bridgeStatus, checked, bridgeBusy,
                 spinner, typed, undecided>>

Answered_XNoRefresh(k) ==
  /\ At(k, "answered")
  /\ request' = [request EXCEPT ![k] = None]
  /\ bridgeBusy' = IF request[k].row THEN bridgeBusy \ {request[k].id} ELSE bridgeBusy
  /\ UNCHANGED <<server, ws, queue, rows, remote, bridgeStatus, checked, spinner,
                 typed, dialog, undecided>>

\* The answer: the row is busy no longer, if it is still in the table.
Answered(k) ==
  /\ At(k, "answered")
  /\ request' = [request EXCEPT ![k] = None]
  /\ IF request[k].row
     THEN RefreshUI({request[k].id}, checked, bridgeBusy \ {request[k].id})
     ELSE UNCHANGED <<checked, spinner, bridgeBusy, undecided>>
  /\ UNCHANGED <<server, ws, queue, rows, remote, bridgeStatus, typed, dialog>>

Next ==
  \/ \E i \in Ids : NewDevice(i) \/ DropDevice(i) \/ Suspend(i) \/ Resume(i) \/ Toggle(i)
  \/ \E k \in Calls : EnableBegins(k) \/ EnableEnds(k) \/ Disable(k) \/ Answered(k)
  \/ Login \/ Connect \/ Break \/ Closed \/ Receive \/ DialogContinues \/ DialogDismissed

Spec == Init /\ [][Next]_vars

-----------------------------------------------------------------------------
(* Properties.                                                             *)

Settled == ws = "open" /\ queue = <<>>

\* A page that has handled everything sent shows the server's state, although each
\* message is a picture taken in the middle of some callback: 'stopped' is emitted
\* after the entry is deleted, the manager's map is changed before its events, and
\* nothing changes without a broadcast (management/index.ts).
PageAgrees ==
  Settled => /\ rows = allDevices
             /\ remote = bridged \cap allDevices
             /\ bridgeStatus = loggedIn

Pending(i) == \E k \in Calls : request[k] # None /\ request[k].id = i

\* A page that has handled everything sent shows a switch on for an appliance that is
\* not bridged in one case only: its user was asked for the type, has dismissed the
\* dialog or not answered yet, and nothing has drawn the row since (onchange leaves the
\* switch on and sends nothing).  Whatever answers came first, no other row does so, and
\* none that has a type.  (The converse does not hold: a row made anew shows its switch
\* off until the next message about the bridge.)
SwitchOnIsBridged ==
  /\ Settled => \A i \in checked \ (spinner \cup undecided) : i \in bridged
  /\ undecided \cap typed = {}

\* A row that shows the spinner waits for an answer: no order of messages and
\* answers, and no row that goes and comes back, leaves it busy for good.
SpinnerIsAwaited == \A i \in rows \cap (bridgeBusy \cup spinner) : Pending(i)

\* A switch that is on has its bridge or no type yet, and a row that spins an answer
\* to come.
RowsAreTrue == SwitchOnIsBridged /\ SpinnerIsAwaited
=============================================================================
