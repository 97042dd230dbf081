# A verification of rethink LAN

`rethink LAN` is a Home Assistant add-on that plays the part of LG's cloud for
LG appliances on the local network. The code is TypeScript on Node under
`src/rethink_lan/app/` (paths below are relative to it). This directory holds
TLA+ models of the parts whose correctness depends on the order of events, the
configurations that check them with TLC, and proofs checked by TLAPS.

## 1. Inventory

Everything runs in one Node process: a callback is never interrupted, and all
interleaving is between callbacks, timers, sockets and the continuations of an
`await`. That is the grain of every model: **one action is one whole
callback**, or the part of an async function between two awaits.

| Component | State | Operations and interaction | What is hard |
|---|---|---|---|
| Sessions: `cloud/thinq1/{connection,device,http}.ts`, `cloud/thinq2/device.ts`, `cloud/devmgr.ts` | sockets and broker clients, `byId` of each acceptor, `allDevices` | an appliance connects, is provisioned, becomes a `Device`; the manager emits `newDevice` and `dropDevice` to the HA side and to the LG bridge | a replaced ThinQ1 socket emits `close` long after its successor took over; ThinQ2 tears down in the same callback without an identity check; an appliance that loses power sends no FIN |
| Appliance broker: `cloud/mqtt-broker.ts` | clients, subscriptions, wills, retained messages | connect, publish, subscribe, unsubscribe, destroy; the ThinQ2 acceptor listens to it | destroying a client publishes its will inside whatever publication destroyed it |
| HA side: `cloud/ha_bridge.ts`, `cloud/homeassistant.ts`, `cloud/devices/{base,aabb_device}.ts` | one handler per appliance, its cache of values, `publishedAvailability`, retained topics | creates, replaces and drops handlers; publishes; cleans up an earlier run's `online` | `offline` of the old handler and `online` of the new share one retained topic; messages lost with a connection; the will of a connection that is already replaced |
| LG bridge: `bridge/{index,state,thinq1connection,thinq2connection}.ts`, switch in `rethink-cloud.ts` | three files, the map of `BridgedDevice`s, their upstream connection and timer | attach, suspend, resume, enable, disable, reconnect | `enable()` awaits the LG API for seconds while anything else runs; connections close late; files are rewritten in place |
| LG API client: `bridge/{thinqApi,oauth2,util}.ts` | tokens, the cached gateway | sign-in; registration in up to 14 steps | an attempt that failed may have acted; the process may die between two steps; a child that never ends |
| Management page: `management/index.ts`, `html/{panel,monitor}.js` | sockets, monitors' listeners; the page's rows | broadcasts of the state, HTTP requests, packets of an appliance | answers overtake messages; the Device object a monitor listens to is replaced |
| RC90U2 dryer: `cloud/devices/RC90U2_WW.ts` (the largest handler and the purpose of the fork) | what the last record said, the selection shown in HA, the downloaded cycle, timers | user at the panel, user in HA and the machine's records act on one programme | commands are sent on stale knowledge, may be refused or lost; records tell of older states; heuristics about who changed what |
| TLV base and air conditioners: `cloud/devices/{tlv_device,RAC_056905_WW,POT_056905_WW,WIN_056905_WW}.ts` | capabilities, values, retry timers, filter data, query interval | a start in four phases, settings written again at power-up; commands that carry other fields along | retries and probes that race late answers; reports that cross commands |
| Washing machines: six handlers of `cloud/devices/` | the last frame | a frame to topics in a fixed order | values suppressed by a cache, topics that belong together |
| Refrigerators: five handlers of `cloud/devices/` | unit, setpoints | degrees to bytes and back, in a unit chosen at the machine | two formulas per direction and unit; a unit that changes under a command |
| Framing and codecs (`util/*.ts`), provisioning routes, set-up program, tools, packaging | - | bytes, fixed answers, command lines | not stateful logic of the add-on |

Properties that make each correct:

- **Sessions.** Acceptors and manager name the same object; one appliance, one
  live handler; what HA is told is so; nobody stays registered for ever after
  vanishing.
- **Broker.** Every retained message reaches every subscriber once; a will is
  published once, when its client ends; a client that ends is forgotten as the
  registry demands.
- **HA connection.** Whatever is lost, an appliance is shown if and only if it
  is served; values are hidden by the cache only if they are known or were lost.
- **Bridge.** Attached exactly when registered, online and not suspended; no
  `BridgedDevice` beyond the map's reach; the cloud is reached again after
  every loss.
- **LG API client.** Repeating a request, or a registration that was cut off,
  does no harm, but for a certificate request, whose password is good for one; what is
  saved is what the cloud has; a call hangs only where nothing limits it, in a request
  or in the pipeline of openssl.
- **Management page.** A settled page shows what the server holds; a switch that is on
  has its bridge, unless its type is still asked for; no row spins for nothing; a
  monitor hears the present Device object, once.
- **Dryer.** Selection and machine agree when things have settled; the selection
  is an option; one push per power-on; a command changes what it says it changes.
- **Air conditioners.** The configuration is published once per connection, and in
  the end; nothing happens after `drop()`; both sides agree once commands and
  reports have arrived; a command changes nothing beside.
- **Washing machines, refrigerators.** What is shown is what the machine does
  once nothing is under way; what was asked is set; an error that has a name comes
  with its text.

## 2. Plan

| Module | Builds on | Main results |
|---|---|---|
| `DeviceRegistry` (abstract), `Sessions` | - | implements the registry; registries, handlers and availability agree |
| `ApplianceBroker` | `Sessions`' ThinQ2 acceptor, in the broker's terms | implements the registry as well; delivery and wills |
| `HaConnection` | the handlers that `Sessions` creates and drops | availability is true over faults; the will |
| `BridgePolicy` (abstract), `CloudBridge` | the Devices that `Sessions` announces | implements the policy; the pools are kept |
| `Registration` | `enable()` of `CloudBridge`, opened | a failure has a cause outside; saved is registered |
| `Panel`, `Monitors` | the events of `Sessions` and `CloudBridge`, at any time | the page agrees with the server |
| `DryerPrograms` | a session of `Sessions` as `NewSession` | selection and machine agree; the selection is offered; one push |
| `AirConditioner` | the same | configured once and in the end; both sides agree |
| `ClimateUnits`, `Washers`, `Fridges` | the same | what is shown is so; what was asked is set |

All of these are done, and all their safety and action properties that the passing
runs check are proved (section 5). Open, in this order:

1. `DryerPower`: the switching on of the dryer (the plain power-on, the poll,
   `svegliala` and its timers), on `DryerPrograms`' machine: at most one wake per
   press, and the machine comes on.
2. In `AirConditioner` the setpoints and the countdown timers; in `CloudBridge`
   `sendAlive` and the relaying of ThinQ1.

## 3. Modules and their correspondence to the code

### Sessions, DeviceRegistry

A *connection* of `Sessions` is a TCP connection (ThinQ1) or a client of the
appliance broker (ThinQ2), and at the same time the `Device` object made on it,
as each connection yields at most one. `sock` is the socket's life (`closing`
is destroyed with `close` pending), `did` the identity it presented, `device`
the life of its `Device`, `byId` the acceptors' maps, `allDevices` the
manager's, `haDevices` and `handlers` the HA side, `config` the handlers that
have published a configuration, `avail` the retained availability topic.

| Action | Code |
|---|---|
| `Connect`, `PostMeta`, `T1Accept`, `T1Refuse` | `thinq1/connection.ts`, `http.ts` `deviceMeta`, `device.ts` `accept` |
| `T1IdleTimeout`, `T1SocketClosed` | the 90 s idle timer and the socket's `close` |
| `T2Deploy`, `T2CompleteProvisioning`, `T2Destroy` | `thinq2/device.ts` `mqtt`, `completeProvisioning`, `disconnected` |
| `Configure`, `Discovery` | `base.ts` `setConfig`; HA's birth message |
| `Vanish` | an appliance that loses power without a FIN |

`DeviceRegistry` says what the rest of the program relies on: at most one object
per appliance, and an appliance is forgotten only when its own current object
closes. `ImplementsRegistry` maps `allDevices` and `device` to it.

### CloudBridge, BridgePolicy

One appliance. `deviceState`, `suspended` and `credentials` are the files;
`bridgedDevices` the entry of the map; `alive`, `downstream`, `connection`, `timer`
the `BridgedDevice` objects; `upstream` and `owner` their connections, which outlive
them for a while. Objects come from small pools; one that nothing refers to any more
stands for a new one. The handlers compose functions on the record `Pool`, as the
code's methods call each other, so that each action is one whole callback
(`DeviceCloses` runs the manager's listener, then those of the `BridgedDevice`s).
`enable()` is two actions, before and after its await; `EnableFails` is `register()`
throwing at any point. In between everything else goes on, other calls of `enable()`
included, so that the call that continues (`CreateLate`) may overwrite an entry made
meanwhile, or make one for a Device that has gone. The history variable `outrun` names
the `BridgedDevice`s so misplaced, which nobody looks after; it guards nothing, and
the properties that could only be claimed without them exempt exactly these. A ThinQ1
connection destroyed before its HTTP answer has no socket to close (`abandoned`), and
keeps the one it opens later (`stray`). `Restart`, `FetchRejected` (an unhandled
rejection ends the process) and the two power cuts keep the disk.

`BridgePolicy` is the promise of `DOCS.en.md`: attached exactly while online,
registered and not suspended.

### DryerPrograms

The machine (`mPhase`, `mCourse`, `mStored`, `mApplied`, `mBeep`: the bytes 2,
7, 25, 22 and 18 of its record) is external and behaves as the handler's
comments report from captures. `StatusFrame` is `processStatusFrame` for the
machine's present state, at any moment; between two frames the handler knows
only `phase`, `machineCycle`, `seenProgram`. Commands travel on `wire` and are
taken, refused with a beep, or lost on a machine that is off. `Pick` and
`PickSettings` are `setProperty` with its whole chain (`publishSelection`,
`pushProgram`, `sendCourse`); `SendPaused` the pause before a command to a
running machine, with the second command in `later`. `NewSession` replaces the
handler: `drop()` clears only the keepalive, so timers already running survive.
The option `push_program_to_appliance` is on. Dry level, EcoHybrid, anti-crease
and delay are left out as values; that a settings command carries a course is not.

Three history variables serve the properties and guard nothing but themselves:
`owed` and `wish` note when the selection could not be sent, or a change came
and went between two frames, `autoPushes` counts pushes since power-on.

### AirConditioner

`capsTimer`, `valuesTimer`, `maskTimer`, `probeTimer`, `filterPoll`, `slow` are the
handler's timers, each a flag that says it is armed (it fires at any time while it
is); `every` is the polling interval. `power`, `mode` and `run` are
`raw_clip_state`, which the machine's reports *and* the handler's own writes
change; `memory` is what it remembers of Jet, energy saving and air purify.
`down` and `up` are the commands and reports under way, in order.

| Action | Code |
|---|---|
| `NewSession`, `CapsRetry`, `ValuesRetry` | constructors, `start()`, the two 15 s intervals of `tlv_device.ts` |
| `ReceiveTLV` | `processTLV`: each tag with its callbacks and hooks, then the stages of the start |
| `MaskExpire`, `ReceiveFilter`, `ProbeExpire` | `valuesReceived`, `processFilterData`, the probe's 5 s; each may run `initMakeSetConfig` (`MakeConfig`) |
| `Poll`, `FilterPoll`, `SlowDown`, `Drop` | `setQueryInterval`, the daily filter query, the 15 minutes of `updateQueryInterval`, `drop()` |
| `HASetting`, `HAMode`, `HAPower` | `setProperty` of a switch, of the mode and of power |

The handling of one frame is a chain of functions on a record of the handler's
fields, one for each tag the frame has, in the order of the code: a hook runs before `modePrev` or
`powerStatePrev` is set, and sees the tags of the frame that come before it.
Whether the last query is older than the short interval (`setQueryInterval` then
asks at once) is any Boolean, once per frame.

The machine is external. From the handler's comments: it forgets the settings
when it is switched off, and writing a mode, or 1 to Jet, switches it on. Assumed
beyond them: a change of mode ends Jet and energy saving, a setting that does not
apply is ignored, and once `setMaskingInfo` is in force every change is reported,
in a frame of its own. Before it, a change may go untold (`untold`, a history
variable that a full answer clears).

### Registration

`register()` of `bridge/index.ts` is one list of awaited steps (`step`), from `auth`
through `removeDevice` and, for ThinQ2, `prepareNewT2Device` and `pair`, to
`addDevice`; `AfterAuth` and `AfterPair` give the order. `Request` is one attempt of
`apiFetch`: what the cloud does (`Served`) and whether its answer comes are chosen
apart, so that an attempt can act and fail all the same. `Retry` counts the attempts,
`Answered` tells the codes apart that the client tells apart. `Spawn`,
`SubprocessFails`, `KilledCloses`, `OrphanCloses` and `ChildCloses` are
`subprocess()`, which settles on `close` alone: SIGKILL ends an openssl that is the
child itself (`doomed`), but of the pipeline of the signing request only the shell,
and its openssl keeps the pipes open (`orphan`) for as long as it likes. `Crash` keeps
files and cloud, `Elsewhere` is the user's phone. The cloud is external, from the
codes the client handles and its comment on `initDevice`.

### HaConnection

`out` is what the program has published and the broker not taken, `inbox` the
retained deliveries under way to it, `link` whether the two are in touch,
`session` whether the broker holds a connection with its will. `Connected` is the
listener of `connect` with its order of messages; `ReceiveRetained` the clean-up of
a retained `online`; `ReceiveBirth` HA's birth message; `Published` the cache of
`aabb_device.ts`. `Break` loses what is under way, `Crash` the process, and
`PublishWill` comes whenever the broker notices. Of the values one property of
one appliance is kept: the cache treats each by itself.

### ApplianceBroker

The functions on the record `Broker` follow the calls of `mqtt-broker.ts` and of the
acceptor that listens to it: `Deliver` (`publish`: the acceptor first, then each
client), `Destroy` (the will is published, then `disconnected` runs), `Accepted`
(`deploy` and `completeProvisioning`, which may destroy another client within the
publication). `Subscribe` takes a list of filters and gives the retained topics not covered so far
(`Unseen`), each for the first filter of the list that matches it (`Served`: the loop
of `mqtt-broker.ts` breaks there). `Matches` is the matching of topic filters.

### Panel, Monitors

`Panel`: `queue` is the page's WebSocket, in order; `request` the HTTP requests,
whose answers come at any time. `Devices` is the picture `enumDevices` takes in
the middle of an event; `RefreshUI`, `Toggle` and `Answered` are those of
`panel.js`, down to the row that shows its switch while it is busy. The metadata of a
ThinQ2 appliance tell no type (`typed`): its switch opens the dialog for it (`AskType`),
which is answered or dismissed (`DialogContinues`, `DialogDismissed`), possibly after its
row has left the table; `undecided` are the rows it was opened for and that have not
been drawn since. `Break` and `Closed` are a lost socket and the page's new one.

`Monitors`: `listeners` counts how often the listeners of a page's connection are on
each Device object (`Added`, `Removed`, `Check`: `checkDevicePresence`); `live` are
the objects that still deliver packets, the replaced ones included; `Inject` is
`sendFromDevice`, which hands a packet to the listeners of the registered object.

### ClimateUnits, Washers, Fridges

Each models one handler at a time (`model`), with its tables, as operators whose
names end in the model's (`AttachPOT`, `ReportVCDWL`, `ConvertFridgeFWC`). `down`
and `up` are commands and frames under way; the machine is external and changes by
itself at any time. In `ClimateUnits`, `raw` is `raw_clip_state`, from which a
command takes the fields it carries along (`Attach`); a TLV that is undefined is
written as 0 (`Byte`). `Washers` keeps the order in which a handler publishes
(`ReportF`, `ReportVCDWL`), as Home Assistant sees one message after the other, and
groups of topics that are published together. It tells what came on a topic (`topics`)
from what the entity shows (`shown`): status and error message are enumerations in all
handlers but VCDWL's, and Home Assistant rejects a value that is none of their options
(`Accepts`), such as the `unknown` of a code without a name. Of the other topics a value
stands for one that has a name. `Fridges` computes in the integers
the code computes in, degrees and bytes (`Byte` wraps at 256), over the ends of
each range; the unit of the configuration is published anew with each unit.

### Modules that check several others

Components that share no variable and cannot influence each other are checked in one
state space, *side by side*: a variable `focus` (or `model`) says in the initial state
which of them the behaviour is about, and the others stand still. So `MCSessions`
checks ThinQ1 and ThinQ2, `MCCloudBridge` a ThinQ1 appliance on the page and a ThinQ2
appliance with a switch, both with two calls of `enable()`, `MCBridgeProgress` the
bridge and the registration, `MCDryerPrograms` two sizes of the dryer, `MCManagement`
the panel, a monitor and the broker, and `MCAppliances` the three families of
appliances. Fairness in `MCBridgeProgress` is asked of the part in focus.

### Faulty variants

A definition whose name ends in `_X...` is a plausible bug of the definition
that follows it. No specification uses it; substituted for the original, it
makes the property named in `PROJECT.json` fail, which shows that the property
depends on that line of the code.

## 4. Runs

| Run | Instance | What it shows |
|---|---|---|
| `sessions_all` | two ThinQ1 appliances, three connections; or two ThinQ2 appliances, three clients; with fairness | acceptors, manager, handlers and availability agree in every order of accept, time-out and late `close`; `disconnected` deletes without an identity check and that is safe; a vanished appliance is dropped; the registry is implemented |
| `bridge_all` | two Devices, three `BridgedDevice`s and connections, two `enable()` calls interleaved with everything, power cuts: ThinQ1 with late `close`, the page, rejected fetches; or ThinQ2 with the switch | the map holds the live bridge of the present Device, nothing beside it is attached but what waits for a late `close`, nothing is attached that is not registered, but for what an `enable()` misplaced after its wait; without that exception: a live bridge is connected or waiting, a destroyed one is quiet |
| `bridge_progress` | ThinQ2, two devices, switch, restarts, disconnections; or registrations with four attempts each; with fairness | the policy is implemented, nothing survives a suspension, the cloud is reached again; a registration fails for a cause outside or for a password used up by a repeated request, what is saved is registered, a call hangs in nothing that has a limit |
| `dryer_all` | two courses, two downloadable cycles, one command under way; or two courses, two commands under way, one paused, two sessions | the selection settles on what the machine has and stays an option; one push per power-on and handler |
| `ac_all` | two modes, Jet, with and without a filter to probe, the user, the remote control, with fairness | configured exactly once per connection, and in the end; quiet when gone; mode, action and Jet agree when all has arrived; polled fast while active |
| `ha_all` | two appliances, one that reports two values, two faults, with fairness | availability is true in both directions, the will covers the end, the cache hides only what was lost, the topics catch up |
| `management_all` | one appliance, with or without a type, on a page with two requests; or three Device objects, two connections of a monitor; or three clients of the broker, two of them appliances, two filters in a SUBSCRIBE | the page agrees with the server, a switch that is on has its bridge unless its type is still asked for, no row spins for nothing; a monitor follows the appliance; retained messages and wills are delivered once; the registry is implemented |
| `appliances_all` | each handler of three families, a few messages under way; reconnections of air conditioners and washing machines, lost messages of the latter | what is shown is so, codes without a name apart; an asked mode of an air conditioner and setpoint of a refrigerator is set, that of 2REF11EBIVPC4 shifted by what its formulas differ; an air conditioner's command changes nothing beside; errors with a name come with their text |
| `bridge_leak` | two calls of `enable()` | *violation*: they leave a bridge that `suspend()` cannot find |
| `dryer_settings` | the user in HA only | *violation*: a dry level chosen right after a programme undoes the programme |
| `ac_jet` | the user in HA only | *violation*: a report that crosses OFF lets the handler write Jet=1 behind it, and the machine switches itself on again |
| `window_power` | the window unit | *violation*: its modes switch the machine neither off nor on |

`bridge_all` uses symmetry over devices and calls and `management_all` over the page's
requests (they are only ever quantified, and no property there is a liveness
property); the others use none. `management_all` does not check for deadlock: each
connection of a pool is used once, so that a behaviour ends when the pool does.

**Bounds.** Two appliances are the least that can be confused with each other; three
connections let an appliance replace a session whose predecessor is still closing
while another connects. Two Devices let one be replaced while its `close` is pending;
two `BridgedDevice`s and connections suffice for a replaced one to be around while its
successor works, three for one more that a late `enable()` adds. Two filters in a
SUBSCRIBE are the least of which only the first may be served. Two courses distinguish
"the same" from "another", two cycles do so for downloads; two commands under way let
one overtake knowledge the other was based on. Two modes distinguish one that has Jet
from one that has not. Four attempts are the code's own. Two faults of the HA
connection let the will of the first come while the second is under way.

`MaxWire`, `MaxLater`, `MaxSessions`, `MaxUp`, `MaxDown`, `MaxFlight`, `MaxOut`,
`MaxQueue`, `MaxFilters`, `MaxFaults` and `MaxLosses` bound the environment only: they disable an
action of a user, of a machine or of a fault. `MaxWaiting` holds up the user, and the
repeated queries of the air conditioner's timers, while a command waits: a second
query behind the first would only be answered twice. No bound disables the handling
of a message or a stage of the start for good.

**Fairness.** Sessions: timers of Node fire and a destroyed socket emits
`close`; the appliance owes nothing. Bridge: the reconnection timer fires, a
closing connection closes, and a connection that is tried again and again opens
some time (strong fairness, as each attempt may fail). Registration: the 5 s timer
of `pair()` and the 30 s timer of a child fire, and an openssl that was itself sent
SIGKILL closes. That a request is answered is not assumed, as `fetch` is given no
time-out, nor that a child ends by itself or the rest of a pipeline whose shell was
killed: `EveryCallEnds` claims the end of a call only if it stays in none of these waits
(`Untimed`) for good. HA connection: the client
tries to connect, the broker takes what is written and delivers what it has, and
publishes the will; faults are bounded. Air conditioner: Node's timers fire, what
arrives on a connection that lasts is handled, and the machine takes commands and
answers a query at last if it is asked again and again (strong fairness: any single
answer may be lost; of the filter probe, which is asked once, no answer is
assumed). No fairness is assumed of users, of the cloud's answers to `enable()`, of
the dryer, or of the other machines.

### Divergences between code and documentation

The four violation runs are findings, with the quoted lines in `PROJECT.json`.
Met as well while modelling, each plain from a line and without a run:

- `bridge/index.ts:221`: logging out leaves bridges attached, `html/index.html:152`
  says it disables them.
- `bridge/state.ts:79`: `suspended.json` is rewritten in place; a power cut after the
  truncation resumes what was suspended, against the comment at 14-15.
- `RC90U2_WW.ts:993`: `bridge_active` keeps showing ON after the page has disabled
  the bridge; the comment at 1439 wants it not to pretend.
- `RC90U2_WW.ts:938`: the entry of a forgotten cycle survives one frame, not all,
  against the comment at 934-936.
- `RC90U2_WW.ts:945`: the fallback of a vanished entry is always Cotone, against
  the comment at 975.
- `RC90U2_WW.ts:308`: a reconnection pushes a second time within a power-on,
  against the comment at 1102.
- `RC90U2_WW.ts:1433`: `setProperty` takes only the names of `CYCLE_IDS`, so picking
  the offered entry of a downloaded cycle re-sends the programme selected before;
  `CHANGELOG.md:39` says that picking it sends the cycle again.
- `RAC_056905_WW.ts:306`: the first frame after the configuration counts as a
  power-up, so a reconnection writes OFF to Jet, energy saving and air purify of a
  machine that is running with them.
- `tests/cloud/devices/tlv_device.test.ts:121` says that `raw_clip_state` is updated
  also when `write_callback` returns false; `tlv_device.ts:312-313` does so only when
  it returns true.
- `2REF11EBIVPC4.ts:31-36` says that the conversions "work correctly for setProperty"
  and that raw 5 is 4 degrees; choosing 3 degrees sends raw 5, which is shown as 4.
  `AskedIsSet` states for this handler by how much the two formulas differ.
- `F_VB_F___W.B_2QEUK.ts:247` and `249`, and likewise the other handlers with an
  enumeration, publish `unknown` for a status or an error without a name; `VCDWL2QEUK.ts:167-168`
  says that an enum constraint would reject such a value. So the old status stays shown
  (`Off` of a machine that runs), and an error turns on beside the old text `OK`, against
  the order that the comment at 247 wants. `ShowsTheMachine` and `ErrorIsExplained` exempt these codes.

### Other behaviour worth knowing

Not against any text, but a reader of the models will meet it:

- *Page.* A message `devices` draws rows anew with their switches off. The answer to a
  request that overtakes `started` shows Off for an appliance that is bridged. The
  switch of a busy row can be clicked again, which starts a second `enable()`. A
  dialog for the type that is dismissed leaves the switch on, though nothing was sent;
  one that outlives its row still sends its request. A packet injected by one monitor
  is shown as genuine by the others. A monitor that closes leaves `onDeviceRx` and
  `onDeviceTx` on its Device (`management/index.ts:240`).
- *Broker.* A publication with QoS above 0 is acknowledged twice
  (`mqtt-broker.ts:43` and `150`); a will is published without its retain flag, and
  also after an orderly DISCONNECT.
- *HA connection.* The will of a host that lost power can follow the `online` of its
  next run, which is published once per connection.
- *API client.* A rejected gateway request stays in `gatewayCache` for good
  (`thinqApi.ts:138`). The state saved by an earlier registration stays on disk when
  a new one fails after it has removed the appliance. The interval of `sendAlive` is
  never cleared (`thinq1connection.ts:68`). No request has a time-out, and SIGKILL
  reaches only the shell of the pipeline that makes the signing request
  (`bridge/util.ts:40`, `thinqApi.ts:376-380`): either may keep a registration waiting
  for good.
- *Bridge.* A call of `enable()` does not look again after its wait: it bridges a Device
  that has gone meanwhile, or overwrites an entry made by another call. A ThinQ1 connection
  that is destroyed while it fetches opens its socket all the same
  (`thinq1connection.ts:160`).
- *Appliances.* A command of the 600FWC refrigerator that crosses a change of unit carries the old
  unit and sets it back; before the first status degrees are taken as Celsius. A TLV
  that is undefined is written as 0 (`tlv.ts:37`). The window unit's mode 8 has no name,
  so that the mode before it stays shown.

## 5. Proofs

Every theorem holds for all values of the constants that satisfy the named
assumptions of the modules. These say no more than that the values that stand for
"nothing" (`None`, `NoConn`, `NoDev`, ...) are none of the things, that an enumerated
constant has one of its values, that a file is written or a request tried at least
once (`RegistrationAssumption`), and that the appliances of Home Assistant and the
topics of the broker are finite in number, as `connected()` and `subscribe()` run
through them. Each is evaluated by TLC in a run.

| Module | Theorems | Inductive invariant |
|---|---|---|
| `SessionsProofs` | `TypeCorrect`, `SessionSafety`, `RegistriesSafety`, `AvailabilitySafety`, `OnlineSafety`, `RegistryImplemented` | `IInv`; `OnlineInv` |
| `ManagementProofs` | `PageShowsTheServer`, `RowsShowTheServer`; `MonitorsFollowTheManager`; `SubscribersAreServed`, `WillsComeOnce`, `BrokerImplementsRegistry` | `PanelInv`; `MonitorInv`; `BrokerInv` |
| `HaConnectionProofs` | `StoppedNeverShown`; `AvailabilityIsTheTruth`, `ReportedIsShown` | `IInv`; `TopicInv` |
| `CloudBridgeProofs` | `AlwaysConnectedOnce`, `DestroyedAlwaysQuiet`, `PoolsAlwaysKept`; `OnlineAlwaysBridged`, `BridgedAlwaysOnce`, `BridgedAlwaysRegistered`, `SuspendedAlwaysDetached`, `PolicyImplemented` | `IInv`; `FullInv` |
| `BridgeProgressProofs` | `AlwaysFailsForACause`, `SavedAlwaysRegistered`; `SwitchedOffIsDetached`, `BridgeImplementsPolicy` | `IInv`; that of `CloudBridgeProofs` |
| `DryerProgramsProofs` | `TypeCorrect`, `SelectionAlwaysOffered`; `PushedOnce`; `SelectionAlwaysAgrees` | `IInv`; `PushInv`; `AgreeInv` |
| `AirConditionerProofs` | `StartAlwaysPending`, `GoneAlwaysOffline`; `HandlerAlwaysAgrees` | `StartInv`; `AgreeInv` |
| `AppliancesProofs` | `WashersAreShown`, `ErrorAlwaysExplained`; `UnitsAreShown`, `AskedModesAreSet`, `OnlyTheAskedAlwaysChanges`; `SettledAlwaysAgrees`, `AskedIsAlwaysSet` | `WInv`; `CInv`; `FInv` |

Each inductive invariant was first checked by TLC on the instance of a run.

### SessionsProofs

None of the safety invariants is inductive. `IInv` adds what the argument needs: a
connection serves only identities of its own protocol (`SameProtocol`), a `Device` is
open exactly as far as its socket allows (`DeviceLife`), and a live handler belongs to a
device that the HA side knows (`HandlerLife`). There is one lemma per action that
changes the maps (`T1AcceptStep`, `T2CompleteStep`, `T1ClosedStep`, `T2DestroyStep`,
`T1RefuseStep`); `QuietStep` covers all others at once, and `CloseStep` the closing of
a device common to both protocols. The refinement rests on the same invariant: a
replaced object is open when it is closed, which is what `AcceptorAgreesWithManager`
gives. For `OnlineIsServed` the entry of the map that `discovery` goes by must never be
a dropped handler (`ServedIn`); that holds of the appliances whose models all have a
handler, for which `newDevice` has no early return.

### ManagementProofs

*Page.* `PageWillAgree` looks at what the page will show once it has handled what is
under way: the last message of either kind tells the server's present state, or none
is left and the page shows it. `BusyIsAwaited` gives each busy row a request that was
sent since the row was last made anew. A row without a type may be on without a request
only as long as it is in `undecided`, which the first drawing ends.
*Monitors.* A connection that listens to the manager has exactly one listener on the
registered object and none elsewhere (`ListenersFollow`), the counts included.
*Broker.* An event composes functions on the record `Broker`, which nest: a
publication may destroy clients, whose wills are publications. `BrokerOK` says that
client and acceptor name each other, `Reaches` that a living client has the present
message of each retained topic it has asked for; each function keeps both
(`DeliverKeeps`, ...). That a SUBSCRIBE serves a topic exactly once needs both halves:
a list of filters that match has a first one (`FirstMatch`, by the well-foundedness of
the naturals), and no topic has two (`ServedOnce`). The refinement shows of each that
it drops registrations in the manner of `DeviceRegistry` and no other.

### HaConnectionProofs

`StoppedNeverShown` needs that the broker takes messages only while it holds the
session with the will (`LinkHasSession`): else the `online` of `connected()` could be
taken after the will. `TopicInv` follows an appliance's topic over faults: the last
word under way about it is the truth about its handler, and where nothing is under
way the topic is right, or its retained `online` is in the inbox, or the subscription
that will fetch it is (`TopicOK`). The cache of a handler says what will be retained,
unless that was lost (`CacheOK`). The `discovery` loop is handled as one sequence,
whose positions `connected()` fills in pairs.

### CloudBridgeProofs and BridgeProgressProofs

For both kinds of appliances, any pools of Devices, `BridgedDevice`s and connections,
any number of calls of `enable()`, interleaved or not, with or without power cuts:
`PoolInv` says that a `BridgedDevice` has a connection exactly when it is alive and not
waiting (`Connected`), that owner and connection name each other as long as the former
is alive (`Listening`: this is why the `close` listener need not look at which
connection has closed), and that a ThinQ2 connection in use has a live owner
(`Released`). One lemma per operation says which fields it changes, one that it keeps
`PoolInv` (`DestroyKeeps`, `CreateKeeps`, `ReconnectKeeps`, `CloseKeeps`, ...), and each
action follows from the operations it composes.

What should be bridged is, but for what a waiting call misplaces: the code does not
look again after the wait, and the run `bridge_leak` shows what comes of it. `outrun`
holds just the entry that such a call overwrites and the one it makes for a Device
that is no longer the present one, so that `OnlineAlwaysBridged`, `BridgedAlwaysOnce`
and `BridgedAlwaysRegistered` need no hypothesis about the calls. A call that ends
after a suspension attaches a suspended appliance, and one that ends after its Device
has gone an appliance that is not there; so `SuspendedAlwaysDetached` and
`PolicyImplemented` speak of an appliance that is not registered again (`Calls = {}`),
the latter with power that does not fail in a write (`~PowerLoss`). `UserInv` says
that the entry of the map is, `outrun` apart, the one live `BridgedDevice` on the
current Device, and that it is there whenever it should be (`Started`).
`BridgeProgressProofs` carries two of these theorems over to the instance of the run
`bridge_progress`, which has neither calls of `enable()` nor power cuts: both instances
have the same operations (`SamePools`), hence the same steps (`SameSteps`).

Of `Registration` the invariant adds that a ThinQ2 registration reaches `addDevice` with
a certificate of its own call (`CertifiedForAdd`), that `addDevice` repeats itself only
for an appliance that is in a home (`AddAgainHasHome`), that a child belongs to its
step (`ChildHasStep`), and that nothing is intact while a call is under way
(`IntactIsIdle`). There is a lemma for each way a step can end (`FailKeeps`,
`ProceedKeeps`, `RetryKeeps`).

### DryerProgramsProofs

Three inductions. The selection stays an option only as long as commands carry
courses of the dial, and they do only as long as the selection is an option: one
invariant with the types. `PushInv`: a push that is due or made is remembered by
`programmaGiaMandato` as long as the machine is on. `AgreeInv`: a selection that
differs from the programme last seen has its command under way, or was refused, or is
what the machine has and the next frame will tell, or the user's wish could not be
sent; and a cycle that is selected is one that is seen.

### AirConditionerProofs

The start needs no assumption on the constants. Nothing in `StartIsPending` says that a
second answer with values finds `initialValuesReceived` set, and nothing in
`GoneStaysOffline` that the timers it does not mention are off. `StartInv` names the
five stages of the start, each with the timer it has armed and whether values and
configuration have come, and says that a handler that is gone has no timer at all.
There is one lemma per step of the start; all other steps leave the start alone and
need a live handler (`ElsewhereKeeps`).

`HandlerAlwaysAgrees` speaks of a state with nothing under way; its invariant has to
say what holds while commands and reports cross. `AgreeInv` is `InStep`, of the
handler, the machine, the commands and the reports: every tag that some report tells
is told last as the machine has it (`ReportsAreTrue`); what `raw_clip_state` has is
the machine's, or will be told or is ordered (`ModeIsKnown`, `RunIsKnown`); what the
hooks have last seen is so, or another report of it follows (`PowerIsSeen`,
`ModeIsSeen`); and where what is stored, shown or remembered differs from that
(`PowerAhead`, `ModeAhead`, `ActionFollows`, `SettingFollows`), there is a command or
a report under way that makes the hooks run again, which write all settings, or a full
answer that tells them. It needs the types of all that is under way, that a setting
which is on applies to the machine (`FitSettings`), and from `StartInv` that a
configured handler knows power and mode.

Two things make it inductive. A change of mode counts as one that the hooks will see
only if the command that leads away comes after the mode was reached (`Strays`), and a
setting as written only if its command finds the machine in that mode (`SetTo`). And
in the middle of a frame the invariant is stated for the tags that are left: `ts` and
`val` are what is left of the frame at the front, and `TagInStep` takes one tag off.
A step of the machine of whatever kind is one lemma (`MachineStep`): it obeys the
command it takes, tells what changes, and ends the modal settings with the mode.

### AppliancesProofs

*Washing machines.* A frame is a chain of publications. `PublishDoes` says what one
does to cache and queue; from it follow, for whole frames, that the cache is the
machine that was reported (`CacheRight`), that what is under way to Home Assistant
ends in the cache (`Follows`), and that an error is never announced before its text
(`Explained`). All this is about what came on the topics; what the entities show
agrees with it wherever it was accepted last (`Taken`, `SettledTopics`). `WInv` then
says that what a machine has told is in a frame that nothing overtakes, or in the
cache (`RecordKnown`, `DoorKnown`).
*Air conditioners.* A field of `raw` is right, or a report under way makes it so, or a
command under way carries it (`RawKnown`); the mode shown may be ahead of the machine
only by such a command (`ModeShown`). A command sent in step is alone and differs from
the machine only where it may (`Fits`), from which `OnlyTheAskedChanges` follows. What
was asked is borne by all that is under way (`Wished`).
*Refrigerators.* Of each model, unit and setpoint, `EncodeRight` says that a temperature
asked becomes the byte that is shown as the warmest value not warmer than it, and
`BytesAreOffered` that what a byte is shown as is a value Home Assistant offers; of
2REF11EBIVPC4, `ShiftRight` says by how much the two formulas differ.
`FInv` adds that the last status under way is the machine's (`LastIsTrue`), that the
handler has read it or a command will be answered (`Heeded`), and that a wish
is the machine's or on its way in the machine's unit (`Asked`).

### Only model-checked

- Liveness (`GoneAreDropped`, `CloudReattaches`, `DetachedIsReleased`, `EveryCallEnds`,
  `IsConfigured`, `TopicsCatchUp`): fairness and ENABLED are out of the prover's reach.
- What the violation runs refute (`bridge_leak`, `dryer_settings`, `ac_jet`,
  `window_power`).

## 6. Not modelled

- *Framing and codecs* (`util/*.ts`): checksums, TLV and AABB framing as functions on
  bytes. They are pure, and tested on captured packets; what they do to a message
  (a field that is absent, a byte that wraps) is part of the modules that send it.
- *In modelled components*: of the dryer its switching on (the plain power-on, the wake)
  and the values of dry level, EcoHybrid, anti-crease and delay; of the air conditioner
  temperatures, fan, vanes and countdowns, which are shown and written as they are;
  of the bridge the payloads it relays and `sendAlive`; of the API client
  `listDevices` and `getDeviceStatus`, signatures and cryptography; read-only sensors
  of all handlers; the page's dialogs other than that for the type; of the washing machines
  the names of readings (a code without one publishes `unknown` there too).
- *Provisioning routes, the set-up program (`rethink-setup`), `run.sh`*: fixed answers and
  command lines that run once, in one order. The metadata route is `PostMeta`.
- *Tools* (`tools/mcp-server.ts` and the others, the monitor of the LG cloud): used by
  developers, outside the add-on.
