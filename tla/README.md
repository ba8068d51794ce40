# web-auto in TLA+

web-auto is an Android Auto head unit: a Node server (or an Electron
application) that finds phones over USB, TCP and Bluetooth, opens one Android
Auto session with one of them, and serves the phone's screen, sound and input to
web clients. This directory holds a TLA+ model of the parts of it whose
correctness depends on the order of events, the TLC configurations that check
the model, and proofs checked by TLAPS.

The server is JavaScript: code runs alone from one `await` (or callback) to the
next, and everything that is hard about it happens between two of them. So an
action of a module is the code between two suspensions, and the interleavings
TLC explores are those of calls, timers, messages and promise settlements. The
repository has no tests and little documentation besides its comments; what the
properties say is taken from the code's own assertions, from the guards its
methods rely on, and from what its methods are for.

## 1. Inventory

Paths are relative to `src/`.

### The connection (`android-auto/src/AndroidAutoServer.ts`, `transport/Device.ts`)

State: `connectionLock` (a FIFO mutex), `connectedDevice`, `nameDeviceMap`, the
`state` of each `Device`. Operations: `addDevice`, `removeDevice`,
`connectDevice`, `disconnectDevice`, each async, each taking the lock first.
They are called by users through IPC (by name), by device handlers (added,
removed), by devices (a Bluetooth phone connects or disconnects by itself, a
transport ends) and by the control service (bye-bye, ping timeout). The holder
of the lock suspends in `connectImpl`, `disconnectImpl` and the control
service's `doStart`; calls made meanwhile queue up and are served against a
state that is not the one they were made in. *Correct* when one device at a time
is linked, only the holder of the lock links or unlinks one, server and devices
agree on who is connected, a request that was accepted is answered, and the lock
comes free again.

### The dependencies of a connection (`AndroidAutoServer.ts:329-449`)

State: a started flag in the cryptor, every service, the control service and its
pinger. `startDependencies` and `stopDependencies` set and clear them in order,
synchronously; every start and stop asserts its flag, so each may throw in the
middle. *Correct* when a session's dependencies are all started or all stopped,
and started exactly while there is a connection.

### The control session (`services/ControlService.ts`, `Service.ts`, `Pinger.ts`)

State: where `doStart` is, the callbacks of `waitForSpecificMessage`, the abort
listeners on a timer's signal, the handshake of the cryptor, the ping sent and
the response received. Version exchange, TLS handshake in a loop, service
discovery, then pings until somebody says goodbye. *Correct* when a message is
given to the wait it is meant for, a session's timer touches that session only,
nothing is encrypted before the handshake is complete, `doStart` settles, and a
dead phone is noticed.

### The message pipeline (`AndroidAutoServer.ts:191-298`, `messenger/`, `crypto/`)

State: bytes of an incomplete frame (`FrameCodec`), fragments per service
(`MessageAggregator`), `encryptMutex`/`decryptMutex` and the pending read of the
cryptor. Transport data is split into frames, encrypted frames are decrypted one
await at a time, then aggregated and dispatched. *Correct* when the messages of
a service are dispatched whole, once, in the order the phone sent them, whatever
boundaries the transport puts in the stream, and a session leaves nothing behind
for the next.

### Device handlers and devices (`transport/DeviceHandler.ts`, `node-common/src/transport/`)

State: `deviceMap` under `deviceMapLock`; `implUniqueIdMap` (USB); the scan
timer (TCP); the profile handlers (Bluetooth). Operations: attach, detach, scan,
device added or removed, each an async call under the lock that probes the
device. *Correct* when what has been announced and not withdrawn is what is
there. Devices: USB (AOAP switch, open, poll, reset), TCP (a socket with
listeners), Bluetooth (profile, WiFi credentials, then a TCP connection of the
phone to the head unit, each awaited with a timeout). *Correct* when an attempt
that fails leaves nothing that makes the next one fail.

### Video and audio channels (`services/AVOutputService.ts`, `node-common/src/services/`, `web/src/stores/`)

State: the channel's start and acknowledgement in the service, the codec
configuration and first frame of `NodeVideoService`, focus and start in the web
client's `video-store`, the delayed stop of audio streams. *Correct* when a
client that displays the video is decoding the current configuration, and the
focus the phone was told is the one the client has.

### IPC and the web stores (`common-ipc/`, `web/src/stores/device-store.ts`)

State: pending calls and listeners in the client, subscriptions per socket in
the server. *Correct* when each call settles once, a listener is called for
every notification while it is registered, and a client's copy of the devices
becomes the server's.

### The server's life (`AndroidAutoServer.ts:632-706`, `electron/src/main.ts`, `node/src/main.ts`)

State: how far `start` is, whether it has `started`, the timer of the TCP scan,
the registration of the Bluetooth profile and of its handlers. `start` builds the
device handlers and lets each wait for devices, while the first devices come and
connect; a quit calls `stop`, which disconnects, ends the scan and the listeners
and unregisters the profile, and then ends the program. *Correct* when server,
handlers and profile know the same devices whenever nothing is under way, and
the program ends with nothing connected.

### Pure computations (`services/VideoResolutionUtils.ts`, `config-loader/`, `utils/`, `messenger/FrameCodec.ts`)

No state. The video configurations that are offered to the phone for a display,
the variables of a configuration file, the bytes of a frame. *Correct* when they
agree with what they are for, at every boundary: a display that equals a
resolution or exceeds all of them, a message of one frame exactly, bytes cut
anywhere.

### Touch input (`web/src/components/Video.vue`, `services/InputService.ts`)

State: the id of each pressed pointer and where it was last. Each event of the
browser becomes a touch event that lists all fingers, unless it is off the canvas
or hardly a move. *Correct* when the fingers the phone knows of are those on the
canvas.

### The rest

Sensor, media, navigation and brightness services, which pass messages
on; codec parsers; renderers; the Vue interface; builder, window and logging.
`PROJECT.json` lists all of them with their status, and under `hazards` the
lines where each of them can go wrong in an order nobody tests.

### How they interact

    phone -- transport --> Device -- onData --> AndroidAutoServer -- frames --> cryptor,
      ^                      ^                    | connectionLock              services
      |                      |                    v
      +-- sendMessage -- services <-- started/stopped with the connection
                             ^
    web client <-- IPC ------+        device handlers -- added/removed --> server

Everything that changes the connection passes through `connectionLock`, which is
why it is modelled first.

## 2. The modules

| module | models | state and actions |
|---|---|---|
| `Dependencies` | the dependencies of a connection | no variables: `StartDependencies(deps)` and `StopDependencies(deps)` are the sets of outcomes of the two methods, for flags in any state and for services whose stop may throw |
| `Connection` | the server's connection management and the part of `Device` under it | `queue` is the calls that await the lock, `holder` the call that has it, `pc` the await it is in; one action per event and per piece of `connectDeviceAsyncLocked`, `disconnectDeviceAsyncLocked`, `addDeviceLocked`, `removeDeviceLocked` |
| `ConnectionSlot` | what `Connection` promises | a slot that is opened, open, closing or free; `Connection` implements it under the refinement mapping `SlotDevice`, `SlotPhase` |
| `ControlSession` | `doStart`, the pinger and the phone's side of a session | `pc` is where `doStart` is suspended; `callbacks` and `listeners` are what `waitForSpecificMessage` registers; one action per message, timer and handshake step |
| `VideoChannel` | the video service, the sockets, and store, decoder and worker of a page | `server` is the fields of the service, `subscribed` the counts of `IpcServiceRegistry`, `page` what the web client keeps; `toServer`, `toClient` and `toPhone` are what is on its way; one action per message of the phone, per step of the user, and one for the next message of each queue |
| `UsbDevices` | `DeviceHandler` with the USB handler and its devices | `bus` and `hotplug` are the phones and the library's events; `queue` and `holder` are the calls under `deviceMapLock`, `deviceMap` and `implUniqueIdMap` the handler's maps, `device` the Device objects; one action per event and per piece of `addDeviceAsyncLocked` between two awaits |
| `MessagePipeline` | `FrameCodec`, `MessageAggregator`, the mutexes of the cryptor and the handler of transport data | `wire` is what the phone has sent, `buffer` and `aggregator` what is incomplete, `mutex` the tasks that decrypt or encrypt, `dispatched` and `out` what comes out; one action per transport event, answer of the TLS engine and message of a service |
| `MessageStreams` | what the way in of `MessagePipeline` promises | a stream of messages per channel, of which some are sent and some received; `MessagePipeline` implements it, a message being sent with its last frame (`Completed`) and received when it is dispatched (`Numbers`) |
| `BluetoothDevice` | `BluetoothDevice` with its profile handler, WiFi and TCP connectors | `pc` is the await of `connectImpl` or `disconnectImpl`, `profile` the socket of the profile; `attempt` is where each `connectWifiAndTcp` is, the abandoned ones included, `messageCallbacks`, `disconnectionCallback` and `listeners` what is registered for whom; one action per event, timer and settled write |
| `ServerLifecycle` | `start`, `stop` and the quit, with the TCP and the Bluetooth handler and the server's lists | `phase` is where `start` or `stop` is; `scans` are the scans under way, `jobs` and `requests` what awaits the handlers' locks and the server's; `deviceMap`, `profile`, `nameMap` and `connected` are the maps whose agreement is at stake |
| `Ipc` | the IPC layer between services and pages, and `device-store` on it | `toServer` and `toClient` are the messages of a socket, `serverEnd` and `clientEnd` its ends, which close each in its own time; `count` is what the server knows of subscriptions, `callbacks`, `listeners`, `rawEvent` and `store` what the page keeps |
| `VideoResolutions`, `ConfigVariables`, `FrameWire` | `VideoResolutionUtils`, `config-loader`, and frames as bytes | no variables: one operator per function of the code |
| `TouchScreen` | the pointers of `Video.vue` and the input service | `translation` and `positions` are its two maps, `touching` what the phone knows; one action per event of the browser |
| `MCConnection`, `MCUsbDevices` | values of constants for TLC | |
| `MCAlgorithms` | the bounded inputs of the three computations, beside `TouchScreen` | an input is chosen, its result computed, and the result compared with a reference definition; or the touch screen gets events |
| `*_proofs` | theorems about the module of that name | |

A definition whose name ends in `_Something`, preceded by a comment that begins
with "Mutant", is the definition before or after it with a plausible bug. No
specification uses it; each shows that some property notices that bug.

Choices in the translation that a reader should know:

* The reasons of a disconnection matter only in whether they stop the
  dependencies. All those that can be in the queue do.
* `JobReady`: promise continuations run before the next event, so no event comes
  between the release of the lock and its next grant.
* `transport[d]` is true from `connectImpl`'s success until the transport ends
  or `disconnectImpl` detaches it. What these do inside is not in `Connection`;
  both settle, because each of their waits has a timeout or a callback that
  comes. `disconnectImpl` may fail; `Device.disconnect` logs that and goes on.
* A device that comes back is a new `Device` object. Its model value is used
  again when nothing of the server refers to the old one any more.
* `FrameCodec` and `MessageAggregator` are started and stopped with the
  dependencies, but cannot fail; they are in `MessagePipeline`.
* In `ControlSession` the timer's signal outlives its session. Only as many
  signals are kept as have a timer running; a signal whose timer has fired is
  used again.
* In the handshake the `secureConnect` event is assumed to come before the
  callback of the write that completes it. Node decides this order; with the
  other one `doHandshake` would read a flight that never comes.
* The pinger's `pingTimeoutMs` never has an effect: the response echoes the
  timestamp of a ping that was sent, so it is never older than the last one. A
  ping is missed when it is unanswered at the next interval, and that is what
  `OnPingTimeout` checks.
* In `VideoChannel` what the phone sends is handled when it is sent. A delay
  there would only make the phone act later, because the server answers it
  through `toPhone`, which does take time; both directions between page and
  server are queues, because both send several messages in one piece of code.
* A socket that closes loses what it had sent and what was on its way to it.
  The page is opened again when the server has noticed.
* The phone of `VideoChannel` stops a channel before it starts it again; the
  assertions in `handleData` need that. Timestamps, acknowledgements and the
  canvases of the renderers are left out, and so is a decoder that an error of
  decoding has closed (`DecoderWorker.ts:80-85`): no frame is lost or damaged here.
* `HandleOn` runs through the listeners the way the JavaScript iterator does:
  the decoder removes itself while it is called, and the listener after it is
  skipped. When the decoder was registered before the store, the store's own
  restart on `channelStop` is therefore lost; `DisplayedIsProjected` holds all
  the same, because the service sends `focusRequest` with every stop.
* In `UsbDevices` an impl stands for an object of the usb library; when nothing
  refers to it any more its model value is used for a new one. In which mode a
  phone comes back after it has left the bus is up to the phone; a phone is on
  the bus as one impl at a time, with a serial number of its own.
* The loop of `reset` ends when the phone has left the bus or after a hundred
  attempts. It may end at any time in the model, because neither outcome leaves
  anything behind that the other does not.
* The server uses a device of `UsbDevices` one at a time, which `SingleLink` of
  `Connection` shows of it, and may use one that has been withdrawn already.
  An attempt to connect that fails in `open` changes nothing and is no action.
* In `MessagePipeline` the stream holds a frame once for its header, once for
  its payload and, in the first of several, once for the total size; an event
  may end between any two. `decodeOne` rolls back wherever a frame is cut, so
  finer cuts make no difference. The records of the TLS engine are numbered by
  the phone's engine; a record out of order is one the engine does not accept,
  and whether the read then never settles or the unhandled error ends the
  process, nothing more is decrypted.
* The TLS engine may take any time. Node may answer before another transport
  event is handled; then none of the tasks of `MessagePipeline` ever wait for
  each other, which is one of the behaviours of the model. The write and the
  read of `encrypt` and `decrypt` are one wait. After `stop` the read never
  settles (the stream is destroyed), or the write still does and the code after
  it throws; `Stop` chooses, for each direction.
* The device takes its listeners off the transport before anything but promise
  continuations has run after `stopDependencies`, so that no data comes after
  it. Services of `MessagePipeline` send messages that fit one frame; what
  becomes of longer ones is in `FrameWire`.
* In `BluetoothDevice` an attempt that is over is used again. The phone and
  BlueZ are not bounded: the profile comes and goes at any time. A message of
  the phone that nobody waits for is dropped, as in `handleMessage`. The
  connections the profile handler refuses by an assertion change nothing.
* `BluetoothDevice` has no other device beside it, so the server refuses a
  self-connection only for this device's own sake; what other devices do to the
  queue is `Connection`.
* In `ServerLifecycle` a device is probed in one step after its lock is taken.
  The steps between the lock of the server and the end of a set-up are three
  (asked, connected, set up), because `stop` sees a difference between them; the
  rest of a connection is `Connection`. A `Device` object that nobody refers to
  any more is used again. A `discover()` that is rejected is logged and changes
  nothing (`TcpDeviceHandler.ts:84`), so it is no action.
* In `Ipc` the number of changes of the device list stands for the list. A page
  has one socket in its life: it does not open another when that is closed, as
  in `SocketClientIpcSocket`. The handlers of calls may settle at any time and in
  any order; a reply and an error end a call in the same way.
* In `FrameWire` a frame whose encoding throws is left out and those after it
  are sent all the same (`SendMessage`), because `onSendMessage` starts one
  `onSendFrameData` for each and logs what it throws. Encryption is left to
  `MessagePipeline`. Numbers are sequences of two or four bytes. The loop of
  `decodeBuffer` is a recursive function of as many rounds as there are bytes, each
  of which takes a frame or nothing (`Decode`).
* The ratio in `VideoResolutions` is a pair of integers, where the code computes
  in floating point and rounds. A difference could only show in a quotient that
  is an odd multiple of one half.
* In `TouchScreen` the position of the canvas and its fit are in the choice of
  `Points`: some have a negative coordinate, which is what `sendPointerEvent` drops.
  A touch event reaches the service at once; nothing else is ordered against it.
  The phone takes `pointerData` as the fingers there are, which is what it is.
* An event that names no finger (`actionIndex` is not set) is taken by the phone as
  one of the first in the list: a number that is not set reads as zero.
* Texts in `ConfigVariables` are sequences of words and markers. The pairs `$$`, `$&`,
  `` $` `` and `$'` are words of their own, because `String.replace` gives them a
  meaning in the text it puts in (`Expanded`).
* Focus, voice and battery messages keep no state in the control service and are
  left out of it.

## 3. What is checked

| run | question | bounds |
|---|---|---|
| `connection` | does the list follow the handlers, is the connection slot implemented, does a connected device keep its session, does the lock come free, is a self-connection answered? | two Bluetooth devices of one name, three calls waiting; two services, the stop of the second may throw |
| `cryptor_assertion` | violated: does the cryptor's assertion on start hold? | a Bluetooth device and a wired one, three calls waiting |
| `control_session` | do the waits of a session stay its own, does `doStart` settle, is a silent phone noticed? | a handshake of two rounds, two signals |
| `bluetooth_device` | do the waits of a connection stay apart from those of abandoned attempts, is a loss noticed, does every attempt settle? | three attempts at a time, two calls waiting; profile, phone and users are not bounded |
| `server_lifecycle` | do server, handlers and profile agree on the devices, does a quit leave nothing connected, and does the program end? | a host or a Bluetooth device, four objects of it; two scans at once, two jobs waiting, one change of the network or two of BlueZ, two quits |
| `usb_devices` | do lists and maps stay right while phones come and go, switch modes and are reset in any order? | a phone that is an accessory at times, another phone, two events on their way |
| `usb_open_assertion` | violated: is a device closed when it may be connected, as `open` asserts? | one phone |
| `message_pipeline` | are messages dispatched whole, once, in order, not before they were sent and at all, wherever transport events end and sessions stop? | four frames of both sides together, of two services, in two sessions |
| `video_pages` | do decoder and focus stay in step while pages come and go at any point of a stream? | two sessions and two starts of the channel, one page, three steps of another one; the channel starts or stops with at most four messages on their way |
| `video_focus` | does the phone end with the focus the page needs? | one session, one start, one request of the phone; a page opened twice and two views; two messages on their way |
| `ipc` | does every reply find its call, every header its bytes, every subscription its listener; is a page's device list the server's; is every call answered? | one page with the helpers of three services (one of them absent), two calls, two listeners, two messages on their way when the page sends, two changes of the list, one raw notification; either end of the socket may close |
| `algorithms` | do the three computations agree with their reference definitions; are the fingers the phone knows of those on the canvas? | displays between, at and beyond the resolutions; up to three configurations; templates of up to three tokens, two variables; messages of one, two and three frames, two services, cut anywhere in two places; two fingers, four points, a throttle of two, no bound on events |

Why the bounds are enough. Two calls waiting besides the holder's are enough for
every pair of requests to be served in a state neither was made in, and the third
lets a removal wait behind both; two devices are enough for one to be connected
while the other is requested or connects by itself. The safety properties
of `Connection` that do not need the order of the queue are proved for every
number of devices and calls (section 5) and not repeated by a run. One of the two
services has a stop that may throw, after one that may not. Two rounds make the
handshake a loop; two signals let the timer of one session fire in the next.

In `BluetoothDevice` three attempts are one that is awaited, one that was left
behind while it wrote and one that waits for the TCP connection; an attempt that
is left behind ends by its own timer. In `ServerLifecycle` the handlers share
nothing but the server's lock, so that each is checked with one key: what goes
wrong takes two jobs, scans or objects of one key, never two keys. In `Ipc`
pages are separate and share only the server's list. Two calls may be of two
helpers, with the same id, or of one. The displays of `algorithms` lie on both
sides of every comparison of `VideoResolutionUtils` that decides anything,
upright ones included; the payload
of a frame is two bytes instead of 16 KiB, so that a message of one, two and three
frames, the last of them full or not, is short. Two fingers are enough for an id
to be free below one that is in use.

In `VideoChannel` two starts are what it takes to find something of the first
in the second, and three steps of another page are to open, to have the phone
project, and to close: with them the channel starts before the page has
subscribed, which it cannot do with one page alone. Two views are what a change
of view takes. Within these bounds a start that is missed, a stop that
is missed and a stray start, the exceptions in the properties, all occur.

In `UsbDevices` two impls of one phone are what it takes for one to replace the
other, and the other phone keeps the lock taken meanwhile. Two events on their
way let a phone leave and come back before either is delivered. Impls are used
again, so phones come and go without end.

In `MessagePipeline` four frames are two messages of two frames each, mixed on
the stream, or an event of two encrypted frames that a third meets in the mutex,
and one more. The second session is for what the first may leave behind. Both
exceptions of `EventuallyDispatched` are needed within these bounds: without
either of them TLC finds the property violated.

The two violated runs are disagreements between the code and its own
assertions:

* `cryptor_assertion` (`NodeCryptor.ts:33`, `this.cleartext === undefined`). The
  user's request for a Bluetooth device waits for the lock and the phone
  connects by itself meanwhile. The user's request connects the device; the
  self-connection, still queued, is then refused because somebody is connected,
  which disconnects that same device with `SELF_CONNECT_REFUSED`, a reason that
  does not stop the dependencies. The next connection finds the cryptor started.
  Since `START_FAILED` does not stop the dependencies either, this repeats until
  a disconnection is requested for some other reason.
* `usb_open_assertion` (`UsbDevice.ts:328`, `!this.opened`). `connectImpl` opens
  the device, and nothing closes it again: not when a later part of
  `connectImpl` fails, and not `disconnectImpl`. The device is available again
  all the same, and until the phone leaves the bus every attempt to connect it
  fails the assertion.

Other weaknesses of the code that came up while it was modelled are conditions
of properties or exceptions in them:

* `Service.ts:99` asserts `this.started` when a service stops. A disconnection
  stops the dependencies before it looks at the device. A transport that ends
  and a pinger that gives up both ask for one; the second finds nothing started,
  and if another device has been connected in between, it is that device's
  session that is stopped. This is the exception in `SessionKept`. And since a
  refused self-connection does not stop the dependencies, `NoLeakedSession` is
  only proved without Bluetooth devices: with them it is false of the code.
* Bluetooth: an attempt that is left behind makes the next one fail, at the
  assertion of `waitForMessage` (`BluetoothDeviceWifiConnector.ts:109`), until
  its timer fires. If it was aborted in its first write, its wait for the network
  information is registered after that and stays for ever (`:143-148`):
  `MessageWaitsEnd` names this as its exception. The TCP socket an abandoned
  attempt gets is never closed. A phone that connects its profile while the
  device is not available is only logged (`BluetoothDevice.ts:102`).
* Life cycle: `stop` returns at once while the server is starting or is being
  stopped already, and the quit that called it ends the program
  (`electron/src/main.ts:88`), so `OrderlyQuit` excludes a hurried quit; it does
  not see a device that is being connected (`AndroidAutoServer.ts:678`), so it
  excludes a request to connect that is under way. `stop` waits for
  `connectionLock` when a device is connected; if a `doStart` that never settles
  holds it, the program does not end (`QuitExits`). A paired device that goes
  between BlueZ's list and the listeners (`BluetoothDeviceHandler.ts:149-159`)
  stays listed, and throws in `addDeviceHook` when it comes back; both properties
  about the lists except it (`lost`).
* TCP: a host that does not answer one scan is removed, and added again as
  another object by the next, even while it is connected; a host whose address
  changes keeps the old one (`TcpDeviceHandler.ts:68-77`).
* Frames: `appendUint32BE` (`BufferWriter.ts:71`) makes room for two bytes and
  writes four. The first frame of a message beyond 16 KiB throws, the others are
  sent, and the phone gets the end of a message without its beginning. The second
  half of `FramesRoundTrip` says just this. `readUint32BE` (`BufferReader.ts:27`)
  reads 16 bits of a total size that nothing compares.
* Touch: an event left of or above the canvas is dropped (`Video.vue:183`), also
  the one that ends a touch. The finger stays in `pointerPositionMap`, and every
  event tells the phone of it until its id is used again: `TouchesFollowPointers`
  has such fingers as its exception (`strays`). A pointer that was pressed off the
  canvas and never listed may go up on it: the event then has no `actionIndex`
  (`Video.vue:205-226`), which is that of the first finger in the list, and the phone
  takes that one off until the next event, the second exception (`dropped`).
* Configuration: a variable whose text holds a marker gets that marker replaced
  in place of the one meant (`config-loader/src/index.ts:61`). In the same place
  `String.replace` gives a meaning to `$$`, `$&`, `` $` `` and `$'` in the text: a
  variable `pa$$word` is put in as `pa$word`. `ConfigFilledIn` says the second of
  `$$`, and has texts with a marker or with one of the other pairs as its
  exceptions. Variables within variables stay as they are.
* IPC: a call that waits when its socket closes waits for ever
  (`common-ipc/src/renderer.ts:67`), the exception in `CallsAnswered`; a change of
  the device list after the reply was computed and before the subscription
  arrives is not shown until the next one (`device-store.ts:25`), the exception
  `missed` in `DevicesCurrent`.

### Fairness

`Connection!FairSpec` assumes weak fairness of `Progress`: a continuation that
can run does, and `connectImpl` and `disconnectImpl` settle. The event loop
justifies the first; the second holds because every wait in them has a timeout
or ends with a callback of the operating system. Nothing is assumed of users,
devices or phones. Nothing is assumed of `doStart`, which has no such
guarantee: every liveness property of `Connection` has the escape
`DoStartHangs`.

`ControlSession!FairSpec` assumes that messages that have arrived are handled,
that the TLS engine answers, that timers fire (the pinger's interval, every
session's timer) and that the server disconnects when it is asked to and
`doStart` has settled, which is `LockReleased` of `Connection`. Nothing is
assumed of the phone. `SettlesUnlessAbortLost` has one exception, and it is
real: when the timer fires while `doStart` is in the cryptor, nobody listens to
the signal, and the wait that follows is registered on a signal that will not
fire again. If the phone is silent too, `doStart` never settles and the lock is
never released: that is the `doStart` that hangs.

`BluetoothDevice!Spec` assumes that the lock's holder goes on, that BlueZ answers
or its timer fires (`Settle`), that each attempt ends by its own timers and each
write is settled, and that a socket that was destroyed reports its end. Nothing is
assumed of the phone or the users. `Settles` then gives what `Connection` assumes
of `connectImpl` and `disconnectImpl`.

`ServerLifecycle!Spec` assumes that timers fire and that what is awaited settles:
scans, the work of the handlers, the server's, and `start` and `stop`; but not
`doStart`, as in `Connection` (`AwaitsDoStart`). `QuitExits` therefore has the escape
`DoStartHangs`; `ScansCatchUp` needs none, because the handlers have a lock of
their own, and holds while the server's is kept for ever. A scan's interval is
assumed to fire for ever while it is set, and its scans to succeed. `ScansCatchUp`
is about a network that stops changing, which the bound on its changes sees to.
Four objects of a key are what the handlers create while the server answers
nothing; with three they would be kept waiting by the bound.

`Ipc!Spec` assumes that what is under way arrives while both ends are open, that
handlers settle, and that each end of a socket learns of the close of the other.

`UsbDevices!Spec` assumes weak fairness of the handler's own steps: jobs and
events are taken, and each transfer to the phone ends, because the library
bounds its time. Nothing is assumed of phones and server.

`MessagePipeline!Spec` assumes that an engine that has not been stopped and has
been given the record it expects answers. Nothing is assumed of phone,
transport and services.

## 4. Properties, and what each is about

`Connection`, in a run: `DevicesFollowHandlers` (the list follows the handlers,
for names that no other device has and removals in order); steps: `SessionKept`
(a device is connected with its whole session, which is not stopped under it but
by a request to disconnect another); liveness: `LockReleased`, `SelfConnectAnswered`, and `ImplementsSlot`, which includes that
the current connection ends before another begins and that no link stays half
open. Proved and not run: `SingleTransport` (the codec is fed by one device),
`SingleLink`, `ConnectionAgreement` (server and devices agree),
`TransitionsUnderLock`, `SelfConnectPending` (a self-connecting device has its
answer coming), `AllOrNothing` and `ControlRunsLast` (the dependencies),
`NoLeakedSession`, `ConnectionEndsFirst`.

`ControlSession`: `WaitsAreCurrent`; steps: `AbortHitsOwnSession`; liveness:
`SettlesUnlessAbortLost`, `SilentPhoneNoticed`. Proved and not run:
`EncryptedAfterHandshake`.

`BluetoothDevice`: `WaitsAreAwaited` (what the profile handler has registered is
what the holder of the lock awaits: no wait that was given up swallows the event
of a later one), `LossIsNoticed` (a connected device has its profile and its
transport, or its disconnection is asked for), `MessageWaitsEnd` (who may still
wait for a message of the phone); liveness: `Settles`.

`ServerLifecycle`: `ServerFollowsHandlers` (when nothing is under way the server
lists the handlers' very objects, however scans overlapped),
`ProfileFollowsDevices` (a connection of the profile reaches the listed device),
`OrderlyQuit`; liveness: `ScansCatchUp`, `QuitExits`.

`Ipc`: `AnswersHaveCallers` (a reply has exactly one callback to go to),
`RawPaired` (a header is followed by its own bytes), `SubscriptionsFollow` (the
server's counts, with what is under way, are the page's listeners),
`DevicesCurrent`; liveness: `CallsAnswered`.

`MCAlgorithms`: `VideoConfigsFit` (the first configuration holds the display and has
no other that does within it, of which there may be two, as 1280x720 and 1080x1920
for 1000x700, and the first configured is taken; the rest are those within it, each with margins that leave the display's shape),
`ConfigFilledIn`, `FramesRoundTrip`, `TouchesFollowPointers`.

`VideoChannel`: `CodecAssertions` (of `handleData`; proved), `DecoderListensOnce`,
`DecodesOwnStart`, `NativeWithoutClients` (nobody left, nothing projected),
`DisplayedIsProjected` and `HiddenIsNative` (the focus the phone ends with). Three
of them have an exception that is a race in the code. The configuration and the
key frame are sent once, to those who are subscribed, and a page subscribes when
it learns of the start: a page that is late shows nothing until the next start
(`missed`), and one that was not subscribed to the stop either keeps its
listeners, has them twice from the next start on, and decodes the frames of a
start it missed with the configuration of an earlier one (`unstopped`). And
`start` awaits an answer, then has the phone project without looking again
whether anything is displayed (`stray`).

`UsbDevices`: `DetachFindsDevice` (the two maps agree; proved), `StaleSessionNeverUsed`;
steps: `RemovedHasLeft` (a removal does not hit the device a phone has come back
as); liveness: `DetachWithdraws`. They do not say that what is listed is on the
bus, because that is false of the code: a phone that leaves while it is being
added is not in `implUniqueIdMap` yet, its detach event is dropped, and it stays
listed until it comes back. The reset of a stale accessory and the switch to
accessory mode are of that kind, so this is the usual course of things.

`MessagePipeline`: `AggregatorAssertions` (`MessageAggregator.ts:40`, `:52`),
`DispatchedInOrder` (whole, once, of this session, and the encrypted messages of
a service in order), `SentInOrder`; refinement: `ImplementsStreams` (nothing is
dispatched that was not sent to its end, nothing is taken back, and what a session
begins with is nothing); liveness: `EventuallyDispatched`. Plain
messages are in no order with others: an event without encrypted frames
overtakes those that wait for the cryptor. That suits the pings, the only plain
messages after the handshake. The exceptions of `EventuallyDispatched` are
weaknesses of the code that no assertion or comment speaks of, so that they are
stated as its conditions instead of as violated runs. `decryptMutex` is taken
per frame: with two encrypted frames in an event, the frame of the next event
gets between them if it comes while the first is decrypted (`overlapped`). And a
read that waits when the cryptor is stopped keeps the mutex for ever, which is
the mutex of the next session too (`stuck`); `stop` does not make a new one.

## 5. What is proved

All proofs are for any finite or infinite sets of devices, names and signals
(hosts are finitely many), any number of services, rounds, pages, messages and
waiting calls, from the assumptions the modules name: `DependenciesAssumption`,
`ConnectionAssumption`, `ControlSessionAssumption`, `UsbAssumption`,
`BluetoothAssumption`, `IpcAssumption`, `LifecycleAssumption`, `NoneAssumption`,
`VideoChannelAssumption`, `MessagePipelineAssumption` and `TouchAssumption`. They say what kind of
value each constant is, and, where a module has a `None`, that it is none of the
values it stands beside. Each inductive invariant was checked by TLC on the
instance of a run before it was proved.

`Connection_proofs` begins with the dependencies: the outcomes of the two methods
have their type; from all-or-nothing flags, and if no stop throws, they are
all-or-nothing again. Of `Connection`, `TypeOK` alone is not inductive, because
the lock's holder is a request only while `pc` is not idle; `TypeInv` adds that.
The safety properties rest on one inductive invariant, `LinkInv`: the type, that
only announced devices are referred to (`OnlyAnnounced`), that the holder of a
disconnection is disconnecting the device it was called for
(`BeingDisconnected`), `TransitionsUnderLock` and `ConnectionAgreement`.
`TransitionsUnderLock` is the heart of it: a device in `connecting` or
`disconnecting` belongs to the holder, so the steps of anybody else cannot touch
it. `SingleTransport`, `SingleLink` and `ConnectionEndsFirst` follow from it.
`OnlyAnnounced` is needed because an announcement overwrites the state of a
device, which must not be one the server is connected to.

On top of it `NeverHalfStarted` and `WiredLeakFree` are proved under conditions
which the code needs: that no stop of a service throws, that no device is a
Bluetooth one. `ControlLast` and `ConnectedKeepsSession` need none of them:
whichever step leaves a device connected has started all its dependencies, or
leaves them alone, or serves a request for another device. `SelfConnectNotForgotten` follows the
request through the queue. `ImplementsSafeSlot` proves the safety part of the
refinement: each step of `Connection` is a step of `ConnectionSlot` or leaves
the slot alone. `ListFollowsHandlers` needs the order of the queue
(`RequestsInOrder`): no removal of a device that is present waits, and behind
every addition of one that is gone its removal follows.

`Services_proofs`, of `ControlSession`: the inductive invariant `SessionInv` is the
type, that a running session has a signal, that a listener is on a signal only
while its callback is registered (`ListenersWait`), `WaitsAreCurrent` and
`EncryptedAfterHandshake`. `ListenersWait` is what makes a timer of an earlier
session harmless: it finds no listener. `TypeCorrect` is the type part on its own.

`Services_proofs`, of `TouchScreen`: `TouchesFollowPointers` speaks of the fingers
and not of their ids, on which it rests. `TouchInv` adds that pressed pointers
have ids of their own (`PressedOwnIds`), that the list of fingers has one entry of
an id (`OnceEach`), an entry for every pressed pointer on the canvas
(`PressedListed`), and none besides but of pointers that went up off it
(`ListedPressed`), and that the phone, once it has heard of the component, knows
that very list, less the finger the last event took off by mistake (`PhoneKnows`). A new pointer is given the least id that is free; that there is
one below the number of pointers is the pigeonhole lemma `NewIdIsFree`.

`Services_proofs`, of `VideoResolutions`: `OfferFitsDisplay` says of every display and
every list of configurations what `VideoConfigsFit` says of the inputs TLC tries. The
hypotheses are what the code needs: a list that is not empty, and a display less
than 1440 times as wide as it is high and 960 times as high as it is wide, beyond
which the shorter side of a scaled video rounds to nothing. A loop of the code is
a fold here, and the fold of a sequence is shown to have a value at each of its
prefixes (`FoldExists`, by induction), so that `KeptIs`, `SupportedIs`, `BestIs` and
`FlattenIs` can follow the loop. The arithmetic is in `Shape`: from two quotients
that are off by one half at most, the proportions of what is left of a video.

`Services_proofs`, of `FrameWire`: what `FramesRoundTrip` says of the inputs TLC
tries, for all of them. `ReceivedHoweverCut` is about the way from bytes to frames:
the frames of the phone lie on the wire one behind the other (`Laid`), the chunks
end in places of it, and after every chunk the frames that end before that place
are decoded, and the bytes kept are those from there to the place (`DecodesAll`,
from `DecodesNext` and `DecodesNoMore`, which follow a round of the loop). By
`DecodesAll` the bytes kept never begin with a whole frame, so that the next chunk
finds them where it needs them. `MessagesReceived` goes on to the messages: the
aggregator has, of each service, what its frames so far carry of the message that
is open, and frames of other services change nothing of it (`OneService`). Its
hypotheses say that the phone splits each message somehow (`Carry`: the first and
the last frame are marked, the payloads make up the message) and keeps the order
of the frames of a service. That `split` of the server does so is `SplitCarries`, which
takes the arithmetic of the pieces from `PiecesAre`. `ShortMessageReceived` and
`LongMessageHeadless` are what becomes of a message of the server, which
`appendUint32BE` decides.

`BluetoothDevice_proofs`: `TypeOK` is inductive, once it is known that a step
that leaves an attempt behind, or starts one, names an attempt of `Attempts`.
`WaitsAreAwaited` is not: an attempt that fails after its connection was given up
aborts its signal, and must not find a listener there that belongs to a later
wait. `WaitInv` adds that the only such listener is the current attempt's
(`GuardedByCurrent`), which the end of the wait removes in every one of the ways
it may end. `LossStaysNoticed` adds that a connected device is in no wait of
`connectImpl` and that the attempt which is awaited has its socket (`LossInv`).
`MessageWaitsStayBounded` is inductive with the types alone: each of the ways an
attempt ends takes its callbacks along, but the one its exception names.

`ServerLifecycle_proofs`: `LifeInv` is the type, that a handler works on its own
devices only (`WorkInv`), what holds in each phase of `start` (`PhaseInv`), and
that `stop` waits for one disconnection (`StopInv`). `OrderlyQuit` needs `QuitInv`
besides: the device `stop` asks to disconnect stays the connected one until it
is disconnected, and nobody is on the way to being connected meanwhile, unless
`stop` did not see a request (`late`). `ProfileInv` is about the order of a
handler's work on an address: additions and removals alternate (`Heard`), so that
neither the profile nor `deviceMap` ever refuses one of them. `FollowInv` says the
same of the server's list: the last request about a device that waits for
`connectionLock` is what the handler did last, and when none waits it is done.
The exception `lost` is needed in both: an address that BlueZ withdraws between
its list and the listeners breaks the alternation.

`Ipc_proofs`: `TypeOK` is inductive for any number of pages; the messages of a
queue are a sequence from which one is taken at one end while several are added
at the other, which `PostType` and `DeliverType` state once. The four safety
properties rest on `EndsInv` (nothing is on its way to an end that is not open)
and on one invariant each:

* `RawInv`: a header in the queue is followed by its bytes, and a header that was
  taken has its bytes next, unless the socket has closed;
* `CallInv`: a call is in one place at a time, on its way, at the handler or on
  its way back, and its id is below the next one of its helper, so that an id that
  is given out is not one that is waited for;
* `CountInv`: the server's count and the subscriptions on their way add up to the
  page's listeners (`Balance`), and no prefix of them withdraws more than there
  is, which is why the count is never asked to go below zero;
* `ListInv`: the last message on its way that brings the device list brings the
  current one, or the handler that will is running already.

`VideoChannel_proofs`: `CodecInv` says what each end of a channel leaves for the
next start: without a session no streaming, without streaming a stopped codec,
and a buffer only while the first frame is awaited. `CodecAssertions` follows,
for any number of sessions, starts and pages. The properties of the page rest on
its types and on `SocketInv`: a page that is gone has left at most its close on
the way, and until the server has a page's first subscription, the page has been
told nothing. Then

* `NobodyMakesItProject` (`NativeWithoutClients`) follows the subscriptions to the
  start of the channel;
* `HiddenMakesItNative` and `DisplayedMakesItProject` say what the phone will have
  been told when everything on its way has arrived (`NativeWill`,
  `ProjectedWill`): the last focus in the page's queue decides, or in the phone's
  when there is none, or an answer is still to come that will. They assume
  `MaxOther = 0`. That is no weakness of the proof: with a second page they are
  false, because that page tells the phone its own focus. TLC checks them in
  `video_focus`, which has one page for that reason;
* `ListensOnce`: between two starts in the page's queue there is a stop
  (`OnceInv`), unless one was sent while the page was not subscribed to it;
* `DecodesOwn`: what a frame finds when it reaches the page is said at its place in
  the queue (`AllFind`): the last message before it that matters opened the page,
  brought the configuration of the frame's start, and its key frame. `Ready` says
  it of the next message of the phone, and `HeardInv` that a page that came after
  the start hears nothing of it. For the second half, `CleanInv` says that no
  frame finds the configuration of another start;
* `TypeCorrect`: of the type the bound on the counts of `subscribed` is not
  inductive, because the page subscribes as often as it is told of a start.
  `Balance` adds up what the server has counted, the subscriptions on their way to
  it and the starts on their way to the page: the sum grows only when a channel
  starts or a page or its store begins. `Bounded` is what is left of it for a page
  that is gone, until its socket is closed.

The attempt to prove `DecodesOwnStart` as it was first stated failed, and for a
reason. It said that no frame is ever decoded with the configuration of another
start, and that is false: a page that is not subscribed to the stop when it is
sent keeps its decoder and its configuration, and can be given frames of the next
start whose configuration it missed as well. The property now says that every
frame to which that happens is of a start that was missed, and that there is none
if the page was told of every stop.

`UsbDevices_proofs`: `MapInv` (the type, that an impl is entered under its own
serial number, and `DetachFindsDevice`) is inductive. `RemovedHasLeft` needs the
order of everything that is on its way, which `OrderInv` states: while the
detach event of an impl is under way, either it was never added, or the impl its
phone is back as has only an attach event, behind it (`DetachInOrder`); and no
call in front of a removal, nor the lock's holder, nor the list, has an impl on
the bus with that serial number (`RemoveInOrder`). The delivery of the event
turns the first into the second. `OrderServe` is the one lemma for all steps of
the lock's holder. `StaleInv` adds that an impl that was there before the
handler listened is nowhere on its way as a new one.

`MessagePipeline_proofs`: `SentInOrder` says nothing of what waits for the
cryptor, so `IInv` adds it: unless the encryption is stuck, what waits is of this
session, after everything that is out and in order (`WaitingInOrder`), and
everything that was sent in this session is out or waits (`NoneMissing`), which
is what shows that the next frame leaves no gap. Without a session nothing waits
except for ever (`IdleOutside`).

Of the way in, `DispatchedInOrder` and `AggregatorAssertions` say nothing of
frames that are still on their way, and one frame out of place there breaks both.
`Kept` states what is true of them, as a predicate of the aggregator, the tasks,
the stream and the phone, so that each step is a lemma about its arguments:
the stream from the buffer on is whole frames from the first to the last
(`Whole`); each task's frames are in the order of their records, those before its
next one decrypted and the others not (`NextAfter`), and of two tasks the
encrypted frames of one all come before those of the other (`Before`, either way
round, because a task that asks for the mutex again goes behind the next event);
the stream comes after all tasks (`StreamLast`); what the aggregator of a service
has is the beginning of one message (`Partial`); and the frames of the service on
the way lead from that beginning to the message the phone has open (`Chain`). The
engine accepts records one after the other, so that the task which is done has
all its frames before those of the others (`LinedDone`), and by `Chain` each of
them is what the aggregator expects (`TakeEncrypted`). When a task waits for ever
since an earlier session, `Chain` does not hold, and need not: no encrypted frame
reaches the aggregator again (`KeptLost`). Plain frames take any place, and only
need to be in one task (`Disjoint`).

`ReceivesStreams` is the refinement of `MessageStreams`. It adds to the invariant
that a frame which ends a message, on the way or dispatched, is of one that the
phone has sent to its end (`EndSent`): the frame that makes it so is the one that
raises `Completed` (`PhoneCompletes`), and every step of the transport or the
engine only takes frames from the way and adds messages that end with one of
them behind those that are there (`AggregateAllGrows`). So each of these steps is
a `Receive`, one of the phone a `Send` or nothing, and those of the way out nothing.

The library's theorems about induction take an operator as a parameter and cannot
be used here. Where a proof needs induction over the positions of a queue or over
the steps of a recursive function or a fold (the listeners of a page, `HandleOn` in
`VideoChannel`, the frames of an event in `MessagePipeline`, the lists of
`VideoResolutions`, the chunks and frames of `FrameWire`), it argues with the least
position at which the claim fails: `LeastNumber` gets it from the theorem that the
natural numbers are well-founded, and `Induction` and `CountUp` state the principle
for sets of numbers.

Only model-checked: that variables are filled in as the configuration names them
(`ConfigFilledIn`), of recursive operators; `VideoConfigsFit` and `FramesRoundTrip`
as `MCAlgorithms` states them, of the inputs it enumerates, beside these recursive
operators (the theorems above say the same of all inputs); the liveness properties and the liveness half of
`ImplementsSlot`, which are beyond the prover.

## 6. Not modelled, and the plan

Not modelled at all, with the reasons in `PROJECT.json`: renderers, the web
interface, the codec parsers (calls of a library), the builder, window placement
and logging, the OpenSSL cryptor (native calls), the audio channels (a native
library and a timer), and the services that only forward messages. Of the parts
that are modelled: the protocol messages themselves, acknowledgements and
timestamps of media, the interface and the transfers of USB, the message ports of
Electron, and the stores that hold the last value they were told.

What has been planned and is done: the connection and its dependencies, the
control session, the message pipeline, USB devices, the video channel, the
Bluetooth device, the IPC layer with the device list, the life of the server with
the TCP and Bluetooth handlers, the pure computations and the touch screen.

Left, the most important first:

1. `UsbDevices` composed with `Connection`, which so far assumes that a device is
   announced before it is removed.
2. The audio channels with the delayed stop of `NodeRtAudioOutputService`, and
   the acknowledgements of media (`AVOutputService.ts:118`: the buffer of the last
   Start survives the session).
