# Verification of reai-board-sdk

TLA+ models of the ReAI board SDK (`src/`), the TLC runs that check them and the
theorems TLAPS proves about them. Line numbers are those of the sources in `src/`;
`PROJECT.json` maps every definition that models code to the lines it stands for.

To check: `tlc -workers 2 -config X.cfg M` for a run, `tlapm M.tla` for a proof module.
Definitions whose comment begins with `Mutant:` are never used by a specification: each
stands for a plausible bug of the definition after it, and `PROJECT.json` names the
property that finds it.

## 1. The system

The SDK connects a host to a small keyboard with a knob, a mode switch and a
microphone, over USB HID or over BLE (a vendor GATT service). The core is a Rust library
(`src/src/`). The board's audio can be offered to other programs as a virtual
microphone: a Core Audio plug-in on macOS, built on the library libASPL, and a WaveRT
driver on Windows (`src/virtual-mic/`, C++). Beside them are a Flutter package with its
own BLE half in Dart and a codec.

```
   application thread(s)            tokio tasks                       OS threads
  start shutdown disconnect    HotplugManager::run  --opens-->  HidMonitor
  connect_ble set_auto ...         |        \                   Config + Consumer loops
        |                          |         \                         |
        v                          v          v                        v
   BoardDeviceCore  <---callbacks--+     VendorGattClient        KeyStateAggregator
   connection_type, started,             epoch, running,         held, prev_all_pressed
   ble_target, ble_auto_connect,         pending_responses,             |
   ble_bound_by_other, lease ...         notification task              v
        |                                     |                   broadcast of events
        +------------- commands -------------+---------------->  board (firmware)
                                              | audio packets
                        UsbVendorAudioReader  v
                              decoder threads -> EncodedAudioDecoderSink -> application
                                                                              |
       macOS: datagrams -> Driver.cpp ring -> libASPL device -> HAL     <-----+ virtual
     Windows: IOCTL/write -> PcmFeed -> WaveRT stream -> audio engine   <-----+ microphone
```

### 1.1 Components

| component | source | state it keeps | operations | modelled in |
|---|---|---|---|---|
| Connection lifecycle | `runtime/hotplug.rs`, `runtime/device.rs` | connection type, started gate, stop flag of the last manager, BLE target, auto-connect, "bound to another host"; one control point per manager | detect, USB session, BLE session, pacing, notify; start, shutdown, disconnect, connect_ble, set_auto_reconnect, reset_host_binding_state | `BoardLifecycle` |
| GATT client | `runtime/ble/gatt_client.rs` | connection epoch, running, closing reason, peripheral, pending answers, task handle, write lock | connect, notification loop, send_command_and_read_response, finish, disconnect | `GattSession` |
| BLE admission | `runtime/ble/handshake.rs` | none across attempts; the board has a gate with a three-second deadline | admit, verify_identity, probe_device, ensure_active | `Handshake` |
| Key aggregation | `kernel/key_aggregator.rs` | keys held per interface, last union, last Config mask | report_change, then its sends | `KeyAggregator` |
| USB key monitor | `runtime/usb/monitor.rs`, `kernel/consumer_hold.rs` | running flag, ledger of held Consumer keys, time of the last knob step, mode contact, voice key | two reading loops, stop | `UsbKeyMonitor` |
| Board audio frames | `gatt_client.rs`, `usb_hid_audio.rs`, `kernel/audio.rs`, `kernel/sink.rs` | gate and route epoch, two bounded queues with drop counts, sequence tracker | set_audio_enabled, notification task, USB reader, decoder threads, on_packet | `AudioFrames` |
| macOS microphone | `virtual-mic/driver/Driver.cpp` | UDP socket, ring of samples | receive, push, pop | `SampleRing`, `MacMic` |
| libASPL device I/O | `libASPL/src/Device.cpp`, `Bridge.g.cpp` | clients, start count, anchor and period of the clock | add, remove, start, stop, zero time stamp, I/O operations | `MacMic` |
| libASPL configuration | `Device.cpp`, `Stream.cpp`, generated setters | settings, queue of changes, stream counters, owner | setters, add/remove stream or control, perform, abort, attach, detach | `AsplDevice` |
| libASPL registry and properties | `Dispatcher.cpp`, `Object.cpp`, `*.g.cpp` | numbers in use, map from numbers to objects | register, unregister, look up; has, settable, size, get, set | `AsplRegistry`, `AsplProperties`, `AsplBridge` |
| libASPL value container | `DoubleBuffer.hpp` | two buffers with index and lock | get, set | `DoubleBuffer`, `AtomicValue` |
| Windows driver, PnP | `adapter.cpp`, `common.cpp`, `vbmcontrol.cpp` | devnode states, adapter object and its references, subdevices, control device, feed | DriverEntry, AddDevice, StartDevice, PnpHandler, DriverUnload, the control device's IRPs | `AdapterLifecycle` |
| Windows driver, stream | `minwavertstream.cpp`, `pcmfeed.cpp` | feed ring, KS state, buffer, position with carries, packets, timer | SetState, buffer calls, position queries, timer callback, feed read and write | `WaveRtStream`, `PcmFeed` |
| System device discovery | `runtime/ble/system_devices.rs` | - | list of system-connected devices | as one outcome of `ScanFound` |
| USB command exchange | `runtime/device.rs`, `runtime/usb/device_manager.rs` | cached HID connection, monitor pause flag | cmd_via_usb, PauseGuard | not yet (8) |
| Audio route | `runtime/device.rs` | lease, capability cache with epoch | control_audio_stream, start_board_audio, heartbeat | not yet (8) |
| Firmware update | `dfu/`, `runtime/device.rs`, `facade/device.rs` | offset and retries of the job on the HID thread; the slot with the cancel flag; the bootloader's stage | start_dfu_upgrade, cancel_dfu_upgrade, recover_from_dfu | `Dfu` |
| Bindings blob | `kernel/bindings_blob.rs` | the board's buffer and stored blob | read, write, commit, read-back | not yet (8) |
| Flutter package | `flutter/reai_board_sdk/lib/src/` | command slot, reconnect generation, audio route | connect, command, reconnect | not yet (8) |
| Codecs, probing, mSBC, facade, examples | `kernel/protocol_*.rs`, `runtime/usb/probe.rs`, `msbc-decoder/`, `facade/` | - | pure functions, forwarding, platform I/O | not modelled (7) |

### 1.2 How they interact, and what is hard about it

- **Several managers.** `start()` spawns a task and stores its stop flag; `shutdown()`
  clears the flag and returns without waiting. A second `start()` runs beside the first
  manager, and both publish into one connection state and drive one GATT client.
- **Calls at any await.** The manager commits through callbacks, then sends the event.
  `disconnect()` and `shutdown()` commit `None` from another thread, `disconnect()` only
  after it has awaited the client.
- **Sessions by number.** A notification task outlives its session. Everything it and a
  waiting command do is guarded by the epoch they were born in; the closing notice
  (`notify_waiters`) is heard only by those who armed before it.
- **A board with a deadline.** A bound board drops every command but the identity and
  closes the link after three seconds. The same reason code, 3, announces a refused
  identity and a missed deadline; an unbound board also answers with a refusal.
- **One value for many keys.** The Consumer interface carries one usage at a time; `0x0000`
  means both "all keys up" and "the knob's pulse is over". The code tells the two apart
  by a window of 100 ms.
- **Locks given back before sends.** The aggregator computes events under its mutex
  and sends them after it, so two threads' events interleave on the channel.
- **Losses in two places.** Packets get lost in the air and in a full queue. The number
  in the packet wraps, the encoder restarts, the gate closes and opens with packets of
  the old route in the queue, and each frame has to say what is missing before it.
- **Packets without a position.** The bootloader appends what a DATA packet brings, and
  the host repeats a packet whose answer it did not see. What stands between a doubled
  packet and the board's only firmware is a comparison of lengths, and what frees a board
  whose transfer was broken off is the same comparison, made to fail.
- **A real-time thread that must not wait.** HAL reads the macOS ring and libASPL's
  double buffers while other threads write them, without a lock between them.
- **HAL decides when.** A libASPL device in use may change only inside HAL's
  PerformConfigurationChange; requests queue up while the device is taken out, put back,
  and changed by several threads.
- **A position without hardware.** The Windows stream computes its position from the
  clock with carried remainders whenever anybody asks, while a timer callback runs on
  another processor and a state change takes several steps.
- **Every start can fail half way.** A devnode's start makes ten things; some are global
  to the driver, and requests to stop and remove come in several orders.

### 1.3 What makes each component correct

- *Lifecycle*: the connection type is always that of an open session; every commit is
  announced; no BLE link is left that nobody watches; a block by another host is
  respected; a lost link is reported and tried again, a cable wins, a stopped manager
  ends.
- *GATT client*: an answer belongs to the session of its command; an answer that came is
  not lost to a simultaneous close; nobody waits on a dead session; an old task does not
  touch a new session.
- *Admission*: what it concludes is true of the board; only a real refusal stops
  reconnecting; friends are served, strangers are left.
- *Firmware update*: nothing but the whole firmware is installed, whatever is repeated, cut
  off or cancelled; a reset always takes the board out of DFU mode.
- *Keys*: no key is shown pressed that nobody holds; a knob step releases nothing;
  however the threads end, nothing stays pressed.
- *Audio frames*: what a frame reports as missing is what is missing; nothing new is
  refused as old; the host answers for its own queue only.
- *macOS microphone*: a read is a run of consecutive samples; the handler follows the
  clients; the clock advances by whole periods.
- *libASPL*: gets and sets are atomic, objects are found by their numbers and live while
  used, the five calls about a property agree, changes settle on what was asked last and
  happen only when HAL lets them.
- *Windows driver*: nothing outlives its devnode, a started microphone can be fed, what
  is heard is what was written, where the position says, and a pause is a pause.

`PROJECT.json` lists the hazards behind these, each at its line, with the properties
that would notice.

## 2. Modules

Each component is one module: constants with named assumptions, one action per step of
the code between two awaits (cut again where another actor can come in between: a lock,
a callback, a send), then the properties. A control point is named after the function it
is in.

| module | what it is |
|---|---|
| `ConnectionContract` | what the lifecycle promises, in five actions: publish, close, announce, withdraw, say gone |
| `BoardLifecycle` | hotplug managers, the application's calls and the client as they see it; refines the contract |
| `GattSession` | the client's sessions, notification tasks, commands and closers |
| `Handshake` | admission attempts against the kinds of board, over an unreliable radio |
| `Dfu` | upgrade and recovery against the bootloader, over a cable that can be pulled |
| `KeyAggregator` | the shared key state and the events on their way out |
| `UsbKeyMonitor` | the two USB threads on top of `KeyAggregator`, which it EXTENDS and implements |
| `AudioFrames` | an audio packet's way from the host's edge to the application |
| `SampleRing`, `MacMic` | the macOS ring; the I/O side of a libASPL device and HAL on top of it |
| `AtomicValue`, `DoubleBuffer` | an atomic value; libASPL's two buffers, which implement it |
| `AsplDevice` | configuration changes of a libASPL device, by several threads and HAL |
| `AsplRegistry`, `AsplProperties`, `AsplBridge` | object numbers and lives; the property tables as functions; HAL's calls, composing both |
| `PcmFeed`, `WaveRtStream` | the Windows feed ring; a capture stream over it |
| `AdapterLifecycle` | the Windows driver between load and unload |
| `MCVbMicDriver` | the two composed: a stream on an adapter that has been started |
| `MCBoardDialogues` | `Handshake` and `Dfu`: the two dialogues of the host with a board |
| `MCLibAspl` | `AsplDevice` and `DoubleBuffer`: a device and the container of its values |
| `MC*` | instances for TLC |
| `BoardLifecycleProofs`, `GattSessionProofs` | theorems about the module they are named after |
| `UsbKeyMonitorProofs` | theorems about `KeyAggregator` and the two threads on top of it |
| `BoardDialoguesProofs` | theorems about `Handshake` and `Dfu` |
| `AudioProofs` | theorems about `SampleRing`, `MacMic` and `AudioFrames` |
| `VbMicDriverProofs` | theorems about `AdapterLifecycle`, `PcmFeed` and `WaveRtStream` |
| `LibAsplProofs`, `AsplBridgeProofs` | theorems about `AsplDevice` and `DoubleBuffer`; about `AsplRegistry`, `AsplProperties` and `AsplBridge` |

### 2.1 BoardLifecycle

A manager's `pc` walks through `run` (hotplug.rs:612-707): `wait` is the poll in which
it looks for USB, then BLE. The USB session is `usb_open` → `commit_usb` → `send_usb` →
`usb_probe` → `usb_live` → `usb_end` (855-977). The BLE session is `gate` → `scan` →
`recheck` → `store` → `connect`/`dialing` (connect_with_pacing) → `linked` → `listen` →
`admit` → `admitted` → `commit_ble` → `send_ble` → `ble_live` → `ble_end` (1017-1202).
Every way out of a link goes through `dropping`, which is the await inside
`client.disconnect()`; `after` says where the code goes on from there. `usb_end`,
`ble_end` and `fail_end` are the three places that call `notify_disconnected`, which
commits `None` (`End`) and sends the event (`SendNone`).

The callbacks of `start()` are `Commit` and `End` (device.rs:334-339, 1139-1148).
`conn` is `connection_type`, `seen` the last `Connection` event. `stopped` is the set of
managers whose flag was cleared: `shutdown()` can only reach the flag in `slot`. A call
that awaits is split at its awaits (`DisconnectCall`, `DisconnectDrop`,
`DisconnectJoin`, `DisconnectCommit`, `DisconnectSend`).

The client is reduced to what the loop can tell: `running`, the peripheral slot, the OS
link and whether a task listens. `GattSession` looks inside.

Identity: a peripheral is its name. Two objects of one board share an OS link, which is
what `LinkDown` needs; sleeps are left out, and a scan, a dial or an admission may end
in any of its outcomes at any time.

### 2.2 GattSession

Epochs number the connections. Each has one notification task (`task[e]`), which
delivers answers (`Reply`), key events, the closing notice CMD 0x60 (`DeviceCloses`) or
finds its link gone (`TaskEnds`). A call goes `lock` → `register` → `write` → `wait` →
`leave`; `armed` is its future of `connection_closed`, enabled before the session is
checked, and `rx` its oneshot. `Leave` is the code after the select: the oneshot is
tried once more, the registration withdrawn, the lock given back. Two closers, the
manager and a user, run `disconnect()`: slot and flag first, then the link, then the
join of the task whose handle they found, with the abort after three seconds
(`CloseAbort`) if it does not end.

### 2.3 Handshake

The host's `step` is the command it awaits or its place in `admit`; `got` is that
command's result. The board is one of the kinds handshake.rs's own tests build: bound
to this host, bound to another, unbound, old with or without capabilities, and one that
announces host binding but never answers. `Reply` and the gate are the firmware as those
tests and comments describe it and are marked external. The radio may lose or garble a
packet or drop the link, the board may go to sleep, an answer or a discovery may be late:
each is a fault, and a behaviour has at most `MaxFaults` of them.

### 2.4 Dfu

The board is what `dfu/` says of the firmware and is marked external: PREPARE tells it a
length, START empties the stage, DATA appends to it, END compares the stage's length with
the one told, installs or discards, and restarts; before a PREPARE it ignores END
(recover.rs:3-16). Two things are not said and both happen in the model: whether PREPARE
alone empties the stage, and whether a stage of the right length is looked at more
closely. The packets of the firmware are numbered, and the image is a sequence of numbers.

`hid` is the job that runs on the HID thread of macOS, where one job follows another, and
`at` the packet it is at: `Write`, then `ReadAnswer` or `ReadTimesOut`; `Attempted` is
what the code makes of the result. An upgrade goes `wait` → `prepare` → `start` → `data` →
`end` → `reboot` (client.rs:50-140); every failure and a cancellation go to `reset` →
`reset_end` (`send_recovery_sequence_on`), which is also what a recovery runs. A recovery
then polls in jobs of its own (`PollRescue`). `slot` is the facade's one place for the
flag of the upgrade that can be cancelled.

Faults are: a packet refused without a reason, a lost or a late answer, a failing write,
a slow restart, a pulled cable, the death of the process. `stale` remembers that the host
took an answer that came after its timeout for the next packet's: `read_response` does not
look at the packet an answer is for. Elsewhere than on macOS the jobs of two calls may run
side by side; that is not modelled.

### 2.5 KeyAggregator and UsbKeyMonitor

`Report` is the critical section of `report_change`: the reporting interface's entry is
replaced, the union is compared with the last one and the events go into the reader's
outbox. `SendReleased`, `SendPressed` and `SendCombo` then send them one by one, while
the other reader does as it likes. `view` is a subscriber of the channel.

`UsbKeyMonitor` adds what feeds it. The Consumer thread reads a frame, asks the ledger
for batches (`TailFrame`, `ClearFrame`, `KnobFrame`, `KeyFrame`, `UnknownFrame` are the
branches of `ConsumerHeldTracker::on_frame`), tells the mode, reports the batches and
releases the voice key. The window of 100 ms is the flag `pulse`. The hand and the
firmware (`Press`, `Release`, `Turn`, `Stray`) are external. They are assumed to be what
the measurements in consumer_hold.rs:31-44 say: a tail is read within the window, and
after a step whose tail was lost nobody lets go of the last key within the window. The
second is an assumption on the hand. Without it the ledger keeps a released key, which
the source accepts as the price of the window. The aggregator has no run of its own: the
monitor implements it (`MonitorImplementsAggregator`), and its theorems cover both.

### 2.6 AudioFrames

A packet is its number in the order the board made them; `Seqno` and `Flagged` give what
its envelope says, from a numbering that wraps and that starts elsewhere after the
encoder's restart. `Arrives` is the air or the cable: packets may be missing, doubled or
late. On BLE `Poll`, `Stamp` and `Send` are the notification task between its loads of
the gate and of the route epoch, and `SetAudioEnabled` and `BumpRoute` the two atomics of
`set_audio_enabled` (gatt_client.rs:585-589), so the gate may close between any two. On
USB the reader drops the oldest report and charges the next one (`DropOldest`). The
decoder thread takes, passes over or decodes; `OnPacket` is
`EncodedAudioDecoderSink::on_packet` with `Observe` (the sequence tracker) inside.

### 2.7 SampleRing and MacMic

`SampleRing` has every load and store of `head`, `tail` and a slot as a step; the
receiver binds, receives a datagram, pushes sample by sample and ends on an error or an
empty datagram, as the code does (Driver.cpp:118-121). `MacMic` puts HAL and libASPL's
device above it: each bridge call looks the device up, the device counts its clients'
starts, tells the handler of the first and the last, answers the clock and lets a client
read. The I/O mutex is held for the length of a call; only a read, which copies out of
the ring, takes more than one step.

HAL is assumed to keep its own contract: it stops only what it started, removes a client
after its stop, changes the configuration with I/O stopped, and asks only for operations
the device promised.

### 2.8 DoubleBuffer

Every load, store, lock and unlock of `Get` and `Set` is a step, and the assignment of a
value has a beginning and an end (`Torn` in between). The shared mutex is the C++
library's: a writer that wants it turns new readers away first and waits for the old
ones. `AtomicValue` is what the class comment promises (DoubleBuffer.hpp:21-46), and the
mapping takes what a reader's reference refers to *now* for its answer (`Held`), so a
reference that changed under its reader would be no behaviour of `AtomicValue`. The index wraps at
`MaxIndex`; that no single attempt of a reader lasts a whole lap of 2^63 sets is assumed
(`NoFullLap`), without it the second look at the index proves nothing.

### 2.9 AsplDevice, AsplRegistry, AsplProperties, AsplBridge

`AsplDevice` has the asynchronous setters of a device and a stream, adding and removing
streams and controls, and a thread that takes the device out of its plug-in and puts it
back. What is done under the device's mutex is one step, unless a stream's mutex has to be
waited for.
`Settled` is where the queue would lead if HAL performed all of it now.

`AsplRegistry` is the dispatcher: bitmaps of numbers that grow by chunks, registration,
destruction that waits for the readers of the old map, and the look-up in its three
steps. `AsplProperties` has the generated switches as functions of class, selector and
content. `AsplBridge` lets HAL's threads hold a conversation about a property, one call
at a time, while the driver changes the object or lets it go.

### 2.10 PcmFeed, WaveRtStream, AdapterLifecycle, MCVbMicDriver

In `WaveRtStream` a KS state change takes its steps one by one (`RunArm`, `RunDone`,
`PauseCancel`, `PauseFlush`, `PauseSettle`, `PauseDone`), the timer's callback may run
between them, and every query calls `UpdatePosition` with both of its carries. A byte is
its number in the order the feed accepted it.

`AdapterLifecycle` has one PnP request at a time, each step that can fail an action, with
the adapter object's references counted by who holds them; programs hold the control
device and a stream. `MCVbMicDriver` composes the two: the stream of a devnode moves only while
the adapter rests in a state with that stream open, and the adapter only while the
stream has not been touched. They share nothing but the existence of the feed's ring,
so interleaving them further would only multiply the two spaces.

## 3. Runs

| run | instance | states | what it shows |
|---|---|---|---|
| `life_one` | 1 manager, 2 boards, all calls, start and shutdown overlapping, failing enumerations, an unknown HID bus | 1.54 M | no unwatched link; a block holds; the contract is implemented |
| `life_live` | 1 manager, 2 attempts, connect_ble, auto-reconnect, reset, shutdown; fair | 21,128 | a stopped manager ends, a lost link is reported, a cable wins, a wanted board is reached and kept |
| `gatt` | 2 callers of one command, 2 connections, 2 closers; fair | 562,186 | own answers, no lost answers, no sleeping calls, harmless old tasks |
| `dialogues` | admission: every board, with and without a token, 5 faults; firmware: 1 upgrade, 1 recovery, 2 packets, 3 faults; fair | 181,188 | truth of every conclusion, friends are served, strangers left; only the whole firmware is installed, a reset frees the board |
| `usb_keys` | a knob key that both interfaces report, the voice key, a mode contact, an Enter key; 2 frames waiting, 1 status | 1.34 M | what is shown follows the hand, knob steps release nothing, the mode follows, exits release all |
| `audio` | BLE in both envelopes and USB; 5 packets, one late or foreign, queues of 2, 2 gate calls, a restart | 4.45 M | exact losses, nothing new refused, the host answers for its own queue |
| `driver` | Windows: 2 devnodes, 1 handle, 4 starts; a stream opened twice, a buffer of two packets | 2.64 M | nothing outlives its devnode, failed starts leave nothing, a started microphone can be fed; what is heard, where, and when it is still |
| `lib_aspl` | a device with 2 threads and HAL, each behaviour with a few settings and objects that interact; a container with 2 readers, 2 setters, 5 sets, an index that wraps at 3 | 182,116 | queue and lists agree in the end, the last value asked for stands, nothing changes outside HAL's call; gets and sets are atomic, getters return |
| `aspl_bridge` | every selector of every class with one object; the life of three and four with numbers running out | 2.36 M | no dangling object, every object is found, the five calls agree |
| `mac_mic` | 2 clients; a ring of 4 with 5 samples, or a clock of 3 ticks with 3 starts | 1.06 M | reads are windows, the clock advances by periods whoever starts and stops |
| `audio_undecodable` | USB, no gate calls needed | - | a counterexample (section 6) |
| `dfu_completed` | 1 upgrade, 1 fault | - | a counterexample (section 6) |

`dialogues` and `lib_aspl` each hold two systems that do not meet: one moves while the other
is as it began (for `dialogues`: while a board of another host has been left alone). Their
states add up and do not multiply, and every property is one of either system. In `lib_aspl`
the driver's two threads are interchangeable: the temporal properties look at the container
only, and while it moves neither thread is in a call.

Beside them are configurations that are not among the runs: two larger or separate
instances that pass, `BoardLifecycle_restart.cfg` (two managers, 1.2 M states) and
`AdapterLifecycle.cfg` (the PnP life alone, 366 k states, with deadlock checked), and
those that reproduce the counterexamples of section 6.

### Bounds, and why they are enough

- *Managers.* One manager reaches every branch of the loop; two are the least that
  share the client and the state. What `BoardLifecycle_restart.cfg` checks for two is
  proved for any number.
- *Boards.* Two names tell "another target" from "the same target"; no branch compares
  three.
- *Attempts.* The pacing is one loop with a counter: 1 makes it fall through, 2 (in
  `life_live`) makes it turn once. The bound on `tries` is proved for every `Attempts`.
- *Epochs.* Guards compare an epoch with the current one only, so "mine" and "a later
  one" are all the cases; 2 gives both.
- *Callers.* The write lock is held by one and waited for by another. A third waits as
  the second does.
- *Faults.* Five allow the identity to fail twice, the probe to fail and the next
  attempt to be disturbed too. The proofs have no bound.
- *Firmware.* Two packets are the least that can be doubled with the length still coming out
  right: one twice and the other missing. Three faults fail a packet three times, or twice
  and then the reset too. The length a reset declares fits no stage.
- *Keys.* One key per role, and the knob shared by both interfaces, so that a key of two
  holders occurs.
- *Frames waiting.* A knob step sends two, so two frames are the least that let a step,
  a stray and a key press queue up in either order.
- *Audio.* The number counts modulo 16 from 14, so five packets cross the wrap; a queue
  of two is full after two; two gate calls close and open it. The assumptions: no loss
  is as long as half the numbers (32,768 packets in the code), and no packet from before
  a restart comes after one from since.
- *macOS ring.* Capacity 4, high 2 and low 1 stand for 16384, 4800 and 1600. A ring of
  four slots wraps, fills and passes the high mark within five samples. The proof has no
  bound at all. The two halves of `Bound` are two plays because samples and time do not
  meet.
- *Double buffer.* `MaxIndex` 3 makes a lap of four sets; five sets are more than a lap.
- *libASPL device.* Plays group the settings that read or write one another; `UIntMod` 4
  lets an unsigned counter wrap if it is ever decremented below zero. `MaxCalls`,
  `MaxRequests`, `MaxMoves` and `MaxAborts` bound the calls of the threads, the queue, the
  removals and returns of the device, and HAL's aborts.
- *Registry.* Chunks of two numbers and a hint of three make the number space grow
  and a number be used again with four objects.
- *Windows stream.* A byte takes two milliseconds and a millisecond two ticks, so both
  remainders occur; the buffer holds two packets, the ring two bytes, and seven ticks let
  the buffer wrap with a pause in between.
- *Devnodes.* The second devnode is the one whose start must fail; a third does the
  same. Four starts allow a failed one, a stop and a start again for both.

### Fairness

- *Managers, calls in progress, notification tasks* (`Fairness` of BoardLifecycle): weak.
  Each is a tokio task or a thread in a function whose awaits all have timeouts.
- *GoodRadio*: strong fairness of finding, dialing, listening and admitting. It says the
  board is there and works if it is tried for ever. `life_live` assumes it, and without
  it "reconnects" would be a claim about radios. Each liveness property of reconnection
  also assumes that the wish stays and the link stops dropping.
- *GattSession*: weak, for the steps of calls, the end of tasks and closers. No answer
  and no timeout is fair, so `CallsEnd` is not the work of the timeout.
- *Handshake*: weak, for the board, the delivery, the timeouts and the manager. Faults
  have no fairness and are finitely many.
- *Dfu*: weak, for the board, its restart and the steps of a job: every read and every wait of
  dfu/ has a timeout. Calls, cancellations and faults have no fairness.
- *DoubleBuffer*: weak, for the steps of a getter only. A setter may stop for good at
  any step and a reader may keep its lock, which is what "does not block" is about.

`life_live` leaves the user's `disconnect` out (`RemoteCalls`): with it `LostLinkReported`
and `Reconnects` fail, for the reason of `BoardLifecycle_latecommit.cfg` in section 6.

`CHECK_DEADLOCK FALSE` stands where the system may come to rest: both key threads have
ended, a served or blocked host has no faults left, or the bounded packets, calls, sets,
samples and ticks are used up.

## 4. What is proved

Every invariant and every action property of the runs is a theorem; of what the runs
check, only liveness is not (section 5). All proofs are for every value of the constants
under the assumptions named in the modules, and none of them uses the bounds of the runs.
The assumptions say that names do not clash (`None` is no caller, a stream is no volume
control, "hal" is no thread), that a count is positive, or one of these:

| assumption | what it says | why it may be assumed |
|---|---|---|
| `SizesAssumption` (AudioFrames) | no loss is as long as half the sequence numbers; a drop-oldest queue has room for two | 32,768 packets are minutes of audio; both queues hold 64 |
| `ExactAssumption` (WaveRtStream) | a buffer and a packet last whole milliseconds | the sizes the engine asks for at the one rate the driver has |
| `UIntAssumption` (AsplDevice) | a device has fewer streams than 2^32 | each one is an object in memory |
| `DfuRecoveryLength` (Dfu) | what a reset declares is no length an upgrade can stage | 0x40000 bytes are no whole number of packets of 250 |
| `KnobAssumption`, `EndpointAssumption` | the roles of keys | the tables of consumer_hold.rs |

Three theorems have a hypothesis of their own, stated in them: `OneManagerNeverSwitches`
and `OneManagerLeavesBoard` assume a single manager (an application that starts its
device once), because with two the property is false: the second may be past the gate when
the first marks the board. `AnswersAlwaysAgree` assumes `OwnNumbers`: a driver's custom
properties use none of the numbers of a class's built-in ones, as the run does.
libASPL describes them as "in addition to builtin properties" (Object.hpp:51-52) and does
not check it.

**BoardLifecycleProofs.** `LifeTypeCorrect`: the inductive `TypeInv` adds to the type
invariant that a manager about to dial has an attempt left; without that the bound on
`tries` is not inductive. `LifecycleImplementsContract`: under the refinement mapping
`open <- OpenSessions`, `told <- Announced` a commit is a `Publish`, an `End` a `Close`,
the sends are `Announce`, the calls of the application are `Withdraw` and `SayGone`, and
everything else is invisible (`HiddenSteps`). `ConnectedAlwaysBacked` and
`LinkAlwaysWatched` are inductive as they stand once types are known: a manager leaves
the set of those that watch only by a step that takes the link, or the type, with it.
`QuietAlwaysDisconnected` needs more, since the last event and the state are written by
different steps: `SeenIsOwed` says that while the last event names a transport some
manager has an open session or a disconnection still to send. `OneManagerLeavesBoard`
is `BoundStopsBle`: the one manager looks at the gate before it dials, and it is itself
the one that marks the board, on its way out of the session.

**GattSessionProofs.** One invariant, `GattInv`: types, `OwnAnswer`, `AnswerKept`,
`NoDeadEntry`, `KeysReleased`, and what makes them inductive: `EpochsOK` (an answer comes
from the epoch a call was born in or a later one, and no epoch ahead of the present one has
a task) and `CallsOK` (a call has a result only at its end and nothing before it is
registered). `OldTaskAlwaysHarmless` is the action property, from the same.

**BoardDialoguesProofs, admission.** `ClaimAlwaysTrue`, `RefusalAlwaysReal` and
`AudioAlwaysAfterIdentity` follow from `AdmissionInv`. The conclusions are drawn from
values, so the invariant carries their meaning along: `Tells(cmd, value)` is what a value
proves about the board that sent it, and it holds of every notification under way
(`NotesTrue`) and of the result in hand (`GotTrue`). It also says that an identity is
only sent by a host with a token (`AskedByToken`), that a status is only asked after a
refusal (`StatusAfterRefusal`), that reason 3 comes from a bound board only
(`ReasonTrue`) and that a conclusion lives as long as its session (`ClaimInSession`).

**BoardDialoguesProofs, firmware.** `OnlyFirmwareInstalled` for any number of packets,
faults, upgrades and recoveries. A DATA packet carries no position and an answer no
reference to its question, so `DfuInv` relates what the host has sent and had answered to
what the board has staged: of the stage a beginning covers the packets up to `offset`, in
order if it is exactly as long, and only repetitions of the present packet follow (`DataOK`,
`Covers`); hence a stage of the right length is the firmware (`Whole`). The retry bound
keeps every stage shorter than what a reset declares (`StageOK`), a step that has its answer
was accepted or has a refusal before it (`Announced`), and an END under way finds what its
sender saw, whoever runs now (`EndsOK`). All of it holds until the host takes an answer that came
after its timeout for that of a later packet (`stale`), the case `InstallsOnlyFirmware`
excludes.

**UsbKeyMonitorProofs, aggregator.** `PhantomInv` says that `prevAll` is the union of what
is held, that a key a subscriber sees is in it or has its release waiting in some outbox,
and that a press waiting to be sent is of a key its reporter still holds. The last is what
makes it inductive: a reader reports again only after it has sent. `NeverPhantomHold`
follows; for a key of one interface only, `ExactInv` strengthens it to an exact view
(`ViewAlwaysExact`) and alternating events (`EventsAlwaysAlternate`).

**UsbKeyMonitorProofs, the two threads.** `MonitorImplementsAggregator`: `MonSpec =>
AggSpec`, so the theorems of the aggregator hold of the two threads
(`MonitorNeverPhantomHold`). `MonInv` adds to `PhantomInv` that every batch still to be
reported holds the whole ledger (`LedgerOK`), that nothing the ledger holds is about to be
released (`HoldOK`) and that the voice key follows it (`VoiceOK`); from it
`ExitAlwaysReleases`, `HeldAlwaysPressed` and `VoiceAlwaysFollows`. `HoldAlwaysFollows`
and `ModeAlwaysFollows` look back to the hand over a wire of any length: `FollowInv` says
that each 0x0000 on it will be taken for what it is (`TailsOK`; `Open` computes whether the
knob's window is open when it arrives), that a key that is down is in the ledger or on the
wire with no release behind it (`HandOK`), the same of the switch contact (`SwitchOK`), that
the last status report waiting is the switch's position (`StatusOK`), and that with none
waiting the mode has been told, is about to be, or is on the wire (`ModeOK`).

**AudioProofs, the Mac's microphone.** `ReadAlwaysWindow` for any capacity and water marks:
`RingInv` relates head and tail to the numbers of samples accepted and consumed modulo the
capacity, says that the slots between them hold the samples between them (`SlotsOK`), that
the producer's check still holds when it writes (`ProducerOK`) and that a read in progress is
on its way from its mark to the head it saw (`ReadingOK`). It rests on lemmas on remainders
(`SameSlot`, `Shift`, `Distance`, `Back`) that come down to `NoMultipleBetween`.
`HandlerAlwaysFollows` from `CountInv`, by cardinalities. `ClockAlwaysAdvances` from
`ClockInv`: the last stamp lies on the line through the anchor with the present rate's
ticks, which are kept from the first time that rate was seen.

**AudioProofs, the board's frames.** `FrameInv`: the tracker stands at the newest packet
taken since its reset (`TrackerOK`), nothing from before the encoder's restart follows what
was made since (`RestartOK`), and what was lost at the host's queue is accounted for
(`LossOK`). The last would be a sum over the queue, for which the prover has no induction;
it is stated by a witness instead: some running total `p`, from the decoder back to the
sender, grows by at least each entry's drops and ends within what was lost. A step of the
queue shifts or extends the witness. From it `LossAlwaysExact`, `OnlyOldEverRefused` and
`LossAlwaysLocal`, the first two with the arithmetic of half the number range.

**VbMicDriverProofs, stream and feed.** `StreamInv`, for any buffer, ring, rate and clock:
the unread bytes lie in their places (`FeedOK`), what SetState has done so far decides what
the timer may still do (`ControlOK`), `HeardInOrder` (the bytes on the tape are the feed's, in
order and without repetition, silence apart) and `AudioWhereReported` (the buffer
holds the tape at the position told), and the position is never behind the notifications
(`ClocksOK`): some number of whole milliseconds has been counted by both, with the two carries
and the time not yet counted on either side. `AlwaysHeardInOrder`, `AudioAlwaysWhereReported`,
`CountedPacketsFilled` and `PausedAlwaysStill` follow. `CountedPacketsFilled` speaks, as its
property does, of
the time since the notification clock was reset: `staleCarry` is what a start left over.

**VbMicDriverProofs, adapter.** `LifeInv` has a part for the PnP request (`PnpOK`), one for
the control device, its link and the ring (`ControlInv`: whole unless it is being made,
made only while nobody relies on it) and one for the adapter object (`AdapterInv`: it
exists exactly as long as somebody refers to it, a start has installed no more than it notes,
a devnode that is not started holds nothing). From it `RemovalAlwaysClean`,
`FailedStartAlwaysClean` and `StartedAlwaysFed`.

**LibAsplProofs, the container.** `BuffersSafe` is the invariant: the current buffer is whole
and untouched; the other holds the previous value or turns every reader away. With
`NoFullLap`, a reader that sees its index again after locking has the value of that index.
`ReferenceImmutable` follows, and `BufferIsAtomic`: the switch is a set's instant, the
second look at the index a get's.

**LibAsplProofs, the device.** Applying a list of changes is a recursive function
(`ApplyAll`), and what is proved of it comes from its course (`Course`: one state per
change applied) by looking at the least place where a claim would fail. `ApplyConcat` splits
a queue; `QueueSets` says that a setting comes to the value of the last change that names it.
`DeviceInv` then has the locks (`LocksOK`: who works off the queue has the device's mutex
throughout, and has taken the device out of the plug-in or is HAL), a stream's setter whose
value stays acceptable because it keeps the stream's mutex (`SettersOK`), the order of the
queue and HAL's copy of it (`QueueOK`: the requests still queued are the last ones HAL was
told of, and there are none when nobody would work them off), the last value accepted
for each setting against the queue (`AskedOK`), and lists that were never set (`ListsOK`:
while a list stands for the one value in force, nobody has asked for another). That last
part is what a test would hardly find: a queued setter compares again when it is
applied, with a getter that falls back on other settings, and could therefore skip the
value asked for last. `ObjectsOK` counts the objects. From it `ChangesAlwaysSettle`,
`LastAcceptedAlwaysWins` and `ConfigurationIsHals`.

**AsplBridgeProofs.** `RegistryInv`: where every thread is in an operation decides where its
object is in its life (`ThreadsOK`, `LifeOK`), numbers in use are distinct and exactly those
the allocator counts (`NumbersOK`), an object is in the map until its destructor erases
it (`MapOK`), and whoever reads an object that is in the map no more is one of those the erasure
waits for (`ReadersOK`). From it `NothingDangles` and `ObjectsAreFound`. `AnswersAlwaysAgree`
needs `TalkInv` (the answers of an undisturbed talk are those the object would give again)
and `HandlersAgree`, the table of every class and selector: what is settable, sized, got and
set is had, and the sizes agree whatever the buffer.

Proving corrected the models in two places, where a CASE had overlapping arms and TLC took the
first: the Get of a stream's property (`AsplProperties`) and the answer to a status question
(`StatusDone` of `Handshake`). Both are exclusive now, in the order of the code. `AsplDevice`
applies a queue with a recursive function in place of a fold, and looks for a request in the
queue by its place.

## 5. What is only model-checked

The liveness properties: `ShutdownEnds`, `LostLinkReported`, `CableWins`, `Reconnects`
(`life_live`), `CallsEnd` (`gatt`), `FriendServed`, `StrangerLeft`, `ResetFreesBoard`
(`dialogues`) and `GetterReturns` (`lib_aspl`). They rest on fairness and ENABLED, which the
prover does not handle. The two counterexamples of section 6 that are runs, and the
configurations beside the runs, are TLC's by nature. The safety the liveness leans on (the
contract, the own answer, the truth of a claim, the whole buffer) is proved.

## 6. Where the code and its words part

The run `audio_undecodable`: `on_packet` returns when no frame of a packet decodes
(sink.rs:168), after the tracker has taken the packet's number and before its loss is
reported, so the next frame has all three loss signals clear. By USB every packet is one
frame. CHANGELOG.md:303 says "Frames lost to decoding are now reported through
`local_drop_frames`", and the comment after the return (sink.rs:171) gives the same reason.

The run `dfu_completed`: an END that could not be written, was not answered or was answered
with an error is only logged (client.rs:118-125), the wait for the restarted board may run
out (337-341), and the upgrade reports Completed either way. types.rs:28 says of Completed
that the upgrade is done and the board back in normal mode.

Each of these configurations, kept beside the runs, lets TLC find the behaviour:

- `BoardLifecycle_disconnect.cfg` (`DisconnectSticks`): `disconnect()` reads the
  connection type and returns if there is none, so a manager that is scanning or dialing
  connects after it (device.rs:507 against its comment at 501-502).
- `BoardLifecycle_shutdown.cfg` (`ShutdownSticks`): a USB open that ends after
  `shutdown()` commits `Usb` on a stopped device, until the loop looks at its flag
  (hotplug.rs:899 against facade/device.rs:163).
- `BoardLifecycle_latecommit.cfg` (`ConnIsCurrent`): `disconnect()` commits `None` over
  whatever has been published while it waited (device.rs:519 against
  facade/device.rs:455).
- `BoardLifecycle_switch.cfg` (`ConnectBleSwitches`): a BLE session is not left for
  another target (hotplug.rs:1148 against facade/device.rs:438).
- `GattSession_steal.cfg` (`SessionHasListener`): a `disconnect()` overtaken by a new
  session takes that session's listener (gatt_client.rs:947 against its comment at
  953-954).
- `Dfu_claims.cfg` (`CancelHasTarget`, and with `-continue` also `FailureResets`): a second
  `start_dfu_upgrade` takes the slot of the first one's flag and empties it when it is refused,
  after which `cancel_dfu_upgrade` does nothing though an upgrade runs (facade/device.rs:370 and
  377 against 381); and an upgrade that is cancelled while the board restarts into DFU mode
  returns without opening it, so the board stays there (client.rs:307 against mod.rs:21).
- `AsplDevice_cycle.cfg` on `MCLibAspl` (`NoCircularWait`): a stream's setter holds the
stream's mutex
  (Stream.g.cpp:77) and asks for the device's (Device.cpp:1591); the thread that takes the
  device out holds the device's (1619) and asks for the stream's (Stream.g.cpp:93), and so
  does PerformConfigurationChange (1683). Device.hpp:938 says the method "handles possible races with
  RequestConfigurationChange()".
- `AdapterLifecycle_handle.cfg` (`ControlIrpsStayHere`): an IRP for the control device is
  known by comparing with a pointer that `VbmDeleteControlDevice` clears
  (vbmcontrol.cpp:182) while a handle may be open; the next write or close of that handle
  goes to PcDispatchIrp (302, 217, 258). adapter.cpp:351 says control-device IRPs are
  routed to the feed handlers.
- `WaveRtStream_restart.cfg` on `WaveRtStream` (`PacketsFilled`): a stop does not clear the
  remainder the packet arithmetic carries, so after a restart in the middle of a packet
  the next packet is counted complete before it is filled (minwavertstream.cpp:814, "Completed
  packet"). `PacketsFilledSinceReset` says that nothing else does that.

Others were met while reading, without a model of their own:

- USB audio drops the oldest report whatever it is: the count goes to the next report
  in the queue, which may be the answer to a command and loses it, and a dropped
  answer is counted as audio (usb_hid_audio.rs:95-104). For sequenced packets the tracker
  corrects both, and USB packets always have a number. A restart's flag travels on
  one packet and is lost with it.
- The client's audio gate is left open by `disconnect()` and `shutdown()`; the later
  callback finds no previous connection to clear (device.rs:505-520, 487-499 against 420).
- A full macOS ring drops the new samples, so without a reader the newest audio is
  missing, not the oldest (Driver.cpp:38-40 is about the reader's side). A datagram of no bytes
  ends the receiver for good. The Windows feed keeps its oldest four seconds while a
  stream is paused (driver-windows/README.md:20, "latency never accumulates").
- libASPL: `StopIO` decrements its count with no check that it is above zero
  (Device.cpp:1162), and `AttachOwner` calls the previous owner with its own mutex held, which
  comes back for it (Object.cpp:191-195).
- common.cpp: `DisconnectTopologies` tests an `ntStatus2` that one branch has not assigned
  (1909-1926); `CopyRegistryKey` closes a handle twice (2638, 2645, 2660);
  `InstallEndpointFilters` overwrites the topology's failure with the wave filter's success
  (2154-2210).
- A failed enumeration counts as a pulled cable in a USB session (hotplug.rs:972 against
  254-255), the USB timeout of a blob command is an error where the documentation says
  Unsupported (device.rs:2099 against 758), `PauseGuard` is one Boolean for nested holders
  (device.rs:2020-2042), and the Dart reconnect checks its generation before its delay
  only (board_device.dart:529).

## 7. What is not modelled, and why

Packet codecs, the binding parser and the mSBC decoder are pure functions with table
tests beside them; the models start where their results are used. USB probing ranks what
the OS enumerates and is represented by whether it finds the board. The facade and the
blocking wrapper forward. The examples, scripts and release tooling are users of the
library.

Inside the modelled parts, left out are: timing as such (deadlines are choices), logging,
event payloads other than keys, modes and connections, and the reason strings. In detail:

- *GattSession*: scanning by name; answers are matched by command code as in the source,
  and two commands of one code cannot be told apart there either.
- *Dfu*: two jobs at once, which macOS excludes; a last packet shorter than the others; what the
  pause of the key monitor is for; the checksum, which makes a damaged packet a refused one.
- *AudioFrames*: one session; the ends of threads; sinks that wrap the decoder; a late
  packet in the old envelope, which has no number to tell it by.
- *MacMic*: the processing of volume and mute, the output half, and a change of handlers
  while I/O runs.
- *AsplDevice, AsplBridge*: the synchronous setters no queue is involved in, the parents'
  references to children, getters of a driver that are absent (a custom property always
  has one here), custom selectors equal to native ones, and notifications to HAL.
- *AdapterLifecycle*: power states and idle power, GetFilters and RemoveEndpointFilters
  (which nothing calls while the driver runs), registry copying.
- *WaveRtStream*: format checks, SetFormat, the list of notification events, the render
  side the sample keeps, the tone generator.
- *The rest of the Windows driver*: property handlers of the filters that read or write
  one value, and savedata.cpp, which a capture-only driver does not reach.
- *The rest of libASPL*: the storage wrapper, tracing, and volume curves in floating
  point.

The share of implementation lines reported for the map counts the C++ under
`virtual-mic/`, where about a third is covered. The Rust library, which carries the SDK's
own logic and
most of the models, is not in that count.

## 8. Plan

Modelled so far, in this order: keys, lifecycle and contract, USB monitor, GATT session,
admission; the macOS ring, libASPL, the Windows driver; the audio frames; the firmware update.

Next, by what can go wrong in them:

1. `AudioRoute`: the lease and its heartbeat, the client's gate over a disconnect, and the
   capability cache with the epoch of `commit_connection_state` (device.rs:1068-1391), on
   top of `AudioFrames`. Abstract specification: audio flows only for the present lease of
   the present session.
2. `UsbCommand`: `cmd_via_usb`, its cached connection, late and foreign answers, and
   `PauseGuard` with an upgrade or a recovery around it (device.rs:1489-1765, 2020-2042).
3. `BlobTransfer`: `read_blob` and `write_blob` with a lost commit and a concurrent writer
   (bindings_blob.rs:352-500). Abstract specification: an atomic register.
4. `FlutterBoard`: command slot and reconnect generations of board_device.dart.

Next proofs: those of the modules above as they are written; `ImplementsContract` for the
planned `AudioRoute` in the manner of `BoardLifecycle`; of the present modules only liveness is
left, and that stays with TLC.
