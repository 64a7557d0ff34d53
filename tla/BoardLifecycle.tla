---------------------------- MODULE BoardLifecycle ----------------------------
(***************************************************************************)
(* The connection lifecycle of one BoardDevice: the hotplug main loop      *)
(* (src/src/runtime/hotplug.rs), the connection state it publishes into    *)
(* BoardDeviceCore (src/src/runtime/device.rs) and the calls an            *)
(* application makes meanwhile on other threads.                           *)
(*                                                                         *)
(* A HotplugManager is one task.  Each start() spawns another; shutdown()  *)
(* only asks the last one to stop.  A step of a manager is the code        *)
(* between two awaits, cut again where it takes a lock a caller can take.  *)
(*                                                                         *)
(* The GATT client is the part of it the loop sees: whether a session runs *)
(* (client.running), the peripheral slot, the OS link and the notification *)
(* task of the current epoch.  fresh[m] says that the epoch m captured is  *)
(* still the current one.  Sleeps are left out; scanning, connecting and   *)
(* the identity handshake end in any of their outcomes.                    *)
(***************************************************************************)
EXTENDS Naturals, FiniteSets

CONSTANTS
    Manager,         \* the hotplug tasks start() may spawn
    Device,          \* BLE device names
    UsbDevice,       \* the name the chip id of the board on the cable gives
    None,            \* no device, no connection type, no manager
    Attempts,        \* BleConnectPacing.attempts
    Calls,           \* the calls the application makes
    ConcurrentCalls, \* start() and shutdown() may overlap on two threads
    HidMayFail,      \* an HID enumeration may be unavailable (HidApi error)
    UnknownHid       \* a target HID sits on a bus of unknown type, not in USB
                     \* mode, and check_interval leaves light checks

Call == {"target", "auto", "reset", "disconnect", "shutdown"}

ASSUME DeviceAssumption == UsbDevice \in Device /\ None \notin Device
ASSUME ManagerAssumption == None \notin Manager
ASSUME TypeAssumption == None \notin {"usb", "ble"}
ASSUME AttemptsAssumption == Attempts \in Nat \ {0}
ASSUME CallsAssumption == Calls \subseteq Call
ASSUME SwitchAssumption == {ConcurrentCalls, HidMayFail, UnknownHid} \subseteq BOOLEAN

VARIABLES
    \* BoardDeviceCore
    conn,      \* connection_type
    started,   \* the started gate
    slot,      \* hotplug_stop: the manager whose stop flag is stored
    stopped,   \* the managers whose stop flag has been cleared
    target,    \* ble_target
    auto,      \* ble_auto_connect
    bound,     \* ble_bound_by_other
    \* the application's calls in progress
    startPc, stopPc, userPc, userPeer,
    \* one HotplugManager each
    pc,
    dev,       \* the device name it scans for, then the one it found
    tries,     \* connection attempts made for this scan result
    after,     \* where it goes when client.disconnect() returns
    taken,     \* the peripheral its client.disconnect() took from the slot
    fresh,     \* its captured connection epoch is the current one
    \* VendorGattClient, as the managers and disconnect() see it
    running, peer, up, notify,
    \* the cable, and what a subscriber was last told
    usb, seen

core == <<conn, started, slot, stopped, target, auto, bound>>
callers == <<startPc, stopPc, userPc, userPeer>>
session == <<dev, tries, after, taken, fresh>>
client == <<running, peer, up, notify>>
lifeVars == <<core, callers, pc, session, client, usb, seen>>

ConnType == {"usb", "ble"}
Name == Device \cup {None}

\* A BLE link the client may hold: from connect() to client.disconnect().
LinkedPc == {"linked", "listen", "admit", "admitted", "commit_ble", "send_ble",
             "ble_live"}
BlePc == {"scan", "recheck", "store", "connect", "dialing", "dropping"} \cup LinkedPc
UsbPc == {"usb_open", "commit_usb", "send_usb", "usb_probe", "usb_live"}
EndPc == {"usb_end", "ble_end", "fail_end"}
Pc == {"off", "wait", "gate", "mark", "send_none", "done"} \cup BlePc \cup UsbPc \cup EndPc

LifeInit ==
    /\ conn = None /\ started = FALSE /\ slot = None /\ stopped = {}
    /\ target \in Name /\ auto \in BOOLEAN /\ bound = FALSE
    /\ startPc = "idle" /\ stopPc = "idle" /\ userPc = "idle" /\ userPeer = None
    /\ pc = [m \in Manager |-> "off"]
    /\ dev = [m \in Manager |-> None]
    /\ tries = [m \in Manager |-> 0]
    /\ after = [m \in Manager |-> "wait"]
    /\ taken = [m \in Manager |-> None]
    /\ fresh = [m \in Manager |-> FALSE]
    /\ running = FALSE /\ peer = None /\ up = FALSE /\ notify = FALSE
    /\ usb \in BOOLEAN /\ seen = None

Goto(m, from, to) == pc[m] = from /\ pc' = [pc EXCEPT ![m] = to]

\* is_stop_requested, and the still_wanted closure of run_ble_session.
Stopped(m) == m \in stopped
StillWanted(m) == ~Stopped(m) /\ auto /\ target = dev[m]

\* What an HID enumeration reports of the cable: an unavailable HidApi looks
\* like no device at all.
UsbFound == usb
UsbNotFound == ~usb \/ HidMayFail

-----------------------------------------------------------------------------
(* run and wait_for_device: USB first, then the remembered BLE target.     *)

StopManager(m) ==
    /\ Stopped(m)
    /\ Goto(m, "wait", "done")
    /\ UNCHANGED <<core, callers, session, client, usb, seen>>

\* run_usb_session begins by lifting the block of another host's binding.
DetectUsb(m) ==
    /\ ~Stopped(m)
    /\ UsbFound
    /\ Goto(m, "wait", "usb_open")
    /\ bound' = FALSE
    /\ UNCHANGED <<conn, started, slot, stopped, target, auto, callers, session, client, usb, seen>>

DetectBle(m) ==
    /\ ~Stopped(m)
    /\ UsbNotFound
    /\ target # None /\ auto
    /\ Goto(m, "wait", "gate")
    /\ UNCHANGED <<core, callers, session, client, usb, seen>>

\* Mutant: the block is not consulted.
GateOpen(m) ==
    /\ Goto(m, "gate", "scan")
    /\ dev' = [dev EXCEPT ![m] = target]
    /\ UNCHANGED <<core, callers, tries, after, taken, fresh, client, usb, seen>>

Gate(m) ==
    /\ IF bound
       THEN Goto(m, "gate", "wait") /\ dev' = dev
       ELSE Goto(m, "gate", "scan") /\ dev' = [dev EXCEPT ![m] = target]
    /\ UNCHANGED <<core, callers, tries, after, taken, fresh, client, usb, seen>>

-----------------------------------------------------------------------------
(* run_usb_session                                                         *)

UsbOpened(m) ==
    /\ usb
    /\ Goto(m, "usb_open", "commit_usb")
    /\ UNCHANGED <<core, callers, session, client, usb, seen>>

UsbOpenFailed(m) ==
    /\ Goto(m, "usb_open", "fail_end")
    /\ UNCHANGED <<core, callers, session, client, usb, seen>>

\* probe_usb_device_info_paced: a checked reply names the BLE target; a
\* stopped or unanswered probe leaves it alone.
UsbProbed(m) ==
    /\ Goto(m, "usb_probe", "usb_live")
    /\ target' \in {target} \cup (IF Stopped(m) THEN {} ELSE {UsbDevice})
    /\ UNCHANGED <<conn, started, slot, stopped, auto, bound, callers, session, client, usb, seen>>

\* monitor_hid_while_connected: stopped, or the periodic enumeration (or the
\* reading thread) no longer finds the board.
UsbGone(m) ==
    /\ Stopped(m) \/ UsbNotFound
    /\ Goto(m, "usb_live", "usb_end")
    /\ UNCHANGED <<core, callers, session, client, usb, seen>>

-----------------------------------------------------------------------------
(* run_ble_session up to the link                                          *)

ScanFailed(m) ==
    /\ Goto(m, "scan", "wait")
    /\ UNCHANGED <<core, callers, session, client, usb, seen>>

\* With no target any board's name is accepted by the scan.
ScanFound(m) ==
    /\ Goto(m, "scan", "recheck")
    /\ \E d \in Device :
          /\ dev[m] \in {d, None}
          /\ dev' = [dev EXCEPT ![m] = d]
    /\ UNCHANGED <<core, callers, tries, after, taken, fresh, client, usb, seen>>

\* The user's intent is read again after the scan ...
Recheck(m) ==
    /\ IF auto /\ target = dev[m]
       THEN Goto(m, "recheck", "store")
       ELSE Goto(m, "recheck", "wait")
    /\ UNCHANGED <<core, callers, session, client, usb, seen>>

\* ... and the found name is stored under a second lock.
StoreTarget(m) ==
    /\ Goto(m, "store", "connect")
    /\ target' = dev[m]
    /\ tries' = [tries EXCEPT ![m] = 0]
    /\ UNCHANGED <<conn, started, slot, stopped, auto, bound, callers, dev, after, taken, fresh, client, usb, seen>>

\* connect_with_pacing: the intent is read before every attempt.
Dial(m) ==
    /\ IF StillWanted(m)
       THEN /\ Goto(m, "connect", "dialing")
            /\ tries' = [tries EXCEPT ![m] = @ + 1]
       ELSE /\ Goto(m, "connect", "wait")
            /\ tries' = tries
    /\ UNCHANGED <<core, callers, dev, after, taken, fresh, client, usb, seen>>

\* A failed attempt drops the partial link and retries or gives up.
DialFailed(m) ==
    /\ Goto(m, "dialing", IF tries[m] < Attempts THEN "connect" ELSE "wait")
    /\ UNCHANGED <<core, callers, session, client, usb, seen>>

\* Mutant: the running flag of the last session is not set again.
DialedNotRunning(m) ==
    /\ Goto(m, "dialing", "linked")
    /\ peer' = dev[m] /\ up' = TRUE /\ notify' = FALSE
    /\ fresh' = [n \in Manager |-> FALSE]
    /\ UNCHANGED <<core, callers, dev, tries, after, taken, running, usb, seen>>

\* connect: a new epoch outdates every captured one and every older
\* notification task.
Dialed(m) ==
    /\ Goto(m, "dialing", "linked")
    /\ peer' = dev[m] /\ up' = TRUE /\ running' = TRUE /\ notify' = FALSE
    /\ fresh' = [n \in Manager |-> FALSE]
    /\ UNCHANGED <<core, callers, dev, tries, after, taken, usb, seen>>

-----------------------------------------------------------------------------
(* client.disconnect(): the slot is emptied at once, the link goes down    *)
(* and the notification task is joined while the caller waits.             *)

ClientDrop == running' = FALSE /\ peer' = None /\ up' = FALSE

\* The OS link of the peripheral taken goes down, whoever connected it last.
LinkDown(d) == up' = (up /\ ~(d # None /\ peer = d))

\* The task of a closed session is joined.  The handle in the slot may by then
\* be a newer session's, whose task is aborted (see GattSession).
Joined == notify' \in {notify /\ running, FALSE}

Drop(m, from, next) ==
    /\ Goto(m, from, "dropping")
    /\ after' = [after EXCEPT ![m] = next]
    /\ taken' = [taken EXCEPT ![m] = peer]
    /\ ClientDrop
    /\ UNCHANGED <<core, callers, dev, tries, fresh, notify, usb, seen>>

Dropped(m) ==
    /\ Goto(m, "dropping", after[m])
    /\ LinkDown(taken[m])
    /\ Joined
    /\ UNCHANGED <<core, callers, session, running, peer, usb, seen>>

-----------------------------------------------------------------------------
(* run_ble_session from the link to the published connection               *)

\* Mutant: an unwanted link is left to the client.
LinkedNoDrop(m) ==
    /\ Goto(m, "linked", IF StillWanted(m) THEN "listen" ELSE "wait")
    /\ UNCHANGED <<core, callers, session, client, usb, seen>>

Linked(m) ==
    \/ /\ StillWanted(m)
       /\ Goto(m, "linked", "listen")
       /\ UNCHANGED <<core, callers, session, client, usb, seen>>
    \/ ~StillWanted(m) /\ Drop(m, "linked", "wait")

\* start_notification_loop needs the peripheral slot; connection_epoch() is
\* read after it.
Listen(m) ==
    /\ peer # None
    /\ Goto(m, "listen", "admit")
    /\ notify' = TRUE
    /\ fresh' = [fresh EXCEPT ![m] = TRUE]
    /\ UNCHANGED <<core, callers, dev, tries, after, taken, running, peer, up, usb, seen>>

ListenFailed(m) == Drop(m, "listen", "wait")

\* handshake::admit; its last act is to find the link of this epoch alive.
Current(m) == fresh[m] /\ running

AdmitOk(m) ==
    /\ Current(m) /\ up
    /\ Goto(m, "admit", "admitted")
    /\ UNCHANGED <<core, callers, session, client, usb, seen>>

AdmitRefused(m) == Drop(m, "admit", "mark")
AdmitFailed(m) == Drop(m, "admit", "fail_end")

\* mark_bound_to_other_host
Mark(m) ==
    /\ Goto(m, "mark", "fail_end")
    /\ bound' = TRUE
    /\ UNCHANGED <<conn, started, slot, stopped, target, auto, callers, session, client, usb, seen>>

\* The intent and the session are read again right before publishing.
Admitted(m) ==
    /\ StillWanted(m) /\ Current(m)
    /\ Goto(m, "admitted", "commit_ble")
    /\ UNCHANGED <<core, callers, session, client, usb, seen>>

AdmittedLate(m) ==
    /\ ~(StillWanted(m) /\ Current(m))
    /\ Drop(m, "admitted", "wait")

\* The monitoring loop ends: stopped, the client no longer running, or a
\* target HID that may be the cable.
UsbPreempts == usb \/ UnknownHid

\* Mutant: the session is only left for the cable.
BleOverForUsb(m) ==
    /\ UsbPreempts
    /\ Drop(m, "ble_live", "ble_end")

\* Mutant: the cable is not looked for during a BLE session.
BleOverForStop(m) ==
    /\ Stopped(m) \/ ~running
    /\ Drop(m, "ble_live", "ble_end")

BleOver(m) ==
    /\ Stopped(m) \/ ~running \/ UsbPreempts
    /\ Drop(m, "ble_live", "ble_end")

-----------------------------------------------------------------------------
(* notify_connected and notify_disconnected: the callback commits the      *)
(* state, then the Connection event is sent.                               *)

Commit(m) ==
    /\ \/ Goto(m, "commit_usb", "send_usb") /\ conn' = "usb"
       \/ Goto(m, "commit_ble", "send_ble") /\ conn' = "ble"
    /\ UNCHANGED <<started, slot, stopped, target, auto, bound, callers, session, client, usb, seen>>

Send(m) ==
    /\ \/ Goto(m, "send_usb", "usb_probe") /\ seen' = "usb"
       \/ Goto(m, "send_ble", "ble_live") /\ seen' = "ble"
    /\ UNCHANGED <<core, callers, session, client, usb>>

End(m) ==
    /\ \E from \in EndPc : Goto(m, from, "send_none")
    /\ conn' = None
    /\ UNCHANGED <<started, slot, stopped, target, auto, bound, callers, session, client, usb, seen>>

\* Mutant: the end of a session is not announced.
SendNoneSilent(m) ==
    /\ Goto(m, "send_none", "wait")
    /\ UNCHANGED <<core, callers, session, client, usb, seen>>

SendNone(m) ==
    /\ Goto(m, "send_none", "wait")
    /\ seen' = None
    /\ UNCHANGED <<core, callers, session, client, usb>>

ManagerStep(m) ==
    \/ StopManager(m) \/ DetectUsb(m) \/ DetectBle(m) \/ Gate(m)
    \/ UsbOpened(m) \/ UsbOpenFailed(m) \/ UsbProbed(m) \/ UsbGone(m)
    \/ ScanFailed(m) \/ ScanFound(m) \/ Recheck(m) \/ StoreTarget(m)
    \/ Dial(m) \/ DialFailed(m) \/ Dialed(m) \/ Linked(m)
    \/ Listen(m) \/ ListenFailed(m)
    \/ AdmitOk(m) \/ AdmitRefused(m) \/ AdmitFailed(m) \/ Mark(m)
    \/ Admitted(m) \/ AdmittedLate(m)
    \/ BleOver(m) \/ Dropped(m)
    \/ Commit(m) \/ Send(m) \/ End(m) \/ SendNone(m)

-----------------------------------------------------------------------------
(* The application's calls                                                 *)

\* start: the gate is taken before the stop flag is stored.
StartGate ==
    /\ ~started /\ startPc = "idle"
    /\ ConcurrentCalls \/ stopPc = "idle"
    /\ \E m \in Manager : pc[m] = "off"
    /\ started' = TRUE /\ startPc' = "gate"
    /\ UNCHANGED <<conn, slot, stopped, target, auto, bound, stopPc, userPc, userPeer,
                   pc, session, client, usb, seen>>

StartSpawn(m) ==
    /\ startPc = "gate"
    /\ Goto(m, "off", "wait")
    /\ slot' = m /\ startPc' = "idle"
    /\ UNCHANGED <<conn, started, stopped, target, auto, bound, stopPc, userPc, userPeer,
                   session, client, usb, seen>>

\* shutdown: close the gate and clear the stored flag; later commit None.
ShutdownFlag ==
    /\ "shutdown" \in Calls /\ stopPc = "idle"
    /\ ConcurrentCalls \/ startPc = "idle"
    /\ started' = FALSE /\ stopPc' = "flagged"
    /\ stopped' = stopped \cup ({slot} \cap Manager)
    /\ UNCHANGED <<conn, slot, target, auto, bound, startPc, userPc, userPeer,
                   pc, session, client, usb, seen>>

ShutdownCommit ==
    /\ stopPc = "flagged"
    /\ stopPc' = "idle" /\ conn' = None
    /\ UNCHANGED <<started, slot, stopped, target, auto, bound, startPc, userPc, userPeer,
                   pc, session, client, usb, seen>>

\* disconnect reads the connection type; without one it returns at once
\* (over USB it returns an error and changes nothing).
DisconnectCall ==
    /\ "disconnect" \in Calls /\ userPc \in {"idle", "returned"}
    /\ \/ conn = None /\ userPc' = "returned"
       \/ conn = "ble" /\ userPc' = "asked"
    /\ UNCHANGED <<core, startPc, stopPc, userPeer, pc, session, client, usb, seen>>

DisconnectDrop ==
    /\ userPc = "asked"
    /\ userPc' = "closing"
    /\ auto' = FALSE /\ target' = None
    /\ userPeer' = peer
    /\ ClientDrop
    /\ UNCHANGED <<conn, started, slot, stopped, bound, startPc, stopPc, pc, session, notify, usb, seen>>

DisconnectJoin ==
    /\ userPc = "closing"
    /\ userPc' = "commit"
    /\ userPeer' = None
    /\ LinkDown(userPeer)
    /\ Joined
    /\ UNCHANGED <<core, startPc, stopPc, pc, session, running, peer, usb, seen>>

DisconnectCommit ==
    /\ userPc = "commit"
    /\ userPc' = "send" /\ conn' = None
    /\ UNCHANGED <<started, slot, stopped, target, auto, bound, startPc, stopPc, userPeer,
                   pc, session, client, usb, seen>>

DisconnectSend ==
    /\ userPc = "send"
    /\ userPc' = "returned" /\ seen' = None
    /\ UNCHANGED <<core, startPc, stopPc, userPeer, pc, session, client, usb>>

\* set_ble_target and set_auto_reconnect; connect_ble(d) is the first with d
\* and then the second with TRUE.
NewIntent == userPc' = IF userPc = "returned" THEN "idle" ELSE userPc

SetTarget(d) ==
    /\ "target" \in Calls /\ d # target
    /\ target' = d
    /\ NewIntent
    /\ UNCHANGED <<conn, started, slot, stopped, auto, bound, startPc, stopPc, userPeer,
                   pc, session, client, usb, seen>>

SetAuto ==
    /\ "auto" \in Calls
    /\ auto' = ~auto
    /\ NewIntent
    /\ UNCHANGED <<conn, started, slot, stopped, target, bound, startPc, stopPc, userPeer,
                   pc, session, client, usb, seen>>

\* reset_host_binding_state
ResetBinding ==
    /\ "reset" \in Calls /\ bound
    /\ bound' = FALSE
    /\ UNCHANGED <<conn, started, slot, stopped, target, auto, callers, pc, session, client, usb, seen>>

CallInProgress ==
    \/ \E m \in Manager : StartSpawn(m)
    \/ ShutdownCommit
    \/ DisconnectDrop \/ DisconnectJoin \/ DisconnectCommit \/ DisconnectSend

NewCall ==
    \/ StartGate \/ ShutdownFlag \/ DisconnectCall
    \/ (\E d \in Name : SetTarget(d)) \/ SetAuto \/ ResetBinding

-----------------------------------------------------------------------------
(* The world                                                               *)

\* The cable is plugged or pulled.
Cable ==
    /\ usb' = ~usb
    /\ UNCHANGED <<core, callers, pc, session, client, seen>>

\* The board goes out of range, sleeps, or closes the link (CMD 0x60).
LinkLost ==
    /\ up
    /\ up' = FALSE
    /\ UNCHANGED <<core, callers, pc, session, running, peer, notify, usb, seen>>

\* Mutant: the end of the stream does not clear the running flag.
NotifyEndsQuietly ==
    /\ notify /\ (~running \/ ~up)
    /\ notify' = FALSE
    /\ UNCHANGED <<core, callers, pc, session, running, peer, up, usb, seen>>

\* NotificationSession::finish of the current epoch's task: closed by the
\* client, or the link is found gone.
NotifyEnds ==
    /\ notify /\ (~running \/ ~up)
    /\ notify' = FALSE /\ running' = FALSE
    /\ UNCHANGED <<core, callers, pc, session, peer, up, usb, seen>>

LifeNext ==
    \/ \E m \in Manager : ManagerStep(m)
    \/ CallInProgress \/ NewCall
    \/ Cable \/ LinkLost \/ NotifyEnds

LifeSpec == LifeInit /\ [][LifeNext]_lifeVars

\* Every await of the loop is bounded by a timeout and every task is run by
\* the tokio runtime, so a manager, a call in progress and the notification
\* task never stop half-way.
Fairness ==
    /\ \A m \in Manager : WF_lifeVars(ManagerStep(m))
    /\ WF_lifeVars(CallInProgress)
    /\ WF_lifeVars(NotifyEnds)

\* A board that is there is found, opened, connected and admitted if it is
\* tried for ever.
GoodRadio ==
    \A m \in Manager :
        /\ SF_lifeVars(UsbOpened(m))
        /\ SF_lifeVars(ScanFound(m))
        /\ SF_lifeVars(Dialed(m))
        /\ SF_lifeVars(Listen(m))
        /\ SF_lifeVars(AdmitOk(m))
        /\ SF_lifeVars(Admitted(m))

FairLifeSpec == LifeSpec /\ Fairness
RadioLifeSpec == FairLifeSpec /\ GoodRadio

-----------------------------------------------------------------------------
LifeTypeOK ==
    /\ conn \in ConnType \cup {None}
    /\ started \in BOOLEAN
    /\ slot \in Manager \cup {None}
    /\ stopped \subseteq Manager
    /\ target \in Name
    /\ auto \in BOOLEAN
    /\ bound \in BOOLEAN
    /\ startPc \in {"idle", "gate"}
    /\ stopPc \in {"idle", "flagged"}
    /\ userPc \in {"idle", "asked", "closing", "commit", "send", "returned"}
    /\ userPeer \in Name
    /\ pc \in [Manager -> Pc]
    /\ dev \in [Manager -> Name]
    /\ tries \in [Manager -> 0..Attempts]
    /\ after \in [Manager -> {"wait", "mark", "fail_end", "ble_end"}]
    /\ taken \in [Manager -> Name]
    /\ fresh \in [Manager -> BOOLEAN]
    /\ running \in BOOLEAN
    /\ peer \in Name
    /\ up \in BOOLEAN
    /\ notify \in BOOLEAN
    /\ usb \in BOOLEAN
    /\ seen \in ConnType \cup {None}

\* The session a manager has committed and not yet withdrawn.
OpenSession(m) ==
    IF pc[m] \in {"send_usb", "usb_probe", "usb_live", "usb_end"} THEN "usb"
    ELSE IF \/ pc[m] \in {"send_ble", "ble_live", "ble_end"}
            \/ pc[m] = "dropping" /\ after[m] = "ble_end" THEN "ble"
    ELSE None

OpenSessions == [m \in Manager |-> OpenSession(m)]

\* The managers that owe no Connection event.
Announced == {m \in Manager : pc[m] \notin {"send_usb", "send_ble", "send_none"}}

Contract == INSTANCE ConnectionContract WITH open <- OpenSessions, told <- Announced

\* The lifecycle implements the contract, whatever calls overlap.
ImplementsContract == Contract!ContractSpec

\* connection() never names a transport without a session on it: no session
\* can end, fail or be shut down and leave its type behind, whichever
\* managers and calls overlap.
ConnectedIsBacked == conn # None => \E m \in Manager : OpenSession(m) = conn

\* The client never holds a running BLE link that no manager is watching:
\* every way out of a BLE session closes it.
LinkIsWatched == running => \E m \in Manager : pc[m] \in LinkedPc

\* When no manager has a session, the state and the last Connection event
\* both say disconnected, whatever failed or was called before.
AtRest == \A m \in Manager : pc[m] \in {"off", "wait", "done"}
QuietMeansDisconnected == AtRest => conn = None /\ seen = None

\* A refused host leaves the board alone: while another host's binding is
\* remembered the one manager is not in a BLE session.
BoundStopsBle == bound => \A m \in Manager : pc[m] \notin BlePc

\* With one manager the connection type goes through None: a subscriber of
\* connection() never sees USB turn into BLE or back.
NoDirectSwitch == [][conn # None /\ conn' # None => conn' = conn]_lifeVars

\* A manager asked to stop ends, from any point of any session.
ShutdownEnds == \A m \in Manager : m \in stopped ~> pc[m] = "done"

\* A BLE link that is lost in a session stops being reported as connected.
LostLinkReported == \A m \in Manager : pc[m] = "ble_live" /\ ~up ~> pc[m] = "send_none"

\* A cable that stays in wins over BLE: the manager ends up in a USB session
\* and stays there.
CableWins ==
    \A m \in Manager :
        <>[](usb /\ ~Stopped(m) /\ pc[m] # "off") => <>[](pc[m] = "usb_live")

\* A wanted board that is not taken by another host and whose link stops
\* dropping ends up connected, and stays connected.
Reconnects ==
    \A m \in Manager :
        /\ <>[](~usb /\ target # None /\ auto /\ ~bound /\ ~Stopped(m) /\ pc[m] # "off")
        /\ <>[][up' \/ ~up \/ peer' # peer]_lifeVars
        => <>[](conn = "ble")

-----------------------------------------------------------------------------
(* Claims of the repository's comments that the code does not keep.        *)

\* device.rs:501-502: disconnect() prevents an immediate reconnection.  From
\* its successful return to the next call that asks for BLE, no BLE
\* connection is published.
DisconnectSticks ==
    [][userPc = "returned" /\ userPc' = "returned" /\ conn' = "ble" => conn = "ble"]_lifeVars

\* facade/device.rs:163: shutdown() stops (disconnects and stops the hotplug
\* loop).  After it no connection is published until the next start().
ShutdownSticks ==
    [][~started /\ startPc = "idle" /\ stopPc = "idle" /\ conn = None => conn' = None]_lifeVars

\* facade/device.rs:455: None means not connected.  While a manager that was
\* not stopped serves the board over USB, the connection type is USB.
ConnIsCurrent ==
    \A m \in Manager :
        pc[m] \in {"usb_probe", "usb_live"} /\ ~Stopped(m) => conn = "usb"

\* facade/device.rs:438: connect_ble to another board makes the hotplug loop
\* switch to it.
ConnectBleSwitches ==
    \A m \in Manager, d \in Device :
        /\ <>[](~usb /\ target = d /\ auto /\ ~bound /\ ~Stopped(m) /\ pc[m] # "off")
        /\ <>[][up' \/ ~up \/ peer' # peer]_lifeVars
        => <>(peer = d)
=============================================================================
