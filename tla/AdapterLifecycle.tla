-------------------------- MODULE AdapterLifecycle --------------------------
(***************************************************************************)
(* The Windows driver between DriverEntry and unload (adapter.cpp,         *)
(* common.cpp, vbmcontrol.cpp): devnodes are added, started, stopped and   *)
(* removed by the PnP manager, one request at a time; meanwhile programs   *)
(* open the control device, write to it and close it, and hold streams     *)
(* open.  Every call into the system may fail, and each step that can is   *)
(* an action of its own, so a failure may strike at any of them.           *)
(*                                                                         *)
(* Only one adapter object may live at a time (m_AdapterInstances).  It    *)
(* lives as long as somebody refers to it: the device's extension, the     *)
(* power manager, a registered or cached subdevice, an open stream.        *)
(***************************************************************************)
EXTENDS Integers, FiniteSets

CONSTANTS
    Devnode, Handle, None,
    MaxControls, MaxStarts    \* bounds: control devices created, starts asked for

ASSUME NoneAssumption == None \notin Devnode

VARIABLES
    loaded,      \* "no" or "yes": DriverEntry has succeeded
    fdo,         \* per devnode: none, added, started, stopped, gone (surprise), failed
    pnp,         \* the PnP request in progress
    instances,   \* m_AdapterInstances
    adapter,     \* the adapter object and who refers to it
    control,     \* g_VbmControlDevice: its number, or 0
    symlink,     \* the control device's symbolic link
    feed,        \* g_FeedBuffer is allocated
    handle,      \* per handle: the control device it was opened on, or 0
    controls, starts,     \* bounded counters
    leaked,      \* history: an allocation failed after the instance was counted
    undisturbed, \* history: devnodes since whose AddDevice no removal began
    forwarded    \* history: an IRP for a control device went to PcDispatchIrp

controlVars == <<control, symlink, feed>>
adapterVars == <<instances, adapter, leaked>>
userVars == <<handle, forwarded>>
vars == <<loaded, fdo, pnp, adapterVars, controlVars, userVars, controls, starts, undisturbed>>

Filter == {"topo", "wave"}
NoAdapter == [owner |-> None, ext |-> FALSE, power |-> FALSE, start |-> FALSE,
              registered |-> {}, cached |-> {}, connected |-> FALSE, open |-> FALSE]
Idle == [at |-> "idle", d |-> None, request |-> "none", ok |-> TRUE, made |-> {}]

Init ==
    /\ loaded = "no"
    /\ fdo = [d \in Devnode |-> "none"]
    /\ pnp = Idle
    /\ instances = 0 /\ adapter = NoAdapter /\ leaked = FALSE
    /\ control = 0 /\ symlink = FALSE /\ feed = FALSE
    /\ handle = [h \in Handle |-> 0] /\ forwarded = FALSE
    /\ controls = 0 /\ starts = 0
    /\ undisturbed = {}

(* The last reference to go runs the destructor, which gives the instance  *)
(* back.                                                                   *)
Referred(a) == a.ext \/ a.power \/ a.start \/ a.open \/ a.registered # {} \/ a.cached # {}
Release(a) ==
    IF a.owner # None /\ ~Referred(a) THEN adapter' = NoAdapter /\ instances' = 0
                                      ELSE adapter' = a /\ instances' = instances

-----------------------------------------------------------------------------
(* DriverEntry and DriverUnload.                                           *)
DriverEntry ==
    /\ loaded = "no"
    /\ \E copied, rest \in BOOLEAN :
          loaded' = IF copied /\ rest THEN "yes" ELSE "no"    \* a failure frees the path
    /\ UNCHANGED <<fdo, pnp, adapterVars, controlVars, userVars, controls, starts, undisturbed>>

\* The I/O manager unloads when no device object is left.
DriverUnload ==
    /\ loaded = "yes" /\ pnp = Idle
    /\ \A d \in Devnode : fdo[d] = "none"
    /\ \A h \in Handle : handle[h] = 0
    /\ loaded' = "no"
    /\ control' = 0 /\ symlink' = FALSE /\ feed' = FALSE
    /\ UNCHANGED <<fdo, pnp, adapterVars, userVars, controls, starts, undisturbed>>

-----------------------------------------------------------------------------
(* AddDevice: the port class' device, then the control device, whose       *)
(* failure is answered although the former stays.                          *)
At(step) == pnp.at = step
Go(step) == pnp' = [pnp EXCEPT !.at = step]
Done == pnp' = Idle

AddDevice(d) ==
    /\ loaded = "yes" /\ pnp = Idle /\ fdo[d] = "none"
    /\ \/ UNCHANGED <<fdo, pnp, undisturbed>>          \* PcAddAdapterDevice failed
       \/ /\ fdo' = [fdo EXCEPT ![d] = "added"]
          /\ undisturbed' = undisturbed \cup {d}
          /\ pnp' = IF control # 0 THEN Idle ELSE [Idle EXCEPT !.at = "feed", !.d = d]
    /\ UNCHANGED <<loaded, adapterVars, controlVars, userVars, controls, starts>>

AddFails == Done /\ fdo' = [fdo EXCEPT ![pnp.d] = "failed"]

CreateFeed ==
    /\ At("feed")
    /\ \/ feed' = TRUE /\ Go("device") /\ UNCHANGED fdo
       \/ ~feed /\ AddFails /\ UNCHANGED feed
    /\ UNCHANGED <<loaded, adapterVars, control, symlink, userVars, controls, starts, undisturbed>>

CreateControl ==
    /\ At("device")
    /\ \/ /\ controls < MaxControls
          /\ controls' = controls + 1 /\ control' = controls + 1
          /\ Go("link") /\ UNCHANGED <<feed, fdo>>
       \/ /\ feed' = FALSE /\ AddFails
          /\ UNCHANGED <<control, controls>>
    /\ UNCHANGED <<loaded, adapterVars, symlink, userVars, starts, undisturbed>>

CreateLink ==
    /\ At("link")
    /\ \/ symlink' = TRUE /\ Done /\ UNCHANGED <<control, feed, fdo>>
       \/ control' = 0 /\ feed' = FALSE /\ AddFails /\ UNCHANGED symlink
    /\ UNCHANGED <<loaded, adapterVars, userVars, controls, starts, undisturbed>>

-----------------------------------------------------------------------------
(* StartDevice.                                                            *)
NewAdapterCommon(d) ==
    /\ pnp = Idle /\ fdo[d] \in {"added", "stopped"} /\ starts < MaxStarts
    /\ starts' = starts + 1
    /\ \/ /\ instances # 0                             \* STATUS_DEVICE_BUSY
          /\ fdo' = [fdo EXCEPT ![d] = "failed"]
          /\ UNCHANGED <<pnp, adapterVars>>
       \/ /\ instances = 0
          /\ instances' = 1
          /\ \/ /\ adapter' = [NoAdapter EXCEPT !.owner = d, !.start = TRUE]
                /\ pnp' = [Idle EXCEPT !.at = "init", !.d = d]
                /\ UNCHANGED <<fdo, leaked>>
             \/ /\ leaked' = TRUE                      \* out of memory
                /\ fdo' = [fdo EXCEPT ![d] = "failed"]
                /\ UNCHANGED <<adapter, pnp>>
    /\ UNCHANGED <<loaded, controlVars, userVars, controls, undisturbed>>

StartStep(step) == At(step) /\ UNCHANGED <<loaded, fdo, instances, leaked, controlVars, userVars,
                                           controls, starts, undisturbed>>
StartFails == pnp' = [pnp EXCEPT !.at = "exit", !.ok = FALSE]

InitAdapter ==
    /\ StartStep("init")
    /\ Go("power") \/ StartFails
    /\ UNCHANGED adapter

RegisterPower ==
    /\ StartStep("power")
    /\ \/ adapter' = [adapter EXCEPT !.power = TRUE] /\ Go("topo")
       \/ StartFails /\ UNCHANGED adapter

(* InstallEndpointFilters: each filter is looked up in the cache, or       *)
(* installed and cached; then the two are connected.  The status is the    *)
(* last one: what the topology filter came to is forgotten when the wave   *)
(* filter is looked up.                                                    *)
InstallSubdevice(f, next) ==
    \E registers, caches \in BOOLEAN :
        /\ adapter' = [adapter EXCEPT
              !.registered = IF registers THEN @ \cup {f} ELSE @,
              !.cached = IF registers /\ caches THEN @ \cup {f} ELSE @]
        /\ pnp' = [pnp EXCEPT !.at = next, !.ok = registers /\ caches,
                              !.made = IF registers THEN @ \cup {f} ELSE @]

InstallTopology == StartStep("topo") /\ InstallSubdevice("topo", "wave")
InstallWave == StartStep("wave") /\ InstallSubdevice("wave", "connect")

ConnectTopologies ==
    /\ StartStep("connect")
    /\ IF pnp.made = Filter
       THEN \E ok \in BOOLEAN :
               /\ adapter' = [adapter EXCEPT !.connected = ok]
               /\ pnp' = [pnp EXCEPT !.at = "install", !.ok = ok]
       ELSE Go("install") /\ UNCHANGED adapter

\* Mutant: what was registered before the failure stays.
InstallEndedKeeps == StartStep("install") /\ Go("exit") /\ UNCHANGED adapter

InstallEnded ==
    /\ StartStep("install") /\ Go("exit")
    /\ IF pnp.ok THEN UNCHANGED adapter
       ELSE adapter' = [adapter EXCEPT !.registered = @ \ pnp.made, !.cached = @ \ pnp.made]

(* The extension refers to the adapter whether the start succeeded or not. *)
StartExit ==
    /\ At("exit")
    /\ Release([adapter EXCEPT !.ext = TRUE, !.start = FALSE])
    /\ fdo' = [fdo EXCEPT ![pnp.d] = IF pnp.ok THEN "started" ELSE "failed"]
    /\ Done
    /\ UNCHANGED <<loaded, leaked, controlVars, userVars, controls, starts, undisturbed>>

-----------------------------------------------------------------------------
(* PnpHandler: stop, surprise removal and removal.  All but a stop delete  *)
(* the control device and the feed, whichever devnode goes; then the       *)
(* adapter's cache is emptied and the extension's reference dropped, and   *)
(* the port class gets the IRP.                                            *)
Begins(d, request) ==
    CASE request = "stop" -> fdo[d] = "started" /\ ~adapter.open
      [] request = "surprise" -> fdo[d] \in {"added", "started", "stopped"}
      [] request = "remove" -> /\ fdo[d] \in {"added", "started", "stopped", "gone", "failed"}
                               /\ adapter.owner = d => ~adapter.open

\* Mutant: a stop deletes the control device as well.
PnpHandlerDeletes(d, request) ==
    /\ pnp = Idle /\ Begins(d, request)
    /\ control' = 0 /\ symlink' = FALSE
    /\ undisturbed' = IF request = "stop" THEN undisturbed ELSE {}
    /\ pnp' = [Idle EXCEPT !.at = "drop", !.request = request, !.d = d]
    /\ UNCHANGED <<loaded, fdo, adapterVars, feed, userVars, controls, starts>>

PnpHandler(d, request) ==
    /\ pnp = Idle /\ Begins(d, request)
    /\ IF request = "stop" THEN UNCHANGED <<control, symlink, undisturbed>>
       ELSE control' = 0 /\ symlink' = FALSE /\ undisturbed' = {}
    /\ pnp' = [Idle EXCEPT !.at = IF request = "stop" THEN "drop" ELSE "cleanup",
                           !.request = request, !.d = d]
    /\ UNCHANGED <<loaded, fdo, adapterVars, feed, userVars, controls, starts>>

FeedCleanup ==
    /\ At("cleanup")
    /\ feed' = FALSE
    /\ Go("drop")
    /\ UNCHANGED <<loaded, fdo, adapterVars, control, symlink, userVars, controls, starts,
                   undisturbed>>

Owns(d) == adapter.owner = d /\ adapter.ext

\* Mutant: the adapter's cache is not emptied.
DropAdapterCached ==
    /\ At("drop")
    /\ IF Owns(pnp.d) THEN Release([adapter EXCEPT !.ext = FALSE])
                      ELSE UNCHANGED <<adapter, instances>>
    /\ Go("dispatch")
    /\ UNCHANGED <<loaded, fdo, leaked, controlVars, userVars, controls, starts, undisturbed>>

DropAdapter ==
    /\ At("drop")
    /\ IF Owns(pnp.d) THEN Release([adapter EXCEPT !.cached = {}, !.ext = FALSE])
                      ELSE UNCHANGED <<adapter, instances>>
    /\ Go("dispatch")
    /\ UNCHANGED <<loaded, fdo, leaked, controlVars, userVars, controls, starts, undisturbed>>

\* The port class takes its subdevices and its power management back.
PcDispatchIrp ==
    /\ At("dispatch")
    /\ IF adapter.owner = pnp.d
       THEN Release([adapter EXCEPT !.power = FALSE, !.registered = {}, !.connected = FALSE])
       ELSE UNCHANGED <<adapter, instances>>
    /\ fdo' = [fdo EXCEPT ![pnp.d] = CASE pnp.request = "stop" -> "stopped"
                                       [] pnp.request = "surprise" -> "gone"
                                       [] pnp.request = "remove" -> "none"]
    /\ Done
    /\ UNCHANGED <<loaded, leaked, controlVars, userVars, controls, starts, undisturbed>>

-----------------------------------------------------------------------------
(* Programs.  An IRP for the control device is recognised by comparing its *)
(* device object with the one there is now.                                *)
Dispatch(object) == forwarded' = (forwarded \/ object # control)

VbmDispatchCreate(h) ==
    /\ handle[h] = 0 /\ symlink
    /\ handle' = [handle EXCEPT ![h] = control]
    /\ Dispatch(control)
    /\ UNCHANGED <<loaded, fdo, pnp, adapterVars, controlVars, controls, starts, undisturbed>>

VbmDispatchWrite(h) ==
    /\ handle[h] # 0
    /\ Dispatch(handle[h])
    /\ UNCHANGED <<loaded, fdo, pnp, adapterVars, controlVars, handle, controls, starts,
                   undisturbed>>

VbmDispatchCleanup(h) ==
    /\ handle[h] # 0
    /\ Dispatch(handle[h])
    /\ handle' = [handle EXCEPT ![h] = 0]
    /\ UNCHANGED <<loaded, fdo, pnp, adapterVars, controlVars, controls, starts, undisturbed>>

ProgramOpens ==
    /\ "wave" \in adapter.registered /\ ~adapter.open
    /\ adapter' = [adapter EXCEPT !.open = TRUE]
    /\ UNCHANGED <<loaded, fdo, pnp, instances, leaked, controlVars, userVars, controls, starts,
                   undisturbed>>

ProgramCloses ==
    /\ adapter.open
    /\ Release([adapter EXCEPT !.open = FALSE])
    /\ UNCHANGED <<loaded, fdo, pnp, leaked, controlVars, userVars, controls, starts, undisturbed>>

-----------------------------------------------------------------------------
Pnp ==
    \/ \E d \in Devnode :
          \/ AddDevice(d) \/ NewAdapterCommon(d)
          \/ \E request \in {"stop", "surprise", "remove"} : PnpHandler(d, request)
    \/ CreateFeed \/ CreateControl \/ CreateLink
    \/ InitAdapter \/ RegisterPower \/ InstallTopology \/ InstallWave
    \/ ConnectTopologies \/ InstallEnded \/ StartExit
    \/ FeedCleanup \/ DropAdapter \/ PcDispatchIrp

User == \/ \E h \in Handle : VbmDispatchCreate(h) \/ VbmDispatchWrite(h) \/ VbmDispatchCleanup(h)
        \/ ProgramOpens \/ ProgramCloses

Next == DriverEntry \/ DriverUnload \/ Pnp \/ User

Spec == Init /\ [][Next]_vars

-----------------------------------------------------------------------------
(* When every devnode has gone and no stream is open, nothing is left of   *)
(* them, whatever failed on the way: no adapter object kept alive by the   *)
(* very subdevices it caches, no subdevice, no control device, no ring -   *)
(* and the next start is not refused as busy, unless memory ran out        *)
(* between counting the adapter and making it (PnpHandler, Cleanup,        *)
(* ~CAdapterCommon, NewAdapterCommon).                                     *)
RemovalLeavesNothing ==
    pnp = Idle /\ (\A d \in Devnode : fdo[d] = "none") /\ ~adapter.open =>
        /\ adapter = NoAdapter
        /\ control = 0 /\ ~symlink /\ ~feed
        /\ instances = (IF leaked THEN 1 ELSE 0)

(* A start that is answered with a failure leaves no subdevice registered  *)
(* or cached, whichever of its steps failed and however far the others     *)
(* had come (InstallEndpointFilters).                                      *)
FailedStartLeavesNothing ==
    \A d \in Devnode : fdo[d] = "failed" /\ adapter.owner = d =>
        adapter.registered = {} /\ adapter.cached = {} /\ ~adapter.connected

(* A started microphone can be fed: as long as no devnode has been removed *)
(* since its own was added, the control device, its link and the ring are  *)
(* there, over stops, restarts and failed additions of other devnodes      *)
(* (AddDevice, PnpHandler).                                                *)
StartedCanBeFed ==
    pnp = Idle => \A d \in undisturbed :
        fdo[d] \in {"started", "stopped"} => control # 0 /\ symlink /\ feed

(* "Route control-device IRPs to the PCM feed handlers" (adapter.cpp, line *)
(* 351): no IRP for a control device reaches the port class, whose devices *)
(* carry an extension the control device has not (VbmDispatchWrite,        *)
(* VbmDispatchCleanup).                                                    *)
ControlIrpsStayHere == ~forwarded
=============================================================================
