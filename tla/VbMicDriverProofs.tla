------------------------- MODULE VbMicDriverProofs -------------------------
(***************************************************************************)
(* For any devnodes, handles and number of starts: whatever fails on the   *)
(* way, a removal leaves nothing behind, a failed start leaves no          *)
(* subdevice, and a started microphone can be fed.                         *)
(*                                                                         *)
(* For any sizes of the two rings, rate, clock and packets: what the       *)
(* engine hears is what was written, in order and where the position says, *)
(* nothing moves in a pause, and no packet is complete before its bytes.   *)
(***************************************************************************)
EXTENDS AdapterLifecycle, WaveRtStream, TLAPS

Adding == {"feed", "device", "link"}
Starting == {"init", "power", "topo", "wave", "connect", "install", "exit"}
Removing == {"cleanup", "drop", "dispatch"}

Active == Adding \cup Starting \cup Removing
Busy == pnp.at # "idle"
Request == {"none", "stop", "surprise", "remove"}
PnpState == [at : {"idle"} \cup Active,
             d : Devnode \cup {None}, request : Request, ok : BOOLEAN, made : SUBSET Filter]
Status == {"none", "added", "started", "stopped", "gone", "failed"}

PnpOK ==
    /\ fdo \in [Devnode -> Status]
    /\ pnp \in PnpState
    /\ pnp.at = "idle" => pnp = Idle
    /\ pnp.at # "idle" => pnp.d \in Devnode
    /\ pnp.at \in Removing => pnp.request # "none"

-----------------------------------------------------------------------------
(* The requests as moves of the PnP state.                                 *)

LEMMA IdleFields ==
    /\ Idle \in PnpState
    /\ Idle.at = "idle" /\ Idle.d = None /\ Idle.request = "none" /\ Idle.ok /\ Idle.made = {}
BY DEF Idle, PnpState, Request, Active

LEMMA BeginMoves ==
    ASSUME NEW at \in Active, NEW d \in Devnode, NEW request \in Request,
           pnp' = [Idle EXCEPT !.at = at, !.request = request, !.d = d]
    PROVE  /\ pnp' \in PnpState /\ pnp'.at = at /\ pnp'.d = d
           /\ pnp'.request = request /\ pnp'.ok /\ pnp'.made = {}
BY DEF Idle, PnpState, Request, Active, Adding, Starting, Removing

LEMMA EnterMoves ==
    ASSUME NEW at \in Active, NEW d \in Devnode, pnp' = [Idle EXCEPT !.at = at, !.d = d]
    PROVE  /\ pnp' \in PnpState /\ pnp'.at = at /\ pnp'.d = d
           /\ pnp'.request = "none" /\ pnp'.ok /\ pnp'.made = {}
BY DEF Idle, PnpState, Request, Active, Adding, Starting, Removing

LEMMA GoMoves ==
    ASSUME PnpOK, NEW at \in Active, Go(at)
    PROVE  /\ pnp' \in PnpState /\ pnp'.at = at /\ pnp'.d = pnp.d
           /\ pnp'.request = pnp.request /\ pnp'.ok = pnp.ok /\ pnp'.made = pnp.made
BY DEF PnpOK, PnpState, Request, Active, Adding, Starting, Removing, Go

LEMMA OkMoves ==
    ASSUME PnpOK, NEW at \in Active, NEW ok \in BOOLEAN, pnp' = [pnp EXCEPT !.at = at, !.ok = ok]
    PROVE  /\ pnp' \in PnpState /\ pnp'.at = at /\ pnp'.d = pnp.d
           /\ pnp'.request = pnp.request /\ pnp'.ok = ok /\ pnp'.made = pnp.made
BY DEF PnpOK, PnpState, Request, Active, Adding, Starting, Removing

LEMMA MadeMoves ==
    ASSUME PnpOK, NEW at \in Active, NEW ok \in BOOLEAN, NEW made \in SUBSET Filter,
           pnp' = [pnp EXCEPT !.at = at, !.ok = ok, !.made = made]
    PROVE  /\ pnp' \in PnpState /\ pnp'.at = at /\ pnp'.d = pnp.d
           /\ pnp'.request = pnp.request /\ pnp'.ok = ok /\ pnp'.made = made
BY DEF PnpOK, PnpState, Request, Active, Adding, Starting, Removing

-----------------------------------------------------------------------------
(* Types and the PnP state.                                                *)

LEMMA InstallMoves ==
    ASSUME PnpOK, InstallTopology \/ InstallWave
    PROVE  /\ pnp' \in PnpState /\ pnp'.d = pnp.d /\ pnp'.request = pnp.request
           /\ InstallTopology => pnp'.at = "wave"
           /\ InstallWave => pnp'.at = "connect"
           /\ pnp'.at \in Active
<1>1. PICK f \in Filter, next \in {"wave", "connect"} :
          /\ InstallSubdevice(f, next)
          /\ InstallTopology => next = "wave"
          /\ InstallWave => next = "connect"
  <2>1. ~(InstallTopology /\ InstallWave)
    BY DEF InstallTopology, InstallWave, StartStep, At
  <2> QED BY <2>1 DEF InstallTopology, InstallWave, Filter
<1>2. PICK ok \in BOOLEAN, made \in SUBSET Filter :
          pnp' = [pnp EXCEPT !.at = next, !.ok = ok, !.made = made]
  <2>1. PICK registers \in BOOLEAN, caches \in BOOLEAN :
            pnp' = [pnp EXCEPT !.at = next, !.ok = registers /\ caches,
                               !.made = IF registers THEN @ \cup {f} ELSE @]
    BY <1>1 DEF InstallSubdevice
  <2>2. (registers /\ caches) \in BOOLEAN
    OBVIOUS
  <2>3. (IF registers THEN pnp.made \cup {f} ELSE pnp.made) \in SUBSET Filter
    BY DEF PnpOK, PnpState
  <2> QED BY <2>1, <2>2, <2>3
<1>3. next \in Active BY DEF Active, Starting
<1> QED BY <1>1, <1>2, <1>3, MadeMoves

LEMMA PnpStarts == Init => PnpOK
BY IdleFields DEF Init, PnpOK, Status, Removing

LEMMA PnpKept == ASSUME PnpOK, [Next]_vars PROVE PnpOK'
<1>0. /\ pnp \in PnpState /\ fdo \in [Devnode -> Status]
      /\ \A a \in Active : a # "idle"
      /\ \A a \in Adding \cup Starting \cup {"idle"} : a \notin Removing
      /\ pnp.at \in Removing => pnp.request # "none"
  BY DEF PnpOK, Active, Adding, Starting, Removing
<1>1. CASE DriverEntry \/ DriverUnload \/ User \/ UNCHANGED vars
  <2>1. UNCHANGED <<fdo, pnp>>
    BY <1>1 DEF DriverEntry, DriverUnload, User, VbmDispatchCreate, VbmDispatchWrite,
                VbmDispatchCleanup, ProgramOpens, ProgramCloses, vars
  <2> QED BY <2>1 DEF PnpOK
<1>2. ASSUME NEW d \in Devnode, AddDevice(d) PROVE PnpOK'
  <2>1. "feed" \in Active /\ "feed" \notin Removing BY DEF Active, Adding, Removing
  <2>2. fdo' \in [Devnode -> Status] BY <1>0, <1>2 DEF AddDevice, Status
  <2>3. CASE pnp' = pnp BY <1>0, <2>2, <2>3 DEF PnpOK
  <2>4. CASE pnp' = Idle BY <1>0, <2>2, <2>4, IdleFields DEF PnpOK
  <2>5. CASE pnp' = [Idle EXCEPT !.at = "feed", !.d = d]
    <3>1. pnp' \in PnpState /\ pnp'.at = "feed" /\ pnp'.d = d BY <2>1, <2>5, EnterMoves
    <3> QED BY <1>0, <2>1, <2>2, <3>1 DEF PnpOK
  <2> QED BY <1>2, <2>3, <2>4, <2>5 DEF AddDevice
<1>3. ASSUME NEW d \in Devnode, NewAdapterCommon(d) PROVE PnpOK'
  <2>1. "init" \in Active /\ "init" \notin Removing BY DEF Active, Starting, Removing
  <2>2. fdo' \in [Devnode -> Status] BY <1>0, <1>3 DEF NewAdapterCommon, Status
  <2>3. CASE pnp' = pnp BY <1>0, <2>2, <2>3 DEF PnpOK
  <2>5. CASE pnp' = [Idle EXCEPT !.at = "init", !.d = d]
    <3>1. pnp' \in PnpState /\ pnp'.at = "init" /\ pnp'.d = d BY <2>1, <2>5, EnterMoves
    <3> QED BY <1>0, <2>1, <2>2, <3>1 DEF PnpOK
  <2> QED BY <1>3, <2>3, <2>5 DEF NewAdapterCommon
<1>4. ASSUME NEW d \in Devnode, NEW request \in {"stop", "surprise", "remove"},
             PnpHandler(d, request)
      PROVE  PnpOK'
  <2>1. "drop" \in Active /\ "cleanup" \in Active /\ request \in Request
    BY DEF Active, Removing, Request
  <2>2. PICK at \in Active : pnp' = [Idle EXCEPT !.at = at, !.request = request, !.d = d]
    BY <1>4, <2>1 DEF PnpHandler
  <2>3. pnp' \in PnpState /\ pnp'.at = at /\ pnp'.d = d /\ pnp'.request = request
    BY <2>1, <2>2, BeginMoves
  <2> QED BY <1>0, <1>4, <2>3 DEF PnpOK, PnpHandler
<1>5. ASSUME Busy, fdo' \in [Devnode -> Status],
             \/ pnp' = Idle
             \/ /\ pnp' \in PnpState /\ pnp'.at \in Active /\ pnp'.d = pnp.d
                /\ pnp'.at \in Removing => pnp.at \in Removing /\ pnp'.request = pnp.request
      PROVE  PnpOK'
  BY <1>0, <1>5, IdleFields DEF PnpOK, Busy
<1>6. CASE CreateFeed \/ CreateControl \/ CreateLink
  <2>1. Busy BY <1>6 DEF CreateFeed, CreateControl, CreateLink, At, Busy
  <2>2. fdo' \in [Devnode -> Status]
    BY <1>0, <1>6 DEF CreateFeed, CreateControl, CreateLink, AddFails, Status
  <2>3. pnp' = Idle \/ Go("device") \/ Go("link")
    BY <1>6 DEF CreateFeed, CreateControl, CreateLink, AddFails, Done
  <2>4. {"device", "link"} \subseteq Active \ Removing BY DEF Active, Adding, Removing
  <2> QED BY <1>5, <2>1, <2>2, <2>3, <2>4, GoMoves
<1>7. CASE InitAdapter \/ RegisterPower \/ ConnectTopologies \/ InstallEnded
  <2>1. Busy
    BY <1>7 DEF InitAdapter, RegisterPower, ConnectTopologies, InstallEnded, StartStep, At, Busy
  <2>2. fdo' \in [Devnode -> Status]
    BY <1>0, <1>7 DEF InitAdapter, RegisterPower, ConnectTopologies, InstallEnded, StartStep
  <2>3. {"power", "topo", "install", "exit"} \subseteq Active \ Removing
    BY DEF Active, Starting, Removing
  <2>4. \/ \E at \in {"power", "topo", "install", "exit"} : Go(at)
        \/ \E at \in {"install", "exit"}, ok \in BOOLEAN : pnp' = [pnp EXCEPT !.at = at, !.ok = ok]
    BY <1>7 DEF InitAdapter, RegisterPower, ConnectTopologies, InstallEnded, StartFails
  <2>5. CASE \E at \in {"power", "topo", "install", "exit"} : Go(at)
    BY <1>5, <2>1, <2>2, <2>3, <2>5, GoMoves
  <2>6. CASE \E at \in {"install", "exit"}, ok \in BOOLEAN : pnp' = [pnp EXCEPT !.at = at, !.ok = ok]
    BY <1>5, <2>1, <2>2, <2>3, <2>6, OkMoves
  <2> QED BY <2>4, <2>5, <2>6
<1>8. CASE InstallTopology \/ InstallWave
  <2>1. Busy BY <1>8 DEF InstallTopology, InstallWave, StartStep, At, Busy
  <2>2. fdo' \in [Devnode -> Status] BY <1>0, <1>8 DEF InstallTopology, InstallWave, StartStep
  <2>3. /\ pnp' \in PnpState /\ pnp'.at \in Active /\ pnp'.d = pnp.d
        /\ pnp'.at \in {"wave", "connect"}
    BY <1>8, InstallMoves
  <2>4. {"wave", "connect"} \cap Removing = {} BY DEF Removing
  <2> QED BY <1>5, <2>1, <2>2, <2>3, <2>4
<1>9. CASE StartExit
  <2>1. Busy BY <1>9 DEF StartExit, At, Busy
  <2>2. fdo' \in [Devnode -> Status] BY <1>0, <1>9 DEF StartExit, Status
  <2> QED BY <1>5, <1>9, <2>1, <2>2 DEF StartExit, Done
<1>10. CASE FeedCleanup \/ DropAdapter
  <2>1. Busy BY <1>10 DEF FeedCleanup, DropAdapter, At, Busy
  <2>2. "drop" \in Active /\ "dispatch" \in Active /\ pnp.at \in Removing
    BY <1>10 DEF Active, Removing, FeedCleanup, DropAdapter, At
  <2>3. fdo' = fdo /\ (Go("drop") \/ Go("dispatch")) BY <1>10 DEF FeedCleanup, DropAdapter
  <2> QED BY <1>0, <1>5, <2>1, <2>2, <2>3, GoMoves
<1>11. CASE PcDispatchIrp
  <2>1. Busy BY <1>11 DEF PcDispatchIrp, At, Busy
  <2>2. pnp.request \in {"stop", "surprise", "remove"}
    BY <1>0, <1>11 DEF PcDispatchIrp, At, PnpOK, PnpState, Request, Removing
  <2>3. fdo' \in [Devnode -> Status]
    <3>1. CASE pnp.request = "stop" BY <1>0, <1>11, <3>1 DEF PcDispatchIrp, Status
    <3>2. CASE pnp.request = "surprise" BY <1>0, <1>11, <3>2 DEF PcDispatchIrp, Status
    <3>3. CASE pnp.request = "remove" BY <1>0, <1>11, <3>3 DEF PcDispatchIrp, Status
    <3> QED BY <2>2, <3>1, <3>2, <3>3
  <2> QED BY <1>5, <1>11, <2>1, <2>3 DEF PcDispatchIrp, Done
<1> QED BY <1>1, <1>2, <1>3, <1>4, <1>6, <1>7, <1>8, <1>9, <1>10, <1>11 DEF Next, Pnp

-----------------------------------------------------------------------------
(* The control device, its link and the ring.  The device is whole unless  *)
(* it is being made; it is made when no undisturbed devnode relies on it,  *)
(* and nothing of it is left when the last devnode goes.                   *)
ControlUp == control # 0 /\ symlink /\ feed
Present(d) == fdo[d] \in {"added", "started", "stopped"}

ControlInv ==
    /\ controls \in Nat /\ symlink \in BOOLEAN /\ feed \in BOOLEAN
    /\ undisturbed \subseteq Devnode
    /\ pnp.at \in {"feed", "device"} => control = 0
    /\ pnp.at \in {"device", "link"} => feed
    /\ pnp.at = "link" => control # 0
    /\ control # 0 /\ pnp.at # "link" => symlink /\ feed
    /\ \A d \in undisturbed :
          Present(d) /\ ~(pnp.at \in Adding /\ d = pnp.d) => ControlUp /\ pnp.at \notin Adding
    /\ pnp.at \in Adding => fdo[pnp.d] = "added"
    /\ pnp.at \in Removing => fdo[pnp.d] # "none"
    /\ pnp.at \in Removing /\ pnp.request = "stop" =>
          pnp.at # "cleanup" /\ fdo[pnp.d] = "started"
    /\ pnp.at \in Removing /\ pnp.request # "stop" =>
          control = 0 /\ ~symlink /\ undisturbed = {} /\ (pnp.at # "cleanup" => ~feed)
    /\ control # 0 \/ symlink \/ feed => \E d \in Devnode : fdo[d] # "none"

-----------------------------------------------------------------------------
(* The adapter object.  It exists exactly as long as somebody refers to it *)
(* and is counted; a start in progress has installed no more than it       *)
(* notes; a devnode that is not started holds on to nothing.               *)
AdapterState ==
    [owner : Devnode \cup {None}, ext : BOOLEAN, power : BOOLEAN, start : BOOLEAN,
     registered : SUBSET Filter, cached : SUBSET Filter, connected : BOOLEAN, open : BOOLEAN]

NoSubdevice(a) == a.registered = {} /\ a.cached = {} /\ ~a.connected
Bare(a) == ~a.ext /\ ~a.power /\ NoSubdevice(a)

CountInv ==
    /\ adapter \in AdapterState /\ leaked \in BOOLEAN
    /\ adapter.owner = None => adapter = NoAdapter
    /\ adapter.owner # None => Referred(adapter) /\ ~leaked
    /\ instances = IF adapter.owner # None \/ leaked THEN 1 ELSE 0

StartInv ==
    /\ adapter.start => pnp.at \in Starting
    /\ pnp.at \in Starting =>
          /\ adapter.start /\ adapter.owner = pnp.d /\ ~adapter.ext
          /\ fdo[pnp.d] \in {"added", "stopped"}
          /\ adapter.registered \subseteq pnp.made /\ adapter.cached \subseteq pnp.made
          /\ pnp.at \in {"init", "power"} => pnp.made = {}
          /\ adapter.connected => pnp.at \in {"install", "exit"} /\ pnp.ok
          /\ pnp.at = "exit" /\ ~pnp.ok => adapter.registered = {} /\ adapter.cached = {}

RestInv ==
    adapter.owner # None /\ ~adapter.start =>
        /\ ~adapter.ext => adapter.cached = {}
        /\ pnp.at = "dispatch" /\ pnp.d = adapter.owner => ~adapter.ext
        /\ fdo[adapter.owner] \in {"none", "added", "stopped"} => Bare(adapter)
        /\ fdo[adapter.owner] = "failed" => NoSubdevice(adapter)

AdapterInv == CountInv /\ StartInv /\ RestInv

-----------------------------------------------------------------------------
InstallStep ==
    \/ InitAdapter \/ RegisterPower \/ InstallTopology \/ InstallWave
    \/ ConnectTopologies \/ InstallEnded

LEMMA InstallStays ==
    ASSUME PnpOK, InstallStep
    PROVE  /\ pnp.at \in Starting /\ pnp'.at \in Starting /\ pnp'.d = pnp.d
           /\ UNCHANGED <<fdo, instances, leaked, control, symlink, feed, controls, undisturbed>>
<1>1. /\ pnp.at \in Starting
      /\ UNCHANGED <<fdo, instances, leaked, control, symlink, feed, controls, undisturbed>>
  BY DEF InstallStep, InitAdapter, RegisterPower, InstallTopology, InstallWave,
         ConnectTopologies, InstallEnded, StartStep, At, Starting, controlVars
<1>2. {"power", "topo", "wave", "connect", "install", "exit"} \subseteq Starting \cap Active
  BY DEF Active, Starting
<1>3. CASE InstallTopology \/ InstallWave
  BY <1>1, <1>2, <1>3, InstallMoves
<1>4. CASE InitAdapter \/ RegisterPower \/ ConnectTopologies \/ InstallEnded
  <2>1. \/ \E at \in {"power", "topo", "install", "exit"} : Go(at)
        \/ \E at \in {"install", "exit"}, ok \in BOOLEAN : pnp' = [pnp EXCEPT !.at = at, !.ok = ok]
    BY <1>4 DEF InitAdapter, RegisterPower, ConnectTopologies, InstallEnded, StartFails
  <2> QED BY <1>1, <1>2, <2>1, GoMoves, OkMoves
<1> QED BY <1>3, <1>4 DEF InstallStep

LEMMA ControlStarts == Init => ControlInv
<1>1. Init => pnp.at = "idle" /\ undisturbed = {} /\ controls \in Nat
  BY IdleFields DEF Init
<1> QED BY <1>1 DEF Init, ControlInv, Adding, Removing

LEMMA ControlKept == ASSUME PnpOK, PnpOK', StartInv, ControlInv, [Next]_vars PROVE ControlInv'
<1> USE DEF ControlUp, Present
<1>0. /\ fdo \in [Devnode -> Status] /\ (pnp.at # "idle" => pnp.d \in Devnode)
      /\ Idle.at = "idle" /\ (pnp = Idle => pnp.at = "idle")
  BY IdleFields DEF PnpOK
<1>1. CASE DriverEntry \/ User \/ UNCHANGED vars
  <2>1. UNCHANGED <<fdo, pnp, control, symlink, feed, controls, undisturbed>>
    BY <1>1 DEF DriverEntry, User, VbmDispatchCreate, VbmDispatchWrite, VbmDispatchCleanup,
                ProgramOpens, ProgramCloses, vars, controlVars
  <2> QED BY <2>1 DEF ControlInv
<1>2. CASE DriverUnload
  BY <1>0, <1>2 DEF DriverUnload, ControlInv, Adding, Removing
<1>3. ASSUME NEW d \in Devnode, AddDevice(d) PROVE ControlInv'
  <2>1. UNCHANGED <<control, symlink, feed, controls>> /\ pnp.at = "idle" /\ fdo[d] = "none"
    BY <1>0, <1>3 DEF AddDevice, controlVars
  <2>2. CASE UNCHANGED <<fdo, pnp, undisturbed>>
    BY <2>1, <2>2 DEF ControlInv
  <2>3. CASE /\ fdo' = [fdo EXCEPT ![d] = "added"] /\ undisturbed' = undisturbed \cup {d}
             /\ control # 0 /\ pnp' = Idle
    BY <1>0, <2>1, <2>3 DEF ControlInv, Adding, Removing
  <2>4. CASE /\ fdo' = [fdo EXCEPT ![d] = "added"] /\ undisturbed' = undisturbed \cup {d}
             /\ control = 0 /\ pnp' = [Idle EXCEPT !.at = "feed", !.d = d]
    <3>1. pnp'.at = "feed" /\ pnp'.d = d
      BY <2>4, EnterMoves DEF Active, Adding
    <3> QED BY <1>0, <2>1, <2>4, <3>1 DEF ControlInv, Adding, Removing
  <2> QED BY <1>3, <2>2, <2>3, <2>4 DEF AddDevice
<1>4. ASSUME NEW d \in Devnode, NewAdapterCommon(d) PROVE ControlInv'
  <2>1. /\ UNCHANGED <<control, symlink, feed, controls, undisturbed>> /\ pnp.at = "idle"
        /\ fdo[d] \in {"added", "stopped"} /\ (fdo' = fdo \/ fdo' = [fdo EXCEPT ![d] = "failed"])
    BY <1>0, <1>4 DEF NewAdapterCommon, controlVars
  <2>2. pnp' = pnp \/ pnp'.at = "init"
    BY <1>4, EnterMoves DEF NewAdapterCommon, Active, Starting
  <2> QED BY <1>0, <2>1, <2>2 DEF ControlInv, Adding, Removing
<1>5. ASSUME NEW d \in Devnode, NEW request \in {"stop", "surprise", "remove"},
             PnpHandler(d, request)
      PROVE  ControlInv'
  <2>1. /\ UNCHANGED <<fdo, feed, controls>> /\ pnp.at = "idle" /\ fdo[d] # "none"
        /\ request = "stop" => fdo[d] = "started"
    BY <1>0, <1>5 DEF PnpHandler, Begins
  <2>2. /\ pnp'.at = (IF request = "stop" THEN "drop" ELSE "cleanup")
        /\ pnp'.d = d /\ pnp'.request = request
    BY <1>5, BeginMoves DEF PnpHandler, Active, Removing, Request
  <2>3. CASE request = "stop"
    <3>1. UNCHANGED <<control, symlink, undisturbed>>
      BY <1>5, <2>3 DEF PnpHandler
    <3> QED BY <1>0, <2>1, <2>2, <2>3, <3>1 DEF ControlInv, Adding, Removing
  <2>4. CASE request # "stop"
    <3>1. control' = 0 /\ symlink' = FALSE /\ undisturbed' = {}
      BY <1>5, <2>4 DEF PnpHandler
    <3> QED BY <1>0, <2>1, <2>2, <2>4, <3>1 DEF ControlInv, Adding, Removing
  <2> QED BY <2>3, <2>4
<1>6. CASE CreateFeed
  <2>1. UNCHANGED <<control, symlink, controls, undisturbed>> /\ pnp.at = "feed"
    BY <1>6 DEF CreateFeed, At
  <2>2. CASE feed' /\ Go("device") /\ UNCHANGED fdo
    <3>1. pnp'.at = "device" /\ pnp'.d = pnp.d
      BY <2>2, GoMoves DEF Active, Adding
    <3> QED BY <1>0, <1>6, <2>1, <2>2, <3>1 DEF CreateFeed, ControlInv, Adding, Removing
  <2>3. CASE ~feed /\ AddFails /\ UNCHANGED feed
    BY <1>0, <2>1, <2>3 DEF ControlInv, AddFails, Done, Adding, Removing, Status
  <2> QED BY <1>6, <2>2, <2>3 DEF CreateFeed
<1>7. CASE CreateControl
  <2>1. UNCHANGED <<symlink, undisturbed>> /\ pnp.at = "device"
    BY <1>7 DEF CreateControl, At
  <2>2. CASE /\ controls' = controls + 1 /\ control' = controls + 1
             /\ Go("link") /\ UNCHANGED <<feed, fdo>>
    <3>1. pnp'.at = "link" /\ pnp'.d = pnp.d
      BY <2>2, GoMoves DEF Active, Adding
    <3> QED BY <1>0, <2>1, <2>2, <3>1 DEF ControlInv, Adding, Removing
  <2>3. CASE feed' = FALSE /\ AddFails /\ UNCHANGED <<control, controls>>
    BY <1>0, <2>1, <2>3 DEF ControlInv, AddFails, Done, Adding, Removing, Status
  <2> QED BY <1>7, <2>2, <2>3 DEF CreateControl
<1>8. CASE CreateLink
  <2>1. UNCHANGED <<controls, undisturbed>> /\ pnp.at = "link"
    BY <1>8 DEF CreateLink, At
  <2>2. CASE symlink' = TRUE /\ Done /\ UNCHANGED <<control, feed, fdo>>
    BY <1>0, <2>1, <2>2 DEF ControlInv, Done, Adding, Removing
  <2>3. CASE control' = 0 /\ feed' = FALSE /\ AddFails /\ UNCHANGED symlink
    BY <1>0, <2>1, <2>3 DEF ControlInv, AddFails, Done, Adding, Removing, Status
  <2> QED BY <1>8, <2>2, <2>3 DEF CreateLink
<1>9. CASE InstallStep
  BY <1>0, <1>9, InstallStays DEF ControlInv, Adding, Starting, Removing
<1>10. CASE StartExit
  <2>1. /\ UNCHANGED <<control, symlink, feed, controls, undisturbed>> /\ pnp.at = "exit"
        /\ pnp' = Idle /\ \E st \in {"started", "failed"} : fdo' = [fdo EXCEPT ![pnp.d] = st]
    BY <1>10 DEF StartExit, At, Done, controlVars
  <2>2. fdo[pnp.d] \in {"added", "stopped"}
    BY <2>1 DEF StartInv, Starting
  <2> QED BY <1>0, <2>1, <2>2 DEF ControlInv, Adding, Removing
<1>11. CASE FeedCleanup
  <2>1. /\ UNCHANGED <<fdo, control, symlink, controls, undisturbed>> /\ pnp.at = "cleanup"
        /\ feed' = FALSE /\ Go("drop")
    BY <1>11 DEF FeedCleanup, At
  <2>2. pnp'.at = "drop" /\ pnp'.d = pnp.d /\ pnp'.request = pnp.request
    BY <2>1, GoMoves DEF Active, Removing
  <2>3. pnp.request # "stop"
    BY <2>1 DEF ControlInv, Removing
  <2> QED BY <1>0, <2>1, <2>2, <2>3 DEF ControlInv, Adding, Removing
<1>12. CASE DropAdapter
  <2>1. /\ UNCHANGED <<fdo, control, symlink, feed, controls, undisturbed>> /\ pnp.at = "drop"
        /\ Go("dispatch")
    BY <1>12 DEF DropAdapter, At, controlVars
  <2>2. pnp'.at = "dispatch" /\ pnp'.d = pnp.d /\ pnp'.request = pnp.request
    BY <2>1, GoMoves DEF Active, Removing
  <2> QED BY <1>0, <2>1, <2>2 DEF ControlInv, Adding, Removing
<1>13. CASE PcDispatchIrp
  <2>1. /\ UNCHANGED <<control, symlink, feed, controls, undisturbed>> /\ pnp.at = "dispatch"
        /\ pnp' = Idle
    BY <1>13 DEF PcDispatchIrp, At, Done, controlVars
  <2>2. pnp.request \in {"stop", "surprise", "remove"}
    BY <2>1 DEF PnpOK, PnpState, Request, Removing
  <2>3. CASE pnp.request = "stop"
    <3>1. fdo' = [fdo EXCEPT ![pnp.d] = "stopped"]
      BY <1>13, <2>3 DEF PcDispatchIrp
    <3>2. fdo[pnp.d] = "started"
      BY <2>1, <2>3 DEF ControlInv, Removing
    <3> QED BY <1>0, <2>1, <3>1, <3>2 DEF ControlInv, Adding, Removing
  <2>4. CASE pnp.request # "stop"
    <3>1. control = 0 /\ ~symlink /\ undisturbed = {} /\ ~feed
      BY <2>1, <2>4 DEF ControlInv, Removing
    <3> QED BY <1>0, <2>1, <3>1 DEF ControlInv, Adding, Removing
  <2> QED BY <2>3, <2>4
<1> QED BY <1>1, <1>2, <1>3, <1>4, <1>5, <1>6, <1>7, <1>8, <1>9, <1>10, <1>11, <1>12, <1>13
        DEF Next, Pnp, InstallStep

-----------------------------------------------------------------------------
(* What a change of references comes to.                                   *)

LEMMA Releases ==
    ASSUME NEW a, a.owner \in Devnode, Release(a)
    PROVE  \/ Referred(a) /\ adapter' = a /\ instances' = instances
           \/ ~Referred(a) /\ adapter' = NoAdapter /\ instances' = 0
BY NoneAssumption DEF Release

LEMMA NoAdapterFields ==
    /\ NoAdapter \in AdapterState
    /\ NoAdapter.owner = None /\ ~NoAdapter.start /\ NoAdapter.registered = {}
BY DEF NoAdapter, AdapterState, Filter

LEMMA NewAdapterFields ==
    ASSUME NEW d \in Devnode, adapter' = [NoAdapter EXCEPT !.owner = d, !.start = TRUE]
    PROVE  /\ adapter' \in AdapterState
           /\ adapter'.owner = d /\ adapter'.start /\ ~adapter'.ext
           /\ adapter'.registered = {} /\ adapter'.cached = {} /\ ~adapter'.connected
BY DEF NoAdapter, AdapterState, Filter

LEMMA PowerFields ==
    ASSUME adapter \in AdapterState, adapter' = [adapter EXCEPT !.power = TRUE]
    PROVE  /\ adapter' \in AdapterState
           /\ adapter'.owner = adapter.owner /\ adapter'.start = adapter.start
           /\ adapter'.ext = adapter.ext /\ adapter'.registered = adapter.registered
           /\ adapter'.cached = adapter.cached /\ adapter'.connected = adapter.connected
BY DEF AdapterState

LEMMA SubdeviceFields ==
    ASSUME adapter \in AdapterState,
           NEW registered \in SUBSET Filter, NEW cached \in SUBSET Filter,
           adapter' = [adapter EXCEPT !.registered = registered, !.cached = cached]
    PROVE  /\ adapter' \in AdapterState
           /\ adapter'.owner = adapter.owner /\ adapter'.start = adapter.start
           /\ adapter'.ext = adapter.ext /\ adapter'.connected = adapter.connected
           /\ adapter'.registered = registered /\ adapter'.cached = cached
BY DEF AdapterState

LEMMA ConnectFields ==
    ASSUME adapter \in AdapterState, NEW ok \in BOOLEAN,
           adapter' = [adapter EXCEPT !.connected = ok]
    PROVE  /\ adapter' \in AdapterState
           /\ adapter'.owner = adapter.owner /\ adapter'.start = adapter.start
           /\ adapter'.ext = adapter.ext /\ adapter'.connected = ok
           /\ adapter'.registered = adapter.registered /\ adapter'.cached = adapter.cached
BY DEF AdapterState

LEMMA ExitFields ==
    ASSUME adapter \in AdapterState, NEW a, a = [adapter EXCEPT !.ext = TRUE, !.start = FALSE]
    PROVE  /\ a \in AdapterState
           /\ a.owner = adapter.owner /\ ~a.start /\ a.ext /\ a.connected = adapter.connected
           /\ a.registered = adapter.registered /\ a.cached = adapter.cached
BY DEF AdapterState

LEMMA DropFields ==
    ASSUME adapter \in AdapterState, NEW a, a = [adapter EXCEPT !.cached = {}, !.ext = FALSE]
    PROVE  /\ a \in AdapterState
           /\ a.owner = adapter.owner /\ a.start = adapter.start /\ ~a.ext
           /\ a.power = adapter.power /\ a.connected = adapter.connected
           /\ a.registered = adapter.registered /\ a.cached = {}
BY DEF AdapterState

LEMMA DispatchFields ==
    ASSUME adapter \in AdapterState, NEW a,
           a = [adapter EXCEPT !.power = FALSE, !.registered = {}, !.connected = FALSE]
    PROVE  /\ a \in AdapterState
           /\ a.owner = adapter.owner /\ a.start = adapter.start /\ a.ext = adapter.ext
           /\ ~a.power /\ ~a.connected /\ a.registered = {} /\ a.cached = adapter.cached
BY DEF AdapterState

LEMMA OpenFields ==
    ASSUME adapter \in AdapterState, NEW open \in BOOLEAN,
           NEW a, a = [adapter EXCEPT !.open = open]
    PROVE  /\ a \in AdapterState
           /\ a.owner = adapter.owner /\ a.start = adapter.start /\ a.ext = adapter.ext
           /\ a.power = adapter.power /\ a.connected = adapter.connected
           /\ a.registered = adapter.registered /\ a.cached = adapter.cached /\ a.open = open
BY DEF AdapterState

LEMMA ReleaseKeeps ==
    ASSUME CountInv, NEW a \in AdapterState, a.owner = adapter.owner, a.owner # None,
           Release(a), leaked' = leaked
    PROVE  /\ CountInv'
           /\ adapter' = NoAdapter \/ adapter' = a
           /\ Referred(a) => adapter' = a
<1>1. a.owner \in Devnode BY DEF AdapterState
<1> QED BY <1>1, Releases, NoAdapterFields DEF CountInv

LEMMA TouchKeeps ==
    ASSUME CountInv, adapter' \in AdapterState, adapter'.owner = adapter.owner,
           adapter.owner # None, Referred(adapter'), UNCHANGED <<instances, leaked>>
    PROVE  CountInv'
BY DEF CountInv

-----------------------------------------------------------------------------
(* The adapter's invariant, step by step.                                  *)

LEMMA AdapterStarts == Init => AdapterInv
<1>1. Init => pnp.at = "idle" /\ adapter = NoAdapter
  BY IdleFields DEF Init
<1>2. Init => CountInv BY <1>1, NoAdapterFields DEF Init, CountInv
<1>3. Init => StartInv /\ RestInv
  BY <1>1, NoAdapterFields DEF StartInv, RestInv, Starting
<1> QED BY <1>2, <1>3 DEF AdapterInv

\* Steps of AddDevice, which leave the adapter alone.
LEMMA AddKeeps ==
    ASSUME PnpOK, ControlInv, AdapterInv,
           (\E d \in Devnode : AddDevice(d)) \/ CreateFeed \/ CreateControl \/ CreateLink
    PROVE  AdapterInv'
<1> USE DEF AdapterInv
<1>0. /\ fdo \in [Devnode -> Status] /\ (pnp.at # "idle" => pnp.d \in Devnode)
      /\ Idle.at = "idle" /\ (pnp = Idle => pnp.at = "idle")
  BY IdleFields DEF PnpOK
<1>1. UNCHANGED <<adapter, instances, leaked>>
  BY DEF AddDevice, CreateFeed, CreateControl, CreateLink, adapterVars
<1>2. pnp.at \notin Starting
  BY <1>0 DEF AddDevice, CreateFeed, CreateControl, CreateLink, At, Starting
<1>3. pnp'.at \in {"idle", "feed", "device", "link"}
  <2>1. CASE \E d \in Devnode : AddDevice(d)
    BY <1>0, <2>1, EnterMoves, ZenonT(30) DEF AddDevice, Active, Adding
  <2>2. CASE CreateFeed \/ CreateControl \/ CreateLink
    BY <1>0, <2>2, GoMoves DEF CreateFeed, CreateControl, CreateLink, AddFails, Done, Active,
                               Adding
  <2> QED BY <2>1, <2>2
<1>4. \/ fdo' = fdo
      \/ \E d \in Devnode : fdo[d] = "none" /\ fdo' = [fdo EXCEPT ![d] = "added"]
      \/ /\ pnp.d \in Devnode /\ fdo[pnp.d] = "added"
         /\ fdo' = [fdo EXCEPT ![pnp.d] = "failed"]
  <2>1. CASE \E d \in Devnode : AddDevice(d)
    BY <2>1 DEF AddDevice
  <2>2. CASE CreateFeed \/ CreateControl \/ CreateLink
    <3>1. pnp.at \in Adding /\ (fdo' = fdo \/ fdo' = [fdo EXCEPT ![pnp.d] = "failed"])
      BY <2>2 DEF CreateFeed, CreateControl, CreateLink, At, AddFails, Adding
    <3> QED BY <1>0, <3>1 DEF ControlInv, Adding
  <2> QED BY <2>1, <2>2
<1>5. CountInv' /\ StartInv'
  BY <1>1, <1>2, <1>3 DEF CountInv, StartInv, Starting
<1>6. RestInv'
  <2>1. SUFFICES ASSUME adapter.owner # None, ~adapter.start PROVE RestInv'
    BY <1>1 DEF RestInv
  <2>2. adapter.owner \in Devnode BY <2>1 DEF CountInv, AdapterState
  <2> QED BY <1>0, <1>1, <1>3, <1>4, <2>1, <2>2 DEF RestInv, Bare
<1> QED BY <1>5, <1>6

LEMMA NewAdapterKeeps ==
    ASSUME PnpOK, AdapterInv, NEW d \in Devnode, NewAdapterCommon(d)
    PROVE  AdapterInv'
<1> USE DEF AdapterInv
<1>0. /\ fdo \in [Devnode -> Status] /\ pnp.at = "idle" /\ pnp = Idle
      /\ fdo[d] \in {"added", "stopped"}
  BY IdleFields DEF PnpOK, NewAdapterCommon
<1>1. CASE /\ instances # 0 /\ fdo' = [fdo EXCEPT ![d] = "failed"]
           /\ UNCHANGED <<pnp, adapterVars>>
  <2>1. CountInv' /\ StartInv'
    BY <1>0, <1>1 DEF CountInv, StartInv, adapterVars, Starting
  <2>2. RestInv'
    BY <1>0, <1>1 DEF RestInv, adapterVars, CountInv, AdapterState, Bare
  <2> QED BY <2>1, <2>2
<1>2. CASE /\ instances = 0 /\ instances' = 1
           /\ adapter' = [NoAdapter EXCEPT !.owner = d, !.start = TRUE]
           /\ pnp' = [Idle EXCEPT !.at = "init", !.d = d] /\ UNCHANGED <<fdo, leaked>>
  <2>1. pnp'.at = "init" /\ pnp'.d = d /\ pnp'.made = {}
    BY <1>2, EnterMoves DEF Active, Starting
  <2>2. /\ adapter' \in AdapterState
        /\ adapter'.owner = d /\ adapter'.start /\ ~adapter'.ext
        /\ adapter'.registered = {} /\ adapter'.cached = {} /\ ~adapter'.connected
    BY <1>2, NewAdapterFields
  <2>3. CountInv'
    BY <1>2, <2>2, NoneAssumption DEF CountInv, Referred
  <2>4. StartInv' /\ RestInv'
    BY <1>0, <1>2, <2>1, <2>2 DEF StartInv, RestInv, Starting
  <2> QED BY <2>3, <2>4
<1>3. CASE /\ instances = 0 /\ instances' = 1 /\ leaked' = TRUE
           /\ fdo' = [fdo EXCEPT ![d] = "failed"] /\ UNCHANGED <<adapter, pnp>>
  <2>1. adapter.owner = None /\ adapter = NoAdapter
    BY <1>3 DEF CountInv
  <2> QED BY <1>0, <1>3, <2>1, NoAdapterFields DEF CountInv, StartInv, RestInv, Starting
<1> QED BY <1>1, <1>2, <1>3 DEF NewAdapterCommon

LEMMA InstallKeeps == ASSUME PnpOK, AdapterInv, InstallStep PROVE AdapterInv'
<1> USE DEF AdapterInv
<1>0. /\ pnp \in PnpState /\ adapter \in AdapterState
      /\ pnp.at \in Starting /\ pnp'.at \in Starting /\ pnp'.d = pnp.d
      /\ UNCHANGED <<fdo, instances, leaked>>
      /\ adapter.start /\ adapter.owner = pnp.d /\ ~adapter.ext
      /\ fdo[pnp.d] \in {"added", "stopped"}
      /\ adapter.registered \subseteq pnp.made /\ adapter.cached \subseteq pnp.made
      /\ pnp.d \in Devnode /\ pnp.d # None /\ pnp.made \subseteq Filter
  BY InstallStays, NoneAssumption DEF PnpOK, PnpState, CountInv, StartInv, Starting
<1>1. ASSUME adapter' \in AdapterState, adapter'.owner = adapter.owner, adapter'.start,
             ~adapter'.ext,
             adapter'.registered \subseteq pnp'.made, adapter'.cached \subseteq pnp'.made,
             pnp'.at \in {"init", "power"} => pnp'.made = {},
             adapter'.connected => pnp'.at \in {"install", "exit"} /\ pnp'.ok,
             pnp'.at = "exit" /\ ~pnp'.ok => adapter'.registered = {} /\ adapter'.cached = {}
      PROVE  AdapterInv'
  <2>1. CountInv' BY <1>0, <1>1, TouchKeeps DEF Referred
  <2>2. StartInv' /\ RestInv' BY <1>0, <1>1 DEF StartInv, RestInv
  <2> QED BY <2>1, <2>2
<1>2. {"power", "topo", "wave", "connect", "install", "exit"} \subseteq Active
  BY DEF Active, Starting
<1>3. CASE InitAdapter
  <2>1. pnp.at = "init" /\ adapter' = adapter /\ (Go("power") \/ StartFails)
    BY <1>3 DEF InitAdapter, StartStep, At
  <2>2. pnp.made = {} /\ ~adapter.connected BY <2>1 DEF StartInv, Starting
  <2>3. pnp'.at \in {"power", "exit"} /\ pnp'.made = {}
    BY <1>2, <2>1, <2>2, GoMoves, OkMoves DEF StartFails
  <2> QED BY <1>0, <1>1, <2>1, <2>2, <2>3
<1>4. CASE RegisterPower
  <2>1. /\ pnp.at = "power"
        /\ \/ adapter' = [adapter EXCEPT !.power = TRUE] /\ Go("topo")
           \/ StartFails /\ adapter' = adapter
    BY <1>4 DEF RegisterPower, StartStep, At
  <2>2. pnp.made = {} /\ ~adapter.connected BY <2>1 DEF StartInv, Starting
  <2>3. pnp'.at \in {"topo", "exit"} /\ pnp'.made = {}
    BY <1>2, <2>1, <2>2, GoMoves, OkMoves DEF StartFails
  <2>4. /\ adapter' \in AdapterState /\ adapter'.owner = adapter.owner
        /\ adapter'.start = adapter.start /\ adapter'.ext = adapter.ext
        /\ adapter'.connected = adapter.connected
        /\ adapter'.registered = adapter.registered /\ adapter'.cached = adapter.cached
    BY <1>0, <2>1, PowerFields
  <2> QED BY <1>0, <1>1, <2>2, <2>3, <2>4
<1>5. CASE InstallTopology \/ InstallWave
  <2>1. ~adapter.connected BY <1>5 DEF InstallTopology, InstallWave, StartStep, At, StartInv, Starting
  <2>2. PICK f \in Filter, next \in {"wave", "connect"} : InstallSubdevice(f, next)
    BY <1>5 DEF InstallTopology, InstallWave, Filter
  <2>3. PICK registers \in BOOLEAN, caches \in BOOLEAN :
            /\ adapter' = [adapter EXCEPT
                  !.registered = IF registers THEN @ \cup {f} ELSE @,
                  !.cached = IF registers /\ caches THEN @ \cup {f} ELSE @]
            /\ pnp' = [pnp EXCEPT !.at = next, !.ok = registers /\ caches,
                                  !.made = IF registers THEN @ \cup {f} ELSE @]
    BY <2>2 DEF InstallSubdevice
  <2> DEFINE made == IF registers THEN pnp.made \cup {f} ELSE pnp.made
             registered == IF registers THEN adapter.registered \cup {f} ELSE adapter.registered
             cached == IF registers /\ caches THEN adapter.cached \cup {f} ELSE adapter.cached
  <2>4. /\ made \subseteq Filter /\ registered \subseteq made /\ cached \subseteq made
        /\ (registers /\ caches) \in BOOLEAN
    BY <1>0
  <2>5. pnp'.at = next /\ pnp'.made = made
    <3>1. PICK ok \in BOOLEAN : pnp' = [pnp EXCEPT !.at = next, !.ok = ok, !.made = made]
      BY <2>3, <2>4
    <3>2. next \in Active /\ made \in SUBSET Filter
      BY <1>2, <2>4
    <3> HIDE DEF made
    <3> QED BY <3>1, <3>2, MadeMoves
  <2>6. /\ adapter' \in AdapterState
        /\ adapter'.owner = adapter.owner /\ adapter'.start = adapter.start
        /\ adapter'.ext = adapter.ext /\ adapter'.connected = adapter.connected
        /\ adapter'.registered = registered /\ adapter'.cached = cached
    BY <1>0, <2>3, <2>4, SubdeviceFields, ZenonT(30)
  <2> HIDE DEF made, registered, cached
  <2> QED BY <1>0, <1>1, <2>1, <2>4, <2>5, <2>6
<1>6. CASE ConnectTopologies
  <2>1. pnp.at = "connect" /\ ~adapter.connected
    BY <1>6 DEF ConnectTopologies, StartStep, At, StartInv, Starting
  <2>2. CASE \E ok \in BOOLEAN : /\ adapter' = [adapter EXCEPT !.connected = ok]
                                 /\ pnp' = [pnp EXCEPT !.at = "install", !.ok = ok]
    <3>1. PICK ok \in BOOLEAN : /\ adapter' = [adapter EXCEPT !.connected = ok]
                                /\ pnp' = [pnp EXCEPT !.at = "install", !.ok = ok]
      BY <2>2
    <3>2. pnp'.at = "install" /\ pnp'.made = pnp.made /\ pnp'.ok = ok
      BY <1>2, <3>1, OkMoves
    <3>3. /\ adapter' \in AdapterState
          /\ adapter'.owner = adapter.owner /\ adapter'.start = adapter.start
          /\ adapter'.ext = adapter.ext /\ adapter'.connected = ok
          /\ adapter'.registered = adapter.registered /\ adapter'.cached = adapter.cached
      BY <1>0, <3>1, ConnectFields
    <3> QED BY <1>0, <1>1, <3>2, <3>3
  <2>3. CASE Go("install") /\ adapter' = adapter
    <3>1. pnp'.at = "install" /\ pnp'.made = pnp.made
      BY <1>2, <2>3, GoMoves
    <3> QED BY <1>0, <1>1, <2>1, <2>3, <3>1
  <2> QED BY <1>6, <2>2, <2>3 DEF ConnectTopologies
<1>7. CASE InstallEnded
  <2>1. /\ pnp.at = "install" /\ Go("exit")
        /\ IF pnp.ok THEN adapter' = adapter
           ELSE adapter' = [adapter EXCEPT !.registered = @ \ pnp.made, !.cached = @ \ pnp.made]
    BY <1>7 DEF InstallEnded, StartStep, At
  <2>2. pnp'.at = "exit" /\ pnp'.made = pnp.made /\ pnp'.ok = pnp.ok
    BY <1>2, <2>1, GoMoves
  <2>3. adapter.connected => pnp.ok BY <2>1 DEF StartInv, Starting
  <2>4. CASE pnp.ok
    BY <1>0, <1>1, <2>1, <2>2, <2>3, <2>4
  <2>5. CASE ~pnp.ok
    <3>1. adapter.registered \ pnp.made = {} /\ adapter.cached \ pnp.made = {}
      BY <1>0
    <3>2. adapter' = [adapter EXCEPT !.registered = {}, !.cached = {}]
      BY <2>1, <2>5, <3>1
    <3>3. /\ adapter' \in AdapterState
          /\ adapter'.owner = adapter.owner /\ adapter'.start = adapter.start
          /\ adapter'.ext = adapter.ext /\ adapter'.connected = adapter.connected
          /\ adapter'.registered = {} /\ adapter'.cached = {}
      BY <1>0, <3>2, {} \in SUBSET Filter, SubdeviceFields
    <3> QED BY <1>0, <1>1, <2>2, <2>3, <2>5, <3>3
  <2> QED BY <2>4, <2>5
<1> QED BY <1>3, <1>4, <1>5, <1>6, <1>7 DEF InstallStep

LEMMA StartExitKeeps == ASSUME PnpOK, AdapterInv, StartExit PROVE AdapterInv'
<1> USE DEF AdapterInv
<1>0. /\ fdo \in [Devnode -> Status] /\ pnp.at = "exit" /\ pnp.d \in Devnode /\ pnp' = Idle
      /\ fdo' = [fdo EXCEPT ![pnp.d] = IF pnp.ok THEN "started" ELSE "failed"]
      /\ leaked' = leaked /\ adapter \in AdapterState /\ adapter.owner = pnp.d
      /\ pnp'.at = "idle"
      /\ adapter.connected => pnp.ok
      /\ ~pnp.ok => adapter.registered = {} /\ adapter.cached = {}
  BY IdleFields DEF StartExit, At, Done, PnpOK, CountInv, StartInv, Starting
<1>1. PICK a : a = [adapter EXCEPT !.ext = TRUE, !.start = FALSE] /\ Release(a)
  BY DEF StartExit
<1>2. /\ a \in AdapterState
      /\ a.owner = adapter.owner /\ ~a.start /\ a.ext /\ a.connected = adapter.connected
      /\ a.registered = adapter.registered /\ a.cached = adapter.cached
  BY <1>0, <1>1, ExitFields
<1>3. adapter' = a /\ CountInv'
  BY <1>0, <1>1, <1>2, ReleaseKeeps, NoneAssumption DEF Referred
<1>4. StartInv' BY <1>0, <1>2, <1>3 DEF StartInv, Starting
<1>5. RestInv' BY <1>0, <1>2, <1>3 DEF RestInv, NoSubdevice
<1> QED BY <1>3, <1>4, <1>5

\* A request begins or empties the feed: the adapter is not touched.
LEMMA RequestKeeps ==
    ASSUME PnpOK, AdapterInv,
           \/ \E d \in Devnode, request \in {"stop", "surprise", "remove"} : PnpHandler(d, request)
           \/ FeedCleanup
    PROVE  AdapterInv'
<1> USE DEF AdapterInv
<1>1. UNCHANGED <<adapter, instances, leaked, fdo>>
  BY DEF PnpHandler, FeedCleanup, adapterVars
<1>2. pnp.at \in {"idle", "cleanup"} /\ pnp'.at \in {"cleanup", "drop"}
  <2>1. CASE \E d \in Devnode, request \in {"stop", "surprise", "remove"} : PnpHandler(d, request)
    <3>1. PICK d \in Devnode, request \in {"stop", "surprise", "remove"} : PnpHandler(d, request)
      BY <2>1
    <3>2. PICK at \in {"cleanup", "drop"} :
              pnp' = [Idle EXCEPT !.at = at, !.request = request, !.d = d]
      BY <3>1 DEF PnpHandler
    <3>3. at \in Active /\ request \in Request BY DEF Active, Removing, Request
    <3> QED BY <3>1, <3>2, <3>3, IdleFields, BeginMoves, ZenonT(30) DEF PnpHandler
  <2>2. CASE FeedCleanup
    BY <2>2, GoMoves DEF FeedCleanup, At, Active, Removing
  <2> QED BY <2>1, <2>2
<1> QED BY <1>1, <1>2 DEF CountInv, StartInv, RestInv, Starting

LEMMA DropKeeps == ASSUME PnpOK, AdapterInv, DropAdapter PROVE AdapterInv'
<1> USE DEF AdapterInv
<1>0. /\ fdo \in [Devnode -> Status] /\ pnp.at = "drop" /\ pnp.d \in Devnode
      /\ UNCHANGED <<fdo, leaked>> /\ adapter \in AdapterState
      /\ pnp'.at = "dispatch" /\ pnp'.d = pnp.d /\ ~adapter.start
  BY GoMoves DEF DropAdapter, At, PnpOK, CountInv, StartInv, Starting, Active, Removing
<1>1. CASE ~Owns(pnp.d)
  <2>1. UNCHANGED <<adapter, instances>> BY <1>1 DEF DropAdapter
  <2> QED BY <1>0, <1>1, <2>1 DEF CountInv, StartInv, RestInv, Starting, Owns
<1>2. CASE Owns(pnp.d)
  <2>1. PICK a : a = [adapter EXCEPT !.cached = {}, !.ext = FALSE] /\ Release(a)
    BY <1>2 DEF DropAdapter
  <2>2. /\ a \in AdapterState
        /\ a.owner = adapter.owner /\ a.start = adapter.start /\ ~a.ext
        /\ a.power = adapter.power /\ a.connected = adapter.connected
        /\ a.registered = adapter.registered /\ a.cached = {}
    BY <1>0, <2>1, DropFields
  <2>3. adapter.owner = pnp.d BY <1>2 DEF Owns
  <2>4. CountInv' /\ (adapter' = NoAdapter \/ adapter' = a)
    BY <1>0, <2>1, <2>2, <2>3, ReleaseKeeps, NoneAssumption
  <2>5. CASE adapter' = NoAdapter
    BY <1>0, <2>4, <2>5, NoAdapterFields DEF StartInv, RestInv, Starting
  <2>6. CASE adapter' = a
    <3>1. StartInv' BY <1>0, <2>2, <2>6 DEF StartInv, Starting
    <3>2. RestInv'
      BY <1>0, <2>2, <2>3, <2>6, NoneAssumption DEF RestInv, Bare, NoSubdevice
    <3> QED BY <2>4, <3>1, <3>2
  <2> QED BY <2>4, <2>5, <2>6
<1> QED BY <1>1, <1>2

LEMMA DispatchKeeps == ASSUME PnpOK, AdapterInv, PcDispatchIrp PROVE AdapterInv'
<1> USE DEF AdapterInv
<1>0. /\ fdo \in [Devnode -> Status] /\ pnp.at = "dispatch" /\ pnp.d \in Devnode
      /\ leaked' = leaked /\ adapter \in AdapterState /\ ~adapter.start
      /\ pnp' = Idle /\ pnp'.at = "idle"
  BY IdleFields DEF PcDispatchIrp, At, Done, PnpOK, CountInv, StartInv, Starting
<1>1. PICK status \in {"stopped", "gone", "none"} : fdo' = [fdo EXCEPT ![pnp.d] = status]
  <2>1. pnp.request \in {"stop", "surprise", "remove"}
    BY <1>0 DEF PnpOK, PnpState, Request, Removing
  <2>2. CASE pnp.request = "stop" BY <2>2 DEF PcDispatchIrp
  <2>3. CASE pnp.request = "surprise" BY <2>3 DEF PcDispatchIrp
  <2>4. CASE pnp.request = "remove" BY <2>4 DEF PcDispatchIrp
  <2> QED BY <2>1, <2>2, <2>3, <2>4
<1>2. CASE adapter.owner # pnp.d
  <2>1. UNCHANGED <<adapter, instances>> BY <1>2 DEF PcDispatchIrp
  <2>2. CountInv' /\ StartInv' BY <1>0, <2>1 DEF CountInv, StartInv, Starting
  <2>3. RestInv'
    <3>1. SUFFICES ASSUME adapter.owner # None PROVE RestInv'
      BY <2>1 DEF RestInv
    <3>2. fdo'[adapter.owner] = fdo[adapter.owner]
      BY <1>0, <1>1, <1>2, <3>1 DEF AdapterState
    <3> QED BY <1>0, <2>1, <3>1, <3>2 DEF RestInv
  <2> QED BY <2>2, <2>3
<1>3. CASE adapter.owner = pnp.d
  <2>1. PICK a : /\ a = [adapter EXCEPT !.power = FALSE, !.registered = {}, !.connected = FALSE]
                 /\ Release(a)
    BY <1>3 DEF PcDispatchIrp
  <2>2. /\ a \in AdapterState
        /\ a.owner = adapter.owner /\ a.start = adapter.start /\ a.ext = adapter.ext
        /\ ~a.power /\ ~a.connected /\ a.registered = {} /\ a.cached = adapter.cached
    BY <1>0, <2>1, DispatchFields
  <2>3. CountInv' /\ (adapter' = NoAdapter \/ adapter' = a)
    BY <1>0, <1>3, <2>1, <2>2, ReleaseKeeps, NoneAssumption
  <2>4. CASE adapter' = NoAdapter
    BY <1>0, <2>3, <2>4, NoAdapterFields DEF StartInv, RestInv, Starting
  <2>5. CASE adapter' = a
    <3>1. StartInv' BY <1>0, <2>2, <2>5 DEF StartInv, Starting
    <3>2. ~adapter.ext /\ adapter.cached = {}
      BY <1>0, <1>3, NoneAssumption DEF RestInv
    <3>3. Bare(a) BY <2>2, <3>2 DEF Bare, NoSubdevice
    <3>4. RestInv' BY <1>0, <2>2, <2>5, <3>2, <3>3 DEF RestInv, Bare, NoSubdevice
    <3> QED BY <2>3, <3>1, <3>4
  <2> QED BY <2>3, <2>4, <2>5
<1> QED BY <1>2, <1>3

LEMMA UserKeeps ==
    ASSUME PnpOK, AdapterInv, User \/ DriverEntry \/ DriverUnload \/ UNCHANGED vars
    PROVE  AdapterInv'
<1> USE DEF AdapterInv
<1>0. UNCHANGED <<fdo, pnp, leaked>> /\ adapter \in AdapterState
  BY DEF User, DriverEntry, DriverUnload, VbmDispatchCreate, VbmDispatchWrite,
         VbmDispatchCleanup, ProgramOpens, ProgramCloses, adapterVars, vars, CountInv
<1>1. CASE UNCHANGED <<adapter, instances>>
  BY <1>0, <1>1 DEF CountInv, StartInv, RestInv
<1>2. ASSUME CountInv', adapter.owner # None, NEW a \in AdapterState, adapter' = a,
             a.owner = adapter.owner, a.start = adapter.start, a.ext = adapter.ext,
             a.power = adapter.power, a.connected = adapter.connected,
             a.registered = adapter.registered, a.cached = adapter.cached
      PROVE  AdapterInv'
  <2>1. StartInv' BY <1>0, <1>2 DEF StartInv
  <2>2. RestInv' BY <1>0, <1>2 DEF RestInv, Bare, NoSubdevice
  <2> QED BY <1>2, <2>1, <2>2
<1>3. CASE ProgramOpens
  <2>1. adapter.owner # None BY <1>3, NoAdapterFields DEF ProgramOpens, CountInv
  <2>2. /\ adapter' \in AdapterState
        /\ adapter'.owner = adapter.owner /\ adapter'.start = adapter.start
        /\ adapter'.ext = adapter.ext /\ adapter'.power = adapter.power
        /\ adapter'.connected = adapter.connected /\ adapter'.registered = adapter.registered
        /\ adapter'.cached = adapter.cached /\ adapter'.open
    BY <1>0, <1>3, OpenFields DEF ProgramOpens
  <2>3. CountInv' BY <1>0, <1>3, <2>1, <2>2, TouchKeeps DEF ProgramOpens, Referred
  <2> QED BY <1>2, <2>1, <2>2, <2>3
<1>4. CASE ProgramCloses
  <2>1. adapter.owner # None
    BY <1>4 DEF ProgramCloses, CountInv, NoAdapter
  <2>2. PICK a : a = [adapter EXCEPT !.open = FALSE] /\ Release(a)
    BY <1>4 DEF ProgramCloses
  <2>3. /\ a \in AdapterState
        /\ a.owner = adapter.owner /\ a.start = adapter.start /\ a.ext = adapter.ext
        /\ a.power = adapter.power /\ a.connected = adapter.connected
        /\ a.registered = adapter.registered /\ a.cached = adapter.cached
    BY <1>0, <2>2, OpenFields
  <2>4. CountInv' /\ (adapter' = NoAdapter \/ adapter' = a) /\ (Referred(a) => adapter' = a)
    BY <1>0, <2>1, <2>2, <2>3, ReleaseKeeps
  <2>5. CASE adapter' = a BY <1>2, <2>1, <2>3, <2>4, <2>5
  <2>6. CASE adapter' = NoAdapter /\ ~Referred(a)
    <3>1. ~adapter.start BY <2>3, <2>6 DEF Referred
    <3>2. StartInv' BY <1>0, <2>6, <3>1, NoAdapterFields DEF StartInv
    <3>3. RestInv' BY <2>6, NoAdapterFields DEF RestInv
    <3> QED BY <2>4, <3>2, <3>3
  <2> QED BY <2>4, <2>5, <2>6
<1> QED BY <1>1, <1>3, <1>4 DEF User, DriverEntry, DriverUnload, VbmDispatchCreate,
            VbmDispatchWrite, VbmDispatchCleanup, adapterVars, vars

-----------------------------------------------------------------------------
LifeInv == PnpOK /\ ControlInv /\ AdapterInv

LEMMA LifeAlways == Spec => []LifeInv
<1>1. Init => LifeInv
  BY PnpStarts, ControlStarts, AdapterStarts DEF LifeInv
<1>2. LifeInv /\ [Next]_vars => LifeInv'
  <2> SUFFICES ASSUME LifeInv, [Next]_vars PROVE LifeInv'
    OBVIOUS
  <2> USE DEF LifeInv
  <2>1. PnpOK' BY PnpKept
  <2>2. ControlInv' BY <2>1, ControlKept DEF AdapterInv
  <2>3. AdapterInv'
    BY AddKeeps, NewAdapterKeeps, InstallKeeps, StartExitKeeps, RequestKeeps, DropKeeps,
       DispatchKeeps, UserKeeps DEF Next, Pnp, InstallStep
  <2> QED BY <2>1, <2>2, <2>3
<1> QED BY <1>1, <1>2, PTL DEF Spec

-----------------------------------------------------------------------------
(* When every devnode is gone and no stream open, nothing is left of them, *)
(* whichever step of the start, or allocation, failed (PnpHandler,         *)
(* Cleanup, ~CAdapterCommon).                                              *)
THEOREM RemovalAlwaysClean == Spec => []RemovalLeavesNothing
<1>1. LifeInv => RemovalLeavesNothing
  <2> SUFFICES ASSUME LifeInv, pnp = Idle, \A d \in Devnode : fdo[d] = "none", ~adapter.open
               PROVE  /\ adapter = NoAdapter /\ control = 0 /\ ~symlink /\ ~feed
                      /\ instances = (IF leaked THEN 1 ELSE 0)
    BY DEF RemovalLeavesNothing
  <2> USE DEF LifeInv, AdapterInv
  <2>1. control = 0 /\ ~symlink /\ ~feed BY DEF ControlInv
  <2>2. adapter.owner = None
    <3> SUFFICES ASSUME adapter.owner # None PROVE FALSE OBVIOUS
    <3>1. ~adapter.start BY IdleFields DEF StartInv, Starting
    <3>2. Bare(adapter) BY <3>1 DEF RestInv, CountInv, AdapterState
    <3> QED BY <3>1, <3>2 DEF CountInv, Referred, Bare, NoSubdevice
  <2> QED BY <2>1, <2>2 DEF CountInv
<1> QED BY <1>1, LifeAlways, PTL

(* A failed start leaves no subdevice registered, cached or connected      *)
(* (InstallEndpointFilters).                                               *)
THEOREM FailedStartAlwaysClean == Spec => []FailedStartLeavesNothing
<1>1. LifeInv => FailedStartLeavesNothing
  <2> SUFFICES ASSUME LifeInv, NEW d \in Devnode, fdo[d] = "failed", adapter.owner = d
               PROVE  NoSubdevice(adapter)
    BY DEF FailedStartLeavesNothing, NoSubdevice
  <2> USE DEF LifeInv, AdapterInv
  <2>1. ~adapter.start BY DEF StartInv
  <2> QED BY <2>1, NoneAssumption DEF RestInv
<1> QED BY <1>1, LifeAlways, PTL

(* Between two requests a started devnode can be fed as long as no other   *)
(* was removed since it was added (AddDevice, PnpHandler).                 *)
THEOREM StartedAlwaysFed == Spec => []StartedCanBeFed
<1>1. LifeInv => StartedCanBeFed
  BY IdleFields DEF LifeInv, StartedCanBeFed, ControlInv, ControlUp, Present, Adding
<1> QED BY <1>1, LifeAlways, PTL

-----------------------------------------------------------------------------
(* The capture stream                                                      *)
(*                                                                         *)
(* Interval and PacketBytes are one packet as time and as bytes.           *)

Interval == ((BufferBytes * MsPerSec) \div Rate) \div Packets
PacketBytes == BufferBytes \div Packets

StreamTyped ==
    /\ {now, sessions, dmaStamp, elapsedCarry, byteCarry, lastDpc, dpcCarry, due} \subseteq Nat
    /\ {linear, writePos, packetCount, staleCarry, written, read} \subseteq Nat
    /\ dmaStamp <= now /\ lastDpc <= now
    /\ elapsedCarry < TicksPerMs /\ byteCarry < MsPerSec
    /\ bufSize \in {0, BufferBytes} /\ interval \in {0, Interval}
    /\ DOMAIN dma = 0 .. BufferBytes - 1
    /\ tape \in Seq(Nat)

\* Where SetState is, and what the timer may do meanwhile.
ControlOK ==
    /\ ks \in {"NONE", "STOP", "ACQUIRE", "PAUSE", "RUN"}
    /\ ctl \in {"idle", "armed", "cancelled", "flushed", "settled"}
    /\ ctl = "armed" => ks = "PAUSE"
    /\ ctl \in {"cancelled", "flushed", "settled"} => ks = "RUN" /\ ~timerOn
    /\ ctl \in {"flushed", "settled"} => ~dpc
    /\ ctl = "idle" /\ ks # "RUN" => ~timerOn /\ ~dpc
    /\ ks \notin {"NONE", "STOP"} => bufSize = BufferBytes
    /\ timerOn \/ dpc => interval = Interval
    /\ ks = "STOP" => linear = 0 /\ writePos = 0 /\ tape = <<>>

\* The unread bytes are in their places.
FeedOK ==
    /\ ring \in [0 .. RingBytes - 1 -> Nat]
    /\ read <= written /\ written - read <= RingBytes
    /\ \A b \in read + 1 .. written : ring[(b - 1) % RingBytes] = b

\* The position has counted ms milliseconds at least, and is never behind the
\* notifications: what it has not counted yet, they have not either.
Counted(ms) ==
    /\ linear * MsPerSec + byteCarry >= ms * Rate
    /\ ms >= packetCount * Interval
    /\ LET ticks == ms * TicksPerMs + elapsedCarry
           notified == packetCount * Interval * TicksPerMs + dpcCarry
       IN  IF ctl \in {"armed", "cancelled"} \/ (ctl = "idle" /\ ks = "RUN")
           THEN ticks - dmaStamp >= notified - lastDpc
           ELSE IF ctl = "flushed" THEN ticks + now - dmaStamp >= notified
           ELSE ticks >= notified
ClocksOK == staleCarry = 0 => \E ms \in Nat : Counted(ms)

StreamInv == StreamTyped /\ ControlOK /\ FeedOK /\ HeardInOrder /\ AudioWhereReported /\ ClocksOK

-----------------------------------------------------------------------------
(* Arithmetic.                                                             *)

LEMMA Parameters ==
    /\ RingBytes \in Nat /\ RingBytes > 0 /\ BufferBytes \in Nat /\ BufferBytes > 0
    /\ TicksPerMs \in Nat /\ TicksPerMs > 0 /\ MsPerSec \in Nat /\ MsPerSec > 0
    /\ Rate \in Nat /\ Rate > 0 /\ Packets \in Nat /\ Packets > 0
BY RingAssumption, RateAssumption

LEMMA DivMod == ASSUME NEW c \in Nat, c > 0, NEW a \in Int
  PROVE a % c \in 0 .. c - 1 /\ a \div c \in Int /\ a = c * (a \div c) + (a % c)
OBVIOUS

LEMMA NotBetween == ASSUME NEW c \in Nat, c > 0, NEW n \in Int, 0 < c * n, c * n < c PROVE FALSE
<1>1. CASE n <= 0
  BY <1>1
<1>2. CASE n >= 1
  BY <1>2
<1> QED BY <1>1, <1>2

LEMMA DivNat == ASSUME NEW c \in Nat, c > 0, NEW a \in Nat
  PROVE a % c \in Nat /\ a % c < c /\ a \div c \in Nat /\ a = c * (a \div c) + (a % c)
<1>1. a % c \in 0 .. c - 1 /\ a \div c \in Int /\ a = c * (a \div c) + (a % c)
  BY DivMod
<1>2. ASSUME a \div c < 0 PROVE FALSE
  <2> DEFINE q == a \div c
  <2>1. q \in Int /\ q <= -1 /\ a < c * q + c
    BY <1>1, <1>2
  <2> HIDE DEF q
  <2>2. c * q + c <= 0
    BY <2>1
  <2> QED BY <2>1, <2>2
<1> QED BY <1>1, <1>2

(* Numbers less than c apart have different places in a ring of c. *)
LEMMA ApartInRing == ASSUME NEW c \in Nat, c > 0, NEW j \in Nat, NEW k \in Nat, j < k, k - j < c
  PROVE j % c # k % c
<1> SUFFICES ASSUME j % c = k % c PROVE FALSE
  OBVIOUS
<1>1. j \div c \in Int /\ j = c * (j \div c) + (j % c) /\ j % c \in Int
  BY DivMod
<1>2. k \div c \in Int /\ k = c * (k \div c) + (k % c)
  BY DivMod
<1>3. c * ((k \div c) - (j \div c)) = k - j
  BY <1>1, <1>2
<1> DEFINE n == (k \div c) - (j \div c)
<1>4. n \in Int /\ c * n = k - j
  BY <1>1, <1>2, <1>3
<1> HIDE DEF n
<1>5. ~(0 < c * n /\ c * n < c)
  BY <1>4, NotBetween
<1> QED BY <1>4, <1>5

(* A remainder may be taken before an addition. *)
LEMMA AddInRing == ASSUME NEW c \in Nat, c > 0, NEW a \in Nat, NEW d \in Nat
  PROVE ((a % c) + d) % c = (a + d) % c
<1> DEFINE b == (a % c) + d
<1>1. a % c \in 0 .. c - 1 /\ a \div c \in Int /\ a = c * (a \div c) + (a % c)
  BY DivMod
<1>2. b \in Int
  BY <1>1
<1>3. b % c \in 0 .. c - 1 /\ b \div c \in Int /\ b = c * (b \div c) + (b % c)
  BY <1>2, DivMod
<1>4. (a + d) % c \in 0 .. c - 1 /\ (a + d) \div c \in Int /\ a + d = c * ((a + d) \div c) + ((a + d) % c)
  BY DivMod
<1> DEFINE n == (b \div c) + (a \div c) - ((a + d) \div c)
<1>5. n \in Int /\ c * n = ((a + d) % c) - (b % c)
  BY <1>1, <1>3, <1>4
<1>6. ASSUME NEW m \in Int, 0 < c * m, c * m < c PROVE FALSE
  BY <1>6, NotBetween
<1>7. -n \in Int /\ c * (-n) = (b % c) - ((a + d) % c)
  BY <1>5, <1>3, <1>4
<1> HIDE DEF n
<1>8. ~(0 < c * n) /\ ~(0 < c * (-n))
  BY <1>3, <1>4, <1>5, <1>6, <1>7
<1> QED BY <1>3, <1>4, <1>5, <1>7, <1>8

(* Of the k bytes before the end, the n new ones are the last that were    *)
(* put in their places, and the others were not put anywhere.              *)
LEMMA LastHit == ASSUME NEW c \in Nat, c > 0, NEW pos \in Nat, NEW n \in Nat, NEW k \in 1 .. c, k <= n
  PROVE /\ n - k + 1 \in 1 .. n
        /\ pos + (n - k + 1) - 1 = pos + n - k
        /\ \A j \in 1 .. n : (pos + j - 1) % c = (pos + n - k) % c => j <= n - k + 1
<1>1. ASSUME NEW j \in 1 .. n, j > n - k + 1 PROVE (pos + j - 1) % c # (pos + n - k) % c
  <2>1. pos + n - k \in Nat /\ pos + j - 1 \in Nat
    OBVIOUS
  <2>2. pos + n - k < pos + j - 1 /\ (pos + j - 1) - (pos + n - k) < c
    BY <1>1
  <2> QED BY <2>1, <2>2, ApartInRing
<1> QED BY <1>1

LEMMA NoHit == ASSUME NEW c \in Nat, c > 0, NEW pos \in Nat, NEW n \in Nat, NEW k \in 1 .. c,
                      k > n, k <= pos + n
  PROVE \A j \in 1 .. n : (pos + j - 1) % c # (pos + n - k) % c
<1>1. ASSUME NEW j \in 1 .. n PROVE (pos + j - 1) % c # (pos + n - k) % c
  <2>1. pos + n - k \in Nat /\ pos + j - 1 \in Nat
    OBVIOUS
  <2>2. pos + n - k < pos + j - 1 /\ (pos + j - 1) - (pos + n - k) < c
    OBVIOUS
  <2> QED BY <2>1, <2>2, ApartInRing
<1> QED BY <1>1

LEMMA AtLeast == ASSUME NEW a \in Nat, NEW b \in Nat, NEW c \in Nat, NEW r \in Nat, r < c,
                        a * c + r >= b * c
  PROVE a >= b
<1> SUFFICES ASSUME b >= a + 1 PROVE FALSE
  OBVIOUS
<1>1. (b - (a + 1)) * c >= 0
  OBVIOUS
<1>2. b * c >= (a + 1) * c
  BY <1>1
<1>3. (a + 1) * c = a * c + c
  OBVIOUS
<1>4. a * c \in Nat /\ b * c \in Nat
  OBVIOUS
<1> QED BY <1>2, <1>3, <1>4

LEMMA Times == ASSUME NEW a \in Nat, NEW b \in Nat, NEW c \in Nat, a >= b PROVE a * c >= b * c
<1>1. (a - b) * c >= 0
  OBVIOUS
<1> QED BY <1>1

(* An interval brings exactly one packet.                                  *)
LEMMA IntervalBringsPacket ==
    Interval \in Nat /\ PacketBytes \in Nat /\ Interval * Rate = PacketBytes * MsPerSec
<1> DEFINE bytes == BufferBytes * MsPerSec
           time == bytes \div Rate
<1>1. bytes \in Nat
  BY Parameters
<1>2. time \in Nat /\ bytes = Rate * time + (bytes % Rate)
  BY <1>1, Parameters, DivNat
<1>3. bytes % Rate = 0 /\ time % Packets = 0
  BY ExactAssumption
<1> HIDE DEF bytes
<1>4. bytes = Rate * time
  BY <1>2, <1>3, Parameters
<1> HIDE DEF time
<1>5. time \div Packets \in Nat /\ time = Packets * (time \div Packets)
  <2>1. /\ time \div Packets \in Nat
        /\ time = Packets * (time \div Packets) + (time % Packets)
    BY <1>2, Parameters, DivNat
  <2> QED BY <2>1, <1>3, Parameters
<1>6. Interval = time \div Packets
  BY DEF Interval, time, bytes
<1>7. PacketBytes \in Nat /\ BufferBytes = Packets * PacketBytes
  <2>1. /\ BufferBytes \div Packets \in Nat
        /\ BufferBytes = Packets * (BufferBytes \div Packets) + (BufferBytes % Packets)
    BY Parameters, DivNat
  <2>2. BufferBytes % Packets = 0
    BY RateAssumption
  <2> QED BY <2>1, <2>2, Parameters DEF PacketBytes
<1>8. bytes = BufferBytes * MsPerSec
  BY DEF bytes
<1>9. Packets * (Interval * Rate) = Packets * (PacketBytes * MsPerSec)
  <2>1. Interval \in Nat /\ time = Packets * Interval
    BY <1>5, <1>6
  <2>2. Packets * (Interval * Rate) = Rate * (Packets * Interval)
    BY <2>1, Parameters
  <2>3. Packets * (PacketBytes * MsPerSec) = (Packets * PacketBytes) * MsPerSec
    BY <1>7, Parameters
  <2> QED BY <2>1, <2>2, <2>3, <1>4, <1>7, <1>8
<1>10. ASSUME NEW a \in Nat, NEW b \in Nat, Packets * a = Packets * b PROVE a = b
  <2>1. Packets * (a - b) = 0
    BY <1>10, Parameters
  <2> QED BY <2>1, Parameters
<1>11. Interval \in Nat /\ Interval * Rate \in Nat /\ PacketBytes * MsPerSec \in Nat
  BY <1>5, <1>6, <1>7, Parameters
<1> QED BY <1>7, <1>9, <1>10, <1>11

-----------------------------------------------------------------------------
(* The feed's ring.                                                        *)

FeedTyped == written \in Nat /\ read \in Nat

LEMMA FeedWriteKeeps ==
  ASSUME FeedTyped, FeedOK, NEW n \in Nat, FeedWrite(n)
  PROVE  FeedTyped' /\ FeedOK' /\ read' = read
<1> DEFINE a == Accepted(n)
<1>1. read \in Nat /\ written \in Nat /\ read <= written /\ written - read <= RingBytes
  BY DEF FeedTyped, FeedOK
<1>2. a \in Nat /\ written + a - read <= RingBytes
  BY <1>1, Parameters DEF Accepted, Buffered
<1>3. /\ ring \in [0 .. RingBytes - 1 -> Nat]
      /\ \A b \in read + 1 .. written : ring[(b - 1) % RingBytes] = b
  BY DEF FeedOK
<1> DEFINE new(i) == {k \in 1 .. a : (written + k - 1) % RingBytes = i}
<1>4. /\ written' = written + a /\ read' = read
      /\ ring' = [i \in 0 .. RingBytes - 1 |->
                    IF new(i) = {} THEN ring[i] ELSE written + (CHOOSE k \in new(i) : TRUE)]
  BY <1>3 DEF FeedWrite
<1> HIDE DEF a
<1>5. ring' \in [0 .. RingBytes - 1 -> Nat]
  <2> SUFFICES ASSUME NEW i \in 0 .. RingBytes - 1
               PROVE (IF new(i) = {} THEN ring[i] ELSE written + (CHOOSE k \in new(i) : TRUE)) \in Nat
    BY <1>4
  <2>1. CASE new(i) = {}
    BY <2>1, <1>3
  <2>2. CASE new(i) # {}
    <3>1. (CHOOSE k \in new(i) : TRUE) \in new(i)
      BY <2>2
    <3>2. (CHOOSE k \in new(i) : TRUE) \in Nat
      BY <3>1, <1>2
    <3> QED BY <2>2, <3>2, <1>1
  <2> QED BY <2>1, <2>2
<1>6. ASSUME NEW b \in read + 1 .. written + a PROVE ring'[(b - 1) % RingBytes] = b
  <2> DEFINE i == (b - 1) % RingBytes
  <2>1. b \in Nat /\ b - 1 \in Nat /\ read + 1 <= b /\ b <= written + a
    BY <1>1, <1>2
  <2>2. i \in 0 .. RingBytes - 1
    BY <2>1, Parameters, DivMod
  <2>3. CASE b > written
    <3> DEFINE m == b - written
    <3>1. m \in 1 .. a /\ written + m - 1 = b - 1
      BY <1>1, <1>2, <2>1, <2>3
    <3>2. m \in new(i)
      BY <3>1
    <3>3. ASSUME NEW k \in new(i) PROVE k = m
      <4>1. k \in 1 .. a /\ (written + k - 1) % RingBytes = (b - 1) % RingBytes
        OBVIOUS
      <4>5. k \in Nat /\ 1 <= k /\ k <= a
        BY <4>1, <1>2
      <4>2. written + k - 1 \in Nat
        BY <4>5, <1>1
      <4>3. ~(written + k - 1 < b - 1)
        <5>1. (b - 1) - (written + k - 1) < RingBytes
          BY <4>5, <2>1, <1>1, <1>2, Parameters
        <5> QED BY <4>1, <4>2, <5>1, <2>1, Parameters, ApartInRing
      <4>4. ~(b - 1 < written + k - 1)
        <5>1. (written + k - 1) - (b - 1) < RingBytes
          BY <4>5, <2>1, <1>1, <1>2, Parameters
        <5> QED BY <4>1, <4>2, <5>1, <2>1, Parameters, ApartInRing
      <4> QED BY <4>1, <4>3, <4>4, <1>1, <1>2, <2>1
    <3>4. (CHOOSE k \in new(i) : TRUE) = m
      BY <3>2, <3>3
    <3>5. ring'[i] = written + m
      BY <1>4, <2>2, <3>2, <3>4
    <3> QED BY <3>5, <1>1, <2>1
  <2>4. CASE b <= written
    <3>1. ASSUME NEW k \in 1 .. a PROVE (written + k - 1) % RingBytes # i
      <4>2. k \in Nat /\ 1 <= k /\ k <= a
        BY <1>2
      <4>1. written + k - 1 \in Nat /\ b - 1 < written + k - 1 /\ (written + k - 1) - (b - 1) < RingBytes
        BY <4>2, <1>1, <1>2, <2>1, <2>4, Parameters
      <4> QED BY <4>1, <2>1, Parameters, ApartInRing
    <3>2. new(i) = {}
      BY <3>1
    <3>3. ring'[i] = ring[i]
      BY <1>4, <2>2, <3>2
    <3>4. b \in read + 1 .. written
      BY <2>1, <2>4, <1>1
    <3> QED BY <3>3, <3>4, <1>3
  <2> QED BY <2>1, <2>3, <2>4, <1>1
<1>7. FeedTyped'
  BY <1>1, <1>2, <1>4 DEF FeedTyped
<1>8. FeedOK'
  <2>1. \A b \in read' + 1 .. written' : ring'[(b - 1) % RingBytes] = b
    BY <1>4, <1>6
  <2>2. read' <= written' /\ written' - read' <= RingBytes
    BY <1>1, <1>2, <1>4
  <2> QED BY <1>5, <2>1, <2>2 DEF FeedOK
<1> QED BY <1>4, <1>7, <1>8

LEMMA FeedReadGives ==
  ASSUME FeedTyped, FeedOK, NEW n \in Nat
  PROVE  /\ Copied(n) \in Nat /\ Copied(n) <= n /\ read + Copied(n) <= written
         /\ Drained(n) \in Seq(Nat) /\ Len(Drained(n)) = n
         /\ \A k \in 1 .. n : Drained(n)[k] = IF k <= Copied(n) THEN read + k ELSE 0
<1>1. read \in Nat /\ written \in Nat /\ read <= written
  BY DEF FeedTyped, FeedOK
<1>2. Copied(n) \in Nat /\ Copied(n) <= n /\ read + Copied(n) <= written
  BY <1>1 DEF Copied, Buffered
<1>3. ASSUME NEW k \in 1 .. n, k <= Copied(n) PROVE ring[(read + k - 1) % RingBytes] = read + k
  <2>1. read + k \in read + 1 .. written /\ (read + k) - 1 = read + k - 1
    BY <1>1, <1>2, <1>3
  <2> QED BY <2>1 DEF FeedOK
<1>4. Drained(n) = [k \in 1 .. n |-> IF k <= Copied(n) THEN read + k ELSE 0]
  BY <1>3 DEF Drained, Silence
<1>5. \A k \in 1 .. n : (IF k <= Copied(n) THEN read + k ELSE 0) \in Nat
  BY <1>1
<1> QED BY <1>2, <1>4, <1>5

LEMMA FeedReadKeeps ==
  ASSUME FeedTyped, FeedOK, NEW n \in Nat, FeedRead(n)
  PROVE  FeedTyped' /\ FeedOK' /\ read' = read + Copied(n)
<1>1. Copied(n) \in Nat /\ read + Copied(n) <= written
  BY FeedReadGives
<1>2. read' = read + Copied(n) /\ ring' = ring /\ written' = written
  BY DEF FeedRead
<1>3. read \in Nat /\ written \in Nat
  BY DEF FeedTyped
<1>4. \A b \in read' + 1 .. written : b \in read + 1 .. written
  BY <1>1, <1>2, <1>3
<1>5. written' - read' <= RingBytes /\ read' <= written'
  BY <1>1, <1>2, <1>3, Parameters DEF FeedOK
<1> QED BY <1>1, <1>2, <1>3, <1>4, <1>5 DEF FeedTyped, FeedOK

LEMMA FeedResetKeeps ==
  ASSUME FeedTyped, FeedOK, FeedReset
  PROVE  FeedTyped' /\ FeedOK'
<1>1. read' = written /\ ring' = ring /\ written' = written /\ written \in Nat
  BY DEF FeedReset, FeedTyped
<1>2. ring \in [0 .. RingBytes - 1 -> Nat]
  BY DEF FeedOK
<1> QED BY <1>1, <1>2, Parameters DEF FeedTyped, FeedOK

LEMMA Beyond == ASSUME NEW r \in Nat, NEW low \in Nat, NEW high \in Nat, NEW b \in low .. high
  PROVE  (b \in low .. r \/ b \in r + 1 .. high) /\ (r < low => b \in r + 1 .. high)
OBVIOUS

(* What is heard next follows what was heard before.                       *)
LEMMA HearsOn ==
  ASSUME HeardInOrder, tape \in Seq(Nat), read \in Nat, NEW d \in Seq(Nat), NEW c \in 0 .. Len(d),
         \A k \in 1 .. Len(d) : d[k] = IF k <= c THEN read + k ELSE 0,
         tape' = tape \o d, read' = read + c
  PROVE  HeardInOrder'
<1> DEFINE l == Len(tape)
<1>1. l \in Nat /\ Len(d) \in Nat /\ c \in Nat
  OBVIOUS
<1>2. /\ DOMAIN tape' = 1 .. l + Len(d) /\ DOMAIN tape = 1 .. l
      /\ \A i \in 1 .. l : tape'[i] = tape[i]
      /\ \A k \in 1 .. Len(d) : tape'[l + k] = d[k]
  OBVIOUS
<1>3. \A i \in 1 .. l : tape[i] \in Nat
  OBVIOUS
<1> HIDE DEF l
<1>4. /\ \A i, j \in Sounding : i < j => tape[i] < tape[j]
      /\ \A i \in Sounding : tape[i] <= read /\ \A b \in tape[i] .. read : \E j \in Sounding : tape[j] = b
      /\ \A i \in Sounding : i \in 1 .. l /\ tape[i] # 0
      /\ \A i \in 1 .. l : tape[i] # 0 => i \in Sounding
  BY <1>2 DEF HeardInOrder, Sounding, Silence
<1>5. ASSUME NEW i \in Sounding'
      PROVE  \/ i \in Sounding /\ tape'[i] = tape[i]
             \/ \E k \in 1 .. c : i = l + k /\ tape'[i] = read + k
  <2>1. i \in 1 .. l + Len(d) /\ tape'[i] # 0
    BY <1>2 DEF Sounding, Silence
  <2>2. CASE i \in 1 .. l
    BY <2>1, <2>2, <1>2, <1>4
  <2>3. CASE i \notin 1 .. l
    <3>1. i - l \in 1 .. Len(d) /\ i = l + (i - l)
      BY <2>1, <2>3, <1>1
    <3>2. tape'[i] = d[i - l]
      BY <3>1, <1>2
    <3>3. i - l <= c /\ d[i - l] = read + (i - l)
      BY <2>1, <3>1, <3>2
    <3>4. i - l \in 1 .. c
      BY <3>1, <3>3, <1>1
    <3> QED BY <3>1, <3>2, <3>3, <3>4
  <2> QED BY <2>2, <2>3
<1>6. ASSUME NEW k \in 1 .. c PROVE l + k \in Sounding' /\ tape'[l + k] = read + k
  <2>1. k \in 1 .. Len(d) /\ l + k \in 1 .. l + Len(d)
    BY <1>1
  <2>4. tape'[l + k] = d[k]
    BY <2>1, <1>2
  <2>5. k <= c
    BY <1>1
  <2>3. tape'[l + k] = d[k] /\ d[k] = read + k
    BY <2>1, <2>4, <2>5
  <2>2. tape'[l + k] = read + k /\ read + k # 0
    BY <2>3, <1>1
  <2> QED BY <2>1, <2>2, <1>2 DEF Sounding, Silence
<1>7. ASSUME NEW i \in Sounding PROVE i \in Sounding' /\ tape'[i] = tape[i]
  <2>1. i \in 1 .. l /\ tape[i] # 0
    BY <1>4
  <2>2. i \in 1 .. l + Len(d) /\ tape'[i] = tape[i]
    BY <2>1, <1>1, <1>2
  <2> QED BY <2>1, <2>2, <1>2 DEF Sounding, Silence
<1>8. ASSUME NEW i \in Sounding', NEW j \in Sounding', i < j PROVE tape'[i] < tape'[j]
  <2>1. CASE i \in Sounding /\ j \in Sounding
    BY <2>1, <1>4, <1>7, <1>8
  <2>2. ASSUME i \in Sounding, NEW k \in 1 .. c, j = l + k, tape'[j] = read + k PROVE tape'[i] < tape'[j]
    <3>1. tape'[i] = tape[i] /\ tape[i] <= read /\ tape[i] \in Nat
      BY <2>2, <1>3, <1>4, <1>7
    <3> QED BY <3>1, <2>2, <1>1, SMTT(30)
  <2>3. ASSUME NEW k \in 1 .. c, i = l + k, j \in Sounding PROVE FALSE
    BY <2>3, <1>1, <1>4, <1>8
  <2>4. ASSUME NEW k \in 1 .. c, i = l + k, tape'[i] = read + k, NEW m \in 1 .. c, j = l + m, tape'[j] = read + m
        PROVE  tape'[i] < tape'[j]
    BY <2>4, <1>1, <1>8
  <2> QED BY <1>5, <2>1, <2>2, <2>3, <2>4
<1>9. ASSUME NEW i \in Sounding'
      PROVE  tape'[i] <= read' /\ \A b \in tape'[i] .. read' : \E j \in Sounding' : tape'[j] = b
  <2>1. ASSUME NEW b \in read + 1 .. read' PROVE \E j \in Sounding' : tape'[j] = b
    <3>1. b - read \in 1 .. c /\ read + (b - read) = b
      BY <1>1
    <3> QED BY <3>1, <1>6
  <2>2. CASE i \in Sounding
    <3>1. tape'[i] = tape[i] /\ tape[i] \in Nat /\ tape[i] <= read
      BY <2>2, <1>3, <1>4, <1>7
    <3>2. ASSUME NEW b \in tape[i] .. read PROVE \E j \in Sounding' : tape'[j] = b
      <4>1. PICK j \in Sounding : tape[j] = b
        BY <2>2, <1>4
      <4> QED BY <4>1, <1>7
    <3>3. ASSUME NEW b \in tape'[i] .. read' PROVE \E j \in Sounding' : tape'[j] = b
      <4>1. read' \in Nat
        BY <1>1
      <4>2. b \in tape'[i] .. read \/ b \in read + 1 .. read'
        BY <3>1, <4>1, Beyond
      <4> QED BY <2>1, <3>1, <3>2, <4>2
    <3>4. tape'[i] <= read'
      BY <3>1, <1>1
    <3> QED BY <3>3, <3>4
  <2>3. ASSUME NEW k \in 1 .. c, i = l + k, tape'[i] = read + k
        PROVE  tape'[i] <= read' /\ \A b \in tape'[i] .. read' : \E j \in Sounding' : tape'[j] = b
    <3>1. tape'[i] \in Nat /\ tape'[i] <= read' /\ read < tape'[i]
      BY <2>3, <1>1
    <3>3. read' \in Nat
      BY <1>1
    <3>2. ASSUME NEW b \in tape'[i] .. read' PROVE b \in read + 1 .. read'
      BY <3>1, <3>3, Beyond
    <3> QED BY <2>1, <3>1, <3>2
  <2> QED BY <1>5, <2>2, <2>3
<1> QED BY <1>8, <1>9 DEF HeardInOrder

-----------------------------------------------------------------------------
(* The position moves.                                                     *)

LEMMA UpdateCounts ==
  ASSUME StreamTyped, UpdatePosition
  PROVE  /\ Displacement \in Nat /\ ElapsedTicks \div TicksPerMs \in Nat
         /\ elapsedCarry' \in Nat /\ elapsedCarry' < TicksPerMs
         /\ byteCarry' \in Nat /\ byteCarry' < MsPerSec
         /\ dmaStamp' = now
         /\ now - dmaStamp + elapsedCarry = (ElapsedTicks \div TicksPerMs) * TicksPerMs + elapsedCarry'
         /\ Rate * (ElapsedTicks \div TicksPerMs) + byteCarry = Displacement * MsPerSec + byteCarry'
<1>1. /\ now \in Nat /\ dmaStamp \in Nat /\ dmaStamp <= now /\ elapsedCarry \in Nat /\ byteCarry \in Nat
  BY DEF StreamTyped
<1>2. ElapsedTicks \in Nat /\ ElapsedTicks = now - dmaStamp + elapsedCarry
  BY <1>1 DEF ElapsedTicks
<1> DEFINE q == ElapsedTicks \div TicksPerMs
<1>3. /\ q \in Nat /\ ElapsedTicks % TicksPerMs \in Nat /\ ElapsedTicks % TicksPerMs < TicksPerMs
      /\ ElapsedTicks = TicksPerMs * q + (ElapsedTicks % TicksPerMs)
  BY <1>2, Parameters, DivNat
<1>4. ElapsedRate = Rate * q + byteCarry
  BY DEF ElapsedRate
<1>5. elapsedCarry' = ElapsedTicks % TicksPerMs /\ byteCarry' = ElapsedRate % MsPerSec /\ dmaStamp' = now
  BY DEF UpdatePosition
<1> HIDE DEF q
<1>6. ElapsedRate \in Nat
  BY <1>1, <1>3, <1>4, Parameters
<1>7. /\ Displacement \in Nat /\ ElapsedRate % MsPerSec \in Nat /\ ElapsedRate % MsPerSec < MsPerSec
      /\ ElapsedRate = MsPerSec * Displacement + (ElapsedRate % MsPerSec)
  BY <1>6, Parameters, DivNat DEF Displacement
<1>8. now - dmaStamp + elapsedCarry = q * TicksPerMs + elapsedCarry'
  BY <1>2, <1>3, <1>5, Parameters
<1>9. Rate * q + byteCarry = Displacement * MsPerSec + byteCarry'
  BY <1>4, <1>5, <1>7, Parameters
<1> QED BY <1>3, <1>5, <1>7, <1>8, <1>9 DEF q

LEMMA UpdateTyped ==
  ASSUME StreamTyped, FeedOK, UpdatePosition, bufSize = BufferBytes
  PROVE  /\ dmaStamp' = now /\ DOMAIN dma' = 0 .. BufferBytes - 1 /\ tape' \in Seq(Nat)
         /\ {elapsedCarry', byteCarry', linear', writePos', written', read'} \subseteq Nat
         /\ elapsedCarry' < TicksPerMs /\ byteCarry' < MsPerSec
<1>1. Displacement \in Nat
  BY UpdateCounts
<1>2. FeedTyped
  BY DEF FeedTyped, StreamTyped
<1>3. Drained(Displacement) \in Seq(Nat)
  BY <1>1, <1>2, FeedReadGives
<1>4. tape' \in Seq(Nat) /\ linear' \in Nat
  <2>1. tape' = tape \o Drained(Displacement) /\ linear' = linear + Displacement
    BY DEF UpdatePosition
  <2>2. tape \in Seq(Nat) /\ linear \in Nat
    BY DEF StreamTyped
  <2>3. tape \o Drained(Displacement) \in Seq(Nat)
    BY <2>2, <1>3
  <2> QED BY <2>1, <2>2, <2>3, <1>1
<1>5. writePos' \in Nat
  <2>3. writePos \in Nat
    BY DEF StreamTyped
  <2>1. writePos + Displacement \in Nat
    BY <1>1, <2>3
  <2>2. (writePos + Displacement) % BufferBytes \in Nat
    BY <2>1, Parameters, DivNat
  <2> QED BY <2>2 DEF UpdatePosition
<1>6. DOMAIN dma' = 0 .. BufferBytes - 1
  BY DEF UpdatePosition, WriteBytes, StreamTyped
<1>7. FeedTyped'
  BY <1>1, <1>2, FeedReadKeeps DEF UpdatePosition
<1>8. /\ elapsedCarry' \in Nat /\ elapsedCarry' < TicksPerMs
      /\ byteCarry' \in Nat /\ byteCarry' < MsPerSec
      /\ dmaStamp' = now
  BY UpdateCounts
<1> QED BY <1>4, <1>5, <1>6, <1>7, <1>8 DEF FeedTyped

LEMMA UpdateHears ==
  ASSUME StreamTyped, FeedOK, HeardInOrder, UpdatePosition
  PROVE  FeedOK' /\ HeardInOrder'
<1> DEFINE n == Displacement
           heard == Drained(n)
<1>1. n \in Nat
  BY UpdateCounts
<1>2. FeedTyped /\ tape \in Seq(Nat) /\ read \in Nat
  BY DEF FeedTyped, StreamTyped
<1>3. FeedRead(n) /\ tape' = tape \o heard
  BY DEF UpdatePosition
<1> HIDE DEF n
<1>4. /\ Copied(n) \in Nat /\ Copied(n) <= n /\ heard \in Seq(Nat) /\ Len(heard) = n
      /\ \A k \in 1 .. n : heard[k] = IF k <= Copied(n) THEN read + k ELSE 0
  BY <1>1, <1>2, FeedReadGives
<1>5. FeedOK' /\ read' = read + Copied(n)
  BY <1>1, <1>2, <1>3, FeedReadKeeps
<1> HIDE DEF heard
<1>6. Copied(n) \in 0 .. Len(heard)
  BY <1>1, <1>4
<1>7. HeardInOrder'
  BY <1>2, <1>3, <1>4, <1>5, <1>6, HearsOn
<1> QED BY <1>5, <1>7

LEMMA Joined == ASSUME NEW s \in Seq(Nat), NEW t \in Seq(Nat)
  PROVE  /\ Len(s \o t) = Len(s) + Len(t)
         /\ \A i \in 1 .. Len(s) : (s \o t)[i] = s[i]
         /\ \A k \in 1 .. Len(t) : (s \o t)[Len(s) + k] = t[k]
OBVIOUS

LEMMA UpdateWrites ==
  ASSUME StreamTyped, FeedOK, AudioWhereReported, UpdatePosition, bufSize = BufferBytes, bufSize' = bufSize
  PROVE  AudioWhereReported'
<1> DEFINE n == Displacement
           new == Drained(n)
           B == BufferBytes
<1>1. n \in Nat /\ linear \in Nat /\ B \in Nat /\ B > 0 /\ tape \in Seq(Nat)
  BY UpdateCounts, Parameters DEF StreamTyped
<1>2. FeedTyped
  BY DEF FeedTyped, StreamTyped
<1>3. new \in Seq(Nat) /\ Len(new) = n
  BY <1>1, <1>2, FeedReadGives
<1>11. linear' = linear + n /\ tape' = tape \o new /\ writePos' = (writePos + n) % B
  BY DEF UpdatePosition
<1>4. /\ dma' = [i \in 0 .. B - 1 |->
                   LET hits == {k \in 1 .. n : (linear + k - 1) % B = i}
                   IN  IF hits = {} THEN dma[i] ELSE new[CHOOSE k \in hits : \A j \in hits : j <= k]]
  BY DEF UpdatePosition, WriteBytes, StreamTyped
<1>5. /\ Len(tape) = linear /\ writePos = linear % B
      /\ \A k \in 1 .. B : k <= linear => dma[(linear - k) % B] = tape[linear - k + 1]
  BY <1>1 DEF AudioWhereReported
<1> HIDE DEF n, new, B
<1>12. Len(tape) = linear
  BY <1>5
<1>14. /\ Len(tape') = linear + n
       /\ \A i \in 1 .. linear : tape'[i] = tape[i]
       /\ \A k \in 1 .. n : tape'[linear + k] = new[k]
  <2>1. /\ Len(tape \o new) = Len(tape) + Len(new)
        /\ \A i \in 1 .. Len(tape) : (tape \o new)[i] = tape[i]
        /\ \A k \in 1 .. Len(new) : (tape \o new)[Len(tape) + k] = new[k]
    BY <1>1, <1>3, Joined
  <2>2. tape' = tape \o new
    BY <1>11
  <2> QED BY <2>1, <2>2, <1>12, <1>3
<1>6. Len(tape') = linear'
  BY <1>11, <1>14
<1>7. writePos' = linear' % B
  BY <1>1, <1>11, <1>5, AddInRing
<1>8. /\ \A i \in 1 .. linear : tape'[i] = tape[i]
      /\ \A k \in 1 .. n : tape'[linear + k] = new[k]
  BY <1>14
<1>9. ASSUME NEW k \in 1 .. B, k <= linear + n
      PROVE  dma'[(linear + n - k) % B] = tape'[linear + n - k + 1]
  <2> DEFINE i == (linear + n - k) % B
             hits == {j \in 1 .. n : (linear + j - 1) % B = i}
  <2>1. linear + n - k \in Nat /\ k \in Nat /\ 1 <= k /\ k <= B
    BY <1>1, <1>9
  <2>2. i \in 0 .. B - 1
    BY <1>1, <2>1, DivMod
  <2>3. dma'[i] = IF hits = {} THEN dma[i] ELSE new[CHOOSE x \in hits : \A j \in hits : j <= x]
    BY <1>4, <2>2
  <2>4. CASE k <= n
    <3> DEFINE m == n - k + 1
    <3>1. /\ m \in 1 .. n /\ linear + m - 1 = linear + n - k
          /\ \A j \in 1 .. n : (linear + j - 1) % B = (linear + n - k) % B => j <= m
      BY <1>1, <2>4, LastHit
    <3> HIDE DEF m
    <3>2. m \in hits /\ \A j \in hits : j <= m
      BY <3>1
    <3>3. \A x \in hits : x \in Nat
      BY <1>1
    <3>4. \A x \in hits : (\A j \in hits : j <= x) => x = m
      BY <3>2, <3>3
    <3>5. (CHOOSE x \in hits : \A j \in hits : j <= x) = m
      BY <3>2, <3>4
    <3>6. dma'[i] = new[m]
      BY <2>3, <3>2, <3>5
    <3>7. linear + n - k + 1 = linear + m
      BY <1>1, <3>1, <2>1
    <3>8. tape'[linear + m] = new[m]
      BY <1>8, <3>1
    <3> QED BY <3>6, <3>7, <3>8
  <2>5. CASE k > n
    <3>1. \A j \in 1 .. n : (linear + j - 1) % B # (linear + n - k) % B
      BY <1>1, <1>9, <2>5, NoHit
    <3>2. dma'[i] = dma[i]
      BY <2>3, <3>1
    <3>3. k - n \in 1 .. B /\ k - n <= linear /\ linear - (k - n) = linear + n - k
      BY <1>1, <1>9, <2>1, <2>5
    <3>4. dma[(linear - (k - n)) % B] = tape[linear - (k - n) + 1]
      BY <1>5, <3>3
    <3>5. linear + n - k + 1 \in 1 .. linear
      BY <1>1, <2>1, <2>5
    <3> QED BY <1>8, <3>2, <3>3, <3>4, <3>5
  <2> QED BY <2>1, <2>4, <2>5, <1>1
<1>10. bufSize' = B
  BY DEF B
<1>13. \A k \in 1 .. B : k <= linear' => dma'[(linear' - k) % B] = tape'[linear' - k + 1]
  <2>1. linear' = linear + n
    BY <1>11
  <2>2. ASSUME NEW k \in 1 .. B, k <= linear'
        PROVE  dma'[(linear' - k) % B] = tape'[linear' - k + 1]
    <3>1. k <= linear + n
      BY <2>1, <2>2
    <3>2. linear' - k = linear + n - k /\ linear' - k + 1 = linear + n - k + 1
      BY <1>1, <2>1
    <3>3. dma'[(linear + n - k) % B] = tape'[linear + n - k + 1]
      BY <1>9, <3>1
    <3> QED BY <3>2, <3>3
  <2> QED BY <2>2
<1> QED BY <1>6, <1>7, <1>10, <1>13 DEF AudioWhereReported

(* What the position has counted grows by what the clock did.              *)
LEMMA UpdateCounted ==
  ASSUME StreamTyped, UpdatePosition, NEW ms \in Nat, linear * MsPerSec + byteCarry >= ms * Rate
  PROVE  \E later \in Nat :
            /\ later >= ms /\ linear' * MsPerSec + byteCarry' >= later * Rate
            /\ later * TicksPerMs + elapsedCarry' = ms * TicksPerMs + elapsedCarry + now - dmaStamp
<1> DEFINE q == ElapsedTicks \div TicksPerMs
           n == Displacement
<1>1. /\ n \in Nat /\ q \in Nat /\ elapsedCarry' \in Nat /\ byteCarry' \in Nat
      /\ now - dmaStamp + elapsedCarry = q * TicksPerMs + elapsedCarry'
      /\ Rate * q + byteCarry = n * MsPerSec + byteCarry'
  BY UpdateCounts
<1>2. linear' = linear + n
  BY DEF UpdatePosition
<1> HIDE DEF q, n
<1>3. linear \in Nat /\ byteCarry \in Nat /\ elapsedCarry \in Nat /\ now \in Nat /\ dmaStamp \in Nat
  BY DEF StreamTyped
<1>4. ms + q \in Nat /\ ms + q >= ms
  BY <1>1
<1>5. linear' * MsPerSec + byteCarry' >= (ms + q) * Rate
  <2>1. (linear + n) * MsPerSec = linear * MsPerSec + n * MsPerSec
    BY <1>1, <1>3, Parameters
  <2>2. (ms + q) * Rate = ms * Rate + Rate * q
    BY <1>1, Parameters
  <2>3. /\ linear * MsPerSec \in Nat /\ n * MsPerSec \in Nat /\ ms * Rate \in Nat /\ Rate * q \in Nat
    BY <1>1, <1>3, Parameters
  <2> QED BY <1>1, <1>2, <1>3, <2>1, <2>2, <2>3
<1>6. (ms + q) * TicksPerMs + elapsedCarry' = ms * TicksPerMs + elapsedCarry + now - dmaStamp
  <2>1. (ms + q) * TicksPerMs = ms * TicksPerMs + q * TicksPerMs
    BY <1>1, Parameters
  <2>2. ms * TicksPerMs \in Nat /\ q * TicksPerMs \in Nat
    BY <1>1, Parameters
  <2> QED BY <1>1, <1>3, <2>1, <2>2
<1> QED BY <1>4, <1>5, <1>6

-----------------------------------------------------------------------------
(* The steps by what they move.                                            *)

\* The timer only runs while there is a run to time.
LEMMA TimerNeedsRun == ASSUME ControlOK, dpc PROVE ks \in {"PAUSE", "RUN"} /\ ctl \in {"idle", "armed", "cancelled"}
                                                   /\ (ctl = "idle" => ks = "RUN") /\ bufSize = BufferBytes
                                                   /\ interval = Interval
  BY DEF ControlOK

Settles == GetPositions \/ PauseSettle \/ (TimerNotify /\ IntervalOver)

Quiet ==
    \/ Acquire \/ PauseFromAcquire \/ RunArm \/ RunDone \/ PauseCancel \/ PauseFlush \/ PauseDone
    \/ GetReadPacket \/ TimerExpires \/ (TimerNotify /\ ~IntervalOver) \/ Tick \/ CloseStream

Sizes == AllocateWithNotification \/ AllocateAudioBuffer \/ FreeBuffer

LEMMA StreamSteps ==
  ASSUME StreamNext
  PROVE  Settles \/ Quiet \/ Sizes \/ OpenStream \/ Stop \/ (\E n \in 1 .. MaxWrite : Supply(n))
  BY DEF StreamNext, Settles, Quiet, Sizes, GetPosition, GetPacketCount

LEMMA SettlesMoves ==
  ASSUME ControlOK, Settles
  PROVE  UpdatePosition /\ UNCHANGED <<buffer, sessions, now, staleCarry>> /\ bufSize = BufferBytes /\ ks # "STOP"
  <1>1. CASE GetPositions
    BY <1>1 DEF GetPositions, clock, ControlOK
  <1>2. CASE PauseSettle
    BY <1>2 DEF PauseSettle, clock, ControlOK
  <1>3. CASE TimerNotify /\ IntervalOver
    <2>1. dpc
      BY <1>3 DEF TimerNotify
    <2> QED BY <1>3, <2>1, TimerNeedsRun DEF TimerNotify, clock
  <1> QED BY <1>1, <1>2, <1>3 DEF Settles

LEMMA QuietMoves ==
  ASSUME Quiet
  PROVE  UNCHANGED <<feedVars, elapsedCarry, byteCarry, linear, writePos, dma, tape, packetCount, buffer, sessions,
                     staleCarry>>
  BY DEF Quiet, Acquire, PauseFromAcquire, RunArm, RunDone, PauseCancel, PauseFlush, PauseDone, GetReadPacket,
         TimerExpires, TimerNotify, Tick, CloseStream, clock, position, notifying

LEMMA SizesMoves ==
  ASSUME Sizes
  PROVE  /\ ks = "STOP" /\ DOMAIN dma' = (IF FreeBuffer THEN DOMAIN dma ELSE 0 .. BufferBytes - 1)
         /\ bufSize' \in {0, BufferBytes} /\ interval' \in {interval, Interval}
         /\ UNCHANGED <<feedVars, clock, ks, ctl, timer, dmaStamp, elapsedCarry, byteCarry, linear, writePos, tape,
                        notifying, staleCarry>>
  BY DEF Sizes, AllocateWithNotification, AllocateAudioBuffer, FreeBuffer, position, Interval

\* The control state.
LEMMA ControlKeeps ==
  ASSUME StreamTyped, ControlOK, StreamNext
  PROVE  ControlOK'
  <1> USE DEF ControlOK
  <1>1. CASE Settles
    <2>1. /\ bufSize' = bufSize /\ interval' = interval /\ bufSize = BufferBytes /\ ks # "STOP"
      BY <1>1, SettlesMoves DEF buffer
    <2>2. CASE GetPositions
      BY <2>1, <2>2 DEF GetPositions, timer
    <2>3. CASE PauseSettle
      BY <2>1, <2>3 DEF PauseSettle, timer
    <2>4. CASE TimerNotify
      BY <2>1, <2>4 DEF TimerNotify
    <2> QED BY <1>1, <2>2, <2>3, <2>4 DEF Settles
  <1>2. CASE Quiet
    <2>1. UNCHANGED <<linear, writePos, tape, bufSize, interval>>
      BY <1>2, QuietMoves DEF buffer
    <2>2. CASE Acquire \/ PauseFromAcquire \/ CloseStream \/ GetReadPacket
      <3>2. CASE Acquire
        <4>1. ks \in {"STOP", "PAUSE"} /\ ks' = "ACQUIRE" /\ ctl = "idle" /\ UNCHANGED <<ctl, timerOn, dpc>>
              /\ bufSize > 0
          BY <3>2 DEF Acquire, timer
        <4>2. bufSize = BufferBytes
          BY <4>1 DEF StreamTyped
        <4> QED BY <2>1, <4>1, <4>2
      <3>3. CASE PauseFromAcquire
        BY <2>1, <3>3 DEF PauseFromAcquire, timer
      <3>4. CASE CloseStream
        BY <2>1, <3>4 DEF CloseStream
      <3>5. CASE GetReadPacket
        BY <2>1, <3>5 DEF GetReadPacket, timer
      <3> QED BY <2>2, <3>2, <3>3, <3>4, <3>5
    <2>3. CASE RunArm
      <3>1. interval > 0 => interval = Interval
        BY DEF StreamTyped
      <3>2. ctl = "idle" /\ ks = "PAUSE" /\ timerOn' = (interval > 0) /\ ctl' = "armed" /\ UNCHANGED <<ks, dpc>>
        BY <2>3 DEF RunArm
      <3> QED BY <2>1, <3>1, <3>2
    <2>4. CASE RunDone \/ PauseCancel \/ PauseDone
      BY <2>1, <2>4 DEF RunDone, PauseCancel, PauseDone, timer
    <2>5. CASE PauseFlush
      BY <2>1, <2>5 DEF PauseFlush, timer
    <2>6. CASE TimerExpires \/ TimerNotify
      BY <2>1, <2>6 DEF TimerExpires, TimerNotify
    <2>7. CASE Tick
      BY <2>1, <2>7 DEF Tick, timer
    <2> QED BY <1>2, <2>2, <2>3, <2>4, <2>5, <2>6, <2>7 DEF Quiet
  <1>3. CASE Sizes
    BY <1>3, SizesMoves DEF timer
  <1>4. CASE OpenStream
    BY <1>4 DEF OpenStream, timer
  <1>5. CASE Stop
    BY <1>5 DEF Stop, timer, buffer
  <1>6. ASSUME NEW n \in 1 .. MaxWrite, Supply(n) PROVE ControlOK'
    BY <1>6 DEF Supply, streamVars, timer, position, buffer
  <1> QED BY <1>1, <1>2, <1>3, <1>4, <1>5, <1>6, StreamSteps

\* The types.
LEMMA TypesKeep ==
  ASSUME StreamTyped, ControlOK, FeedOK, StreamNext
  PROVE  StreamTyped'
  <1>1. CASE Settles
    <2>1. UpdatePosition /\ UNCHANGED <<buffer, sessions, now, staleCarry>> /\ bufSize = BufferBytes
      BY <1>1, SettlesMoves
    <2>2. /\ dmaStamp' = now /\ DOMAIN dma' = 0 .. BufferBytes - 1 /\ tape' \in Seq(Nat)
          /\ {elapsedCarry', byteCarry', linear', writePos', written', read'} \subseteq Nat
          /\ elapsedCarry' < TicksPerMs /\ byteCarry' < MsPerSec
      BY <2>1, UpdateTyped
    <2>3. /\ lastDpc' \in Nat /\ lastDpc' <= now /\ dpcCarry' \in Nat /\ packetCount' \in Nat /\ due' \in Nat
      <3>1. CASE GetPositions \/ PauseSettle
        BY <3>1 DEF GetPositions, PauseSettle, notifying, timer, StreamTyped
      <3>2. CASE TimerNotify /\ IntervalOver
        <4>1. /\ dpcCarry' = now - lastDpc + dpcCarry - interval * TicksPerMs
              /\ lastDpc' = now /\ packetCount' = packetCount + 1 /\ due' = due
          BY <3>2 DEF TimerNotify
        <4>2. now \in Nat /\ lastDpc \in Nat /\ lastDpc <= now /\ dpcCarry \in Nat /\ packetCount \in Nat
              /\ due \in Nat /\ interval \in Nat
          BY IntervalBringsPacket DEF StreamTyped
        <4> DEFINE passed == now - lastDpc + dpcCarry
        <4>3. passed \in Nat
          BY <4>2
        <4>4. passed \div TicksPerMs >= interval
          BY <3>2 DEF IntervalOver
        <4> HIDE DEF passed
        <4>5. passed >= interval * TicksPerMs
          <5>1. /\ passed \div TicksPerMs \in Nat /\ passed % TicksPerMs \in Nat
                /\ passed = TicksPerMs * (passed \div TicksPerMs) + (passed % TicksPerMs)
            BY <4>3, Parameters, DivNat
          <5>2. (passed \div TicksPerMs) * TicksPerMs >= interval * TicksPerMs
            BY <4>2, <4>4, <5>1, Parameters, Times
          <5>3. interval * TicksPerMs \in Nat
            BY <4>2, Parameters
          <5>4. (passed \div TicksPerMs) * TicksPerMs = TicksPerMs * (passed \div TicksPerMs)
            BY <5>1, Parameters
          <5> HIDE DEF passed
          <5> QED BY <5>1, <5>2, <5>3, <5>4, <4>3, Parameters
        <4>6. dpcCarry' = passed - interval * TicksPerMs
          BY <4>1, <4>2, Parameters DEF passed
        <4>7. interval * TicksPerMs \in Nat
          BY <4>2, Parameters
        <4> QED BY <4>1, <4>2, <4>3, <4>5, <4>6, <4>7
      <3> QED BY <1>1, <3>1, <3>2 DEF Settles
    <2>4. UNCHANGED <<bufSize, notifications, interval, sessions, now, staleCarry>>
      BY <2>1 DEF buffer
    <2>5. {now, sessions, linear, packetCount, staleCarry} \subseteq Nat /\ bufSize \in {0, BufferBytes}
          /\ interval \in {0, Interval} /\ now \in Nat
      BY DEF StreamTyped
    <2>6. {now', sessions', dmaStamp', elapsedCarry', byteCarry', lastDpc', dpcCarry', due'} \subseteq Nat
      BY <2>2, <2>3, <2>4, <2>5
    <2>7. {linear', writePos', packetCount', staleCarry', written', read'} \subseteq Nat
      BY <2>2, <2>3, <2>4, <2>5
    <2>8. dmaStamp' <= now' /\ lastDpc' <= now'
      BY <2>2, <2>3, <2>4, <2>5
    <2>9. bufSize' \in {0, BufferBytes} /\ interval' \in {0, Interval}
      BY <2>4, <2>5
    <2> QED BY <2>2, <2>6, <2>7, <2>8, <2>9 DEF StreamTyped
  <1>2. CASE Quiet
    <2>1. UNCHANGED <<written, read, elapsedCarry, byteCarry, linear, writePos, dma, tape, packetCount, bufSize,
                      interval, sessions, staleCarry>>
      BY <1>2, QuietMoves DEF feedVars, buffer
    <2>2. /\ {now, dmaStamp, lastDpc, dpcCarry, due} \subseteq Nat /\ dmaStamp <= now /\ lastDpc <= now
      BY DEF StreamTyped
    <2>3. /\ {now', dmaStamp', lastDpc', dpcCarry', due'} \subseteq Nat /\ dmaStamp' <= now' /\ lastDpc' <= now'
      <3>1. CASE RunArm
        BY <2>2, <3>1, Parameters DEF RunArm, clock
      <3>2. CASE PauseFlush
        <4>1. UNCHANGED <<now, dmaStamp, lastDpc, due>>
          BY <3>2 DEF PauseFlush, clock, timer, position
        <4>2. dpcCarry' = IF interval > 0 THEN now - lastDpc + dpcCarry ELSE dpcCarry
          BY <3>2 DEF PauseFlush
        <4> QED BY <2>2, <4>1, <4>2
      <3>3. CASE TimerExpires
        BY <2>2, <3>3, Parameters DEF TimerExpires, clock, position, notifying
      <3>4. CASE Tick
        BY <2>2, <3>4 DEF Tick, position, notifying, timer
      <3>5. CASE TimerNotify /\ ~IntervalOver
        BY <2>2, <3>5 DEF TimerNotify, clock, position
      <3>6. CASE Acquire \/ PauseFromAcquire \/ RunDone \/ PauseCancel \/ PauseDone \/ GetReadPacket \/ CloseStream
        <4>1. UNCHANGED <<now, dmaStamp, lastDpc, dpcCarry, due>>
          BY <3>6 DEF Acquire, PauseFromAcquire, RunDone, PauseCancel, PauseDone, GetReadPacket, CloseStream,
                      clock, position, notifying, timer
        <4> QED BY <2>2, <4>1
      <3> QED BY <1>2, <3>1, <3>2, <3>3, <3>4, <3>5, <3>6 DEF Quiet
    <2> QED BY <2>1, <2>3 DEF StreamTyped
  <1>3. CASE Sizes
    <2>1. /\ DOMAIN dma' = 0 .. BufferBytes - 1 /\ bufSize' \in {0, BufferBytes} /\ interval' \in {0, Interval}
      BY <1>3, SizesMoves DEF StreamTyped
    <2>2. UNCHANGED <<written, read, now, sessions, due, dmaStamp, elapsedCarry, byteCarry, linear, writePos, tape,
                      lastDpc, dpcCarry, packetCount, staleCarry>>
      BY <1>3, SizesMoves DEF feedVars, clock, timer, notifying
    <2> QED BY <2>1, <2>2 DEF StreamTyped
  <1>4. CASE OpenStream
    <2>1. FeedTyped'
      <3>1. FeedTyped /\ FeedReset
        BY <1>4 DEF OpenStream, StreamTyped, FeedTyped
      <3> QED BY <3>1, FeedResetKeeps
    <2>2. /\ sessions' = sessions + 1 /\ now' = now /\ due' = due /\ dma' = dma /\ tape' = <<>>
          /\ dmaStamp' = 0 /\ elapsedCarry' = 0 /\ byteCarry' = 0 /\ lastDpc' = 0 /\ dpcCarry' = 0
          /\ linear' = 0 /\ writePos' = 0 /\ packetCount' = 0 /\ bufSize' = 0 /\ interval' = 0 /\ staleCarry' = 0
      BY <1>4 DEF OpenStream, timer
    <2>3. <<>> \in Seq(Nat)
      OBVIOUS
    <2>4. {now, sessions, due} \subseteq Nat /\ DOMAIN dma = 0 .. BufferBytes - 1
      BY DEF StreamTyped
    <2>5. {now', sessions', dmaStamp', elapsedCarry', byteCarry', lastDpc', dpcCarry', due'} \subseteq Nat
      BY <2>2, <2>4
    <2>6. {linear', writePos', packetCount', staleCarry', written', read'} \subseteq Nat
      BY <2>1, <2>2 DEF FeedTyped
    <2>7. dmaStamp' <= now' /\ lastDpc' <= now' /\ elapsedCarry' < TicksPerMs /\ byteCarry' < MsPerSec
      BY <2>2, <2>4, Parameters
    <2>8. bufSize' \in {0, BufferBytes} /\ interval' \in {0, Interval} /\ DOMAIN dma' = 0 .. BufferBytes - 1
      BY <2>2, <2>4
    <2> QED BY <2>2, <2>3, <2>5, <2>6, <2>7, <2>8 DEF StreamTyped
  <1>5. CASE Stop
    <2>1. /\ linear' = 0 /\ writePos' = 0 /\ packetCount' = 0 /\ tape' = <<>> /\ staleCarry' = dpcCarry
          /\ UNCHANGED <<written, read, now, sessions, due, dmaStamp, elapsedCarry, byteCarry, dma, lastDpc, dpcCarry,
                         bufSize, interval>>
      BY <1>5 DEF Stop, feedVars, clock, timer, buffer
    <2>2. <<>> \in Seq(Nat)
      OBVIOUS
    <2> QED BY <2>1, <2>2 DEF StreamTyped
  <1>6. ASSUME NEW n \in 1 .. MaxWrite, Supply(n) PROVE StreamTyped'
    <2>1. n \in Nat
      BY BoundAssumption
    <2>2. FeedTyped /\ FeedWrite(n)
      BY <1>6 DEF Supply, StreamTyped, FeedTyped
    <2>3. FeedTyped'
      BY <2>1, <2>2, FeedWriteKeeps
    <2>4. UNCHANGED <<now, sessions, due, dmaStamp, elapsedCarry, byteCarry, linear, writePos, tape, dma, lastDpc,
                      dpcCarry, packetCount, bufSize, interval, staleCarry>>
      BY <1>6 DEF Supply, streamVars, clock, timer, position, notifying, buffer
    <2> QED BY <2>3, <2>4 DEF StreamTyped, FeedTyped
  <1> QED BY <1>1, <1>2, <1>3, <1>4, <1>5, <1>6, StreamSteps

\* What is heard.
LEMMA SilentTape == tape = <<>> => HeardInOrder
  BY DEF HeardInOrder, Sounding

LEMMA HearingKeeps ==
  ASSUME StreamTyped, ControlOK, FeedOK, HeardInOrder, StreamNext
  PROVE  FeedOK' /\ HeardInOrder'
  <1>1. FeedTyped
    BY DEF StreamTyped, FeedTyped
  <1>2. ASSUME UNCHANGED <<read, tape>> PROVE HeardInOrder'
    BY <1>2 DEF HeardInOrder, Sounding
  <1>3. ASSUME UNCHANGED feedVars PROVE FeedOK'
    BY <1>3 DEF FeedOK, feedVars
  <1>4. ASSUME tape' = <<>> PROVE HeardInOrder'
    <2>1. (tape = <<>> => HeardInOrder)'
      BY SilentTape, PTL
    <2> QED BY <1>4, <2>1
  <1>5. CASE Settles
    BY <1>5, SettlesMoves, UpdateHears
  <1>6. CASE Quiet
    BY <1>6, <1>2, <1>3, QuietMoves DEF feedVars
  <1>7. CASE Sizes
    BY <1>7, <1>2, <1>3, SizesMoves DEF feedVars
  <1>8. CASE OpenStream
    <2>1. FeedReset /\ tape' = <<>>
      BY <1>8 DEF OpenStream
    <2> QED BY <2>1, <1>1, <1>4, FeedResetKeeps
  <1>9. CASE Stop
    <2>1. UNCHANGED feedVars /\ tape' = <<>>
      BY <1>9 DEF Stop
    <2> QED BY <2>1, <1>3, <1>4
  <1>10. ASSUME NEW n \in 1 .. MaxWrite, Supply(n) PROVE FeedOK' /\ HeardInOrder'
    <2>1. n \in Nat
      BY BoundAssumption
    <2>2. FeedWrite(n) /\ tape' = tape
      BY <1>10 DEF Supply, streamVars, position
    <2>3. FeedOK' /\ read' = read
      BY <2>1, <2>2, <1>1, FeedWriteKeeps
    <2> QED BY <2>2, <2>3, <1>2
  <1> QED BY <1>5, <1>6, <1>7, <1>8, <1>9, <1>10, StreamSteps

\* Where it is.
LEMMA EmptyBuffer ==
  ASSUME linear = 0, writePos = 0, tape = <<>>, bufSize \in {0, BufferBytes}
  PROVE  AudioWhereReported
  <1>1. 0 % BufferBytes = 0
    <2>1. /\ 0 % BufferBytes \in Nat /\ 0 % BufferBytes < BufferBytes /\ 0 \div BufferBytes \in Nat
          /\ 0 = BufferBytes * (0 \div BufferBytes) + (0 % BufferBytes)
      BY Parameters, DivNat
    <2> DEFINE q == 0 \div BufferBytes
               r == 0 % BufferBytes
    <2>2. q \in Nat /\ r \in Nat /\ 0 = BufferBytes * q + r
      BY <2>1
    <2> HIDE DEF q, r
    <2>3. BufferBytes * q \in Nat
      BY <2>2, Parameters
    <2>4. r = 0
      BY <2>2, <2>3
    <2> QED BY <2>4 DEF r
  <1>2. CASE bufSize = 0
    BY <1>2 DEF AudioWhereReported
  <1>3. CASE bufSize = BufferBytes
    <2>1. Len(tape) = linear /\ writePos = linear % bufSize
      BY <1>1, <1>3
    <2>2. \A k \in 1 .. bufSize : ~(k <= linear)
      BY <1>3, Parameters
    <2> QED BY <2>1, <2>2 DEF AudioWhereReported
  <1> QED BY <1>2, <1>3

LEMMA AudioKeeps ==
  ASSUME StreamTyped, ControlOK, FeedOK, AudioWhereReported, StreamNext
  PROVE  AudioWhereReported'
  <1>1. ASSUME UNCHANGED <<bufSize, linear, writePos, tape, dma>> PROVE AudioWhereReported'
    BY <1>1 DEF AudioWhereReported
  <1>2. ASSUME linear' = 0, writePos' = 0, tape' = <<>>, bufSize' \in {0, BufferBytes} PROVE AudioWhereReported'
    <2>1. (linear = 0 /\ writePos = 0 /\ tape = <<>> /\ bufSize \in {0, BufferBytes} => AudioWhereReported)'
      BY EmptyBuffer, PTL
    <2> QED BY <1>2, <2>1
  <1>3. CASE Settles
    BY <1>3, SettlesMoves, UpdateWrites DEF buffer
  <1>4. CASE Quiet
    BY <1>4, <1>1, QuietMoves DEF buffer
  <1>5. CASE Sizes
    BY <1>5, <1>2, SizesMoves DEF ControlOK
  <1>6. CASE OpenStream
    BY <1>6, <1>2 DEF OpenStream
  <1>7. CASE Stop
    <2>1. bufSize' \in {0, BufferBytes}
      BY <1>7 DEF Stop, buffer, StreamTyped
    <2> QED BY <1>7, <2>1, <1>2 DEF Stop
  <1>8. ASSUME NEW n \in 1 .. MaxWrite, Supply(n) PROVE AudioWhereReported'
    BY <1>8, <1>1 DEF Supply, streamVars, position, buffer
  <1> QED BY <1>3, <1>4, <1>5, <1>6, <1>7, <1>8, StreamSteps

\* The two clocks.
Running == ctl \in {"armed", "cancelled"} \/ (ctl = "idle" /\ ks = "RUN")
Notified == packetCount * Interval * TicksPerMs + dpcCarry
NotBehind(ticks) ==
    /\ Running => ticks - dmaStamp >= Notified - lastDpc
    /\ ctl = "flushed" => ticks + now - dmaStamp >= Notified
    /\ ~Running /\ ctl # "flushed" => ticks >= Notified

LEMMA CountedParts ==
  ASSUME NEW ms
  PROVE  Counted(ms) <=> /\ linear * MsPerSec + byteCarry >= ms * Rate
                         /\ ms >= packetCount * Interval
                         /\ NotBehind(ms * TicksPerMs + elapsedCarry)
  <1> DEFINE ticks == ms * TicksPerMs + elapsedCarry
  <1>1. CASE Running
    BY <1>1 DEF Running, Counted, NotBehind, Notified
  <1>2. CASE ~Running /\ ctl = "flushed"
    BY <1>2 DEF Running, Counted, NotBehind, Notified
  <1>3. CASE ~Running /\ ctl # "flushed"
    BY <1>3 DEF Running, Counted, NotBehind, Notified
  <1> QED BY <1>1, <1>2, <1>3

LEMMA ClockTypes ==
  ASSUME StreamTyped
  PROVE  /\ now \in Nat /\ dmaStamp \in Nat /\ lastDpc \in Nat /\ dpcCarry \in Nat /\ packetCount \in Nat
         /\ elapsedCarry \in Nat /\ linear \in Nat /\ byteCarry \in Nat
         /\ dmaStamp <= now /\ lastDpc <= now /\ elapsedCarry < TicksPerMs /\ byteCarry < MsPerSec
         /\ packetCount * Interval \in Nat /\ packetCount * Interval * TicksPerMs \in Nat /\ Notified \in Nat
  <1>1. /\ now \in Nat /\ dmaStamp \in Nat /\ lastDpc \in Nat /\ dpcCarry \in Nat /\ packetCount \in Nat
        /\ elapsedCarry \in Nat /\ linear \in Nat /\ byteCarry \in Nat
        /\ dmaStamp <= now /\ lastDpc <= now /\ elapsedCarry < TicksPerMs /\ byteCarry < MsPerSec
    BY DEF StreamTyped
  <1>2. Interval \in Nat
    BY IntervalBringsPacket
  <1>3. packetCount * Interval \in Nat
    BY <1>1, <1>2
  <1>4. packetCount * Interval * TicksPerMs \in Nat
    BY <1>3, Parameters
  <1> QED BY <1>1, <1>3, <1>4 DEF Notified

\* What has to be shown of the next state.
LEMMA CountedAfter ==
  ASSUME NEW ms, linear' * MsPerSec + byteCarry' >= ms * Rate, ms >= packetCount' * Interval,
         Running' => (ms * TicksPerMs + elapsedCarry') - dmaStamp' >= Notified' - lastDpc',
         ctl' = "flushed" => (ms * TicksPerMs + elapsedCarry') + now' - dmaStamp' >= Notified',
         ~Running' /\ ctl' # "flushed" => ms * TicksPerMs + elapsedCarry' >= Notified'
  PROVE  Counted(ms)'
  <1>1. CASE Running'
    BY <1>1 DEF Running, Counted, Notified
  <1>2. CASE ~Running' /\ ctl' = "flushed"
    BY <1>2 DEF Running, Counted, Notified
  <1>3. CASE ~Running' /\ ctl' # "flushed"
    BY <1>3 DEF Running, Counted, Notified
  <1> QED BY <1>1, <1>2, <1>3

\* A position that settles has counted all the time there was.
LEMMA SettlesCounts ==
  ASSUME StreamTyped, StreamTyped', ControlOK, Settles, NEW ms \in Nat, Counted(ms)
  PROVE  \E later \in Nat : Counted(later)'
  <1>1. UpdatePosition /\ now' = now /\ dmaStamp' = now
    BY SettlesMoves DEF UpdatePosition
  <1>2. /\ linear * MsPerSec + byteCarry >= ms * Rate
        /\ ms >= packetCount * Interval
        /\ NotBehind(ms * TicksPerMs + elapsedCarry)
    BY CountedParts
  <1>3. PICK later \in Nat :
            /\ later >= ms /\ linear' * MsPerSec + byteCarry' >= later * Rate
            /\ later * TicksPerMs + elapsedCarry' = ms * TicksPerMs + elapsedCarry + now - dmaStamp
    BY <1>1, <1>2, UpdateCounted
  <1>4. /\ now \in Nat /\ dmaStamp \in Nat /\ lastDpc \in Nat /\ dpcCarry \in Nat /\ packetCount \in Nat
        /\ elapsedCarry \in Nat /\ dmaStamp <= now /\ lastDpc <= now
        /\ packetCount * Interval \in Nat /\ packetCount * Interval * TicksPerMs \in Nat /\ Notified \in Nat
    BY ClockTypes
  <1>5. PICK old \in Nat : old = ms * TicksPerMs + elapsedCarry
    <2>1. ms * TicksPerMs \in Nat
      BY Parameters
    <2> QED BY <1>4, <2>1
  <1>6. PICK new \in Nat : new = later * TicksPerMs + elapsedCarry' /\ new = old + (now - dmaStamp)
    <2>1. ms * TicksPerMs \in Nat
      BY Parameters
    <2> QED BY <1>3, <1>4, <1>5, <2>1
  <1>7. NotBehind(old)
    BY <1>2, <1>5
  <1>8. ASSUME later >= packetCount' * Interval,
               Running' => new - now >= Notified' - lastDpc',
               ~Running' => new >= Notified'
        PROVE  Counted(later)'
    <2>1. new + now - now = new
      BY <1>4
    <2> QED BY <1>1, <1>3, <1>6, <1>8, <2>1, CountedAfter DEF Running
  <1>9. CASE GetPositions \/ PauseSettle
    <2>1. UNCHANGED <<packetCount, dpcCarry, lastDpc>> /\ Notified' = Notified
      BY <1>9 DEF GetPositions, PauseSettle, notifying, Notified
    <2>2. later >= packetCount' * Interval
      BY <2>1, <1>2, <1>3, <1>4
    <2>3. CASE Running
      <3>1. old - dmaStamp >= Notified - lastDpc
        BY <1>7, <2>3 DEF NotBehind
      <3>2. new - now >= Notified - lastDpc
        BY <3>1, <1>4, <1>6
      <3>3. Running'
        BY <1>9, <2>3 DEF GetPositions, PauseSettle, Running
      <3> QED BY <1>8, <2>1, <2>2, <3>2, <3>3
    <2>4. CASE ~Running /\ ctl = "flushed"
      <3>1. old + now - dmaStamp >= Notified
        BY <1>7, <2>4 DEF NotBehind
      <3>2. new >= Notified
        BY <3>1, <1>4, <1>6
      <3>3. ~Running'
        BY <1>9, <2>4 DEF GetPositions, PauseSettle, Running
      <3> QED BY <1>8, <2>1, <2>2, <3>2, <3>3
    <2>5. CASE ~Running /\ ctl # "flushed"
      <3>1. old >= Notified
        BY <1>7, <2>5 DEF NotBehind
      <3>2. new >= Notified
        BY <3>1, <1>4, <1>6
      <3>3. ~Running'
        BY <1>9, <2>5 DEF GetPositions, PauseSettle, Running
      <3> QED BY <1>8, <2>1, <2>2, <3>2, <3>3
    <2> QED BY <2>3, <2>4, <2>5
  <1>10. CASE TimerNotify /\ IntervalOver
    <2>1. dpc /\ interval = Interval /\ Running
      BY <1>10, TimerNeedsRun DEF TimerNotify, Running, ControlOK
    <2>2. /\ dpcCarry' = now - lastDpc + dpcCarry - Interval * TicksPerMs
          /\ lastDpc' = now /\ packetCount' = packetCount + 1 /\ UNCHANGED <<ks, ctl>>
      BY <1>10, <2>1 DEF TimerNotify
    <2>3. Interval \in Nat /\ Interval * TicksPerMs \in Nat
      BY IntervalBringsPacket, Parameters
    <2>4. (packetCount + 1) * Interval * TicksPerMs = packetCount * Interval * TicksPerMs + Interval * TicksPerMs
      BY <1>4, <2>3, Parameters
    <2>5. Notified' = Notified + (now - lastDpc)
      <3>1. Notified' = (packetCount + 1) * Interval * TicksPerMs
                         + (now - lastDpc + dpcCarry - Interval * TicksPerMs)
        BY <2>2 DEF Notified
      <3>2. Notified = packetCount * Interval * TicksPerMs + dpcCarry
        BY DEF Notified
      <3> QED BY <3>1, <3>2, <2>3, <2>4, <1>4
    <2>6. old - dmaStamp >= Notified - lastDpc
      BY <1>7, <2>1 DEF NotBehind
    <2>7. new >= Notified' /\ new - now >= Notified' - now
      BY <2>5, <2>6, <1>4, <1>6
    <2>8. Running'
      BY <2>1, <2>2 DEF Running
    <2>9. later >= packetCount' * Interval
      <3>1. /\ packetCount' * Interval \in Nat /\ elapsedCarry' \in Nat /\ elapsedCarry' < TicksPerMs
            /\ dpcCarry' \in Nat /\ packetCount' * Interval * TicksPerMs \in Nat
        <4>1. (StreamTyped =>
                 /\ packetCount * Interval \in Nat /\ elapsedCarry \in Nat /\ elapsedCarry < TicksPerMs
                 /\ dpcCarry \in Nat /\ packetCount * Interval * TicksPerMs \in Nat)'
          BY ClockTypes, PTL
        <4> QED BY <4>1
      <3>2. later * TicksPerMs + elapsedCarry' >= packetCount' * Interval * TicksPerMs
        BY <2>7, <3>1, <1>6 DEF Notified
      <3> QED BY <3>1, <3>2, Parameters, AtLeast
    <2> QED BY <1>8, <2>2, <2>7, <2>8, <2>9
  <1> QED BY <1>9, <1>10 DEF Settles


\* Every other step of a run keeps what has been counted.
LEMMA QuietCounts ==
  ASSUME StreamTyped, ControlOK, Quiet, NEW ms \in Nat, Counted(ms)
  PROVE  Counted(ms)'
  <1>1. UNCHANGED <<linear, byteCarry, elapsedCarry, packetCount>>
    BY QuietMoves
  <1>2. /\ linear * MsPerSec + byteCarry >= ms * Rate
        /\ ms >= packetCount * Interval
        /\ NotBehind(ms * TicksPerMs + elapsedCarry)
    BY CountedParts
  <1>3. /\ now \in Nat /\ dmaStamp \in Nat /\ lastDpc \in Nat /\ dpcCarry \in Nat /\ Notified \in Nat
        /\ elapsedCarry \in Nat /\ dmaStamp <= now /\ lastDpc <= now
    BY ClockTypes
  <1>4. PICK old \in Nat : old = ms * TicksPerMs + elapsedCarry
    <2>1. ms * TicksPerMs \in Nat
      BY Parameters
    <2> QED BY <1>3, <2>1
  <1>5. NotBehind(old)
    BY <1>2, <1>4
  <1>6. ASSUME Running' => old - dmaStamp' >= Notified' - lastDpc',
               ctl' = "flushed" => old + now' - dmaStamp' >= Notified',
               ~Running' /\ ctl' # "flushed" => old >= Notified'
        PROVE  Counted(ms)'
    BY <1>1, <1>2, <1>4, <1>6, CountedAfter
  <1>7. ASSUME UNCHANGED <<now, dmaStamp, lastDpc, dpcCarry>>, Running' <=> Running,
               ctl' = "flushed" <=> ctl = "flushed"
        PROVE  Counted(ms)'
    <2>1. Notified' = Notified
      BY <1>1, <1>7 DEF Notified
    <2> QED BY <1>5, <1>6, <1>7, <2>1 DEF NotBehind
  <1>8. CASE RunArm
    <2>1. ~Running /\ ctl # "flushed" /\ Running' /\ ctl' # "flushed"
      BY <1>8 DEF RunArm, Running
    <2>2. dmaStamp' = now /\ lastDpc' = now /\ dpcCarry' = dpcCarry
      BY <1>8 DEF RunArm
    <2>3. Notified' = Notified
      BY <1>1, <2>2 DEF Notified
    <2>4. old >= Notified
      BY <1>5, <2>1 DEF NotBehind
    <2>5. old - now >= Notified - now
      BY <2>4, <1>3
    <2> QED BY <1>6, <2>1, <2>2, <2>3, <2>5
  <1>9. CASE PauseFlush
    <2>1. Running /\ ~Running' /\ ctl' = "flushed"
      BY <1>9 DEF PauseFlush, Running
    <2>2. /\ dpcCarry' = (IF interval > 0 THEN now - lastDpc + dpcCarry ELSE dpcCarry)
          /\ UNCHANGED <<now, dmaStamp>>
      BY <1>9 DEF PauseFlush, clock, position
    <2>3. Notified' = Notified \/ Notified' = Notified + (now - lastDpc)
      <3>1. Notified' = packetCount * Interval * TicksPerMs + dpcCarry'
        BY <1>1 DEF Notified
      <3>2. Notified = packetCount * Interval * TicksPerMs + dpcCarry
        BY DEF Notified
      <3>3. packetCount * Interval * TicksPerMs \in Nat
        BY ClockTypes
      <3> QED BY <3>1, <3>2, <3>3, <2>2, <1>3
    <2>4. old - dmaStamp >= Notified - lastDpc
      BY <1>5, <2>1 DEF NotBehind
    <2>5. old + now - dmaStamp >= Notified'
      BY <2>3, <2>4, <1>3
    <2> QED BY <1>6, <2>1, <2>2, <2>5
  <1>10. CASE Tick
    <2>1. /\ now' = now + 1 /\ UNCHANGED <<ks, ctl, dmaStamp, lastDpc, dpcCarry>>
      BY <1>10 DEF Tick, position, notifying
    <2>2. Notified' = Notified /\ Running' = Running
      BY <1>1, <2>1 DEF Notified, Running
    <2>3. old + now - dmaStamp >= Notified => old + now' - dmaStamp' >= Notified'
      BY <2>1, <2>2, <1>3
    <2> QED BY <1>5, <1>6, <2>1, <2>2, <2>3 DEF NotBehind
  <1>11. CASE Acquire \/ PauseFromAcquire \/ CloseStream \/ PauseDone
    <2>1. UNCHANGED <<now, dmaStamp, lastDpc, dpcCarry>>
      BY <1>11 DEF Acquire, PauseFromAcquire, CloseStream, PauseDone, clock, position, notifying
    <2>2. ~Running /\ ~Running' /\ ctl # "flushed" /\ ctl' # "flushed"
      BY <1>11 DEF Acquire, PauseFromAcquire, CloseStream, PauseDone, Running
    <2> QED BY <1>7, <2>1, <2>2
  <1>12. CASE RunDone \/ PauseCancel
    <2>1. UNCHANGED <<now, dmaStamp, lastDpc, dpcCarry>>
      BY <1>12 DEF RunDone, PauseCancel, clock, position, notifying
    <2>2. Running /\ Running' /\ ctl # "flushed" /\ ctl' # "flushed"
      BY <1>12 DEF RunDone, PauseCancel, Running
    <2> QED BY <1>7, <2>1, <2>2
  <1>13. CASE GetReadPacket \/ TimerExpires \/ (TimerNotify /\ ~IntervalOver)
    <2>1. UNCHANGED <<now, dmaStamp, lastDpc, dpcCarry, ks, ctl>>
      BY <1>13 DEF GetReadPacket, TimerExpires, TimerNotify, clock, position, notifying
    <2>2. Running' = Running
      BY <2>1 DEF Running
    <2> QED BY <1>7, <2>1, <2>2
  <1> QED BY <1>8, <1>9, <1>10, <1>11, <1>12, <1>13 DEF Quiet

\* A stream whose counts are all nought has counted nothing.
LEMMA NothingCounted ==
  ASSUME StreamTyped, linear = 0, packetCount = 0, dpcCarry = 0,
         (dmaStamp = 0 /\ lastDpc = 0) \/ (ctl = "idle" /\ ks # "RUN")
  PROVE  Counted(0)
  <1>1. 0 * MsPerSec = 0 /\ 0 * Rate = 0 /\ 0 * Interval = 0 /\ 0 * TicksPerMs = 0
    BY IntervalBringsPacket, Parameters
  <1>2. elapsedCarry \in Nat /\ byteCarry \in Nat /\ now \in Nat
    BY ClockTypes
  <1>3. Notified = 0
    BY <1>1 DEF Notified
  <1>4. 0 * TicksPerMs + elapsedCarry = elapsedCarry /\ 0 * MsPerSec + byteCarry = byteCarry
    BY <1>1, <1>2
  <1>5. NotBehind(0 * TicksPerMs + elapsedCarry)
    <2>1. CASE dmaStamp = 0 /\ lastDpc = 0
      BY <1>2, <1>3, <1>4, <2>1 DEF NotBehind
    <2>2. CASE ctl = "idle" /\ ks # "RUN"
      BY <1>2, <1>3, <1>4, <2>2 DEF NotBehind, Running
    <2> QED BY <2>1, <2>2
  <1>6. linear * MsPerSec + byteCarry >= 0 * Rate /\ 0 >= packetCount * Interval
    BY <1>1, <1>2, <1>4
  <1> QED BY <1>5, <1>6, CountedParts

LEMMA ClocksKeep ==
  ASSUME StreamTyped, StreamTyped', ControlOK, ClocksOK, StreamNext
  PROVE  ClocksOK'
  <1>1. ASSUME UNCHANGED <<linear, byteCarry, elapsedCarry, packetCount, now, dmaStamp, lastDpc, dpcCarry, ks, ctl,
                           staleCarry>>
        PROVE  ClocksOK'
    BY <1>1 DEF ClocksOK, Counted
  <1>2. ASSUME UNCHANGED staleCarry, \A ms \in Nat : Counted(ms) => \E later \in Nat : Counted(later)'
        PROVE  ClocksOK'
    BY <1>2 DEF ClocksOK
  <1>3. ASSUME staleCarry' = 0 => Counted(0)' PROVE ClocksOK'
    BY <1>3 DEF ClocksOK
  <1>4. (StreamTyped /\ linear = 0 /\ packetCount = 0 /\ dpcCarry = 0
         /\ ((dmaStamp = 0 /\ lastDpc = 0) \/ (ctl = "idle" /\ ks # "RUN")) => Counted(0))'
    BY NothingCounted, PTL
  <1>5. CASE Settles
    <2>1. UNCHANGED staleCarry
      BY <1>5, SettlesMoves
    <2> QED BY <1>5, <1>2, <2>1, SettlesCounts
  <1>6. CASE Quiet
    <2>1. UNCHANGED staleCarry
      BY <1>6, QuietMoves
    <2> QED BY <1>6, <1>2, <2>1, QuietCounts
  <1>7. CASE Sizes
    BY <1>7, <1>1, SizesMoves DEF clock, notifying
  <1>8. CASE OpenStream
    <2>1. linear' = 0 /\ packetCount' = 0 /\ dpcCarry' = 0 /\ dmaStamp' = 0 /\ lastDpc' = 0
      BY <1>8 DEF OpenStream
    <2> QED BY <2>1, <1>3, <1>4
  <1>9. CASE Stop
    <2>1. linear' = 0 /\ packetCount' = 0 /\ staleCarry' = dpcCarry' /\ ctl' = "idle" /\ ks' = "STOP"
      BY <1>9 DEF Stop
    <2> QED BY <2>1, <1>3, <1>4
  <1>10. ASSUME NEW n \in 1 .. MaxWrite, Supply(n) PROVE ClocksOK'
    BY <1>10, <1>1 DEF Supply, streamVars, clock, position, notifying
  <1> QED BY <1>5, <1>6, <1>7, <1>8, <1>9, <1>10, StreamSteps


LEMMA StreamStarts == StreamInit => StreamInv
  <1> SUFFICES ASSUME StreamInit PROVE StreamInv
    OBVIOUS
  <1>1. /\ now = 0 /\ sessions = 0 /\ due = 0 /\ dmaStamp = 0 /\ elapsedCarry = 0 /\ byteCarry = 0
        /\ lastDpc = 0 /\ dpcCarry = 0 /\ linear = 0 /\ writePos = 0 /\ packetCount = 0 /\ staleCarry = 0
        /\ written = 0 /\ read = 0 /\ bufSize = 0 /\ interval = 0 /\ tape = <<>>
        /\ DOMAIN dma = 0 .. BufferBytes - 1
    BY DEF StreamInit, FeedInit
  <1>2. /\ ks = "NONE" /\ ctl = "idle" /\ timerOn = FALSE /\ dpc = FALSE
        /\ ring = [i \in 0 .. RingBytes - 1 |-> 0]
    BY DEF StreamInit, FeedInit, Silence
  <1>3. StreamTyped
    <2>1. <<>> \in Seq(Nat)
      OBVIOUS
    <2> QED BY <1>1, <2>1, Parameters DEF StreamTyped
  <1>4. ControlOK
    BY <1>1, <1>2 DEF ControlOK
  <1>5. FeedOK
    BY <1>1, <1>2, Parameters DEF FeedOK
  <1>6. HeardInOrder
    BY <1>1, SilentTape
  <1>7. AudioWhereReported
    BY <1>1, EmptyBuffer
  <1>8. ClocksOK
    BY <1>1, <1>3, NothingCounted DEF ClocksOK
  <1> QED BY <1>3, <1>4, <1>5, <1>6, <1>7, <1>8 DEF StreamInv

LEMMA StreamKeeps == ASSUME StreamInv, StreamNext PROVE StreamInv'
  <1>1. StreamTyped /\ ControlOK /\ FeedOK /\ HeardInOrder /\ AudioWhereReported /\ ClocksOK
    BY DEF StreamInv
  <1>2. StreamTyped' /\ ControlOK'
    BY <1>1, TypesKeep, ControlKeeps
  <1>3. FeedOK' /\ HeardInOrder' /\ AudioWhereReported'
    BY <1>1, HearingKeeps, AudioKeeps
  <1>4. ClocksOK'
    BY <1>1, <1>2, ClocksKeep
  <1> QED BY <1>2, <1>3, <1>4 DEF StreamInv

LEMMA StreamIdles == ASSUME StreamInv, UNCHANGED waveVars PROVE StreamInv'
  <1>1. UNCHANGED <<ring, written, read, now, sessions, ks, ctl, timerOn, due, dpc, dmaStamp, elapsedCarry, byteCarry,
                    linear, writePos, dma, tape, lastDpc, dpcCarry, packetCount, bufSize, interval, staleCarry>>
    BY DEF waveVars, feedVars, streamVars, clock, timer, position, notifying, buffer
  <1>2. StreamTyped' /\ ControlOK' /\ FeedOK'
    BY <1>1 DEF StreamInv, StreamTyped, ControlOK, FeedOK
  <1>3. HeardInOrder' /\ AudioWhereReported'
    BY <1>1 DEF StreamInv, HeardInOrder, Sounding, AudioWhereReported
  <1>4. ClocksOK'
    BY <1>1 DEF StreamInv, ClocksOK, Counted
  <1> QED BY <1>2, <1>3, <1>4 DEF StreamInv

\* The feed's ring, the shared buffer, the position and the two clocks agree in
\* every state, for every rate, buffer, packet and ring size the assumptions
\* admit (minwavertstream.cpp, pcmfeed.cpp).
THEOREM StreamInvariant == StreamSpec => []StreamInv
  <1> QED BY StreamStarts, StreamKeeps, StreamIdles, PTL DEF StreamSpec

\* What the engine hears is what the writer supplied, in order and without a
\* hole after the first byte, whatever the interleaving of the writes with the
\* timer and the queries (VbmPcmFeedWrite, VbmPcmFeedRead, WriteBytes).
THEOREM AlwaysHeardInOrder == StreamSpec => []HeardInOrder
  BY StreamInvariant, PTL DEF StreamInv

\* The bytes before the reported position are the last ones captured, across
\* every wrap of the shared buffer (UpdatePosition, WriteBytes).
THEOREM AudioAlwaysWhereReported == StreamSpec => []AudioWhereReported
  BY StreamInvariant, PTL DEF StreamInv

\* The packet counter of TimerNotifyRT is never ahead of the position of
\* UpdatePosition, though the two clocks carry their remainders separately:
\* until a run is stopped with time left over, every packet counted as
\* complete was captured to its last byte.
THEOREM CountedPacketsFilled == StreamSpec => []PacketsFilledSinceReset
  <1>1. ASSUME StreamInv, staleCarry = 0 PROVE PacketsFilled
    <2>1. PICK ms \in Nat : Counted(ms)
      BY <1>1 DEF StreamInv, ClocksOK
    <2>2. linear * MsPerSec + byteCarry >= ms * Rate /\ ms >= packetCount * Interval
      BY <2>1, CountedParts
    <2>3. /\ linear \in Nat /\ packetCount \in Nat /\ byteCarry \in Nat /\ byteCarry < MsPerSec
          /\ packetCount * Interval \in Nat
      BY <1>1, ClockTypes DEF StreamInv
    <2>4. Interval \in Nat /\ PacketBytes \in Nat /\ Interval * Rate = PacketBytes * MsPerSec
      BY IntervalBringsPacket
    <2>5. ms * Rate >= packetCount * Interval * Rate
      BY <2>2, <2>3, Parameters, Times
    <2>6. packetCount * Interval * Rate = packetCount * PacketBytes * MsPerSec
      <3>1. packetCount * Interval * Rate = packetCount * (Interval * Rate)
        BY <2>3, <2>4, Parameters
      <3>2. packetCount * PacketBytes * MsPerSec = packetCount * (PacketBytes * MsPerSec)
        BY <2>3, <2>4, Parameters
      <3> QED BY <3>1, <3>2, <2>4
    <2>7. linear * MsPerSec + byteCarry >= packetCount * PacketBytes * MsPerSec
      <3>1. /\ linear * MsPerSec \in Nat /\ ms * Rate \in Nat
            /\ packetCount * PacketBytes * MsPerSec \in Nat /\ packetCount * Interval * Rate \in Nat
        BY <2>3, <2>4, <2>6, Parameters
      <3> QED BY <3>1, <2>2, <2>3, <2>5, <2>6
    <2>8. packetCount * PacketBytes \in Nat
      BY <2>3, <2>4
    <2>9. linear >= packetCount * PacketBytes
      BY <2>3, <2>7, <2>8, Parameters, AtLeast
    <2> QED BY <2>9 DEF PacketsFilled, PacketBytes
  <1>2. StreamInv => PacketsFilledSinceReset
    BY <1>1 DEF PacketsFilledSinceReset
  <1> QED BY <1>2, StreamInvariant, PTL

\* Between a completed pause and the next run nothing moves the position or
\* completes a packet: SetState cancels the timer and waits for its callback
\* before it lets the pause complete.
THEOREM PausedAlwaysStill == StreamSpec => StillWhenPaused
  <1>1. ASSUME StreamInv, StreamNext, ctl = "idle", ks \in {"STOP", "ACQUIRE", "PAUSE"}, ks' # "STOP"
        PROVE  linear' = linear /\ packetCount' = packetCount
    <2>1. ~dpc /\ ks # "RUN"
      BY <1>1 DEF StreamInv, ControlOK
    <2>2. ~Settles
      BY <1>1, <2>1 DEF Settles, GetPositions, PauseSettle, TimerNotify
    <2>3. CASE Quiet
      BY <2>3, QuietMoves
    <2>4. CASE Sizes
      BY <2>4, SizesMoves DEF notifying
    <2>5. ~OpenStream
      BY <1>1 DEF OpenStream
    <2>6. ~Stop
      BY <1>1 DEF Stop
    <2>7. ASSUME NEW n \in 1 .. MaxWrite, Supply(n) PROVE linear' = linear /\ packetCount' = packetCount
      BY <2>7 DEF Supply, streamVars, position, notifying
    <2> QED BY <1>1, <2>2, <2>3, <2>4, <2>5, <2>6, <2>7, StreamSteps
  <1>2. ASSUME UNCHANGED waveVars PROVE linear' = linear /\ packetCount' = packetCount
    BY <1>2 DEF waveVars, streamVars, position, notifying
  <1>3. StreamInv /\ [StreamNext]_waveVars
        => [ctl = "idle" /\ ks \in {"STOP", "ACQUIRE", "PAUSE"} /\ ks' # "STOP"
              => (linear' = linear /\ packetCount' = packetCount)]_waveVars
    BY <1>1, <1>2
  <1> QED BY <1>3, StreamInvariant, PTL DEF StreamSpec, StillWhenPaused
=============================================================================
