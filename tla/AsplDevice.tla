----------------------------- MODULE AsplDevice -----------------------------
(***************************************************************************)
(* How a libASPL device changes its configuration (Device.cpp, Stream.cpp, *)
(* Object.cpp, Plugin.cpp and the generated setters).  A change that HAL   *)
(* must not see happen - a rate, a format, a stream added or removed - is  *)
(* queued under a request number and applied when HAL calls                *)
(* PerformConfigurationChange, dropped when HAL aborts it, and applied on  *)
(* the spot when HAL does not know the device: before Initialize, before   *)
(* the plug-in owns it, and while it is being taken out of the plug-in,    *)
(* which applies what is queued.                                           *)
(*                                                                         *)
(* Threads of the driver and HAL's thread run concurrently.  The device    *)
(* and every stream has a recursive mutex; whatever a thread does under    *)
(* the device's is one step, except that a stream's mutex may have to be   *)
(* waited for: a stream's setter takes the stream's mutex and then the     *)
(* device's (RequestConfigurationChange), a queued change of a stream      *)
(* takes the stream's under the device's.  The plug-in's mutex is held     *)
(* from beginning to end of AddDevice and RemoveDevice.                    *)
(***************************************************************************)
EXTENDS Integers, Sequences, FiniteSets, SequencesExt

CONSTANTS
    Thread,        \* threads of the driver
    Nothing, Device,
    Inputs, Outputs,         \* streams, by direction
    Volumes, Mutes,          \* controls
    UIntMod,       \* 2^32: the stream counters are UInt32
    Plays,         \* what one behaviour touches: sets of settings and objects
    MaxCalls, MaxRequests, MaxMoves, MaxAborts    \* bounds of the exploration

Stream == Inputs \cup Outputs
Object == Stream \cup Volumes \cup Mutes
Setting == ({Device} \X {"latency", "safetyOffset", "zeroTimeStampPeriod", "nominalSampleRate",
                         "availableSampleRates", "stereoChannels", "channelCount", "channels",
                         "channelLayout"})
    \cup (Stream \X {"latency", "physicalFormat", "virtualFormat", "availablePhysicalFormats",
                     "availableVirtualFormats"})

ASSUME ThreadAssumption == Nothing \notin Thread \cup {"hal"} /\ "hal" \notin Thread
\* A stream, a volume control and a mute control are objects of their own, and
\* there are fewer streams than a counter can count.
ASSUME ObjectAssumption ==
    /\ Stream \cap Volumes = {} /\ Stream \cap Mutes = {}
    /\ Device \notin Object /\ Setting \cap Object = {}
ASSUME UIntAssumption == UIntMod \in Nat /\ IsFiniteSet(Stream) /\ Cardinality(Stream) < UIntMod
ASSUME PlaysAssumption == Plays \subseteq SUBSET (Setting \cup Object)

VARIABLES
    host,        \* Context::Host is set
    attached,    \* HasOwner(): the plug-in owns the device
    listed,      \* streams_, volumeControls_, muteControls_ and their indices
    dev,         \* what a change changes: config, owned objects, stream counters
    pending,     \* pendingConfigurationRequests_, by request number
    lastRequest, \* lastConfigurationRequestID_
    devLock, streamLock, pluginLock,    \* who holds each mutex
    pc,          \* per thread, and HAL's: what it holds and waits for
    hal,         \* request numbers HAL has been asked to perform
    play,        \* what this behaviour touches
    calls, moves, aborts,               \* bounded
    asked,       \* history: the last value accepted for each setting
    disturbed    \* history: settings and objects an abort touched

locks == <<devLock, streamLock, pluginLock>>
history == <<asked, disturbed>>
bounds == <<play, calls, moves, aborts>>
deviceVars == <<host, attached, listed, dev, pending, lastRequest, locks, pc, hal, bounds, history>>

Unset == {0}            \* std::nullopt, for lists
NotSet == -1            \* and for numbers
Tagged == 9             \* a layout named by its tag, without descriptions
DefaultChannels == 2    \* params_.ChannelCount

(* Values a setting may be given: two of a kind are enough to tell which   *)
(* of two requests is in force.                                            *)
Value(p) ==
    CASE p[2] \in {"availableSampleRates", "availablePhysicalFormats", "availableVirtualFormats"}
           -> {{}, {1}, {1, 2}}
      [] p[2] = "channels" -> {0, 1, 2}
      [] p[2] = "channelLayout" -> {1, Tagged}
      [] OTHER -> {1, 2}

InitialValue(p) ==
    CASE p[2] \in {"availableSampleRates", "availablePhysicalFormats", "availableVirtualFormats"}
           -> Unset
      [] p[2] \in {"channelCount", "channels", "channelLayout"} -> NotSet
      [] OTHER -> 2

DeviceInit ==
    /\ host = FALSE /\ attached = FALSE
    /\ listed = {}
    /\ dev = [config |-> [p \in Setting |-> InitialValue(p)], owned |-> {},
              inputs |-> 0, outputs |-> 0]
    /\ pending = <<>> /\ lastRequest = 0
    /\ devLock = Nothing /\ pluginLock = Nothing
    /\ streamLock = [s \in Stream |-> Nothing]
    /\ pc = [t \in Thread \cup {"hal"} |-> [at |-> "idle"]]
    /\ hal = <<>>
    /\ play \in Plays
    /\ calls = 0 /\ moves = 0 /\ aborts = 0
    /\ asked = [p \in Setting |-> InitialValue(p)]
    /\ disturbed = {}

-----------------------------------------------------------------------------
(* The getters.  A list of rates or formats that was never set is the one  *)
(* in force; the three ways to describe channels fall back on each other.  *)
AvailableSampleRates(c) ==
    IF c[<<Device, "availableSampleRates">>] # Unset THEN c[<<Device, "availableSampleRates">>]
    ELSE {c[<<Device, "nominalSampleRate">>]}

Described(c) == c[<<Device, "channelLayout">>] \notin {NotSet, Tagged}

PreferredChannelCount(c) ==
    IF c[<<Device, "channelCount">>] # NotSet THEN c[<<Device, "channelCount">>]
    ELSE IF c[<<Device, "channels">>] > 0 THEN c[<<Device, "channels">>]
    ELSE IF Described(c) THEN c[<<Device, "channelLayout">>]
    ELSE DefaultChannels

PreferredChannels(c) ==
    IF c[<<Device, "channels">>] # NotSet THEN c[<<Device, "channels">>]
    ELSE IF Described(c) THEN c[<<Device, "channelLayout">>]
    ELSE PreferredChannelCount(c)

PreferredChannelLayout(c) ==
    IF c[<<Device, "channelLayout">>] # NotSet THEN c[<<Device, "channelLayout">>]
    ELSE PreferredChannels(c)

AvailablePhysicalFormats(c, s) ==
    IF c[<<s, "availablePhysicalFormats">>] # Unset THEN c[<<s, "availablePhysicalFormats">>]
    ELSE {c[<<s, "physicalFormat">>]}

AvailableVirtualFormats(c, s) ==
    IF c[<<s, "availableVirtualFormats">>] # Unset THEN c[<<s, "availableVirtualFormats">>]
    ELSE {c[<<s, "virtualFormat">>]}

Getter(c, p) ==
    CASE p[2] = "availableSampleRates" -> AvailableSampleRates(c)
      [] p[2] = "channelCount" -> PreferredChannelCount(c)
      [] p[2] = "channels" -> PreferredChannels(c)
      [] p[2] = "channelLayout" -> PreferredChannelLayout(c)
      [] p[2] = "availablePhysicalFormats" -> AvailablePhysicalFormats(c, p[1])
      [] p[2] = "availableVirtualFormats" -> AvailableVirtualFormats(c, p[1])
      [] OTHER -> c[p]

(* The value checkers: an empty list offers everything.                    *)
Offers(list, v) == list = {} \/ v \in list
CheckNominalSampleRate(c, v) == Offers(AvailableSampleRates(c), v)
CheckPhysicalFormat(c, s, v) == Offers(AvailablePhysicalFormats(c, s), v)
CheckVirtualFormat(c, s, v) == Offers(AvailableVirtualFormats(c, s), v)

Valid(c, p, v) ==
    /\ p[2] = "nominalSampleRate" => CheckNominalSampleRate(c, v)
    /\ p[2] = "physicalFormat" => CheckPhysicalFormat(c, p[1], v)
    /\ p[2] = "virtualFormat" => CheckVirtualFormat(c, p[1], v)

(* A setter looks at the value in force, not at what is queued.            *)
Accepted(c, p, v) == Getter(c, p) # v /\ Valid(c, p, v)

-----------------------------------------------------------------------------
(* The functions that are queued.  A setter's compares once more.          *)
SetImpl(d, p, v) ==
    IF Getter(d.config, p) = v THEN d ELSE [d EXCEPT !.config[p] = v]

(* AddOwnedObject and RemoveOwnedObject, and for a stream its counter.     *)
AddOwned(d, o) ==
    [d EXCEPT !.owned = @ \cup {o},
              !.inputs = IF o \in Inputs THEN (@ + 1) % UIntMod ELSE @,
              !.outputs = IF o \in Outputs THEN (@ + 1) % UIntMod ELSE @]
RemoveOwned(d, o) ==
    [d EXCEPT !.owned = @ \ {o},
              !.inputs = IF o \in Inputs THEN (@ - 1) % UIntMod ELSE @,
              !.outputs = IF o \in Outputs THEN (@ - 1) % UIntMod ELSE @]

(* A function of the driver's own, here one that sets two things together; *)
(* inside it the setters apply their changes in place.                     *)
SetInPlace(d, pv) == IF Accepted(d.config, pv[1], pv[2]) THEN SetImpl(d, pv[1], pv[2]) ELSE d

Apply(d, c) ==
    CASE c.kind = "set" -> SetImpl(d, c.what, c.value)
      [] c.kind = "add" -> AddOwned(d, c.what)
      [] c.kind = "remove" -> RemoveOwned(d, c.what)
      [] c.kind = "function" -> SetInPlace(SetInPlace(d, c.sets[1]), c.sets[2])

\* One after the other.
ApplyAll(d, cs) ==
    LET after[n \in 0 .. Len(cs)] == IF n = 0 THEN d ELSE Apply(after[n - 1], cs[n])
    IN  after[Len(cs)]

Touches(c) ==
    IF c.kind = "function" THEN {c.sets[i][1] : i \in DOMAIN c.sets} ELSE {c.what}

(* The streams whose mutex a change needs: one, or none.                   *)
StreamOf(c) ==
    UNION {IF x \in Setting /\ x[1] \in Stream THEN {x[1]} ELSE {} : x \in Touches(c) \cap Setting}

(* Device::RequestConfigurationChange.                                     *)
Queued == host /\ attached
\* Mutant: applied on the spot although HAL uses the device.
RequestAtOnce(cs) ==
    /\ dev' = ApplyAll(dev, cs)
    /\ UNCHANGED <<pending, lastRequest, hal>>
RequestConfigurationChange(cs) ==
    IF Queued
    THEN /\ pending' = pending \o [i \in DOMAIN cs |-> [id |-> lastRequest + i - 1, change |-> cs[i]]]
         /\ lastRequest' = lastRequest + Len(cs)
         /\ hal' = hal \o [i \in DOMAIN cs |-> lastRequest + i - 1]
         /\ UNCHANGED dev
    ELSE /\ dev' = ApplyAll(dev, cs)
         /\ UNCHANGED <<pending, lastRequest, hal>>

-----------------------------------------------------------------------------
(* The driver's calls.  A setter that accepts its value queues a change.   *)
Idle(t) == pc[t] = [at |-> "idle"]
Turn(t) ==
    /\ Idle(t) /\ calls < MaxCalls
    /\ calls' = calls + 1
    /\ UNCHANGED <<play, moves, aborts>>
Room(n) == Queued => lastRequest + n <= MaxRequests

SetAsync(t, p, v) ==
    /\ Turn(t) /\ Room(1)
    /\ p \in play /\ v \in Value(p)
    /\ devLock = Nothing
    /\ Accepted(dev.config, p, v)
    /\ RequestConfigurationChange(<<[kind |-> "set", what |-> p, value |-> v]>>)
    /\ asked' = [asked EXCEPT ![p] = v]
    /\ UNCHANGED <<host, attached, listed, locks, pc, disturbed>>

SetLatencyAsync(t, v) == SetAsync(t, <<Device, "latency">>, v)
SetSafetyOffsetAsync(t, v) == SetAsync(t, <<Device, "safetyOffset">>, v)
SetZeroTimeStampPeriodAsync(t, v) == SetAsync(t, <<Device, "zeroTimeStampPeriod">>, v)
SetNominalSampleRateAsync(t, v) == SetAsync(t, <<Device, "nominalSampleRate">>, v)
SetAvailableSampleRatesAsync(t, v) == SetAsync(t, <<Device, "availableSampleRates">>, v)
SetPreferredChannelsForStereoAsync(t, v) == SetAsync(t, <<Device, "stereoChannels">>, v)
SetPreferredChannelCountAsync(t, v) == SetAsync(t, <<Device, "channelCount">>, v)
SetPreferredChannelsAsync(t, v) == SetAsync(t, <<Device, "channels">>, v)
SetPreferredChannelLayoutAsync(t, v) == SetAsync(t, <<Device, "channelLayout">>, v)

DeviceSetter(t) ==
    \/ \E v \in {1, 2} :
         \/ SetLatencyAsync(t, v) \/ SetSafetyOffsetAsync(t, v)
         \/ SetZeroTimeStampPeriodAsync(t, v) \/ SetNominalSampleRateAsync(t, v)
         \/ SetPreferredChannelsForStereoAsync(t, v) \/ SetPreferredChannelCountAsync(t, v)
    \/ \E v \in {0, 1, 2} : SetPreferredChannelsAsync(t, v)
    \/ \E v \in {1, Tagged} : SetPreferredChannelLayoutAsync(t, v)
    \/ \E v \in {{}, {1}, {1, 2}} : SetAvailableSampleRatesAsync(t, v)

(* A stream's setter looks at the value under the stream's mutex alone.    *)
SetStreamAsync(t, p, v) ==
    /\ Turn(t)
    /\ p \in play /\ v \in Value(p)
    /\ streamLock[p[1]] = Nothing
    /\ Accepted(dev.config, p, v)
    /\ streamLock' = [streamLock EXCEPT ![p[1]] = t]
    /\ pc' = [pc EXCEPT ![t] = [at |-> "stream", what |-> p, value |-> v]]
    /\ UNCHANGED <<host, attached, listed, dev, pending, lastRequest, devLock, pluginLock, hal,
                   history>>

SetStreamLatencyAsync(t, s, v) == SetStreamAsync(t, <<s, "latency">>, v)
SetPhysicalFormatAsync(t, s, v) == SetStreamAsync(t, <<s, "physicalFormat">>, v)
SetVirtualFormatAsync(t, s, v) == SetStreamAsync(t, <<s, "virtualFormat">>, v)
SetAvailablePhysicalFormatsAsync(t, s, v) == SetStreamAsync(t, <<s, "availablePhysicalFormats">>, v)
SetAvailableVirtualFormatsAsync(t, s, v) == SetStreamAsync(t, <<s, "availableVirtualFormats">>, v)

StreamSetter(t, s) ==
    \/ \E v \in {1, 2} : \/ SetStreamLatencyAsync(t, s, v) \/ SetPhysicalFormatAsync(t, s, v)
                         \/ SetVirtualFormatAsync(t, s, v)
    \/ \E v \in {{}, {1}, {1, 2}} : \/ SetAvailablePhysicalFormatsAsync(t, s, v)
                                   \/ SetAvailableVirtualFormatsAsync(t, s, v)

(* Stream::RequestConfigurationChange, once the device's mutex is free.    *)
RequestFromStream(t) ==
    /\ pc[t].at = "stream" /\ devLock = Nothing /\ Room(1)
    /\ RequestConfigurationChange(
         <<[kind |-> "set", what |-> pc[t].what, value |-> pc[t].value]>>)
    /\ asked' = [asked EXCEPT ![pc[t].what] = pc[t].value]
    /\ streamLock' = [streamLock EXCEPT ![pc[t].what[1]] = Nothing]
    /\ pc' = [pc EXCEPT ![t] = [at |-> "idle"]]
    /\ UNCHANGED <<host, attached, listed, devLock, pluginLock, bounds, disturbed>>

(* A function of the driver's own that sets two settings of the device.    *)
RequestFunction(t, p, v, q, w) ==
    /\ Turn(t) /\ Room(1)
    /\ {p, q} \subseteq play /\ p # q /\ p[1] = Device /\ q[1] = Device
    /\ devLock = Nothing
    /\ RequestConfigurationChange(<<[kind |-> "function", sets |-> << <<p, v>>, <<q, w>> >>]>>)
    /\ asked' = IF Queued THEN asked
                ELSE [x \in Setting |-> IF x \in {p, q} THEN dev'.config[x] ELSE asked[x]]
    /\ UNCHANGED <<host, attached, listed, locks, pc, disturbed>>

(* The lists change at once, the owned objects when HAL allows it.  An     *)
(* object is added when nothing of an earlier life of it is left.          *)
Fresh(o) ==
    /\ o \in play \ listed /\ o \notin dev.owned
    /\ \A i \in DOMAIN pending : o \notin Touches(pending[i].change)

AddObjects(t, os) ==
    /\ Turn(t) /\ Room(Len(os))
    /\ \A i \in DOMAIN os : Fresh(os[i])
    /\ devLock = Nothing
    /\ listed' = listed \cup {os[i] : i \in DOMAIN os}
    /\ RequestConfigurationChange([i \in DOMAIN os |-> [kind |-> "add", what |-> os[i]]])
    /\ UNCHANGED <<host, attached, locks, pc, history>>

RemoveObject(t, o) ==
    /\ Turn(t) /\ Room(1)
    /\ o \in play \cap listed
    /\ devLock = Nothing
    /\ listed' = listed \ {o}
    /\ RequestConfigurationChange(<<[kind |-> "remove", what |-> o]>>)
    /\ UNCHANGED <<host, attached, locks, pc, history>>

AddStreamAsync(t) == \E s \in Stream : AddObjects(t, <<s>>)
RemoveStreamAsync(t) == \E s \in Stream : RemoveObject(t, s)
AddVolumeControlAsync(t) == \E c \in Volumes : AddObjects(t, <<c>>)
RemoveVolumeControlAsync(t) == \E c \in Volumes : RemoveObject(t, c)
AddMuteControlAsync(t) == \E c \in Mutes : AddObjects(t, <<c>>)
RemoveMuteControlAsync(t) == \E c \in Mutes : RemoveObject(t, c)

(* Three requests under one lock; the controls are attached to the stream, *)
(* which only its sample processing looks at.                              *)
AddStreamWithControlsAsync(t) ==
    \E s \in Stream, v \in Volumes, m \in Mutes : AddObjects(t, <<s, v, m>>)

-----------------------------------------------------------------------------
(* The plug-in takes the device in and out.                                *)
Initialize ==
    /\ ~host /\ host' = TRUE
    /\ UNCHANGED <<attached, listed, dev, pending, lastRequest, locks, pc, hal, bounds, history>>

Move(t) ==
    /\ Idle(t) /\ moves < MaxMoves
    /\ pluginLock = Nothing /\ devLock = Nothing
    /\ moves' = moves + 1
    /\ UNCHANGED <<host, listed, dev, pending, lastRequest, streamLock, hal, play, calls, aborts,
                   history>>

(* Plugin::AddDevice: nothing when the plug-in has the device already.     *)
AddDevice(t) ==
    /\ Move(t)
    /\ ~attached /\ attached' = TRUE
    /\ UNCHANGED <<devLock, pluginLock, pc>>

(* Plugin::RemoveDevice: what is queued is applied, oldest first, before   *)
(* the mutexes are given back.                                             *)
RemoveDevice(t) ==
    /\ Move(t)
    /\ attached /\ attached' = FALSE
    /\ IF pending = <<>> THEN UNCHANGED <<devLock, pluginLock, pc>>
       ELSE /\ devLock' = t /\ pluginLock' = t
            /\ pc' = [pc EXCEPT ![t] = [at |-> "detach"]]

(* One change applied, by whoever holds the       *)
(* device's mutex; what a function sets stands until the next request.     *)
ApplyPending(r) ==
    /\ \A s \in StreamOf(r.change) : streamLock[s] = Nothing
    /\ dev' = Apply(dev, r.change)
    /\ asked' = IF r.change.kind # "function" THEN asked
                ELSE [p \in Setting |->
                        IF /\ p \in Touches(r.change)
                           /\ \A q \in ToSet(pending) \ {r} : p \notin Touches(q.change)
                        THEN dev'.config[p] ELSE asked[p]]
    /\ UNCHANGED disturbed

DetachDone(t, rest) ==
    IF rest = <<>>
    THEN /\ devLock' = Nothing /\ pluginLock' = Nothing
         /\ pc' = [pc EXCEPT ![t] = [at |-> "idle"]]
    ELSE UNCHANGED <<devLock, pluginLock, pc>>
\* Mutant: what is queued is dropped with the device.
DetachDrops(t) ==
    /\ pc[t].at = "detach"
    /\ pending' = <<>> /\ DetachDone(t, <<>>)
    /\ UNCHANGED <<host, attached, listed, dev, lastRequest, streamLock, hal, bounds, history>>
\* Mutant: the newest change is applied first.
DetachNewestFirst(t) ==
    /\ pc[t].at = "detach"
    /\ ApplyPending(pending[Len(pending)])
    /\ pending' = Front(pending) /\ DetachDone(t, pending')
    /\ UNCHANGED <<host, attached, listed, lastRequest, streamLock, hal, bounds>>
DetachApply(t) ==
    /\ pc[t].at = "detach"
    /\ ApplyPending(Head(pending))
    /\ pending' = Tail(pending) /\ DetachDone(t, pending')
    /\ UNCHANGED <<host, attached, listed, lastRequest, streamLock, hal, bounds>>

-----------------------------------------------------------------------------
(* HAL's thread performs or aborts what it was asked for, in order.        *)
Found(id) == {i \in DOMAIN pending : pending[i].id = id}
Place(id) == CHOOSE i \in DOMAIN pending : pending[i].id = id
Erased(id) == IF Found(id) = {} THEN pending ELSE RemoveAt(pending, Place(id))

(* A request applied when the device was taken out is ignored.             *)
IgnoreLate ==
    /\ Idle("hal") /\ hal # <<>> /\ devLock = Nothing
    /\ Found(Head(hal)) = {}
    /\ hal' = Tail(hal)
    /\ UNCHANGED <<host, attached, listed, dev, pending, lastRequest, locks, pc, bounds, history>>

PerformBegin ==
    /\ Idle("hal") /\ hal # <<>> /\ devLock = Nothing
    /\ Found(Head(hal)) # {}
    /\ devLock' = "hal"
    /\ pc' = [pc EXCEPT !["hal"] = [at |-> "perform"]]
    /\ UNCHANGED <<host, attached, listed, dev, pending, lastRequest, streamLock, pluginLock, hal,
                   bounds, history>>

PerformEnd ==
    /\ pc["hal"].at = "perform"
    /\ ApplyPending(pending[Place(Head(hal))])
    /\ pending' = Erased(Head(hal))
    /\ hal' = Tail(hal)
    /\ devLock' = Nothing
    /\ pc' = [pc EXCEPT !["hal"] = [at |-> "idle"]]
    /\ UNCHANGED <<host, attached, listed, lastRequest, streamLock, pluginLock, bounds>>

AbortConfigurationChange ==
    /\ Idle("hal") /\ hal # <<>> /\ devLock = Nothing /\ aborts < MaxAborts
    /\ disturbed' = disturbed \cup UNION {Touches(pending[i].change) : i \in Found(Head(hal))}
    /\ pending' = Erased(Head(hal))
    /\ hal' = Tail(hal)
    /\ aborts' = aborts + 1
    /\ UNCHANGED <<host, attached, listed, dev, lastRequest, locks, pc, play, calls, moves, asked>>

(* HAL may forget what it was asked about a device that is gone.           *)
HalForgets ==
    /\ Idle("hal") /\ hal # <<>> /\ ~attached
    /\ hal' = <<>>
    /\ UNCHANGED <<host, attached, listed, dev, pending, lastRequest, locks, pc, bounds, history>>

-----------------------------------------------------------------------------
DeviceNext ==
    \/ Initialize
    \/ \E t \in Thread :
         \/ DeviceSetter(t)
         \/ \E s \in Stream : StreamSetter(t, s)
         \/ RequestFromStream(t)
         \/ \E p, q \in play \cap Setting : \E v \in Value(p), w \in Value(q) :
              RequestFunction(t, p, v, q, w)
         \/ AddStreamAsync(t) \/ RemoveStreamAsync(t)
         \/ AddVolumeControlAsync(t) \/ RemoveVolumeControlAsync(t)
         \/ AddMuteControlAsync(t) \/ RemoveMuteControlAsync(t)
         \/ AddStreamWithControlsAsync(t)
         \/ AddDevice(t) \/ RemoveDevice(t) \/ DetachApply(t)
    \/ IgnoreLate \/ PerformBegin \/ PerformEnd \/ AbortConfigurationChange \/ HalForgets

DeviceSpec == DeviceInit /\ [][DeviceNext]_deviceVars

-----------------------------------------------------------------------------
(* The state once everything queued is applied.                            *)
Settled == ApplyAll(dev, [i \in DOMAIN pending |-> pending[i].change])

(* "GetStreamCount() ... will be updated immediately, but                  *)
(* GetOwnedObjectIDs() ... later" (Device.hpp, lines 633-635): the two     *)
(* agree once the queue is worked off, across any number of additions,     *)
(* removals, detachments and late or ignored requests, and so do the       *)
(* counters that WillDoIOOperation asks; only an object whose addition or  *)
(* removal HAL aborted is out of step.                                     *)
ChangesSettle ==
    /\ \A o \in Object \ disturbed : o \in Settled.owned <=> o \in listed
    /\ disturbed \cap Stream = {} =>
         /\ Settled.inputs = Cardinality(Settled.owned \cap Inputs)
         /\ Settled.outputs = Cardinality(Settled.owned \cap Outputs)

(* "Returns the last value set" (Device.hpp, lines 295-370): the requests  *)
(* still queued lead to the value accepted last, however often the device  *)
(* was taken out and put back meanwhile.  Left out are what a queued       *)
(* function will set, and the descriptions of the channels: they fall back *)
(* on each other, so a value equal to the derived one is not stored.       *)
Descriptions == {Device} \X {"channelCount", "channels", "channelLayout"}
InFunctions ==
    UNION {Touches(r.change) : r \in {q \in ToSet(pending) : q.change.kind = "function"}}
LastAcceptedWins ==
    \A p \in Setting \ (Descriptions \cup InFunctions \cup disturbed) :
        Settled.config[p] = asked[p]

(* While HAL uses the device its configuration changes in HAL's own call   *)
(* and at no other time.                                                   *)
ChangedOnlyWhenSafe ==
    [][(dev' # dev /\ Queued) => pc["hal"].at = "perform" /\ pc'["hal"].at = "idle"]_deviceVars

(* "This method implements thread-safe changing of the ownership and       *)
(* handles possible races with RequestConfigurationChange()" (Device.hpp,  *)
(* lines 938-939): the thread that takes the device out never waits for a  *)
(* mutex whose holder waits for one of its own.                            *)
WaitsFor(t) ==
    CASE pc[t].at = "stream" -> {devLock} \ {Nothing}
      [] pc[t].at = "detach" -> {streamLock[s] : s \in StreamOf(Head(pending).change)} \ {Nothing}
      [] pc[t].at = "perform" ->
           {streamLock[s] : s \in StreamOf(pending[Place(Head(hal))].change)} \ {Nothing}
      [] OTHER -> {}
NoCircularWait ==
    \A t \in Thread : pc[t].at = "detach" => \A u \in WaitsFor(t) : t \notin WaitsFor(u)
=============================================================================
