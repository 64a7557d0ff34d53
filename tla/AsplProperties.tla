--------------------------- MODULE AsplProperties ---------------------------
(***************************************************************************)
(* The properties HAL can ask libASPL's objects for (the generated         *)
(* handlers *.g.cpp and the fallbacks of Object.cpp), as functions of the  *)
(* class, the selector and what the object holds:                          *)
(*                                                                         *)
(*   Has, Settable, Size, Get, Set                                         *)
(*                                                                         *)
(* A handler that does not know the selector asks the one of the base      *)
(* class, Object, which ends in the custom properties the driver has       *)
(* registered.  Sizes are in bytes; what a value says is left out, but for *)
(* how many elements a list has.                                           *)
(***************************************************************************)
EXTENDS Integers

Scopes == {"Global", "Input", "Output"}

Ref == 8                     \* a CFStringRef, CFURLRef or CFPropertyListRef
Word == 4                    \* UInt32, Float32, AudioObjectID, AudioClassID
Double == 8                  \* Float64
ValueRange == 16             \* AudioValueRange
Format == 40                 \* AudioStreamBasicDescription
RangedFormat == 56           \* AudioStreamRangedDescription
CustomInfo == 12             \* AudioServerPlugInCustomPropertyInfo
Layout(n) == 12 + 20 * n     \* AudioChannelLayout with n descriptions

Ok(n) == [status |-> "ok", bytes |-> n]
Error(e) == [status |-> e, bytes |-> 0]

(* The three ways to fill a buffer of in bytes: one value, whole elements  *)
(* of a list as far as they fit, all of a list or nothing.                 *)
GetOne(size, in) == IF in < size THEN Error("badSize") ELSE Ok(size)
\* Mutant: as many bytes as there are, the last element cut off.
GetListCut(size, n, in) == Ok(IF in < size * n THEN in ELSE size * n)
GetList(size, n, in) == Ok(size * (IF in \div size < n THEN in \div size ELSE n))
GetWhole(n, in) == IF in < n THEN Error("badSize") ELSE Ok(n)
SetOne(size, in) == IF in # size THEN Error("badSize") ELSE Ok(size)

In(table, s) == s \in DOMAIN table

-----------------------------------------------------------------------------
(* Custom properties: selector -> whether there is a getter, a setter.     *)
HasCustom(custom, s) == In(custom, s)
SettableCustom(custom, s) ==
    IF In(custom, s) THEN [status |-> "ok", settable |-> custom[s].setter]
    ELSE [status |-> "unknown", settable |-> FALSE]
SizeCustom(custom, s) == IF In(custom, s) THEN Ok(Ref) ELSE Error("unknown")
GetCustom(custom, s, in) ==
    IF ~In(custom, s) \/ ~custom[s].getter THEN Error("unknown") ELSE GetOne(Ref, in)
SetCustom(custom, s, in) ==
    IF ~In(custom, s) \/ ~custom[s].setter THEN Error("unknown") ELSE SetOne(Ref, in)

-----------------------------------------------------------------------------
(* Every object.                                                           *)
ObjectHas(s) == s \in {"Class", "BaseClass", "Owner", "OwnedObjects", "CustomPropertyInfoList"}
ObjectSettable == [s \in {"Class", "BaseClass", "Owner", "OwnedObjects", "CustomPropertyInfoList"}
                     |-> FALSE]
ObjectSize == [Class |-> Word, BaseClass |-> Word, Owner |-> Word,
               OwnedObjects |-> Word, CustomPropertyInfoList |-> CustomInfo]
ObjectGet(s, in) == GetOne(ObjectSize[s], in)
ObjectGetLists(s, n, in) == GetList(ObjectSize[s], n, in)

-----------------------------------------------------------------------------
(* The plug-in.                                                            *)
PluginHas(s) == s \in {"Manufacturer", "ResourceBundle", "DeviceList", "TranslateUIDToDevice"}
PluginSettable == [s \in {"Manufacturer", "ResourceBundle", "DeviceList", "TranslateUIDToDevice"}
                     |-> FALSE]
PluginSize == [Manufacturer |-> Ref, ResourceBundle |-> Ref, DeviceList |-> Word,
               TranslateUIDToDevice |-> Word]
PluginGet(s, in) == GetOne(PluginSize[s], in)
PluginGetDevices(s, n, in) == GetList(PluginSize[s], n, in)
PluginTranslate(s, qualifier, in) ==
    IF in >= PluginSize[s] /\ qualifier # Ref THEN Error("badSize") ELSE GetOne(PluginSize[s], in)

-----------------------------------------------------------------------------
(* A device, in the order of the code: its names, details, clock, delays,  *)
(* rates and channels, state, and lists.  Five of them exist in the scopes *)
(* of input and output only - and answer in any scope.                     *)
NamesHas(s) == s \in {"Name", "Manufacturer", "DeviceUID", "ModelUID"}
DetailsHas(s) == s \in {"SerialNumber", "FirmwareVersion", "Icon", "ConfigurationApplication"}
ClockHas(s) == s \in {"TransportType", "RelatedDevices", "ClockIsStable", "ClockAlgorithm",
                      "ClockDomain"}
DelayHas(s, scope) == s \in {"Latency", "SafetyOffset"} /\ scope # "Global"
RatesHas(s, scope) ==
    \/ s \in {"ZeroTimeStampPeriod", "NominalSampleRate", "AvailableNominalSampleRates"}
    \/ s \in {"PreferredChannelsForStereo", "PreferredChannelLayout"} /\ scope # "Global"
StateHas(s, scope) ==
    \/ s \in {"DeviceIsRunning", "Identify", "DeviceIsAlive", "IsHidden"}
    \/ s \in {"CanBeDefaultDevice", "CanBeDefaultSystemDevice"} /\ scope # "Global"
ListsHas(s) == s \in {"Streams", "ControlList"}

NamesSize == [Name |-> Ref, Manufacturer |-> Ref, DeviceUID |-> Ref, ModelUID |-> Ref]
DetailsSize == [SerialNumber |-> Ref, FirmwareVersion |-> Ref, Icon |-> Ref,
                ConfigurationApplication |-> Ref]
ClockSize == [TransportType |-> Word, RelatedDevices |-> Word, ClockIsStable |-> Word,
              ClockAlgorithm |-> Word, ClockDomain |-> Word]
DelaySize == [Latency |-> Word, SafetyOffset |-> Word]
RatesSize == [ZeroTimeStampPeriod |-> Word, NominalSampleRate |-> Double,
              AvailableNominalSampleRates |-> ValueRange, PreferredChannelsForStereo |-> Word,
              PreferredChannelLayout |-> 1]
StateSize == [DeviceIsRunning |-> Word, Identify |-> Word, DeviceIsAlive |-> Word,
              IsHidden |-> Word, CanBeDefaultDevice |-> Word, CanBeDefaultSystemDevice |-> Word]
ListsSize == [Streams |-> Word, ControlList |-> Word]

NamesSettable == [s \in DOMAIN NamesSize |-> FALSE]
DetailsSettable == [s \in DOMAIN DetailsSize |-> FALSE]
ClockSettable == [s \in DOMAIN ClockSize |-> FALSE]
DelaySettable == [s \in DOMAIN DelaySize |-> FALSE]
RatesSettable == [s \in DOMAIN RatesSize |-> s = "NominalSampleRate"]
StateSettable == [s \in DOMAIN StateSize |-> s = "Identify"]
ListsSettable == [s \in DOMAIN ListsSize |-> FALSE]

NamesGet(s, in) == GetOne(NamesSize[s], in)
DetailsGet(s, in) == GetOne(DetailsSize[s], in)
ClockGet(s, n, in) ==
    IF s = "RelatedDevices" THEN GetList(ClockSize[s], n, in) ELSE GetOne(ClockSize[s], in)
DelayGet(s, in) == GetOne(DelaySize[s], in)
RatesGet(s, n, in) ==
    CASE s = "PreferredChannelLayout" -> GetWhole(n, in)
      [] s \in {"AvailableNominalSampleRates", "PreferredChannelsForStereo"}
           -> GetList(RatesSize[s], n, in)
      [] OTHER -> GetOne(RatesSize[s], in)
StateGet(s, in) == GetOne(StateSize[s], in)
ListsGet(s, n, in) == GetList(ListsSize[s], n, in)

DeviceSet(s, in) ==
    SetOne(IF s = "NominalSampleRate" THEN Double ELSE Word, in)

-----------------------------------------------------------------------------
(* A stream.                                                               *)
StreamHas(s) ==
    s \in {"IsActive", "Direction", "TerminalType", "StartingChannel", "Latency", "PhysicalFormat",
           "VirtualFormat", "AvailablePhysicalFormats", "AvailableVirtualFormats"}
StreamSize == [IsActive |-> Word, Direction |-> Word, TerminalType |-> Word,
               StartingChannel |-> Word, Latency |-> Word, PhysicalFormat |-> Format,
               VirtualFormat |-> Format, AvailablePhysicalFormats |-> RangedFormat,
               AvailableVirtualFormats |-> RangedFormat]
StreamSettable ==
    [s \in DOMAIN StreamSize |-> s \in {"IsActive", "PhysicalFormat", "VirtualFormat"}]
StreamGet(s, in) == GetOne(StreamSize[s], in)
StreamGetFormats(s, n, in) ==
    IF s \in {"PhysicalFormat", "VirtualFormat"} THEN GetOne(StreamSize[s], in)
    ELSE GetList(StreamSize[s], n, in)
StreamSet(s, in) == SetOne(IF s = "IsActive" THEN Word ELSE Format, in)

-----------------------------------------------------------------------------
(* The controls of a stream.  The two conversions of a volume control read *)
(* their argument from the buffer they write to.                           *)
VolumeHas(s) ==
    s \in {"ControlScope", "ControlElement", "ScalarValue", "DecibelValue", "DecibelRange",
           "ConvertScalarToDecibels", "ConvertDecibelsToScalar"}
VolumeSize == [ControlScope |-> Word, ControlElement |-> Word, ScalarValue |-> Word,
               DecibelValue |-> Word, DecibelRange |-> ValueRange,
               ConvertScalarToDecibels |-> Word, ConvertDecibelsToScalar |-> Word]
VolumeSettable == [s \in DOMAIN VolumeSize |-> s \in {"ScalarValue", "DecibelValue"}]
VolumeGet(s, in) == GetOne(VolumeSize[s], in)
VolumeConvert(s, in) == GetOne(VolumeSize[s], in)
VolumeSet(s, in) == SetOne(Word, in)

MuteHas(s) == s \in {"ControlScope", "ControlElement", "BooleanValue"}
MuteSize == [ControlScope |-> Word, ControlElement |-> Word, BooleanValue |-> Word]
MuteSettable == [s \in DOMAIN MuteSize |-> s = "BooleanValue"]
MuteGet(s, in) == GetOne(MuteSize[s], in)
MuteSet(s, in) == SetOne(Word, in)

-----------------------------------------------------------------------------
(* The handlers.  A class answers for its own selectors, Object for its    *)
(* own, then the custom properties.                                        *)
Lists == {"OwnedObjects", "CustomPropertyInfoList", "DeviceList", "RelatedDevices",
          "AvailableNominalSampleRates", "PreferredChannelsForStereo", "PreferredChannelLayout",
          "Streams", "ControlList", "AvailablePhysicalFormats", "AvailableVirtualFormats"}

OwnSizes(class) ==
    CASE class = "PlugIn" -> {PluginSize}
      [] class = "Device" -> {NamesSize, DetailsSize, ClockSize, DelaySize, RatesSize, StateSize,
                              ListsSize}
      [] class = "Stream" -> {StreamSize}
      [] class = "Volume" -> {VolumeSize}
      [] class = "Mute" -> {MuteSize}
Own(class, s) == \E table \in OwnSizes(class) : In(table, s)
Selectors(class) == UNION {DOMAIN table : table \in OwnSizes(class) \cup {ObjectSize}}

Has(class, custom, s, scope) ==
    IF Own(class, s)
    THEN CASE class = "PlugIn" -> PluginHas(s)
           [] class = "Device" -> \/ NamesHas(s) \/ DetailsHas(s) \/ ClockHas(s) \/ ListsHas(s)
                                  \/ DelayHas(s, scope) \/ RatesHas(s, scope) \/ StateHas(s, scope)
           [] class = "Stream" -> StreamHas(s)
           [] class = "Volume" -> VolumeHas(s)
           [] class = "Mute" -> MuteHas(s)
    ELSE ObjectHas(s) \/ HasCustom(custom, s)

SettableOf(class) ==
    CASE class = "PlugIn" -> {PluginSettable}
      [] class = "Device" -> {NamesSettable, DetailsSettable, ClockSettable, DelaySettable,
                              RatesSettable, StateSettable, ListsSettable}
      [] class = "Stream" -> {StreamSettable}
      [] class = "Volume" -> {VolumeSettable}
      [] class = "Mute" -> {MuteSettable}
Settable(class, custom, s) ==
    IF Own(class, s) \/ In(ObjectSettable, s)
    THEN [status |-> "ok",
          settable |-> \E t \in SettableOf(class) \cup {ObjectSettable} : In(t, s) /\ t[s]]
    ELSE SettableCustom(custom, s)

(* n: how many elements the list has now, bytes for a channel layout.      *)
Size(class, custom, s, n) ==
    IF Own(class, s) \/ In(ObjectSize, s)
    THEN LET table == CHOOSE t \in OwnSizes(class) \cup {ObjectSize} : In(t, s)
         IN  Ok(IF s \in Lists THEN table[s] * n ELSE table[s])
    ELSE SizeCustom(custom, s)

Get(class, custom, s, n, qualifier, in) ==
    CASE class = "PlugIn" /\ s = "DeviceList" -> PluginGetDevices(s, n, in)
      [] class = "PlugIn" /\ s = "TranslateUIDToDevice" -> PluginTranslate(s, qualifier, in)
      [] class = "PlugIn" /\ s \in {"Manufacturer", "ResourceBundle"} -> PluginGet(s, in)
      [] class = "Device" /\ In(NamesSize, s) -> NamesGet(s, in)
      [] class = "Device" /\ In(DetailsSize, s) -> DetailsGet(s, in)
      [] class = "Device" /\ In(ClockSize, s) -> ClockGet(s, n, in)
      [] class = "Device" /\ In(DelaySize, s) -> DelayGet(s, in)
      [] class = "Device" /\ In(RatesSize, s) -> RatesGet(s, n, in)
      [] class = "Device" /\ In(StateSize, s) -> StateGet(s, in)
      [] class = "Device" /\ In(ListsSize, s) -> ListsGet(s, n, in)
      [] class = "Stream" /\ s \in {"IsActive", "Direction", "TerminalType", "StartingChannel",
                                    "Latency"} -> StreamGet(s, in)
      [] class = "Stream" /\ s \in {"PhysicalFormat", "VirtualFormat",
                                    "AvailablePhysicalFormats", "AvailableVirtualFormats"}
           -> StreamGetFormats(s, n, in)
      [] class = "Volume" /\ s \in {"ConvertScalarToDecibels", "ConvertDecibelsToScalar"}
           -> VolumeConvert(s, in)
      [] class = "Volume" /\ In(VolumeSize, s) -> VolumeGet(s, in)
      [] class = "Mute" /\ In(MuteSize, s) -> MuteGet(s, in)
      [] s \in {"Class", "BaseClass", "Owner"} -> ObjectGet(s, in)
      [] s \in {"OwnedObjects", "CustomPropertyInfoList"} -> ObjectGetLists(s, n, in)
      [] OTHER -> GetCustom(custom, s, in)

(* What has no setter of its own falls through to the custom properties.   *)
Set(class, custom, s, in) ==
    CASE class = "Device" /\ s \in {"NominalSampleRate", "Identify"} -> DeviceSet(s, in)
      [] class = "Stream" /\ s \in {"IsActive", "PhysicalFormat", "VirtualFormat"}
           -> StreamSet(s, in)
      [] class = "Volume" /\ s \in {"ScalarValue", "DecibelValue"} -> VolumeSet(s, in)
      [] class = "Mute" /\ s = "BooleanValue" -> MuteSet(s, in)
      [] OTHER -> SetCustom(custom, s, in)
=============================================================================
