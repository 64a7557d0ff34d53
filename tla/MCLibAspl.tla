------------------------------ MODULE MCLibAspl ------------------------------
(* libASPL for TLC: a device's configuration, with two threads of the driver *)
(* and HAL's, where a behaviour touches a few settings and objects that      *)
(* interact; and the container its values are kept in, with two readers and  *)
(* two setters.  To the device a value is read and set in one step, which is *)
(* what the container implements (ImplementsAtomicValue), so the two are     *)
(* explored one at a time: each moves while the other is as constructed.     *)
EXTENDS AsplDevice, DoubleBuffer, TLC

CONSTANTS t1, t2, device, in1, out1, vol1, mute1, r1, r2, s1, s2

Of(x, names) == {x} \X names
PlaysDef == {
    Of(device, {"nominalSampleRate", "availableSampleRates"}),
    Of(device, {"latency", "safetyOffset"}),
    Of(device, {"zeroTimeStampPeriod"}), Of(device, {"stereoChannels"}),
    Of(device, {"channelCount", "channelLayout"}), Of(device, {"channels"}),
    Of(in1, {"physicalFormat", "availablePhysicalFormats"}) \cup {in1},
    Of(in1, {"virtualFormat", "availableVirtualFormats"}),
    Of(in1, {"latency"}) \cup Of(device, {"latency"}) \cup {out1},
    {in1, out1}, {in1, vol1, mute1} }
\* The device's threads are alike, and while the container moves, which is all
\* the temporal properties look at, none of them is in a call.
Threads == Permutations(Thread)
StreamLatency == {Of(in1, {"latency"}) \cup Of(device, {"latency"})}

LibInit == DeviceInit /\ Init
LibNext ==
    \/ Init /\ DeviceNext /\ UNCHANGED vars
    \/ DeviceInit /\ play = {in1, out1} /\ Next /\ UNCHANGED deviceVars

LibSpec == LibInit /\ [][LibNext]_<<deviceVars, vars>> /\ LockFree
=============================================================================
