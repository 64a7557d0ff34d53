---------------------------- MODULE MCVbMicDriver ----------------------------
(* The Windows driver for TLC: its PnP life, and a capture stream of an      *)
(* adapter that has just been started and opened.  The stream moves only     *)
(* while the adapter rests in such a state, and the adapter only while no    *)
(* stream has been opened: the two share nothing but the feed's ring, which  *)
(* is there for as long as the adapter rests.                                *)
(*                                                                           *)
(* One byte takes two milliseconds and a millisecond two ticks, so that both *)
(* carries of the stream occur; its buffer holds two one-byte packets.       *)
EXTENDS AdapterLifecycle, WaveRtStream

Streaming(d) ==
    /\ loaded = "yes" /\ pnp = Idle
    /\ fdo[d] = "started" /\ \A other \in Devnode \ {d} : fdo[other] = "none"
    /\ adapter.open /\ adapter.connected /\ adapter.registered = Filter /\ adapter.cached = Filter
    /\ feed /\ symlink /\ ~leaked /\ ~forwarded
    /\ controls = 1 /\ starts = 1 /\ undisturbed = {d}
    /\ \A h \in Handle : handle[h] = 0

DriverInit == Init /\ StreamInit
DriverNext ==
    \/ StreamInit /\ UNCHANGED waveVars /\ Next
    \/ Streaming(CHOOSE d \in Devnode : TRUE) /\ UNCHANGED vars /\ StreamNext

DriverSpec == DriverInit /\ [][DriverNext]_<<vars, waveVars>>
=============================================================================
