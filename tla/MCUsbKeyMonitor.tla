--------------------------- MODULE MCUsbKeyMonitor ---------------------------
(* Instance of UsbKeyMonitor for TLC: one direction of the knob (0), the     *)
(* voice key (6) and one mode contact (9), which is held as a key is.  The   *)
(* Config mask has the Enter key (8) and the knob, which so is the key both  *)
(* interfaces report.                                                        *)
EXTENDS UsbKeyMonitor

MCSource == {"config", "consumer"}
MCConfig == "config"
MCConsumer == "consumer"
MCKey == {0, 6, 8, 9}
MCReportable == [s \in MCSource |-> IF s = "config" THEN {0, 8} ELSE {0, 6, 9}]
MCKnob == {0}
MCEndpoint == {9}
=============================================================================
