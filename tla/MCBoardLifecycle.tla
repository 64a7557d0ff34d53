--------------------------- MODULE MCBoardLifecycle ---------------------------
(* Instances of BoardLifecycle for TLC. *)
EXTENDS BoardLifecycle

AllCalls == Call
RemoteCalls == {"target", "auto", "reset", "shutdown"}
TargetOnly == {"target"}
DisconnectOnly == {"disconnect"}
StopOnly == {"shutdown"}
=============================================================================
