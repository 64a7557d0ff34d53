---------------------------- MODULE MCAudioFrames ----------------------------
(* Instances of AudioFrames for TLC. *)
EXTENDS AudioFrames

\* The encoder never restarts, goes back, or jumps ahead.
NoRestart == [restart |-> MaxPackets + 1, shift |-> 0]
OneRestart ==
    {NoRestart} \cup [restart : {2}, shift : {3, Modulus - 3}]
Never == {NoRestart}
=============================================================================
