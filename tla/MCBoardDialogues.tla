--------------------------- MODULE MCBoardDialogues ---------------------------
(* The two dialogues of the host with a board for TLC: admission over the    *)
(* air, and, once a board of another host has refused this one and been left *)
(* alone, an upgrade and a recovery over its cable.  They share no state.    *)
EXTENDS Handshake, Dfu

CONSTANTS u1, r1

TurnedAway == blocked /\ ~link /\ toHost = <<>> /\ ~retried /\ got = "refuse" /\ faults = 0

DialogueInit == HandshakeInit /\ DfuInit
DialogueNext ==
    \/ HandshakeNext /\ UNCHANGED dfuVars
    \/ TurnedAway /\ DfuNext /\ UNCHANGED handshakeVars

DialogueSpec ==
    /\ DialogueInit /\ [][DialogueNext]_<<handshakeVars, dfuVars>>
    /\ HandshakeFairness /\ DfuFairness
=============================================================================
