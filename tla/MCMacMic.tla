------------------------------ MODULE MCMacMic ------------------------------
(* Two clients and a ring of four slots: every index wraps, the ring fills *)
(* up and the backlog passes HighWater.                                    *)
EXTENDS MacMic, TLC

Clients == Permutations(Client)
MCBound == {[samples |-> 5, time |-> 0, starts |-> 1],
            [samples |-> 0, time |-> 3, starts |-> 3]}
MCOperation == {"readInput", "processInput", "mixOutput"}
MCRate == {1, 2}
MCTicks == [r \in MCRate |-> IF r = 1 THEN 2 ELSE 1]
=============================================================================
