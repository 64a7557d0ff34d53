-------------------------- MODULE ConnectionContract --------------------------
(***************************************************************************)
(* What the connection lifecycle promises, whatever the transports do:     *)
(* sessions are opened and closed one at a time per manager, the connection*)
(* type is only ever that of an open session, and every Connection event   *)
(* follows the commit it reports.                                          *)
(***************************************************************************)
CONSTANTS Manager, ConnType, None

VARIABLES
    open,    \* open[m]: the connection type of m's published session
    conn,    \* BoardDevice::connection()
    told,    \* the managers whose last commit has been announced
    seen     \* the connection type in the last Connection event

contractVars == <<open, conn, told, seen>>

ContractInit ==
    /\ open = [m \in Manager |-> None]
    /\ conn = None
    /\ told = Manager
    /\ seen = None

\* A session is published; its event follows.
Publish(m, ct) ==
    /\ open[m] = None /\ m \in told
    /\ open' = [open EXCEPT ![m] = ct]
    /\ conn' = ct
    /\ told' = told \ {m}
    /\ seen' = seen

\* A session, or an attempt at one, ends.  Only then is the state None again
\* by the manager's own doing.
Close(m) ==
    /\ m \in told
    /\ open' = [open EXCEPT ![m] = None]
    /\ conn' = None
    /\ told' = told \ {m}
    /\ seen' = seen

Announce(m) ==
    /\ m \notin told
    /\ told' = told \cup {m}
    /\ seen' = open[m]
    /\ UNCHANGED <<open, conn>>

\* disconnect() and shutdown() withdraw the connection at any time, and
\* disconnect() says so.
Withdraw == conn' = None /\ UNCHANGED <<open, told, seen>>
SayGone == seen' = None /\ UNCHANGED <<open, conn, told>>

ContractNext ==
    \/ \E m \in Manager : (\E ct \in ConnType : Publish(m, ct)) \/ Close(m) \/ Announce(m)
    \/ Withdraw \/ SayGone

ContractSpec == ContractInit /\ [][ContractNext]_contractVars
=============================================================================
