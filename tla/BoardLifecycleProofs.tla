------------------------- MODULE BoardLifecycleProofs -------------------------
(***************************************************************************)
(* Theorems about BoardLifecycle, for every set of managers and devices,   *)
(* every combination of overlapping calls and every HID behaviour.         *)
(***************************************************************************)
EXTENDS BoardLifecycle, TLAPS

\* The type invariant is not inductive alone: an attempt is counted when it
\* starts, so a manager about to dial must have one left.
TypeInv ==
    /\ LifeTypeOK
    /\ \A m \in Manager : pc[m] = "connect" => tries[m] < Attempts

\* The first half of VendorGattClient::disconnect keeps the types.
LEMMA DropType ==
    ASSUME NEW m \in Manager, TypeInv,
           NEW from \in Pc, NEW next \in {"wait", "mark", "fail_end", "ble_end"},
           Drop(m, from, next)
    PROVE  TypeInv'
<1> USE DeviceAssumption, ManagerAssumption, TypeAssumption, AttemptsAssumption
        DEF TypeInv, LifeTypeOK, Goto, Drop, ClientDrop, Name, ConnType, Pc, BlePc, LinkedPc,
            UsbPc, EndPc, core, callers, session
<1>1. up' \in BOOLEAN /\ running' \in BOOLEAN
  BY Zenon
<1> QED
  BY <1>1

\* Every step of a manager keeps the type invariant.
LEMMA ManagerStepType ==
    ASSUME NEW m \in Manager, TypeInv, ManagerStep(m)
    PROVE  TypeInv'
<1> USE DeviceAssumption, ManagerAssumption, TypeAssumption, AttemptsAssumption
        DEF TypeInv, LifeTypeOK, Goto, LinkDown, Stopped, StillWanted,
            Current, Name, ConnType, Pc, BlePc, LinkedPc, UsbPc, EndPc,
            core, callers, session, client
<1>1. CASE StopManager(m)
  BY <1>1 DEF StopManager
<1>2. CASE DetectUsb(m)
  <2>1. bound' \in BOOLEAN
    BY <1>2, Zenon DEF DetectUsb
  <2> QED
    BY <1>2, <2>1 DEF DetectUsb
<1>3. CASE DetectBle(m)
  BY <1>3 DEF DetectBle
<1>4. CASE Gate(m)
  BY <1>4 DEF Gate
<1>5. CASE UsbOpened(m)
  BY <1>5 DEF UsbOpened
<1>6. CASE UsbOpenFailed(m)
  BY <1>6 DEF UsbOpenFailed
<1>7. CASE UsbProbed(m)
  BY <1>7 DEF UsbProbed
<1>8. CASE UsbGone(m)
  BY <1>8 DEF UsbGone
<1>9. CASE ScanFailed(m)
  BY <1>9 DEF ScanFailed
<1>10. CASE ScanFound(m)
  BY <1>10 DEF ScanFound
<1>11. CASE Recheck(m)
  BY <1>11 DEF Recheck
<1>12. CASE StoreTarget(m)
  BY <1>12 DEF StoreTarget
<1>13. CASE Dial(m)
  BY <1>13 DEF Dial
<1>14. CASE DialFailed(m)
  BY <1>14 DEF DialFailed
<1>15. CASE Dialed(m)
  <2>1. up' \in BOOLEAN /\ running' \in BOOLEAN /\ notify' \in BOOLEAN
    BY <1>15, Zenon DEF Dialed
  <2>2. fresh' \in [Manager -> BOOLEAN]
    BY <1>15, Zenon DEF Dialed
  <2> QED
    BY <1>15, <2>1, <2>2 DEF Dialed
<1>16. CASE Linked(m)
  <2>1. CASE Drop(m, "linked", "wait")
    BY <2>1, DropType
  <2>2. CASE ~Drop(m, "linked", "wait")
    BY <1>16, <2>2 DEF Linked
  <2> QED
    BY <2>1, <2>2
<1>17. CASE Listen(m)
  BY <1>17 DEF Listen
<1>18. CASE ListenFailed(m)
  BY <1>18, DropType DEF ListenFailed
<1>19. CASE AdmitOk(m)
  BY <1>19 DEF AdmitOk
<1>20. CASE AdmitRefused(m)
  BY <1>20, DropType DEF AdmitRefused
<1>21. CASE AdmitFailed(m)
  BY <1>21, DropType DEF AdmitFailed
<1>22. CASE Mark(m)
  BY <1>22 DEF Mark
<1>23. CASE Admitted(m)
  BY <1>23 DEF Admitted
<1>24. CASE AdmittedLate(m)
  BY <1>24, DropType DEF AdmittedLate
<1>25. CASE BleOver(m)
  BY <1>25, DropType DEF BleOver
<1>26. CASE Dropped(m)
  <2>1. up' \in BOOLEAN /\ notify' \in BOOLEAN
    BY <1>26, Zenon DEF Dropped, LinkDown, Joined
  <2> QED
    BY <1>26, <2>1 DEF Dropped
<1>27. CASE Commit(m)
  BY <1>27 DEF Commit
<1>28. CASE Send(m)
  BY <1>28 DEF Send
<1>29. CASE End(m)
  BY <1>29 DEF End
<1>30. CASE SendNone(m)
  BY <1>30 DEF SendNone
<1> QED
  BY <1>1, <1>2, <1>3, <1>4, <1>5, <1>6, <1>7, <1>8, <1>9, <1>10, <1>11, <1>12, <1>13, <1>14, <1>15, <1>16, <1>17, <1>18, <1>19, <1>20, <1>21, <1>22, <1>23, <1>24, <1>25, <1>26, <1>27, <1>28, <1>29, <1>30 DEF ManagerStep

\* Every step of a call, of the cable, of the radio and of the notification
\* task keeps it too.
LEMMA OtherStepType ==
    ASSUME TypeInv, CallInProgress \/ NewCall \/ Cable \/ LinkLost \/ NotifyEnds
    PROVE  TypeInv'
<1> USE DeviceAssumption, ManagerAssumption, TypeAssumption, AttemptsAssumption
        DEF TypeInv, LifeTypeOK, Goto, ClientDrop, LinkDown, NewIntent,
            Name, ConnType, Pc, BlePc, LinkedPc, UsbPc, EndPc, core, callers, session, client
<1>1. ASSUME NEW m \in Manager, StartSpawn(m)
      PROVE  TypeInv'
  BY <1>1 DEF StartSpawn
<1>2. ASSUME NEW d \in Name, SetTarget(d)
      PROVE  TypeInv'
  BY <1>2 DEF SetTarget
<1>3. CASE ShutdownCommit
  BY <1>3 DEF ShutdownCommit
<1>4. CASE DisconnectDrop
  <2>1. up' \in BOOLEAN /\ running' \in BOOLEAN /\ auto' \in BOOLEAN
    BY <1>4, Zenon DEF DisconnectDrop
  <2> QED
    BY <1>4, <2>1 DEF DisconnectDrop
<1>5. CASE DisconnectJoin
  <2>1. up' \in BOOLEAN /\ notify' \in BOOLEAN
    BY <1>5, Zenon DEF DisconnectJoin, LinkDown, Joined
  <2> QED
    BY <1>5, <2>1 DEF DisconnectJoin
<1>6. CASE DisconnectCommit
  BY <1>6 DEF DisconnectCommit
<1>7. CASE DisconnectSend
  BY <1>7 DEF DisconnectSend
<1>8. CASE StartGate
  BY <1>8 DEF StartGate
<1>9. CASE ShutdownFlag
  <2>1. started' \in BOOLEAN
    BY <1>9, Zenon DEF ShutdownFlag
  <2> QED
    BY <1>9, <2>1 DEF ShutdownFlag
<1>10. CASE DisconnectCall
  BY <1>10 DEF DisconnectCall
<1>11. CASE SetAuto
  BY <1>11 DEF SetAuto
<1>12. CASE ResetBinding
  <2>1. bound' \in BOOLEAN
    BY <1>12, Zenon DEF ResetBinding
  <2> QED
    BY <1>12, <2>1 DEF ResetBinding
<1>13. CASE Cable
  BY <1>13 DEF Cable
<1>14. CASE LinkLost
  <2>1. up' \in BOOLEAN
    BY <1>14, Zenon DEF LinkLost
  <2> QED
    BY <1>14, <2>1 DEF LinkLost
<1>15. CASE NotifyEnds
  <2>1. notify' \in BOOLEAN /\ running' \in BOOLEAN
    BY <1>15, Zenon DEF NotifyEnds
  <2> QED
    BY <1>15, <2>1 DEF NotifyEnds
<1> QED
  BY <1>1, <1>2, <1>3, <1>4, <1>5, <1>6, <1>7, <1>8, <1>9, <1>10, <1>11, <1>12, <1>13, <1>14, <1>15 DEF CallInProgress, NewCall

\* The types hold in every state, and a manager never dials more often than
\* connect_with_pacing allows.
LEMMA LifeTypeInvariant == LifeSpec => []TypeInv
<1>1. LifeInit => TypeInv
  <2> SUFFICES ASSUME LifeInit
               PROVE  TypeInv
    OBVIOUS
  <2>1. /\ started \in BOOLEAN /\ auto \in BOOLEAN /\ bound \in BOOLEAN
        /\ running \in BOOLEAN /\ up \in BOOLEAN /\ notify \in BOOLEAN /\ usb \in BOOLEAN
    BY Zenon DEF LifeInit
  <2>2. fresh \in [Manager -> BOOLEAN]
    BY Zenon DEF LifeInit
  <2> QED
    BY <2>1, <2>2, DeviceAssumption, ManagerAssumption, TypeAssumption, AttemptsAssumption
       DEF LifeInit, TypeInv, LifeTypeOK, Name, ConnType, Pc
<1>2. TypeInv /\ [LifeNext]_lifeVars => TypeInv'
  <2> SUFFICES ASSUME TypeInv, [LifeNext]_lifeVars
               PROVE  TypeInv'
    OBVIOUS
  <2>1. CASE \E m \in Manager : ManagerStep(m)
    BY <2>1, ManagerStepType
  <2>2. CASE CallInProgress \/ NewCall \/ Cable \/ LinkLost \/ NotifyEnds
    BY <2>2, OtherStepType
  <2>3. CASE UNCHANGED lifeVars
    BY <2>3 DEF lifeVars, TypeInv, LifeTypeOK, core, callers, session, client
  <2> QED
    BY <2>1, <2>2, <2>3 DEF LifeNext
<1> QED
  BY <1>1, <1>2, PTL DEF LifeSpec

\* Type correctness of the whole lifecycle: the fields of BoardDeviceCore,
\* the managers, the client and the calls in progress.
THEOREM LifeTypeCorrect == LifeSpec => []LifeTypeOK
<1>1. TypeInv => LifeTypeOK
  BY DEF TypeInv
<1> QED
  BY <1>1, LifeTypeInvariant, PTL

-----------------------------------------------------------------------------
(* The lifecycle implements the contract.                                  *)

\* A step of m that leaves its open session and its debt as they were leaves
\* the contract's state as it was.
LEMMA SameSessions ==
    ASSUME NEW m \in Manager, TypeInv,
           \A n \in Manager \ {m} : pc'[n] = pc[n] /\ after'[n] = after[n],
           OpenSession(m)' = OpenSession(m),
           pc[m] \notin {"send_usb", "send_ble", "send_none"},
           pc'[m] \notin {"send_usb", "send_ble", "send_none"}
    PROVE  OpenSessions' = OpenSessions /\ Announced' = Announced
<1>1. \A n \in Manager : OpenSession(n)' = OpenSession(n)
  BY DEF OpenSession
<1>2. OpenSessions' = OpenSessions
  BY <1>1 DEF OpenSessions
<1>3. Announced' = Announced
  BY DEF Announced
<1> QED
  BY <1>2, <1>3

\* Only the two callbacks and the two events of a manager are visible.
LEMMA HiddenSteps ==
    ASSUME NEW m \in Manager, TypeInv, ManagerStep(m),
           ~Commit(m), ~Send(m), ~End(m), ~SendNone(m)
    PROVE  UNCHANGED <<OpenSessions, conn, Announced, seen>>
<1> USE DEF TypeInv, LifeTypeOK, Goto, Drop, core, callers, session, client
<1> DEFINE Visible == {"send_usb", "send_ble", "send_none"}
           Hidden == /\ UNCHANGED <<conn, seen>>
                     /\ \A n \in Manager \ {m} : pc'[n] = pc[n] /\ after'[n] = after[n]
                     /\ OpenSession(m)' = OpenSession(m)
                     /\ pc[m] \notin Visible /\ pc'[m] \notin Visible
<1>0. SUFFICES Hidden
  BY SameSessions
<1>1. CASE StopManager(m)
  BY <1>1 DEF StopManager, OpenSession
<1>2. CASE DetectUsb(m)
  BY <1>2 DEF DetectUsb, OpenSession
<1>3. CASE DetectBle(m)
  BY <1>3 DEF DetectBle, OpenSession
<1>4. CASE Gate(m)
  BY <1>4 DEF Gate, OpenSession
<1>5. CASE UsbOpened(m)
  BY <1>5 DEF UsbOpened, OpenSession
<1>6. CASE UsbOpenFailed(m)
  BY <1>6 DEF UsbOpenFailed, OpenSession
<1>7. CASE UsbProbed(m)
  BY <1>7 DEF UsbProbed, OpenSession
<1>8. CASE UsbGone(m)
  BY <1>8 DEF UsbGone, OpenSession
<1>9. CASE ScanFailed(m)
  BY <1>9 DEF ScanFailed, OpenSession
<1>10. CASE ScanFound(m)
  BY <1>10 DEF ScanFound, OpenSession
<1>11. CASE Recheck(m)
  BY <1>11 DEF Recheck, OpenSession
<1>12. CASE StoreTarget(m)
  BY <1>12 DEF StoreTarget, OpenSession
<1>13. CASE Dial(m)
  BY <1>13 DEF Dial, OpenSession
<1>14. CASE DialFailed(m)
  BY <1>14 DEF DialFailed, OpenSession
<1>15. CASE Dialed(m)
  BY <1>15 DEF Dialed, OpenSession
<1>16. CASE Linked(m)
  BY <1>16 DEF Linked, OpenSession
<1>17. CASE Listen(m)
  BY <1>17 DEF Listen, OpenSession
<1>18. CASE ListenFailed(m)
  BY <1>18 DEF ListenFailed, OpenSession
<1>19. CASE AdmitOk(m)
  BY <1>19 DEF AdmitOk, OpenSession
<1>20. CASE AdmitRefused(m)
  BY <1>20 DEF AdmitRefused, OpenSession
<1>21. CASE AdmitFailed(m)
  BY <1>21 DEF AdmitFailed, OpenSession
<1>22. CASE Mark(m)
  BY <1>22 DEF Mark, OpenSession
<1>23. CASE Admitted(m)
  BY <1>23 DEF Admitted, OpenSession
<1>24. CASE AdmittedLate(m)
  BY <1>24 DEF AdmittedLate, OpenSession
<1>25. CASE BleOver(m)
  BY <1>25 DEF BleOver, OpenSession
<1>26. CASE Dropped(m)
  BY <1>26 DEF Dropped, OpenSession
<1> QED
  BY <1>1, <1>2, <1>3, <1>4, <1>5, <1>6, <1>7, <1>8, <1>9, <1>10, <1>11, <1>12, <1>13, <1>14, <1>15, <1>16, <1>17, <1>18, <1>19, <1>20, <1>21, <1>22, <1>23, <1>24, <1>25, <1>26 DEF ManagerStep

\* The first callback publishes a session.
LEMMA CommitPublishes ==
    ASSUME NEW m \in Manager, TypeInv, Commit(m)
    PROVE  \E ct \in ConnType : Contract!Publish(m, ct)
<1> USE DEF TypeInv, LifeTypeOK, Goto, session
<1>1. PICK ct \in ConnType :
          /\ conn' = ct
          /\ OpenSession(m) = None /\ OpenSession(m)' = ct
          /\ m \in Announced
          /\ Announced' = Announced \ {m}
          /\ seen' = seen
          /\ \A n \in Manager \ {m} : OpenSession(n)' = OpenSession(n)
  <2>1. CASE pc[m] = "commit_usb"
    BY <2>1 DEF Commit, OpenSession, Announced, ConnType
  <2>2. CASE pc[m] = "commit_ble"
    BY <2>2 DEF Commit, OpenSession, Announced, ConnType
  <2> QED
    BY <2>1, <2>2 DEF Commit
<1>2. OpenSessions[m] = None
  BY <1>1 DEF OpenSessions
<1>3. OpenSessions' = [OpenSessions EXCEPT ![m] = ct]
  BY <1>1 DEF OpenSessions
<1> QED
  BY <1>1, <1>2, <1>3 DEF Contract!Publish

\* The other callback closes it, or reports an attempt that never opened one.
LEMMA EndCloses ==
    ASSUME NEW m \in Manager, TypeInv, End(m)
    PROVE  Contract!Close(m)
<1> USE DEF TypeInv, LifeTypeOK, Goto, session
<1>1. /\ m \in Announced /\ Announced' = Announced \ {m}
      /\ conn' = None /\ seen' = seen
  BY DEF End, Announced, EndPc
<1>2. /\ OpenSession(m)' = None
      /\ \A n \in Manager \ {m} : OpenSession(n)' = OpenSession(n)
  BY DEF End, OpenSession, EndPc
<1>3. OpenSessions' = [OpenSessions EXCEPT ![m] = None]
  BY <1>2 DEF OpenSessions
<1> QED
  BY <1>1, <1>3 DEF Contract!Close

\* An event announces the manager's own session as it stands.
LEMMA SendAnnounces ==
    ASSUME NEW m \in Manager, TypeInv, Send(m) \/ SendNone(m)
    PROVE  Contract!Announce(m)
<1> USE DEF TypeInv, LifeTypeOK, Goto, core, session
<1>1. /\ m \notin Announced /\ Announced' = Announced \cup {m}
      /\ conn' = conn
  BY DEF Send, SendNone, Announced
<1>2. /\ \A n \in Manager : OpenSession(n)' = OpenSession(n)
      /\ seen' = OpenSession(m)
  BY DEF Send, SendNone, OpenSession
<1>3. OpenSessions' = OpenSessions /\ seen' = OpenSessions[m]
  BY <1>2 DEF OpenSessions
<1> QED
  BY <1>1, <1>3 DEF Contract!Announce

\* The calls withdraw the connection, or are invisible.
LEMMA CallSteps ==
    ASSUME TypeInv, CallInProgress \/ NewCall \/ Cable \/ LinkLost \/ NotifyEnds
    PROVE  \/ Contract!Withdraw \/ Contract!SayGone
           \/ UNCHANGED <<OpenSessions, conn, Announced, seen>>
<1> USE DEF TypeInv, LifeTypeOK, core, callers, session, client
<1>1. ASSUME UNCHANGED <<pc, after>>
      PROVE  UNCHANGED <<OpenSessions, Announced>>
  BY <1>1 DEF OpenSessions, OpenSession, Announced
<1>2. ASSUME NEW m \in Manager, StartSpawn(m)
      PROVE  UNCHANGED <<OpenSessions, conn, Announced, seen>>
  <2>1. /\ \A n \in Manager \ {m} : pc'[n] = pc[n] /\ after'[n] = after[n]
        /\ pc[m] = "off" /\ pc'[m] = "wait" /\ OpenSession(m)' = OpenSession(m)
        /\ UNCHANGED <<conn, seen>>
    BY <1>2 DEF StartSpawn, Goto, OpenSession
  <2> QED
    BY <2>1, SameSessions
<1>3. ASSUME NEW d \in Name, SetTarget(d)
      PROVE  UNCHANGED <<OpenSessions, conn, Announced, seen>>
  BY <1>3, <1>1 DEF SetTarget
<1>4. CASE ShutdownCommit
  BY <1>4, <1>1 DEF ShutdownCommit, Contract!Withdraw
<1>5. CASE DisconnectCommit
  BY <1>5, <1>1 DEF DisconnectCommit, Contract!Withdraw
<1>6. CASE DisconnectSend
  BY <1>6, <1>1 DEF DisconnectSend, Contract!SayGone
<1>7. CASE StartGate
  BY <1>7, <1>1 DEF StartGate
<1>8. CASE ShutdownFlag
  BY <1>8, <1>1 DEF ShutdownFlag
<1>9. CASE DisconnectCall
  BY <1>9, <1>1 DEF DisconnectCall
<1>10. CASE SetAuto
  BY <1>10, <1>1 DEF SetAuto
<1>11. CASE ResetBinding
  BY <1>11, <1>1 DEF ResetBinding
<1>12. CASE Cable
  BY <1>12, <1>1 DEF Cable
<1>13. CASE LinkLost
  BY <1>13, <1>1 DEF LinkLost
<1>14. CASE NotifyEnds
  BY <1>14, <1>1 DEF NotifyEnds
<1>15. CASE DisconnectDrop
  BY <1>15, <1>1 DEF DisconnectDrop
<1>16. CASE DisconnectJoin
  BY <1>16, <1>1 DEF DisconnectJoin
<1> QED
  BY <1>2, <1>3, <1>4, <1>5, <1>6, <1>7, <1>8, <1>9, <1>10, <1>11, <1>12, <1>13, <1>14, <1>15, <1>16 DEF CallInProgress, NewCall

\* The hotplug loop and the calls around it implement the contract of
\* connection(): sessions open and close one at a time per manager, and no
\* other type than that of a session is ever committed.
THEOREM LifecycleImplementsContract == LifeSpec => ImplementsContract
<1>1. LifeInit => Contract!ContractInit
  BY DEF LifeInit, Contract!ContractInit, OpenSessions, OpenSession, Announced
<1>2. TypeInv /\ [LifeNext]_lifeVars => [Contract!ContractNext]_Contract!contractVars
  <2> SUFFICES ASSUME TypeInv, [LifeNext]_lifeVars
               PROVE  [Contract!ContractNext]_Contract!contractVars
    OBVIOUS
  <2> USE DEF Contract!ContractNext, Contract!contractVars
  <2>1. ASSUME NEW m \in Manager, ManagerStep(m)
        PROVE  [Contract!ContractNext]_Contract!contractVars
    <3>1. CASE Commit(m)
      BY <2>1, <3>1, CommitPublishes DEF ConnType
    <3>2. CASE End(m)
      BY <2>1, <3>2, EndCloses
    <3>3. CASE Send(m) \/ SendNone(m)
      BY <2>1, <3>3, SendAnnounces
    <3>4. CASE ~(Commit(m) \/ End(m) \/ Send(m) \/ SendNone(m))
      BY <2>1, <3>4, HiddenSteps
    <3> QED
      BY <3>1, <3>2, <3>3, <3>4
  <2>2. CASE CallInProgress \/ NewCall \/ Cable \/ LinkLost \/ NotifyEnds
    BY <2>2, CallSteps
  <2>3. CASE UNCHANGED lifeVars
    BY <2>3 DEF lifeVars, core, session, OpenSessions, OpenSession, Announced
  <2> QED
    BY <2>1, <2>2, <2>3 DEF LifeNext
<1>3. LifeSpec => []TypeInv
  BY LifeTypeInvariant
<1> QED
  BY <1>1, <1>2, <1>3, PTL DEF LifeSpec, ImplementsContract, Contract!ContractSpec

\* connection() names only a transport some manager has an open session on,
\* for any number of managers and any overlap of calls.
THEOREM ConnectedAlwaysBacked == LifeSpec => []ConnectedIsBacked
<1>1. LifeInit => ConnectedIsBacked
  BY DEF LifeInit, ConnectedIsBacked
<1>2. ASSUME TypeInv, ConnectedIsBacked, [LifeNext]_lifeVars
      PROVE  ConnectedIsBacked'
  <2>1. ASSUME UNCHANGED <<OpenSessions, conn, Announced, seen>>
        PROVE  ConnectedIsBacked'
    <3>1. \A n \in Manager : OpenSession(n)' = OpenSession(n)
      BY <2>1 DEF OpenSessions
    <3> QED
      BY <1>2, <2>1, <3>1 DEF ConnectedIsBacked
  <2>2. ASSUME NEW m \in Manager, ManagerStep(m)
        PROVE  ConnectedIsBacked'
    <3>1. CASE Commit(m)
      <4>1. OpenSession(m)' = conn'
        BY <1>2, <3>1 DEF Commit, Goto, OpenSession, TypeInv, LifeTypeOK
      <4> QED
        BY <4>1 DEF ConnectedIsBacked
    <3>2. CASE End(m)
      BY <3>2 DEF End, ConnectedIsBacked
    <3>3. CASE Send(m) \/ SendNone(m)
      <4>1. \A n \in Manager : OpenSession(n)' = OpenSession(n)
        BY <1>2, <3>3 DEF Send, SendNone, Goto, OpenSession, TypeInv, LifeTypeOK, session
      <4>2. conn' = conn
        BY <3>3 DEF Send, SendNone, core
      <4> QED
        BY <1>2, <4>1, <4>2 DEF ConnectedIsBacked
    <3>4. CASE ~(Commit(m) \/ End(m) \/ Send(m) \/ SendNone(m))
      BY <1>2, <2>1, <2>2, <3>4, HiddenSteps
    <3> QED
      BY <3>1, <3>2, <3>3, <3>4
  <2>3. CASE CallInProgress \/ NewCall \/ Cable \/ LinkLost \/ NotifyEnds
    <3>1. CASE Contract!Withdraw
      BY <3>1 DEF Contract!Withdraw, ConnectedIsBacked
    <3>2. CASE Contract!SayGone
      BY <1>2, <3>2 DEF Contract!SayGone, ConnectedIsBacked, OpenSessions
    <3> QED
      BY <1>2, <2>1, <2>3, <3>1, <3>2, CallSteps
  <2>4. CASE UNCHANGED lifeVars
    BY <2>1, <2>4 DEF lifeVars, core, session, OpenSessions, OpenSession, Announced
  <2> QED
    BY <1>2, <2>2, <2>3, <2>4 DEF LifeNext
<1>3. LifeSpec => []TypeInv
  BY LifeTypeInvariant
<1> QED
  BY <1>1, <1>2, <1>3, PTL DEF LifeSpec

\* While the BLE client runs, a manager is watching the link, for any number
\* of managers: no way out of a BLE session leaves a link behind.
THEOREM LinkAlwaysWatched == LifeSpec => []LinkIsWatched
<1>1. LifeInit => LinkIsWatched
  BY DEF LifeInit, LinkIsWatched
<1>2. ASSUME TypeInv, LinkIsWatched, [LifeNext]_lifeVars
      PROVE  LinkIsWatched'
  <2> SUFFICES ASSUME running'
               PROVE  \E n \in Manager : pc'[n] \in LinkedPc
    BY DEF LinkIsWatched
  <2> USE DEF LinkIsWatched, LinkedPc
  <2>1. ASSUME NEW m \in Manager, ManagerStep(m)
        PROVE  \E n \in Manager : pc'[n] \in LinkedPc
    <3> USE DEF TypeInv, LifeTypeOK, Goto, core, callers, session, client
    <3>1. ~ClientDrop
      BY DEF ClientDrop
    <3>2. CASE Dialed(m)
      BY <1>2, <3>2 DEF Dialed
    <3>3. CASE ~Dialed(m)
      <4>1. running' = running
        BY <2>1, <3>1, <3>3 DEF ManagerStep, Drop, StopManager, DetectUsb, DetectBle, Gate,
          UsbOpened, UsbOpenFailed, UsbProbed, UsbGone, ScanFailed, ScanFound, Recheck,
          StoreTarget, Dial, DialFailed, Linked, Listen, ListenFailed, AdmitOk, AdmitRefused,
          AdmitFailed, Mark, Admitted, AdmittedLate, BleOver, Dropped, Commit, Send, End, SendNone
      <4>2. PICK n \in Manager : pc[n] \in LinkedPc
        BY <1>2, <4>1
      <4>3. /\ \A k \in Manager \ {m} : pc'[k] = pc[k]
            /\ pc[m] \in LinkedPc => pc'[m] \in LinkedPc
        BY <1>2, <2>1, <3>1, <3>3 DEF ManagerStep, Drop, StopManager, DetectUsb, DetectBle, Gate,
          UsbOpened, UsbOpenFailed, UsbProbed, UsbGone, ScanFailed, ScanFound, Recheck,
          StoreTarget, Dial, DialFailed, Linked, Listen, ListenFailed, AdmitOk, AdmitRefused,
          AdmitFailed, Mark, Admitted, AdmittedLate, BleOver, Dropped, Commit, Send, End, SendNone,
          EndPc
      <4> QED
        BY <4>2, <4>3
    <3> QED
      BY <3>2, <3>3
  <2>2. CASE CallInProgress \/ NewCall \/ Cable \/ LinkLost \/ NotifyEnds
    <3> USE DEF TypeInv, LifeTypeOK, Goto, core, callers, session, client
    <3>1. ~DisconnectDrop /\ ~NotifyEnds
      BY DEF DisconnectDrop, ClientDrop, NotifyEnds
    <3>2. /\ running' = running
          /\ \A n \in Manager : pc[n] # "off" => pc'[n] = pc[n]
      BY <1>2, <2>2, <3>1 DEF CallInProgress, NewCall, StartSpawn, ShutdownCommit, DisconnectJoin,
        DisconnectCommit, DisconnectSend, StartGate, ShutdownFlag, DisconnectCall, SetTarget,
        SetAuto, ResetBinding, Cable, LinkLost
    <3> QED
      BY <1>2, <3>2
  <2>3. CASE UNCHANGED lifeVars
    BY <1>2, <2>3 DEF lifeVars, client
  <2> QED
    BY <1>2, <2>1, <2>2, <2>3 DEF LifeNext
<1>3. LifeSpec => []TypeInv
  BY LifeTypeInvariant
<1> QED
  BY <1>1, <1>2, <1>3, PTL DEF LifeSpec

\* A type is only last announced by a manager whose session is still open or
\* that owes the event of its end.
SeenIsOwed ==
    seen # None => \E m \in Manager : OpenSession(m) # None \/ pc[m] = "send_none"

\* While the last event names a transport, a session is open or its end is
\* still to be announced.
LEMMA SeenOwedInvariant == LifeSpec => []SeenIsOwed
<1>1. LifeInit => SeenIsOwed
  BY DEF LifeInit, SeenIsOwed
<1>2. ASSUME TypeInv, SeenIsOwed, [LifeNext]_lifeVars
      PROVE  SeenIsOwed'
  <2>1. ASSUME UNCHANGED <<OpenSessions, conn, Announced, seen>>,
               \A n \in Manager : pc[n] = "send_none" => pc'[n] = "send_none"
        PROVE  SeenIsOwed'
    <3>1. \A n \in Manager : OpenSession(n)' = OpenSession(n)
      BY <2>1 DEF OpenSessions
    <3> QED
      BY <1>2, <2>1, <3>1 DEF SeenIsOwed
  <2>2. ASSUME NEW m \in Manager, ManagerStep(m)
        PROVE  SeenIsOwed'
    <3> USE DEF TypeInv, LifeTypeOK, Goto
    <3>1. CASE Commit(m)
      BY <1>2, <3>1 DEF Commit, session, SeenIsOwed, OpenSession
    <3>2. CASE End(m)
      BY <1>2, <3>2 DEF End, session, SeenIsOwed, OpenSession, EndPc
    <3>3. CASE Send(m)
      BY <1>2, <3>3, TypeAssumption DEF Send, session, SeenIsOwed, OpenSession
    <3>4. CASE SendNone(m)
      BY <3>4 DEF SendNone, SeenIsOwed
    <3>5. CASE ~(Commit(m) \/ End(m) \/ Send(m) \/ SendNone(m))
      <4>1. UNCHANGED <<OpenSessions, conn, Announced, seen>>
        BY <1>2, <2>2, <3>5, HiddenSteps
      <4>2. \A n \in Manager : pc[n] = "send_none" => pc'[n] = "send_none"
        BY <1>2, <2>2, <3>5 DEF ManagerStep, Drop, StopManager, DetectUsb, DetectBle, Gate,
          UsbOpened, UsbOpenFailed, UsbProbed, UsbGone, ScanFailed, ScanFound, Recheck,
          StoreTarget, Dial, DialFailed, Dialed, Linked, Listen, ListenFailed, AdmitOk,
          AdmitRefused, AdmitFailed, Mark, Admitted, AdmittedLate, BleOver, Dropped
      <4> QED
        BY <2>1, <4>1, <4>2
    <3> QED
      BY <3>1, <3>2, <3>3, <3>4, <3>5
  <2>3. CASE CallInProgress \/ NewCall \/ Cable \/ LinkLost \/ NotifyEnds
    <3>1. \A n \in Manager : pc[n] = "send_none" => pc'[n] = "send_none"
      BY <1>2, <2>3 DEF CallInProgress, NewCall, StartSpawn, ShutdownCommit, DisconnectJoin,
        DisconnectDrop, DisconnectCommit, DisconnectSend, StartGate, ShutdownFlag,
        DisconnectCall, SetTarget, SetAuto, ResetBinding, Cable, LinkLost, NotifyEnds,
        Goto, TypeInv, LifeTypeOK
    <3>2. CASE Contract!Withdraw
      <4>1. \A n \in Manager : OpenSession(n)' = OpenSession(n)
        BY <3>2 DEF Contract!Withdraw, OpenSessions
      <4> QED
        BY <1>2, <3>1, <3>2, <4>1 DEF Contract!Withdraw, SeenIsOwed
    <3>3. CASE Contract!SayGone
      BY <3>3 DEF Contract!SayGone, SeenIsOwed
    <3> QED
      BY <1>2, <2>1, <2>3, <3>1, <3>2, <3>3, CallSteps
  <2>4. CASE UNCHANGED lifeVars
    BY <2>1, <2>4 DEF lifeVars, core, session, OpenSessions, OpenSession, Announced
  <2> QED
    BY <1>2, <2>2, <2>3, <2>4 DEF LifeNext
<1>3. LifeSpec => []TypeInv
  BY LifeTypeInvariant
<1> QED
  BY <1>1, <1>2, <1>3, PTL DEF LifeSpec

\* With every manager at rest, both the connection type and the last event
\* say disconnected.
THEOREM QuietAlwaysDisconnected == LifeSpec => []QuietMeansDisconnected
<1>1. ConnectedIsBacked /\ SeenIsOwed => QuietMeansDisconnected
  BY DEF ConnectedIsBacked, SeenIsOwed, QuietMeansDisconnected, AtRest, OpenSession
<1> QED
  BY <1>1, ConnectedAlwaysBacked, SeenOwedInvariant, PTL

\* An application that starts its device once never sees one transport turn
\* into the other without a disconnection between.
THEOREM OneManagerNeverSwitches ==
    ASSUME \A m, n \in Manager : m = n
    PROVE  LifeSpec => NoDirectSwitch
<1>1. ASSUME TypeInv, ConnectedIsBacked, [LifeNext]_lifeVars, conn # None, conn' # None
      PROVE  conn' = conn
  <2>1. ASSUME NEW m \in Manager, ManagerStep(m)
        PROVE  conn' = conn
    <3>1. ~Commit(m)
      <4>1. ASSUME Commit(m)
            PROVE  OpenSession(m) = None
        BY <4>1 DEF Commit, Goto, OpenSession
      <4>2. \E n \in Manager : OpenSession(n) # None
        BY <1>1 DEF ConnectedIsBacked
      <4> QED
        BY <4>1, <4>2
    <3>2. ~End(m)
      BY <1>1 DEF End
    <3>3. CASE Send(m) \/ SendNone(m)
      BY <3>3 DEF Send, SendNone, core
    <3>4. CASE ~(Send(m) \/ SendNone(m))
      BY <1>1, <2>1, <3>1, <3>2, <3>4, HiddenSteps
    <3> QED
      BY <3>3, <3>4
  <2>2. CASE CallInProgress \/ NewCall \/ Cable \/ LinkLost \/ NotifyEnds
    BY <1>1, <2>2, CallSteps DEF Contract!Withdraw, Contract!SayGone
  <2>3. CASE UNCHANGED lifeVars
    BY <2>3 DEF lifeVars, core
  <2> QED
    BY <1>1, <2>1, <2>2, <2>3 DEF LifeNext
<1>2. LifeSpec => []TypeInv
  BY LifeTypeInvariant
<1>3. LifeSpec => []ConnectedIsBacked
  BY ConnectedAlwaysBacked
<1> QED
  BY <1>1, <1>2, <1>3, PTL DEF LifeSpec, NoDirectSwitch

\* A host that is refused leaves the board alone: the one manager of an
\* application that starts its device once is in no BLE session while another
\* host's binding is remembered (hotplug.rs, wait_for_device and
\* mark_bound_to_other_host).  With two managers the other one may be in one.
THEOREM OneManagerLeavesBoard ==
    ASSUME \A m, n \in Manager : m = n
    PROVE  LifeSpec => []BoundStopsBle
<1>1. LifeInit => BoundStopsBle
  BY DEF LifeInit, BoundStopsBle
<1>2. ASSUME TypeInv, BoundStopsBle, [LifeNext]_lifeVars
      PROVE  BoundStopsBle'
  <2> SUFFICES ASSUME bound', NEW n \in Manager
               PROVE  pc'[n] \notin BlePc
    BY DEF BoundStopsBle
  <2>1. ASSUME NEW m \in Manager, ManagerStep(m)
        PROVE  pc'[n] \notin BlePc
    <3> USE DEF TypeInv, LifeTypeOK, Goto, core, callers, session, client
    <3>1. m = n
      OBVIOUS
    <3>2. CASE Mark(m)
      BY <1>2, <3>1, <3>2 DEF Mark, BlePc, LinkedPc
    <3>3. CASE DetectUsb(m)
      BY <3>3 DEF DetectUsb
    <3>4. CASE ~Mark(m) /\ ~DetectUsb(m)
      <4>1. bound' = bound
        BY <2>1, <3>4 DEF ManagerStep, Drop, StopManager, DetectBle, Gate,
          UsbOpened, UsbOpenFailed, UsbProbed, UsbGone, ScanFailed, ScanFound, Recheck, StoreTarget,
          Dial, DialFailed, Dialed, Linked, Listen, ListenFailed, AdmitOk, AdmitRefused,
          AdmitFailed, Admitted, AdmittedLate, BleOver, Dropped, Commit, Send, End, SendNone
      <4>2. bound /\ pc[n] \notin BlePc
        BY <1>2, <4>1 DEF BoundStopsBle
      <4> QED
        BY <1>2, <2>1, <3>1, <3>4, <4>2 DEF ManagerStep, Drop, StopManager, DetectBle, Gate,
          UsbOpened, UsbOpenFailed, UsbProbed, UsbGone, ScanFailed, ScanFound, Recheck, StoreTarget,
          Dial, DialFailed, Dialed, Linked, Listen, ListenFailed, AdmitOk, AdmitRefused,
          AdmitFailed, Admitted, AdmittedLate, BleOver, Dropped, Commit, Send, End, SendNone,
          BlePc, LinkedPc, EndPc
    <3> QED
      BY <3>2, <3>3, <3>4
  <2>2. CASE CallInProgress \/ NewCall \/ Cable \/ LinkLost \/ NotifyEnds
    <3> USE DEF TypeInv, LifeTypeOK, Goto, core, callers, session, client
    <3>1. bound /\ (pc'[n] = pc[n] \/ pc'[n] = "wait")
      BY <1>2, <2>2 DEF CallInProgress, NewCall, StartSpawn, ShutdownCommit, DisconnectJoin,
        DisconnectDrop, DisconnectCommit, DisconnectSend, StartGate, ShutdownFlag, DisconnectCall,
        SetTarget, SetAuto, ResetBinding, Cable, LinkLost, NotifyEnds
    <3> QED
      BY <1>2, <3>1 DEF BoundStopsBle, BlePc, LinkedPc
  <2>3. CASE UNCHANGED lifeVars
    BY <1>2, <2>3 DEF lifeVars, core, BoundStopsBle
  <2> QED
    BY <1>2, <2>1, <2>2, <2>3 DEF LifeNext
<1>3. LifeSpec => []TypeInv
  BY LifeTypeInvariant
<1> QED
  BY <1>1, <1>2, <1>3, PTL DEF LifeSpec
=============================================================================
