------------------------------- MODULE MacMic -------------------------------
(***************************************************************************)
(* The macOS microphone as the audio server uses it: the I/O side of a     *)
(* libASPL device (Device.cpp, Bridge.g.cpp) over the sample ring of       *)
(* driver/Driver.cpp.  HAL adds and removes clients, starts and stops      *)
(* their I/O, asks for the device's clock and reads.  I/O calls hold the   *)
(* recursive I/O mutex from beginning to end; a read keeps it while it     *)
(* copies out of the ring, every other call is one step.  Clients come and *)
(* go under the write mutex, so also in the middle of a read.              *)
(***************************************************************************)
EXTENDS SampleRing, FiniteSets

CONSTANTS
    Dev, Gone,      \* the device's object ID, and one that is not registered
    Client, Nobody,
    Operation,      \* what DoIOOperation may be asked for
    Rate,           \* nominal sample rates
    TicksPerPeriod  \* host ticks of a zero-timestamp period, by rate

ASSUME ClockAssumption == 0 \notin Rate /\ TicksPerPeriod \in [Rate -> Nat \ {0}]

VARIABLES
    clientByID,
    startCount,     \* startCount_
    handlerOn,      \* the control handler between OnStartIO and OnStopIO
    ioMutex,        \* the client whose read holds it, or Nobody
    rate, lastSampleRate, ticks,     \* nominal rate; lastSampleRate_, hostTicksPerPeriod
    anchor, periodCounter,           \* anchorHostTime_, periodCounter_
    zero,           \* currentPeriodTimestamp_ and currentPeriodHostTime_
    now,            \* mach_absolute_time()
    status,         \* the answer to the last call
    started,        \* HAL: clients whose StartIO was answered with no error
    stamped,        \* HAL: it has asked for the clock since I/O began
    starts          \* bounded: StartIO calls

clockVars == <<rate, lastSampleRate, ticks, anchor, periodCounter, zero, stamped>>
ioVars == <<clientByID, startCount, handlerOn, clockVars, started, starts>>
vars == <<ringVars, ioVars, ioMutex, now, status>>

Init ==
    /\ RingInit
    /\ clientByID = {} /\ startCount = 0 /\ handlerOn = FALSE /\ ioMutex = Nobody
    /\ rate \in Rate /\ lastSampleRate = 0 /\ ticks = 0
    /\ anchor = 0 /\ periodCounter = 0
    /\ zero = [sample |-> 0, host |-> 0]
    /\ now = 0 /\ status = "ok"
    /\ started = {} /\ stamped = FALSE /\ starts = 0

-----------------------------------------------------------------------------
(* Every call goes through the bridge, which looks the object up.          *)
Reject(s) == status' = s /\ UNCHANGED <<ringVars, ioVars, ioMutex, now>>
Found(id) == id = Dev
NotFound(id) == ~Found(id) /\ Reject("badObject")

AddClient(c) ==
    /\ c \notin clientByID
    /\ \/ Reject("unspecified")        \* OnAddClient made no client
       \/ /\ clientByID' = clientByID \cup {c}
          /\ status' = "ok"
          /\ UNCHANGED <<ringVars, startCount, handlerOn, clockVars, started, starts, ioMutex, now>>

BridgeAddClient(id, c) == NotFound(id) \/ (Found(id) /\ AddClient(c))

\* HAL takes a client away when his I/O has stopped.
RemoveClient(c) ==
    \/ c \notin clientByID /\ Reject("illegal")
    \/ /\ c \in clientByID \ started
       /\ clientByID' = clientByID \ {c}
       /\ status' = "ok"
       /\ UNCHANGED <<ringVars, startCount, handlerOn, clockVars, started, starts, ioMutex, now>>

BridgeRemoveClient(id, c) == NotFound(id) \/ (Found(id) /\ RemoveClient(c))

-----------------------------------------------------------------------------
(* Start and stop.  Only the first start asks the handler, which may fail, *)
(* and sets the clock's anchor; the device counts, it does not look at the *)
(* client.                                                                 *)
\* Mutant: the clock is set anew by every start.
StartIOAnchors(ok) ==
    /\ handlerOn' = IF startCount = 0 THEN ok ELSE handlerOn
    /\ anchor' = IF ok THEN now ELSE anchor
    /\ periodCounter' = IF ok THEN 0 ELSE periodCounter

StartIOImpl(ok) ==
    IF startCount = 0
    THEN /\ handlerOn' = ok
         /\ anchor' = IF ok THEN now ELSE anchor
         /\ periodCounter' = IF ok THEN 0 ELSE periodCounter
    ELSE UNCHANGED <<handlerOn, anchor, periodCounter>>

StartIO(c, ok) ==
    /\ startCount > 0 => ok
    /\ StartIOImpl(ok)
    /\ startCount' = startCount + (IF ok THEN 1 ELSE 0)
    /\ status' = IF ok THEN "ok" ELSE "failed"
    /\ UNCHANGED <<clientByID, rate, lastSampleRate, ticks, zero>>

IOLocked == ioMutex = Nobody

BridgeStartIO(id, c) ==
    \/ NotFound(id)
    \/ /\ Found(id) /\ IOLocked
       /\ c \in clientByID \ started /\ starts < bound.starts
       /\ \E ok \in BOOLEAN :
             /\ StartIO(c, ok)
             /\ started' = IF ok THEN started \cup {c} ELSE started
             /\ stamped' = (stamped /\ started # {})
       /\ starts' = starts + 1
       /\ UNCHANGED <<ringVars, ioMutex, now>>

StopIOImpl == handlerOn' = (handlerOn /\ startCount # 1)

StopIO(c) ==
    /\ StopIOImpl
    /\ startCount' = startCount - 1
    /\ status' = "ok"
    /\ UNCHANGED <<clientByID, clockVars>>

BridgeStopIO(id, c) ==
    \/ NotFound(id)
    \/ /\ Found(id) /\ IOLocked /\ c \in started
       /\ StopIO(c)
       /\ started' = started \ {c}
       /\ UNCHANGED <<ringVars, starts, ioMutex, now>>

-----------------------------------------------------------------------------
(* The clock.  A change of the nominal rate is noticed here; the counter   *)
(* moves by at most one period a call.                                     *)
HostTicks == IF rate # lastSampleRate THEN TicksPerPeriod[rate] ELSE ticks
PeriodAt(counter) == anchor + counter * HostTicks
NextPeriod == IF now >= PeriodAt(periodCounter + 1) THEN periodCounter + 1 ELSE periodCounter

GetZeroTimeStampImpl ==
    /\ lastSampleRate' = rate /\ ticks' = HostTicks
    /\ periodCounter' = NextPeriod
    /\ zero' = [sample |-> NextPeriod, host |-> PeriodAt(NextPeriod)]

GetZeroTimeStamp ==
    /\ GetZeroTimeStampImpl
    /\ status' = "ok"
    /\ UNCHANGED <<clientByID, startCount, handlerOn, rate, anchor>>

BridgeGetZeroTimeStamp(id, c) ==
    \/ NotFound(id)
    \/ /\ Found(id) /\ IOLocked /\ c \in started
       /\ GetZeroTimeStamp
       /\ stamped' = TRUE
       /\ UNCHANGED <<ringVars, started, starts, ioMutex, now>>

(* The I/O operations.  The device has one stream, an input: only what     *)
(* concerns input is answered with "will do", and HAL asks for nothing it  *)
(* was not promised.  Begin and End do nothing.                            *)
WillDo(op) == op \in {"readInput", "processInput"}
WillDoIOOperation(op) == Reject(IF WillDo(op) THEN "willDo" ELSE "ok")

BridgeWillDoIOOperation(id, c, op) ==
    NotFound(id) \/ (Found(id) /\ IOLocked /\ c \in started /\ WillDoIOOperation(op))

BeginIOOperation == Reject("ok")
BridgeBeginIOOperation(id, c) ==
    NotFound(id) \/ (Found(id) /\ IOLocked /\ c \in started /\ BeginIOOperation)

EndIOOperation == Reject("ok")
BridgeEndIOOperation(id, c) ==
    NotFound(id) \/ (Found(id) /\ IOLocked /\ c \in started /\ EndIOOperation)

(* Reading keeps the mutex while the microphone's handler copies out of    *)
(* the ring, the same for every client; processing leaves the ring alone.  *)
DoIOOperationImpl(streamFound, c, op) ==
    \/ ~streamFound /\ Reject("illegal")
    \/ streamFound /\ op = "processInput" /\ Reject("ok")
    \/ /\ streamFound /\ op = "readInput"
       /\ \E want \in Wanted : PopBegin(want)
       /\ ioMutex' = c
       /\ UNCHANGED <<ioVars, now, status>>

DoIOOperation(streamFound, c, op) == IOLocked /\ DoIOOperationImpl(streamFound, c, op)

BridgeDoIOOperation(id, streamFound, c, op) ==
    \/ NotFound(id)
    \/ Found(id) /\ c \in started /\ WillDo(op) /\ DoIOOperation(streamFound, c, op)

OnReadClientInput ==
    /\ ioMutex # Nobody
    /\ \/ PopCopy /\ UNCHANGED <<ioMutex, status>>
       \/ PopEnd /\ ioMutex' = Nobody /\ status' = "ok"
    /\ UNCHANGED <<ioVars, now>>

-----------------------------------------------------------------------------
\* HAL changes the configuration while I/O is stopped.
Reconfigure ==
    /\ started = {}
    /\ rate' \in Rate \ {rate}
    /\ UNCHANGED <<ringVars, clientByID, startCount, handlerOn, lastSampleRate, ticks, anchor,
                   periodCounter, zero, stamped, started, starts, ioMutex, now, status>>

Tick == now < bound.time /\ now' = now + 1 /\ UNCHANGED <<ringVars, ioVars, ioMutex, status>>

Feed == (Receiver \/ DestroyReceiver) /\ UNCHANGED <<ioVars, ioMutex, now, status>>

Call(id, c) ==
    \/ BridgeAddClient(id, c) \/ BridgeRemoveClient(id, c)
    \/ BridgeStartIO(id, c) \/ BridgeStopIO(id, c) \/ BridgeGetZeroTimeStamp(id, c)
    \/ BridgeBeginIOOperation(id, c) \/ BridgeEndIOOperation(id, c)
    \/ \E op \in Operation :
          \/ BridgeWillDoIOOperation(id, c, op)
          \/ \E streamFound \in BOOLEAN : BridgeDoIOOperation(id, streamFound, c, op)

(* When the process ends nobody calls any more.                            *)
Next ==
    \/ Feed
    \/ running /\ \E id \in {Dev, Gone}, c \in Client : Call(id, c)
    \/ running /\ OnReadClientInput
    \/ Reconfigure \/ Tick

Spec == Init /\ [][Next]_vars

-----------------------------------------------------------------------------
(* Between two calls the control handler is on exactly when HAL has a      *)
(* client whose I/O runs, and the device counts HAL's clients: a start the *)
(* handler refused leaves nothing behind that would keep a later first     *)
(* start from reaching him (Device::StartIO, StopIO).                      *)
HandlerFollowsClients ==
    /\ startCount = Cardinality(started)
    /\ handlerOn <=> started # {}

(* The clock HAL sees while I/O runs: each stamp is the last one or        *)
(* exactly one period later in samples and in host ticks alike, the first  *)
(* one is where I/O began or one period after, and none is ahead of the    *)
(* host's clock - whoever else starts and stops in the meantime, and       *)
(* whatever the rate was in an earlier run (Device::GetZeroTimeStamp).     *)
OneStep(ts) == \E n \in {0, 1} :
    /\ zero'.sample = ts.sample + n
    /\ zero'.host = ts.host + n * TicksPerPeriod[rate]
ClockAdvances ==
    [][ stamped' /\ started # {} /\ (~stamped \/ zero' # zero \/ ticks' # ticks)
        => /\ zero'.host <= now
           /\ stamped => OneStep(zero)
           /\ ~stamped => OneStep([sample |-> 0, host |-> anchor]) ]_vars
=============================================================================
