---------------------------- MODULE WaveRtStream ----------------------------
(***************************************************************************)
(* A capture stream of the Windows virtual microphone                      *)
(* (minwavertstream.cpp) over the PCM feed.  Three actors: the audio       *)
(* engine, whose property calls open the stream, move it one KS state at a *)
(* time and ask for positions and packets; the 1 ms timer, whose callback  *)
(* runs on any processor between two steps of a state change; and the      *)
(* writer of the control device.  There is no hardware: the position is    *)
(* computed from the clock whenever somebody asks, remainders of the       *)
(* divisions being carried to the next time, and every advance moves that  *)
(* many bytes from the feed into the shared buffer.  Render streams and    *)
(* end of stream do not occur (the driver has no render endpoint, and      *)
(* SetWritePacket refuses the end-of-stream flag).                         *)
(***************************************************************************)
EXTENDS PcmFeed

CONSTANTS
    TicksPerMs,   \* clock ticks of a millisecond (10000 units of 100 ns)
    MsPerSec,     \* 1000 in the code
    Rate,         \* m_ulDmaMovementRate: bytes a second
    BufferBytes,  \* the size the engine asks for
    Packets,      \* the notification count it asks for
    MaxWrite, MaxTime, MaxBytes, MaxSessions   \* bounds of the exploration

ASSUME BoundAssumption == {MaxWrite, MaxTime, MaxBytes, MaxSessions} \subseteq Nat
ASSUME RateAssumption ==
    /\ {TicksPerMs, MsPerSec, Rate, BufferBytes, Packets} \subseteq Nat \ {0}
    /\ BufferBytes % Packets = 0
(* Durations of a buffer and of a packet are whole milliseconds.           *)
ASSUME ExactAssumption ==
    /\ (BufferBytes * MsPerSec) % Rate = 0
    /\ ((BufferBytes * MsPerSec) \div Rate) % Packets = 0

VARIABLES
    now,           \* the performance counter, in ticks
    sessions,      \* streams opened so far
    ks,            \* m_KsState; "NONE" when there is no stream
    ctl,           \* where SetState is: between two of its steps
    timerOn, due, dpc,                  \* timer armed, next expiry, callback queued
    dmaStamp, elapsedCarry, byteCarry,  \* m_ullDmaTimeStamp and the carries
    lastDpc, dpcCarry,                  \* the notification interval's stamp and carry
    linear, writePos,                   \* m_ullLinearPosition, m_ullWritePosition
    packetCount, lastRead,              \* m_llPacketCounter, m_ulLastOsReadPacket
    bufSize, notifications, interval,   \* sizes of the current allocation
    dma,           \* the shared buffer
    tape,          \* history: bytes captured since the positions were reset
    staleCarry     \* history: dpcCarry left over by the last stop

clock == <<now, sessions>>
timer == <<timerOn, due, dpc>>
position == <<dmaStamp, elapsedCarry, byteCarry, linear, writePos, dma, tape>>
notifying == <<lastDpc, dpcCarry, packetCount, lastRead>>
buffer == <<bufSize, notifications, interval>>
streamVars == <<clock, ks, ctl, timer, position, notifying, buffer, staleCarry>>
waveVars == <<feedVars, streamVars>>

NoPacket == -1     \* ULONG_MAX
Unwritten == -1    \* what a page holds before the first capture

StreamInit ==
    /\ FeedInit
    /\ now = 0 /\ sessions = 0
    /\ ks = "NONE" /\ ctl = "idle"
    /\ timerOn = FALSE /\ due = 0 /\ dpc = FALSE
    /\ dmaStamp = 0 /\ elapsedCarry = 0 /\ byteCarry = 0
    /\ lastDpc = 0 /\ dpcCarry = 0
    /\ linear = 0 /\ writePos = 0
    /\ packetCount = 0 /\ lastRead = NoPacket
    /\ bufSize = 0 /\ notifications = 0 /\ interval = 0
    /\ dma = [i \in 0 .. BufferBytes - 1 |-> Unwritten]
    /\ tape = <<>>
    /\ staleCarry = 0

-----------------------------------------------------------------------------
(* UpdatePosition: whole milliseconds since the last call, then whole      *)
(* bytes, each with its carry; WriteBytes moves them from the feed.        *)
ElapsedTicks == now - dmaStamp + elapsedCarry
ElapsedRate == Rate * (ElapsedTicks \div TicksPerMs) + byteCarry
Displacement == ElapsedRate \div MsPerSec

(* WriteBytes: from the linear position on, wrapping at the buffer's end.  *)
WriteBytes(n) ==
    dma' = [i \in DOMAIN dma |->
              LET hits == {k \in 1 .. n : (linear + k - 1) % bufSize = i}
              IN  IF hits = {} THEN dma[i]
                  ELSE Drained(n)[CHOOSE k \in hits : \A j \in hits : j <= k]]

UpdatePosition ==
    /\ elapsedCarry' = ElapsedTicks % TicksPerMs
    /\ byteCarry' = ElapsedRate % MsPerSec
    /\ dmaStamp' = now
    /\ WriteBytes(Displacement)
    /\ FeedRead(Displacement)
    /\ writePos' = (writePos + Displacement) % bufSize
    /\ linear' = linear + Displacement
    /\ tape' = tape \o Drained(Displacement)

-----------------------------------------------------------------------------
(* The engine's calls.  NewStream and Init: fresh fields, and the feed is  *)
(* emptied; at most one stream, which ValidateStreamCreate counts.         *)
OpenStream ==
    /\ ks = "NONE" /\ sessions < MaxSessions
    /\ sessions' = sessions + 1
    /\ ks' = "STOP"
    /\ FeedReset
    /\ dmaStamp' = 0 /\ elapsedCarry' = 0 /\ byteCarry' = 0
    /\ lastDpc' = 0 /\ dpcCarry' = 0
    /\ linear' = 0 /\ writePos' = 0 /\ packetCount' = 0 /\ lastRead' = NoPacket
    /\ bufSize' = 0 /\ notifications' = 0 /\ interval' = 0
    /\ tape' = <<>> /\ staleCarry' = 0
    /\ UNCHANGED <<now, ctl, timer, dma>>

(* AllocateBufferWithNotification: event driven, one packet per            *)
(* notification.                                                           *)
AllocateWithNotification ==
    /\ ks = "STOP" /\ bufSize = 0
    /\ bufSize' = BufferBytes
    /\ notifications' = Packets
    /\ interval' = ((BufferBytes * MsPerSec) \div Rate) \div Packets
    /\ dma' = [i \in 0 .. BufferBytes - 1 |-> Unwritten]
    /\ UNCHANGED <<feedVars, clock, ks, ctl, timer, dmaStamp, elapsedCarry, byteCarry,
                   linear, writePos, tape, notifying, staleCarry>>

(* AllocateAudioBuffer: the engine polls.  The interval of an earlier      *)
(* event-driven buffer is not cleared.                                     *)
AllocateAudioBuffer ==
    /\ ks = "STOP" /\ bufSize = 0
    /\ bufSize' = BufferBytes
    /\ notifications' = 0
    /\ dma' = [i \in 0 .. BufferBytes - 1 |-> Unwritten]
    /\ UNCHANGED <<feedVars, clock, ks, ctl, timer, dmaStamp, elapsedCarry, byteCarry,
                   linear, writePos, tape, notifying, interval, staleCarry>>

(* FreeBufferWithNotification and FreeAudioBuffer.                         *)
FreeBuffer ==
    /\ ks = "STOP" /\ bufSize > 0
    /\ bufSize' = 0 /\ notifications' = 0
    /\ UNCHANGED <<feedVars, clock, ks, ctl, timer, position, notifying, interval, staleCarry>>

(* The destructor: the timer is deleted and its callback waited for.       *)
CloseStream ==
    /\ ks = "STOP" /\ bufSize = 0 /\ ctl = "idle"
    /\ ks' = "NONE"
    /\ timerOn' = FALSE /\ dpc' = FALSE
    /\ UNCHANGED <<feedVars, clock, ctl, due, position, notifying, buffer, staleCarry>>

(* SetState moves between neighbouring states.  ACQUIRE, and PAUSE from    *)
(* ACQUIRE, change nothing else.                                           *)
Acquire ==
    /\ ctl = "idle" /\ ks \in {"STOP", "PAUSE"} /\ bufSize > 0
    /\ ks' = "ACQUIRE"
    /\ UNCHANGED <<feedVars, clock, ctl, timer, position, notifying, buffer, staleCarry>>

PauseFromAcquire ==
    /\ ctl = "idle" /\ ks = "ACQUIRE"
    /\ ks' = "PAUSE"
    /\ UNCHANGED <<feedVars, clock, ctl, timer, position, notifying, buffer, staleCarry>>

\* Mutant: STOP resets the linear position and forgets the write position.
StopKeepsWritePos ==
    /\ ctl = "idle" /\ ks = "ACQUIRE"
    /\ ks' = "STOP"
    /\ packetCount' = 0 /\ linear' = 0 /\ lastRead' = NoPacket
    /\ tape' = <<>> /\ staleCarry' = dpcCarry
    /\ UNCHANGED <<feedVars, clock, ctl, timer, dmaStamp, elapsedCarry, byteCarry, dma,
                   writePos, lastDpc, dpcCarry, buffer>>

(* STOP resets the DMA; the time carried between notifications stays.      *)
Stop ==
    /\ ctl = "idle" /\ ks = "ACQUIRE"
    /\ ks' = "STOP"
    /\ packetCount' = 0 /\ linear' = 0 /\ writePos' = 0 /\ lastRead' = NoPacket
    /\ tape' = <<>> /\ staleCarry' = dpcCarry
    /\ UNCHANGED <<feedVars, clock, ctl, timer, dmaStamp, elapsedCarry, byteCarry, dma,
                   lastDpc, dpcCarry, buffer>>

(* RUN stamps the clock and arms the timer, and writes the state last.     *)
RunArm ==
    /\ ctl = "idle" /\ ks = "PAUSE"
    /\ lastDpc' = now /\ dmaStamp' = now
    /\ timerOn' = (interval > 0) /\ due' = now + TicksPerMs
    /\ ctl' = "armed"
    /\ UNCHANGED <<feedVars, clock, ks, dpc, elapsedCarry, byteCarry, linear, writePos, dma,
                   tape, dpcCarry, packetCount, lastRead, buffer, staleCarry>>

RunDone ==
    /\ ctl = "armed"
    /\ ks' = "RUN" /\ ctl' = "idle"
    /\ UNCHANGED <<feedVars, clock, timer, position, notifying, buffer, staleCarry>>

(* PAUSE from RUN: cancel the timer, wait for a queued callback, keep the  *)
(* time since the last notification, bring the position up to date, and    *)
(* write the state last.                                                   *)
PauseCancel ==
    /\ ctl = "idle" /\ ks = "RUN"
    /\ timerOn' = FALSE
    /\ ctl' = "cancelled"
    /\ UNCHANGED <<feedVars, clock, ks, due, dpc, position, notifying, buffer, staleCarry>>

\* Mutant: no KeFlushQueuedDpcs, a callback still queued runs later.
PauseFlushNoWait ==
    /\ ctl = "cancelled"
    /\ dpcCarry' = IF interval > 0 THEN now - lastDpc + dpcCarry ELSE dpcCarry
    /\ ctl' = "flushed"
    /\ UNCHANGED <<feedVars, clock, ks, timer, position, lastDpc, packetCount, lastRead,
                   buffer, staleCarry>>

PauseFlush ==
    /\ ctl = "cancelled" /\ ~dpc
    /\ dpcCarry' = IF interval > 0 THEN now - lastDpc + dpcCarry ELSE dpcCarry
    /\ ctl' = "flushed"
    /\ UNCHANGED <<feedVars, clock, ks, timer, position, lastDpc, packetCount, lastRead,
                   buffer, staleCarry>>

\* Mutant: the position is not brought up to date, the next run restamps.
PauseSettleSkips ==
    /\ ctl = "flushed"
    /\ ctl' = "settled"
    /\ UNCHANGED <<feedVars, position, clock, ks, timer, notifying, buffer, staleCarry>>

PauseSettle ==
    /\ ctl = "flushed"
    /\ UpdatePosition
    /\ ctl' = "settled"
    /\ UNCHANGED <<clock, ks, timer, notifying, buffer, staleCarry>>

PauseDone ==
    /\ ctl = "settled"
    /\ ks' = "PAUSE" /\ ctl' = "idle"
    /\ UNCHANGED <<feedVars, clock, timer, position, notifying, buffer, staleCarry>>

(* The queries of another thread bring the position up to date.            *)
GetPositions ==
    /\ ks = "RUN"
    /\ UpdatePosition
    /\ UNCHANGED <<clock, ks, ctl, timer, notifying, buffer, staleCarry>>

GetPosition == GetPositions
GetPacketCount == notifications > 0 /\ GetPositions

(* GetReadPacket: the last completed packet, once.                         *)
GetReadPacket ==
    /\ notifications > 0 /\ ks \in {"PAUSE", "RUN"}
    /\ packetCount - 1 # lastRead
    /\ lastRead' = packetCount - 1
    /\ UNCHANGED <<feedVars, clock, ks, ctl, timer, position, lastDpc, dpcCarry,
                   packetCount, buffer, staleCarry>>

-----------------------------------------------------------------------------
(* The timer.  It expires no earlier than it is due; its callback may be   *)
(* late, and one is queued at a time.                                      *)
TimerExpires ==
    /\ timerOn /\ now >= due /\ ~dpc
    /\ dpc' = TRUE /\ due' = due + TicksPerMs
    /\ UNCHANGED <<feedVars, clock, ks, ctl, timerOn, position, notifying, buffer, staleCarry>>

IntervalOver == (now - lastDpc + dpcCarry) \div TicksPerMs >= interval

(* TimerNotifyRT: nothing before the interval is over; then the position   *)
(* and the packet counter advance, whatever the state.                     *)
TimerNotify ==
    /\ dpc
    /\ dpc' = FALSE
    /\ IF IntervalOver
       THEN /\ dpcCarry' = now - lastDpc + dpcCarry - interval * TicksPerMs
            /\ lastDpc' = now
            /\ UpdatePosition
            /\ packetCount' = packetCount + 1
       ELSE UNCHANGED <<feedVars, position, lastDpc, dpcCarry, packetCount>>
    /\ UNCHANGED <<clock, ks, ctl, timerOn, due, lastRead, buffer, staleCarry>>

-----------------------------------------------------------------------------
(* Time is read only while a run is armed or under way, and the stamps are *)
(* set anew by the next run: it stands still otherwise.                    *)
Tick ==
    /\ now < MaxTime
    /\ ks = "RUN" \/ ctl = "armed"
    /\ now' = now + 1
    /\ UNCHANGED <<feedVars, sessions, ks, ctl, timer, position, notifying, buffer, staleCarry>>

(* A write of the control device, at any time.                             *)
Supply(n) ==
    /\ written + n <= MaxBytes
    /\ FeedWrite(n)
    /\ UNCHANGED streamVars

StreamNext ==
    \/ OpenStream \/ AllocateWithNotification \/ AllocateAudioBuffer \/ FreeBuffer
    \/ CloseStream \/ Acquire \/ PauseFromAcquire \/ Stop
    \/ RunArm \/ RunDone \/ PauseCancel \/ PauseFlush \/ PauseSettle \/ PauseDone
    \/ GetPositions \/ GetPosition \/ GetPacketCount \/ GetReadPacket \/ TimerExpires \/ TimerNotify \/ Tick
    \/ \E n \in 1 .. MaxWrite : Supply(n)

StreamSpec == StreamInit /\ [][StreamNext]_waveVars

-----------------------------------------------------------------------------
(* The bytes heard since the positions were reset are the last ones taken  *)
(* from the feed, in the order the writer supplied them: none twice, none  *)
(* out of order, and after the first of them none lost, however the        *)
(* writes, the timer and the queries interleave and wherever either ring   *)
(* wraps.                                                                  *)
Sounding == {i \in DOMAIN tape : tape[i] # Silence}
HeardInOrder ==
    /\ \A i, j \in Sounding : i < j => tape[i] < tape[j]
    /\ \A i \in Sounding :
          /\ tape[i] <= read
          /\ \A b \in tape[i] .. read : \E j \in Sounding : tape[j] = b

(* The engine reads the shared buffer by position: the last bytes captured *)
(* are where the reported position says they are.                          *)
AudioWhereReported ==
    bufSize > 0 =>
      /\ Len(tape) = linear /\ writePos = linear % bufSize
      /\ \A k \in 1 .. bufSize :
           k <= linear => dma[(linear - k) % bufSize] = tape[linear - k + 1]

(* Between a completed pause and the next run nothing moves: no late timer *)
(* callback and no query advances the position or completes a packet.      *)
StillWhenPaused ==
    [][ctl = "idle" /\ ks \in {"STOP", "ACQUIRE", "PAUSE"} /\ ks' # "STOP"
         => (linear' = linear /\ packetCount' = packetCount)]_waveVars

(* "Completed packet" (minwavertstream.cpp:814): a packet the driver       *)
(* counts as complete was really captured.                                 *)
PacketsFilled == packetCount * (BufferBytes \div Packets) <= linear

(* The same from the opening of the stream to its first restart in the     *)
(* middle of a packet, across every pause.                                 *)
PacketsFilledSinceReset == staleCarry = 0 => PacketsFilled
=============================================================================
