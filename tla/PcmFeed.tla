------------------------------ MODULE PcmFeed ------------------------------
(***************************************************************************)
(* The PCM ring of the Windows driver (pcmfeed.cpp): the control device's  *)
(* writer appends, the WaveRT capture stream drains.  Both counters only   *)
(* grow and a position is a counter modulo the size of the ring; each side *)
(* works under one spin lock, so each call is one step.  A byte is known   *)
(* by its number in the order of acceptance, which is all that order, loss *)
(* and repetition need; 0 is the silence the reader fills a gap with.      *)
(***************************************************************************)
EXTENDS Integers, Sequences

CONSTANT RingBytes
ASSUME RingAssumption == RingBytes \in Nat \ {0}

VARIABLES
    ring,      \* g_FeedBuffer
    written,   \* g_FeedTotalWritten
    read       \* g_FeedTotalRead

feedVars == <<ring, written, read>>

Silence == 0

(* VbmPcmFeedInitialize: an empty ring.                                    *)
FeedInit ==
    /\ ring = [i \in 0 .. RingBytes - 1 |-> Silence]
    /\ written = 0
    /\ read = 0

Buffered == written - read

(* VbmPcmFeedReset: drop all buffered audio.                               *)
FeedReset ==
    /\ read' = written
    /\ UNCHANGED <<ring, written>>

(* VbmPcmFeedWrite: what does not fit is dropped, and is never numbered.   *)
\* Mutant: no drop on overflow, the oldest unread audio is overwritten.
AcceptedAll(n) == n
Accepted(n) == IF n <= RingBytes - Buffered THEN n ELSE RingBytes - Buffered

FeedWrite(n) ==
    /\ ring' = [i \in DOMAIN ring |->
                  LET new == {k \in 1 .. Accepted(n) :
                                (written + k - 1) % RingBytes = i}
                  IN  IF new = {} THEN ring[i]
                      ELSE written + (CHOOSE k \in new : TRUE)]
    /\ written' = written + Accepted(n)
    /\ UNCHANGED read

(* VbmPcmFeedRead: what is buffered, in order, then silence.               *)
Copied(n) == IF n <= Buffered THEN n ELSE Buffered

Drained(n) ==
    [k \in 1 .. n |-> IF k <= Copied(n) THEN ring[(read + k - 1) % RingBytes]
                      ELSE Silence]

FeedRead(n) ==
    /\ read' = read + Copied(n)
    /\ UNCHANGED <<ring, written>>
=============================================================================
