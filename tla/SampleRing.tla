----------------------------- MODULE SampleRing -----------------------------
(***************************************************************************)
(* The macOS microphone's samples on their way from the UDP socket to the  *)
(* audio server (driver/Driver.cpp): a ring with one producer, the         *)
(* receiver's thread, and one consumer, whoever holds the device's I/O     *)
(* mutex.  Neither side locks.  The producer drops a new sample when the   *)
(* ring is full; the consumer skips ahead when the backlog has grown past  *)
(* HighWater.                                                              *)
(*                                                                         *)
(* Each access to a shared location is a step: head and tail are atomics   *)
(* read with acquire and stored with release, so interleaving the steps    *)
(* gives every order the build can produce.  A sample is the number of     *)
(* samples accepted up to it; 0 is silence and the slots' first content.   *)
(***************************************************************************)
EXTENDS Integers, Sequences, FiniteSetsExt

CONSTANTS
    Capacity, HighWater, LowWater,   \* kRingCapacity, kHighWater, kLowWater
    Datagram,      \* sizes in bytes a datagram may have
    Wanted,        \* sizes in samples a read may have
    Bound          \* bounds of the exploration: samples accepted, host time, starts

ASSUME WaterAssumption ==
    /\ {Capacity, HighWater, LowWater} \subseteq Nat
    /\ LowWater <= HighWater /\ HighWater < Capacity
ASSUME SizeAssumption == Datagram \subseteq Nat /\ Wanted \subseteq Nat

VARIABLES
    buffer, head, tail,     \* the ring
    receiver,    \* thread_: where it is, and the samples of the datagram left
    bound,       \* the bounds this behaviour keeps to
    running,     \* running_, FALSE once the destructor has begun
    pop,         \* the consumer's local variables
    accepted,    \* history: samples stored and published
    consumed,    \* history: the last one a read took or skipped
    read         \* history: the last read that ended

ringVars == <<buffer, head, tail, receiver, running, pop, accepted, consumed, read, bound>>

NoPop == [at |-> "idle"]
NoRead == [want |-> 0, before |-> 0, seen |-> 0, samples |-> <<>>]

RingInit ==
    /\ buffer = [i \in 0..Capacity - 1 |-> 0]
    /\ head = 0 /\ tail = 0
    /\ receiver = [at |-> "bind", left |-> 0]
    /\ running = TRUE
    /\ pop = NoPop
    /\ accepted = 0 /\ consumed = 0
    /\ read = NoRead
    /\ bound \in Bound

-----------------------------------------------------------------------------
(* The receiver's thread.  It binds once, and any recvfrom that brings     *)
(* nothing - an error, the closed socket, an empty datagram - ends it for  *)
(* good.                                                                   *)
Bind ==
    /\ receiver.at = "bind"
    /\ \E at \in {"loop", "ended"} : receiver' = [at |-> at, left |-> 0]
    /\ UNCHANGED <<buffer, head, tail, running, pop, accepted, consumed, read, bound>>

Receive ==
    /\ receiver.at = "loop"
    /\ \/ /\ ~running
          /\ receiver' = [at |-> "ended", left |-> 0]
       \/ /\ running
          /\ \E received \in Datagram \cup {-1} :
                receiver' = IF received <= 0 THEN [at |-> "ended", left |-> 0]
                            ELSE [at |-> "push", left |-> received \div 2]
    /\ UNCHANGED <<buffer, head, tail, running, pop, accepted, consumed, read, bound>>

(* Push.  The two indices are read, the slot is written, and then the new  *)
(* head is published.                                                      *)
NextIndex(i) == (i + 1) % Capacity

PushFull ==
    /\ receiver.at = "push" /\ receiver.left > 0
    /\ NextIndex(head) = tail
    /\ receiver' = [receiver EXCEPT !.left = @ - 1]
    /\ UNCHANGED <<buffer, head, tail, running, pop, accepted, consumed, read, bound>>

HasRoom == NextIndex(head) # tail

PushCheck ==
    /\ receiver.at = "push" /\ receiver.left > 0 /\ accepted < bound.samples
    /\ HasRoom
    /\ receiver' = [receiver EXCEPT !.at = "write"]
    /\ UNCHANGED <<buffer, head, tail, running, pop, accepted, consumed, read, bound>>

\* Mutant: the sample goes one slot further than the index that is published.
PushWriteAhead ==
    /\ receiver.at = "write"
    /\ buffer' = [buffer EXCEPT ![NextIndex(head)] = accepted + 1]
    /\ receiver' = [receiver EXCEPT !.at = "publish"]
    /\ UNCHANGED <<head, tail, running, pop, accepted, consumed, read, bound>>
PushWrite ==
    /\ receiver.at = "write"
    /\ buffer' = [buffer EXCEPT ![head] = accepted + 1]
    /\ receiver' = [receiver EXCEPT !.at = "publish"]
    /\ UNCHANGED <<head, tail, running, pop, accepted, consumed, read, bound>>

PushPublish ==
    /\ receiver.at = "publish"
    /\ head' = NextIndex(head)
    /\ accepted' = accepted + 1
    /\ receiver' = [at |-> "push", left |-> receiver.left - 1]
    /\ UNCHANGED <<buffer, tail, running, pop, consumed, read, bound>>

DatagramDone ==
    /\ receiver.at = "push" /\ receiver.left = 0
    /\ receiver' = [receiver EXCEPT !.at = "loop"]
    /\ UNCHANGED <<buffer, head, tail, running, pop, accepted, consumed, read, bound>>

(* The process ends: the destructor clears running_ and closes the socket, *)
(* which recvfrom answers with an error.                                   *)
DestroyReceiver ==
    /\ running
    /\ running' = FALSE
    /\ UNCHANGED <<buffer, head, tail, receiver, pop, accepted, consumed, read, bound>>

Receiver == Bind \/ Receive \/ PushFull \/ PushCheck \/ PushWrite \/ PushPublish \/ DatagramDone

-----------------------------------------------------------------------------
(* Pop.  The indices are read once, the slots are copied one by one, and   *)
(* the new tail is published.                                              *)
Level(h, t) == (h + Capacity - t) % Capacity

PopFrom(h, t) ==
    IF Level(h, t) > HighWater THEN (h + 2 * Capacity - LowWater) % Capacity ELSE t

PopBegin(want) ==
    /\ pop = NoPop
    /\ pop' = [at |-> "copy", from |-> PopFrom(head, tail), to |-> head, want |-> want,
               out |-> <<>>, seen |-> accepted]
    /\ UNCHANGED <<buffer, head, tail, receiver, running, accepted, consumed, read, bound>>

PopMore == Len(pop.out) < pop.want /\ pop.from # pop.to

PopCopy ==
    /\ pop.at = "copy" /\ PopMore
    /\ pop' = [pop EXCEPT !.out = Append(@, buffer[pop.from]), !.from = NextIndex(@)]
    /\ UNCHANGED <<buffer, head, tail, receiver, running, accepted, consumed, read, bound>>

(* OnReadClientInput fills what was not popped with silence.               *)
Silence(n) == [i \in 1..n |-> 0]

(* What a read should hear, in terms of the samples' numbers.              *)
First(before, seen) == IF seen - before > HighWater THEN seen - LowWater + 1 ELSE before + 1
Window(before, seen, want) ==
    [i \in 1..want |-> IF First(before, seen) + i - 1 <= seen
                       THEN First(before, seen) + i - 1 ELSE 0]

PopEnd ==
    /\ pop.at = "copy" /\ ~PopMore
    /\ tail' = pop.from
    /\ read' = [want |-> pop.want, before |-> consumed, seen |-> pop.seen,
                samples |-> pop.out \o Silence(pop.want - Len(pop.out))]
    /\ consumed' = Min({First(consumed, pop.seen) + pop.want - 1, pop.seen})
    /\ pop' = NoPop
    /\ UNCHANGED <<buffer, head, receiver, running, accepted, bound>>

-----------------------------------------------------------------------------
(* What a read returns is a run of consecutive samples that starts with    *)
(* the oldest one not read yet, or LowWater before the newest when more    *)
(* than HighWater were waiting, and silence only after the last sample     *)
(* there was: nothing is heard twice, out of order or half overwritten,    *)
(* whatever the producer does meanwhile (SampleRing::Push, Pop).           *)
ReadIsWindow == read.samples = Window(read.before, read.seen, read.want)
=============================================================================
