---------------------------- MODULE AudioProofs -----------------------------
(***************************************************************************)
(* The two carriers of audio.                                              *)
(*                                                                         *)
(* The microphone of the Mac: for any capacity and water marks, any        *)
(* datagrams and reads, any clients, sample rates and periods, and with no *)
(* bound on samples, time or starts, a read returns the window of samples  *)
(* it should, the microphone's handler is on exactly when a client's I/O   *)
(* runs, and the device's clock advances by whole periods.                 *)
(*                                                                         *)
(* The board's frames: for either path, any number of packets, calls and   *)
(* frames of a packet and any limit of the queue, a frame reports as       *)
(* missing what its packet's predecessors lost, only old packets are       *)
(* refused, and the host answers only for what its own queue dropped.      *)
(***************************************************************************)
EXTENDS MacMic, AudioFrames, FiniteSetTheorems, SequenceTheorems, TLAPS

-----------------------------------------------------------------------------
(* Arithmetic of a ring's indices                                          *)

(* No multiple of c lies strictly between 0 and c. *)
LEMMA NoMultipleBetween == ASSUME NEW c \in Nat, c > 0, NEW n \in Int, 0 < c * n, c * n < c PROVE FALSE
<1>1. CASE n <= 0
  BY <1>1
<1>2. CASE n >= 1
  BY <1>2
<1> QED BY <1>1, <1>2

(* Quotient and remainder. *)
LEMMA DivMod == ASSUME NEW c \in Nat, c > 0, NEW a \in Int
  PROVE a % c \in 0..c-1 /\ a \div c \in Int /\ a = c * (a \div c) + (a % c)
OBVIOUS

(* They are unique. *)
LEMMA Unique == ASSUME NEW c \in Nat, c > 0, NEW q \in Int, NEW r \in 0..c-1
  PROVE (c * q + r) % c = r
<1> DEFINE a == c * q + r
<1>1. a \in Int OBVIOUS
<1>2. a % c \in 0..c-1 /\ a \div c \in Int /\ a = c * (a \div c) + (a % c)
  BY <1>1, DivMod
<1>3. c * (q - (a \div c)) = (a % c) - r
  BY <1>2
<1> QED BY <1>2, <1>3, NoMultipleBetween

(* Less than c apart, only equal numbers have equal remainders. *)
LEMMA SameSlot == ASSUME NEW c \in Nat, c > 0, NEW j \in Nat, NEW k \in Nat, j <= k, k - j < c, j % c = k % c
  PROVE j = k
<1>1. j % c \in 0..c-1 /\ j \div c \in Int /\ j = c * (j \div c) + (j % c)
  BY DivMod
<1>2. k % c \in 0..c-1 /\ k \div c \in Int /\ k = c * (k \div c) + (k % c)
  BY DivMod
<1>3. c * ((k \div c) - (j \div c)) = k - j
  BY <1>1, <1>2
<1> DEFINE n == (k \div c) - (j \div c)
<1>4. n \in Int /\ c * n = k - j
  BY <1>1, <1>2, <1>3
<1> HIDE DEF n
<1>5. ~(0 < c * n /\ c * n < c)
  BY <1>4, NoMultipleBetween
<1> QED BY <1>4, <1>5

(* A remainder may be taken before an addition. *)
LEMMA Shift == ASSUME NEW c \in Nat, c > 0, NEW a \in Int, NEW d \in Int
  PROVE ((a % c) + d) % c = (a + d) % c
<1>1. a % c \in 0..c-1 /\ a \div c \in Int /\ a = c * (a \div c) + (a % c)
  BY DivMod
<1> DEFINE b == (a % c) + d
<1>2. b % c \in 0..c-1 /\ b \div c \in Int /\ b = c * (b \div c) + (b % c)
  BY <1>1, DivMod
<1>3. a + d = c * ((a \div c) + (b \div c)) + (b % c)
  BY <1>1, <1>2
<1>4. (a \div c) + (b \div c) \in Int
  BY <1>1, <1>2
<1> HIDE DEF b
<1>5. (a + d) % c = b % c
  BY <1>2, <1>3, <1>4, Unique
<1> QED BY <1>5 DEF b

(* SampleRing::Pop: the level is the number of samples waiting. *)
LEMMA Distance == ASSUME NEW c \in Nat, c > 0, NEW j \in Nat, NEW k \in Nat, j <= k, k - j < c
  PROVE ((k % c) + c - (j % c)) % c = k - j
<1>1. j % c \in 0..c-1 /\ j \div c \in Int /\ j = c * (j \div c) + (j % c)
  BY DivMod
<1>2. k % c \in 0..c-1 /\ k \div c \in Int /\ k = c * (k \div c) + (k % c)
  BY DivMod
<1>3. (k % c) + c - (j % c) = c * ((j \div c) - (k \div c) + 1) + (k - j)
  BY <1>1, <1>2
<1> DEFINE q == (j \div c) - (k \div c) + 1
           r == k - j
<1>4. q \in Int /\ r \in 0..c-1
  BY <1>1, <1>2
<1>5. (c * q + r) % c = r
  <2> HIDE DEF q, r
  <2> QED BY <1>4, Unique
<1> QED BY <1>3, <1>5

(* SampleRing::Pop: skipping back from the head. *)
LEMMA Back == ASSUME NEW c \in Nat, c > 0, NEW k \in Nat, NEW d \in 0..c, d <= k
  PROVE ((k % c) + 2 * c - d) % c = (k - d) % c
<1>1. ((k % c) + (2 * c - d)) % c = (k + (2 * c - d)) % c
  <2> DEFINE e == 2 * c - d
  <2>1. e \in Int OBVIOUS
  <2> HIDE DEF e
  <2>2. ((k % c) + e) % c = (k + e) % c
    BY <2>1, k \in Int, Shift
  <2> QED BY <2>2 DEF e
<1>2. (k - d) % c \in 0..c-1 /\ (k - d) \div c \in Int /\ k - d = c * ((k - d) \div c) + ((k - d) % c)
  BY DivMod
<1>3. k + (2 * c - d) = c * (((k - d) \div c) + 2) + ((k - d) % c)
  BY <1>2
<1>4. ((k - d) \div c) + 2 \in Int
  BY <1>2
<1>5. k % c \in Int BY DivMod
<1>6. (k % c) + (2 * c - d) = (k % c) + 2 * c - d
  BY <1>5
<1> QED BY <1>1, <1>2, <1>3, <1>4, <1>6, Unique
-----------------------------------------------------------------------------
(* The ring                                                                *)

\* What a step of the device does to the ring.
RingNext ==
    \/ Receiver \/ DestroyReceiver
    \/ \E want \in Wanted : PopBegin(want)
    \/ PopCopy \/ PopEnd

(* Every step of the whole is a step of the ring or leaves it alone.       *)
LEMMA StepsOfRing == ASSUME [Next]_vars PROVE RingNext \/ UNCHANGED ringVars
<1> USE DEF RingNext
<1>1. CASE Feed
  BY <1>1 DEF Feed
<1>2. ASSUME NEW dev \in {Dev, Gone}, NEW c \in Client, Call(dev, c)
      PROVE  RingNext \/ UNCHANGED ringVars
  <2>1. CASE BridgeAddClient(dev, c) \/ BridgeRemoveClient(dev, c)
    BY <2>1 DEF BridgeAddClient, BridgeRemoveClient, AddClient, RemoveClient, NotFound, Reject
  <2>2. CASE BridgeStartIO(dev, c) \/ BridgeStopIO(dev, c) \/ BridgeGetZeroTimeStamp(dev, c)
    BY <2>2 DEF BridgeStartIO, BridgeStopIO, BridgeGetZeroTimeStamp, NotFound, Reject
  <2>3. CASE BridgeBeginIOOperation(dev, c) \/ BridgeEndIOOperation(dev, c)
    BY <2>3 DEF BridgeBeginIOOperation, BridgeEndIOOperation, BeginIOOperation, EndIOOperation,
                NotFound, Reject
  <2>4. ASSUME NEW op \in Operation, BridgeWillDoIOOperation(dev, c, op)
        PROVE  UNCHANGED ringVars
    BY <2>4 DEF BridgeWillDoIOOperation, WillDoIOOperation, NotFound, Reject
  <2>5. ASSUME NEW op \in Operation, NEW streamFound \in BOOLEAN,
               BridgeDoIOOperation(dev, streamFound, c, op)
        PROVE  RingNext \/ UNCHANGED ringVars
    BY <2>5 DEF BridgeDoIOOperation, DoIOOperation, DoIOOperationImpl, NotFound, Reject
  <2> QED BY <1>2, <2>1, <2>2, <2>3, <2>4, <2>5 DEF Call
<1>3. CASE OnReadClientInput
  BY <1>3 DEF OnReadClientInput
<1>4. CASE Reconfigure \/ Tick \/ UNCHANGED vars
  BY <1>4 DEF Reconfigure, Tick, vars
<1> QED BY <1>1, <1>2, <1>3, <1>4 DEF Next

\* The last sample before those a read is to return, and how many it has.
Mark == First(consumed, pop.seen) - 1
Popped == Len(pop.out)

IndicesOK ==
    /\ accepted \in Nat /\ consumed \in Nat
    /\ consumed <= accepted /\ accepted - consumed < Capacity
    /\ head = accepted % Capacity /\ tail = consumed % Capacity

(* Every sample accepted and not yet consumed is in its slot.              *)
SlotsOK ==
    /\ buffer \in [0 .. Capacity - 1 -> Nat]
    /\ \A k \in consumed .. accepted - 1 : buffer[k % Capacity] = k + 1

(* The producer's check still holds when it writes, since the consumer     *)
(* only makes room.                                                        *)
ProducerOK ==
    /\ receiver \in [at : {"bind", "loop", "ended", "push", "write", "publish"}, left : Int]
    /\ receiver.at \in {"write", "publish"} => accepted - consumed < Capacity - 1
    /\ receiver.at = "publish" => buffer[accepted % Capacity] = accepted + 1

(* A read has copied the samples after the mark, one after the other, and  *)
(* is not past the head it saw.                                            *)
ReadingOK ==
    /\ pop \in [at : {"copy"}, from : Nat, to : Nat, want : Nat, out : Seq(Nat), seen : Nat]
    /\ consumed <= pop.seen /\ pop.seen <= accepted
    /\ Popped <= pop.want /\ Mark + Popped <= pop.seen
    /\ pop.from = (Mark + Popped) % Capacity /\ pop.to = pop.seen % Capacity
    /\ \A i \in 1 .. Popped : pop.out[i] = Mark + i

RingInv ==
    /\ IndicesOK /\ SlotsOK /\ ProducerOK
    /\ pop = NoPop \/ ReadingOK
    /\ ReadIsWindow

LEMMA Sizes == Capacity \in Nat /\ Capacity > 0 /\ HighWater \in Nat /\ LowWater \in Nat
BY WaterAssumption

LEMMA MarkInRange ==
    ASSUME NEW before \in Nat, NEW seen \in Nat, before <= seen
    PROVE  /\ First(before, seen) - 1 \in Nat
           /\ before <= First(before, seen) - 1
           /\ First(before, seen) - 1 <= seen
BY WaterAssumption DEF First

LEMMA RingStarts == Init => RingInv
<1> SUFFICES ASSUME Init PROVE RingInv OBVIOUS
<1> USE Sizes
<1>1. 0 % Capacity = 0
  BY Unique, Capacity * 0 + 0 = 0
<1>2. IndicesOK
  BY <1>1 DEF Init, RingInit, IndicesOK
<1>3. SlotsOK
  BY DEF Init, RingInit, SlotsOK
<1>4. ProducerOK
  BY DEF Init, RingInit, ProducerOK
<1>5. ReadIsWindow
  BY DEF Init, RingInit, ReadIsWindow, Window, NoRead
<1> QED BY <1>2, <1>3, <1>4, <1>5 DEF Init, RingInit, RingInv

(* The steps of the producer.                                              *)
LEMMA ProducerKeeps == ASSUME RingInv, Receiver \/ DestroyReceiver PROVE RingInv'
<1> USE Sizes DEF RingInv
<1>1. IndicesOK /\ SlotsOK /\ ProducerOK OBVIOUS
<1>2. UNCHANGED <<tail, consumed, pop, read>>
  BY DEF Receiver, DestroyReceiver, Bind, Receive, PushFull, PushCheck, PushWrite, PushPublish, DatagramDone
<1>3. ReadIsWindow'
  BY <1>2 DEF ReadIsWindow
<1>4. accepted' \in {accepted, accepted + 1}
  BY DEF Receiver, DestroyReceiver, Bind, Receive, PushFull, PushCheck, PushWrite, PushPublish, DatagramDone
<1>5. (pop = NoPop \/ ReadingOK)'
  <2>1. SUFFICES ASSUME ReadingOK PROVE ReadingOK'
    BY <1>2
  <2>2. pop.seen \in Nat /\ accepted \in Nat /\ pop.seen <= accepted'
    BY <1>1, <1>4, <2>1 DEF ReadingOK, IndicesOK
  <2> QED BY <1>2, <2>1, <2>2 DEF ReadingOK, Mark, Popped
<1>6. (IndicesOK /\ SlotsOK /\ ProducerOK)'
  <2>1. CASE Bind \/ Receive \/ PushFull \/ DatagramDone \/ DestroyReceiver
    <3>1. UNCHANGED <<buffer, head, tail, accepted, consumed>>
      BY <2>1 DEF Bind, Receive, PushFull, DatagramDone, DestroyReceiver
    <3>2. /\ receiver' \in [at : {"bind", "loop", "ended", "push", "write", "publish"}, left : Int]
          /\ receiver'.at \in {"write", "publish"} => receiver' = receiver
      BY <1>1, <2>1, SizeAssumption
      DEF Bind, Receive, PushFull, DatagramDone, DestroyReceiver, ProducerOK
    <3> QED BY <1>1, <3>1, <3>2 DEF IndicesOK, SlotsOK, ProducerOK
  <2>2. CASE PushCheck
    <3>1. /\ UNCHANGED <<buffer, head, tail, accepted, consumed>>
          /\ receiver' = [receiver EXCEPT !.at = "write"]
      BY <2>2 DEF PushCheck
    <3>2. accepted - consumed < Capacity - 1
      <4>1. (head + 1) % Capacity # tail
        BY <2>2 DEF PushCheck, HasRoom, NextIndex
      <4>2. (head + 1) % Capacity = (accepted + 1) % Capacity
        BY <1>1, Shift, accepted \in Int, 1 \in Int DEF IndicesOK
      <4>3. SUFFICES ASSUME accepted + 1 = consumed + Capacity PROVE FALSE
        BY <1>1 DEF IndicesOK
      <4>4. (accepted + 1) % Capacity = consumed % Capacity
        <5>1. consumed % Capacity \in 0 .. Capacity - 1 /\ consumed \div Capacity \in Int
              /\ consumed = Capacity * (consumed \div Capacity) + (consumed % Capacity)
          BY <1>1, DivMod DEF IndicesOK
        <5>2. accepted + 1 = Capacity * ((consumed \div Capacity) + 1) + (consumed % Capacity)
          BY <4>3, <5>1
        <5> QED BY <5>1, <5>2, Unique, (consumed \div Capacity) + 1 \in Int, ZenonT(30)
      <4> QED BY <1>1, <4>1, <4>2, <4>4 DEF IndicesOK
    <3> QED BY <1>1, <3>1, <3>2 DEF IndicesOK, SlotsOK, ProducerOK
  <2>3. CASE PushWrite
    <3>1. /\ UNCHANGED <<head, tail, accepted, consumed>>
          /\ receiver.at = "write" /\ receiver' = [receiver EXCEPT !.at = "publish"]
          /\ buffer' = [buffer EXCEPT ![accepted % Capacity] = accepted + 1]
      BY <1>1, <2>3 DEF PushWrite, IndicesOK
    <3>2. accepted - consumed < Capacity - 1 /\ accepted \in Nat /\ consumed \in Nat
      BY <1>1, <3>1 DEF ProducerOK, IndicesOK
    <3>3. accepted % Capacity \in 0 .. Capacity - 1
      BY <3>2, DivMod
    <3>4. ASSUME NEW k \in consumed .. accepted - 1
          PROVE  k \in Nat /\ k % Capacity # accepted % Capacity
      BY <3>2, <3>4, SameSlot
    <3>5. SlotsOK'
      <4>1. buffer' \in [0 .. Capacity - 1 -> Nat]
        BY <1>1, <3>1, <3>2 DEF SlotsOK
      <4>2. ASSUME NEW k \in consumed .. accepted - 1
            PROVE  buffer'[k % Capacity] = k + 1
        <5>1. k % Capacity \in 0 .. Capacity - 1
          BY <3>4, DivMod
        <5> QED BY <1>1, <3>1, <3>4, <5>1 DEF SlotsOK
      <4> QED BY <3>1, <4>1, <4>2 DEF SlotsOK
    <3>6. buffer'[accepted % Capacity] = accepted + 1
      BY <1>1, <3>1, <3>3 DEF SlotsOK
    <3> QED BY <1>1, <3>1, <3>2, <3>5, <3>6 DEF IndicesOK, ProducerOK
  <2>4. CASE PushPublish
    <3>1. /\ UNCHANGED <<buffer, tail, consumed>> /\ receiver.at = "publish"
          /\ head' = (head + 1) % Capacity /\ accepted' = accepted + 1
          /\ receiver' = [at |-> "push", left |-> receiver.left - 1]
      BY <2>4 DEF PushPublish, NextIndex
    <3>2. /\ accepted - consumed < Capacity - 1 /\ accepted \in Nat /\ consumed \in Nat
          /\ buffer[accepted % Capacity] = accepted + 1
      BY <1>1, <3>1 DEF ProducerOK, IndicesOK
    <3>3. head' = accepted' % Capacity
      BY <1>1, <3>1, <3>2, Shift, accepted \in Int, 1 \in Int DEF IndicesOK
    <3>4. SlotsOK'
      <4>1. ASSUME NEW k \in consumed .. accepted PROVE buffer[k % Capacity] = k + 1
        <5>1. k \in consumed .. accepted - 1 \/ k = accepted
          BY <3>2
        <5> QED BY <1>1, <3>2, <5>1 DEF SlotsOK
      <4>2. consumed' .. accepted' - 1 = consumed .. accepted
        BY <3>1, <3>2
      <4> QED BY <1>1, <3>1, <4>1, <4>2 DEF SlotsOK
    <3> QED BY <1>1, <3>1, <3>2, <3>3, <3>4 DEF IndicesOK, ProducerOK
  <2> QED BY <2>1, <2>2, <2>3, <2>4 DEF Receiver
<1> QED BY <1>3, <1>5, <1>6

(* The steps of the consumer.                                              *)
LEMMA PopBegins == ASSUME RingInv, NEW want \in Wanted, PopBegin(want) PROVE RingInv'
<1> USE Sizes DEF RingInv
<1>1. /\ accepted \in Nat /\ consumed \in Nat
      /\ consumed <= accepted /\ accepted - consumed < Capacity
      /\ head = accepted % Capacity /\ tail = consumed % Capacity
  BY DEF IndicesOK
<1>2. /\ UNCHANGED <<buffer, head, tail, receiver, accepted, consumed, read>>
      /\ pop' = [at |-> "copy", from |-> PopFrom(head, tail), to |-> head, want |-> want,
                 out |-> <<>>, seen |-> accepted]
  BY DEF PopBegin
<1>3. Level(head, tail) = accepted - consumed
  BY <1>1, Distance DEF Level
<1> DEFINE mark == First(consumed, accepted) - 1
<1>4. mark \in Nat /\ consumed <= mark /\ mark <= accepted
  BY <1>1, MarkInRange
<1>5. PopFrom(head, tail) = mark % Capacity
  <2>1. CASE accepted - consumed > HighWater
    <3>1. LowWater \in 0 .. Capacity /\ LowWater <= accepted
      BY <1>1, <2>1, WaterAssumption
    <3>2. (head + 2 * Capacity - LowWater) % Capacity = (accepted - LowWater) % Capacity
      BY <1>1, <3>1, Back
    <3>3. mark = accepted - LowWater
      BY <1>1, <2>1 DEF First
    <3> QED BY <1>3, <2>1, <3>2, <3>3 DEF PopFrom
  <2>2. CASE ~(accepted - consumed > HighWater)
    BY <1>1, <1>3, <2>2 DEF PopFrom, First
  <2> QED BY <2>1, <2>2
<1>6. ReadingOK'
  <2>1. want \in Nat /\ head \in Nat /\ mark % Capacity \in Nat
    BY <1>1, <1>4, SizeAssumption, DivMod
  <2>2. /\ pop'.from = mark % Capacity /\ pop'.to = head /\ pop'.want = want
        /\ pop'.out = <<>> /\ pop'.seen = accepted
    BY <1>2, <1>5
  <2>3. pop' \in [at : {"copy"}, from : Nat, to : Nat, want : Nat, out : Seq(Nat), seen : Nat]
    BY <1>1, <1>2, <1>5, <2>1
  <2>4. Mark' = mark /\ Popped' = 0
    BY <1>2, <2>2 DEF Mark, Popped
  <2> HIDE DEF mark
  <2> QED BY <1>1, <1>2, <1>4, <2>1, <2>2, <2>3, <2>4 DEF ReadingOK
<1> QED BY <1>2, <1>6 DEF IndicesOK, SlotsOK, ProducerOK, ReadIsWindow

(* What is known of a read in progress.                                    *)
LEMMA ReadingFacts ==
    ASSUME RingInv, ReadingOK
    PROVE  /\ accepted \in Nat /\ consumed \in Nat /\ pop.seen \in Nat /\ pop.want \in Nat
           /\ pop.out \in Seq(Nat) /\ Popped \in Nat
           /\ Mark \in Nat /\ consumed <= Mark /\ Mark + Popped <= pop.seen
           /\ pop.seen <= accepted /\ accepted - consumed < Capacity /\ Popped <= pop.want
<1>1. /\ accepted \in Nat /\ consumed \in Nat /\ accepted - consumed < Capacity
  BY DEF RingInv, IndicesOK
<1>2. /\ pop.seen \in Nat /\ pop.want \in Nat /\ pop.out \in Seq(Nat)
      /\ consumed <= pop.seen /\ pop.seen <= accepted /\ Popped <= pop.want
      /\ Mark + Popped <= pop.seen
  BY DEF ReadingOK
<1>3. Popped \in Nat
  BY <1>2 DEF Popped
<1>4. Mark \in Nat /\ consumed <= Mark
  BY <1>1, <1>2, MarkInRange DEF Mark
<1> QED BY <1>1, <1>2, <1>3, <1>4

LEMMA PopCopies == ASSUME RingInv, PopCopy PROVE RingInv'
<1> USE Sizes DEF RingInv
<1>1. /\ UNCHANGED <<buffer, head, tail, receiver, accepted, consumed, read>>
      /\ pop' = [pop EXCEPT !.out = Append(@, buffer[pop.from]), !.from = NextIndex(@)]
      /\ Popped < pop.want /\ pop.from # pop.to
  BY DEF PopCopy, PopMore, Popped
<1>2. ReadingOK
  BY DEF PopCopy, NoPop
<1> DEFINE mark == Mark
           n == Popped
<1>3. /\ accepted \in Nat /\ consumed \in Nat /\ pop.seen \in Nat /\ n \in Nat
      /\ mark \in Nat /\ consumed <= mark /\ mark + n <= pop.seen /\ pop.seen <= accepted
      /\ pop.from = (mark + n) % Capacity
  BY <1>2, ReadingFacts DEF ReadingOK
<1> HIDE DEF mark, n
<1>4. mark + n < pop.seen
  <2>1. mark + n # pop.seen
    BY <1>1, <1>2, <1>3 DEF ReadingOK
  <2> QED BY <1>3, <2>1
<1>5. buffer[pop.from] = mark + n + 1
  <2>1. mark + n \in consumed .. accepted - 1
    BY <1>3, <1>4
  <2> QED BY <1>3, <2>1 DEF SlotsOK
<1>6. /\ pop'.from = (mark + n + 1) % Capacity /\ pop'.from \in Nat
  <2>1. pop'.from = (pop.from + 1) % Capacity
    BY <1>1, <1>2 DEF ReadingOK, NextIndex
  <2>2. mark + n \in Int
    BY <1>3
  <2>3. (((mark + n) % Capacity) + 1) % Capacity = (mark + n + 1) % Capacity
    BY <2>2, Shift, 1 \in Int
  <2>4. (mark + n + 1) % Capacity \in Nat
    BY <1>3, DivMod
  <2> QED BY <1>3, <2>1, <2>3, <2>4
<1>7. /\ pop'.out = Append(pop.out, mark + n + 1) /\ pop'.seen = pop.seen
      /\ pop'.want = pop.want /\ pop'.to = pop.to /\ pop'.at = "copy"
  BY <1>1, <1>2, <1>5 DEF ReadingOK
<1>8. pop' \in [at : {"copy"}, from : Nat, to : Nat, want : Nat, out : Seq(Nat), seen : Nat]
  <2>1. pop \in [at : {"copy"}, from : Nat, to : Nat, want : Nat, out : Seq(Nat), seen : Nat]
    BY <1>2 DEF ReadingOK
  <2>2. Append(pop.out, mark + n + 1) \in Seq(Nat)
    BY <1>3, <2>1
  <2>3. NextIndex(pop.from) \in Nat
    BY <1>1, <1>6, <2>1
  <2> QED BY <1>1, <1>5, <2>1, <2>2, <2>3
<1>9. Mark' = mark /\ Popped' = n + 1
  <2>1. pop.out \in Seq(Nat)
    BY <1>2 DEF ReadingOK
  <2>2. Popped' = n + 1
    BY <1>7, <2>1 DEF Popped, n
  <2> QED BY <1>1, <1>7, <2>2 DEF Mark, mark
<1>10. ASSUME NEW i \in 1 .. n + 1 PROVE pop'.out[i] = mark + i
  <2>1. pop.out \in Seq(Nat) /\ n = Len(pop.out)
    BY <1>2 DEF ReadingOK, Popped, n
  <2>2. CASE i \in 1 .. n
    <3>1. pop.out[i] = mark + i
      BY <1>2, <2>2 DEF ReadingOK, mark, n
    <3>2. pop'.out[i] = pop.out[i]
      BY <1>7, <2>1, <2>2
    <3> QED BY <3>1, <3>2
  <2>3. CASE i = n + 1
    <3>1. pop'.out[i] = mark + n + 1
      BY <1>7, <2>1, <2>3
    <3> QED BY <1>3, <2>3, <3>1
  <2> QED BY <1>3, <2>2, <2>3
<1>11. ReadingOK'
  <2>1. n < pop.want /\ consumed <= pop.seen
    BY <1>1, <1>3 DEF n
  <2>2. pop'.to = pop'.seen % Capacity
    BY <1>2, <1>7 DEF ReadingOK
  <2>3. mark + (n + 1) = mark + n + 1
    BY <1>3
  <2>4. (Popped <= pop.want /\ Mark + Popped <= pop.seen)'
    <3>1. pop.want \in Nat
      BY <1>2 DEF ReadingOK
    <3> QED BY <1>3, <1>4, <1>7, <1>9, <2>1, <2>3, <3>1
  <2>5. pop'.from = ((Mark + Popped) % Capacity)'
    BY <1>6, <1>9, <2>3
  <2>6. \A i \in 1 .. Popped' : pop'.out[i] = Mark' + i
    BY <1>9, <1>10
  <2>7. consumed' <= pop'.seen /\ pop'.seen <= accepted'
    BY <1>1, <1>3, <1>7, <2>1
  <2> QED BY <1>8, <2>2, <2>4, <2>5, <2>6, <2>7 DEF ReadingOK
<1> QED BY <1>1, <1>11 DEF IndicesOK, SlotsOK, ProducerOK, ReadIsWindow

LEMMA PopEnds == ASSUME RingInv, PopEnd PROVE RingInv'
<1> USE Sizes DEF RingInv
<1>1. /\ UNCHANGED <<buffer, head, receiver, accepted>>
      /\ tail' = pop.from /\ pop' = NoPop
      /\ read' = [want |-> pop.want, before |-> consumed, seen |-> pop.seen,
                  samples |-> pop.out \o Silence(pop.want - Popped)]
      /\ consumed' = Min({First(consumed, pop.seen) + pop.want - 1, pop.seen})
      /\ ~(Popped < pop.want /\ pop.from # pop.to)
  BY DEF PopEnd, PopMore, Popped
<1>2. ReadingOK
  BY DEF PopEnd, NoPop
<1> DEFINE mark == Mark
           n == Popped
           want == pop.want
           seen == pop.seen
<1>3. /\ accepted \in Nat /\ consumed \in Nat /\ seen \in Nat /\ n \in Nat /\ want \in Nat
      /\ mark \in Nat /\ consumed <= mark /\ mark + n <= seen /\ seen <= accepted
      /\ n <= want /\ accepted - consumed < Capacity
  BY <1>2, ReadingFacts
<1>4. /\ pop.from = (mark + n) % Capacity /\ pop.to = seen % Capacity
      /\ pop.out \in Seq(Nat) /\ Len(pop.out) = n /\ \A i \in 1 .. n : pop.out[i] = mark + i
  BY <1>2 DEF ReadingOK, Popped
<1>5. /\ mark = First(consumed, seen) - 1 /\ First(consumed, seen) \in Int
  BY <1>3, WaterAssumption DEF Mark, First
<1>6. ~(n < want /\ pop.from # pop.to)
  BY <1>1
<1>7. consumed' = Min({First(consumed, seen) + want - 1, seen})
  BY <1>1
<1>8. read' = [want |-> want, before |-> consumed, seen |-> seen,
               samples |-> pop.out \o Silence(want - n)]
  BY <1>1
<1> HIDE DEF mark, n, want, seen
<1>9. n = want \/ mark + n = seen
  <2>1. CASE pop.from = pop.to
    <3>1. mark + n \in Nat /\ seen - (mark + n) < Capacity
      BY <1>3
    <3> QED BY <1>3, <1>4, <2>1, <3>1, SameSlot
  <2> QED BY <1>3, <1>6, <2>1
<1>10. consumed' = mark + n
  <2>1. First(consumed, seen) + want - 1 = mark + want
    BY <1>3, <1>5
  <2>2. \A a, b \in Int : a <= b => Min({a, b}) = a /\ Min({b, a}) = a
    BY DEF Min
  <2>3. consumed' = Min({mark + want, seen})
    BY <1>7, <2>1
  <2>4. CASE n = want
    BY <1>3, <2>2, <2>3, <2>4
  <2>5. CASE mark + n = seen
    BY <1>3, <2>2, <2>3, <2>5
  <2> QED BY <1>9, <2>4, <2>5
<1>11. IndicesOK'
  BY <1>1, <1>3, <1>4, <1>10 DEF IndicesOK
<1>12. SlotsOK'
  <2>1. consumed' .. accepted' - 1 \subseteq consumed .. accepted - 1
    BY <1>1, <1>3, <1>10
  <2> QED BY <1>1, <2>1 DEF SlotsOK
<1>13. ProducerOK'
  <2>1. accepted' - consumed' <= accepted - consumed
    BY <1>1, <1>3, <1>10
  <2> QED BY <1>1, <1>3, <1>10, <2>1 DEF ProducerOK
<1>14. ReadIsWindow'
  <2> DEFINE quiet == Silence(want - n)
             w == Window(consumed, seen, want)
  <2>1. want - n \in Nat
    BY <1>3
  <2>2. quiet \in Seq(Nat) /\ Len(quiet) = want - n /\ \A i \in 1 .. want - n : quiet[i] = 0
    BY <2>1 DEF Silence
  <2>3. w = [i \in 1 .. want |-> IF mark + i <= seen THEN mark + i ELSE 0]
    <3>1. \A i \in 1 .. want : First(consumed, seen) + i - 1 = mark + i
      BY <1>3, <1>5
    <3> QED BY <3>1 DEF Window
  <2> HIDE DEF quiet, w
  <2>4. /\ pop.out \o quiet \in Seq(Nat) /\ Len(pop.out \o quiet) = want
        /\ \A i \in 1 .. n : (pop.out \o quiet)[i] = pop.out[i]
        /\ \A i \in n + 1 .. want : (pop.out \o quiet)[i] = quiet[i - n]
    <3> DEFINE copied == pop.out
    <3>1. copied \in Seq(Nat) /\ Len(copied) = n
      BY <1>4
    <3>2. quiet \in Seq(Nat) /\ Len(quiet) = want - n
      BY <2>2
    <3> HIDE DEF copied
    <3>a. /\ copied \o quiet \in Seq(Nat) /\ Len(copied \o quiet) = Len(copied) + Len(quiet)
          /\ \A i \in 1 .. Len(copied) + Len(quiet) :
                (copied \o quiet)[i] = IF i <= Len(copied) THEN copied[i] ELSE quiet[i - Len(copied)]
      BY <3>1, <3>2, ConcatProperties
    <3>3. copied \o quiet \in Seq(Nat) /\ Len(copied \o quiet) = n + (want - n)
      BY <3>1, <3>2, <3>a
    <3>4. \A i \in 1 .. n : (copied \o quiet)[i] = copied[i]
      BY <1>3, <3>1, <3>2, <3>a
    <3>5. \A i \in n + 1 .. want : (copied \o quiet)[i] = quiet[i - n]
      BY <1>3, <3>1, <3>2, <3>a
    <3>6. n + (want - n) = want
      BY <1>3
    <3>7. Len(copied \o quiet) = want
      BY <3>3, <3>6
    <3> QED BY <3>3, <3>4, <3>5, <3>7 DEF copied
  <2>5. ASSUME NEW i \in 1 .. want PROVE (pop.out \o quiet)[i] = w[i]
    <3>1. CASE i <= n
      <4>1. i \in 1 .. n /\ mark + i <= seen
        BY <1>3, <3>1
      <4>2. (pop.out \o quiet)[i] = mark + i
        BY <1>4, <2>4, <4>1
      <4>3. w[i] = mark + i
        BY <2>3, <4>1
      <4> QED BY <4>2, <4>3
    <3>2. CASE i > n
      <4>1. i \in n + 1 .. want /\ i - n \in 1 .. want - n /\ ~(mark + i <= seen)
        BY <1>3, <1>9, <3>2
      <4>2. (pop.out \o quiet)[i] = 0
        BY <2>2, <2>4, <4>1
      <4>3. w[i] = 0
        BY <2>3, <4>1
      <4> QED BY <4>2, <4>3
    <3>3. i <= n \/ i > n
      BY <1>3
    <3> QED BY <3>1, <3>2, <3>3
  <2>6. pop.out \o quiet = w
    <3>1. ASSUME NEW s \in Seq(Nat), Len(s) = want PROVE s = [i \in 1 .. want |-> s[i]]
      <4>1. s \in [1 .. want -> Nat]
        BY <3>1, LenProperties
      <4> QED BY <4>1
    <3>2. pop.out \o quiet = [i \in 1 .. want |-> (pop.out \o quiet)[i]]
      BY <2>4, <3>1
    <3> QED BY <2>3, <2>5, <3>2
  <2> QED BY <1>8, <2>6 DEF ReadIsWindow, quiet, w
<1> QED BY <1>1, <1>11, <1>12, <1>13, <1>14

(* What a read returns is the window it should be, whatever is pushed, and *)
(* whoever calls, while it copies.                                         *)
THEOREM ReadAlwaysWindow == Spec => []ReadIsWindow
<1>1. Init => RingInv
  BY RingStarts
<1>2. RingInv /\ [Next]_vars => RingInv'
  <2>1. SUFFICES ASSUME RingInv, RingNext \/ UNCHANGED ringVars PROVE RingInv'
    BY StepsOfRing
  <2>2. CASE UNCHANGED ringVars
    BY <2>1, <2>2 DEF ringVars, RingInv, IndicesOK, SlotsOK, ProducerOK, ReadingOK, ReadIsWindow, Mark, Popped
  <2> QED BY <2>1, <2>2, ProducerKeeps, PopBegins, PopCopies, PopEnds DEF RingNext
<1>3. RingInv => ReadIsWindow
  BY DEF RingInv
<1> QED BY <1>1, <1>2, <1>3, PTL DEF Spec

-----------------------------------------------------------------------------
(* Starts and stops                                                        *)

CountInv ==
    /\ IsFiniteSet(started)
    /\ startCount = Cardinality(started)
    /\ handlerOn \in BOOLEAN
    /\ handlerOn <=> started # {}

(* Only BridgeStartIO and BridgeStopIO touch what the device counts.       *)
LEMMA StepsOfCount ==
    ASSUME [Next]_vars
    PROVE  \/ \E dev \in {Dev, Gone}, c \in Client : BridgeStartIO(dev, c) \/ BridgeStopIO(dev, c)
           \/ UNCHANGED <<started, startCount, handlerOn>>
<1>1. ASSUME NEW dev \in {Dev, Gone}, NEW c \in Client, Call(dev, c)
      PROVE  BridgeStartIO(dev, c) \/ BridgeStopIO(dev, c) \/ UNCHANGED <<started, startCount, handlerOn>>
  <2>1. CASE BridgeAddClient(dev, c) \/ BridgeRemoveClient(dev, c)
    BY <2>1 DEF BridgeAddClient, BridgeRemoveClient, AddClient, RemoveClient, NotFound, Reject, ioVars
  <2>2. CASE BridgeGetZeroTimeStamp(dev, c)
    BY <2>2 DEF BridgeGetZeroTimeStamp, GetZeroTimeStamp, NotFound, Reject, ioVars
  <2>3. CASE BridgeBeginIOOperation(dev, c) \/ BridgeEndIOOperation(dev, c)
    BY <2>3 DEF BridgeBeginIOOperation, BridgeEndIOOperation, BeginIOOperation, EndIOOperation,
                NotFound, Reject, ioVars
  <2>4. ASSUME NEW op \in Operation, BridgeWillDoIOOperation(dev, c, op)
        PROVE  UNCHANGED ioVars
    BY <2>4 DEF BridgeWillDoIOOperation, WillDoIOOperation, NotFound, Reject
  <2>5. ASSUME NEW op \in Operation, NEW streamFound \in BOOLEAN,
               BridgeDoIOOperation(dev, streamFound, c, op)
        PROVE  UNCHANGED ioVars
    BY <2>5 DEF BridgeDoIOOperation, DoIOOperation, DoIOOperationImpl, NotFound, Reject
  <2> QED BY <1>1, <2>1, <2>2, <2>3, <2>4, <2>5 DEF Call, ioVars
<1>2. CASE Feed \/ OnReadClientInput \/ Reconfigure \/ Tick \/ UNCHANGED vars
  BY <1>2 DEF Feed, OnReadClientInput, Reconfigure, Tick, vars, ioVars
<1> QED BY <1>1, <1>2 DEF Next

LEMMA CountStarts == Init => CountInv
BY FS_EmptySet DEF Init, CountInv

LEMMA CountKept == ASSUME CountInv, [Next]_vars PROVE CountInv'
<1> USE DEF CountInv
<1>0. IsFiniteSet(started) /\ startCount = Cardinality(started) /\ startCount \in Nat
      /\ (startCount = 0 <=> started = {}) /\ handlerOn \in BOOLEAN /\ (handlerOn <=> started # {})
  BY FS_CardinalityType, FS_EmptySet
<1>1. ASSUME NEW dev \in {Dev, Gone}, NEW c \in Client, BridgeStartIO(dev, c)
      PROVE  CountInv'
  <2>1. CASE NotFound(dev)
    BY <2>1 DEF NotFound, Reject, ioVars
  <2>2. ASSUME NEW ok \in BOOLEAN, c \notin started, StartIO(c, ok),
               started' = IF ok THEN started \cup {c} ELSE started
        PROVE  CountInv'
    <3>1. CASE ok
      <4>1. started' = started \cup {c} /\ startCount' = startCount + 1 /\ handlerOn' = TRUE
        BY <1>0, <2>2, <3>1 DEF StartIO, StartIOImpl
      <4>2. IsFiniteSet(started') /\ Cardinality(started') = Cardinality(started) + 1
        <5>1. /\ IsFiniteSet(started \cup {c})
              /\ Cardinality(started \cup {c}) =
                    IF c \in started THEN Cardinality(started) ELSE Cardinality(started) + 1
          BY <1>0, FS_AddElement
        <5> QED BY <2>2, <4>1, <5>1
      <4> QED BY <1>0, <4>1, <4>2
    <3>2. CASE ~ok
      <4>1. started' = started /\ startCount' = startCount /\ startCount = 0 /\ handlerOn' = FALSE
        BY <1>0, <2>2, <3>2 DEF StartIO, StartIOImpl
      <4> QED BY <1>0, <4>1
    <3> QED BY <3>1, <3>2
  <2> QED BY <1>1, <2>1, <2>2 DEF BridgeStartIO
<1>2. ASSUME NEW dev \in {Dev, Gone}, NEW c \in Client, BridgeStopIO(dev, c)
      PROVE  CountInv'
  <2>1. CASE NotFound(dev)
    BY <2>1 DEF NotFound, Reject, ioVars
  <2>2. CASE c \in started /\ StopIO(c) /\ started' = started \ {c}
    <3>1. /\ startCount' = startCount - 1
          /\ handlerOn' = (handlerOn /\ startCount # 1)
      BY <2>2 DEF StopIO, StopIOImpl
    <3>2. IsFiniteSet(started') /\ Cardinality(started') = Cardinality(started) - 1
      <4>1. /\ IsFiniteSet(started \ {c})
            /\ Cardinality(started \ {c}) =
                  IF c \in started THEN Cardinality(started) - 1 ELSE Cardinality(started)
        BY <1>0, FS_RemoveElement
      <4> QED BY <2>2, <4>1
    <3>3. started' = {} <=> Cardinality(started') = 0
      BY <3>2, FS_EmptySet
    <3>4. startCount' = Cardinality(started') /\ (startCount = 1 <=> started' = {})
      BY <1>0, <3>1, <3>2, <3>3
    <3> QED BY <1>0, <2>2, <3>1, <3>2, <3>4
  <2> QED BY <1>2, <2>1, <2>2 DEF BridgeStopIO
<1>3. CASE UNCHANGED <<started, startCount, handlerOn>>
  BY <1>3
<1> QED BY <1>1, <1>2, <1>3, StepsOfCount

(* The control handler is on exactly while a client's I/O runs, and the    *)
(* device counts those clients, whichever starts the handler refuses.      *)
THEOREM HandlerAlwaysFollows == Spec => []HandlerFollowsClients
<1>1. Init => CountInv
  BY CountStarts
<1>2. CountInv /\ [Next]_vars => CountInv'
  BY CountKept
<1>3. CountInv => HandlerFollowsClients
  BY DEF CountInv, HandlerFollowsClients
<1> QED BY <1>1, <1>2, <1>3, PTL DEF Spec

-----------------------------------------------------------------------------
(* The clock                                                               *)

(* The last stamp lies on the line through the anchor, at the rate the     *)
(* device has now; a rate seen once has its ticks kept.                    *)
ClockInv ==
    /\ rate \in Rate /\ lastSampleRate \in Rate \cup {0}
    /\ ticks \in Nat /\ (lastSampleRate \in Rate => ticks = TicksPerPeriod[lastSampleRate])
    /\ anchor \in Nat /\ now \in Nat /\ anchor <= now
    /\ periodCounter \in Nat
    /\ stamped \in BOOLEAN
    /\ started # {} /\ ~stamped => periodCounter = 0
    /\ started # {} /\ stamped =>
          /\ lastSampleRate = rate
          /\ zero = [sample |-> periodCounter, host |-> anchor + periodCounter * ticks]
          /\ anchor + periodCounter * ticks <= now

LEMMA StepsOfClock ==
    ASSUME [Next]_vars
    PROVE  \/ \E dev \in {Dev, Gone}, c \in Client :
                 BridgeStartIO(dev, c) \/ BridgeStopIO(dev, c) \/ BridgeGetZeroTimeStamp(dev, c)
           \/ Reconfigure \/ Tick
           \/ UNCHANGED <<started, clockVars, now>>
<1>1. ASSUME NEW dev \in {Dev, Gone}, NEW c \in Client, Call(dev, c)
      PROVE  \/ BridgeStartIO(dev, c) \/ BridgeStopIO(dev, c) \/ BridgeGetZeroTimeStamp(dev, c)
             \/ UNCHANGED <<started, clockVars, now>>
  <2>1. CASE BridgeAddClient(dev, c) \/ BridgeRemoveClient(dev, c)
    BY <2>1 DEF BridgeAddClient, BridgeRemoveClient, AddClient, RemoveClient, NotFound, Reject, ioVars
  <2>2. CASE BridgeBeginIOOperation(dev, c) \/ BridgeEndIOOperation(dev, c)
    BY <2>2 DEF BridgeBeginIOOperation, BridgeEndIOOperation, BeginIOOperation, EndIOOperation,
                NotFound, Reject, ioVars
  <2>3. ASSUME NEW op \in Operation, BridgeWillDoIOOperation(dev, c, op)
        PROVE  UNCHANGED <<ioVars, now>>
    BY <2>3 DEF BridgeWillDoIOOperation, WillDoIOOperation, NotFound, Reject
  <2>4. ASSUME NEW op \in Operation, NEW streamFound \in BOOLEAN,
               BridgeDoIOOperation(dev, streamFound, c, op)
        PROVE  UNCHANGED <<ioVars, now>>
    BY <2>4 DEF BridgeDoIOOperation, DoIOOperation, DoIOOperationImpl, NotFound, Reject
  <2> QED BY <1>1, <2>1, <2>2, <2>3, <2>4 DEF Call, ioVars
<1>2. CASE Feed \/ OnReadClientInput \/ UNCHANGED vars
  BY <1>2 DEF Feed, OnReadClientInput, vars, ioVars
<1> QED BY <1>1, <1>2 DEF Next

LEMMA ClockStarts == Init => ClockInv
<1> SUFFICES ASSUME Init PROVE ClockInv OBVIOUS
<1>1. /\ rate \in Rate /\ lastSampleRate = 0 /\ ticks = 0 /\ anchor = 0 /\ periodCounter = 0
      /\ now = 0 /\ started = {} /\ stamped = FALSE
  BY DEF Init
<1>2. lastSampleRate \notin Rate /\ stamped \in BOOLEAN
  BY <1>1, ClockAssumption
<1>3. ~(started # {})
  BY <1>1
<1>4. anchor <= now
  BY <1>1
<1> HIDE DEF Init
<1> QED BY <1>1, <1>2, <1>3, <1>4 DEF ClockInv

(* The ticks a stamp is computed with are those of the present rate.       *)
LEMMA TicksOfRate == ASSUME ClockInv PROVE HostTicks = TicksPerPeriod[rate] /\ HostTicks \in Nat \ {0}
BY ClockAssumption DEF ClockInv, HostTicks

\* All that HAL needs of the stamp it is given.
StampOK ==
    /\ zero'.host <= now
    /\ stamped => OneStep(zero)
    /\ ~stamped => OneStep([sample |-> 0, host |-> anchor])

(* A call for the clock: the counter moves by one at most, and not past    *)
(* the host's time.                                                        *)
LEMMA StampKept ==
    ASSUME ClockInv, NEW dev \in {Dev, Gone}, NEW c \in Client,
           BridgeGetZeroTimeStamp(dev, c), Found(dev)
    PROVE  ClockInv' /\ StampOK
<1> DEFINE t == TicksPerPeriod[rate]
           pc == periodCounter
<1>1. /\ rate \in Rate /\ anchor \in Nat /\ now \in Nat /\ anchor <= now /\ pc \in Nat
      /\ stamped \in BOOLEAN
  BY DEF ClockInv
<1>2. c \in started /\ GetZeroTimeStamp /\ stamped' = TRUE /\ UNCHANGED <<started, now>>
  BY DEF BridgeGetZeroTimeStamp, NotFound
<1>3. HostTicks = t /\ t \in Nat \ {0}
  BY TicksOfRate
<1>4. /\ lastSampleRate' = rate /\ ticks' = t /\ UNCHANGED <<rate, anchor>>
      /\ periodCounter' = NextPeriod
      /\ zero' = [sample |-> NextPeriod, host |-> anchor + NextPeriod * t]
  BY <1>2, <1>3 DEF GetZeroTimeStamp, GetZeroTimeStampImpl, PeriodAt
<1>5. PICK n \in {0, 1} : /\ NextPeriod = pc + n
                          /\ n = 1 => anchor + (pc + 1) * t <= now
  <2>1. CASE now >= PeriodAt(pc + 1)
    BY <1>1, <1>3, <2>1 DEF NextPeriod, PeriodAt
  <2>2. CASE ~(now >= PeriodAt(pc + 1))
    BY <1>1, <2>2 DEF NextPeriod
  <2> QED BY <2>1, <2>2
<1>6. stamped => /\ zero = [sample |-> pc, host |-> anchor + pc * t]
                 /\ anchor + pc * t <= now
  BY <1>2, <1>3 DEF ClockInv, HostTicks
<1>7. ~stamped => pc = 0
  BY <1>2 DEF ClockInv
<1> HIDE DEF t, pc
<1>8. (pc + n) * t = pc * t + n * t /\ (pc + n) * t \in Nat /\ pc + n \in Nat
  <2>1. pc * t \in Nat /\ n * t \in Nat
    BY <1>1, <1>3
  <2>2. CASE n = 0
    BY <1>1, <1>3, <2>1, <2>2
  <2>3. CASE n = 1
    <3>1. (pc + 1) * t = pc * t + t
      BY <1>1, <1>3
    <3> QED BY <1>1, <1>3, <2>1, <2>3, <3>1
  <2> QED BY <2>2, <2>3
<1>9. anchor + (pc + n) * t <= now
  <2>1. CASE n = 1
    BY <1>5, <2>1
  <2>2. CASE n = 0 /\ stamped
    BY <1>1, <1>6, <2>2
  <2>3. CASE n = 0 /\ ~stamped
    <3>1. (pc + n) * t = 0
      BY <1>3, <1>7, <2>3
    <3> QED BY <1>1, <3>1
  <2> QED BY <1>1, <2>1, <2>2, <2>3
<1>10. zero' = [sample |-> pc + n, host |-> anchor + (pc + n) * t] /\ periodCounter' = pc + n
  BY <1>4, <1>5
<1>11. ClockInv'
  <2>1. lastSampleRate' \in Rate /\ ticks' = TicksPerPeriod[lastSampleRate']
    BY <1>1, <1>4 DEF t
  <2> QED BY <1>1, <1>2, <1>3, <1>4, <1>8, <1>9, <1>10, <2>1 DEF ClockInv
<1>12. StampOK
  <2>1. zero'.sample = pc + n /\ zero'.host = anchor + (pc + n) * t
    BY <1>10
  <2>2. stamped => zero'.sample = zero.sample + n /\ zero'.host = zero.host + n * t
    <3>1. SUFFICES ASSUME stamped
                   PROVE  zero'.sample = zero.sample + n /\ zero'.host = zero.host + n * t
      OBVIOUS
    <3>2. zero.sample = pc /\ zero.host = anchor + pc * t
      BY <1>6, <3>1
    <3>3. pc * t \in Nat /\ n * t \in Nat
      BY <1>1, <1>3
    <3>4. anchor + (pc * t + n * t) = (anchor + pc * t) + n * t
      BY <1>1, <3>3
    <3> QED BY <1>8, <2>1, <3>2, <3>4
  <2>3. ~stamped => zero'.sample = 0 + n /\ zero'.host = anchor + n * t
    BY <1>1, <1>3, <1>5, <1>7, <2>1
  <2>4. zero'.host <= now
    BY <1>9, <2>1
  <2> QED BY <2>2, <2>3, <2>4 DEF StampOK, OneStep, t
<1> QED BY <1>11, <1>12

LEMMA ClockKept == ASSUME CountInv, ClockInv, [Next]_vars PROVE ClockInv'
<1>1. ASSUME NEW dev \in {Dev, Gone}, NEW c \in Client, BridgeStartIO(dev, c)
      PROVE  ClockInv'
  <2>1. CASE NotFound(dev)
    BY <2>1 DEF NotFound, Reject, ioVars, clockVars, ClockInv
  <2>2. ASSUME NEW ok \in BOOLEAN, StartIO(c, ok),
               started' = IF ok THEN started \cup {c} ELSE started,
               stamped' = (stamped /\ started # {}), now' = now
        PROVE  ClockInv'
    <3>1. UNCHANGED <<rate, lastSampleRate, ticks, zero, now>>
      BY <2>2 DEF StartIO
    <3>2. CASE started = {}
      <4>1. startCount = 0
        BY <3>2, FS_EmptySet DEF CountInv
      <4>2. ~stamped' /\ stamped' \in BOOLEAN
        BY <2>2, <3>2
      <4>3. CASE ok
        <5>1. anchor' = now /\ periodCounter' = 0
          BY <2>2, <4>1, <4>3 DEF StartIO, StartIOImpl
        <5>2. anchor' \in Nat /\ anchor' <= now'
          BY <3>1, <5>1 DEF ClockInv
        <5> QED BY <3>1, <4>2, <5>1, <5>2 DEF ClockInv
      <4>4. CASE ~ok
        <5>1. UNCHANGED <<anchor, periodCounter, started>>
          BY <2>2, <4>1, <4>4 DEF StartIO, StartIOImpl
        <5> QED BY <3>1, <3>2, <4>2, <5>1 DEF ClockInv
      <4> QED BY <4>3, <4>4
    <3>3. CASE started # {}
      <4>1. startCount # 0
        BY <3>3, FS_EmptySet DEF CountInv
      <4>2. UNCHANGED <<anchor, periodCounter>> /\ stamped' = stamped
        <5>1. stamped \in BOOLEAN
          BY DEF ClockInv
        <5> QED BY <2>2, <3>3, <4>1, <5>1 DEF StartIO, StartIOImpl
      <4> QED BY <3>1, <3>3, <4>2 DEF ClockInv
    <3> QED BY <3>2, <3>3
  <2> QED BY <1>1, <2>1, <2>2 DEF BridgeStartIO
<1>2. ASSUME NEW dev \in {Dev, Gone}, NEW c \in Client, BridgeStopIO(dev, c)
      PROVE  ClockInv'
  <2>1. UNCHANGED <<clockVars, now>> /\ started' \subseteq started
    BY <1>2 DEF BridgeStopIO, NotFound, Reject, StopIO, ioVars
  <2>2. started' # {} => started # {}
    BY <2>1
  <2> QED BY <2>1, <2>2 DEF clockVars, ClockInv
<1>3. ASSUME NEW dev \in {Dev, Gone}, NEW c \in Client, BridgeGetZeroTimeStamp(dev, c)
      PROVE  ClockInv'
  <2>1. CASE ~Found(dev)
    BY <1>3, <2>1 DEF NotFound, Reject, ioVars, clockVars, ClockInv, BridgeGetZeroTimeStamp
  <2> QED BY <1>3, <2>1, StampKept
<1>4. CASE Reconfigure
  <2>1. started' = {} /\ rate' \in Rate
        /\ UNCHANGED <<lastSampleRate, ticks, anchor, now, periodCounter, stamped>>
    BY <1>4 DEF Reconfigure
  <2> QED BY <2>1 DEF ClockInv
<1>5. CASE Tick
  <2>1. now' = now + 1 /\ UNCHANGED <<clockVars, started>>
    BY <1>5 DEF Tick, ioVars
  <2>2. anchor' <= now' /\ now' \in Nat
    BY <2>1 DEF ClockInv, clockVars
  <2>3. started # {} /\ stamped => anchor + periodCounter * ticks <= now'
    <3>1. SUFFICES ASSUME started # {}, stamped PROVE anchor + periodCounter * ticks <= now'
      OBVIOUS
    <3>2. anchor + periodCounter * ticks <= now /\ anchor \in Nat /\ now \in Nat
          /\ periodCounter \in Nat /\ ticks \in Nat
      BY <3>1 DEF ClockInv
    <3>3. periodCounter * ticks \in Nat
      BY <3>2
    <3> DEFINE elapsed == periodCounter * ticks
    <3> HIDE DEF elapsed
    <3>4. anchor + elapsed <= now' 
      BY <2>1, <3>2, <3>3 DEF elapsed
    <3> QED BY <3>4 DEF elapsed
  <2> QED BY <2>1, <2>2, <2>3 DEF ClockInv, clockVars
<1>6. CASE UNCHANGED <<started, clockVars, now>>
  BY <1>6 DEF clockVars, ClockInv
<1> QED BY <1>1, <1>2, <1>3, <1>4, <1>5, <1>6, StepsOfClock

(* A step that sets the stamp is a call for the clock.                     *)
LEMMA ClockSteps ==
    ASSUME CountInv, ClockInv, [Next]_vars,
           stamped', started # {}, ~stamped \/ zero' # zero \/ ticks' # ticks
    PROVE  StampOK
<1>1. ASSUME NEW dev \in {Dev, Gone}, NEW c \in Client, BridgeStartIO(dev, c)
      PROVE  FALSE
  <2>1. UNCHANGED <<zero, ticks>> /\ (stamped' => stamped)
    BY <1>1 DEF BridgeStartIO, NotFound, Reject, ioVars, clockVars, StartIO
  <2> QED BY <2>1
<1>2. ASSUME NEW dev \in {Dev, Gone}, NEW c \in Client, BridgeStopIO(dev, c)
      PROVE  FALSE
  <2>1. UNCHANGED <<zero, ticks, stamped>>
    BY <1>2 DEF BridgeStopIO, NotFound, Reject, StopIO, ioVars, clockVars
  <2> QED BY <2>1
<1>3. ASSUME NEW dev \in {Dev, Gone}, NEW c \in Client, BridgeGetZeroTimeStamp(dev, c)
      PROVE  StampOK
  <2>1. CASE ~Found(dev)
    BY <1>3, <2>1 DEF NotFound, Reject, ioVars, clockVars, BridgeGetZeroTimeStamp
  <2> QED BY <1>3, <2>1, StampKept
<1>4. CASE Reconfigure \/ Tick \/ UNCHANGED <<started, clockVars, now>>
  BY <1>4 DEF Reconfigure, Tick, ioVars, clockVars
<1> QED BY <1>1, <1>2, <1>3, <1>4, StepsOfClock

(* While I/O runs the clock moves by whole periods and is never ahead.     *)
THEOREM ClockAlwaysAdvances == Spec => ClockAdvances
<1>1. Init => CountInv /\ ClockInv
  BY CountStarts, ClockStarts
<1>2. CountInv /\ ClockInv /\ [Next]_vars => (CountInv /\ ClockInv)'
  BY CountKept, ClockKept
<1>3. CountInv /\ ClockInv /\ [Next]_vars
      => (stamped' /\ started # {} /\ (~stamped \/ zero' # zero \/ ticks' # ticks) => StampOK)
  BY ClockSteps
<1>4. [](CountInv /\ ClockInv) /\ [][Next]_vars => ClockAdvances
  BY <1>3, PTL DEF ClockAdvances, StampOK
<1> QED BY <1>1, <1>2, <1>4, PTL DEF Spec


-----------------------------------------------------------------------------
(* Audio frames                                                            *)
(*                                                                         *)
(* Entries hold what they should, and only the notification task has one   *)
(* under way that is not stamped yet.                                      *)

PathEntry == [n : Packet \cup {None}, drops : Nat, route : 0 .. MaxCalls]

FramesTyped ==
    /\ path \in {"ble", "legacy", "usb"} /\ board \in Restarts
    /\ {route, bumps, calls, drops, blamed} \subseteq Nat /\ route + bumps <= calls /\ calls <= MaxCalls
    /\ heard \in Int /\ lastRoute \in 0 .. MaxCalls
    /\ poll # None =>
         /\ poll \in [n : Packet, drops : Nat, route : 0 .. MaxCalls \cup {None}]
         /\ poll.route = lastRoute \/ (poll.route = None /\ poll.drops = 0)
    /\ queue \in Seq(PathEntry)
    /\ taken # None => taken \in PathEntry
    /\ active \in 0 .. MaxCalls \cup {None} /\ full \in [0 .. MaxCalls -> Nat]
    /\ newest \in Packet \cup {None}
    /\ path = "usb" => /\ poll = None /\ \A i \in DOMAIN queue : queue[i].route = 0
                       /\ active \in {None, 0} /\ (taken # None => taken.route = 0)

\* The tracker stands at the newest packet taken since its reset.
TrackerAt(m) == IF m = None \/ ~Sequenced THEN None ELSE Seqno(m)
TrackerOK ==
    /\ last = TrackerAt(newest)
    /\ active = None => blamed = 0

\* Nothing of before the encoder's restart follows what was made since.
Since(n) == n # None /\ n >= board.restart
Before(n) == n # None /\ n < board.restart
SinceFrom(i) ==
    /\ \A j \in i .. Len(queue) : ~Before(queue[j].n)
    /\ poll # None => ~Before(poll.n)
    /\ heard >= board.restart
RestartOK ==
    /\ poll # None /\ Since(poll.n) => heard >= board.restart
    /\ \A i \in 1 .. Len(queue) : Since(queue[i].n) => SinceFrom(i + 1)
    /\ taken # None /\ Since(taken.n) => SinceFrom(1)
    /\ Since(newest) => SinceFrom(1) /\ (taken # None => ~Before(taken.n))

\* Of the entries each route has lost, what the frames have told, what the
\* entries in hand and in the queue will tell and what waits for an entry are
\* different ones: p counts them from the decoder back to the sender.
Weight(e, r) == IF e.route = r THEN e.drops ELSE 0
Blamed(r) == IF active = r THEN blamed ELSE 0
InHand(r) == IF taken = None THEN 0 ELSE Weight(taken, r)
Waiting(r) == (IF lastRoute = r THEN drops ELSE 0) + (IF poll = None THEN 0 ELSE Weight(poll, r))
Apart(p, r) ==
    /\ p[0] >= Blamed(r) + InHand(r)
    /\ \A i \in 1 .. Len(queue) : p[i] >= p[i - 1] + Weight(queue[i], r)
    /\ p[Len(queue)] + Waiting(r) <= full[r]
LossOK == \A r \in 0 .. MaxCalls : \E p \in [0 .. Len(queue) -> Nat] : Apart(p, r)

FrameInv == FramesTyped /\ TrackerOK /\ RestartOK /\ LossOK /\ LossExact /\ OnlyOldRefused

-----------------------------------------------------------------------------
(* Sequence numbers.                                                       *)

LEMMA FrameSizes ==
    /\ MaxPackets \in Nat /\ MaxCalls \in Nat /\ Modulus \in Nat /\ Modulus > 0 /\ None \notin Int
    /\ Half \in Nat /\ Half > MaxPackets + 1 /\ 2 * Half <= Modulus /\ FirstSeqno \in Nat
    /\ QueueLimit \in Nat /\ QueueLimit >= 2
<1>1. /\ MaxPackets \in Nat /\ MaxCalls \in Nat /\ Modulus \in Nat /\ None \notin Int /\ FirstSeqno \in Nat
      /\ Half > MaxPackets + 1 /\ QueueLimit \in Nat /\ QueueLimit >= 2 /\ Half = Modulus \div 2
      /\ FirstSeqno \in 0 .. Modulus - 1
  BY SizesAssumption DEF Half
<1>2. Modulus > 0
  BY <1>1
<1>3. Modulus % 2 \in 0 .. 1 /\ Half \in Int /\ Modulus = 2 * Half + (Modulus % 2)
  BY <1>1, DivMod
<1> QED BY <1>1, <1>2, <1>3

LEMMA BoardFields == ASSUME FramesTyped PROVE board.restart \in Nat /\ board.shift \in Nat
  BY SizesAssumption, SMTT(30) DEF FramesTyped

LEMMA NumberedRange == ASSUME FramesTyped, NEW n \in Packet PROVE Seqno(n) \in 0 .. Modulus - 1
<1> DEFINE a == FirstSeqno + n + (IF n >= board.restart THEN board.shift ELSE 0)
<1>1. a \in Int
  BY FrameSizes, BoardFields DEF Packet
<1> HIDE DEF a
<1>2. a % Modulus \in 0 .. Modulus - 1
  BY <1>1, FrameSizes, DivMod
<1> QED BY <1>2 DEF a, Seqno

\* The distance of two packets of one numbering, in both directions.
LEMMA NumbersApart ==
  ASSUME FramesTyped, NEW n \in Packet, NEW m \in Packet, Since(n) <=> Since(m)
  PROVE  /\ n >= m => (Seqno(n) - Seqno(m)) % Modulus = n - m
         /\ n < m => (Seqno(n) - Seqno(m)) % Modulus = Modulus - (m - n)
<1> DEFINE s == IF n >= board.restart THEN board.shift ELSE 0
           a == FirstSeqno + n + s
           b == FirstSeqno + m + s
<1>1. n \in Nat /\ m \in Nat /\ n <= MaxPackets /\ m <= MaxPackets /\ s \in Nat
  BY FrameSizes, BoardFields DEF Packet
<1>2. Seqno(n) = a % Modulus /\ Seqno(m) = b % Modulus
  BY <1>1, FrameSizes DEF Seqno, Since
<1> HIDE DEF s
<1>3. a \in Int /\ b \in Int
  BY <1>1, FrameSizes
<1>4. /\ a % Modulus \in Int /\ b % Modulus \in Int /\ a \div Modulus \in Int /\ b \div Modulus \in Int
      /\ a = Modulus * (a \div Modulus) + (a % Modulus) /\ b = Modulus * (b \div Modulus) + (b % Modulus)
  <2> HIDE DEF a, b
  <2>1. ASSUME NEW x \in Int
        PROVE  x % Modulus \in Int /\ x \div Modulus \in Int /\ x = Modulus * (x \div Modulus) + (x % Modulus)
    BY FrameSizes, DivMod
  <2> QED BY <1>3, <2>1
<1>5. PICK q \in Int : Seqno(n) - Seqno(m) = Modulus * q + (n - m)
  <2>1. (b \div Modulus) - (a \div Modulus) \in Int
    BY <1>4
  <2>2. a - b = n - m
    BY <1>1, FrameSizes
  <2>3. /\ Modulus * (a \div Modulus) \in Int /\ Modulus * (b \div Modulus) \in Int
        /\ Modulus * ((b \div Modulus) - (a \div Modulus)) = Modulus * (b \div Modulus) - Modulus * (a \div Modulus)
    BY <1>4, FrameSizes
  <2> HIDE DEF a, b
  <2>4. (a % Modulus) - (b % Modulus) = Modulus * ((b \div Modulus) - (a \div Modulus)) + (n - m)
    BY <1>1, <1>3, <1>4, <2>2, <2>3
  <2> QED BY <1>2, <2>1, <2>4
<1>6. CASE n >= m
  <2>1. n - m \in 0 .. Modulus - 1
    BY <1>1, <1>6, FrameSizes
  <2>2. (Modulus * q + (n - m)) % Modulus = n - m
    BY <2>1, FrameSizes, Unique
  <2> QED BY <1>1, <1>5, <1>6, <2>2
<1>7. CASE n < m
  <2>1. Modulus - (m - n) \in 0 .. Modulus - 1 /\ q - 1 \in Int
    BY <1>1, <1>7, FrameSizes
  <2>2. Modulus * q + (n - m) = Modulus * (q - 1) + (Modulus - (m - n))
    BY <1>1, FrameSizes
  <2> DEFINE r == Modulus - (m - n)
  <2>3. r \in 0 .. Modulus - 1
    BY <2>1
  <2> HIDE DEF r
  <2>4. (Modulus * (q - 1) + r) % Modulus = r
    BY <2>1, <2>3, FrameSizes, Unique
  <2> QED BY <1>1, <1>5, <1>7, <2>2, <2>4 DEF r
<1> QED BY <1>1, <1>6, <1>7

\* What the tracker says of a packet of the numbering it stands at.
LEMMA VerdictExact ==
  ASSUME FramesTyped, Sequenced, NEW n \in Packet, NEW m \in Packet, ~Flagged(n), Since(n) <=> Since(m)
  PROVE  /\ n > m => Verdict(n, Seqno(m)) = [old |-> FALSE, missing |-> n - m - 1, last |-> Seqno(n)]
         /\ n <= m => Verdict(n, Seqno(m)).old
<1>1. n \in Nat /\ m \in Nat /\ n <= MaxPackets /\ m <= MaxPackets
  BY FrameSizes DEF Packet
<1>2. Seqno(m) # None
  BY NumberedRange, FrameSizes
<1> DEFINE delta == (Seqno(n) - Seqno(m)) % Modulus
<1>3. Verdict(n, Seqno(m)) = IF delta \in 1 .. Half - 1
                             THEN [old |-> FALSE, missing |-> delta - 1, last |-> Seqno(n)]
                             ELSE [old |-> TRUE, missing |-> 0, last |-> Seqno(m)]
  BY <1>2 DEF Verdict, Observe
<1>4. CASE n > m
  <2>1. delta = n - m
    BY <1>1, <1>4, NumbersApart
  <2> HIDE DEF delta
  <2>2. delta \in 1 .. Half - 1 /\ ~(n <= m)
    BY <1>1, <1>4, <2>1, FrameSizes
  <2>3. Verdict(n, Seqno(m)) = [old |-> FALSE, missing |-> delta - 1, last |-> Seqno(n)]
    BY <1>3, <2>2
  <2> QED BY <2>1, <2>2, <2>3
<1>5. CASE n = m
  <2>1. delta = 0
    BY <1>1, <1>5, NumbersApart
  <2>2. delta \notin 1 .. Half - 1
    BY <2>1
  <2> QED BY <1>1, <1>3, <1>5, <2>2
<1>6. CASE n < m
  <2>1. delta = Modulus - (m - n)
    BY <1>1, <1>6, NumbersApart
  <2>2. delta \notin 1 .. Half - 1
    BY <1>1, <1>6, <2>1, FrameSizes
  <2> QED BY <1>1, <1>3, <1>6, <2>2
<1> QED BY <1>1, <1>4, <1>5, <1>6

LEMMA VerdictTyped ==
  ASSUME FramesTyped, NEW n \in Packet, NEW m \in Packet \cup {None}
  PROVE  LET v == Verdict(n, TrackerAt(m))
         IN  /\ v.old \in BOOLEAN /\ v.missing \in Nat
             /\ v.last = TrackerAt(IF v.old THEN m ELSE n)
             /\ v.old => Sequenced /\ m # None /\ ~Flagged(n) /\ v = Verdict(n, Seqno(m))
<1>1. n # None /\ (m # None => m \in Packet)
  BY FrameSizes DEF Packet
<1>2. CASE ~Sequenced
  BY <1>1, <1>2 DEF Verdict, TrackerAt
<1>3. CASE Sequenced /\ (m = None \/ Flagged(n))
  <2>1. Verdict(n, TrackerAt(m)) = [old |-> FALSE, missing |-> 0, last |-> Seqno(n)]
    BY <1>3 DEF Verdict, TrackerAt, Observe
  <2>2. TrackerAt(n) = Seqno(n)
    BY <1>1, <1>3 DEF TrackerAt
  <2> DEFINE v == Verdict(n, TrackerAt(m))
  <2>3. v.old = FALSE /\ v.missing = 0 /\ v.last = Seqno(n)
    BY <2>1
  <2> HIDE DEF v
  <2>5. v.old \in BOOLEAN /\ ~v.old
    BY <2>3
  <2>6. (IF v.old THEN m ELSE n) = n
    BY <2>5
  <2>7. v.last = TrackerAt(IF v.old THEN m ELSE n)
    BY <2>2, <2>3, <2>6
  <2>4. v.old \in BOOLEAN /\ v.missing \in Nat /\ v.last = TrackerAt(IF v.old THEN m ELSE n) /\ ~v.old
    BY <2>3, <2>5, <2>7
  <2> QED BY <2>4 DEF v
<1>4. CASE Sequenced /\ m # None /\ ~Flagged(n)
  <2>1. TrackerAt(m) = Seqno(m) /\ Seqno(m) # None
    BY <1>1, <1>4, NumberedRange, FrameSizes DEF TrackerAt
  <2> DEFINE delta == (Seqno(n) - Seqno(m)) % Modulus
  <2>2. Verdict(n, Seqno(m)) = IF delta \in 1 .. Half - 1
                               THEN [old |-> FALSE, missing |-> delta - 1, last |-> Seqno(n)]
                               ELSE [old |-> TRUE, missing |-> 0, last |-> Seqno(m)]
    BY <1>4, <2>1 DEF Verdict, Observe
  <2> HIDE DEF delta
  <2>3. CASE delta \in 1 .. Half - 1
    <3>1. Verdict(n, Seqno(m)) = [old |-> FALSE, missing |-> delta - 1, last |-> Seqno(n)] /\ delta - 1 \in Nat
      BY <2>2, <2>3, FrameSizes
    <3>2. TrackerAt(n) = Seqno(n)
      BY <1>1, <1>4 DEF TrackerAt
    <3> QED BY <2>1, <3>1, <3>2
  <2>4. CASE delta \notin 1 .. Half - 1
    <3>1. Verdict(n, Seqno(m)) = [old |-> TRUE, missing |-> 0, last |-> Seqno(m)]
      BY <2>2, <2>4
    <3> QED BY <1>4, <2>1, <3>1
  <2> QED BY <2>3, <2>4
<1> QED BY <1>2, <1>3, <1>4


-----------------------------------------------------------------------------
(* The decoder's verdict.                                                  *)

\* A verdict on the entry in hand, with the tracker at packet m.
LEMMA Decoded ==
  ASSUME FramesTyped, UNCHANGED boardVars, NEW m \in Packet \cup {None}, NEW f, NEW b \in Nat, NEW broken \in 0 .. Frames,
         taken.n \in Packet, taken.drops \in Nat, Since(m) => ~Before(taken.n),
         OnPacket(TrackerAt(m), m, f, b, broken)
  PROVE  /\ newest' \in {m, taken.n} /\ last' = TrackerAt(newest')
         /\ blamed' \in Nat /\ blamed' <= b + taken.drops
         /\ OnlyOldRefused' /\ LossExact'
<1> DEFINE n == taken.n
           v == Verdict(n, TrackerAt(m))
           local == IF Sequenced THEN Least(taken.drops, v.missing) ELSE taken.drops
           wire == v.missing - Least(local, v.missing)
<1>1. /\ last' = v.last /\ newest' = IF v.old THEN m ELSE n
      /\ v.old => out' = [kind |-> "refused", n |-> n, newest |-> m] /\ blamed' = b
      /\ ~v.old => \/ out' = None /\ blamed' = b
                   \/ /\ out' = [kind |-> "frame", n |-> n, newest |-> m, prev |-> f, flagged |-> Flagged(n),
                                 gap |-> wire * Frames, local |-> local * Frames + broken, broken |-> broken]
                      /\ blamed' = b + local
  BY DEF OnPacket
<1>2. /\ v.old \in BOOLEAN /\ v.missing \in Nat /\ v.last = TrackerAt(IF v.old THEN m ELSE n)
      /\ v.old => Sequenced /\ m # None /\ ~Flagged(n) /\ v = Verdict(n, Seqno(m))
  BY VerdictTyped
<1>3. /\ path' = path /\ board' = board /\ n \in Nat /\ (m # None => m \in Packet /\ m \in Nat) /\ board.restart \in Nat
  BY FrameSizes, BoardFields DEF boardVars, Packet
<1>4. m # None /\ Sequenced /\ ~Flagged(n) /\ SameNumbering(m, n) => (Since(n) <=> Since(m))
  <2>1. n # None
    BY <1>3, FrameSizes
  <2> QED BY <1>3, <2>1 DEF SameNumbering, Since, Before, Flagged
<1>5. local \in Nat /\ local <= taken.drops /\ (Sequenced => local <= v.missing /\ wire = v.missing - local)
  <2> HIDE DEF v, n
  <2>1. \A i, j \in Nat : Least(i, j) \in Nat /\ Least(i, j) <= i /\ Least(i, j) <= j /\ (i <= j => Least(i, j) = i)
    BY DEF Least
  <2>2. CASE Sequenced
    <3>1. local = Least(taken.drops, v.missing)
      BY <2>2
    <3>4. v.missing \in Nat
      BY <1>2
    <3>2. local \in Nat /\ local <= taken.drops /\ local <= v.missing
      <4> HIDE DEF local
      <4> QED BY <2>1, <3>1, <3>4
    <3> HIDE DEF local
    <3>3. Least(local, v.missing) = local
      BY <1>2, <2>1, <3>2, ZenonT(30)
    <3> QED BY <3>2, <3>3
  <2>3. CASE ~Sequenced
    BY <2>3
  <2> QED BY <2>2, <2>3
<1> HIDE DEF v, local, wire
<1>6. newest' \in {m, n} /\ last' = TrackerAt(newest')
  <2>1. last' = TrackerAt(IF v.old THEN m ELSE n)
    BY <1>1, <1>2
  <2>2. newest' = IF v.old THEN m ELSE n
    BY <1>1
  <2> HIDE DEF n
  <2>3. last' = TrackerAt(newest')
    BY <2>1, <2>2
  <2> QED BY <2>2, <2>3
<1>7. blamed' \in Nat /\ blamed' <= b + taken.drops
  BY <1>1, <1>5
<1>8. OnlyOldRefused'
  <2> SUFFICES ASSUME out' # None, out'.kind = "refused", ~(out'.n <= out'.newest), SameNumbering(out'.newest, out'.n)
               PROVE  FALSE
    BY <1>3 DEF OnlyOldRefused, SameNumbering
  <2>1. v.old
    <3>1. ASSUME ~v.old PROVE FALSE
      <4>1. out'.kind = "frame"
        BY <1>1, <3>1
      <4> QED BY <4>1
    <3> QED BY <3>1
  <2>2. out'.n = n /\ out'.newest = m
    BY <1>1, <2>1
  <2>3. m # None /\ Sequenced /\ ~Flagged(n) /\ v = Verdict(n, Seqno(m)) /\ SameNumbering(m, n) /\ n > m
    <3>1. m # None /\ Sequenced /\ ~Flagged(n) /\ v = Verdict(n, Seqno(m))
      BY <1>2, <2>1
    <3>2. SameNumbering(m, n) /\ ~(n <= m)
      BY <2>2
    <3> QED BY <1>3, <3>1, <3>2
  <2>4. Since(n) <=> Since(m)
    BY <1>4, <2>3
  <2>5. v = [old |-> FALSE, missing |-> n - m - 1, last |-> Seqno(n)]
    BY <1>3, <2>3, <2>4, VerdictExact
  <2> QED BY <2>1, <2>5
<1>9. LossExact'
  <2> SUFFICES ASSUME Heard', Sequenced', ~out'.flagged, out'.prev # None, out'.prev = out'.newest,
                      SameNumbering(out'.prev, out'.n)
               PROVE  /\ out'.n > out'.prev
                      /\ out'.gap + out'.local - out'.broken = Frames' * (out'.n - out'.prev - 1)
    BY <1>3 DEF LossExact, SameNumbering
  <2>1. ~v.old /\ out' = [kind |-> "frame", n |-> n, newest |-> m, prev |-> f, flagged |-> Flagged(n),
                          gap |-> wire * Frames, local |-> local * Frames + broken, broken |-> broken]
    <3>1. out' # None /\ out'.kind = "frame"
      BY DEF Heard
    <3> QED BY <1>1, <3>1
  <2>2. /\ out'.n = n /\ out'.newest = m /\ out'.prev = m /\ ~Flagged(n)
        /\ out'.gap = wire * Frames /\ out'.local = local * Frames + broken /\ out'.broken = broken
    BY <2>1
  <2>3. m # None /\ Sequenced /\ SameNumbering(m, n) /\ Frames' = Frames
    <3>1. Sequenced /\ Frames' = Frames
      BY <1>3 DEF Sequenced, Frames
    <3>2. m # None /\ SameNumbering(m, n)
      BY <2>2
    <3> QED BY <3>1, <3>2
  <2>4. (Since(n) <=> Since(m)) /\ m \in Packet
    BY <1>3, <1>4, <2>2, <2>3
  <2>5. v = Verdict(n, Seqno(m))
    BY <2>3 DEF v, TrackerAt
  <2>6. n > m /\ v.missing = n - m - 1
    <3>1. n <= m => v.old
      BY <2>2, <2>3, <2>4, <2>5, VerdictExact
    <3>2. n > m
      BY <1>3, <2>1, <2>3, <3>1
    <3>3. v = [old |-> FALSE, missing |-> n - m - 1, last |-> Seqno(n)]
      BY <2>2, <2>3, <2>4, <2>5, <3>2, VerdictExact
    <3> QED BY <3>2, <3>3
  <2>7. wire = v.missing - local /\ local \in Nat /\ v.missing \in Nat /\ local <= v.missing
    BY <1>2, <1>5, <2>3
  <2>8. ASSUME NEW frames \in {1, 2}, NEW miss \in Nat, NEW l \in Nat, l <= miss, NEW undecoded \in 0 .. frames
        PROVE  (miss - l) * frames + (l * frames + undecoded) - undecoded = frames * miss
    BY <2>8
  <2>9. Frames \in {1, 2}
    BY DEF Frames
  <2>10. (v.missing - local) * Frames + (local * Frames + broken) - broken = Frames * v.missing
    BY <2>7, <2>8, <2>9
  <2> QED BY <2>2, <2>3, <2>6, <2>7, <2>10
<1> QED BY <1>6, <1>7, <1>8, <1>9


-----------------------------------------------------------------------------
(* The queues.                                                             *)

LEMMA Weights ==
  ASSUME FramesTyped, NEW r \in 0 .. MaxCalls
  PROVE  /\ Blamed(r) \in Nat /\ InHand(r) \in Nat /\ Waiting(r) \in Nat /\ full[r] \in Nat
         /\ \A i \in 1 .. Len(queue) : Weight(queue[i], r) \in Nat
<1>1. Blamed(r) \in Nat
  BY DEF FramesTyped, Blamed
<1>2. InHand(r) \in Nat
  BY DEF FramesTyped, InHand, Weight, PathEntry
<1>3. Waiting(r) \in Nat
  <2>1. drops \in Nat
    BY DEF FramesTyped
  <2>2. poll # None => poll.drops \in Nat
    BY DEF FramesTyped
  <2> QED BY <2>1, <2>2 DEF Waiting, Weight
<1>4. full[r] \in Nat
  BY DEF FramesTyped
<1>5. ASSUME NEW i \in 1 .. Len(queue) PROVE Weight(queue[i], r) \in Nat
  <2>1. queue[i] \in PathEntry
    BY DEF FramesTyped
  <2> QED BY <2>1 DEF Weight, PathEntry
<1> QED BY <1>1, <1>2, <1>3, <1>4, <1>5

\* The queue stays: what is told and what waits is no more than before.
LEMMA LossGoesOn ==
  ASSUME FramesTyped, FramesTyped', LossOK, queue' = queue,
         \A r \in 0 .. MaxCalls :
            /\ Blamed(r)' + InHand(r)' <= Blamed(r) + InHand(r)
            /\ Waiting(r)' + full[r] <= Waiting(r) + full'[r]
  PROVE  LossOK'
<1> SUFFICES ASSUME NEW r \in 0 .. MaxCalls PROVE (\E p \in [0 .. Len(queue) -> Nat] : Apart(p, r))'
  BY DEF LossOK
<1>1. PICK p \in [0 .. Len(queue) -> Nat] : Apart(p, r)
  BY DEF LossOK
<1>2. Blamed(r) \in Nat /\ InHand(r) \in Nat /\ Waiting(r) \in Nat /\ full[r] \in Nat
  BY Weights
<1>3. (FramesTyped => Blamed(r) \in Nat /\ InHand(r) \in Nat /\ Waiting(r) \in Nat /\ full[r] \in Nat)'
  BY Weights, PTL
<1>9. full'[r] \in Nat /\ Waiting(r)' \in Nat /\ Blamed(r)' \in Nat /\ InHand(r)' \in Nat
  BY <1>3
<1>4. p[0] \in Nat /\ p[Len(queue)] \in Nat
  <2>1. Len(queue) \in Nat
    BY DEF FramesTyped
  <2> QED BY <2>1
<1>5. p[0] >= Blamed(r)' + InHand(r)'
  BY <1>1, <1>2, <1>3, <1>4 DEF Apart
<1>6. p[Len(queue)] + Waiting(r)' <= full'[r]
  <2>1. p[Len(queue)] + Waiting(r) <= full[r]
    BY <1>1 DEF Apart
  <2>2. Waiting(r)' + full[r] <= Waiting(r) + full'[r]
    OBVIOUS
  <2>3. ASSUME NEW a \in Nat, NEW b \in Nat, NEW c \in Nat, NEW d \in Nat, NEW e \in Nat, a + b <= c, d + c <= b + e
        PROVE  a + d <= e
    BY <2>3

  <2>4. p[Len(queue)] \in Nat /\ Waiting(r) \in Nat /\ full[r] \in Nat /\ Waiting(r)' \in Nat /\ full'[r] \in Nat
    BY <1>2, <1>4, <1>9
  <2> QED BY ONLY <2>1, <2>2, <2>3, <2>4
<1>7. \A i \in 1 .. Len(queue') : p[i] >= p[i - 1] + Weight(queue'[i], r)
  BY <1>1 DEF Apart
<1>8. Apart(p, r)'
  BY <1>5, <1>6, <1>7 DEF Apart
<1> QED BY <1>8

LEMMA LossStays ==
  ASSUME FramesTyped, FramesTyped', LossOK, UNCHANGED <<queue, taken, poll, drops, lastRoute, full, active, blamed>>
  PROVE  LossOK'
<1>1. \A r \in 0 .. MaxCalls : Blamed(r)' = Blamed(r) /\ InHand(r)' = InHand(r) /\ Waiting(r)' = Waiting(r)
  BY DEF Blamed, InHand, Waiting, Weight
<1>2. ASSUME NEW r \in 0 .. MaxCalls
      PROVE  /\ Blamed(r)' + InHand(r)' <= Blamed(r) + InHand(r)
             /\ Waiting(r)' + full[r] <= Waiting(r) + full'[r]
  BY <1>1, Weights
<1> QED BY <1>2, LossGoesOn

LEMMA RestartStays ==
  ASSUME RestartOK, UNCHANGED <<board, queue, taken, poll, heard, newest>>
  PROVE  RestartOK'
BY DEF RestartOK, SinceFrom, Since, Before

\* Where newest may only fall back, and the entry in hand only go.
LEMMA RestartStaysLess ==
  ASSUME RestartOK, UNCHANGED <<board, queue, poll, heard>>, taken' \in {taken, None}, newest' \in {newest, None}
  PROVE  RestartOK'
BY DEF RestartOK, SinceFrom, Since, Before

\* The decoder and its latest verdict.
LEMMA VerdictStays ==
  ASSUME TrackerOK, LossExact, OnlyOldRefused, UNCHANGED <<boardVars, readVars>>
  PROVE  TrackerOK' /\ LossExact' /\ OnlyOldRefused'
<1>1. UNCHANGED <<path, board, active, last, newest, blamed, out>>
  BY DEF boardVars, readVars
<1>2. TrackerOK'
  BY <1>1 DEF TrackerOK, TrackerAt, Sequenced, Seqno
<1>3. LossExact'
  BY <1>1 DEF LossExact, Heard, Sequenced, SameNumbering, Frames
<1>4. OnlyOldRefused'
  BY <1>1 DEF OnlyOldRefused, SameNumbering
<1> QED BY <1>2, <1>3, <1>4

-----------------------------------------------------------------------------
(* The steps of the gate.                                                  *)

LEMMA GateKeeps ==
  ASSUME FrameInv, (\E enabled \in BOOLEAN : SetAudioEnabled(enabled)) \/ BumpRoute
  PROVE  FrameInv'
<1>1. /\ UNCHANGED <<boardVars, sendVars, heard, extra, queue, full, taken, readVars>>
      /\ UNCHANGED <<path, board, drops, blamed, heard, lastRoute, poll, queue, taken, active, full, newest>>
  BY DEF SetAudioEnabled, BumpRoute, boardVars, sendVars, readVars
<1>2. {route', bumps', calls'} \subseteq Nat /\ route' + bumps' <= calls' /\ calls' <= MaxCalls
  <2>1. {route, bumps, calls} \subseteq Nat /\ route + bumps <= calls /\ calls <= MaxCalls /\ MaxCalls \in Nat
    BY FrameSizes DEF FrameInv, FramesTyped
  <2>2. CASE BumpRoute
    BY <2>1, <2>2 DEF BumpRoute
  <2>3. ASSUME NEW enabled \in BOOLEAN, SetAudioEnabled(enabled)
        PROVE  {route', bumps', calls'} \subseteq Nat /\ route' + bumps' <= calls' /\ calls' <= MaxCalls
    <3>1. calls < MaxCalls /\ calls' = calls + 1 /\ bumps' \in {bumps, bumps + 1} /\ route' = route
      BY <2>3 DEF SetAudioEnabled
    <3> QED BY <2>1, <3>1
  <2> QED BY <2>2, <2>3
<1>3. FramesTyped'
  BY <1>1, <1>2 DEF FrameInv, FramesTyped
<1>4. RestartOK'
  BY <1>1, RestartStays DEF FrameInv
<1>5. LossOK'
  BY <1>1, <1>3, LossStays DEF FrameInv
<1>6. TrackerOK' /\ LossExact' /\ OnlyOldRefused'
  BY <1>1, VerdictStays DEF FrameInv
<1> QED BY <1>3, <1>4, <1>5, <1>6 DEF FrameInv

-----------------------------------------------------------------------------
(* The notification task.                                                  *)

LEMMA ArrivesInOrder ==
  ASSUME FramesTyped, NEW n \in Packet, Arrives(n)
  PROVE  /\ heard' \in Int
         /\ heard >= board.restart => heard' >= board.restart /\ ~Before(n)
         /\ Since(n) => heard' >= board.restart
<1>1. n \in Nat /\ n # None /\ heard \in Int /\ board.restart \in Nat
  BY FrameSizes, BoardFields DEF Packet, FramesTyped
<1>2. CASE n > heard /\ heard' = n
  BY <1>1, <1>2 DEF Since, Before
<1>3. CASE n <= heard /\ (n < board.restart => heard < board.restart) /\ heard' = heard
  BY <1>1, <1>3 DEF Since, Before
<1> QED BY <1>2, <1>3 DEF Arrives

LEMMA PollKeeps == ASSUME FrameInv, NEW n \in Packet, Poll(n) PROVE FrameInv'
<1>1. /\ UNCHANGED <<boardVars, gateVars, lastRoute, queue, full, taken, readVars>> /\ poll = None /\ path # "usb"
      /\ UNCHANGED <<path, board, blamed, lastRoute, queue, taken, active, full, newest, route, bumps, calls>>
  BY DEF Poll, boardVars, gateVars, readVars
<1>2. (poll' = Entry(n, 0, None) /\ drops' = drops) \/ (poll' = None /\ drops' = 0)
  BY DEF Poll
<1>3. /\ heard' \in Int
      /\ heard >= board.restart => heard' >= board.restart /\ ~Before(n)
      /\ Since(n) => heard' >= board.restart
  BY ArrivesInOrder DEF Poll, FrameInv
<1>4. FramesTyped /\ RestartOK /\ LossOK
  BY DEF FrameInv
<1>5. FramesTyped'
  <2>1. drops' \in Nat
    BY <1>2, <1>4 DEF FramesTyped
  <2>2. poll' # None =>
         /\ poll' \in [n : Packet, drops : Nat, route : 0 .. MaxCalls \cup {None}]
         /\ poll'.route = None /\ poll'.drops = 0
    BY <1>2 DEF Entry
  <2> QED BY <1>1, <1>3, <1>4, <2>1, <2>2 DEF FramesTyped
<1>6. RestartOK'
  <2>1. poll' # None => poll'.n = n
    BY <1>2 DEF Entry
  <2>2. ASSUME NEW i \in Nat, SinceFrom(i) PROVE SinceFrom(i)'
    BY <1>1, <1>3, <2>1, <2>2 DEF SinceFrom, Before
  <2>3. /\ poll' # None /\ Since(poll'.n) => heard' >= board'.restart
        /\ \A i \in 1 .. Len(queue) : Since(queue[i].n) => SinceFrom(i + 1)'
        /\ taken # None /\ Since(taken.n) => SinceFrom(1)'
        /\ Since(newest) => SinceFrom(1)' /\ (taken # None => ~Before(taken.n))
    BY <1>1, <1>3, <1>4, <2>1, <2>2 DEF RestartOK, Since
  <2> QED BY <1>1, <2>3 DEF RestartOK, Since, Before
<1>7. LossOK'
  <2>1. ASSUME NEW r \in 0 .. MaxCalls
        PROVE  /\ Blamed(r)' + InHand(r)' <= Blamed(r) + InHand(r)
               /\ Waiting(r)' + full[r] <= Waiting(r) + full'[r]
    <3>1. Blamed(r)' = Blamed(r) /\ InHand(r)' = InHand(r)
      BY <1>1 DEF Blamed, InHand, Weight
    <3>2. Waiting(r) = (IF lastRoute = r THEN drops ELSE 0) + 0
      BY <1>1 DEF Waiting
    <3>3. Waiting(r)' = (IF lastRoute = r THEN drops' ELSE 0) + 0
      BY <1>1, <1>2 DEF Waiting, Weight, Entry
    <3>4. drops \in Nat /\ drops' \in {0, drops}
      BY <1>2, <1>4 DEF FramesTyped
    <3>7. CASE lastRoute = r
      <4>1. Waiting(r) = drops + 0 /\ Waiting(r)' = drops' + 0
        BY <3>2, <3>3, <3>7
      <4> QED BY <1>1, <1>4, <3>1, <3>4, <4>1, Weights
    <3>8. CASE lastRoute # r
      <4>1. Waiting(r) = 0 /\ Waiting(r)' = 0
        BY <3>2, <3>3, <3>8
      <4> QED BY <1>1, <1>4, <3>1, <4>1, Weights
    <3> QED BY <3>7, <3>8
  <2> QED BY <1>1, <1>4, <1>5, <2>1, LossGoesOn
<1>8. TrackerOK' /\ LossExact' /\ OnlyOldRefused'
  BY <1>1, VerdictStays DEF FrameInv
<1> QED BY <1>5, <1>6, <1>7, <1>8 DEF FrameInv

LEMMA StampKeeps == ASSUME FrameInv, Stamp PROVE FrameInv'
<1>1. /\ UNCHANGED <<boardVars, gateVars, heard, extra, queue, full, taken, readVars>>
      /\ UNCHANGED <<path, board, blamed, heard, queue, taken, active, full, newest, route, bumps, calls>>
      /\ poll # None /\ poll.route = None /\ lastRoute' = route /\ drops' = 0
      /\ poll' = Entry(poll.n, IF route # lastRoute THEN 0 ELSE drops, route)
  BY DEF Stamp, boardVars, gateVars, readVars
<1>2. FramesTyped /\ RestartOK /\ LossOK
  BY DEF FrameInv
<1>3. /\ poll.n \in Packet /\ poll.drops = 0 /\ route \in 0 .. MaxCalls /\ drops \in Nat /\ path # "usb"
  <2>1. route \in 0 .. MaxCalls
    <3>1. route \in Nat /\ bumps \in Nat /\ calls \in Nat /\ route + bumps <= calls /\ calls <= MaxCalls
      BY <1>2 DEF FramesTyped
    <3>2. MaxCalls \in Nat
      BY FrameSizes
    <3> QED BY ONLY <3>1, <3>2
  <2>2. poll.route \notin Int
    BY <1>1, FrameSizes
  <2>3. lastRoute \in Int
    BY <1>2 DEF FramesTyped
  <2> QED BY <1>1, <1>2, <2>1, <2>2, <2>3 DEF FramesTyped
<1>4. /\ poll'.n = poll.n /\ poll'.drops = (IF route # lastRoute THEN 0 ELSE drops) /\ poll'.route = route
      /\ poll' \in [n : Packet, drops : Nat, route : 0 .. MaxCalls]
  BY <1>1, <1>3 DEF Entry
<1>5. FramesTyped'
  <2>1. drops' \in Nat /\ lastRoute' \in 0 .. MaxCalls
    BY <1>1, <1>3
  <2>2. poll' \in [n : Packet, drops : Nat, route : 0 .. MaxCalls \cup {None}] /\ poll'.route = lastRoute'
    BY <1>1, <1>4
  <2> QED BY <1>1, <1>2, <1>3, <2>1, <2>2 DEF FramesTyped
<1>6. RestartOK'
  <2>1. ASSUME NEW i \in Nat, SinceFrom(i) PROVE SinceFrom(i)'
    BY <1>1, <1>4, <2>1 DEF SinceFrom, Before
  <2>2. /\ poll' # None /\ Since(poll'.n) => heard' >= board'.restart
        /\ \A i \in 1 .. Len(queue) : Since(queue[i].n) => SinceFrom(i + 1)'
        /\ taken # None /\ Since(taken.n) => SinceFrom(1)'
        /\ Since(newest) => SinceFrom(1)' /\ (taken # None => ~Before(taken.n))
    BY <1>1, <1>2, <1>4, <2>1 DEF RestartOK, Since
  <2> QED BY <1>1, <2>2 DEF RestartOK, Since, Before
<1>7. LossOK'
  <2>1. ASSUME NEW r \in 0 .. MaxCalls
        PROVE  /\ Blamed(r)' + InHand(r)' <= Blamed(r) + InHand(r)
               /\ Waiting(r)' + full[r] <= Waiting(r) + full'[r]
    <3>1. Blamed(r)' = Blamed(r) /\ InHand(r)' = InHand(r)
      BY <1>1 DEF Blamed, InHand, Weight
    <3>2. Waiting(r) = (IF lastRoute = r THEN drops ELSE 0) + 0
      BY <1>1, <1>3 DEF Waiting, Weight
    <3>3. Waiting(r)' = 0 + (IF route = r THEN (IF route # lastRoute THEN 0 ELSE drops) ELSE 0) \/ Waiting(r)' = 0 + 0
      BY <1>1, <1>4 DEF Waiting, Weight
    <3>4. Waiting(r)' <= Waiting(r) /\ Waiting(r)' \in Nat
      BY <1>3, <3>2, <3>3
    <3> QED BY <1>1, <1>2, <3>1, <3>4, Weights
  <2> QED BY <1>1, <1>2, <1>5, <2>1, LossGoesOn
<1>8. TrackerOK' /\ LossExact' /\ OnlyOldRefused'
  BY <1>1, VerdictStays DEF FrameInv
<1> QED BY <1>5, <1>6, <1>7, <1>8 DEF FrameInv


LEMMA SendKeeps == ASSUME FrameInv, Send PROVE FrameInv'
<1>1. /\ UNCHANGED <<boardVars, gateVars, lastRoute, heard, extra, taken, readVars>>
      /\ UNCHANGED <<path, board, blamed, heard, taken, active, newest, route, bumps, calls>>
      /\ poll # None /\ poll.route # None /\ poll' = None
  BY DEF Send, boardVars, gateVars, readVars
<1>2. FramesTyped /\ RestartOK /\ LossOK
  BY DEF FrameInv
<1>3. /\ poll \in PathEntry /\ poll.n \in Packet /\ poll.drops \in Nat /\ poll.route = lastRoute
      /\ lastRoute \in 0 .. MaxCalls /\ drops \in Nat /\ path # "usb" /\ full \in [0 .. MaxCalls -> Nat]
      /\ queue \in Seq(PathEntry) /\ Len(queue) \in Nat /\ poll.n # None
  BY <1>1, <1>2, FrameSizes DEF FramesTyped, PathEntry, Packet
<1>4. TrackerOK' /\ LossExact' /\ OnlyOldRefused'
  BY <1>1, VerdictStays DEF FrameInv
<1>5. CASE Len(queue) < QueueLimit
  <2>1. queue' = Append(queue, poll) /\ drops' = drops /\ full' = full
    BY <1>1, <1>5 DEF Send
  <2> DEFINE l == Len(queue)
  <2>2. /\ queue' \in Seq(PathEntry) /\ Len(queue') = l + 1 /\ queue'[l + 1] = poll
        /\ \A i \in 1 .. l : queue'[i] = queue[i]
    BY <1>3, <2>1
  <2>3. l \in Nat
    BY <1>3
  <2> HIDE DEF l
  <2>4. FramesTyped'
    BY <1>1, <1>2, <1>3, <2>1, <2>2 DEF FramesTyped
  <2>5. RestartOK'
    <3>1. ASSUME NEW i \in 1 .. l + 1, SinceFrom(i) PROVE SinceFrom(i)'
      <4>1. ~Before(poll.n) /\ heard >= board.restart
        BY <1>1, <3>1 DEF SinceFrom
      <4>2. ASSUME NEW j \in i .. l + 1 PROVE ~Before(queue'[j].n)
        <5>1. CASE j \in 1 .. l
          BY <2>2, <3>1, <5>1 DEF SinceFrom, l
        <5>2. CASE j = l + 1
          BY <2>2, <4>1, <5>2
        <5> QED BY <2>3, <5>1, <5>2
      <4> QED BY <1>1, <2>2, <4>1, <4>2 DEF SinceFrom, Before
    <3>2. Since(poll.n) => heard >= board.restart
      BY <1>1, <1>2 DEF RestartOK
    <3>3. ASSUME NEW i \in 1 .. l + 1, Since(queue'[i].n) PROVE SinceFrom(i + 1)'
      <4>1. CASE i \in 1 .. l
        <5>1. SinceFrom(i + 1) /\ i + 1 \in 1 .. l + 1
          BY <1>2, <2>2, <2>3, <3>3, <4>1 DEF RestartOK, l
        <5> QED BY <5>1, <3>1
      <4>2. CASE i = l + 1
        <5>1. heard >= board.restart
          BY <2>2, <3>2, <3>3, <4>2
        <5>2. \A j \in i + 1 .. Len(queue') : FALSE
          BY <2>2, <2>3, <4>2
        <5> QED BY <1>1, <5>1, <5>2 DEF SinceFrom
      <4> QED BY <2>3, <4>1, <4>2
    <3>4. 1 \in 1 .. l + 1
      BY <2>3
    <3>5. /\ taken # None /\ Since(taken.n) => SinceFrom(1)'
          /\ Since(newest) => SinceFrom(1)' /\ (taken # None => ~Before(taken.n))
      BY <1>2, <3>1, <3>4 DEF RestartOK
    <3> QED BY <1>1, <2>2, <3>3, <3>5 DEF RestartOK, Since, Before
  <2>6. ASSUME NEW r \in 0 .. MaxCalls PROVE (\E p \in [0 .. Len(queue) -> Nat] : Apart(p, r))'
    <3>1. PICK p \in [0 .. l -> Nat] : Apart(p, r)
      BY <1>2 DEF LossOK, l
    <3>2. Weight(poll, r) \in Nat /\ p[l] \in Nat
      BY <1>3, <2>3 DEF Weight
    <3> DEFINE w == Weight(poll, r)
    <3> HIDE DEF w
    <3>3. PICK t \in [0 .. l + 1 -> Nat] : t[0] = p[0] /\ t[l + 1] = p[l] + w /\ \A i \in 0 .. l : t[i] = p[i]
      <4> DEFINE u == [i \in 0 .. l + 1 |-> IF i = l + 1 THEN p[l] + w ELSE p[i]]
      <4>1. w \in Nat
        BY <3>2 DEF w
      <4>2. u \in [0 .. l + 1 -> Nat]
        BY <2>3, <3>2, <4>1
      <4>3. u[0] = p[0] /\ u[l + 1] = p[l] + w /\ \A i \in 0 .. l : u[i] = p[i]
        BY <2>3
      <4> QED BY <4>2, <4>3
    <3>4. t[0] = p[0] /\ t[l + 1] = p[l] + w /\ \A i \in 0 .. l : t[i] = p[i]
      BY <3>3
    <3>5. Blamed(r)' = Blamed(r) /\ InHand(r)' = InHand(r) /\ Waiting(r)' + w = Waiting(r) /\ Waiting(r)' \in Nat
      <4>1. Blamed(r)' = Blamed(r) /\ InHand(r)' = InHand(r)
        BY <1>1 DEF Blamed, InHand, Weight
      <4>2. Waiting(r) = (IF lastRoute = r THEN drops ELSE 0) + w
        BY <1>1 DEF Waiting, w
      <4>3. Waiting(r)' = (IF lastRoute = r THEN drops ELSE 0) + 0
        BY <1>1, <2>1 DEF Waiting
      <4>4. w \in Nat
        BY <3>2 DEF w
      <4> QED BY <1>3, <4>1, <4>2, <4>3, <4>4
    <3>6. t[0] >= Blamed(r)' + InHand(r)'
      BY <3>1, <3>4, <3>5 DEF Apart
    <3>7. t[l + 1] + Waiting(r)' <= full'[r]
      <4>1. p[l] + Waiting(r) <= full[r]
        BY <3>1 DEF Apart, l
      <4>2. w \in Nat
        BY <3>2 DEF w
      <4> QED BY <2>1, <3>2, <3>4, <3>5, <4>1, <4>2
    <3>8. ASSUME NEW i \in 1 .. l + 1 PROVE t[i] >= t[i - 1] + Weight(queue'[i], r)
      <4>1. CASE i \in 1 .. l
        <5>1. i \in 0 .. l /\ i - 1 \in 0 .. l
          BY <2>3, <4>1
        <5>2. p[i] >= p[i - 1] + Weight(queue[i], r)
          BY <3>1, <4>1 DEF Apart, l
        <5> QED BY <2>2, <3>4, <4>1, <5>1, <5>2
      <4>2. CASE i = l + 1
        <5>1. t[i - 1] = p[l] /\ t[i] = p[l] + w /\ Weight(queue'[i], r) = w
          BY <2>2, <2>3, <3>4, <4>2 DEF w
        <5>2. w \in Nat
          BY <3>2 DEF w
        <5> QED BY <3>2, <5>1, <5>2
      <4> QED BY <2>3, <4>1, <4>2
    <3>9. Apart(t, r)'
      BY <2>2, <3>6, <3>7, <3>8 DEF Apart
    <3> QED BY <2>2, <3>3, <3>9
  <2>7. LossOK'
    BY <2>6 DEF LossOK
  <2> QED BY <1>4, <2>4, <2>5, <2>7 DEF FrameInv
<1>6. CASE ~(Len(queue) < QueueLimit)
  <2>1. /\ queue' = queue /\ drops' = drops + poll.drops + 1
        /\ full' = [full EXCEPT ![poll.route] = @ + 1]
    BY <1>1, <1>6 DEF Send
  <2>2. drops' \in Nat /\ full' \in [0 .. MaxCalls -> Nat]
    BY <1>3, <2>1
  <2>3. FramesTyped'
    BY <1>1, <1>2, <1>3, <2>1, <2>2 DEF FramesTyped
  <2>4. RestartOK'
    BY <1>1, <1>2, <2>1 DEF RestartOK, SinceFrom, Since, Before
  <2>5. ASSUME NEW r \in 0 .. MaxCalls
        PROVE  /\ Blamed(r)' + InHand(r)' <= Blamed(r) + InHand(r)
               /\ Waiting(r)' + full[r] <= Waiting(r) + full'[r]
    <3>1. Blamed(r)' = Blamed(r) /\ InHand(r)' = InHand(r)
      BY <1>1 DEF Blamed, InHand, Weight
    <3>2. Blamed(r) \in Nat /\ InHand(r) \in Nat /\ full[r] \in Nat
      BY <1>2, Weights
    <3>3. CASE r = lastRoute
      <4>1. full'[r] = full[r] + 1
        BY <1>3, <2>1, <3>3
      <4>2. Waiting(r) = drops + poll.drops
        BY <1>1, <1>3, <3>3 DEF Waiting, Weight
      <4>3. Waiting(r)' = drops + poll.drops + 1 + 0
        BY <1>1, <2>1, <3>3 DEF Waiting
      <4> QED BY <1>3, <3>1, <3>2, <4>1, <4>2, <4>3
    <3>4. CASE r # lastRoute
      <4>1. full'[r] = full[r]
        BY <1>3, <2>1, <3>4
      <4>2. Waiting(r) = 0 + 0
        BY <1>1, <1>3, <3>4 DEF Waiting, Weight
      <4>3. Waiting(r)' = 0 + 0
        BY <1>1, <2>1, <3>4 DEF Waiting
      <4> QED BY <3>1, <3>2, <4>1, <4>2, <4>3
    <3> QED BY <3>3, <3>4
  <2>6. LossOK'
    BY <1>2, <2>1, <2>3, <2>5, LossGoesOn
  <2> QED BY <1>4, <2>3, <2>4, <2>6 DEF FrameInv
<1> QED BY <1>5, <1>6


-----------------------------------------------------------------------------
(* The reader thread.                                                      *)

\* An entry is put behind the others, k of which have made room for it.
Follows(k, e) ==
    LET l == Len(queue)
    IN  /\ Len(queue') = l + 1 - k /\ queue' \in Seq(PathEntry) /\ queue'[l + 1 - k] = e
        /\ \A i \in 1 .. l - k : queue'[i].n = queue[i + k].n /\ queue'[i].route = queue[i + k].route
        /\ \A i \in 1 .. l - k : queue'[i].drops = queue[i + k].drops + (IF i <= k THEN queue[1].drops + 1 ELSE 0)
        /\ full' = [full EXCEPT ![0] = @ + k]
        /\ k = 1 => l >= 2

LEMMA Pushed ==
  ASSUME FramesTyped, NEW e \in PathEntry, Push(e)
  PROVE  \E k \in {0, 1} : Follows(k, e)
<1> DEFINE l == Len(queue)
<1>1. queue \in Seq(PathEntry) /\ l \in Nat /\ full \in [0 .. MaxCalls -> Nat] /\ 0 \in 0 .. MaxCalls
  BY FrameSizes DEF FramesTyped
<1>2. \A i \in 1 .. l : queue[i] \in PathEntry
  BY <1>1
<1>3. CASE l < QueueLimit
  <2>1. queue' = Append(queue, e) /\ full' = full
    BY <1>3 DEF Push, DropOldest
  <2>2. queue' \in Seq(PathEntry) /\ Len(queue') = l + 1 /\ queue'[l + 1] = e /\ \A i \in 1 .. l : queue'[i] = queue[i]
    BY <1>1, <2>1
  <2>3. full' = [full EXCEPT ![0] = @ + 0]
    BY <1>1, <2>1
  <2> HIDE DEF l
  <2>4. \A i \in 1 .. l - 0 : /\ i \in 1 .. l /\ i + 0 = i /\ ~(i <= 0)
                              /\ queue[i].drops + 0 = queue[i].drops
    BY <1>1, <1>2 DEF PathEntry
  <2>5. l + 1 - 0 = l + 1
    BY <1>1
  <2>6. Follows(0, e)
    BY <2>2, <2>3, <2>4, <2>5 DEF Follows, l
  <2> QED BY <2>6
<1>4. CASE ~(l < QueueLimit)
  <2>1. l >= 2
    BY <1>1, <1>4, FrameSizes
  <2>2. /\ Tail(queue) \in Seq(PathEntry) /\ Len(Tail(queue)) = l - 1 /\ Head(queue) = queue[1]
        /\ \A i \in 1 .. l - 1 : Tail(queue)[i] = queue[i + 1]
    BY <1>1, <2>1
  <2> DEFINE t == Tail(queue)
             d == DropOldest
  <2>3. d = [t EXCEPT ![1].drops = @ + queue[1].drops + 1]
    BY <1>4, <2>2 DEF DropOldest
  <2>4. queue' = Append(d, e) /\ full' = [full EXCEPT ![0] = @ + 1]
    BY <1>4 DEF Push
  <2>5. t[1] \in PathEntry /\ queue[1] \in PathEntry /\ t[1].drops \in Nat /\ queue[1].drops \in Nat
    BY <1>1, <1>2, <2>1, <2>2 DEF PathEntry
  <2> HIDE DEF t, d
  <2>6. t \in Seq(PathEntry) /\ Len(t) = l - 1 /\ l - 1 \in Nat /\ 1 \in 1 .. l - 1
    BY <1>1, <2>1, <2>2 DEF t
  <2>7. d \in Seq(PathEntry) /\ Len(d) = l - 1
    <3>1. t[1].drops + queue[1].drops + 1 \in Nat
      BY <2>5
    <3>2. [t[1] EXCEPT !.drops = @ + queue[1].drops + 1] \in PathEntry
      BY <2>5, <3>1 DEF PathEntry
    <3>3. d = [t EXCEPT ![1] = [t[1] EXCEPT !.drops = @ + queue[1].drops + 1]]
      BY <2>3, <2>6
    <3> QED BY <2>6, <3>2, <3>3
  <2>8. ASSUME NEW i \in 1 .. l - 1
        PROVE  /\ d[i].n = queue[i + 1].n /\ d[i].route = queue[i + 1].route
               /\ d[i].drops = queue[i + 1].drops + (IF i <= 1 THEN queue[1].drops + 1 ELSE 0)
    <3>1. t[i] = queue[i + 1] /\ i + 1 \in 1 .. l
      BY <1>1, <2>2 DEF t
    <3>2. queue[i + 1] \in PathEntry /\ queue[i + 1].drops \in Nat
      BY <1>2, <3>1 DEF PathEntry
    <3>3. CASE i = 1
      <4>1. d[1] = [t[1] EXCEPT !.drops = @ + queue[1].drops + 1]
        BY <2>3, <2>6
      <4>2. d[1].n = t[1].n /\ d[1].route = t[1].route /\ d[1].drops = t[1].drops + queue[1].drops + 1
        BY <2>5, <4>1 DEF PathEntry
      <4> QED BY <2>5, <3>1, <3>3, <4>2
    <3>4. CASE i # 1
      <4>1. d[i] = t[i] /\ ~(i <= 1)
        BY <2>3, <2>6, <3>4
      <4> QED BY <3>1, <3>2, <4>1
    <3> QED BY <3>3, <3>4
  <2>9. /\ queue' \in Seq(PathEntry) /\ Len(queue') = l /\ queue'[l] = e
        /\ \A i \in 1 .. l - 1 : queue'[i] = d[i]
    <3>1. /\ Append(d, e) \in Seq(PathEntry) /\ Len(Append(d, e)) = Len(d) + 1 /\ Append(d, e)[Len(d) + 1] = e
          /\ \A i \in 1 .. Len(d) : Append(d, e)[i] = d[i]
      BY <2>7
    <3>2. l - 1 + 1 = l
      BY <1>1
    <3> QED BY <2>4, <2>7, <3>1, <3>2
  <2>10. l + 1 - 1 = l
    BY <1>1
  <2>11. Follows(1, e)
    BY <2>1, <2>4, <2>8, <2>9, <2>10 DEF Follows, l
  <2> QED BY <2>11
<1> QED BY <1>3, <1>4

LEMMA PushedInOrder ==
  ASSUME FramesTyped, RestartOK, NEW e \in PathEntry, NEW k \in {0, 1}, Follows(k, e), e.n = None \/ e.n \in Packet,
         UNCHANGED <<board, poll, taken, newest>>, poll = None,
         heard >= board.restart => heard' >= board.restart /\ ~Before(e.n),
         Since(e.n) => heard' >= board.restart
  PROVE  RestartOK'
<1> DEFINE l == Len(queue)
<1>1. l \in Nat /\ k \in Nat /\ k <= 1 /\ (k = 1 => l >= 2)
  <2>1. l \in Nat
    BY DEF FramesTyped
  <2> QED BY <2>1 DEF Follows
<1>2. /\ Len(queue') = l + 1 - k /\ queue'[l + 1 - k] = e
      /\ \A i \in 1 .. l - k : queue'[i].n = queue[i + k].n
  BY DEF Follows
<1> HIDE DEF l
<1>3. ASSUME NEW i \in 1 .. l + 1 - k, SinceFrom(i + k) PROVE SinceFrom(i)'
  <2>1. heard' >= board.restart /\ ~Before(e.n)
    BY <1>3 DEF SinceFrom
  <2>2. ASSUME NEW j \in i .. l + 1 - k PROVE ~Before(queue'[j].n)
    <3>1. CASE j \in 1 .. l - k
      <4>1. j + k \in i + k .. Len(queue)
        BY <1>1, <2>2, <3>1 DEF l
      <4> QED BY <1>2, <1>3, <3>1, <4>1 DEF SinceFrom
    <3>2. CASE j = l + 1 - k
      BY <1>2, <2>1, <3>2
    <3> QED BY <1>1, <3>1, <3>2
  <2> QED BY <1>2, <2>1, <2>2 DEF SinceFrom, Before
<1>4. ASSUME NEW i \in 1 .. l + 1 - k, Since(queue'[i].n) PROVE SinceFrom(i + 1)'
  <2>1. CASE i \in 1 .. l - k
    <3>1. i + k \in 1 .. Len(queue) /\ i + 1 \in 1 .. l + 1 - k /\ (i + k) + 1 = (i + 1) + k
      BY <1>1, <2>1 DEF l
    <3>2. Since(queue[i + k].n)
      BY <1>2, <1>4, <2>1
    <3>3. SinceFrom((i + 1) + k)
      BY <3>1, <3>2 DEF RestartOK
    <3> QED BY <1>3, <3>1, <3>3
  <2>2. CASE i = l + 1 - k
    <3>1. heard' >= board.restart
      BY <1>2, <1>4, <2>2
    <3>2. \A j \in i + 1 .. Len(queue') : FALSE
      BY <1>1, <1>2, <2>2
    <3> QED BY <3>1, <3>2 DEF SinceFrom
  <2> QED BY <1>1, <2>1, <2>2
<1>5. SinceFrom(1) => SinceFrom(1)'
  <2>1. 1 \in 1 .. l + 1 - k
    BY <1>1
  <2>2. SinceFrom(1) => SinceFrom(1 + k)
    <3>1. \A j \in 1 + k .. Len(queue) : j \in 1 .. Len(queue)
      BY <1>1 DEF l
    <3> QED BY <3>1 DEF SinceFrom
  <2> QED BY <1>3, <2>1, <2>2
<1>6. /\ taken # None /\ Since(taken.n) => SinceFrom(1)'
      /\ Since(newest) => SinceFrom(1)' /\ (taken # None => ~Before(taken.n))
  BY <1>5 DEF RestartOK
<1> QED BY <1>2, <1>4, <1>6 DEF RestartOK, Since, Before

LEMMA PushedApart ==
  ASSUME FramesTyped, LossOK, NEW e \in PathEntry, e.drops = 0, NEW k \in {0, 1}, Follows(k, e),
         \A i \in 1 .. Len(queue) : queue[i].route = 0,
         UNCHANGED <<taken, poll, drops, lastRoute, active, blamed>>
  PROVE  LossOK'
<1> SUFFICES ASSUME NEW r \in 0 .. MaxCalls PROVE (\E p \in [0 .. Len(queue) -> Nat] : Apart(p, r))'
  BY DEF LossOK
<1> DEFINE l == Len(queue)
<1>1. l \in Nat /\ k \in Nat /\ k <= 1 /\ (k = 1 => l >= 2) /\ \A i \in 1 .. l : queue[i].drops \in Nat
  <2>1. l \in Nat /\ \A i \in 1 .. l : queue[i] \in PathEntry
    BY DEF FramesTyped
  <2>2. \A i \in 1 .. l : queue[i].drops \in Nat
    BY <2>1 DEF PathEntry
  <2> QED BY <2>1, <2>2 DEF Follows
<1>2. /\ Len(queue') = l + 1 - k /\ queue'[l + 1 - k] = e
      /\ \A i \in 1 .. l - k : queue'[i].route = queue[i + k].route
      /\ \A i \in 1 .. l - k : queue'[i].drops = queue[i + k].drops + (IF i <= k THEN queue[1].drops + 1 ELSE 0)
      /\ full' = [full EXCEPT ![0] = @ + k]
  BY DEF Follows
<1>3. PICK p \in [0 .. l -> Nat] : Apart(p, r)
  BY DEF LossOK
<1>4. /\ p[0] >= Blamed(r) + InHand(r) /\ p[l] + Waiting(r) <= full[r]
      /\ \A i \in 1 .. l : p[i] >= p[i - 1] + Weight(queue[i], r)
  BY <1>3 DEF Apart
<1>5. \A i \in 1 .. l : queue[i].route = 0
  OBVIOUS
<1> HIDE DEF l
<1>6. PICK d \in {0, k} : (r = 0 => d = k) /\ (r # 0 => d = 0) /\ full'[r] = full[r] + d
  <2>1. full \in [0 .. MaxCalls -> Nat] /\ full[r] \in Nat
    BY DEF FramesTyped
  <2>2. CASE r = 0
    BY <1>2, <2>1, <2>2
  <2>3. CASE r # 0
    <3>1. full'[r] = full[r] + 0
      BY <1>2, <2>1, <2>3
    <3> QED BY <2>3, <3>1
  <2> QED BY <2>2, <2>3
<1>7. d \in Nat /\ d <= k
  BY <1>1
<1>8. PICK t \in [0 .. l + 1 - k -> Nat] :
         t[0] = p[0] /\ t[l + 1 - k] = p[l] + d /\ \A i \in 1 .. l - k : t[i] = p[i + k] + d
  <2> DEFINE u == [i \in 0 .. l + 1 - k |-> IF i = 0 THEN p[0] ELSE IF i = l + 1 - k THEN p[l] + d ELSE p[i + k] + d]
  <2>1. ASSUME NEW i \in 0 .. l + 1 - k
        PROVE  (IF i = 0 THEN p[0] ELSE IF i = l + 1 - k THEN p[l] + d ELSE p[i + k] + d) \in Nat
    <3>1. 0 \in 0 .. l /\ l \in 0 .. l
      BY <1>1
    <3>2. p[0] \in Nat /\ p[l] + d \in Nat
      BY <1>7, <3>1
    <3>3. i # l + 1 - k => i + k \in 0 .. l
      BY <1>1
    <3>4. i # l + 1 - k => p[i + k] + d \in Nat
      BY <1>7, <3>3
    <3> QED BY <3>2, <3>4
  <2>2. u \in [0 .. l + 1 - k -> Nat]
    BY <2>1
  <2>3. u[0] = p[0] /\ u[l + 1 - k] = p[l] + d
    BY <1>1
  <2>4. \A i \in 1 .. l - k : i \in 0 .. l + 1 - k /\ i # 0 /\ i # l + 1 - k
    BY <1>1
  <2>5. \A i \in 1 .. l - k : u[i] = p[i + k] + d
    BY <2>4
  <2> HIDE DEF u
  <2> QED BY <2>2, <2>3, <2>5
<1>9. ASSUME NEW i \in 1 .. l + 1 - k PROVE t[i] >= t[i - 1] + Weight(queue'[i], r)
  <2>1. CASE i = l + 1 - k
    <3>1. Weight(queue'[i], r) = 0 /\ t[i] = p[l] + d
      BY <1>2, <1>8, <2>1 DEF Weight
    <3>2. CASE i = 1
      <4>1. l = 0 /\ t[i - 1] = p[0] /\ p[0] \in Nat
        BY <1>1, <1>8, <2>1, <3>2
      <4> QED BY <1>7, <3>1, <4>1
    <3>3. CASE i # 1
      <4>1. i - 1 \in 1 .. l - k /\ (i - 1) + k = l /\ l \in 0 .. l
        BY <1>1, <2>1, <3>3
      <4>2. t[i - 1] = p[l] + d /\ p[l] \in Nat
        BY <1>8, <4>1
      <4> QED BY <1>7, <3>1, <4>2
    <3> QED BY <3>2, <3>3
  <2>2. CASE i \in 1 .. l - k
    <3>1. /\ i + k \in 1 .. l /\ i + k \in 0 .. l /\ (i + k) - 1 \in 0 .. l /\ queue[i + k].drops \in Nat
          /\ queue[i + k].route = 0 /\ queue'[i].route = 0
      <4>1. l \in Nat /\ k \in Nat
        BY <1>1
      <4>2. i + k \in 1 .. l /\ i + k \in 0 .. l /\ (i + k) - 1 \in 0 .. l
        BY <2>2, <4>1, SMTT(30)
      <4> QED BY <1>1, <1>2, <1>5, <2>2, <4>2
    <3>2. p[i + k] \in Nat /\ p[(i + k) - 1] \in Nat /\ t[i] = p[i + k] + d
      BY <1>8, <2>2, <3>1
    <3>3. p[i + k] >= p[(i + k) - 1] + Weight(queue[i + k], r)
      BY <1>4, <3>1
    <3>4. queue'[i].drops = queue[i + k].drops + (IF i <= k THEN queue[1].drops + 1 ELSE 0)
      BY <1>2, <2>2
    <3>5. CASE i > k
      <4>1. queue'[i].drops = queue[i + k].drops
        <5>1. ~(i <= k)
          BY <1>1, <3>5
        <5> QED BY <3>1, <3>4, <5>1
      <4>2. Weight(queue'[i], r) = Weight(queue[i + k], r) /\ Weight(queue[i + k], r) \in Nat
        BY <3>1, <4>1 DEF Weight
      <4>3. t[i - 1] <= p[(i + k) - 1] + d /\ t[i - 1] \in Nat
        <5>1. CASE i = 1
          <6>1. t[i - 1] = p[0] /\ (i + k) - 1 = 0
            BY <1>1, <1>8, <3>5, <5>1
          <6> QED BY <1>7, <3>2, <6>1
        <5>2. CASE i # 1
          <6>1. i - 1 \in 1 .. l - k /\ (i - 1) + k = (i + k) - 1
            BY <1>1, <2>2, <5>2
          <6>2. t[i - 1] = p[(i + k) - 1] + d
            BY <1>8, <6>1
          <6> QED BY <1>7, <3>2, <6>2
        <5> QED BY <5>1, <5>2
      <4>4. ASSUME NEW a \in Nat, NEW b \in Nat, NEW c \in Nat, NEW w \in Nat, a >= b + w, c <= b + d
            PROVE  a + d >= c + w
        BY <1>7, <4>4
      <4> QED BY ONLY <3>2, <3>3, <4>2, <4>3, <4>4
    <3>6. CASE i <= k
      <4>1. i = 1 /\ k = 1 /\ l >= 2 /\ i + k = 2 /\ (i + k) - 1 = 1
        BY <1>1, <2>2, <3>6
      <4>2. t[i - 1] = p[0] /\ p[0] \in Nat /\ 1 \in 1 .. l
        BY <1>1, <1>8, <4>1
      <4>3. p[1] >= p[0] + Weight(queue[1], r) /\ p[1] \in Nat /\ queue[1].drops \in Nat /\ queue[1].route = 0
        <5>1. 1 - 1 = 0 /\ 1 \in 0 .. l
          BY <4>2, <1>1
        <5> QED BY <1>1, <1>4, <1>5, <4>2, <5>1
      <4>4. p[2] >= p[1] + Weight(queue[2], r) /\ p[2] \in Nat /\ t[1] = p[2] + d
        BY <3>2, <3>3, <4>1
      <4>5. queue'[1].drops = queue[2].drops + (queue[1].drops + 1) /\ queue'[1].route = 0
            /\ queue[2].drops \in Nat /\ queue[2].route = 0
        BY <3>1, <3>4, <4>1
      <4>6. CASE r = 0
        <5>1. d = 1
          BY <1>6, <4>1, <4>6
        <5>2. /\ Weight(queue'[1], r) = queue[2].drops + (queue[1].drops + 1)
              /\ Weight(queue[1], r) = queue[1].drops /\ Weight(queue[2], r) = queue[2].drops
          BY <4>3, <4>5, <4>6 DEF Weight
        <5>4. ASSUME NEW a \in Nat, NEW b \in Nat, NEW c \in Nat, NEW v \in Nat, NEW w \in Nat, a >= b + v, b >= c + w
              PROVE  a + 1 >= c + (v + (w + 1))
          BY <5>4
        <5>5. p[2] >= p[1] + queue[2].drops /\ p[1] >= p[0] + queue[1].drops
          BY <4>3, <4>4, <5>2
        <5>6. {p[2], p[1], p[0], queue[2].drops, queue[1].drops} \subseteq Nat
          BY <4>2, <4>3, <4>4, <4>5
        <5>3. p[2] + 1 >= p[0] + (queue[2].drops + (queue[1].drops + 1))
          BY ONLY <5>4, <5>5, <5>6
        <5> QED BY <4>1, <4>2, <4>4, <5>1, <5>2, <5>3
      <4>7. CASE r # 0
        <5>1. Weight(queue'[1], r) = 0 /\ Weight(queue[1], r) = 0 /\ Weight(queue[2], r) = 0
          BY <4>3, <4>5, <4>7 DEF Weight
        <5> QED BY <1>7, <4>1, <4>2, <4>3, <4>4, <5>1
      <4> QED BY <4>6, <4>7
    <3> QED BY <1>1, <3>5, <3>6
  <2> QED BY <1>1, <2>1, <2>2
<1>10. Blamed(r)' = Blamed(r) /\ InHand(r)' = InHand(r) /\ Waiting(r)' = Waiting(r)
  BY DEF Blamed, InHand, Waiting, Weight
<1>11. t[l + 1 - k] + Waiting(r)' <= full'[r]
  <2>1. p[l] \in Nat /\ Waiting(r) \in Nat /\ full[r] \in Nat
    BY <1>1, Weights
  <2> QED BY <1>4, <1>6, <1>7, <1>8, <1>10, <2>1
<1>12. Apart(t, r)'
  <2>1. t[0] >= Blamed(r)' + InHand(r)'
    BY <1>4, <1>8, <1>10
  <2> QED BY <1>2, <1>9, <1>11, <2>1 DEF Apart
<1> QED BY <1>2, <1>12

LEMMA ReaderKeeps == ASSUME FrameInv, (\E n \in Packet : ReadAudio(n)) \/ ReadOther PROVE FrameInv'
<1>1. FramesTyped /\ RestartOK /\ LossOK /\ 0 \in 0 .. MaxCalls
  BY FrameSizes DEF FrameInv
<1>2. PICK e \in PathEntry :
         /\ Push(e) /\ path = "usb" /\ e.drops = 0 /\ e.route = 0 /\ (e.n = None \/ e.n \in Packet) /\ heard' \in Int
         /\ heard >= board.restart => heard' >= board.restart /\ ~Before(e.n)
         /\ Since(e.n) => heard' >= board.restart
  <2>1. ASSUME NEW n \in Packet \cup {None}
        PROVE  LET e == Entry(n, 0, 0) IN e \in PathEntry /\ e.drops = 0 /\ e.route = 0 /\ e.n = n
    BY <1>1 DEF Entry, PathEntry
  <2>2. CASE ReadOther
    <3>1. Push(Entry(None, 0, 0)) /\ path = "usb" /\ heard' = heard
      BY <2>2 DEF ReadOther
    <3>2. heard \in Int
      BY <1>1 DEF FramesTyped
    <3> QED BY <2>1, <3>1, <3>2 DEF Before, Since
  <2>3. ASSUME NEW n \in Packet, ReadAudio(n)
        PROVE  LET e == Entry(n, 0, 0)
               IN  /\ Push(e) /\ path = "usb" /\ heard' \in Int
                   /\ heard >= board.restart => heard' >= board.restart /\ ~Before(n)
                   /\ Since(n) => heard' >= board.restart
    BY <1>1, <2>3, ArrivesInOrder DEF ReadAudio
  <2>4. ASSUME NEW n \in Packet, ReadAudio(n)
        PROVE  \E e \in PathEntry :
                 /\ Push(e) /\ path = "usb" /\ e.drops = 0 /\ e.route = 0 /\ (e.n = None \/ e.n \in Packet) /\ heard' \in Int
                 /\ heard >= board.restart => heard' >= board.restart /\ ~Before(e.n)
                 /\ Since(e.n) => heard' >= board.restart
    BY <2>1, <2>3, <2>4
  <2> QED BY <2>2, <2>4
<1>3. /\ UNCHANGED <<boardVars, gateVars, sendVars, taken, readVars>>
      /\ UNCHANGED <<path, board, drops, blamed, lastRoute, poll, taken, active, newest, route, bumps, calls>>
  BY <1>2 DEF Push, boardVars, gateVars, sendVars, readVars
<1>4. PICK k \in {0, 1} : Follows(k, e)
  BY <1>1, <1>2, Pushed
<1>5. poll = None /\ \A i \in 1 .. Len(queue) : queue[i].route = 0
  BY <1>1, <1>2 DEF FramesTyped
<1>6. FramesTyped'
  <2>1. full' \in [0 .. MaxCalls -> Nat]
    <3>1. full' = [full EXCEPT ![0] = @ + k] /\ full \in [0 .. MaxCalls -> Nat] /\ k \in Nat
      BY <1>1, <1>4, SMTT(30) DEF Follows, FramesTyped
    <3>2. full[0] + k \in Nat
      BY <1>1, <3>1
    <3> QED BY <3>1, <3>2
  <2>2. queue' \in Seq(PathEntry)
    BY <1>4 DEF Follows
  <2>3. \A i \in DOMAIN queue' : queue'[i].route = 0
    <3>1. Len(queue) \in Nat
      BY <1>1 DEF FramesTyped
    <3>2. ASSUME NEW i \in 1 .. Len(queue) + 1 - k PROVE queue'[i].route = 0
      <4>1. CASE i \in 1 .. Len(queue) - k
        <5>1. i + k \in 1 .. Len(queue)
          BY <3>1, <4>1
        <5> QED BY <1>4, <1>5, <4>1, <5>1 DEF Follows
      <4>2. CASE i = Len(queue) + 1 - k
        BY <1>2, <1>4, <4>2 DEF Follows
      <4> QED BY <3>1, <4>1, <4>2
    <3>3. DOMAIN queue' = 1 .. Len(queue) + 1 - k
      BY <1>4, <2>2 DEF Follows
    <3> QED BY <3>2, <3>3
  <2> QED BY <1>1, <1>2, <1>3, <2>1, <2>2, <2>3 DEF FramesTyped
<1>7. RestartOK'
  BY <1>1, <1>2, <1>3, <1>4, <1>5, PushedInOrder
<1>8. LossOK'
  BY <1>1, <1>2, <1>3, <1>4, <1>5, PushedApart
<1>9. TrackerOK' /\ LossExact' /\ OnlyOldRefused'
  BY <1>3, VerdictStays DEF FrameInv
<1> QED BY <1>6, <1>7, <1>8, <1>9 DEF FrameInv


-----------------------------------------------------------------------------
(* The decoder thread.                                                     *)

LEMMA TakeKeeps == ASSUME FrameInv, Take PROVE FrameInv'
<1>1. /\ UNCHANGED <<boardVars, gateVars, sendVars, heard, extra, full, readVars>>
      /\ UNCHANGED <<path, board, drops, blamed, heard, lastRoute, poll, active, full, newest, route, bumps, calls>>
      /\ taken = None /\ queue # <<>> /\ queue' = Tail(queue) /\ taken' \in {Head(queue), None}
  BY DEF Take, boardVars, gateVars, sendVars, readVars
<1>2. FramesTyped /\ RestartOK /\ LossOK
  BY DEF FrameInv
<1> DEFINE l == Len(queue)
<1>3. queue \in Seq(PathEntry) /\ l \in Nat /\ l >= 1 /\ Head(queue) = queue[1] /\ queue[1] \in PathEntry
  <2>1. queue \in Seq(PathEntry)
    BY <1>2 DEF FramesTyped
  <2> QED BY <1>1, <2>1
<1>4. queue' \in Seq(PathEntry) /\ Len(queue') = l - 1 /\ \A i \in 1 .. l - 1 : queue'[i] = queue[i + 1]
  BY <1>1, <1>3
<1> HIDE DEF l
<1>5. \A i \in 1 .. l - 1 : i + 1 \in 1 .. l
  BY <1>3
<1>6. FramesTyped'
  <2>1. path = "usb" => \A i \in DOMAIN queue : queue[i].route = 0
    BY <1>2 DEF FramesTyped
  <2>2. DOMAIN queue = 1 .. l /\ DOMAIN queue' = 1 .. l - 1
    BY <1>3, <1>4 DEF l
  <2>3. path = "usb" => (\A i \in DOMAIN queue' : queue'[i].route = 0) /\ (taken' # None => taken'.route = 0)
    BY <1>1, <1>3, <1>4, <1>5, <2>1, <2>2
  <2>4. taken' # None => taken' \in PathEntry
    BY <1>1, <1>3
  <2> QED BY <1>1, <1>2, <1>4, <2>3, <2>4 DEF FramesTyped
<1>7. RestartOK'
  <2>1. ASSUME NEW i \in 1 .. l, SinceFrom(i + 1) PROVE SinceFrom(i)'
    <3>1. ASSUME NEW j \in i .. l - 1 PROVE ~Before(queue'[j].n)
      <4>1. j \in 1 .. l - 1 /\ j + 1 \in i + 1 .. l
        BY <1>3, <3>1
      <4> QED BY <1>4, <2>1, <4>1 DEF SinceFrom, l
    <3> QED BY <1>1, <1>4, <2>1, <3>1 DEF SinceFrom, Before
  <2>2. ASSUME NEW i \in 1 .. l - 1, Since(queue'[i].n) PROVE SinceFrom(i + 1)'
    <3>1. SinceFrom((i + 1) + 1)
      BY <1>2, <1>4, <1>5, <2>2 DEF RestartOK, l
    <3> QED BY <1>5, <2>1, <3>1
  <2>3. 1 \in 1 .. l
    BY <1>3
  <2>4. Since(queue[1].n) => SinceFrom(1)'
    BY <1>2, <2>1, <2>3 DEF RestartOK, l
  <2>5. Since(newest) => SinceFrom(1)' /\ ~Before(queue[1].n)
    <3>1. ASSUME SinceFrom(1) PROVE SinceFrom(1 + 1) /\ ~Before(queue[1].n)
      <4>1. 1 \in 1 .. l /\ \A j \in 1 + 1 .. l : j \in 1 .. l
        BY <1>3
      <4> QED BY <3>1, <4>1 DEF SinceFrom, l
    <3> QED BY <1>2, <2>1, <2>3, <3>1 DEF RestartOK
  <2>6. poll # None /\ Since(poll.n) => heard >= board.restart
    BY <1>2 DEF RestartOK
  <2> QED BY <1>1, <1>3, <1>4, <2>2, <2>4, <2>5, <2>6 DEF RestartOK, Since, Before
<1>8. ASSUME NEW r \in 0 .. MaxCalls PROVE (\E p \in [0 .. Len(queue) -> Nat] : Apart(p, r))'
  <2>1. PICK p \in [0 .. l -> Nat] : Apart(p, r)
    BY <1>2 DEF LossOK, l
  <2>2. PICK t \in [0 .. l - 1 -> Nat] : \A i \in 0 .. l - 1 : t[i] = p[i + 1]
    <3> DEFINE u == [i \in 0 .. l - 1 |-> p[i + 1]]
    <3>1. \A i \in 0 .. l - 1 : i + 1 \in 0 .. l
      BY <1>3
    <3>2. u \in [0 .. l - 1 -> Nat]
      BY <3>1
    <3>3. \A i \in 0 .. l - 1 : u[i] = p[i + 1]
      OBVIOUS
    <3> HIDE DEF u
    <3> QED BY <3>2, <3>3
  <2>3. 0 \in 0 .. l - 1 /\ l - 1 \in 0 .. l - 1 /\ 1 \in 1 .. l /\ 0 \in 0 .. l /\ 1 \in 0 .. l
    BY <1>3
  <2>4. Blamed(r) \in Nat /\ Weight(queue[1], r) \in Nat /\ InHand(r) = 0 /\ p[0] \in Nat /\ p[1] \in Nat
    BY <1>1, <1>2, <2>3, Weights DEF InHand, l
  <2>5. t[0] >= Blamed(r)' + InHand(r)'
    <3>1. p[1] >= p[1 - 1] + Weight(queue[1], r)
      BY <2>1, <2>3 DEF Apart, l
    <3>2. p[0] >= Blamed(r) + InHand(r)
      BY <2>1 DEF Apart
    <3>3. t[0] = p[1]
      BY <2>2, <2>3
    <3>4. Blamed(r)' = Blamed(r) /\ InHand(r)' \in {0, Weight(queue[1], r)}
      BY <1>1, <1>3 DEF Blamed, InHand
    <3> QED BY <2>4, <3>1, <3>2, <3>3, <3>4
  <2>6. t[l - 1] + Waiting(r)' <= full'[r]
    <3>1. p[l] + Waiting(r) <= full[r]
      BY <2>1 DEF Apart, l
    <3>2. t[l - 1] = p[l]
      BY <1>3, <2>2, <2>3
    <3>3. Waiting(r)' = Waiting(r)
      BY <1>1 DEF Waiting, Weight
    <3> QED BY <1>1, <3>1, <3>2, <3>3
  <2>7. ASSUME NEW i \in 1 .. l - 1 PROVE t[i] >= t[i - 1] + Weight(queue'[i], r)
    <3>1. i \in 0 .. l - 1 /\ i - 1 \in 0 .. l - 1 /\ (i - 1) + 1 = (i + 1) - 1
      BY <1>3
    <3>2. p[i + 1] >= p[(i + 1) - 1] + Weight(queue[i + 1], r)
      BY <1>5, <2>1 DEF Apart, l
    <3> QED BY <1>4, <2>2, <3>1, <3>2
  <2>8. Apart(t, r)'
    BY <1>4, <2>5, <2>6, <2>7 DEF Apart
  <2> QED BY <1>4, <2>8
<1>9. LossOK'
  BY <1>8 DEF LossOK
<1>10. TrackerOK' /\ LossExact' /\ OnlyOldRefused'
  BY <1>1, VerdictStays DEF FrameInv
<1> QED BY <1>6, <1>7, <1>9, <1>10 DEF FrameInv

LEMMA PassOverKeeps == ASSUME FrameInv, PassOver PROVE FrameInv'
<1>1. /\ UNCHANGED <<boardVars, gateVars, sendVars, heard, extra, queue, full, readVars>> /\ taken' = None
      /\ UNCHANGED <<path, board, drops, blamed, heard, lastRoute, poll, queue, active, full, newest, route, bumps, calls>>
  BY DEF PassOver, boardVars, gateVars, sendVars, readVars
<1>2. FramesTyped /\ RestartOK /\ LossOK
  BY DEF FrameInv
<1>3. FramesTyped'
  BY <1>1, <1>2 DEF FramesTyped
<1>4. RestartOK'
  BY <1>1, <1>2, RestartStaysLess
<1>5. ASSUME NEW r \in 0 .. MaxCalls
      PROVE  /\ Blamed(r)' + InHand(r)' <= Blamed(r) + InHand(r)
             /\ Waiting(r)' + full[r] <= Waiting(r) + full'[r]
  <2>1. Blamed(r)' = Blamed(r) /\ InHand(r)' = 0 /\ Waiting(r)' = Waiting(r)
    BY <1>1 DEF Blamed, InHand, Waiting, Weight
  <2> QED BY <1>1, <1>2, <2>1, Weights
<1>6. LossOK'
  BY <1>1, <1>2, <1>3, <1>5, LossGoesOn
<1>7. TrackerOK' /\ LossExact' /\ OnlyOldRefused'
  BY <1>1, VerdictStays DEF FrameInv
<1> QED BY <1>3, <1>4, <1>6, <1>7 DEF FrameInv

\* The entry in hand goes, and what is told is no more than it and its
\* predecessors of the same route have had to tell.
LEMMA EntryDone ==
  ASSUME FramesTyped, TrackerOK, RestartOK, LossOK, taken # None, taken.n # None, taken' = None, active' = taken.route,
         UNCHANGED <<boardVars, gateVars, sendVars, heard, queue, full>>,
         newest' \in {newest, taken.n, None}, blamed' \in Nat,
         NewRoute => blamed' <= taken.drops, ~NewRoute => blamed' <= blamed + taken.drops
  PROVE  FramesTyped' /\ RestartOK' /\ LossOK'
<1>1. /\ UNCHANGED <<path, board, drops, heard, lastRoute, poll, queue, full, route, bumps, calls>>
      /\ taken \in PathEntry /\ taken.n \in Packet /\ taken.route \in 0 .. MaxCalls /\ taken.drops \in Nat
      /\ blamed \in Nat
  BY FrameSizes DEF boardVars, gateVars, sendVars, FramesTyped, PathEntry
<1>2. FramesTyped'
  <2>1. newest' \in Packet \cup {None} /\ active' \in 0 .. MaxCalls \cup {None} /\ (path = "usb" => active' \in {None, 0})
    BY <1>1 DEF FramesTyped
  <2> QED BY <1>1, <2>1 DEF FramesTyped
<1>3. RestartOK'
  BY <1>1 DEF RestartOK, SinceFrom, Since, Before
<1>4. ASSUME NEW r \in 0 .. MaxCalls
      PROVE  /\ Blamed(r)' + InHand(r)' <= Blamed(r) + InHand(r)
             /\ Waiting(r)' + full[r] <= Waiting(r) + full'[r]
  <2>1. Waiting(r)' = Waiting(r) /\ Waiting(r) \in Nat /\ full[r] \in Nat /\ full'[r] = full[r]
    BY <1>1, Weights DEF Waiting, Weight
  <2>2. InHand(r)' = 0 /\ Blamed(r) \in Nat /\ InHand(r) \in Nat
    BY Weights DEF InHand
  <2>3. CASE r # taken.route
    <3>1. Blamed(r)' = 0
      BY <2>3 DEF Blamed
    <3> QED BY <2>1, <2>2, <3>1
  <2>4. CASE r = taken.route
    <3>1. Blamed(r)' = blamed' /\ InHand(r) = taken.drops
      BY <2>4 DEF Blamed, InHand, Weight
    <3>2. blamed' <= Blamed(r) + taken.drops
      <4>1. CASE NewRoute
        BY <1>1, <2>2, <4>1
      <4>2. CASE ~NewRoute /\ active = r
        BY <4>2 DEF Blamed
      <4>3. CASE ~NewRoute /\ active # r
        <5>1. path = "usb" /\ active \in {None, 0} /\ taken.route = 0
          BY <2>4, <4>3 DEF NewRoute, FramesTyped
        <5>2. blamed = 0 /\ Blamed(r) = 0
          BY <2>4, <4>3, <5>1 DEF TrackerOK, Blamed
        <5> QED BY <1>1, <4>3, <5>2
      <4> QED BY <4>1, <4>2, <4>3
    <3> QED BY <1>1, <2>1, <2>2, <3>1, <3>2
  <2> QED BY <2>3, <2>4
<1>5. LossOK'
  BY <1>1, <1>2, <1>4, LossGoesOn
<1> QED BY <1>2, <1>3, <1>5

LEMMA DecodeKeeps == ASSUME FrameInv, Decode PROVE FrameInv'
<1>1. /\ UNCHANGED <<boardVars, gateVars, sendVars, heard, extra, queue, full>>
      /\ taken # None /\ taken.n # None /\ taken' = None /\ active' = taken.route
  BY DEF Decode
<1>2. FramesTyped /\ TrackerOK /\ RestartOK /\ LossOK
  BY DEF FrameInv
<1>3. taken \in PathEntry /\ taken.n \in Packet /\ taken.drops \in Nat /\ taken.route \in 0 .. MaxCalls /\ blamed \in Nat
      /\ newest \in Packet \cup {None}
  BY <1>1, <1>2 DEF FramesTyped, PathEntry
<1>4. PICK m \in {newest, None} : \E f, b : \E broken \in 0 .. Frames :
         /\ OnPacket(TrackerAt(m), m, f, b, broken) /\ b \in Nat /\ (Since(m) => ~Before(taken.n))
         /\ NewRoute => b = 0
         /\ ~NewRoute => b = blamed
  <2>1. PICK broken \in 0 .. Frames : IF NewRoute THEN OnPacket(None, None, None, 0, broken)
                                                  ELSE OnPacket(last, newest, prev, blamed, broken)
    BY DEF Decode
  <2>2. CASE NewRoute
    <3>1. TrackerAt(None) = None /\ ~Since(None)
      BY DEF TrackerAt, Since
    <3> QED BY <2>1, <2>2, <3>1
  <2>3. CASE ~NewRoute
    <3>1. last = TrackerAt(newest) /\ (Since(newest) => ~Before(taken.n))
      BY <1>1, <1>2 DEF TrackerOK, RestartOK
    <3>2. OnPacket(TrackerAt(newest), newest, prev, blamed, broken)
      BY <2>1, <2>3, <3>1
    <3> QED BY <1>3, <2>3, <3>1, <3>2
  <2> QED BY <2>2, <2>3
<1>5. PICK f, b : \E broken \in 0 .. Frames :
         /\ OnPacket(TrackerAt(m), m, f, b, broken) /\ b \in Nat /\ (Since(m) => ~Before(taken.n))
         /\ NewRoute => b = 0
         /\ ~NewRoute => b = blamed
  BY <1>4
<1>6. /\ newest' \in {m, taken.n} /\ last' = TrackerAt(newest')
      /\ blamed' \in Nat /\ blamed' <= b + taken.drops /\ OnlyOldRefused' /\ LossExact'
  <2>1. m \in Packet \cup {None}
    BY <1>3
  <2>2. PICK broken \in 0 .. Frames : OnPacket(TrackerAt(m), m, f, b, broken)
    BY <1>5
  <2>3. b \in Nat /\ (Since(m) => ~Before(taken.n))
    BY <1>5
  <2>4. UNCHANGED boardVars
    BY <1>1
  <2> QED BY <1>2, <1>3, <2>1, <2>2, <2>3, <2>4, Decoded
<1>7. FramesTyped' /\ RestartOK' /\ LossOK'
  <2>1. NewRoute => blamed' <= taken.drops
    BY <1>3, <1>5, <1>6
  <2>2. ~NewRoute => blamed' <= blamed + taken.drops
    BY <1>5, <1>6
  <2> QED BY <1>1, <1>2, <1>6, <2>1, <2>2, EntryDone
<1>8. TrackerOK'
  <2>1. path' = path /\ board' = board /\ active' # None
    BY <1>1, <1>3, FrameSizes DEF boardVars
  <2> QED BY <1>6, <2>1 DEF TrackerOK, TrackerAt, Sequenced, Seqno
<1> QED BY <1>6, <1>7, <1>8 DEF FrameInv

LEMMA ParseFailsKeeps == ASSUME FrameInv, ParseFails PROVE FrameInv'
<1>1. /\ UNCHANGED <<boardVars, gateVars, sendVars, heard, extra, queue, full, out>>
      /\ taken # None /\ taken.n # None /\ taken' = None /\ active' = taken.route
      /\ NewRoute => last' = None /\ newest' = None /\ blamed' = 0
      /\ ~NewRoute => last' = last /\ newest' = newest /\ blamed' = blamed
  BY DEF ParseFails
<1>2. FramesTyped /\ TrackerOK /\ RestartOK /\ LossOK
  BY DEF FrameInv
<1>3. taken \in PathEntry /\ taken.drops \in Nat /\ taken.route \in 0 .. MaxCalls /\ blamed \in Nat
  BY <1>1, <1>2 DEF FramesTyped, PathEntry
<1>4. FramesTyped' /\ RestartOK' /\ LossOK'
  <2>1. /\ NewRoute => blamed' <= taken.drops
        /\ ~NewRoute => blamed' <= blamed + taken.drops
        /\ blamed' \in Nat /\ newest' \in {newest, taken.n, None}
    BY <1>1, <1>3
  <2> QED BY <1>1, <1>2, <2>1, EntryDone
<1>5. path' = path /\ board' = board /\ out' = out /\ active' # None
  BY <1>1, <1>3, FrameSizes DEF boardVars
<1>6. TrackerOK'
  <2>1. last' = TrackerAt(newest')
    BY <1>1, <1>2 DEF TrackerOK, TrackerAt
  <2> QED BY <1>5, <2>1 DEF TrackerOK, TrackerAt, Sequenced, Seqno
<1>7. LossExact' /\ OnlyOldRefused'
  BY <1>5 DEF FrameInv, LossExact, Heard, Sequenced, SameNumbering, Frames, OnlyOldRefused
<1> QED BY <1>4, <1>6, <1>7 DEF FrameInv

-----------------------------------------------------------------------------
(* Every frame, every route.                                               *)

LEMMA FramesStart == FramesInit => FrameInv
<1> SUFFICES ASSUME FramesInit PROVE FrameInv
  OBVIOUS
<1>1. /\ path \in {"ble", "legacy", "usb"} /\ board \in Restarts /\ route = 0 /\ bumps = 0 /\ calls = 0 /\ heard = -1
      /\ poll = None /\ lastRoute = 0 /\ drops = 0 /\ queue = <<>> /\ full = [r \in 0 .. MaxCalls |-> 0] /\ blamed = 0
      /\ taken = None /\ active = None /\ last = None /\ newest = None /\ out = None
  BY DEF FramesInit
<1>2. <<>> \in Seq(PathEntry) /\ Len(queue) = 0 /\ DOMAIN queue = {}
  BY <1>1
<1>3. FramesTyped
  BY <1>1, <1>2, FrameSizes DEF FramesTyped
<1>4. TrackerOK /\ RestartOK
  BY <1>1, <1>2 DEF TrackerOK, TrackerAt, RestartOK, Since
<1>5. LossOK
  <2> SUFFICES ASSUME NEW r \in 0 .. MaxCalls PROVE \E p \in [0 .. Len(queue) -> Nat] : Apart(p, r)
    BY DEF LossOK
  <2>1. Blamed(r) + InHand(r) = 0 /\ Waiting(r) = 0 /\ full[r] = 0
    BY <1>1 DEF Blamed, InHand, Waiting
  <2>2. PICK p \in [0 .. 0 -> Nat] : p[0] = 0
    <3>1. [i \in 0 .. 0 |-> 0] \in [0 .. 0 -> Nat] /\ [i \in 0 .. 0 |-> 0][0] = 0
      OBVIOUS
    <3> QED BY <3>1
  <2>3. Apart(p, r)
    BY <1>2, <2>1, <2>2 DEF Apart
  <2> QED BY <1>2, <2>3
<1>6. LossExact /\ OnlyOldRefused
  BY <1>1 DEF LossExact, Heard, OnlyOldRefused
<1> QED BY <1>3, <1>4, <1>5, <1>6 DEF FrameInv

(* A set of numbers has a least element.                                   *)
LEMMA LeastElement == ASSUME NEW S \in SUBSET Nat, S # {} PROVE \E x \in S : \A y \in S : x <= y
<1> DEFINE Less == {pair \in Nat \X Nat : pair[1] < pair[2]}
<1>1. IsWellFoundedOn(Less, Nat)
  BY NatLessThanWellFounded DEF OpToRel
<1>2. PICK x \in S : \A y \in S : ~(<<y, x>> \in Less)
  <2> HIDE DEF Less
  <2> QED BY <1>1, WFMin
<1>3. ASSUME NEW y \in S, y < x PROVE FALSE
  <2>1. <<y, x>> \in Less
    BY <1>3
  <2> QED BY <1>2, <2>1
<1> QED BY <1>2, <1>3

\* For every length of the queues, every width of the sequence number that is
\* more than twice what may be lost, and any number of packets, restarts and
\* calls: the packets stay in order, the losses of a route are told once.
THEOREM FramesInvariant == FramesSpec => []FrameInv
<1>1. ASSUME FrameInv, FramesNext PROVE FrameInv'
  BY <1>1, GateKeeps, PollKeeps, StampKeeps, SendKeeps, ReaderKeeps, TakeKeeps, PassOverKeeps, DecodeKeeps, ParseFailsKeeps
     DEF FramesNext
<1>2. ASSUME FrameInv, UNCHANGED frameVars PROVE FrameInv'
  <2>1. /\ UNCHANGED <<boardVars, readVars>>
        /\ UNCHANGED <<path, board, gate, route, bumps, calls, heard, poll, lastRoute, drops, queue, full, taken, active,
                       newest, blamed>>
    BY <1>2 DEF frameVars, boardVars, gateVars, sendVars, readVars
  <2>2. FramesTyped'
    BY <1>2, <2>1 DEF FrameInv, FramesTyped
  <2> QED BY <1>2, <2>1, <2>2, RestartStays, LossStays, VerdictStays DEF FrameInv
<1> QED BY <1>1, <1>2, FramesStart, PTL DEF FramesSpec

\* A frame tells exactly how much is missing before it, across the wrap of the
\* sequence number (SequenceTracker::observe, EncodedAudioDecoderSink).
THEOREM LossAlwaysExact == FramesSpec => []LossExact
BY FramesInvariant, PTL DEF FrameInv

\* The tracker refuses only what it has already passed.
THEOREM OnlyOldEverRefused == FramesSpec => []OnlyOldRefused
BY FramesInvariant, PTL DEF FrameInv

\* What frames report as lost in the host never exceeds what the queue dropped
\* on this route, on either path (start_notification_loop, UsbVendorAudioReader).
THEOREM LossAlwaysLocal == FramesSpec => []LocalLossIsLocal
<1>1. ASSUME FrameInv, active # None PROVE blamed <= full[active]
  <2>1. FramesTyped /\ LossOK
    BY <1>1 DEF FrameInv
  <2>2. active \in 0 .. MaxCalls
    BY <1>1, <2>1 DEF FramesTyped
  <2>3. PICK p \in [0 .. Len(queue) -> Nat] : Apart(p, active)
    BY <2>1, <2>2 DEF LossOK
  <2>4. Len(queue) \in Nat /\ \A i \in 1 .. Len(queue) : Weight(queue[i], active) \in Nat
    <3>1. Len(queue) \in Nat
      BY <2>1 DEF FramesTyped
    <3>2. \A i \in 1 .. Len(queue) : Weight(queue[i], active) \in Nat
      BY <2>1, <2>2, Weights
    <3> QED BY <3>1, <3>2
  <2>5. ASSUME NEW i \in 0 .. Len(queue) PROVE p[0] <= p[i]
    <3> DEFINE S == {j \in 0 .. Len(queue) : ~(p[0] <= p[j])}
    <3>1. ASSUME S # {} PROVE FALSE
      <4>1. S \in SUBSET Nat
        BY <2>4
      <4>2. PICK j \in S : \A x \in S : j <= x
        BY <3>1, <4>1, LeastElement
      <4>3. j # 0
        BY <4>2
      <4>4. j \in 1 .. Len(queue) /\ j - 1 \in 0 .. Len(queue) /\ j - 1 \notin S
        BY <2>4, <4>2, <4>3
      <4>5. p[0] <= p[j - 1] /\ p[j] >= p[j - 1] + Weight(queue[j], active) /\ Weight(queue[j], active) \in Nat
        BY <2>3, <2>4, <4>4 DEF Apart
      <4>6. 0 \in 0 .. Len(queue) /\ j \in 0 .. Len(queue)
        BY <2>4, <4>4
      <4>7. p[0] \in Nat /\ p[j - 1] \in Nat /\ p[j] \in Nat
        BY <4>4, <4>6
      <4> QED BY <4>2, <4>5, <4>7
    <3> QED BY <3>1
  <2>6. blamed \in Nat /\ InHand(active) \in Nat /\ Waiting(active) \in Nat /\ full[active] \in Nat /\ Blamed(active) = blamed
    BY <2>1, <2>2, Weights DEF FramesTyped, Blamed
  <2>7. 0 \in 0 .. Len(queue) /\ Len(queue) \in 0 .. Len(queue)
    BY <2>4
  <2>8. p[0] \in Nat /\ p[Len(queue)] \in Nat /\ p[0] <= p[Len(queue)]
    BY <2>5, <2>7
  <2>9. p[0] >= blamed + InHand(active) /\ p[Len(queue)] + Waiting(active) <= full[active]
    BY <2>3, <2>6 DEF Apart
  <2> QED BY <2>6, <2>8, <2>9
<1>2. FrameInv => LocalLossIsLocal
  BY <1>1 DEF LocalLossIsLocal
<1> QED BY <1>2, FramesInvariant, PTL
=============================================================================
