----------------------------- MODULE AudioFrames -----------------------------
(***************************************************************************)
(* From an audio packet that reaches the host to the AudioFrame given to   *)
(* the application's sink: the notification task of a GATT session or the  *)
(* reader thread of UsbVendorAudioReader, their bounded queues, the gate   *)
(* and route epoch of VendorGattClient::set_audio_enabled, the decoder     *)
(* thread, and EncodedAudioDecoderSink with its SequenceTracker.           *)
(*                                                                         *)
(* Packet n is the n-th the board made.  The sequence number it carries    *)
(* wraps, and starts again anywhere when the board's encoder restarts; the *)
(* first packet after a restart is flagged.  A queue entry keeps n, from   *)
(* which Seqno and Flagged give what the envelope says.                    *)
(***************************************************************************)
EXTENDS Integers, Sequences, FiniteSets

CONSTANTS
    None,
    QueueLimit,     \* of either queue: 64 in the code
    Modulus,        \* of the sequence number: 2^16 in the code
    FirstSeqno,     \* the sequence number of packet 0
    Restarts,       \* the [restart, shift] a board may have
    MaxPackets,     \* bound on the packets made
    MaxExtra,       \* bound on late packets and on reports that are not audio
    MaxCalls        \* bound on the calls of set_audio_enabled

Half == Modulus \div 2
Packet == 0 .. MaxPackets

\* A drop-oldest queue hands the count of a dropped entry to the next one, so
\* it has a next one; and no loss is as long as half the sequence numbers.
ASSUME SizesAssumption ==
    /\ None \notin Int
    /\ QueueLimit \in Nat /\ QueueLimit >= 2
    /\ MaxPackets \in Nat /\ MaxExtra \in Nat /\ MaxCalls \in Nat
    /\ Modulus \in Nat /\ Half > MaxPackets + 1
    /\ FirstSeqno \in 0 .. Modulus - 1
    /\ Restarts \subseteq [restart : Nat, shift : 0 .. Modulus - 1]

VARIABLES
    path,       \* how this board sends: "ble", "legacy" (old envelope) or "usb"
    board,      \* the packet its encoder restarts at, and the new numbering
    gate,       \* VendorGattClient.audio_enabled
    route,      \* VendorGattClient.audio_route_epoch
    bumps,      \* calls of set_audio_enabled between their swap and fetch_add
    calls,      \* calls of set_audio_enabled so far
    heard,      \* the newest packet that has reached the host
    extra,      \* late packets, and reports that are not audio, so far
    poll,       \* the packet the notification task is working on
    lastRoute,  \* last_audio_route_epoch of the notification task
    drops,      \* audio_local_drops
    queue,      \* entries [n, drops, route]; n is None for another report
    taken,      \* the entry the decoder thread is working on
    active,     \* active_route_epoch of the decoder thread
    last,       \* SequenceTracker.last
    newest,     \* ghost: the newest packet the tracker took since its reset
    prev,       \* ghost: the packet of the latest frame since that reset
    full,       \* ghost: how many entries the full queue has cost each route
    blamed,     \* ghost: how many the frames since that reset have reported
    out         \* ghost: what became of the latest packet to be decoded

boardVars == <<path, board>>
gateVars == <<gate, route, bumps, calls>>
sendVars == <<poll, lastRoute, drops>>
readVars == <<active, last, newest, prev, blamed, out>>
frameVars == <<boardVars, gateVars, sendVars, heard, extra, queue, full, taken, readVars>>

-----------------------------------------------------------------------------
(* The board. *)

Sequenced == path # "legacy"

\* mSBC frames in a packet: an HID report has room for one.
Frames == IF path = "usb" THEN 1 ELSE 2

Flagged(n) == Sequenced /\ n = board.restart
Seqno(n) ==
    (FirstSeqno + n + (IF n >= board.restart THEN board.shift ELSE 0)) % Modulus

\* Packets may be lost on the way, come twice or come late; none that was made
\* before a restart comes after one that was made since, and none is late in the
\* old envelope, which has no number to tell it by.
Arrives(n) ==
    \/ n > heard /\ heard' = n /\ UNCHANGED extra
    \/ /\ n <= heard
       /\ Sequenced
       /\ n < board.restart => heard < board.restart
       /\ extra < MaxExtra
       /\ extra' = extra + 1
       /\ UNCHANGED heard

Entry(n, before, r) == [n |-> n, drops |-> before, route |-> r]

FramesInit ==
    /\ path \in {"ble", "legacy", "usb"}
    /\ board \in Restarts
    /\ gate \in BOOLEAN /\ route = 0 /\ bumps = 0 /\ calls = 0
    /\ heard = -1 /\ extra = 0
    /\ poll = None /\ lastRoute = 0 /\ drops = 0
    /\ queue = <<>> /\ full = [r \in 0 .. MaxCalls |-> 0] /\ blamed = 0
    /\ taken = None
    /\ active = None /\ last = None
    /\ newest = None /\ prev = None /\ out = None

-----------------------------------------------------------------------------
(* The gate of the BLE path. *)

SetAudioEnabled(enabled) ==
    /\ path # "usb"
    /\ calls < MaxCalls
    /\ calls' = calls + 1
    /\ gate' = enabled
    /\ bumps' = IF gate # enabled THEN bumps + 1 ELSE bumps
    /\ UNCHANGED <<boardVars, route, sendVars, heard, extra, queue, full, taken, readVars>>

BumpRoute ==
    /\ bumps > 0
    /\ bumps' = bumps - 1
    /\ route' = route + 1
    /\ UNCHANGED <<boardVars, gate, calls, sendVars, heard, extra, queue, full, taken, readVars>>

-----------------------------------------------------------------------------
(* The notification task of the BLE path. *)

Poll(n) ==
    /\ path # "usb"
    /\ poll = None
    /\ Arrives(n)
    /\ IF gate
       THEN poll' = Entry(n, 0, None) /\ UNCHANGED drops
       ELSE drops' = 0 /\ UNCHANGED poll
    /\ UNCHANGED <<boardVars, gateVars, lastRoute, queue, full, taken, readVars>>

\* Mutant: the drops are put on the packet and kept.
StampKeepsDrops ==
    /\ poll # None
    /\ poll.route = None
    /\ poll' = Entry(poll.n, IF route # lastRoute THEN 0 ELSE drops, route)
    /\ lastRoute' = route
    /\ UNCHANGED <<boardVars, gateVars, drops, heard, extra, queue, full, taken, readVars>>
Stamp ==
    /\ poll # None
    /\ poll.route = None
    /\ poll' = Entry(poll.n, IF route # lastRoute THEN 0 ELSE drops, route)
    /\ lastRoute' = route
    /\ drops' = 0
    /\ UNCHANGED <<boardVars, gateVars, heard, extra, queue, full, taken, readVars>>

Send ==
    /\ poll # None
    /\ poll.route # None
    /\ poll' = None
    /\ IF Len(queue) < QueueLimit
       THEN queue' = Append(queue, poll) /\ UNCHANGED <<drops, full>>
       ELSE /\ drops' = drops + poll.drops + 1
            /\ full' = [full EXCEPT ![poll.route] = @ + 1]
            /\ UNCHANGED queue
    /\ UNCHANGED <<boardVars, gateVars, lastRoute, heard, extra, taken, readVars>>

-----------------------------------------------------------------------------
(* The reader thread of the USB path. *)

\* The oldest entry makes room; what it stood for is charged to the next one.
DropOldest ==
    IF Len(queue) < QueueLimit THEN queue
    ELSE [Tail(queue) EXCEPT ![1].drops = @ + Head(queue).drops + 1]

Push(entry) ==
    /\ queue' = Append(DropOldest, entry)
    /\ full' = IF Len(queue) < QueueLimit THEN full ELSE [full EXCEPT ![0] = @ + 1]
    /\ UNCHANGED <<boardVars, gateVars, sendVars, taken, readVars>>

ReadAudio(n) ==
    /\ path = "usb"
    /\ Arrives(n)
    /\ Push(Entry(n, 0, 0))

\* The answer to a command: the interface is shared.
ReadOther ==
    /\ path = "usb"
    /\ extra < MaxExtra
    /\ extra' = extra + 1
    /\ Push(Entry(None, 0, 0))
    /\ UNCHANGED heard

-----------------------------------------------------------------------------
(* SequenceTracker and EncodedAudioDecoderSink. *)

\* Mutant: the numbers are compared as they are.
ObserveNoWrap(tracker, seqno) ==
    IF tracker = None
    THEN [old |-> FALSE, missing |-> 0, last |-> seqno]
    ELSE IF seqno > tracker
         THEN [old |-> FALSE, missing |-> seqno - tracker - 1, last |-> seqno]
         ELSE [old |-> TRUE, missing |-> 0, last |-> tracker]

\* SequenceTracker::observe.
Observe(tracker, seqno) ==
    IF tracker = None
    THEN [old |-> FALSE, missing |-> 0, last |-> seqno]
    ELSE LET delta == (seqno - tracker) % Modulus IN
         IF delta \in 1 .. Half - 1
         THEN [old |-> FALSE, missing |-> delta - 1, last |-> seqno]
         ELSE [old |-> TRUE, missing |-> 0, last |-> tracker]

Least(i, j) == IF i < j THEN i ELSE j

\* Mutant: an announced restart does not reset the tracker.
VerdictNoReset(n, tracker) ==
    IF Sequenced THEN Observe(tracker, Seqno(n))
    ELSE [old |-> FALSE, missing |-> 0, last |-> tracker]

\* What the tracker says of packet n when it was left at `tracker'.
Verdict(n, tracker) ==
    IF Sequenced THEN Observe(IF Flagged(n) THEN None ELSE tracker, Seqno(n))
    ELSE [old |-> FALSE, missing |-> 0, last |-> tracker]

\* EncodedAudioDecoderSink::on_packet for the taken entry, `broken' of whose
\* mSBC frames do not decode, with the tracker at `tracker'.  A frame reports
\* its losses in mSBC frames, as sequence_gap_frames and local_drop_frames.
OnPacket(tracker, tookBefore, frameBefore, blamedBefore, broken) ==
    LET n == taken.n
        verdict == Verdict(n, tracker)
        local == IF Sequenced THEN Least(taken.drops, verdict.missing) ELSE taken.drops
        wire == verdict.missing - Least(local, verdict.missing)
    IN  /\ last' = verdict.last
        /\ newest' = IF verdict.old THEN tookBefore ELSE n
        /\ IF verdict.old
           THEN /\ out' = [kind |-> "refused", n |-> n, newest |-> tookBefore]
                /\ prev' = frameBefore /\ blamed' = blamedBefore
           ELSE IF broken = Frames
           THEN out' = None /\ prev' = frameBefore /\ blamed' = blamedBefore
           ELSE /\ out' = [kind |-> "frame", n |-> n,
                           newest |-> tookBefore, prev |-> frameBefore,
                           flagged |-> Flagged(n), gap |-> wire * Frames,
                           local |-> local * Frames + broken, broken |-> broken]
                /\ prev' = n /\ blamed' = blamedBefore + local

-----------------------------------------------------------------------------
(* The decoder thread of either path. *)

\* BLE: the gate is read as soon as a packet is received, the epoch after it.
Take ==
    /\ taken = None
    /\ queue # <<>>
    /\ queue' = Tail(queue)
    /\ taken' = IF path = "usb" \/ gate THEN Head(queue) ELSE None
    /\ UNCHANGED <<boardVars, gateVars, sendVars, heard, extra, full, readVars>>

\* Another route's packet, or a report that is not an audio packet.
PassOver ==
    /\ taken # None
    /\ (path # "usb" /\ taken.route # route) \/ taken.n = None
    /\ taken' = None
    /\ UNCHANGED <<boardVars, gateVars, sendVars, heard, extra, queue, full, readVars>>

\* reset_sequence is called before this entry is looked at.
NewRoute == path # "usb" /\ active # taken.route

Decode ==
    /\ taken # None
    /\ path # "usb" => taken.route = route
    /\ taken.n # None
    /\ \E broken \in 0 .. Frames :
           IF NewRoute THEN OnPacket(None, None, None, 0, broken)
                       ELSE OnPacket(last, newest, prev, blamed, broken)
    /\ active' = taken.route
    /\ taken' = None
    /\ UNCHANGED <<boardVars, gateVars, sendVars, heard, extra, queue, full>>

\* The envelope does not parse; the route has been taken note of all the same.
ParseFails ==
    /\ taken # None
    /\ path # "usb" => taken.route = route
    /\ taken.n # None
    /\ IF NewRoute
       THEN last' = None /\ newest' = None /\ prev' = None /\ blamed' = 0
       ELSE UNCHANGED <<last, newest, prev, blamed>>
    /\ active' = taken.route
    /\ taken' = None
    /\ UNCHANGED <<boardVars, gateVars, sendVars, heard, extra, queue, full, out>>

FramesNext ==
    \/ \E enabled \in BOOLEAN : SetAudioEnabled(enabled)
    \/ BumpRoute
    \/ \E n \in Packet : Poll(n) \/ ReadAudio(n)
    \/ Stamp \/ Send
    \/ ReadOther
    \/ Take \/ PassOver \/ Decode \/ ParseFails

FramesSpec == FramesInit /\ [][FramesNext]_frameVars
-----------------------------------------------------------------------------
(* Properties. *)

Heard == out # None /\ out.kind = "frame"

\* The numbering of the board does not change unannounced between the packets.
SameNumbering(i, j) == ~(i < board.restart /\ board.restart < j)

\* Two frames with no undecodable packet between them: the second tells exactly
\* how much of the audio is missing before it (sink.rs on_packet, audio.rs
\* SequenceTracker::observe), whether the queue, the air or the gate lost it,
\* across the wrap of the sequence number, and frames are never out of order.
LossExact ==
    /\ Heard /\ Sequenced /\ ~out.flagged
    /\ out.prev # None /\ out.prev = out.newest
    /\ SameNumbering(out.prev, out.n)
    =>
        /\ out.n > out.prev
        /\ out.gap + out.local - out.broken = Frames * (out.n - out.prev - 1)

\* The tracker refuses only what it has already passed: a restart the board has
\* announced never silences what follows it (CHANGELOG.md:297).
OnlyOldRefused ==
    out # None /\ out.kind = "refused" =>
        out.n <= out.newest \/ ~SameNumbering(out.newest, out.n)

\* What frames report as lost in the host never exceeds what the host's queue
\* has dropped on this route: no loss is told twice, and none is carried over to
\* the next route (gatt_client.rs:784, usb_hid_audio.rs:89).
LocalLossIsLocal == active # None => blamed <= full[active]

\* "Frames lost to decoding are now reported through local_drop_frames"
\* (CHANGELOG.md:303): a frame after an undecodable packet says that something
\* is missing.
DecodingLossReported ==
    Heard /\ out.prev # None /\ out.prev # out.newest =>
        out.flagged \/ out.gap > 0 \/ out.local > 0
=============================================================================
