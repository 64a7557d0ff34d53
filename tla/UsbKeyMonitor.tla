---------------------------- MODULE UsbKeyMonitor ----------------------------
(***************************************************************************)
(* HidMonitor (src/src/runtime/usb/monitor.rs): the two threads that read  *)
(* the board's USB key interfaces, with the Consumer interface's ledger    *)
(* ConsumerHeldTracker and ConsumerModeTracker                             *)
(* (src/src/kernel/consumer_hold.rs), reporting into KeyAggregator.        *)
(*                                                                         *)
(* The Consumer interface carries one key value at a time: a press sends   *)
(* the key's value, 0x0000 is sent when the last key is up, and a step of  *)
(* the knob sends its value and at once a 0x0000 of its own (the tail).    *)
(* The ledger tells the two kinds of 0x0000 apart by time: pulse says that *)
(* a knob step was read less than KNOB_PULSE_TAIL_WINDOW ago and its tail  *)
(* was not.                                                                *)
(*                                                                         *)
(* The firmware and the hand on the board are assumed as the code's        *)
(* comments measured them (consumer_hold.rs:31-44): a tail is read within  *)
(* the window, and after a step whose tail is lost nobody lets go of the   *)
(* keys within the window.                                                 *)
(***************************************************************************)
EXTENDS KeyAggregator, Sequences

CONSTANTS
    Consumer,  \* the source that reports one value at a time
    Knob,      \* the keys that are knob steps (KEY0, KEY1)
    Voice,     \* the AI voice key
    Endpoint,  \* the mode switch's contacts (KEY9, KEY10)
    Chat,      \* the mode without a contact (KEY11)
    None,      \* no endpoint, no mode
    AllUp,     \* a 0x0000 of the last key released
    KnobUp,    \* a 0x0000 of a knob step, its tail
    Other,     \* a value that is no key's
    MaxWire,   \* bound: frames waiting on the Consumer interface
    MaxStatus  \* bound: mode reports waiting on the Config interface

Ordinary == Reportable[Consumer] \ Knob
Mode == Endpoint \cup {Chat}

ASSUME ConsumerAssumption == Source = {Config, Consumer} /\ Config # Consumer
ASSUME KnobAssumption == Knob \subseteq Reportable[Consumer]
ASSUME EndpointAssumption == Endpoint \subseteq Ordinary /\ Chat \notin Reportable[Consumer]
ASSUME VoiceAssumption == Voice \in Ordinary \ Endpoint
ASSUME NoneAssumption == None \notin Mode
ASSUME FrameAssumption ==
    /\ {AllUp, KnobUp, Other} \cap (Key \cup {Chat}) = {}
    /\ AllUp # KnobUp /\ Other \notin {AllUp, KnobUp}
ASSUME BoundAssumption == MaxWire \in Nat /\ MaxStatus \in Nat

VARIABLES
    \* the board
    down,       \* ordinary keys and endpoints that are closed
    lost,       \* the tail of the last knob step was lost
    wire,       \* Consumer frames sent and not yet read
    status,     \* mode reports sent on the Config interface and not yet read
    \* HidMonitor
    isRunning,  \* running
    configPc, consumerPc,
    \* locals of monitor_consumer_loop
    ledger,     \* ConsumerHeldTracker.held
    pulse,      \* last_knob_pulse_at lies within the window
    endpoint,   \* ConsumerModeTracker.active_endpoint
    batches, cleared, modeChange,  \* the frame in hand
    voicePressed,                  \* ai_voice_pressed
    \* what a subscriber was told last
    voiceShown, modeShown

board == <<down, lost, wire, status>>
frame == <<batches, cleared, modeChange>>
tracker == <<ledger, pulse, endpoint>>
shown == <<voicePressed, voiceShown, modeShown>>
monVars == <<aggVars, board, isRunning, configPc, consumerPc, frame, tracker, shown>>

Frame == Reportable[Consumer] \cup {Chat, AllUp, KnobUp, Other}

MonInit ==
    /\ AggInit
    /\ down = {} /\ lost = FALSE /\ wire = <<>> /\ status = <<>>
    /\ isRunning = TRUE /\ configPc = "read" /\ consumerPc = "read"
    /\ ledger = {} /\ pulse = FALSE /\ endpoint = None
    /\ batches = <<>> /\ cleared = FALSE /\ modeChange = None
    /\ voicePressed = FALSE /\ voiceShown = FALSE /\ modeShown = None

-----------------------------------------------------------------------------
(* The board, external                                                     *)

\* Frames matter while somebody reads them.
Room(n) == isRunning /\ Len(wire) + n <= MaxWire

\* The switch's position: at most one endpoint is closed.
Press(k) ==
    /\ k \notin down /\ Room(1)
    /\ k \in Endpoint => down \cap Endpoint = {} /\ Len(status) < MaxStatus
    /\ down' = down \cup {k}
    /\ wire' = Append(wire, k)
    /\ status' = IF k \in Endpoint THEN Append(status, k) ELSE status
    /\ UNCHANGED <<aggVars, lost, isRunning, configPc, consumerPc, frame, tracker, shown>>

\* Only the last key's release is sent.  A hand takes longer than the window.
KnobPending == pulse \/ \E i \in DOMAIN wire : wire[i] \in Knob

Release(k) ==
    /\ k \in down /\ Room(IF down = {k} THEN 1 ELSE 0)
    /\ k \in Endpoint => Len(status) < MaxStatus
    /\ lost => ~KnobPending
    /\ down' = down \ {k}
    /\ wire' = IF down' = {} THEN Append(wire, AllUp) ELSE wire
    /\ status' = IF k \in Endpoint THEN Append(status, Chat) ELSE status
    /\ UNCHANGED <<aggVars, lost, isRunning, configPc, consumerPc, frame, tracker, shown>>

Turn(k) ==
    /\ Room(2)
    /\ \/ lost' = FALSE /\ wire' = wire \o <<k, KnobUp>>
       \/ lost' = TRUE  /\ wire' = Append(wire, k)
    /\ UNCHANGED <<aggVars, down, status, isRunning, configPc, consumerPc, frame, tracker, shown>>

\* A reply of another kind shows up on the interface, even inside a knob step.
Stray ==
    /\ Room(1)
    /\ wire' = <<Other>> \o wire
    /\ Other \notin {wire[i] : i \in DOMAIN wire}
    /\ UNCHANGED <<aggVars, down, lost, status, isRunning, configPc, consumerPc, frame, tracker, shown>>

WindowEnds ==
    /\ pulse /\ KnobUp \notin {wire[i] : i \in DOMAIN wire}
    /\ pulse' = FALSE
    /\ UNCHANGED <<aggVars, board, isRunning, configPc, consumerPc, frame, ledger, endpoint, shown>>

-----------------------------------------------------------------------------
(* monitor_consumer_loop                                                   *)

\* ConsumerHeldTracker::on_frame, by the kind of the frame.
TailFrame(v) ==
    /\ v \in {AllUp, KnobUp} /\ pulse
    /\ pulse' = FALSE
    /\ batches' = <<>> /\ cleared' = FALSE
    /\ UNCHANGED ledger

\* Mutant: a knob step is answered by whichever 0x0000 comes next.
ClearFrameAlways(v) ==
    /\ v \in {AllUp, KnobUp}
    /\ ledger' = {}
    /\ batches' = <<{}>> /\ cleared' = TRUE
    /\ UNCHANGED pulse

ClearFrame(v) ==
    /\ v \in {AllUp, KnobUp} /\ ~pulse
    /\ ledger' = {}
    /\ batches' = <<{}>> /\ cleared' = TRUE
    /\ UNCHANGED pulse

UnknownFrame(v) ==
    /\ v = Other
    /\ batches' = <<>> /\ cleared' = FALSE
    /\ UNCHANGED <<ledger, pulse>>

\* Mutant: the knob's value replaces the keys held.
KnobFrameReplaces(v) ==
    /\ v \in Knob
    /\ batches' = <<{v}, ledger>> /\ cleared' = FALSE
    /\ pulse' = TRUE
    /\ UNCHANGED ledger

KnobFrame(v) ==
    /\ v \in Knob
    /\ batches' = <<ledger \cup {v}, ledger>> /\ cleared' = FALSE
    /\ pulse' = TRUE
    /\ UNCHANGED ledger

KeyFrame(v) ==
    /\ v \in Ordinary \cup {Chat}
    /\ ledger' = ledger \cup {v}
    /\ batches' = <<ledger'>> /\ cleared' = FALSE
    /\ pulse' = FALSE

\* Mutant: the released endpoint is not told.
ModeFrameEndpointsOnly(v) ==
    IF v \in Mode
    THEN endpoint' = (IF v = Chat THEN None ELSE v) /\ modeChange' = v
    ELSE endpoint' = endpoint /\ modeChange' = None

\* ConsumerModeTracker::on_frame, with the cleared flag just computed.
ModeFrame(v) ==
    IF v \in Mode
    THEN endpoint' = (IF v = Chat THEN None ELSE v) /\ modeChange' = v
    ELSE IF cleared' /\ endpoint # None
    THEN endpoint' = None /\ modeChange' = Chat
    ELSE endpoint' = endpoint /\ modeChange' = None

\* The voice key's press is told before the ledger looks at the frame.
ReadConsumer ==
    /\ isRunning /\ consumerPc = "read" /\ wire # <<>>
    /\ LET v == Head(wire)
       IN  /\ TailFrame(v) \/ ClearFrame(v) \/ UnknownFrame(v) \/ KnobFrame(v) \/ KeyFrame(v)
           /\ ModeFrame(v)
           /\ voicePressed' = (voicePressed \/ v = Voice)
           /\ voiceShown' = (voiceShown \/ v = Voice)
    /\ wire' = Tail(wire)
    /\ consumerPc' = "report"
    /\ UNCHANGED <<aggVars, down, lost, status, isRunning, configPc, modeShown>>

\* The batches are reported one after the other: Report of KeyAggregator.
ReportBatch ==
    /\ consumerPc = "report" /\ batches # <<>>
    /\ Report(Consumer, Head(batches))
    /\ batches' = Tail(batches)
    /\ UNCHANGED <<board, isRunning, configPc, consumerPc, cleared, modeChange, tracker, shown>>

FinishFrame ==
    /\ consumerPc = "report" /\ batches = <<>> /\ Sent(Consumer)
    /\ consumerPc' = "read"
    /\ voicePressed' = (voicePressed /\ ~cleared)
    /\ voiceShown' = (voiceShown /\ ~(cleared /\ voicePressed))
    /\ modeShown' = IF modeChange = None THEN modeShown ELSE modeChange
    /\ cleared' = FALSE /\ modeChange' = None
    /\ UNCHANGED <<aggVars, board, isRunning, configPc, batches, tracker>>

\* The loop ends: stopped, the other thread has ended, or the device's reads
\* fail.  Its keys are reported as released.
LeaveConsumer ==
    /\ consumerPc = "read"
    /\ isRunning' = FALSE /\ consumerPc' = "leave"
    /\ Report(Consumer, {})
    /\ UNCHANGED <<board, configPc, frame, tracker, shown>>

\* Mutant: the voice key is left pressed.
ConsumerGoneVoiceKept ==
    /\ consumerPc = "leave" /\ Sent(Consumer)
    /\ consumerPc' = "exited"
    /\ UNCHANGED <<aggVars, board, isRunning, configPc, frame, tracker, shown>>

ConsumerGone ==
    /\ consumerPc = "leave" /\ Sent(Consumer)
    /\ consumerPc' = "exited"
    /\ voicePressed' = FALSE /\ voiceShown' = (voiceShown /\ ~voicePressed)
    /\ UNCHANGED <<aggVars, board, isRunning, configPc, frame, tracker, modeShown>>

-----------------------------------------------------------------------------
(* monitor_config_loop                                                     *)

\* A key mask names every key the interface has, the knob's phases included.
ReadMask ==
    /\ isRunning /\ configPc = "read"
    /\ \E keys \in SUBSET Reportable[Config] : Report(Config, keys)
    /\ UNCHANGED <<board, isRunning, configPc, consumerPc, frame, tracker, shown>>

ReadStatus ==
    /\ isRunning /\ configPc = "read" /\ Sent(Config) /\ status # <<>>
    /\ modeShown' = Head(status)
    /\ status' = Tail(status)
    /\ UNCHANGED <<aggVars, down, lost, wire, isRunning, configPc, consumerPc, frame, tracker,
                   voicePressed, voiceShown>>

LeaveConfig ==
    /\ configPc = "read"
    /\ isRunning' = FALSE /\ configPc' = "exited"
    /\ Report(Config, {})
    /\ UNCHANGED <<board, consumerPc, frame, tracker, shown>>

\* HidMonitor::stop
StopMonitor ==
    /\ isRunning
    /\ isRunning' = FALSE
    /\ UNCHANGED <<aggVars, board, configPc, consumerPc, frame, tracker, shown>>

-----------------------------------------------------------------------------
SendEvent(s) ==
    /\ Send(s)
    /\ UNCHANGED <<board, isRunning, configPc, consumerPc, frame, tracker, shown>>

ConsumerThread ==
    \/ ReadConsumer \/ ReportBatch \/ FinishFrame
    \/ LeaveConsumer \/ ConsumerGone
    \/ SendEvent(Consumer)

ConfigThread == ReadMask \/ ReadStatus \/ LeaveConfig \/ SendEvent(Config)

Board ==
    \/ \E k \in Ordinary : Press(k) \/ Release(k)
    \/ \E k \in Knob : Turn(k)
    \/ Stray \/ WindowEnds

MonNext == ConsumerThread \/ ConfigThread \/ Board \/ StopMonitor

MonSpec == MonInit /\ [][MonNext]_monVars

-----------------------------------------------------------------------------
\* Everything the board sent has been read and reported.
Drained ==
    /\ isRunning /\ AllSent
    /\ wire = <<>> /\ status = <<>>
    /\ consumerPc = "read"

\* The ledger follows the hand: whatever was pressed, released and turned in
\* between, with tails lost or not, every key that is down is shown pressed,
\* and when the last one is up none is.
HoldFollowsHand ==
    Drained =>
        /\ \A k \in down : Exclusive(k) => k \in view
        /\ down = {} => view \subseteq held[Config]

\* A knob step is a tap beside the keys held: a subscriber never sees the
\* release of a key the ledger holds, not even for an instant.
HeldStaysPressed ==
    [][consumerPc # "leave" =>
          \A k \in ledger \cap Ordinary : Exclusive(k) /\ k \in view => k \in view']_monVars

\* The voice key is told pressed exactly while the ledger holds it: its
\* release is neither lost nor taken from a knob step's tail.
VoiceFollowsLedger ==
    consumerPc = "read" => (voiceShown <=> Voice \in ledger)

\* The switch's contact that is closed is the mode last told, although two
\* threads tell it, and with everything open the mode is Chat.
ModeFollowsSwitch ==
    Drained /\ modeShown # None =>
        /\ \A k \in down \cap Endpoint : modeShown = k
        /\ down = {} => modeShown = Chat

\* However the threads end and in whatever order, nothing is left pressed.
ExitReleasesAll ==
    configPc = "exited" /\ consumerPc = "exited" /\ AllSent => view = {} /\ ~voiceShown
=============================================================================
