------------------------------ MODULE Handshake ------------------------------
(***************************************************************************)
(* Admission of a board over BLE: handshake::admit                         *)
(* (src/src/runtime/ble/handshake.rs) as run_ble_session of the hotplug    *)
(* manager calls it, attempt after attempt, against the boards that exist. *)
(*                                                                         *)
(* The boards are the firmware kinds of the tests of handshake.rs: one of  *)
(* 1.75 bound to this host ("own"), bound to another ("other") or unbound, *)
(* an older one with or without CMD 0x6E ("oldcaps", "old"), and one that  *)
(* advertises host binding but never answers 0x74 ("mute").  Until it has  *)
(* verified the host a bound board drops every command but 0x74, and after *)
(* three seconds says so (CMD 0x60, reason 3) and closes.                  *)
(*                                                                         *)
(* Whatever goes wrong on the air - a lost or garbled packet, a late       *)
(* answer, a slow discovery, a board that goes to sleep, a dropped link -  *)
(* is one of at most MaxFaults faults.                                     *)
(***************************************************************************)
EXTENDS Naturals, Sequences

CONSTANTS
    MaxFaults  \* bound: things that go wrong in one behaviour

ASSUME FaultAssumption == MaxFaults \in Nat

Board == {"own", "other", "unbound", "oldcaps", "old", "mute"}
Bound == {"own", "other"}
Legacy == {"oldcaps", "old"}

\* The commands: 0x74, 0x72, 0x6E and 0x13.
Command == {"identity", "status", "caps", "info"}

\* What each can be answered with; "bad" does not parse, and "err" is the
\* command's own timeout or the end of the session.
Answer == [identity |-> {"match", "refuse"}, status |-> {"bound", "unbound"},
           caps |-> {"binding", "plain"}, info |-> {"new", "old"}]

VARIABLES
    board, token,   \* which board it is, and whether the host has a token
    \* the link and the board's end of it
    link,           \* the link is up
    gate,           \* the board has verified the host on this link
    closing,        \* the board has announced that it closes the link
    toBoard,        \* the command on its way, or "none"
    toHost,         \* notifications on their way, in order
    \* the host
    running, reason,   \* the session of GattSession: reason of CMD 0x60, or "none"
    step,           \* "idle", the command awaited, or a step of admission
    got,            \* the result of that command, or "none"
    retried,        \* 0x74 was sent again
    claim,          \* the Identity concluded, or "none"
    subscribed,     \* audio notifications are on
    blocked,        \* mark_bound_to_other_host
    faults

fixed == <<board, token>>
boardVars == <<gate, closing, toBoard>>
session == <<running, reason>>
admission == <<step, got, retried, claim, subscribed, blocked>>
handshakeVars == <<fixed, link, boardVars, toHost, session, admission, faults>>

HandshakeInit ==
    /\ board \in Board /\ token \in BOOLEAN
    /\ link = FALSE /\ gate = FALSE /\ closing = FALSE
    /\ toBoard = "none" /\ toHost = <<>>
    /\ running = FALSE /\ reason = "none"
    /\ step = "idle" /\ got = "none" /\ retried = FALSE
    /\ claim = "none" /\ subscribed = FALSE /\ blocked = FALSE
    /\ faults = 0

\* Transport::current and Transport::active
Current == running /\ reason = "none"
Active == Current /\ link

Fault == faults < MaxFaults /\ faults' = faults + 1

-----------------------------------------------------------------------------
(* The board                                                               *)

Note(cmd, value) == [cmd |-> cmd, value |-> value]

Reply(cmd) ==
    CASE cmd = "identity" /\ board = "own" -> <<Note(cmd, "match")>>
      [] cmd = "identity" /\ board = "other" -> <<Note(cmd, "refuse"), Note("close", "bound")>>
      [] cmd = "identity" /\ board = "unbound" -> <<Note(cmd, "refuse")>>
      [] cmd = "status" /\ board = "own" -> <<Note(cmd, "bound")>>
      [] cmd = "status" /\ board = "unbound" -> <<Note(cmd, "unbound")>>
      [] cmd = "caps" /\ board \in {"own", "unbound", "mute"} -> <<Note(cmd, "binding")>>
      [] cmd = "caps" /\ board = "oldcaps" -> <<Note(cmd, "plain")>>
      [] cmd = "info" /\ board \in Legacy -> <<Note(cmd, "old")>>
      [] cmd = "info" /\ board \in {"own", "unbound", "mute"} -> <<Note(cmd, "new")>>
      [] OTHER -> <<>>

\* The gate of a bound board lets 0x74 through and nothing else.
Handle ==
    /\ link /\ ~closing /\ toBoard # "none"
    /\ toBoard' = "none"
    /\ IF board \in Bound /\ ~gate /\ toBoard # "identity"
       THEN UNCHANGED <<toHost, gate, closing>>
       ELSE /\ toHost' = toHost \o Reply(toBoard)
            /\ gate' = (gate \/ (board = "own" /\ toBoard = "identity"))
            /\ closing' = (board = "other" /\ toBoard = "identity")
    /\ UNCHANGED <<fixed, link, session, admission, faults>>

Announce(why) ==
    /\ link /\ ~closing
    /\ closing' = TRUE
    /\ toHost' = Append(toHost, Note("close", why))
    /\ UNCHANGED <<fixed, link, gate, toBoard, session, admission>>

\* Three seconds without an identity.  They pass before the first 0x74 has
\* come only if discovery was slow.
GateExpires ==
    /\ board \in Bound /\ ~gate
    /\ IF step = "admit" \/ toBoard = "identity" THEN Fault ELSE faults' = faults
    /\ Announce("bound")

Sleeps == Fault /\ Announce("sleep")

\* 100 ms after the announcement, which is enough for it to be heard unless
\* something is slow.
BoardCloses ==
    /\ link /\ closing
    /\ IF toHost # <<>> THEN Fault ELSE faults' = faults
    /\ link' = FALSE /\ toBoard' = "none"
    /\ UNCHANGED <<fixed, gate, closing, toHost, session, admission>>

-----------------------------------------------------------------------------
(* The radio                                                               *)

LinkLost ==
    /\ link /\ Fault
    /\ link' = FALSE /\ toBoard' = "none"
    /\ UNCHANGED <<fixed, gate, closing, toHost, session, admission>>

CommandLost ==
    /\ toBoard # "none" /\ Fault
    /\ toBoard' = "none"
    /\ UNCHANGED <<fixed, link, gate, closing, toHost, session, admission>>

NoteLost ==
    /\ toHost # <<>> /\ Fault
    /\ toHost' = Tail(toHost)
    /\ UNCHANGED <<fixed, link, boardVars, session, admission>>

NoteGarbled ==
    /\ toHost # <<>> /\ Head(toHost).cmd # "close" /\ Fault
    /\ toHost' = <<Note(Head(toHost).cmd, "bad")>> \o Tail(toHost)
    /\ UNCHANGED <<fixed, link, boardVars, session, admission>>

-----------------------------------------------------------------------------
(* The session of the GATT client                                          *)

\* An answer goes to the command that waits for it; CMD 0x60 ends the session.
Deliver ==
    /\ running /\ toHost # <<>>
    /\ toHost' = Tail(toHost)
    /\ LET note == Head(toHost) IN
         IF note.cmd = "close"
         THEN reason' = note.value /\ running' = FALSE /\ got' = got
         ELSE /\ got' = IF note.cmd = step /\ got = "none" THEN note.value ELSE got
              /\ UNCHANGED session
    /\ UNCHANGED <<fixed, link, boardVars, step, retried, claim, subscribed, blocked, faults>>

\* The notification task finds the link gone.
SessionLost ==
    /\ running /\ ~link
    /\ running' = FALSE
    /\ UNCHANGED <<fixed, link, boardVars, toHost, reason, admission, faults>>

\* A command fails when the session ends, or when its time is up.  That comes
\* before an answer that is on its way only if the board was slow.
CommandFails ==
    /\ step \in Command /\ got = "none"
    /\ IF Current /\ (toBoard = step \/ \E i \in DOMAIN toHost : toHost[i].cmd = step)
       THEN Fault ELSE faults' = faults
    /\ got' = "err"
    /\ UNCHANGED <<fixed, link, boardVars, toHost, session, step, retried, claim, subscribed, blocked>>

-----------------------------------------------------------------------------
(* run_ble_session and admit                                               *)

\* A new connection, event notifications on.
Connect ==
    /\ step = "idle" /\ ~blocked
    /\ link' = TRUE /\ gate' = FALSE /\ closing' = FALSE
    /\ toBoard' = "none" /\ toHost' = <<>>
    /\ running' = TRUE /\ reason' = "none"
    /\ step' = "admit" /\ got' = "none" /\ retried' = FALSE
    /\ UNCHANGED <<fixed, claim, subscribed, blocked, faults>>

Ask(cmd) ==
    /\ step' = cmd /\ got' = "none"
    /\ toBoard' = IF link THEN cmd ELSE "none"
    /\ UNCHANGED <<fixed, link, gate, closing, toHost, session, claim, subscribed, blocked, faults>>

\* The attempt is over: the client is disconnected.
GiveUp ==
    /\ link' = FALSE /\ running' = FALSE /\ toBoard' = "none"
    /\ step' = "idle" /\ claim' = "none" /\ subscribed' = FALSE
    /\ UNCHANGED <<fixed, gate, closing, toHost, reason, got, retried, faults>>

Fail == GiveUp /\ blocked' = blocked

\* BoundToOtherHost: no more reconnecting.
Refused == GiveUp /\ blocked' = TRUE

Accept(identity) ==
    /\ step' = "audio" /\ claim' = identity
    /\ UNCHANGED <<fixed, link, boardVars, toHost, session, got, retried, subscribed, blocked, faults>>

\* 0x74 does not wait for the system's word that the link is up.
MayStart == IF token THEN Current ELSE Active

\* Mutant: capability discovery goes first.
AdmitCapsFirst ==
    /\ step = "admit"
    /\ IF MayStart THEN Ask(IF token THEN "caps" ELSE "info") /\ retried' = retried ELSE Fail

\* admit: the identity goes first, while the gate is open.
Admit ==
    /\ step = "admit"
    /\ IF MayStart THEN Ask(IF token THEN "identity" ELSE "info") /\ retried' = retried ELSE Fail

IdentityMatches ==
    /\ step = "identity" /\ got = "match"
    /\ IF Active THEN Accept("Verified") ELSE Fail

\* Mutant: a refusal whose link is already closed is only a lost link.
IdentityRefusedClosed ==
    /\ step = "identity" /\ got = "refuse"
    /\ IF Active THEN Ask("status") /\ retried' = retried ELSE Fail

\* An unbound board refuses too; its binding status tells the two apart.
IdentityRefused ==
    /\ step = "identity" /\ got = "refuse"
    /\ CASE Active -> Ask("status") /\ retried' = retried
         [] ~Active /\ reason = "bound" -> Refused
         [] OTHER -> Fail

IdentityMalformed == step = "identity" /\ got = "bad" /\ Fail

\* Old firmware ignores 0x74: ask for capabilities, but only after it.
IdentityUnanswered ==
    /\ step = "identity" /\ got = "err"
    /\ IF ~retried /\ Active THEN Ask("caps") /\ retried' = retried ELSE Fail

StatusDone ==
    /\ step = "status" /\ got # "none"
    /\ CASE got = "bound" \/ reason = "bound" -> Refused
         [] got = "unbound" /\ reason # "bound" /\ Active -> Accept("Unbound")
         [] OTHER -> Fail

\* A board with host binding must still answer 0x74, which is sent once more.
CapsDone ==
    /\ step = "caps" /\ got # "none"
    /\ CASE ~Active -> Fail
         [] Active /\ got = "binding" -> Ask("identity") /\ retried' = TRUE
         [] Active /\ got = "plain" -> Accept("Legacy")
         [] OTHER -> Ask("info") /\ retried' = retried

\* Mutant: any device info is taken for old firmware.
InfoDoneAnyVersion ==
    /\ step = "info" /\ got # "none"
    /\ IF Active /\ got \in {"old", "new"} THEN Accept("Legacy") ELSE Fail

\* probe_device: with a token only a version before 1.75 proves old firmware.
InfoDone ==
    /\ step = "info" /\ got # "none"
    /\ IF Active /\ (got = "old" \/ (got = "new" /\ ~token)) THEN Accept("Legacy") ELSE Fail

SubscribeAudio ==
    /\ step = "audio" /\ Current /\ link
    /\ subscribed' = TRUE /\ step' = "verdict"
    /\ UNCHANGED <<fixed, link, boardVars, toHost, session, got, retried, claim, blocked, faults>>

SubscribeFails ==
    /\ step = "audio"
    /\ IF Current /\ link THEN Fault ELSE faults' = faults
    /\ link' = FALSE /\ running' = FALSE /\ toBoard' = "none"
    /\ step' = "idle" /\ claim' = "none"
    /\ UNCHANGED <<fixed, gate, closing, toHost, reason, got, retried, subscribed, blocked>>

Verdict ==
    /\ step = "verdict"
    /\ IF Active
       THEN step' = "publish" /\ UNCHANGED <<fixed, link, boardVars, toHost, session, got, retried,
                                             claim, subscribed, blocked, faults>>
       ELSE Fail

\* notify_connected, if the session is still current.
Publish ==
    /\ step = "publish"
    /\ IF Current
       THEN step' = "served" /\ UNCHANGED <<fixed, link, boardVars, toHost, session, got, retried,
                                            claim, subscribed, blocked, faults>>
       ELSE Fail

SessionEnds == step = "served" /\ ~running /\ Fail

-----------------------------------------------------------------------------
BoardStep == Handle \/ GateExpires \/ BoardCloses

HostStep ==
    \/ Admit \/ IdentityMatches \/ IdentityRefused \/ IdentityMalformed \/ IdentityUnanswered
    \/ StatusDone \/ CapsDone \/ InfoDone
    \/ SubscribeAudio \/ SubscribeFails \/ Verdict \/ Publish \/ SessionEnds

HandshakeNext ==
    \/ BoardStep \/ Sleeps
    \/ LinkLost \/ CommandLost \/ NoteLost \/ NoteGarbled
    \/ Deliver \/ SessionLost \/ CommandFails
    \/ Connect \/ HostStep

HandshakeSpec == HandshakeInit /\ [][HandshakeNext]_handshakeVars

\* The board runs, the runtime polls its tasks and timers, and the manager
\* connects again.  With finitely many faults nothing else is needed.
HandshakeFairness ==
    /\ WF_handshakeVars(Handle) /\ WF_handshakeVars(BoardCloses)
    /\ WF_handshakeVars(Deliver) /\ WF_handshakeVars(SessionLost) /\ WF_handshakeVars(CommandFails)
    /\ WF_handshakeVars(Connect) /\ WF_handshakeVars(HostStep)

FairHandshakeSpec == HandshakeSpec /\ HandshakeFairness

-----------------------------------------------------------------------------
Notes == {Note(c, v) : c \in Command, v \in {"bad", "match", "refuse", "bound", "unbound",
                                             "binding", "plain", "new", "old"}}
             \cup {Note("close", "bound"), Note("close", "sleep")}

HandshakeTypeOK ==
    /\ board \in Board /\ token \in BOOLEAN
    /\ link \in BOOLEAN /\ gate \in BOOLEAN /\ closing \in BOOLEAN
    /\ toBoard \in Command \cup {"none"} /\ toHost \in Seq(Notes)
    /\ running \in BOOLEAN /\ reason \in {"none", "bound", "sleep"}
    /\ step \in Command \cup {"idle", "admit", "audio", "verdict", "publish", "served"}
    /\ got \in {"none", "err", "bad"} \cup UNION {Answer[c] : c \in Command}
    /\ retried \in BOOLEAN /\ claim \in {"none", "Verified", "Unbound", "Legacy"}
    /\ subscribed \in BOOLEAN /\ blocked \in BOOLEAN
    /\ faults \in 0..MaxFaults

\* What admission concludes is true of the board, whatever was lost, late or
\* garbled: nothing but a matching identity on this very link admits a bound
\* board, and silence or an unreadable answer never passes for old firmware.
ClaimIsTrue ==
    CASE claim = "Verified" -> token /\ board = "own" /\ gate
      [] claim = "Unbound" -> token /\ board = "unbound"
      [] claim = "Legacy" /\ token -> board \in Legacy
      [] claim = "Legacy" /\ ~token -> board \notin Bound
      [] OTHER -> TRUE

\* The manager stops reconnecting only because the board really is bound to
\* another host: a missed deadline, which announces the same reason 3, a sleep
\* or a refusal by an unbound board never block it.
RefusalIsReal == blocked => board = "other" /\ token

\* Audio is subscribed after the identity, and never on a link whose gate is
\* still waiting for it: the subscription cannot use up the three seconds.
AudioAfterIdentity == subscribed => claim # "none" /\ (board \in Bound => gate)

\* A board this host may use is served in the end, and the link stays.
FriendServed == token /\ board \in Board \ {"other", "mute"} => <>[](step = "served")

\* A board bound to another host is left alone in the end.
StrangerLeft == token /\ board = "other" => <>[](blocked /\ step = "idle")
=============================================================================
