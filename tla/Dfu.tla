--------------------------------- MODULE Dfu ---------------------------------
(***************************************************************************)
(* Firmware upgrade and recovery over USB: start_dfu_upgrade and           *)
(* cancel_dfu_upgrade of the facade, dfu_upgrade and recover_stuck_dfu of  *)
(* the runtime, DfuClient (dfu/client.rs) and the recovery sequence        *)
(* (dfu/recover.rs).  Their blocking parts are jobs of the one HID thread  *)
(* of macOS, so a job runs to its end before the next begins.              *)
(*                                                                         *)
(* The board is external: what dfu/ says of the firmware.  It stages the   *)
(* image; PREPARE tells it the length, START empties the stage, DATA       *)
(* appends - a packet carries no position - and END compares lengths,      *)
(* installs or discards, and restarts.  Without PREPARE it ignores END.    *)
(* Whether it looks at the content of a stage of the right length is not   *)
(* known, so both happen.  All packets but the last are of one size, and   *)
(* the image is taken to be a multiple of it.                              *)
(*                                                                         *)
(* Faults, at most MaxDfuFaults in a behaviour: a packet that is refused,  *)
(* an answer that is dropped or comes after its timeout, a write that      *)
(* fails, a slow restart, a pulled cable, the death of the host's process. *)
(***************************************************************************)
EXTENDS Naturals, Sequences

CONSTANTS
    Upgrade,         \* the calls of start_dfu_upgrade
    Rescue,          \* the calls of recover_from_dfu
    Nobody,
    Chunks,          \* DATA packets the firmware takes
    RecoveryLength,  \* RECOVERY_DECLARED_LEN, in packets
    MaxDfuFaults     \* bound: things that go wrong in one behaviour

ASSUME DfuCallers == Upgrade \cap Rescue = {} /\ Nobody \notin Upgrade \cup Rescue
ASSUME DfuLengths == Chunks \in Nat \ {0} /\ RecoveryLength \in Nat
ASSUME DfuFaultBound == MaxDfuFaults \in Nat

Asker == Upgrade \cup Rescue

Firmware == [i \in 1 .. Chunks |-> i]
OldImage == <<0>>

DataTries == 3       \* MAX_RETRY
CommandTries == 2    \* max_attempts of PREPARE and START

\* 0x40000 bytes are no whole number of packets of 250 bytes.
ASSUME DfuRecoveryLength == RecoveryLength \notin 0 .. DataTries * Chunks

VARIABLES
    \* the board
    mode, next,      \* "normal", "dfu", "boot" (to come up as next) or "off"
    declared,        \* the length PREPARE told, or Nobody
    accepting,       \* START was seen
    staged,          \* the packets in the staging partition
    image,           \* the firmware that runs
    \* the cable
    sent, answers,   \* output reports on their way, input reports of the open handle
    \* the HID thread
    hid,             \* whose job runs
    at,              \* its step
    awaiting,        \* it has written and reads
    tries, offset,   \* failed attempts at this packet; DATA packets acknowledged
    delivered,       \* a packet of the recovery sequence was written
    \* the calls
    connected,       \* connection() is USB
    slot, cancel,    \* dfu_cancel, and the flag of each upgrade
    call, outcome,   \* where each call is, and how it ended
    \* history
    stale,           \* the host took an answer to an earlier packet
    understood,      \* the PREPARE of the recovery sequence was answered with success
    dfuFaults

boardState == <<mode, next, declared, accepting, staged, image>>
wire == <<sent, answers>>
job == <<hid, at, awaiting, tries, offset, delivered>>
calls == <<connected, slot, cancel, call, outcome>>
history == <<stale, understood, dfuFaults>>
dfuVars == <<boardState, wire, job, calls, history>>

DfuInit ==
    /\ mode = "normal" /\ next = "normal"
    /\ declared = Nobody /\ accepting = FALSE /\ staged = <<>> /\ image = OldImage
    /\ sent = <<>> /\ answers = <<>>
    /\ hid = Nobody /\ at = "none" /\ awaiting = FALSE
    /\ tries = 0 /\ offset = 0 /\ delivered = FALSE
    /\ connected = TRUE /\ slot = Nobody
    /\ cancel = [u \in Upgrade |-> FALSE]
    /\ call = [c \in Asker |-> "idle"] /\ outcome = [c \in Asker |-> "none"]
    /\ stale = FALSE /\ understood = FALSE /\ dfuFaults = 0

GoesWrong == dfuFaults < MaxDfuFaults /\ dfuFaults' = dfuFaults + 1
GoesWrongUnless(excuse) == IF excuse THEN dfuFaults' = dfuFaults ELSE GoesWrong

-----------------------------------------------------------------------------
(* The board.                                                              *)

Prepare(length) == [flag |-> "prepare", arg |-> length]
Start == [flag |-> "start", arg |-> 0]
Data(i) == [flag |-> "data", arg |-> i]
End(why) == [flag |-> "end", arg |-> why]   \* why is not on the wire

Answered(ok) ==
    \/ answers' = Append(answers, ok) /\ dfuFaults' = dfuFaults
    \/ answers' = answers /\ GoesWrong

\* A packet the board refuses, because it must or for a fault of its own.
Refuse(must) ==
    /\ answers' = Append(answers, FALSE)
    /\ GoesWrongUnless(must)
    /\ UNCHANGED <<mode, next, declared, accepting, staged, image>>

\* Whether PREPARE alone empties the stage is not said.
TakePrepare(length) ==
    /\ declared' = length
    /\ staged' \in {staged, <<>>}
    /\ Answered(TRUE)
    /\ UNCHANGED <<mode, next, accepting, image>>

TakeStart ==
    /\ declared # Nobody
    /\ accepting' = TRUE /\ staged' = <<>>
    /\ Answered(TRUE)
    /\ UNCHANGED <<mode, next, declared, image>>

TakeData(i) ==
    /\ accepting
    /\ staged' = Append(staged, i)
    /\ Answered(TRUE)
    /\ UNCHANGED <<mode, next, declared, accepting, image>>

\* The restart may come before the answer.
Restart(to, ok) ==
    /\ mode' = "boot" /\ next' = to
    /\ declared' = Nobody /\ accepting' = FALSE /\ staged' = <<>>
    /\ sent' = <<>> /\ answers' \in {answers, Append(answers, ok)}

Install ==
    /\ declared # Nobody /\ Len(staged) = declared
    /\ image' = staged
    /\ Restart("normal", TRUE)
    /\ UNCHANGED dfuFaults

Discard ==
    /\ declared # Nobody
    /\ GoesWrongUnless(Len(staged) # declared \/ staged # Firmware)
    /\ Restart("normal", FALSE)
    /\ UNCHANGED image

IgnoreEnd ==
    /\ declared = Nobody
    /\ sent' = Tail(sent)
    /\ UNCHANGED <<boardState, answers, dfuFaults>>

BoardTakes ==
    /\ mode = "dfu" /\ sent # <<>>
    /\ LET packet == Head(sent) IN
       \/ packet.flag = "prepare" /\ sent' = Tail(sent) /\ (TakePrepare(packet.arg) \/ Refuse(FALSE))
       \/ packet.flag = "start" /\ sent' = Tail(sent) /\ (TakeStart \/ Refuse(declared = Nobody))
       \/ packet.flag = "data" /\ sent' = Tail(sent) /\ (TakeData(packet.arg) \/ Refuse(~accepting))
       \/ packet.flag = "end" /\ (Install \/ Discard \/ IgnoreEnd)
    /\ UNCHANGED <<job, calls, stale, understood>>

BoardBoots ==
    /\ mode = "boot" /\ mode' = next
    /\ UNCHANGED <<next, declared, accepting, staged, image, wire, job, calls, history>>

Unplug ==
    /\ mode # "off" /\ GoesWrong
    /\ mode' = "off" /\ next' = "normal"
    /\ declared' = Nobody /\ accepting' = FALSE /\ staged' = <<>> /\ sent' = <<>>
    /\ UNCHANGED <<image, answers, job, calls, stale, understood>>

Replug ==
    /\ mode = "off" /\ mode' = "boot"
    /\ UNCHANGED <<next, declared, accepting, staged, image, wire, job, calls, history>>

-----------------------------------------------------------------------------
(* A job on the HID thread: DfuClient::upgrade, or the recovery sequence.  *)

Begin(c, step) ==
    /\ hid' = c /\ at' = step
    /\ awaiting' = FALSE /\ tries' = 0 /\ offset' = 0 /\ delivered' = FALSE

GoTo(step) == at' = step /\ tries' = 0 /\ awaiting' = FALSE

Finish(how) ==
    /\ hid' = Nobody /\ at' = "none" /\ awaiting' = FALSE
    /\ call' = [call EXCEPT ![hid] = "idle"]
    /\ outcome' = [outcome EXCEPT ![hid] = how]
    /\ slot' = IF hid \in Upgrade THEN Nobody ELSE slot
    /\ UNCHANGED <<tries, offset, delivered, connected, cancel>>

\* wait_for_dfu_device: the flag first, then the enumeration.
WaitCancelled ==
    /\ at = "wait" /\ cancel[hid]
    /\ Finish("failed")
    /\ UNCHANGED <<boardState, wire, history>>

OpenBoard ==
    /\ at = "wait" /\ ~cancel[hid] /\ mode = "dfu"
    /\ GoTo("prepare")
    /\ answers' = <<>>
    /\ UNCHANGED <<boardState, sent, hid, offset, delivered, calls, history>>

WaitTimesOut ==
    /\ at = "wait" /\ mode # "dfu"
    /\ GoesWrongUnless(mode # "boot" \/ next # "dfu")
    /\ Finish("failed")
    /\ UNCHANGED <<boardState, wire, stale, understood>>

\* Mutant: a reset is the bare END it once was.
PacketBareEnd ==
    CASE at = "prepare" -> Prepare(Chunks)
      [] at = "start" -> Start
      [] at = "data" -> Data(offset + 1)
      [] at = "end" -> End("commit")
      [] at \in {"reset", "reset_end"} -> End("discard")
Packet ==
    CASE at = "prepare" -> Prepare(Chunks)
      [] at = "start" -> Start
      [] at = "data" -> Data(offset + 1)
      [] at = "end" -> End("commit")
      [] at = "reset" -> Prepare(RecoveryLength)
      [] at = "reset_end" -> End("discard")

Resetting == at \in {"reset", "reset_end"}

Reset == GoTo("reset") /\ delivered' = FALSE

Again == tries' = tries + 1 /\ awaiting' = FALSE

\* What a step makes of the answer to its packet; bad is an answer without
\* success, silence no answer (a timeout or an error of hidapi).
CommandDone(got, following) ==
    \/ got = "ok" /\ GoTo(following) /\ UNCHANGED <<offset, delivered>>
    \/ got = "silence" /\ tries + 1 < CommandTries /\ Again /\ UNCHANGED <<at, offset, delivered>>
    \/ got = "silence" /\ tries + 1 >= CommandTries /\ Reset /\ UNCHANGED offset
    \/ got = "bad" /\ Reset /\ UNCHANGED offset

\* Mutant: a packet the board refused is taken for written.
DataDoneRegardless(got) ==
    \/ /\ got \in {"ok", "bad"}
       /\ offset' = offset + 1
       /\ GoTo(IF offset + 1 = Chunks THEN "end" ELSE "data")
       /\ UNCHANGED delivered
    \/ got = "silence" /\ tries + 1 < DataTries /\ Again /\ UNCHANGED <<at, offset, delivered>>
    \/ got = "silence" /\ tries + 1 >= DataTries /\ Reset /\ UNCHANGED offset
DataDone(got) ==
    \/ /\ got = "ok"
       /\ offset' = offset + 1
       /\ GoTo(IF offset + 1 = Chunks THEN "end" ELSE "data")
       /\ UNCHANGED delivered
    \/ got # "ok" /\ tries + 1 < DataTries /\ Again /\ UNCHANGED <<at, offset, delivered>>
    \/ got # "ok" /\ tries + 1 >= DataTries /\ Reset /\ UNCHANGED offset

\* The recovery sequence goes on whatever becomes of its packets.
Attempted(got) ==
    /\ \/ at = "prepare" /\ CommandDone(got, "start")
       \/ at = "start" /\ CommandDone(got, "data")
       \/ at = "data" /\ DataDone(got)
       \/ at = "end" /\ GoTo("reboot") /\ UNCHANGED <<offset, delivered>>
       \/ at = "reset" /\ GoTo("reset_end") /\ UNCHANGED <<offset, delivered>>
       \/ at = "reset_end" /\ GoTo("reset_done") /\ UNCHANGED <<offset, delivered>>
    /\ understood' = (IF at = "reset" THEN got = "ok" ELSE understood)
    /\ UNCHANGED <<hid, calls>>

Sending == at \in {"prepare", "start", "data", "end", "reset", "reset_end"} /\ ~awaiting

\* Once per DATA packet the upgrade looks at its flag.
Cancelled ==
    /\ Sending /\ at = "data" /\ cancel[hid]
    /\ Reset
    /\ UNCHANGED <<boardState, wire, hid, offset, calls, history>>

Write ==
    /\ Sending /\ ~(at = "data" /\ cancel[hid]) /\ mode = "dfu"
    /\ sent' = Append(sent, Packet)
    /\ awaiting' = TRUE
    /\ delivered' = (delivered \/ Resetting)
    /\ UNCHANGED <<boardState, answers, hid, at, tries, offset, calls, history>>

WriteFails ==
    /\ Sending /\ ~(at = "data" /\ cancel[hid])
    /\ GoesWrongUnless(mode # "dfu")
    /\ Attempted("silence")
    /\ UNCHANGED <<boardState, wire, stale>>

\* read_response does not look at the answer's flag.
ReadAnswer ==
    /\ awaiting /\ answers # <<>>
    /\ Attempted(IF Head(answers) THEN "ok" ELSE "bad")
    /\ answers' = Tail(answers)
    /\ stale' = (stale \/ Len(answers) + Len(sent) > 1)
    /\ UNCHANGED <<boardState, sent, dfuFaults>>

ReadTimesOut ==
    /\ awaiting /\ answers = <<>>
    /\ GoesWrongUnless(sent = <<>>)
    /\ Attempted("silence")
    /\ UNCHANGED <<boardState, wire, stale>>

\* wait_for_normal_device; the upgrade then reports Completed either way.
RebootAwaited ==
    /\ at = "reboot"
    /\ GoesWrongUnless(mode # "boot" \/ next # "normal")
    /\ Finish("completed")
    /\ UNCHANGED <<boardState, wire, stale, understood>>

\* The end of a reset: an upgrade waits for the board if a packet went out
\* (try_reset_device) and reports Failed; a recovery gives the thread back
\* and polls, or has failed.
ResetDone ==
    /\ at = "reset_done" /\ hid \in Upgrade
    /\ GoesWrongUnless(~delivered \/ mode # "boot" \/ next # "normal")
    /\ Finish("failed")
    /\ UNCHANGED <<boardState, wire, stale, understood>>

RescueSent ==
    /\ at = "reset_done" /\ hid \in Rescue
    /\ IF delivered
       THEN /\ hid' = Nobody /\ at' = "none"
            /\ call' = [call EXCEPT ![hid] = "poll"]
            /\ UNCHANGED <<awaiting, tries, offset, delivered, connected, slot, cancel, outcome>>
       ELSE Finish("still_stuck")
    /\ UNCHANGED <<boardState, wire, history>>

JobStep ==
    \/ WaitCancelled \/ OpenBoard \/ WaitTimesOut
    \/ Cancelled \/ Write \/ WriteFails \/ ReadAnswer \/ ReadTimesOut
    \/ RebootAwaited \/ ResetDone \/ RescueSent

-----------------------------------------------------------------------------
(* The calls.                                                              *)

\* start_dfu_upgrade makes its flag the one cancel_dfu_upgrade sets; without
\* a USB connection or a file to read dfu_upgrade returns at once, and the
\* slot is emptied.
StartUpgrade(u) ==
    /\ call[u] = "idle" /\ outcome[u] = "none"
    /\ \/ /\ connected
          /\ slot' = u
          /\ call' = [call EXCEPT ![u] = "enter"]
          /\ UNCHANGED outcome
       \/ /\ slot' = Nobody
          /\ outcome' = [outcome EXCEPT ![u] = "refused"]
          /\ UNCHANGED call
    /\ UNCHANGED <<boardState, wire, job, connected, cancel, history>>

CancelUpgrade ==
    /\ slot # Nobody
    /\ cancel' = [cancel EXCEPT ![slot] = TRUE]
    /\ UNCHANGED <<boardState, wire, job, connected, slot, call, outcome, history>>

\* CMD 0xEF, a job of its own; that it fails is only logged.
EnterDfu(u) ==
    /\ call[u] = "enter" /\ hid = Nobody
    /\ call' = [call EXCEPT ![u] = "ready"]
    /\ \/ /\ mode = "normal"
          /\ mode' = "boot" /\ next' = "dfu"
          /\ UNCHANGED dfuFaults
       \/ GoesWrongUnless(mode # "normal") /\ UNCHANGED <<mode, next>>
    /\ UNCHANGED <<declared, accepting, staged, image, wire, job, connected, slot, cancel, outcome,
                   stale, understood>>

RunUpgrade(u) ==
    /\ call[u] = "ready" /\ hid = Nobody
    /\ Begin(u, "wait")
    /\ call' = [call EXCEPT ![u] = "running"]
    /\ UNCHANGED <<boardState, wire, connected, slot, cancel, outcome, history>>

\* recover_stuck_dfu: a scan, the sequence, and polls, each a job.
StartRescue(r) ==
    /\ call[r] = "idle" /\ outcome[r] = "none" /\ hid = Nobody
    /\ IF mode = "dfu"
       THEN call' = [call EXCEPT ![r] = "send"] /\ UNCHANGED outcome
       ELSE outcome' = [outcome EXCEPT ![r] = "not_stuck"] /\ UNCHANGED call
    /\ UNCHANGED <<boardState, wire, job, connected, slot, cancel, history>>

RunRescue(r) ==
    /\ call[r] = "send" /\ hid = Nobody
    /\ \/ /\ mode = "dfu"
          /\ Begin(r, "reset") /\ answers' = <<>>
          /\ call' = [call EXCEPT ![r] = "running"]
          /\ UNCHANGED <<outcome, dfuFaults>>
       \/ /\ GoesWrongUnless(mode # "dfu")
          /\ call' = [call EXCEPT ![r] = "idle"]
          /\ outcome' = [outcome EXCEPT ![r] = "error"]
          /\ UNCHANGED <<answers, job>>
    /\ UNCHANGED <<boardState, sent, connected, slot, cancel, stale, understood>>

PollRescue(r) ==
    /\ call[r] = "poll" /\ hid = Nobody
    /\ call' = [call EXCEPT ![r] = "idle"]
    /\ \/ /\ mode = "normal"
          /\ outcome' = [outcome EXCEPT ![r] = "recovered"]
          /\ UNCHANGED dfuFaults
       \/ /\ mode # "normal"
          /\ GoesWrongUnless(mode # "boot" \/ next # "normal")
          /\ outcome' = [outcome EXCEPT ![r] = "still_stuck"]
    /\ UNCHANGED <<boardState, wire, job, connected, slot, cancel, stale, understood>>

\* The hotplug loop sees the board come and go, with jobs on the same thread.
BoardNoticed ==
    /\ hid = Nobody /\ connected # (mode = "normal")
    /\ connected' = (mode = "normal")
    /\ UNCHANGED <<boardState, wire, job, slot, cancel, call, outcome, history>>

\* The host's process dies and is started again; what it has written stays.
HostDies ==
    /\ \E c \in Asker : call[c] # "idle"
    /\ GoesWrong
    /\ hid' = Nobody /\ at' = "none" /\ awaiting' = FALSE
    /\ outcome' = [c \in Asker |-> IF call[c] # "idle" THEN "died" ELSE outcome[c]]
    /\ call' = [c \in Asker |-> "idle"]
    /\ slot' = Nobody /\ connected' = FALSE /\ answers' = <<>>
    /\ UNCHANGED <<boardState, sent, tries, offset, delivered, cancel, stale, understood>>

CallStep(c) ==
    \/ c \in Upgrade /\ (EnterDfu(c) \/ RunUpgrade(c))
    \/ c \in Rescue /\ (RunRescue(c) \/ PollRescue(c))

DfuNext ==
    \/ BoardTakes \/ BoardBoots \/ Unplug \/ Replug
    \/ JobStep
    \/ \E c \in Asker : CallStep(c)
    \/ \E u \in Upgrade : StartUpgrade(u)
    \/ \E r \in Rescue : StartRescue(r)
    \/ CancelUpgrade \/ BoardNoticed \/ HostDies

DfuSpec == DfuInit /\ [][DfuNext]_dfuVars

\* The board runs, and the HID thread does the job it has begun: every read
\* and every wait has a timeout.  Nobody has to call anything.
DfuFairness == WF_dfuVars(BoardTakes) /\ WF_dfuVars(BoardBoots) /\ WF_dfuVars(JobStep)

FairDfuSpec == DfuSpec /\ DfuFairness

-----------------------------------------------------------------------------
DfuTypeOK ==
    /\ mode \in {"normal", "dfu", "boot", "off"} /\ next \in {"normal", "dfu"}
    /\ declared \in {Nobody, Chunks, RecoveryLength} /\ accepting \in BOOLEAN
    /\ staged \in Seq(1 .. Chunks) /\ image \in Seq(0 .. Chunks)
    /\ answers \in Seq(BOOLEAN)
    /\ hid \in Asker \cup {Nobody} /\ (hid = Nobody <=> at = "none")
    /\ tries \in 0 .. DataTries /\ offset \in 0 .. Chunks
    /\ slot \in Upgrade \cup {Nobody}

\* Whatever is refused, repeated, cut off or cancelled: an upgrade's END
\* installs nothing but the whole firmware in order, and the END of a reset
\* whose PREPARE was accepted nothing at all, though a complete image may be
\* staged - as long as no answer that came after its timeout was taken for
\* the next packet's (DfuClient::run_data_loop, send_recovery_sequence_on).
InstallsOnlyFirmware ==
    [][image' # image /\ ~stale =>
        \/ Head(sent) = End("commit") /\ image' = Firmware
        \/ Head(sent) = End("discard") /\ ~understood]_dfuVars

\* A reset that nothing goes wrong in takes the board out of DFU mode, in
\* whatever state of the transfer it began (send_recovery_sequence_on).
ResetFreesBoard ==
    \A n \in 0 .. MaxDfuFaults :
        at = "reset" /\ ~awaiting /\ dfuFaults = n ~> mode # "dfu" \/ dfuFaults # n

-----------------------------------------------------------------------------
(* Claims of the repository's comments that the code does not keep.        *)

\* dfu/types.rs:28: Completed - the upgrade is done, the board is back in
\* normal mode.
CompletedIsTrue ==
    [][\A u \in Upgrade : outcome'[u] = "completed" /\ outcome[u] # "completed"
           => mode = "normal" /\ image = Firmware]_dfuVars

\* dfu/mod.rs:21: on failure or cancellation the host sends PREPARE and END,
\* so that the board restarts.  An upgrade that has ended as failed does not
\* leave a board in DFU mode that no reset was tried on.
FailureResets ==
    [][\A u \in Upgrade : outcome'[u] = "failed" /\ outcome[u] # "failed"
           => mode # "dfu" \/ at = "reset_done"]_dfuVars

\* facade/device.rs:384: cancel_dfu_upgrade cancels the upgrade in progress.
CancelHasTarget == hid \in Upgrade => slot # Nobody
=============================================================================
