----------------------------- MODULE GattSession -----------------------------
(***************************************************************************)
(* The sessions of VendorGattClient (src/src/runtime/ble/gatt_client.rs):  *)
(* connect, the notification task of each connection epoch, the command    *)
(* calls of other tasks (send_command_in_session) and disconnect, which    *)
(* the hotplug manager and the user may call at the same time.             *)
(*                                                                         *)
(* A step is the code of one task between two awaits, cut where it takes   *)
(* the write lock or the lock of the pending map.  notify_waiters wakes    *)
(* the waiters armed at that moment and no later one.                      *)
(***************************************************************************)
EXTENDS Naturals, FiniteSets

CONSTANTS
    Caller,    \* tasks that send commands
    Cmd,       \* command codes
    MaxEpoch,  \* bound: connections made
    None       \* nobody, no entry

ASSUME EpochAssumption == MaxEpoch \in Nat \ {0}
ASSUME NoneAssumption == None \notin Caller

Epoch == 1..MaxEpoch
Shut == MaxEpoch + 1

\* The manager and the user call disconnect().
Closer == {"manager", "user"}

VARIABLES
    \* VendorGattClient
    epoch,     \* connection_epoch, 0 before the first connection
    running,
    closing,   \* device_disconnect_reason is set (CMD 0x60)
    peer,      \* the connection whose peripheral is in the slot, 0 if none
    pending,   \* pending_responses: the call registered for a command
    handle,    \* notify_handle: the epoch of the task, 0 if none
    writer,    \* the call that holds write_lock
    \* one notification task per epoch
    task,
    pressed,   \* a subscriber holds a key of the current session pressed
    \* the calls
    call,      \* where each one is
    born,      \* the epoch it belongs to
    cmd,
    armed,     \* its closed waiter: "off", "armed", "woken"
    rx,        \* its oneshot: 0 empty, the epoch that answered, or Shut
    result,
    \* disconnect() of each closer, and the manager's own control state
    close, closeTask,
    manager,
    \* the board
    link,      \* the connection that is up, 0 if none
    asked      \* commands written on the link and not answered

client == <<epoch, running, closing, peer, pending, handle, writer>>
tasks == <<task, pressed>>
calls == <<call, born, cmd, armed, rx, result>>
closers == <<close, closeTask>>
world == <<link, asked>>
gattVars == <<client, tasks, calls, closers, manager, world>>

GattInit ==
    /\ epoch = 0 /\ running = FALSE /\ closing = FALSE /\ peer = 0
    /\ pending = [k \in Cmd |-> None] /\ handle = 0 /\ writer = None
    /\ task = [e \in Epoch |-> "none"]
    /\ pressed = FALSE
    /\ call = [c \in Caller |-> "idle"]
    /\ born = [c \in Caller |-> 0]
    /\ cmd \in [Caller -> Cmd]
    /\ armed = [c \in Caller |-> "off"]
    /\ rx = [c \in Caller |-> 0]
    /\ result = [c \in Caller |-> "none"]
    /\ close = [p \in Closer |-> "idle"]
    /\ closeTask = [p \in Closer |-> 0]
    /\ manager = "off"
    /\ link = 0 /\ asked = {}

\* connection_is_current
Current(e) == epoch = e /\ running /\ ~closing

\* NotificationSession::current
TaskCurrent(e) == epoch = e /\ running

\* connection_closed.notify_waiters()
WakeAll == armed' = [c \in Caller |-> IF armed[c] = "armed" THEN "woken" ELSE armed[c]]

\* Entries of pending are dropped: their oneshots are shut.
Forget(gone) ==
    /\ pending' = [k \in Cmd |-> IF pending[k] \in gone THEN None ELSE pending[k]]
    /\ rx' = [c \in Caller |->
                 IF c \in gone /\ (\E k \in Cmd : pending[k] = c) /\ rx[c] = 0
                 THEN Shut ELSE rx[c]]

-----------------------------------------------------------------------------
(* The manager: connect and start_notification_loop                        *)

Connect ==
    /\ manager = "off" /\ epoch < MaxEpoch
    /\ epoch' = epoch + 1 /\ running' = TRUE /\ closing' = FALSE
    /\ peer' = epoch + 1
    /\ link' = epoch + 1 /\ asked' = {}
    /\ WakeAll
    /\ manager' = "listen"
    /\ UNCHANGED <<pending, handle, writer, tasks, call, born, cmd, rx, result, closers>>

Listen ==
    /\ manager = "listen" /\ peer # 0
    /\ task' = [task EXCEPT ![epoch] = "run"]
    /\ handle' = epoch /\ pressed' = FALSE
    /\ manager' = "session"
    /\ UNCHANGED <<epoch, running, closing, peer, pending, writer, calls, closers, world>>

-----------------------------------------------------------------------------
(* The notification task of epoch e                                        *)

\* A reply goes to the call registered for its command, whoever that is.
Reply(e, k) ==
    /\ task[e] = "run" /\ TaskCurrent(e)
    /\ link = e /\ k \in asked
    /\ asked' = asked \ {k}
    /\ pending' = [pending EXCEPT ![k] = None]
    /\ rx' = [c \in Caller |-> IF pending[k] = c THEN e ELSE rx[c]]
    /\ UNCHANGED <<epoch, running, closing, peer, handle, writer, tasks, call, born, cmd,
                   armed, result, closers, manager, link>>

KeyEvent(e) ==
    /\ task[e] = "run" /\ TaskCurrent(e) /\ link = e
    /\ pressed' = ~pressed
    /\ UNCHANGED <<client, task, calls, closers, manager, world>>

\* Mutant: a task ends the session that is current, not its own.
FinishAny(e) ==
    /\ pressed' = FALSE
    /\ running' = FALSE
    /\ Forget({c \in Caller : born[c] = e})
    /\ WakeAll

\* finish: only the current epoch's task ends the session.
Finish(e) ==
    IF epoch = e
    THEN /\ pressed' = FALSE
         /\ running' = FALSE
         /\ Forget({c \in Caller : born[c] = e})
         /\ WakeAll
    ELSE UNCHANGED <<pressed, running, pending, rx, armed>>

\* CMD 0x60: the board is about to close the link.
DeviceCloses(e) ==
    /\ task[e] = "run" /\ TaskCurrent(e) /\ link = e
    /\ closing' = TRUE
    /\ Finish(e)
    /\ task' = [task EXCEPT ![e] = "gone"]
    /\ UNCHANGED <<epoch, peer, handle, writer, call, born, cmd, result, closers, manager, world>>

\* The stream or the heartbeat finds the link gone, or the session is over.
TaskEnds(e) ==
    /\ task[e] = "run" /\ (~TaskCurrent(e) \/ link # e)
    /\ Finish(e)
    /\ task' = [task EXCEPT ![e] = "gone"]
    /\ UNCHANGED <<epoch, closing, peer, handle, writer, call, born, cmd, result, closers, manager, world>>

-----------------------------------------------------------------------------
(* send_command_in_session                                                 *)

Goto(c, from, to) == call[c] = from /\ call' = [call EXCEPT ![c] = to]

\* send_command_and_read_response captures the epoch before the lock.
Begin(c) ==
    /\ call[c] \in {"idle", "done"}
    /\ call' = [call EXCEPT ![c] = "lock"]
    /\ born' = [born EXCEPT ![c] = epoch]
    /\ \E k \in Cmd : cmd' = [cmd EXCEPT ![c] = k]
    /\ rx' = [rx EXCEPT ![c] = 0]
    /\ result' = [result EXCEPT ![c] = "none"]
    /\ UNCHANGED <<client, tasks, armed, closers, manager, world>>

\* Mutant: the waiter is not armed before the session is checked.
LockUnarmed(c) ==
    /\ writer = None
    /\ IF Current(born[c])
       THEN Goto(c, "lock", "register") /\ writer' = c /\ result' = result
       ELSE Goto(c, "lock", "done") /\ writer' = writer /\ result' = [result EXCEPT ![c] = "err"]
    /\ UNCHANGED <<epoch, running, closing, peer, pending, handle, tasks, born, cmd, armed, rx,
                   closers, manager, world>>

\* The waiter is armed before the session is checked.
Lock(c) ==
    /\ writer = None
    /\ IF Current(born[c])
       THEN Goto(c, "lock", "register") /\ writer' = c /\ result' = result
            /\ armed' = [armed EXCEPT ![c] = "armed"]
       ELSE Goto(c, "lock", "done") /\ writer' = writer /\ armed' = armed
            /\ result' = [result EXCEPT ![c] = "err"]
    /\ UNCHANGED <<epoch, running, closing, peer, pending, handle, tasks, born, cmd, rx,
                   closers, manager, world>>

Register(c) ==
    /\ Goto(c, "register", "write")
    /\ pending' = [pending EXCEPT ![cmd[c]] = c]
    /\ UNCHANGED <<epoch, running, closing, peer, handle, writer, tasks, born, cmd, armed, rx,
                   result, closers, manager, world>>

\* send_command looks at the session and the slot of the moment.
Write(c) ==
    /\ Current(epoch) /\ peer # 0
    /\ Goto(c, "write", "wait")
    /\ asked' = IF link = peer THEN asked \cup {cmd[c]} ELSE asked
    /\ UNCHANGED <<client, tasks, born, cmd, armed, rx, result, closers, manager, link>>

\* It fails at once, or the radio does.
WriteFails(c) ==
    /\ Goto(c, "write", "leave")
    /\ UNCHANGED <<client, tasks, born, cmd, armed, rx, result, closers, manager, world>>

\* The answer is there, the oneshot is shut, or the closed waiter was woken.
Answered(c) ==
    /\ rx[c] # 0
    /\ Goto(c, "wait", "leave")
    /\ UNCHANGED <<client, tasks, born, cmd, armed, rx, result, closers, manager, world>>

Woken(c) ==
    /\ armed[c] = "woken"
    /\ call[c] \in {"write", "wait"}
    /\ call' = [call EXCEPT ![c] = "leave"]
    /\ UNCHANGED <<client, tasks, born, cmd, armed, rx, result, closers, manager, world>>

Timeout(c) ==
    /\ Goto(c, "wait", "leave")
    /\ UNCHANGED <<client, tasks, born, cmd, armed, rx, result, closers, manager, world>>

\* Mutant: whoever answered is believed.
OutcomeAnyEpoch(c) == IF rx[c] \in Epoch THEN "ok" ELSE "err"

\* Mutant: a woken call does not look whether its answer has come.
OutcomeWokenFails(c) ==
    IF epoch = born[c] /\ rx[c] \in Epoch /\ armed[c] # "woken" THEN "ok" ELSE "err"

\* Every way out tries the oneshot once more; an answer is kept only if the
\* epoch is still the call's.
Outcome(c) == IF epoch = born[c] /\ rx[c] \in Epoch THEN "ok" ELSE "err"

\* The call takes its own registration back and lets the lock go.  An answer
\* between its last look and the withdrawal counts as one that came later.
Leave(c) ==
    /\ Goto(c, "leave", "done")
    /\ result' = [result EXCEPT ![c] = Outcome(c)]
    /\ pending' = IF pending[cmd[c]] # None /\ born[pending[cmd[c]]] = born[c]
                  THEN [pending EXCEPT ![cmd[c]] = None] ELSE pending
    /\ writer' = None
    /\ armed' = [armed EXCEPT ![c] = "off"]
    /\ UNCHANGED <<epoch, running, closing, peer, handle, tasks, born, cmd, rx,
                   closers, manager, world>>

-----------------------------------------------------------------------------
(* disconnect, by the manager at the end of its session or by the user     *)

MayClose(p) ==
    IF p = "manager" THEN manager \in {"listen", "session"} ELSE epoch # 0

\* Up to the first await: the flag, the waiters, the slots, the pending map.
CloseBegin(p) ==
    /\ close[p] = "idle" /\ MayClose(p)
    /\ running' = FALSE
    /\ peer' = 0
    /\ Forget(Caller)
    /\ WakeAll
    /\ close' = [close EXCEPT ![p] = "link"]
    /\ closeTask' = [closeTask EXCEPT ![p] = peer]
    /\ manager' = IF p = "manager" THEN "closing" ELSE manager
    /\ UNCHANGED <<epoch, closing, handle, writer, tasks, call, born, cmd, result, world>>

\* The peripheral it took is disconnected; then it takes the task's handle.
CloseLink(p) ==
    /\ close[p] = "link"
    /\ link' = IF closeTask[p] = link THEN 0 ELSE link
    /\ asked' = IF link' = 0 THEN {} ELSE asked
    /\ close' = [close EXCEPT ![p] = "join"]
    /\ closeTask' = [closeTask EXCEPT ![p] = handle]
    /\ handle' = 0
    /\ UNCHANGED <<epoch, running, closing, peer, pending, writer, tasks, calls, manager>>

Closed(p) ==
    /\ close' = [close EXCEPT ![p] = "idle"]
    /\ closeTask' = [closeTask EXCEPT ![p] = 0]
    /\ manager' = IF p = "manager" THEN "off" ELSE manager

\* Without a handle there is nothing to wait for.
CloseJoin(p) ==
    /\ close[p] = "join"
    /\ closeTask[p] # 0 => task[closeTask[p]] # "run"
    /\ Closed(p)
    /\ UNCHANGED <<client, tasks, calls, world>>

\* After three seconds the task is stopped where it stands, and does not finish
\* its session.
CloseAbort(p) ==
    /\ close[p] = "join"
    /\ closeTask[p] # 0 /\ task[closeTask[p]] = "run"
    /\ task' = [task EXCEPT ![closeTask[p]] = "aborted"]
    /\ Closed(p)
    /\ UNCHANGED <<client, pressed, calls, world>>

\* The radio loses the link.
LinkLost ==
    /\ link # 0
    /\ link' = 0 /\ asked' = {}
    /\ UNCHANGED <<client, tasks, calls, closers, manager>>

-----------------------------------------------------------------------------
CallStep(c) ==
    \/ Lock(c) \/ Register(c) \/ Write(c) \/ WriteFails(c)
    \/ Answered(c) \/ Woken(c) \/ Leave(c)

TaskStep(e) == TaskEnds(e) \/ DeviceCloses(e) \/ KeyEvent(e) \/ \E k \in Cmd : Reply(e, k)

CloseStep(p) == CloseLink(p) \/ CloseJoin(p) \/ CloseAbort(p)

GattNext ==
    \/ Connect \/ Listen
    \/ \E e \in Epoch : TaskStep(e)
    \/ \E c \in Caller : CallStep(c) \/ Begin(c) \/ Timeout(c)
    \/ \E p \in Closer : CloseBegin(p) \/ CloseStep(p)
    \/ LinkLost

GattSpec == GattInit /\ [][GattNext]_gattVars

\* The runtime polls every ready task.  A timeout, an answer and a lost link
\* are promised by nobody.
FairGattSpec ==
    /\ GattSpec
    /\ \A c \in Caller : WF_gattVars(CallStep(c))
    /\ \A e \in Epoch : WF_gattVars(TaskEnds(e))
    /\ \A p \in Closer : WF_gattVars(CloseStep(p))

-----------------------------------------------------------------------------
GattTypeOK ==
    /\ epoch \in 0..MaxEpoch /\ running \in BOOLEAN /\ closing \in BOOLEAN
    /\ peer \in 0..MaxEpoch /\ handle \in 0..MaxEpoch /\ link \in 0..MaxEpoch
    /\ pending \in [Cmd -> Caller \cup {None}] /\ writer \in Caller \cup {None}
    /\ task \in [Epoch -> {"none", "run", "gone", "aborted"}]
    /\ pressed \in BOOLEAN
    /\ call \in [Caller -> {"idle", "lock", "register", "write", "wait", "leave", "done"}]
    /\ born \in [Caller -> 0..MaxEpoch] /\ cmd \in [Caller -> Cmd]
    /\ armed \in [Caller -> {"off", "armed", "woken"}]
    /\ rx \in [Caller -> 0..Shut]
    /\ result \in [Caller -> {"none", "ok", "err"}]
    /\ close \in [Closer -> {"idle", "link", "join"}]
    /\ closeTask \in [Closer -> 0..MaxEpoch]
    /\ manager \in {"off", "listen", "session", "closing"}
    /\ asked \subseteq Cmd

\* A call returns Ok only with an answer that its own session's task
\* delivered, whichever sessions came and went while it waited.
OwnAnswer == \A c \in Caller : result[c] = "ok" => rx[c] = born[c]

\* An answer that arrived is returned although the session closed, or a
\* timeout fired, at the same moment; only a newer session takes it away.
AnswerKept ==
    \A c \in Caller :
        call[c] = "done" /\ rx[c] = born[c] /\ rx[c] # 0
            => result[c] = "ok" \/ epoch # born[c]

\* No registration outlives its call: a later event with the same command is
\* never swallowed by a call that is gone.
InExchange(c) == call[c] \in {"write", "wait", "leave"}

NoDeadEntry ==
    \A k \in Cmd : pending[k] # None => InExchange(pending[k]) /\ cmd[pending[k]] = k

\* The task of an old session ends without touching the new one: neither its
\* running flag nor a call registered in it.
OldTaskHarmless ==
    [][\A e \in Epoch :
          e < epoch /\ task[e] = "run" /\ task'[e] = "gone"
              => running' = running /\ pending' = pending]_gattVars

\* When a task has ended by itself its session's keys are released, unless the
\* next session began first.
KeysReleased == \A e \in Epoch : task[e] = "gone" /\ e = epoch => ~pressed

\* A call in the exchange ends with its session: it does not sit out its
\* timeout, however the check, the registration and the closing interleave.
CallsEnd ==
    \A c \in Caller :
        call[c] \in {"register", "write", "wait"} /\ ~Current(born[c]) ~> call[c] = "done"

-----------------------------------------------------------------------------
(* gatt_client.rs:953-954: a listener that does not end in time is aborted  *)
(* and joined before any replacement session is allowed.                   *)

\* A session that is served has its own listener.
SessionHasListener == running /\ manager = "session" => task[epoch] = "run"
=============================================================================
