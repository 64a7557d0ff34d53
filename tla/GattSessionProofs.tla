-------------------------- MODULE GattSessionProofs --------------------------
(***************************************************************************)
(* For any number of callers, command codes and connections: a call is     *)
(* answered by its own session and keeps its answer, no registration       *)
(* outlives its call, and a task that ends leaves later sessions alone.    *)
(***************************************************************************)
EXTENDS GattSession, TLAPS

(* An answer comes from the epoch the call began in or from a later one,   *)
(* and none of them lies ahead; the tasks of later epochs do not exist.    *)
EpochsOK ==
    /\ \A c \in Caller : born[c] <= epoch
    /\ \A c \in Caller : rx[c] \in Epoch => born[c] <= rx[c] /\ rx[c] <= epoch
    /\ \A e \in Epoch : e > epoch => task[e] = "none"

(* A call has a result only at its end, and before it is registered        *)
(* nothing has come for it.                                                *)
CallsOK ==
    \A c \in Caller :
        /\ result[c] = "ok" => call[c] = "done"
        /\ call[c] = "lock" => rx[c] = 0

GattInv ==
    /\ GattTypeOK /\ EpochsOK /\ CallsOK
    /\ NoDeadEntry /\ OwnAnswer /\ AnswerKept /\ KeysReleased

LEMMA EpochsAreNumbers ==
    /\ MaxEpoch \in Nat \ {0} /\ Epoch = 1 .. MaxEpoch /\ Shut = MaxEpoch + 1
    /\ Epoch \subseteq 0 .. MaxEpoch
    /\ Shut \notin Epoch /\ 0 \notin Epoch /\ Shut # 0
BY EpochAssumption DEF Epoch, Shut

LEMMA GattStarts == GattInit => GattInv
<1> SUFFICES ASSUME GattInit PROVE GattInv OBVIOUS
<1>1. GattTypeOK
  <2>1. /\ {0, Shut} \subseteq 0 .. Shut /\ 0 \in 0 .. MaxEpoch
        /\ FALSE \in BOOLEAN /\ {} \subseteq Cmd
    BY EpochsAreNumbers
  <2> QED BY <2>1 DEF GattInit, GattTypeOK
<1>2. EpochsOK /\ CallsOK
  BY EpochsAreNumbers DEF GattInit, EpochsOK, CallsOK
<1>3. NoDeadEntry /\ OwnAnswer /\ AnswerKept /\ KeysReleased
  BY EpochsAreNumbers DEF GattInit, NoDeadEntry, OwnAnswer, AnswerKept, KeysReleased
<1> QED BY <1>1, <1>2, <1>3 DEF GattInv

-----------------------------------------------------------------------------
(* The manager                                                             *)

LEMMA ManagerKeeps == ASSUME GattInv, Connect \/ Listen PROVE GattInv'
<1> USE EpochsAreNumbers DEF GattInv
<1>1. CASE Connect
  <2> USE <1>1 DEF Connect, calls, tasks, closers
  <2>1. epoch' = epoch + 1 /\ epoch \in Nat /\ epoch + 1 \in Epoch
    BY DEF GattTypeOK
  <2>2. GattTypeOK'
    BY <2>1 DEF GattTypeOK, WakeAll
  <2>3. (EpochsOK /\ CallsOK)'
    BY <2>1 DEF EpochsOK, CallsOK, GattTypeOK
  <2>4. (NoDeadEntry /\ OwnAnswer)'
    BY DEF NoDeadEntry, OwnAnswer, InExchange
  <2>5. AnswerKept'
    BY <2>1 DEF AnswerKept, EpochsOK, GattTypeOK
  <2>6. KeysReleased'
    BY <2>1 DEF KeysReleased, EpochsOK
  <2> QED BY <2>2, <2>3, <2>4, <2>5, <2>6
<1>2. CASE Listen
  <2> USE <1>2 DEF Listen, calls, closers, world
  <2>1. GattTypeOK'
    BY DEF GattTypeOK
  <2>2. (EpochsOK /\ CallsOK)'
    BY DEF EpochsOK, CallsOK, GattTypeOK
  <2>3. (NoDeadEntry /\ OwnAnswer /\ AnswerKept)'
    BY DEF NoDeadEntry, OwnAnswer, AnswerKept, InExchange
  <2>4. KeysReleased'
    BY DEF KeysReleased
  <2> QED BY <2>1, <2>2, <2>3, <2>4
<1> QED BY <1>1, <1>2

-----------------------------------------------------------------------------
(* The notification tasks                                                  *)

(* Forgetting registrations only shuts oneshots of calls in the exchange.  *)
LEMMA Forgets ==
    ASSUME GattInv, NEW gone \in SUBSET Caller, Forget(gone)
    PROVE  /\ pending' \in [Cmd -> Caller \cup {None}]
           /\ rx' \in [Caller -> 0 .. Shut]
           /\ \A k \in Cmd : pending'[k] \in {pending[k], None}
           /\ \A c \in Caller : rx'[c] # rx[c] => rx'[c] = Shut /\ InExchange(c)
<1> USE EpochsAreNumbers DEF GattInv
<1>1. pending' \in [Cmd -> Caller \cup {None}] /\ \A k \in Cmd : pending'[k] \in {pending[k], None}
  BY DEF Forget, GattTypeOK
<1>2. rx' \in [Caller -> 0 .. Shut]
  BY DEF Forget, GattTypeOK
<1>3. ASSUME NEW c \in Caller, rx'[c] # rx[c] PROVE rx'[c] = Shut /\ InExchange(c)
  <2>1. rx'[c] = Shut /\ \E k \in Cmd : pending[k] = c
    BY <1>3 DEF Forget, GattTypeOK
  <2> QED BY <2>1, NoneAssumption DEF NoDeadEntry
<1> QED BY <1>1, <1>2, <1>3

(* So it disturbs no fact about calls, whatever else of the step keeps     *)
(* them where they are.                                                    *)
LEMMA ForgetKeeps ==
    ASSUME GattInv, NEW gone \in SUBSET Caller, Forget(gone),
           UNCHANGED <<epoch, call, born, cmd, result>>
    PROVE  /\ \A c \in Caller : rx'[c] \in Epoch => born'[c] <= rx'[c] /\ rx'[c] <= epoch'
           /\ (CallsOK /\ NoDeadEntry /\ OwnAnswer /\ AnswerKept)'
<1> USE EpochsAreNumbers DEF GattInv
<1>0. /\ \A k \in Cmd : pending'[k] \in {pending[k], None}
      /\ \A c \in Caller : rx'[c] # rx[c] => rx'[c] = Shut /\ InExchange(c)
  BY Forgets
<1>1. \A c \in Caller : call[c] \in {"lock", "done"} => rx'[c] = rx[c]
  BY <1>0 DEF InExchange
<1>2. ASSUME NEW c \in Caller, rx'[c] \in Epoch PROVE born'[c] <= rx'[c] /\ rx'[c] <= epoch'
  BY <1>0, <1>2 DEF EpochsOK
<1>3. CallsOK'
  BY <1>1 DEF CallsOK
<1>4. NoDeadEntry'
  BY <1>0 DEF NoDeadEntry, InExchange
<1>5. OwnAnswer'
  BY <1>1 DEF OwnAnswer, CallsOK
<1>6. AnswerKept'
  BY <1>1 DEF AnswerKept
<1> QED BY <1>2, <1>3, <1>4, <1>5, <1>6

LEMMA FinishKeeps ==
    ASSUME GattInv, NEW e \in Epoch, Finish(e),
           task' = [task EXCEPT ![e] = "gone"], task[e] = "run",
           closing' \in BOOLEAN,
           UNCHANGED <<epoch, peer, handle, writer, call, born, cmd, result, closers, manager, world>>
    PROVE  GattInv'
<1> USE EpochsAreNumbers DEF GattInv, closers, world
<1>1. CASE epoch = e
  <2>1. /\ pressed' = FALSE /\ running' = FALSE
        /\ Forget({c \in Caller : born[c] = e}) /\ WakeAll
    BY <1>1 DEF Finish
  <2>2. GattTypeOK'
    <3>1. pending' \in [Cmd -> Caller \cup {None}] /\ rx' \in [Caller -> 0 .. Shut]
      BY <2>1, Forgets
    <3>2. armed' \in [Caller -> {"off", "armed", "woken"}]
      BY <2>1 DEF WakeAll, GattTypeOK
    <3> QED BY <2>1, <3>1, <3>2 DEF GattTypeOK
  <2>3. EpochsOK'
    <3>1. \A c \in Caller : rx'[c] \in Epoch => born'[c] <= rx'[c] /\ rx'[c] <= epoch'
      BY <2>1, ForgetKeeps
    <3> QED BY <1>1, <3>1 DEF EpochsOK, GattTypeOK
  <2>4. (CallsOK /\ NoDeadEntry /\ OwnAnswer /\ AnswerKept)'
    BY <2>1, ForgetKeeps
  <2>5. KeysReleased'
    BY <2>1 DEF KeysReleased
  <2> QED BY <2>2, <2>3, <2>4, <2>5
<1>2. CASE epoch # e
  <2>1. UNCHANGED <<pressed, running, pending, rx, armed>>
    BY <1>2 DEF Finish
  <2>2. GattTypeOK' /\ EpochsOK'
    BY <2>1 DEF GattTypeOK, EpochsOK
  <2>3. (CallsOK /\ NoDeadEntry /\ OwnAnswer /\ AnswerKept)'
    BY <2>1 DEF CallsOK, NoDeadEntry, OwnAnswer, AnswerKept, InExchange
  <2>4. KeysReleased'
    BY <1>2, <2>1 DEF KeysReleased, GattTypeOK
  <2> QED BY <2>2, <2>3, <2>4
<1> QED BY <1>1, <1>2

LEMMA TaskKeeps == ASSUME GattInv, NEW e \in Epoch, TaskStep(e) PROVE GattInv'
<1> USE EpochsAreNumbers DEF GattInv
<1>1. CASE TaskEnds(e)
  <2>1. closing' \in BOOLEAN
    BY <1>1 DEF TaskEnds, GattTypeOK
  <2> QED BY <1>1, <2>1, FinishKeeps DEF TaskEnds
<1>2. CASE DeviceCloses(e)
  BY <1>2, FinishKeeps DEF DeviceCloses
<1>3. CASE KeyEvent(e)
  <2> USE <1>3 DEF KeyEvent, client, calls, closers, world, TaskCurrent
  <2>1. GattTypeOK'
    BY DEF GattTypeOK
  <2>2. (EpochsOK /\ CallsOK /\ NoDeadEntry /\ OwnAnswer /\ AnswerKept)'
    BY DEF EpochsOK, CallsOK, NoDeadEntry, OwnAnswer, AnswerKept, InExchange
  <2>3. KeysReleased'
    BY DEF KeysReleased
  <2> QED BY <2>1, <2>2, <2>3
<1>4. ASSUME NEW k \in Cmd, Reply(e, k) PROVE GattInv'
  <2> USE <1>4 DEF Reply, tasks, closers, TaskCurrent
  <2>1. GattTypeOK'
    BY DEF GattTypeOK
  <2>2. \A c \in Caller : rx'[c] = rx[c] \/ (rx'[c] = e /\ epoch = e /\ InExchange(c))
    <3>1. ASSUME NEW c \in Caller, pending[k] = c PROVE InExchange(c)
      BY <3>1, NoneAssumption DEF NoDeadEntry
    <3> QED BY <3>1 DEF GattTypeOK
  <2>3. EpochsOK'
    BY <2>2 DEF EpochsOK
  <2>4. \A c \in Caller : call[c] \in {"lock", "done"} => rx'[c] = rx[c]
    BY <2>2 DEF InExchange
  <2>5. CallsOK' /\ OwnAnswer' /\ AnswerKept'
    BY <2>4 DEF CallsOK, OwnAnswer, AnswerKept
  <2>6. NoDeadEntry' /\ KeysReleased'
    BY DEF NoDeadEntry, InExchange, KeysReleased, GattTypeOK
  <2> QED BY <2>1, <2>3, <2>5, <2>6
<1> QED BY <1>1, <1>2, <1>3, <1>4 DEF TaskStep

-----------------------------------------------------------------------------
(* The calls                                                               *)

LEMMA CallKeeps ==
    ASSUME GattInv, NEW c \in Caller, CallStep(c) \/ Begin(c) \/ Timeout(c) PROVE GattInv'
<1> USE EpochsAreNumbers DEF GattInv
<1>1. CASE Begin(c)
  <2> USE <1>1 DEF Begin, client, tasks, closers, world
  <2>1. GattTypeOK'
    BY DEF GattTypeOK
  <2>2. EpochsOK' /\ CallsOK'
    BY DEF EpochsOK, CallsOK, GattTypeOK
  <2>3. NoDeadEntry'
    BY DEF NoDeadEntry, InExchange, GattTypeOK
  <2>4. OwnAnswer' /\ AnswerKept' /\ KeysReleased'
    BY DEF OwnAnswer, AnswerKept, KeysReleased, GattTypeOK
  <2> QED BY <2>1, <2>2, <2>3, <2>4
<1>2. CASE Lock(c)
  <2> USE <1>2 DEF Lock, Goto, tasks, closers, world
  <2>1. GattTypeOK'
    BY ZenonT(30) DEF GattTypeOK
  <2>2. EpochsOK' /\ CallsOK'
    BY DEF EpochsOK, CallsOK, GattTypeOK
  <2>3. /\ call[c] = "lock" /\ rx[c] = 0 /\ result'[c] \in {result[c], "err"}
        /\ \A d \in Caller : d # c => call'[d] = call[d] /\ result'[d] = result[d]
        /\ NoDeadEntry /\ OwnAnswer /\ AnswerKept /\ KeysReleased
        /\ UNCHANGED <<pending, cmd, rx, born, epoch, task, pressed>>
    BY DEF CallsOK, GattTypeOK
  <2>4. NoDeadEntry'
    <3> HIDE <1>2
    <3>1. ~InExchange(c)
      BY <2>3 DEF InExchange
    <3>2. \A k \in Cmd : pending[k] # None => pending[k] \in Caller \ {c}
      <4>1. \A k \in Cmd : pending[k] # None => pending[k] \in Caller
        BY DEF GattTypeOK
      <4> QED BY <2>3, <3>1, <4>1 DEF NoDeadEntry
    <3> QED BY <2>3, <3>2 DEF NoDeadEntry, InExchange
  <2>5. OwnAnswer' /\ AnswerKept' /\ KeysReleased'
    <3>1. result[c] # "ok"
      BY <2>3 DEF CallsOK
    <3> HIDE <1>2
    <3> QED BY <2>3, <3>1 DEF OwnAnswer, AnswerKept, KeysReleased
  <2> QED BY <2>1, <2>2, <2>4, <2>5
<1>3. CASE Register(c)
  <2> USE <1>3 DEF Register, Goto, tasks, closers, world
  <2>1. GattTypeOK'
    BY DEF GattTypeOK
  <2>2. EpochsOK' /\ CallsOK'
    BY DEF EpochsOK, CallsOK, GattTypeOK
  <2>3. NoDeadEntry'
    BY DEF NoDeadEntry, InExchange, GattTypeOK
  <2>4. OwnAnswer' /\ AnswerKept' /\ KeysReleased'
    BY DEF OwnAnswer, AnswerKept, KeysReleased, CallsOK, GattTypeOK
  <2> QED BY <2>1, <2>2, <2>3, <2>4
\* The steps inside the exchange move the call on and leave its data alone.
<1>4. CASE Write(c) \/ WriteFails(c) \/ Answered(c) \/ Woken(c) \/ Timeout(c)
  <2>1. /\ call[c] \in {"write", "wait"}
        /\ \E to \in {"wait", "leave"} : call' = [call EXCEPT ![c] = to]
        /\ UNCHANGED <<client, tasks, born, cmd, armed, rx, result, closers, manager, link>>
        /\ asked' \subseteq asked \cup {cmd[c]}
    BY <1>4 DEF Write, WriteFails, Answered, Woken, Timeout, Goto, world
  <2> USE <2>1 DEF client, tasks, closers
  <2>2. GattTypeOK'
    BY DEF GattTypeOK
  <2>3. EpochsOK' /\ CallsOK'
    BY DEF EpochsOK, CallsOK, GattTypeOK
  <2>4. \A d \in Caller : /\ InExchange(d) => InExchange(d)'
                          /\ call'[d] = "done" => call[d] = "done"
    BY DEF InExchange, GattTypeOK
  <2>5. NoDeadEntry'
    <3>1. \A k \in Cmd : pending[k] # None => pending[k] \in Caller
      BY DEF GattTypeOK
    <3>2. NoDeadEntry /\ UNCHANGED <<pending, cmd>>
      OBVIOUS
    <3> HIDE <2>1
    <3> QED BY <2>4, <3>1, <3>2 DEF NoDeadEntry
  <2>6. OwnAnswer' /\ AnswerKept' /\ KeysReleased'
    <3>1. OwnAnswer /\ AnswerKept /\ KeysReleased
          /\ UNCHANGED <<epoch, task, pressed, born, rx, result>>
      OBVIOUS
    <3> HIDE <2>1
    <3> QED BY <2>4, <3>1 DEF OwnAnswer, AnswerKept, KeysReleased
  <2> QED BY <2>2, <2>3, <2>5, <2>6
<1>5. CASE Leave(c)
  <2> USE <1>5 DEF Leave, Goto, tasks, closers, world
  <2>1. GattTypeOK'
    BY DEF GattTypeOK, Outcome
  <2>2. EpochsOK' /\ CallsOK'
    BY DEF EpochsOK, CallsOK, GattTypeOK
  <2>3. NoDeadEntry'
    <3>1. ASSUME NEW k \in Cmd, pending'[k] # None PROVE pending[k] # None /\ pending[k] # c
      BY <3>1 DEF NoDeadEntry, GattTypeOK
    <3>2. ASSUME NEW k \in Cmd, pending'[k] # None PROVE pending'[k] = pending[k]
      BY <3>2 DEF GattTypeOK
    <3>3. \A d \in Caller : d # c => call'[d] = call[d]
      BY DEF GattTypeOK
    <3> QED BY <3>1, <3>2, <3>3 DEF NoDeadEntry, InExchange, GattTypeOK
  <2>4. OwnAnswer' /\ AnswerKept'
    <3>1. result'[c] = "ok" <=> epoch = born[c] /\ rx[c] \in Epoch
      BY DEF Outcome, GattTypeOK
    <3>2. result'[c] = "ok" => rx[c] = born[c]
      BY <3>1 DEF EpochsOK, GattTypeOK
    <3>3. rx[c] = born[c] /\ rx[c] # 0 => rx[c] \in Epoch
      BY DEF GattTypeOK
    <3>4. \A d \in Caller : d # c => result'[d] = result[d] /\ call'[d] = call[d]
      BY DEF GattTypeOK
    <3> QED BY <3>1, <3>2, <3>3, <3>4 DEF OwnAnswer, AnswerKept
  <2>5. KeysReleased'
    BY DEF KeysReleased
  <2> QED BY <2>1, <2>2, <2>3, <2>4, <2>5
<1> QED BY <1>1, <1>2, <1>3, <1>4, <1>5 DEF CallStep

-----------------------------------------------------------------------------
(* disconnect and the radio                                                *)

LEMMA CloseKeeps ==
    ASSUME GattInv, NEW p \in Closer, CloseBegin(p) \/ CloseStep(p) PROVE GattInv'
<1> USE EpochsAreNumbers DEF GattInv
<1>1. CASE CloseBegin(p)
  <2> USE <1>1 DEF CloseBegin, tasks, world
  <2>1. GattTypeOK'
    <3>1. pending' \in [Cmd -> Caller \cup {None}] /\ rx' \in [Caller -> 0 .. Shut]
      BY Forgets
    <3>2. armed' \in [Caller -> {"off", "armed", "woken"}]
      BY DEF WakeAll, GattTypeOK
    <3>3. close' \in [Closer -> {"idle", "link", "join"}] /\ closeTask' \in [Closer -> 0 .. MaxEpoch]
      BY DEF GattTypeOK
    <3>4. running' \in BOOLEAN /\ peer' \in 0 .. MaxEpoch
      <4>1. running' = FALSE /\ peer' = 0
        OBVIOUS
      <4>2. 0 \in 0 .. MaxEpoch
        BY EpochAssumption
      <4> QED BY ONLY <4>1, <4>2
    <3>5. manager' \in {"off", "listen", "session", "closing"}
      <4>1. manager' \in {manager, "closing"}
        OBVIOUS
      <4>2. manager \in {"off", "listen", "session", "closing"}
        BY DEF GattTypeOK
      <4> QED BY <4>1, <4>2
    <3> QED BY <3>1, <3>2, <3>3, <3>4, <3>5 DEF GattTypeOK
  <2>2. /\ \A c \in Caller : rx'[c] \in Epoch => born'[c] <= rx'[c] /\ rx'[c] <= epoch'
        /\ (CallsOK /\ NoDeadEntry /\ OwnAnswer /\ AnswerKept)'
    BY ForgetKeeps
  <2>3. EpochsOK' /\ KeysReleased'
    BY <2>2 DEF EpochsOK, KeysReleased
  <2> QED BY <2>1, <2>2, <2>3
<1>2. CASE CloseLink(p) \/ CloseJoin(p) \/ CloseAbort(p)
  <2>1. /\ UNCHANGED <<epoch, running, closing, peer, pending, writer, pressed, calls>>
        /\ handle' \in {handle, 0} /\ link' \in {link, 0} /\ (asked' = asked \/ asked' = {})
        /\ manager' \in {manager, "off"}
        /\ task' = task \/ (closeTask[p] # 0 /\ task' = [task EXCEPT ![closeTask[p]] = "aborted"]
                            /\ task[closeTask[p]] = "run")
        /\ \E to \in {"idle", "join"} : close' = [close EXCEPT ![p] = to]
        /\ \E n \in {handle, 0} : closeTask' = [closeTask EXCEPT ![p] = n]
    BY <1>2 DEF CloseLink, CloseJoin, CloseAbort, Closed, client, tasks, calls, world
  <2>2. GattTypeOK'
    <3>1. task' \in [Epoch -> {"none", "run", "gone", "aborted"}]
      <4>1. task \in [Epoch -> {"none", "run", "gone", "aborted"}]
        BY DEF GattTypeOK
      <4> QED BY <2>1, <4>1
    <3>2. close' \in [Closer -> {"idle", "link", "join"}] /\ closeTask' \in [Closer -> 0 .. MaxEpoch]
      BY <2>1 DEF GattTypeOK
    <3>3. /\ handle' \in 0 .. MaxEpoch /\ link' \in 0 .. MaxEpoch /\ asked' \subseteq Cmd
          /\ manager' \in {"off", "listen", "session", "closing"}
      BY <2>1 DEF GattTypeOK
    <3> QED BY <2>1, <3>1, <3>2, <3>3 DEF GattTypeOK, calls
  <2>3. \A e \in Epoch : task'[e] = task[e] \/ (task'[e] = "aborted" /\ task[e] = "run")
    BY <2>1 DEF GattTypeOK
  <2>4. EpochsOK' /\ KeysReleased'
    BY <2>1, <2>3 DEF EpochsOK, KeysReleased, calls
  <2>5. (CallsOK /\ NoDeadEntry /\ OwnAnswer /\ AnswerKept)'
    BY <2>1 DEF CallsOK, NoDeadEntry, OwnAnswer, AnswerKept, InExchange, calls
  <2> QED BY <2>2, <2>4, <2>5
<1> QED BY <1>1, <1>2 DEF CloseStep

LEMMA LossKeeps == ASSUME GattInv, LinkLost \/ UNCHANGED gattVars PROVE GattInv'
<1> USE EpochsAreNumbers DEF GattInv, LinkLost, gattVars, client, tasks, calls, closers, world
<1>1. GattTypeOK'
  <2>1. link' \in {link, 0} /\ asked' \subseteq asked
    OBVIOUS
  <2>3. link' \in 0 .. MaxEpoch /\ asked' \subseteq Cmd
    <3>1. link \in 0 .. MaxEpoch /\ asked \subseteq Cmd
      BY DEF GattTypeOK
    <3> QED BY <2>1, <3>1
  <2>2. UNCHANGED <<client, tasks, calls, closers, manager>>
    OBVIOUS
  <2> QED BY <2>3, <2>2 DEF GattTypeOK
<1>2. (EpochsOK /\ CallsOK /\ NoDeadEntry /\ OwnAnswer /\ AnswerKept /\ KeysReleased)'
  BY DEF EpochsOK, CallsOK, NoDeadEntry, OwnAnswer, AnswerKept, KeysReleased, InExchange
<1> QED BY <1>1, <1>2

LEMMA GattKept == GattInv /\ [GattNext]_gattVars => GattInv'
BY ManagerKeeps, TaskKeeps, CallKeeps, CloseKeeps, LossKeeps DEF GattNext

LEMMA GattAlways == GattSpec => []GattInv
BY GattStarts, GattKept, PTL DEF GattSpec

-----------------------------------------------------------------------------
(* The variables keep their types.                                         *)
THEOREM GattTypeCorrect == GattSpec => []GattTypeOK
BY GattAlways, PTL DEF GattInv

(* A call that returns Ok was answered in its own session.                 *)
THEOREM AlwaysOwnAnswer == GattSpec => []OwnAnswer
BY GattAlways, PTL DEF GattInv

(* An answer that came in time is returned.                                *)
THEOREM AnswerAlwaysKept == GattSpec => []AnswerKept
BY GattAlways, PTL DEF GattInv

(* No registration outlives its call.                                      *)
THEOREM NeverDeadEntry == GattSpec => []NoDeadEntry
BY GattAlways, PTL DEF GattInv

(* Keys are released when a session's task ends.                           *)
THEOREM KeysAlwaysReleased == GattSpec => []KeysReleased
BY GattAlways, PTL DEF GattInv

(* The task of an old session ends without touching the new one.           *)
THEOREM OldTaskAlwaysHarmless == GattSpec => OldTaskHarmless
<1>1. ASSUME GattTypeOK, [GattNext]_gattVars, NEW e \in Epoch,
             e < epoch /\ task[e] = "run" /\ task'[e] = "gone"
      PROVE  running' = running /\ pending' = pending
  <2>1. epoch # e
    BY <1>1, EpochsAreNumbers DEF GattTypeOK
  <2>2. TaskEnds(e) \/ DeviceCloses(e)
    <3>1. ASSUME Connect \/ Listen \/ LinkLost \/ UNCHANGED gattVars PROVE FALSE
      BY <1>1, <2>1, <3>1 DEF Connect, Listen, LinkLost, gattVars, tasks, GattTypeOK
    <3>2. ASSUME NEW c \in Caller, CallStep(c) \/ Begin(c) \/ Timeout(c) PROVE FALSE
      BY <1>1, <3>2 DEF CallStep, Begin, Timeout, Lock, Register, Write, WriteFails, Answered,
                        Woken, Leave, tasks
    <3>3. ASSUME NEW p \in Closer, CloseBegin(p) \/ CloseStep(p) PROVE FALSE
      BY <1>1, <3>3 DEF CloseBegin, CloseStep, CloseLink, CloseJoin, CloseAbort, tasks, GattTypeOK
    <3>4. ASSUME NEW f \in Epoch, TaskStep(f), ~(TaskEnds(e) \/ DeviceCloses(e)) PROVE FALSE
      BY <1>1, <3>4 DEF TaskStep, TaskEnds, DeviceCloses, KeyEvent, Reply, tasks, GattTypeOK
    <3> QED BY <1>1, <3>1, <3>2, <3>3, <3>4 DEF GattNext
  <2>3. Finish(e)
    BY <2>2 DEF TaskEnds, DeviceCloses
  <2> QED BY <2>1, <2>3 DEF Finish
<1>2. GattTypeOK /\ [GattNext]_gattVars
      => \A e \in Epoch :
            e < epoch /\ task[e] = "run" /\ task'[e] = "gone"
              => running' = running /\ pending' = pending
  BY <1>1
<1>3. []GattTypeOK /\ [][GattNext]_gattVars => OldTaskHarmless
  BY <1>2, PTL DEF OldTaskHarmless
<1> QED BY <1>3, GattTypeCorrect, PTL DEF GattSpec
=============================================================================
