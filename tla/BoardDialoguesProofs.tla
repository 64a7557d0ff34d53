------------------------ MODULE BoardDialoguesProofs ------------------------
(***************************************************************************)
(* Theorems about the two dialogues of the host with a board, for any      *)
(* number of faults.                                                       *)
(*                                                                         *)
(* Handshake: what admission concludes is true.                            *)
(* ClaimIsTrue and RefusalIsReal speak of conclusions; AdmissionInv        *)
(* follows what they are drawn from back to the board.  A value that       *)
(* is on its way to the host, or that a command has got, says something of *)
(* the board (Tells); the identity and the commands that may follow a      *)
(* failed one are only sent by a host with a token; and a conclusion lasts *)
(* as long as the session it was drawn in, no longer than its gate.        *)
(*                                                                         *)
(* Dfu: an END installs the whole firmware or nothing.                     *)
(***************************************************************************)
EXTENDS Handshake, Dfu, SequenceTheorems, TLAPS

InSession == {"audio", "verdict", "publish", "served"}

\* What a value proves about the board that sent it.
Tells(cmd, value) ==
    /\ cmd = "identity" /\ value = "match" => board = "own" /\ gate /\ token
    /\ cmd = "identity" /\ value = "refuse" => board \in {"other", "unbound"} /\ token
    /\ cmd = "status" /\ value = "bound" => board = "own"
    /\ cmd = "status" /\ value = "unbound" => board = "unbound"
    /\ cmd = "caps" /\ value = "plain" => board \in Legacy
    /\ cmd = "info" /\ value = "old" => board \in Legacy
    /\ cmd = "info" /\ value = "new" => board \in {"own", "unbound", "mute"} /\ (board = "own" => gate)
    /\ cmd = "close" /\ value = "bound" => board \in Bound

NotesTrue == \A i \in DOMAIN toHost : Tells(toHost[i].cmd, toHost[i].value)
GotTrue == step \in Command => Tells(step, got)
ReasonTrue == reason = "bound" => board \in Bound
GateTrue == gate => board = "own" /\ token
AskedByToken == toBoard = "identity" \/ step \in {"identity", "status", "caps"} => token
StatusAfterRefusal == step = "status" => board \in {"other", "unbound"}
ClaimInSession == claim # "none" <=> step \in InSession
AudioInSession == subscribed => step \in InSession \ {"audio"}

AdmissionInv ==
    /\ HandshakeTypeOK
    /\ NotesTrue /\ GotTrue /\ ReasonTrue /\ GateTrue
    /\ AskedByToken /\ StatusAfterRefusal
    /\ ClaimInSession /\ AudioInSession
    /\ ClaimIsTrue /\ RefusalIsReal

\* The same but for the types.
Parts ==
    /\ NotesTrue /\ GotTrue /\ ReasonTrue /\ GateTrue
    /\ AskedByToken /\ StatusAfterRefusal
    /\ ClaimInSession /\ AudioInSession
    /\ ClaimIsTrue /\ RefusalIsReal

-----------------------------------------------------------------------------
(* Notifications                                                           *)

\* Every reply is a short sequence of notifications of known kinds.
LEMMA ReplyType ==
    ASSUME NEW cmd \in Command, board \in Board
    PROVE  Reply(cmd) \in Seq(Notes)
  <1>1. \A v \in {"bad", "match", "refuse", "bound", "unbound", "binding", "plain", "new", "old"} :
          Note(cmd, v) \in Notes
    BY DEF Notes
  <1>2. Note("close", "bound") \in Notes
    BY DEF Notes
  <1> QED BY <1>1, <1>2 DEF Reply, Command, Board, Bound, Legacy

\* A board that handles a command answers the truth, with the gate it then has.
LEMMA ReplyTrue ==
    ASSUME HandshakeTypeOK, GateTrue, AskedByToken, Handle,
           toBoard = "identity" \/ gate \/ board \notin Bound,
           NEW i \in Nat, i \in DOMAIN Reply(toBoard),
           NEW n, n = Reply(toBoard)[i]
    PROVE  Tells(n.cmd, n.value)'
  <1>1. toBoard \in Command /\ board' = board /\ token' = token /\ board \in Board
    BY DEF Handle, HandshakeTypeOK, fixed
  <1>2. gate => gate'
    BY DEF Handle
  <1>3. toBoard = "identity" /\ board = "own" => gate'
    BY DEF Handle, Bound
  <1>4. CASE toBoard = "identity"
    <2>1. CASE board = "own"
      BY <1>1, <1>3, <1>4, <2>1 DEF Reply, Tells, Note, AskedByToken
    <2>2. CASE board = "other"
      BY <1>1, <1>4, <2>2 DEF Reply, Tells, Note, AskedByToken, Bound
    <2>3. CASE board = "unbound"
      BY <1>1, <1>4, <2>3 DEF Reply, Tells, Note, AskedByToken
    <2>4. CASE board \notin {"own", "other", "unbound"}
      BY <1>1, <1>4, <2>4 DEF Reply
    <2> QED BY <2>1, <2>2, <2>3, <2>4
  <1>5. CASE toBoard = "status"
    <2>1. CASE board = "own"
      BY <1>1, <1>5, <2>1 DEF Reply, Tells, Note
    <2>2. CASE board = "unbound"
      BY <1>1, <1>5, <2>2 DEF Reply, Tells, Note
    <2>3. CASE board \notin {"own", "unbound"}
      BY <1>1, <1>5, <2>3 DEF Reply
    <2> QED BY <2>1, <2>2, <2>3
  <1>6. CASE toBoard = "caps"
    <2>1. CASE board \in {"own", "unbound", "mute"}
      BY <1>1, <1>6, <2>1 DEF Reply, Tells, Note
    <2>2. CASE board = "oldcaps"
      BY <1>1, <1>6, <2>2 DEF Reply, Tells, Note, Legacy
    <2>3. CASE board \notin {"own", "unbound", "mute", "oldcaps"}
      BY <1>1, <1>6, <2>3 DEF Reply
    <2> QED BY <2>1, <2>2, <2>3
  <1>7. CASE toBoard = "info"
    <2>1. CASE board \in Legacy
      BY <1>1, <1>7, <2>1 DEF Reply, Tells, Note, Legacy
    <2>2. CASE board \in {"own", "unbound", "mute"}
      BY <1>1, <1>2, <1>7, <2>2 DEF Reply, Tells, Note, Legacy, Bound
    <2>3. CASE board = "other"
      BY <1>1, <1>7, <2>3 DEF Reply, Legacy
    <2> QED BY <1>1, <2>1, <2>2, <2>3 DEF Board, Legacy
  <1> QED BY <1>1, <1>4, <1>5, <1>6, <1>7 DEF Command

-----------------------------------------------------------------------------
(* Types                                                                   *)

\* The values a command can have got.
Values == {"none", "err", "bad"} \cup UNION {Answer[c] : c \in Command}

\* The results a command can have, listed.
LEMMA ValueList ==
    Values = {"none", "err", "bad", "match", "refuse", "bound", "unbound", "binding", "plain",
              "new", "old"}
  <1>1. /\ Answer["identity"] = {"match", "refuse"} /\ Answer["status"] = {"bound", "unbound"}
        /\ Answer["caps"] = {"binding", "plain"} /\ Answer["info"] = {"new", "old"}
    BY DEF Answer
  <1>2. UNION {Answer[c] : c \in Command} =
          Answer["identity"] \cup Answer["status"] \cup Answer["caps"] \cup Answer["info"]
    BY DEF Command
  <1> QED BY <1>1, <1>2 DEF Values

\* The parts of a notification.
LEMMA NoteParts ==
    ASSUME NEW n \in Notes
    PROVE  /\ n.cmd \in Command \cup {"close"}
           /\ n.cmd # "close" => n.value \in Values /\ n = Note(n.cmd, n.value)
           /\ n.cmd = "close" => n.value \in {"bound", "sleep"} /\ n = Note("close", n.value)
           /\ n.cmd # "close" => Note(n.cmd, "bad") \in Notes
  BY ValueList DEF Notes, Note, Command

\* The steps that change what is on its way to the host.
LEMMA QueueType ==
    ASSUME HandshakeTypeOK,
           \/ Handle \/ Deliver \/ NoteLost \/ NoteGarbled
           \/ \E why \in {"bound", "sleep"} : Announce(why)
    PROVE  toHost' \in Seq(Notes)
  <1>1. toHost \in Seq(Notes) /\ toBoard \in Command \cup {"none"} /\ board \in Board
    BY DEF HandshakeTypeOK
  <1>2. CASE Handle
    <2>1. toBoard \in Command
      BY <1>1, <1>2 DEF Handle
    <2>2. Reply(toBoard) \in Seq(Notes)
      BY <1>1, <2>1, ReplyType
    <2>3. toHost \o Reply(toBoard) \in Seq(Notes)
      BY <1>1, <2>2
    <2> QED BY <1>1, <1>2, <2>3 DEF Handle
  <1>3. CASE Deliver
    BY <1>1, <1>3 DEF Deliver
  <1>4. CASE NoteLost
    BY <1>1, <1>4 DEF NoteLost
  <1>5. CASE NoteGarbled
    <2>1. Head(toHost) \in Notes /\ Tail(toHost) \in Seq(Notes)
      BY <1>1, <1>5 DEF NoteGarbled
    <2>2. Note(Head(toHost).cmd, "bad") \in Notes
      BY <1>5, <2>1, NoteParts DEF NoteGarbled
    <2>3. <<Note(Head(toHost).cmd, "bad")>> \o Tail(toHost) \in Seq(Notes)
      BY <2>1, <2>2
    <2> QED BY <1>5, <2>3 DEF NoteGarbled
  <1>6. CASE \E why \in {"bound", "sleep"} : Announce(why)
    <2>1. PICK why \in {"bound", "sleep"} : Announce(why)
      BY <1>6
    <2>2. Note("close", why) \in Notes
      BY DEF Notes
    <2> QED BY <1>1, <2>1, <2>2 DEF Announce
  <1> QED BY <1>2, <1>3, <1>4, <1>5, <1>6

\* Every step keeps the types.
LEMMA TypeStep ==
    ASSUME HandshakeTypeOK, [HandshakeNext]_handshakeVars
    PROVE  HandshakeTypeOK'
  <1> USE FaultAssumption
  <1>1. CASE Handle
    <2>1. toHost' \in Seq(Notes)
      BY <1>1, QueueType
    <2>2. /\ gate' \in BOOLEAN /\ closing' \in BOOLEAN
      BY <1>1, Zenon DEF Handle, HandshakeTypeOK
    <2>3. toBoard' = "none" /\ UNCHANGED <<fixed, link, session, admission, faults>>
      BY <1>1 DEF Handle
    <2> QED BY <2>1, <2>2, <2>3 DEF HandshakeTypeOK, fixed, session, admission
  <1>2. CASE GateExpires \/ Sleeps
    <2>1. PICK why \in {"bound", "sleep"} : Announce(why)
      BY <1>2 DEF GateExpires, Sleeps
    <2>2. toHost' \in Seq(Notes)
      BY <2>1, QueueType
    <2>3. faults' \in 0..MaxFaults
      BY <1>2 DEF GateExpires, Sleeps, Fault, HandshakeTypeOK
    <2> QED BY <2>1, <2>2, <2>3 DEF Announce, HandshakeTypeOK, fixed, session, admission
  <1>3. CASE BoardCloses \/ LinkLost \/ CommandLost
    <2>1. faults' \in 0..MaxFaults
      BY <1>3 DEF BoardCloses, LinkLost, CommandLost, Fault, HandshakeTypeOK
    <2>2. link' \in BOOLEAN
      BY <1>3, Zenon DEF BoardCloses, LinkLost, CommandLost, HandshakeTypeOK
    <2>3. /\ toBoard' = "none"
          /\ UNCHANGED <<fixed, gate, closing, toHost, session, admission>>
      BY <1>3, Zenon DEF BoardCloses, LinkLost, CommandLost
    <2> QED BY <2>1, <2>2, <2>3 DEF HandshakeTypeOK, fixed, session, admission
  <1>4. CASE NoteLost \/ NoteGarbled
    <2>1. toHost' \in Seq(Notes) /\ faults' \in 0..MaxFaults
      BY <1>4, QueueType DEF NoteLost, NoteGarbled, Fault, HandshakeTypeOK
    <2> QED BY <1>4, <2>1
          DEF NoteLost, NoteGarbled, HandshakeTypeOK, fixed, boardVars, session, admission
  <1>5. CASE Deliver
    <2> DEFINE note == Head(toHost)
    <2>1. toHost' \in Seq(Notes) /\ note \in Notes
      BY <1>5, QueueType DEF Deliver, HandshakeTypeOK
    <2>2. got' \in Values /\ reason' \in {"none", "bound", "sleep"} /\ running' \in BOOLEAN
      <3>1. CASE note.cmd = "close"
        BY <1>5, <2>1, <3>1, NoteParts DEF Deliver, HandshakeTypeOK, Values
      <3>2. CASE note.cmd # "close"
        BY <1>5, <2>1, <3>2, NoteParts DEF Deliver, HandshakeTypeOK, Values, session
      <3> QED BY <3>1, <3>2
    <2> HIDE DEF note
    <2> QED BY <1>5, <2>1, <2>2 DEF Deliver, HandshakeTypeOK, Values, fixed, boardVars
  <1>6. CASE SessionLost
    <2>1. running' = FALSE /\ UNCHANGED <<fixed, link, boardVars, toHost, reason, admission, faults>>
      BY <1>6 DEF SessionLost
    <2>2. running' \in BOOLEAN
      BY <2>1
    <2>3. UNCHANGED <<fixed, link, boardVars, toHost, reason, admission, faults>>
      BY <2>1
    <2> QED BY <2>2, <2>3 DEF HandshakeTypeOK, fixed, boardVars, admission
  <1>7. CASE CommandFails
    <2>1. faults' \in 0..MaxFaults
      BY <1>7 DEF CommandFails, Fault, HandshakeTypeOK
    <2> QED BY <1>7, <2>1 DEF CommandFails, HandshakeTypeOK, fixed, boardVars, session
  <1>8. CASE Connect
    <2>1. /\ link' = TRUE /\ gate' = FALSE /\ closing' = FALSE
          /\ toBoard' = "none" /\ toHost' = <<>>
          /\ running' = TRUE /\ reason' = "none"
          /\ step' = "admit" /\ got' = "none" /\ retried' = FALSE
          /\ UNCHANGED <<fixed, claim, subscribed, blocked, faults>>
      BY <1>8 DEF Connect
    <2>2. /\ link' \in BOOLEAN /\ gate' \in BOOLEAN /\ closing' \in BOOLEAN
          /\ running' \in BOOLEAN /\ retried' \in BOOLEAN
      BY <2>1
    <2>3. /\ toBoard' = "none" /\ toHost' \in Seq(Notes) /\ reason' = "none"
          /\ step' = "admit" /\ got' = "none"
          /\ UNCHANGED <<fixed, claim, subscribed, blocked, faults>>
      BY <2>1
    <2> QED BY <2>2, <2>3 DEF HandshakeTypeOK, fixed
  <1>9. ASSUME NEW cmd \in Command, Ask(cmd), retried' \in BOOLEAN PROVE HandshakeTypeOK'
    BY <1>9 DEF Ask, HandshakeTypeOK, fixed, session
  <1>10. ASSUME GiveUp, blocked' \in BOOLEAN PROVE HandshakeTypeOK'
    BY <1>10 DEF GiveUp, HandshakeTypeOK, fixed
  <1>11. ASSUME NEW identity \in {"Verified", "Unbound", "Legacy"}, Accept(identity)
         PROVE  HandshakeTypeOK'
    BY <1>11 DEF Accept, HandshakeTypeOK, fixed, boardVars, session
  <1>12. retried \in BOOLEAN /\ blocked \in BOOLEAN
    BY DEF HandshakeTypeOK
  <1>13. CASE Fail \/ Refused
    BY <1>13, <1>10, <1>12 DEF Fail, Refused
  <1>14. CASE Admit \/ IdentityMatches \/ IdentityRefused \/ IdentityMalformed \/ IdentityUnanswered
    BY <1>14, <1>9, <1>11, <1>12, <1>13
       DEF Admit, IdentityMatches, IdentityRefused, IdentityMalformed, IdentityUnanswered, Command
  <1>15. CASE StatusDone \/ CapsDone \/ InfoDone
    BY <1>15, <1>9, <1>11, <1>12, <1>13 DEF StatusDone, CapsDone, InfoDone, Command
  <1>16. CASE SubscribeAudio
    BY <1>16 DEF SubscribeAudio, HandshakeTypeOK, fixed, boardVars, session
  <1>17. CASE SubscribeFails
    <2>1. faults' \in 0..MaxFaults
      BY <1>17 DEF SubscribeFails, Fault, HandshakeTypeOK
    <2> QED BY <1>17, <2>1 DEF SubscribeFails, HandshakeTypeOK, fixed
  <1>18. CASE Verdict \/ Publish \/ SessionEnds
    BY <1>18, <1>13 DEF Verdict, Publish, SessionEnds, HandshakeTypeOK, fixed, boardVars, session
  <1>19. CASE UNCHANGED handshakeVars
    BY <1>19 DEF handshakeVars, HandshakeTypeOK, fixed, boardVars, session, admission
  <1> QED
    BY <1>1, <1>2, <1>3, <1>4, <1>5, <1>6, <1>7, <1>8, <1>14, <1>15, <1>16, <1>17, <1>18, <1>19
       DEF HandshakeNext, BoardStep, HostStep

-----------------------------------------------------------------------------
(* What a step of each kind does to the invariant.                         *)

\* What was told stays true while the gate does.
LEMMA TellsKept ==
    ASSUME NEW c, NEW v, Tells(c, v), UNCHANGED fixed, gate => gate'
    PROVE  Tells(c, v)'
  BY DEF Tells, fixed

\* A command is sent by those who may send it.
LEMMA AskKeeps ==
    ASSUME AdmissionInv, NEW cmd \in Command, Ask(cmd),
           cmd \in {"identity", "status", "caps"} => token,
           cmd = "status" => board \in {"other", "unbound"},
           step \notin InSession
    PROVE  Parts'
  <1>1. /\ step' = cmd /\ got' = "none"
        /\ UNCHANGED <<fixed, gate, toHost, session, claim, subscribed, blocked>>
    BY DEF Ask
  <1>2. toBoard' \in {cmd, "none"}
    BY DEF Ask
  <1>3. NotesTrue'
    BY <1>1, TellsKept DEF AdmissionInv, NotesTrue
  <1>5. GotTrue'
    BY <1>1 DEF GotTrue, Tells
  <1>6. (ReasonTrue /\ GateTrue /\ AskedByToken /\ StatusAfterRefusal)'
    BY <1>1, <1>2
       DEF AdmissionInv, ReasonTrue, GateTrue, AskedByToken, StatusAfterRefusal, fixed, session
  <1>7. (ClaimInSession /\ AudioInSession)'
    BY <1>1 DEF AdmissionInv, ClaimInSession, AudioInSession, InSession, Command
  <1>8. (ClaimIsTrue /\ RefusalIsReal)'
    BY <1>1 DEF AdmissionInv, ClaimIsTrue, RefusalIsReal, fixed
  <1> QED BY <1>3, <1>5, <1>6, <1>7, <1>8 DEF Parts

\* An attempt that ends takes its conclusion with it, and blocks for a reason.
LEMMA GiveUpKeeps ==
    ASSUME AdmissionInv, GiveUp, blocked' => blocked \/ (board = "other" /\ token)
    PROVE  Parts'
  <1>1. /\ step' = "idle" /\ claim' = "none" /\ subscribed' = FALSE /\ toBoard' = "none"
        /\ UNCHANGED <<fixed, gate, toHost, reason>>
    BY DEF GiveUp
  <1>2. NotesTrue'
    BY <1>1, TellsKept DEF AdmissionInv, NotesTrue
  <1>3. (GotTrue /\ ReasonTrue /\ GateTrue /\ AskedByToken /\ StatusAfterRefusal)'
    BY <1>1 DEF AdmissionInv, GotTrue, ReasonTrue, GateTrue, AskedByToken, StatusAfterRefusal,
                Command, fixed
  <1>4. (ClaimInSession /\ AudioInSession)'
    BY <1>1 DEF ClaimInSession, AudioInSession, InSession
  <1>5. ClaimIsTrue'
    BY <1>1 DEF ClaimIsTrue
  <1>6. RefusalIsReal'
    BY <1>1 DEF AdmissionInv, RefusalIsReal, fixed
  <1> QED BY <1>2, <1>3, <1>4, <1>5, <1>6 DEF Parts

\* An identity is concluded from what proves it.
LEMMA AcceptKeeps ==
    ASSUME AdmissionInv, NEW identity \in {"Verified", "Unbound", "Legacy"}, Accept(identity),
           identity = "Verified" => token /\ board = "own" /\ gate,
           identity = "Unbound" => token /\ board = "unbound",
           identity = "Legacy" => IF token THEN board \in Legacy ELSE board \notin Bound,
           step \notin InSession
    PROVE  Parts'
  <1>1. /\ step' = "audio" /\ claim' = identity
        /\ UNCHANGED <<fixed, gate, toBoard, toHost, reason, subscribed, blocked>>
    BY DEF Accept, boardVars, session
  <1>2. NotesTrue'
    BY <1>1, TellsKept DEF AdmissionInv, NotesTrue
  <1>3. (GotTrue /\ ReasonTrue /\ GateTrue /\ AskedByToken /\ StatusAfterRefusal)'
    BY <1>1 DEF AdmissionInv, GotTrue, ReasonTrue, GateTrue, AskedByToken, StatusAfterRefusal,
                Command, fixed
  <1>4. (ClaimInSession /\ AudioInSession)'
    BY <1>1 DEF AdmissionInv, ClaimInSession, AudioInSession, InSession
  <1>5. ClaimIsTrue'
    BY <1>1 DEF ClaimIsTrue, fixed
  <1>6. RefusalIsReal'
    BY <1>1 DEF AdmissionInv, RefusalIsReal, fixed
  <1> QED BY <1>2, <1>3, <1>4, <1>5, <1>6 DEF Parts

\* A step that leaves the admission alone: it may raise the gate, bring
\* truthful notifications and end the session for a true reason.
LEMMA OutsideKeeps ==
    ASSUME AdmissionInv, UNCHANGED <<fixed, admission>>, gate => gate',
           NotesTrue', ReasonTrue', GateTrue', toBoard' \in {toBoard, "none"}
    PROVE  Parts'
  <1>1. GotTrue'
    BY DEF AdmissionInv, GotTrue, Tells, fixed, admission
  <1>2. (AskedByToken /\ StatusAfterRefusal /\ ClaimInSession /\ AudioInSession /\ RefusalIsReal)'
    BY DEF AdmissionInv, AskedByToken, StatusAfterRefusal, ClaimInSession, AudioInSession,
           RefusalIsReal, InSession, fixed, admission
  <1>3. ClaimIsTrue'
    BY DEF AdmissionInv, ClaimIsTrue, fixed, admission
  <1> QED BY <1>1, <1>2, <1>3 DEF Parts

-----------------------------------------------------------------------------
(* The steps one by one.                                                   *)

\* A notification that was on its way stays true.
LEMMA OldNote ==
    ASSUME AdmissionInv, UNCHANGED fixed, gate => gate',
           NEW n, \E j \in DOMAIN toHost : n = toHost[j]
    PROVE  Tells(n.cmd, n.value)'
  <1>1. Tells(n.cmd, n.value)
    BY DEF AdmissionInv, NotesTrue
  <1> QED BY <1>1, TellsKept

\* What the board answers is the truth, and so are older answers.
LEMMA HandleKeeps ==
    ASSUME AdmissionInv, Handle
    PROVE  Parts'
  <1>1. /\ UNCHANGED <<fixed, admission, session>> /\ toBoard' = "none" /\ (gate => gate')
    BY DEF Handle
  <1>2. toHost \in Seq(Notes) /\ toBoard \in Command /\ board \in Board
    BY DEF AdmissionInv, HandshakeTypeOK, Handle
  <1>3. NotesTrue'
    <2> SUFFICES ASSUME NEW i \in DOMAIN toHost', NEW n, n = toHost'[i]
                 PROVE  Tells(n.cmd, n.value)'
      BY DEF NotesTrue
    <2>1. CASE toHost' = toHost
      BY <1>1, <2>1, OldNote
    <2>2. CASE toHost' # toHost
      <3> DEFINE r == Reply(toBoard)
      <3>1. toHost' = toHost \o r /\ (toBoard = "identity" \/ gate \/ board \notin Bound)
        BY <2>2 DEF Handle
      <3>2. r \in Seq(Notes)
        BY <1>2, ReplyType
      <3>3. i \in 1..(Len(toHost) + Len(r))
        BY <1>2, <3>1, <3>2
      <3>4. CASE i <= Len(toHost)
        <4>1. i \in DOMAIN toHost /\ n = toHost[i]
          BY <1>2, <3>1, <3>2, <3>3, <3>4
        <4> QED BY <4>1, <1>1, OldNote
      <3>5. CASE i > Len(toHost)
        <4>1. (i - Len(toHost)) \in Nat /\ (i - Len(toHost)) \in DOMAIN r /\ n = r[i - Len(toHost)]
          BY <1>2, <3>1, <3>2, <3>3, <3>5
        <4> QED BY <4>1, <3>1, ReplyTrue DEF AdmissionInv
      <3> QED BY <3>3, <3>4, <3>5, <1>2
    <2> QED BY <2>1, <2>2
  <1>4. GateTrue'
    <2>1. gate' => gate \/ (board = "own" /\ toBoard = "identity")
      BY Zenon DEF Handle
    <2> QED BY <1>1, <2>1 DEF AdmissionInv, GateTrue, AskedByToken, fixed
  <1>5. ReasonTrue'
    BY <1>1 DEF AdmissionInv, ReasonTrue, fixed, session
  <1> QED BY <1>1, <1>3, <1>4, <1>5, OutsideKeeps

\* A board that announces reason 3 is bound.
LEMMA AnnounceKeeps ==
    ASSUME AdmissionInv, NEW why \in {"bound", "sleep"}, Announce(why),
           why = "bound" => board \in Bound
    PROVE  Parts'
  <1>1. /\ UNCHANGED <<fixed, gate, toBoard, session, admission>>
        /\ toHost' = Append(toHost, Note("close", why)) /\ toHost \in Seq(Notes)
    BY DEF Announce, AdmissionInv, HandshakeTypeOK
  <1>2. NotesTrue'
    <2> SUFFICES ASSUME NEW i \in DOMAIN toHost', NEW n, n = toHost'[i]
                 PROVE  Tells(n.cmd, n.value)'
      BY DEF NotesTrue
    <2>1. CASE \E j \in DOMAIN toHost : n = toHost[j]
      BY <1>1, <2>1, OldNote
    <2>2. CASE n = Note("close", why)
      BY <1>1, <2>2 DEF Tells, Note, fixed
    <2> QED BY <1>1, <2>1, <2>2
  <1> QED BY <1>1, <1>2, OutsideKeeps
          DEF AdmissionInv, ReasonTrue, GateTrue, fixed, session

\* The radio, and the end of a session, bring nothing new to the host.
LEMMA LossKeeps ==
    ASSUME AdmissionInv,
           BoardCloses \/ LinkLost \/ CommandLost \/ NoteLost \/ NoteGarbled \/ SessionLost
    PROVE  Parts'
  <1>1. /\ UNCHANGED <<fixed, gate, reason, admission>> /\ toBoard' \in {toBoard, "none"}
    BY DEF BoardCloses, LinkLost, CommandLost, NoteLost, NoteGarbled, SessionLost, boardVars, session
  <1>2. toHost \in Seq(Notes)
    BY DEF AdmissionInv, HandshakeTypeOK
  <1>3. NotesTrue'
    <2> SUFFICES ASSUME NEW i \in DOMAIN toHost', NEW n, n = toHost'[i]
                 PROVE  Tells(n.cmd, n.value)'
      BY DEF NotesTrue
    <2>1. CASE toHost' = toHost
      BY <1>1, <2>1, OldNote
    <2>2. CASE NoteLost
      <3>1. i + 1 \in DOMAIN toHost /\ n = toHost[i + 1]
        BY <1>2, <2>2 DEF NoteLost
      <3> QED BY <3>1, <1>1, OldNote
    <2>3. CASE NoteGarbled
      <3>1. /\ toHost' = <<Note(Head(toHost).cmd, "bad")>> \o Tail(toHost)
            /\ Tail(toHost) \in Seq(Notes) /\ toHost # <<>>
        BY <1>2, <2>3 DEF NoteGarbled
      <3>2. CASE i = 1
        <4>1. n.value = "bad"
          BY <3>1, <3>2 DEF Note
        <4> QED BY <4>1 DEF Tells
      <3>3. CASE i # 1
        <4>1. i \in DOMAIN toHost /\ n = toHost[i]
          BY <1>2, <3>1, <3>3
        <4> QED BY <4>1, <1>1, OldNote
      <3> QED BY <3>2, <3>3
    <2> QED BY <2>1, <2>2, <2>3 DEF BoardCloses, LinkLost, CommandLost, SessionLost
  <1> QED BY <1>1, <1>3, OutsideKeeps DEF AdmissionInv, ReasonTrue, GateTrue, fixed

\* The host gets what the board said, or the reason it gave.
LEMMA DeliverKeeps ==
    ASSUME AdmissionInv, Deliver
    PROVE  Parts'
  <1> DEFINE note == Head(toHost)
  <1>1. toHost \in Seq(Notes) /\ toHost # <<>> /\ toHost' = Tail(toHost)
    BY DEF AdmissionInv, HandshakeTypeOK, Deliver
  <1>2. note = toHost[1] /\ 1 \in DOMAIN toHost /\ note \in Notes
    BY <1>1
  <1>3. /\ UNCHANGED <<fixed, gate, toBoard, step, retried, claim, subscribed, blocked>>
    BY DEF Deliver, boardVars
  <1>4. Tells(note.cmd, note.value)
    BY <1>2 DEF AdmissionInv, NotesTrue
  <1>5. NotesTrue'
    <2> SUFFICES ASSUME NEW i \in DOMAIN toHost', NEW n, n = toHost'[i]
                 PROVE  Tells(n.cmd, n.value)'
      BY DEF NotesTrue
    <2>1. i + 1 \in DOMAIN toHost /\ n = toHost[i + 1]
      BY <1>1
    <2> QED BY <2>1, <1>3, OldNote
  <1>6. ReasonTrue'
    <2>1. CASE note.cmd = "close"
      BY <1>3, <1>4, <2>1 DEF Deliver, ReasonTrue, Tells, fixed
    <2>2. CASE note.cmd # "close"
      BY <1>3, <2>2 DEF Deliver, AdmissionInv, ReasonTrue, session, fixed
    <2> QED BY <2>1, <2>2
  <1>7. GotTrue'
    <2>1. CASE got' = got
      BY <1>3, <2>1 DEF AdmissionInv, GotTrue, Tells, fixed
    <2>2. CASE note.cmd = step /\ got' = note.value
      BY <1>3, <1>4, <2>2 DEF GotTrue, Tells, fixed
    <2> QED BY <2>1, <2>2 DEF Deliver
  <1>8. (GateTrue /\ AskedByToken /\ StatusAfterRefusal /\ ClaimInSession /\ AudioInSession)'
    BY <1>3 DEF AdmissionInv, GateTrue, AskedByToken, StatusAfterRefusal, ClaimInSession,
                AudioInSession, fixed
  <1>9. (ClaimIsTrue /\ RefusalIsReal)'
    BY <1>3 DEF AdmissionInv, ClaimIsTrue, RefusalIsReal, fixed
  <1> QED BY <1>5, <1>6, <1>7, <1>8, <1>9 DEF Parts

\* A new connection starts with nothing on its way.
LEMMA ConnectKeeps ==
    ASSUME AdmissionInv, Connect
    PROVE  Parts'
  <1>1. /\ step = "idle" /\ step' = "admit" /\ gate' = FALSE
        /\ toBoard' = "none" /\ toHost' = <<>> /\ reason' = "none"
        /\ UNCHANGED <<fixed, claim, subscribed, blocked>>
    BY DEF Connect
  <1>2. claim = "none" /\ subscribed = FALSE
    BY <1>1 DEF AdmissionInv, HandshakeTypeOK, ClaimInSession, AudioInSession, InSession
  <1>3. (NotesTrue /\ GotTrue /\ ReasonTrue /\ GateTrue)'
    BY <1>1 DEF NotesTrue, GotTrue, ReasonTrue, GateTrue, Command
  <1>4. (AskedByToken /\ StatusAfterRefusal /\ ClaimInSession /\ AudioInSession)'
    BY <1>1, <1>2 DEF AskedByToken, StatusAfterRefusal, ClaimInSession, AudioInSession, InSession
  <1>5. (ClaimIsTrue /\ RefusalIsReal)'
    BY <1>1, <1>2 DEF AdmissionInv, ClaimIsTrue, RefusalIsReal, fixed
  <1> QED BY <1>3, <1>4, <1>5 DEF Parts

\* A failed command says nothing about the board.
LEMMA CommandFailsKeeps ==
    ASSUME AdmissionInv, CommandFails
    PROVE  Parts'
  <1>1. /\ got' = "err"
        /\ UNCHANGED <<fixed, gate, toBoard, toHost, reason, step, claim, subscribed, blocked>>
    BY DEF CommandFails, boardVars, session
  <1>2. NotesTrue'
    BY <1>1, TellsKept DEF AdmissionInv, NotesTrue
  <1>3. GotTrue'
    BY <1>1 DEF GotTrue, Tells
  <1>4. (ReasonTrue /\ GateTrue /\ AskedByToken /\ StatusAfterRefusal /\ ClaimInSession
           /\ AudioInSession)'
    BY <1>1 DEF AdmissionInv, ReasonTrue, GateTrue, AskedByToken, StatusAfterRefusal,
                ClaimInSession, AudioInSession, fixed
  <1>5. (ClaimIsTrue /\ RefusalIsReal)'
    BY <1>1 DEF AdmissionInv, ClaimIsTrue, RefusalIsReal, fixed
  <1> QED BY <1>2, <1>3, <1>4, <1>5 DEF Parts

\* Within a session a step goes on in it.
LEMMA SessionGoesOn ==
    ASSUME AdmissionInv, step \in InSession, step' \in InSession,
           subscribed' => step' # "audio",
           UNCHANGED <<fixed, link, boardVars, toHost, session, claim, blocked>>
    PROVE  Parts'
  <1>1. UNCHANGED <<fixed, gate, toBoard, toHost, reason, claim, blocked>>
    BY DEF boardVars, session
  <1>2. NotesTrue'
    BY <1>1, TellsKept DEF AdmissionInv, NotesTrue
  <1>3. (GotTrue /\ ReasonTrue /\ GateTrue /\ AskedByToken /\ StatusAfterRefusal)'
    BY <1>1 DEF AdmissionInv, GotTrue, ReasonTrue, GateTrue, AskedByToken, StatusAfterRefusal,
                InSession, Command, fixed
  <1>4. (ClaimInSession /\ AudioInSession)'
    BY <1>1 DEF AdmissionInv, ClaimInSession, AudioInSession
  <1>5. (ClaimIsTrue /\ RefusalIsReal)'
    BY <1>1 DEF AdmissionInv, ClaimIsTrue, RefusalIsReal, fixed
  <1> QED BY <1>2, <1>3, <1>4, <1>5 DEF Parts

\* The manager's steps.
LEMMA HostKeeps ==
    ASSUME AdmissionInv, HostStep
    PROVE  Parts'
  <1>1. ASSUME Fail PROVE Parts'
    BY <1>1, GiveUpKeeps DEF Fail
  <1>2. ASSUME Refused, board = "other", token PROVE Parts'
    BY <1>2, GiveUpKeeps DEF Refused
  <1>3. step \in Command => Tells(step, got)
    BY DEF AdmissionInv, GotTrue
  <1>4. CASE Admit
    BY <1>4, <1>1, AskKeeps DEF Admit, Command, InSession
  <1>5. CASE IdentityMatches
    <2>1. token /\ board = "own" /\ gate
      BY <1>5, <1>3 DEF IdentityMatches, Tells, Command
    <2> QED BY <1>5, <2>1, <1>1, AcceptKeeps DEF IdentityMatches, InSession
  <1>6. CASE IdentityRefused
    <2>1. board \in {"other", "unbound"} /\ token
      BY <1>6, <1>3 DEF IdentityRefused, Tells, Command
    <2>2. reason = "bound" => board = "other"
      BY <2>1 DEF AdmissionInv, ReasonTrue, Bound
    <2> QED BY <1>6, <2>1, <2>2, <1>1, <1>2, AskKeeps DEF IdentityRefused, Command, InSession
  <1>7. CASE IdentityMalformed
    BY <1>7, <1>1 DEF IdentityMalformed
  <1>8. CASE IdentityUnanswered
    <2>1. token
      BY <1>8 DEF AdmissionInv, AskedByToken, IdentityUnanswered
    <2> QED BY <1>8, <2>1, <1>1, AskKeeps DEF IdentityUnanswered, Command, InSession
  <1>9. CASE StatusDone
    <2>1. token /\ board \in {"other", "unbound"}
      BY <1>9 DEF AdmissionInv, AskedByToken, StatusAfterRefusal, StatusDone
    <2>2. reason = "bound" => board = "other"
      BY <2>1 DEF AdmissionInv, ReasonTrue, Bound
    <2>3. got # "bound" /\ (got = "unbound" => board = "unbound")
      BY <1>9, <1>3, <2>1 DEF StatusDone, Tells, Command
    <2> QED BY <1>9, <2>1, <2>2, <2>3, <1>1, <1>2, AcceptKeeps DEF StatusDone, InSession
  <1>10. CASE CapsDone
    <2>1. token /\ (got = "plain" => board \in Legacy)
      BY <1>10, <1>3 DEF AdmissionInv, AskedByToken, CapsDone, Tells, Command
    <2> QED BY <1>10, <2>1, <1>1, AskKeeps, AcceptKeeps DEF CapsDone, Command, InSession
  <1>11. CASE InfoDone
    <2>1. got = "old" => board \in Legacy
      BY <1>11, <1>3 DEF InfoDone, Tells, Command
    <2>2. got = "new" => board \notin Legacy /\ (board \in Bound => gate)
      BY <1>11, <1>3 DEF InfoDone, Tells, Command, Bound, Legacy
    <2>3. gate => token
      BY DEF AdmissionInv, GateTrue
    <2>4. \A b \in Legacy : b \notin Bound
      BY DEF Legacy, Bound
    <2> QED BY <1>11, <2>1, <2>2, <2>3, <2>4, <1>1, AcceptKeeps DEF InfoDone, InSession
  <1>12. CASE SubscribeAudio
    BY <1>12, SessionGoesOn DEF SubscribeAudio, InSession
  <1>13. CASE SubscribeFails
    <2>1. /\ step = "audio" /\ step' = "idle" /\ claim' = "none" /\ toBoard' = "none"
          /\ UNCHANGED <<fixed, gate, toHost, reason, subscribed, blocked>>
      BY <1>13 DEF SubscribeFails
    <2>2. NotesTrue'
      BY <2>1, TellsKept DEF AdmissionInv, NotesTrue
    <2>3. (GotTrue /\ ReasonTrue /\ GateTrue /\ AskedByToken /\ StatusAfterRefusal)'
      BY <2>1 DEF AdmissionInv, GotTrue, ReasonTrue, GateTrue, AskedByToken, StatusAfterRefusal,
                  Command, fixed
    <2>4. (ClaimInSession /\ AudioInSession)'
      BY <2>1 DEF AdmissionInv, ClaimInSession, AudioInSession, InSession
    <2>5. (ClaimIsTrue /\ RefusalIsReal)'
      BY <2>1 DEF AdmissionInv, ClaimIsTrue, RefusalIsReal, fixed
    <2> QED BY <2>2, <2>3, <2>4, <2>5 DEF Parts
  <1>14. CASE Verdict
    BY <1>14, <1>1, SessionGoesOn DEF Verdict, InSession
  <1>15. CASE Publish
    BY <1>15, <1>1, SessionGoesOn DEF Publish, InSession
  <1>16. CASE SessionEnds
    BY <1>16, <1>1 DEF SessionEnds
  <1> QED
    BY <1>4, <1>5, <1>6, <1>7, <1>8, <1>9, <1>10, <1>11, <1>12, <1>13, <1>14, <1>15, <1>16
       DEF HostStep

-----------------------------------------------------------------------------
(* The theorems                                                            *)

\* Nothing is known, asked or concluded before the first attempt.
LEMMA InitHolds ==
    ASSUME HandshakeInit
    PROVE  AdmissionInv
  <1>1. /\ board \in Board /\ token \in BOOLEAN
        /\ link \in BOOLEAN /\ gate \in BOOLEAN /\ closing \in BOOLEAN
        /\ running \in BOOLEAN /\ retried \in BOOLEAN
        /\ subscribed \in BOOLEAN /\ blocked \in BOOLEAN
    BY Zenon DEF HandshakeInit
  <1>2. /\ toBoard = "none" /\ toHost = <<>> /\ reason = "none" /\ step = "idle" /\ got = "none"
        /\ claim = "none" /\ faults = 0
    BY DEF HandshakeInit
  <1>3. toHost \in Seq(Notes) /\ faults \in 0..MaxFaults
    BY <1>2, FaultAssumption
  <1>4. HandshakeTypeOK
    BY <1>1, <1>2, <1>3 DEF HandshakeTypeOK
  <1>5. ~gate /\ ~subscribed /\ ~blocked
    BY DEF HandshakeInit
  <1>6. NotesTrue /\ GotTrue /\ ReasonTrue /\ GateTrue
    BY <1>2, <1>5 DEF NotesTrue, GotTrue, ReasonTrue, GateTrue, Command
  <1>7. AskedByToken /\ StatusAfterRefusal /\ ClaimInSession /\ AudioInSession
    BY <1>2, <1>5 DEF AskedByToken, StatusAfterRefusal, ClaimInSession, AudioInSession, InSession
  <1>8. ClaimIsTrue /\ RefusalIsReal
    BY <1>2, <1>5 DEF ClaimIsTrue, RefusalIsReal
  <1> QED BY <1>4, <1>6, <1>7, <1>8 DEF AdmissionInv

\* Every step keeps the parts of the invariant.
LEMMA PartsStep ==
    ASSUME AdmissionInv, [HandshakeNext]_handshakeVars
    PROVE  Parts'
  <1>1. CASE Handle
    BY <1>1, HandleKeeps
  <1>2. CASE GateExpires
    BY <1>2, AnnounceKeeps DEF GateExpires
  <1>3. CASE Sleeps
    BY <1>3, AnnounceKeeps DEF Sleeps
  <1>4. CASE BoardCloses \/ LinkLost \/ CommandLost \/ NoteLost \/ NoteGarbled \/ SessionLost
    BY <1>4, LossKeeps
  <1>5. CASE Deliver
    BY <1>5, DeliverKeeps
  <1>6. CASE CommandFails
    BY <1>6, CommandFailsKeeps
  <1>7. CASE Connect
    BY <1>7, ConnectKeeps
  <1>8. CASE HostStep
    BY <1>8, HostKeeps
  <1>9. CASE UNCHANGED handshakeVars
    <2>1. UNCHANGED <<fixed, admission, gate, toHost, toBoard, reason>>
      BY <1>9 DEF handshakeVars, boardVars, session
    <2>2. NotesTrue'
      BY <2>1, TellsKept DEF AdmissionInv, NotesTrue
    <2>3. ReasonTrue' /\ GateTrue'
      BY <2>1 DEF AdmissionInv, ReasonTrue, GateTrue, fixed
    <2> QED BY <2>1, <2>2, <2>3, OutsideKeeps
  <1> QED
    BY <1>1, <1>2, <1>3, <1>4, <1>5, <1>6, <1>7, <1>8, <1>9 DEF HandshakeNext, BoardStep

\* AdmissionInv holds in every state that can be reached: a value on its way,
\* a result, a gate and a conclusion all follow from the board itself.
THEOREM AdmissionInvariant == HandshakeSpec => []AdmissionInv
  <1>1. HandshakeInit => AdmissionInv
    BY InitHolds
  <1>2. AdmissionInv /\ [HandshakeNext]_handshakeVars => AdmissionInv'
    <2> SUFFICES ASSUME AdmissionInv, [HandshakeNext]_handshakeVars PROVE AdmissionInv'
      OBVIOUS
    <2>1. HandshakeTypeOK'
      BY TypeStep DEF AdmissionInv
    <2>2. Parts'
      BY PartsStep
    <2> QED BY <2>1, <2>2 DEF AdmissionInv, Parts
  <1> QED BY <1>1, <1>2, PTL DEF HandshakeSpec

\* The variables of admission keep their types.
THEOREM HandshakeTypeCorrect == HandshakeSpec => []HandshakeTypeOK
  <1>1. AdmissionInv => HandshakeTypeOK
    BY DEF AdmissionInv
  <1> QED BY <1>1, AdmissionInvariant, PTL

\* What verify_identity and probe_device conclude is true of the board: a
\* board of 1.75 that is bound is admitted by a matching identity alone, and
\* silence never passes for old firmware, however many packets are lost.
THEOREM ClaimAlwaysTrue == HandshakeSpec => []ClaimIsTrue
  <1>1. AdmissionInv => ClaimIsTrue
    BY DEF AdmissionInv
  <1> QED BY <1>1, AdmissionInvariant, PTL

\* run_ble_session blocks a board only if another host really owns it.
THEOREM RefusalAlwaysReal == HandshakeSpec => []RefusalIsReal
  <1>1. AdmissionInv => RefusalIsReal
    BY DEF AdmissionInv
  <1> QED BY <1>1, AdmissionInvariant, PTL

\* admit subscribes audio only after the identity, with the gate open if the
\* board has one.
THEOREM AudioAlwaysAfterIdentity == HandshakeSpec => []AudioAfterIdentity
  <1>1. AdmissionInv => AudioAfterIdentity
    <2> SUFFICES ASSUME AdmissionInv, subscribed PROVE claim # "none" /\ (board \in Bound => gate)
      BY DEF AudioAfterIdentity
    <2>1. claim # "none"
      BY DEF AdmissionInv, AudioInSession, ClaimInSession
    <2>2. claim \in {"Verified", "Unbound", "Legacy"} /\ ClaimIsTrue
      BY <2>1 DEF AdmissionInv, HandshakeTypeOK
    <2>3. board \in Bound => claim = "Verified"
      BY <2>2 DEF ClaimIsTrue, Bound, Legacy
    <2>4. claim = "Verified" => gate
      BY <2>2 DEF ClaimIsTrue
    <2> QED BY <2>1, <2>3, <2>4
  <1> QED BY <1>1, AdmissionInvariant, PTL

-----------------------------------------------------------------------------
(* Dfu                                                                     *)
(*                                                                         *)
(* What END finds was decided long before it.  An answer that is taken     *)
(* while it is the only thing under way says that every packet before it   *)
(* was accepted: so START found the length declared, DATA an empty stage,  *)
(* and each DATA packet was appended once at least.  A repeated one makes  *)
(* the stage too long, and stays in it.                                    *)

Wired == {Prepare(Chunks), Prepare(RecoveryLength), Start, End("commit"), End("discard")}
           \cup {Data(i) : i \in 1 .. Chunks}

Sends == {"prepare", "start", "data", "end", "reset", "reset_end"}

DfuTyped ==
    /\ mode \in {"normal", "dfu", "boot", "off"} /\ next \in {"normal", "dfu"}
    /\ declared \in {Nobody, Chunks, RecoveryLength} /\ accepting \in BOOLEAN
    /\ staged \in Seq(1 .. Chunks) /\ image \in Seq(0 .. Chunks)
    /\ sent \in Seq(Wired) /\ answers \in Seq(BOOLEAN)
    /\ hid \in Asker \cup {Nobody}
    /\ at \in Sends \cup {"none", "wait", "reboot", "reset_done"}
    /\ awaiting \in BOOLEAN /\ tries \in Nat /\ offset \in 0 .. Chunks
    /\ slot \in Upgrade \cup {Nobody}
    /\ stale \in BOOLEAN /\ understood \in BOOLEAN

JobOK ==
    /\ hid = Nobody <=> at = "none"
    /\ awaiting => at \in Sends
    /\ tries < DataTries
    /\ at \in {"wait", "prepare", "start"} => offset = 0
    /\ at = "data" => offset < Chunks
    /\ at = "end" => offset = Chunks

\* A board that left DFU mode in the middle of a job does not come back in it.
AwayOK ==
    /\ mode # "dfu" => sent = <<>> /\ staged = <<>> /\ declared = Nobody
    /\ at \notin {"none", "wait"} => mode = "dfu" \/ next = "normal"

\* A DATA packet is sent DataTries times at most, so the stage is never as long
\* as what the recovery sequence declares.
StageOK ==
    /\ Len(staged) <= DataTries * Chunks
    /\ \A j \in 1 .. Len(sent) :
          sent[j].flag = "data" => Len(staged) + j <= DataTries * Chunks

AnsweredNo == \E m \in 1 .. Len(answers) : answers[m] = FALSE

\* The packets of this step that are answered were accepted, or one is not.
Announced(length) ==
    awaiting => \/ sent # <<>> /\ sent[Len(sent)] = Prepare(length)
                \/ sent = <<>> /\ declared = length
                \/ AnsweredNo

StartOK ==
    /\ declared = Chunks
    /\ \A j \in 1 .. Len(sent) : sent[j] = Start
    /\ awaiting => sent # <<>> \/ AnsweredNo \/ staged = <<>>

\* The first a packets of s hold 1 to n in order, and more if a repeated one.
Covers(s, a, n) == a >= n /\ (a = n => \A i \in 1 .. n : s[i] = i)

DataOK ==
    /\ declared = Chunks
    /\ \A j \in 1 .. Len(sent) : sent[j] = Data(offset + 1)
    /\ Len(staged) + Len(sent) <= DataTries * offset + tries + (IF awaiting THEN 1 ELSE 0)
    /\ \E a \in 0 .. Len(staged) :
          /\ Covers(staged, a, offset)
          /\ \A m \in a + 1 .. Len(staged) : staged[m] = offset + 1
          /\ awaiting => sent # <<>> \/ AnsweredNo \/ a < Len(staged)

Whole(s) == Len(s) = Chunks => s = Firmware

EndOK == ~awaiting => sent = <<>> /\ declared = Chunks /\ Whole(staged)

ResetEndOK == ~awaiting /\ understood => sent = <<>> /\ declared = RecoveryLength

StepOK ==
    /\ at = "prepare" => Announced(Chunks)
    /\ at = "start" => StartOK
    /\ at = "data" => DataOK
    /\ at = "end" => EndOK
    /\ at = "reset" => Announced(RecoveryLength)
    /\ at = "reset_end" => ResetEndOK

\* An END that is under way finds what its sender saw, whoever comes after.
EndsOK ==
    \A j \in 1 .. Len(sent) :
        /\ sent[j] = End("commit") => j = 1 /\ declared \in {Chunks, Nobody} /\ Whole(staged)
        /\ sent[j] = End("discard") /\ understood
             => j = 1 /\ declared \in {RecoveryLength, Nobody}

TransferOK == ~stale => StageOK /\ (mode = "dfu" => StepOK) /\ EndsOK

DfuInv == DfuTyped /\ JobOK /\ AwayOK /\ TransferOK
-----------------------------------------------------------------------------
(* Steps that leave the wire and the board alone.                          *)

LEMMA DfuStarts == DfuInit => DfuInv
  <1> SUFFICES ASSUME DfuInit PROVE DfuInv
    OBVIOUS
  <1>1. DfuTyped
    <2>1. <<0>> \in Seq(0 .. Chunks)
      BY DfuLengths
    <2>2. <<>> \in Seq(1 .. Chunks) /\ <<>> \in Seq(Wired) /\ <<>> \in Seq(BOOLEAN)
      OBVIOUS
    <2>3. 0 \in 0 .. Chunks
      BY DfuLengths
    <2> QED BY <2>1, <2>2, <2>3 DEF DfuInit, DfuTyped, OldImage, Sends
  <1>2. JobOK
    BY DEF DfuInit, JobOK, DataTries
  <1>3. AwayOK
    BY DEF DfuInit, AwayOK
  <1>4. TransferOK
    <2>1. StageOK
      BY DfuLengths DEF DfuInit, StageOK, DataTries
    <2>2. EndsOK
      BY DEF DfuInit, EndsOK
    <2> QED BY <2>1, <2>2 DEF DfuInit, TransferOK
  <1> QED BY <1>1, <1>2, <1>3, <1>4 DEF DfuInv

\* A job at a step that promises nothing yet.
AtRest ==
    \/ at \in {"none", "wait", "reboot", "reset_done"}
    \/ at \in {"prepare", "reset"} /\ ~awaiting

LEMMA AtRestIsFine == AtRest => StepOK
  BY DEF AtRest, StepOK, Announced

\* The board and what is on its way to it stay as they are.
LEMMA TransferKept ==
  ASSUME TransferOK, UNCHANGED <<declared, staged, sent, understood>>, stale \/ stale' \/ stale' = stale,
         stale => stale', AtRest' \/ mode' # "dfu"
  PROVE  TransferOK'
  <1> SUFFICES ASSUME ~stale' PROVE StageOK' /\ (mode' = "dfu" => StepOK') /\ EndsOK'
    BY DEF TransferOK
  <1>1. StageOK /\ EndsOK
    BY DEF TransferOK
  <1>2. StageOK'
    BY <1>1 DEF StageOK
  <1>3. EndsOK'
    BY <1>1 DEF EndsOK, Whole
  <1>4. mode' = "dfu" => StepOK'
    <2>1. AtRest' => StepOK'
      BY AtRestIsFine, PTL
    <2> QED BY <2>1
  <1> QED BY <1>2, <1>3, <1>4

\* Nothing that the invariant speaks of changes but the calls.
LEMMA OnlyCalls ==
  ASSUME DfuInv, UNCHANGED <<boardState, wire, job, stale, understood>>, slot' \in Upgrade \cup {Nobody}
  PROVE  DfuInv'
  <1> USE DEF boardState, wire, job
  <1>1. DfuTyped'
    BY DEF DfuInv, DfuTyped
  <1>2. JobOK'
    BY DEF DfuInv, JobOK
  <1>3. AwayOK'
    BY DEF DfuInv, AwayOK
  <1>4. TransferOK'
    BY DEF DfuInv, TransferOK, StageOK, StepOK, EndsOK, Announced, StartOK, DataOK, EndOK, ResetEndOK,
           AnsweredNo, Whole, Covers
  <1> QED BY <1>1, <1>2, <1>3, <1>4 DEF DfuInv

LEMMA CallsAreQuiet ==
  ASSUME DfuInv,
         \/ \E u \in Upgrade : StartUpgrade(u)
         \/ \E r \in Rescue : StartRescue(r) \/ PollRescue(r)
         \/ CancelUpgrade \/ BoardNoticed
  PROVE  DfuInv'
  <1>1. UNCHANGED <<boardState, wire, job, stale, understood>>
    BY DEF StartUpgrade, StartRescue, PollRescue, CancelUpgrade, BoardNoticed, history
  <1>2. slot' \in Upgrade \cup {Nobody}
    BY DEF StartUpgrade, StartRescue, PollRescue, CancelUpgrade, BoardNoticed, DfuInv, DfuTyped
  <1> QED BY <1>1, <1>2, OnlyCalls

LEMMA FinishIsTyped ==
  ASSUME NEW how, DfuInv, Finish(how)
  PROVE  /\ at' = "none" /\ awaiting' = FALSE /\ hid' = Nobody
         /\ slot' \in Upgrade \cup {Nobody}
         /\ UNCHANGED <<tries, offset, delivered>>
  BY DEF Finish, DfuInv, DfuTyped

LEMMA FinishEndsWell ==
  ASSUME NEW how, DfuInv, Finish(how), UNCHANGED <<boardState, wire, stale, understood>>
  PROVE  DfuInv'
  <1> USE DEF boardState, wire
  <1>1. /\ at' = "none" /\ awaiting' = FALSE /\ hid' = Nobody
        /\ slot' \in Upgrade \cup {Nobody}
        /\ UNCHANGED <<tries, offset, delivered>>
    BY FinishIsTyped
  <1>2. DfuTyped'
    BY <1>1 DEF DfuInv, DfuTyped
  <1>3. JobOK'
    BY <1>1 DEF DfuInv, JobOK, Sends
  <1>4. AwayOK'
    BY <1>1 DEF DfuInv, AwayOK
  <1>5. TransferOK'
    BY <1>1, TransferKept DEF DfuInv, AtRest
  <1> QED BY <1>2, <1>3, <1>4, <1>5 DEF DfuInv

LEMMA JobsEnd ==
  ASSUME DfuInv, WaitCancelled \/ WaitTimesOut \/ RebootAwaited \/ ResetDone \/ RescueSent
  PROVE  DfuInv'
  <1>1. CASE WaitCancelled \/ WaitTimesOut \/ RebootAwaited \/ ResetDone
    BY <1>1, FinishEndsWell DEF WaitCancelled, WaitTimesOut, RebootAwaited, ResetDone, history
  <1>2. ASSUME RescueSent, ~delivered PROVE DfuInv'
    BY <1>2, FinishEndsWell DEF RescueSent, history
  <1>3. ASSUME RescueSent, delivered PROVE DfuInv'
    <2>1. /\ hid' = Nobody /\ at' = "none" /\ at = "reset_done"
          /\ UNCHANGED <<boardState, wire, history, awaiting, tries, offset, delivered, slot>>
      BY <1>3 DEF RescueSent
    <2>2. ~awaiting
      BY <2>1 DEF DfuInv, JobOK, Sends
    <2> USE DEF boardState, wire, history
    <2>3. DfuTyped'
      BY <2>1 DEF DfuInv, DfuTyped
    <2>4. JobOK'
      BY <2>1, <2>2 DEF DfuInv, JobOK
    <2>5. AwayOK'
      BY <2>1 DEF DfuInv, AwayOK
    <2>6. TransferOK'
      BY <2>1, TransferKept DEF DfuInv, AtRest
    <2> QED BY <2>3, <2>4, <2>5, <2>6 DEF DfuInv
  <1> QED BY <1>1, <1>2, <1>3

\* OpenBoard, and the beginning of either job.
LEMMA JobsBegin ==
  ASSUME DfuInv, OpenBoard \/ (\E u \in Upgrade : RunUpgrade(u)) \/ (\E r \in Rescue : RunRescue(r))
  PROVE  DfuInv'
  <1> USE DEF boardState, wire, history
  <1>1. CASE OpenBoard
    <2>1. /\ at = "wait" /\ at' = "prepare" /\ tries' = 0 /\ awaiting' = FALSE /\ answers' = <<>>
          /\ mode = "dfu"
          /\ UNCHANGED <<boardState, sent, hid, offset, delivered, slot, history>>
      BY <1>1 DEF OpenBoard, GoTo, calls
    <2>2. DfuTyped'
      <3>1. <<>> \in Seq(BOOLEAN)
        OBVIOUS
      <3> QED BY <2>1, <3>1 DEF DfuInv, DfuTyped, Sends
    <2>3. JobOK'
      BY <2>1 DEF DfuInv, JobOK, Sends, DataTries
    <2>4. AwayOK'
      BY <2>1 DEF DfuInv, AwayOK
    <2>5. TransferOK'
      BY <2>1, TransferKept DEF DfuInv, AtRest
    <2> QED BY <2>2, <2>3, <2>4, <2>5 DEF DfuInv
  <1>2. ASSUME NEW u \in Upgrade, RunUpgrade(u) PROVE DfuInv'
    <2>1. /\ at' = "wait" /\ hid' = u /\ tries' = 0 /\ awaiting' = FALSE /\ offset' = 0
          /\ UNCHANGED <<boardState, wire, slot, history>>
      BY <1>2 DEF RunUpgrade, Begin
    <2>2. u \in Asker /\ u # Nobody
      BY DfuCallers DEF Asker
    <2>3. DfuTyped'
      <3>1. 0 \in 0 .. Chunks
        BY DfuLengths
      <3> QED BY <2>1, <2>2, <3>1 DEF DfuInv, DfuTyped, Sends
    <2>4. JobOK'
      BY <2>1, <2>2 DEF DfuInv, JobOK, Sends, DataTries
    <2>5. AwayOK'
      BY <2>1 DEF DfuInv, AwayOK
    <2>6. TransferOK'
      BY <2>1, TransferKept DEF DfuInv, AtRest
    <2> QED BY <2>3, <2>4, <2>5, <2>6 DEF DfuInv
  <1>3. ASSUME NEW r \in Rescue, RunRescue(r) PROVE DfuInv'
    <2>1. CASE UNCHANGED <<answers, job>>
      BY <1>3, <2>1, OnlyCalls DEF RunRescue, DfuInv, DfuTyped
    <2>2. CASE mode = "dfu" /\ Begin(r, "reset") /\ answers' = <<>>
      <3>1. /\ at' = "reset" /\ hid' = r /\ tries' = 0 /\ awaiting' = FALSE /\ offset' = 0
            /\ mode = "dfu" /\ answers' = <<>>
            /\ UNCHANGED <<boardState, sent, slot, stale, understood>>
        BY <1>3, <2>2 DEF RunRescue, Begin
      <3>2. r \in Asker /\ r # Nobody
        BY DfuCallers DEF Asker
      <3>3. DfuTyped'
        <4>1. <<>> \in Seq(BOOLEAN)
          OBVIOUS
        <4>2. 0 \in 0 .. Chunks
          BY DfuLengths
        <4> QED BY <3>1, <3>2, <4>1, <4>2 DEF DfuInv, DfuTyped, Sends
      <3>4. JobOK'
        BY <3>1, <3>2 DEF DfuInv, JobOK, Sends, DataTries
      <3>5. AwayOK'
        BY <3>1 DEF DfuInv, AwayOK
      <3>6. TransferOK'
        BY <3>1, TransferKept DEF DfuInv, AtRest
      <3> QED BY <3>3, <3>4, <3>5, <3>6 DEF DfuInv
    <2> QED BY <1>3, <2>1, <2>2 DEF RunRescue
  <1> QED BY <1>1, <1>2, <1>3

LEMMA HostDiesKeeps ==
  ASSUME DfuInv, HostDies
  PROVE  DfuInv'
  <1> USE DEF boardState
  <1>1. /\ hid' = Nobody /\ at' = "none" /\ awaiting' = FALSE /\ slot' = Nobody /\ answers' = <<>>
        /\ UNCHANGED <<boardState, sent, tries, offset, stale, understood>>
    BY DEF HostDies
  <1>2. DfuTyped'
    <2>1. <<>> \in Seq(BOOLEAN)
      OBVIOUS
    <2> QED BY <1>1, <2>1 DEF DfuInv, DfuTyped
  <1>3. JobOK'
    BY <1>1 DEF DfuInv, JobOK, Sends
  <1>4. AwayOK'
    BY <1>1 DEF DfuInv, AwayOK
  <1>5. TransferOK'
    BY <1>1, TransferKept DEF DfuInv, AtRest
  <1> QED BY <1>2, <1>3, <1>4, <1>5 DEF DfuInv

\* The host looks at its flag before the next DATA packet.
LEMMA CancelledKeeps ==
  ASSUME DfuInv, Cancelled
  PROVE  DfuInv'
  <1> USE DEF boardState, wire, history, calls
  <1>1. /\ at = "data" /\ at' = "reset" /\ tries' = 0 /\ awaiting' = FALSE
        /\ UNCHANGED <<boardState, wire, hid, offset, slot, history>>
    BY DEF Cancelled, Reset, GoTo
  <1>2. DfuTyped'
    BY <1>1 DEF DfuInv, DfuTyped, Sends
  <1>3. JobOK'
    BY <1>1 DEF DfuInv, JobOK, Sends, DataTries
  <1>4. AwayOK'
    BY <1>1 DEF DfuInv, AwayOK
  <1>5. TransferOK'
    BY <1>1, TransferKept DEF DfuInv, AtRest
  <1> QED BY <1>2, <1>3, <1>4, <1>5 DEF DfuInv

-----------------------------------------------------------------------------
(* The board goes away and comes back.                                     *)

LEMMA EmptyWire == ASSUME sent = <<>>, staged = <<>>, mode # "dfu" PROVE TransferOK
  <1>1. StageOK
    BY DfuLengths DEF StageOK, DataTries
  <1>2. EndsOK
    BY DEF EndsOK
  <1> QED BY <1>1, <1>2 DEF TransferOK

LEMMA BoardGoes ==
  ASSUME DfuInv, Unplug \/ Replug
  PROVE  DfuInv'
  <1> USE DEF boardState, wire, history, job, calls
  <1>1. /\ mode' \in {"off", "boot"} /\ next' \in {"normal", "dfu"} /\ (next' = "normal" \/ next' = next)
        /\ declared' = Nobody /\ accepting' \in BOOLEAN /\ staged' = <<>> /\ sent' = <<>>
        /\ mode = "dfu" => next' = "normal"
        /\ UNCHANGED <<image, answers, hid, at, awaiting, tries, offset, slot, stale, understood>>
    BY DEF Unplug, Replug, DfuInv, DfuTyped, AwayOK
  <1>2. DfuTyped'
    <2>1. <<>> \in Seq(Wired) /\ <<>> \in Seq(1 .. Chunks)
      OBVIOUS
    <2> QED BY <1>1, <2>1 DEF DfuInv, DfuTyped
  <1>3. JobOK'
    BY <1>1 DEF DfuInv, JobOK
  <1>4. AwayOK'
    BY <1>1 DEF DfuInv, AwayOK
  <1>5. TransferOK'
    <2>1. (sent = <<>> /\ staged = <<>> /\ mode # "dfu" => TransferOK)'
      BY EmptyWire, PTL
    <2> QED BY <1>1, <2>1
  <1> QED BY <1>2, <1>3, <1>4, <1>5 DEF DfuInv

LEMMA BoardBootsKeeps ==
  ASSUME DfuInv, BoardBoots
  PROVE  DfuInv'
  <1> USE DEF boardState, wire, history, job, calls
  <1>1. /\ mode = "boot" /\ mode' = next /\ sent = <<>> /\ staged = <<>> /\ declared = Nobody
        /\ UNCHANGED <<next, declared, accepting, staged, image, sent, answers, hid, at, awaiting, tries,
                       offset, slot, stale, understood>>
    BY DEF BoardBoots, DfuInv, AwayOK
  <1>2. DfuTyped'
    BY <1>1 DEF DfuInv, DfuTyped
  <1>3. JobOK'
    BY <1>1 DEF DfuInv, JobOK
  <1>4. AwayOK'
    BY <1>1 DEF DfuInv, AwayOK, DfuTyped
  <1>5. mode' = "dfu" => AtRest'
    BY <1>1 DEF DfuInv, AwayOK, AtRest
  <1>6. TransferOK'
    BY <1>1, <1>5, TransferKept DEF DfuInv
  <1> QED BY <1>2, <1>3, <1>4, <1>6 DEF DfuInv

\* CMD 0xEF finds the thread free: no job is at a step.
LEMMA EnterDfuKeeps ==
  ASSUME DfuInv, NEW u \in Upgrade, EnterDfu(u)
  PROVE  DfuInv'
  <1> USE DEF wire, job
  <1>1. /\ hid = Nobody
        /\ (mode' = "boot" /\ next' = "dfu" /\ mode = "normal") \/ UNCHANGED <<mode, next>>
        /\ UNCHANGED <<declared, accepting, staged, image, sent, answers, hid, at, awaiting, tries, offset,
                       slot, stale, understood>>
    BY DEF EnterDfu
  <1>2. at = "none"
    BY <1>1 DEF DfuInv, JobOK
  <1>3. DfuTyped'
    BY <1>1 DEF DfuInv, DfuTyped
  <1>4. JobOK'
    BY <1>1 DEF DfuInv, JobOK
  <1>5. AwayOK'
    BY <1>1, <1>2 DEF DfuInv, AwayOK
  <1>6. TransferOK'
    BY <1>1, <1>2, TransferKept DEF DfuInv, AtRest
  <1> QED BY <1>3, <1>4, <1>5, <1>6 DEF DfuInv


-----------------------------------------------------------------------------
(* A packet is written.                                                    *)

LEMMA PacketIsWired ==
  ASSUME at \in Sends, offset \in 0 .. Chunks, at = "data" => offset < Chunks
  PROVE  Packet \in Wired
  <1>1. CASE at = "data"
    <2>1. offset + 1 \in 1 .. Chunks
      BY <1>1, DfuLengths
    <2>2. Data(offset + 1) \in {Data(i) : i \in 1 .. Chunks}
      BY <2>1
    <2> QED BY <1>1, <2>2 DEF Packet, Wired
  <1>2. CASE at # "data"
    BY <1>2 DEF Packet, Wired, Sends
  <1> QED BY <1>1, <1>2

LEMMA PacketByStep ==
  ASSUME at \in Sends
  PROVE  /\ at = "prepare" => Packet = Prepare(Chunks)
         /\ at = "start" => Packet = Start
         /\ at = "data" => Packet = Data(offset + 1)
         /\ at = "reset" => Packet = Prepare(RecoveryLength)
         /\ Packet.flag = "data" => at = "data"
         /\ Packet = End("commit") => at = "end"
         /\ Packet = End("discard") => at = "reset_end"
  BY DEF Packet, Sends, Prepare, Start, Data, End

LEMMA Appended ==
  ASSUME NEW S, NEW q \in Seq(S), NEW e \in S
  PROVE  /\ Append(q, e) \in Seq(S) /\ Append(q, e) # <<>>
         /\ Len(Append(q, e)) = Len(q) + 1
         /\ Append(q, e)[Len(q) + 1] = e
         /\ \A j \in 1 .. Len(q) : Append(q, e)[j] = q[j]
         /\ \A j \in 1 .. Len(q) + 1 : j = Len(q) + 1 \/ j \in 1 .. Len(q)
  OBVIOUS

LEMMA WriteKeeps ==
  ASSUME DfuInv, Write
  PROVE  DfuInv'
  <1> USE DEF boardState, calls, history
  <1>1. /\ at \in Sends /\ ~awaiting /\ mode = "dfu"
        /\ sent' = Append(sent, Packet) /\ awaiting' = TRUE
        /\ UNCHANGED <<boardState, answers, hid, at, tries, offset, slot, stale, understood>>
    BY DEF Write, Sending, Sends
  <1>2. Packet \in Wired
    BY <1>1, PacketIsWired DEF DfuInv, DfuTyped, JobOK
  <1>3. sent \in Seq(Wired)
    BY DEF DfuInv, DfuTyped
  <1> DEFINE n == Len(sent)
  <1>4. /\ sent' \in Seq(Wired) /\ sent' # <<>> /\ Len(sent') = n + 1 /\ sent'[n + 1] = Packet
        /\ \A j \in 1 .. n : sent'[j] = sent[j]
        /\ \A j \in 1 .. n + 1 : j = n + 1 \/ j \in 1 .. n
        /\ n \in Nat
    BY <1>1, <1>2, <1>3, Appended
  <1>5. DfuTyped'
    BY <1>1, <1>4 DEF DfuInv, DfuTyped
  <1>6. JobOK'
    BY <1>1 DEF DfuInv, JobOK
  <1>7. AwayOK'
    BY <1>1 DEF DfuInv, AwayOK
  <1>8. TransferOK'
    <2> SUFFICES ASSUME ~stale PROVE StageOK' /\ StepOK' /\ EndsOK'
      BY <1>1 DEF TransferOK
    <2>1. StageOK /\ StepOK /\ EndsOK
      BY <1>1 DEF DfuInv, TransferOK
    <2>2. /\ at = "prepare" => Packet = Prepare(Chunks)
          /\ at = "start" => Packet = Start
          /\ at = "data" => Packet = Data(offset + 1)
          /\ at = "reset" => Packet = Prepare(RecoveryLength)
          /\ Packet.flag = "data" => at = "data"
          /\ Packet = End("commit") => at = "end"
          /\ Packet = End("discard") => at = "reset_end"
      BY <1>1, PacketByStep
    <2>3. StageOK'
      <3>1. Packet.flag = "data" => Len(staged) + (n + 1) <= DataTries * Chunks
        <4> SUFFICES ASSUME Packet.flag = "data" PROVE Len(staged) + (n + 1) <= DataTries * Chunks
          OBVIOUS
        <4>1. at = "data" /\ DataOK
          BY <2>1, <2>2 DEF StepOK
        <4>2. Len(staged) + n <= DataTries * offset + tries
          BY <4>1, <1>1, DfuLengths DEF DataOK, DataTries, DfuInv, DfuTyped
        <4>3. tries < DataTries /\ offset < Chunks
          BY <4>1 DEF DfuInv, JobOK
        <4>4. Len(staged) \in Nat
          BY DEF DfuInv, DfuTyped
        <4> QED BY <4>2, <4>3, <4>4, <1>4, DfuLengths DEF DataTries, DfuInv, DfuTyped
      <3> QED BY <1>1, <1>4, <2>1, <3>1 DEF StageOK
    <2>4. EndsOK'
      <3>1. ASSUME Packet = End("commit") PROVE n = 0 /\ declared = Chunks /\ Whole(staged)
        BY <1>1, <3>1, <2>1, <2>2 DEF StepOK, EndOK
      <3>2. ASSUME Packet = End("discard"), understood PROVE n = 0 /\ declared = RecoveryLength
        BY <1>1, <3>2, <2>1, <2>2 DEF StepOK, ResetEndOK
      <3>3. declared' = declared /\ staged' = staged /\ understood' = understood
        BY <1>1
      <3> QED BY <1>4, <2>1, <3>1, <3>2, <3>3 DEF EndsOK, Whole
    <2>5. at \in {"prepare", "reset"} => StepOK'
      BY <1>1, <1>4, <2>2 DEF StepOK, Announced
    <2>6. at = "start" => StepOK'
      <3> SUFFICES ASSUME at = "start" PROVE StartOK'
        BY <1>1 DEF StepOK
      <3>1. StartOK
        BY <2>1 DEF StepOK
      <3> QED BY <1>1, <1>4, <2>2, <3>1 DEF StartOK
    <2>7. at = "data" => StepOK'
      <3> SUFFICES ASSUME at = "data" PROVE DataOK'
        BY <1>1 DEF StepOK
      <3>1. DataOK
        BY <2>1 DEF StepOK
      <3>2. \A j \in 1 .. Len(sent') : sent'[j] = Data(offset + 1)
        BY <1>4, <2>2, <3>1 DEF DataOK
      <3>3. Len(staged) + Len(sent') <= DataTries * offset + tries + 1
        BY <1>1, <1>4, <3>1, DfuLengths DEF DataOK, DataTries, DfuInv, DfuTyped
      <3>4. PICK a \in 0 .. Len(staged) :
                 Covers(staged, a, offset) /\ \A m \in a + 1 .. Len(staged) : staged[m] = offset + 1
        BY <3>1 DEF DataOK
      <3>5. declared = Chunks
        BY <3>1 DEF DataOK
      <3>6. sent' # <<>>
        BY <1>4
      <3>7. awaiting' = TRUE
        BY <1>1
      <3>8. UNCHANGED <<declared, staged, offset, tries>>
        BY <1>1
      <3> QED BY <3>2, <3>3, <3>4, <3>5, <3>6, <3>7, <3>8 DEF DataOK, Covers
    <2>8. at \in {"end", "reset_end"} => StepOK'
      BY <1>1 DEF StepOK, EndOK, ResetEndOK
    <2> QED BY <1>1, <2>3, <2>4, <2>5, <2>6, <2>7, <2>8 DEF Sends
  <1> QED BY <1>5, <1>6, <1>7, <1>8 DEF DfuInv

-----------------------------------------------------------------------------
(* What a step makes of the answer, or of its absence.                     *)

\* Where an attempt leads, and with which counts.
Leads(heard) ==
    \/ at' = "reset" /\ tries' = 0 /\ offset' = offset
    \/ at = "prepare" /\ heard = "ok" /\ at' = "start" /\ tries' = 0 /\ offset' = offset
    \/ at = "start" /\ heard = "ok" /\ at' = "data" /\ tries' = 0 /\ offset' = offset
    \/ /\ at \in {"prepare", "start", "data"} /\ heard # "ok" /\ at' = at
       /\ tries' = tries + 1 /\ tries + 1 < DataTries /\ offset' = offset
    \/ /\ at = "data" /\ heard = "ok" /\ at' = "data" /\ tries' = 0
       /\ offset' = offset + 1 /\ offset + 1 # Chunks
    \/ /\ at = "data" /\ heard = "ok" /\ at' = "end" /\ tries' = 0
       /\ offset' = offset + 1 /\ offset + 1 = Chunks
    \/ at = "end" /\ at' = "reboot" /\ tries' = 0 /\ offset' = offset
    \/ at = "reset" /\ at' = "reset_end" /\ tries' = 0 /\ offset' = offset
    \/ at = "reset_end" /\ at' = "reset_done" /\ tries' = 0 /\ offset' = offset

LEMMA AttemptLeads ==
  ASSUME DfuInv, at \in Sends, NEW heard \in {"ok", "bad", "silence"}, Attempted(heard)
  PROVE  /\ awaiting' = FALSE /\ UNCHANGED <<hid, slot>>
         /\ understood' = (IF at = "reset" THEN heard = "ok" ELSE understood)
         /\ Leads(heard)
  <1> USE DEF Leads, Attempted, CommandDone, DataDone, GoTo, Reset, Again, calls, CommandTries, DataTries
  <1>0. tries \in Nat
    BY DEF DfuInv, DfuTyped
  <1>1. CASE at = "prepare"
    BY <1>0, <1>1
  <1>2. CASE at = "start"
    BY <1>0, <1>2
  <1>3. CASE at = "data"
    BY <1>0, <1>3
  <1>4. CASE at \in {"end", "reset", "reset_end"}
    BY <1>4
  <1> QED BY <1>1, <1>2, <1>3, <1>4 DEF Sends

LEMMA AttemptKeepsJob ==
  ASSUME DfuInv, at \in Sends, NEW heard \in {"ok", "bad", "silence"}, Attempted(heard)
  PROVE  /\ JobOK'
         /\ at' \in Sends \cup {"reboot", "reset_done"}
         /\ tries' \in Nat /\ offset' \in 0 .. Chunks
  <1>1. /\ offset \in 0 .. Chunks /\ tries \in Nat
        /\ at \in {"prepare", "start"} => offset = 0
        /\ at = "data" => offset < Chunks
        /\ hid # Nobody
    BY DEF DfuInv, DfuTyped, JobOK, Sends
  <1>0. Leads(heard)
    BY AttemptLeads
  <1>2. awaiting' = FALSE /\ hid' = hid
    BY AttemptLeads
  <1>3. tries' \in Nat /\ tries' < DataTries
    BY <1>1, <1>0 DEF Leads, DataTries
  <1>4. at' \in Sends \cup {"reboot", "reset_done"}
    BY <1>0 DEF Leads, Sends
  <1>5. CASE at = "data" /\ heard = "ok" /\ offset' = offset + 1
    <2>1. \/ at' = "data" /\ offset + 1 # Chunks
          \/ at' = "end" /\ offset + 1 = Chunks
          \/ at' = "reset" /\ offset' = offset
      BY <1>5, <1>0 DEF Leads
    <2> QED BY <1>1, <1>2, <1>3, <1>4, <1>5, <2>1, DfuLengths DEF JobOK, Sends
  <1>6. CASE ~(at = "data" /\ heard = "ok" /\ offset' = offset + 1)
    <2>1. offset' = offset
      BY <1>6, <1>0 DEF Leads
    <2>2. at' \in {"wait", "prepare", "start"} => at \in {"prepare", "start"}
      BY <1>0 DEF Leads
    <2>3. at' = "data" => at \in {"start", "data"}
      BY <1>0 DEF Leads
    <2>4. at' # "end"
      BY <1>6, <1>0 DEF Leads, Sends
    <2>5. offset' = 0 => offset' < Chunks
      BY DfuLengths
    <2> QED BY <1>1, <1>2, <1>3, <1>4, <2>1, <2>2, <2>3, <2>4, <2>5 DEF JobOK, Sends
  <1> QED BY <1>5, <1>6

\* The answer that is taken is the only thing under way.
Clear == sent = <<>> /\ awaiting /\ ~AnsweredNo

LEMMA StartedAfresh == ASSUME declared = Chunks, sent = <<>>, staged = <<>>, offset = 0, ~awaiting, tries \in Nat
                       PROVE  DataOK
  <1>1. 0 \in 0 .. Len(staged)
    OBVIOUS
  <1>2. Covers(staged, 0, offset)
    BY DEF Covers
  <1> QED BY <1>1, <1>2, DfuLengths DEF DataOK, DataTries

LEMMA OneMore ==
  ASSUME DataOK, Clear, NEW k, k = offset + 1, offset \in Nat, staged \in Seq(1 .. Chunks)
  PROVE  Covers(staged, Len(staged), k)
  <1>1. PICK a \in 0 .. Len(staged) :
             /\ Covers(staged, a, offset)
             /\ \A m \in a + 1 .. Len(staged) : staged[m] = offset + 1
             /\ a < Len(staged)
    BY DEF DataOK, Clear
  <1>2. Len(staged) \in Nat /\ a \in Nat /\ a >= offset
    BY <1>1 DEF Covers
  <1>3. Len(staged) >= k
    BY <1>1, <1>2
  <1>4. ASSUME Len(staged) = k, NEW i \in 1 .. k PROVE staged[i] = i
    <2>1. a = offset
      BY <1>1, <1>2, <1>4
    <2>2. CASE i = k
      BY <1>1, <1>4, <2>1, <2>2
    <2>3. CASE i # k
      <3>1. i \in 1 .. offset
        BY <2>3, <1>4
      <3> QED BY <3>1, <1>1, <2>1 DEF Covers
    <2> QED BY <2>2, <2>3
  <1> QED BY <1>3, <1>4 DEF Covers

LEMMA CoveredIsWhole ==
  ASSUME Covers(staged, Len(staged), Chunks), staged \in Seq(1 .. Chunks)
  PROVE  Whole(staged)
  <1> SUFFICES ASSUME Len(staged) = Chunks PROVE staged = Firmware
    BY DEF Whole
  <1>1. \A i \in 1 .. Chunks : staged[i] = i
    BY DEF Covers
  <1>2. staged = [i \in 1 .. Len(staged) |-> staged[i]]
    OBVIOUS
  <1> QED BY <1>1, <1>2 DEF Firmware

LEMMA AttemptSteps ==
  ASSUME DfuInv, mode = "dfu", ~stale, at \in Sends, NEW heard \in {"ok", "bad", "silence"}, Attempted(heard),
         heard = "ok" => Clear, UNCHANGED <<declared, staged, sent>>
  PROVE  StepOK'
  <1>1. awaiting' = FALSE
    BY AttemptLeads
  <1>0. Leads(heard)
    BY AttemptLeads
  <1>2. StepOK
    BY DEF DfuInv, TransferOK
  <1>3. /\ offset \in Nat /\ tries \in Nat /\ staged \in Seq(1 .. Chunks) /\ Len(staged) \in Nat
        /\ Len(sent) \in Nat
    BY DfuLengths DEF DfuInv, DfuTyped
  <1>4. CASE at' \in {"prepare", "reset", "reboot", "reset_done"}
    BY <1>1, <1>4 DEF StepOK, Announced
  <1>5. CASE at = "prepare" /\ at' = "start"
    <2>1. heard = "ok"
      BY <1>0, <1>5 DEF Leads
    <2>2. declared = Chunks /\ sent = <<>>
      BY <1>2, <1>5, <2>1 DEF StepOK, Announced, Clear
    <2>3. declared' = Chunks /\ sent' = <<>>
      BY <2>2
    <2>4. StartOK'
      BY <2>3, <1>1 DEF StartOK
    <2> QED BY <1>5, <2>4 DEF StepOK
  <1>6. CASE at = "start" /\ at' = "start"
    <2>1. StartOK
      BY <1>2, <1>6 DEF StepOK
    <2>2. StartOK'
      BY <2>1, <1>1 DEF StartOK
    <2> QED BY <1>6, <2>2 DEF StepOK
  <1>7. CASE at = "start" /\ at' = "data"
    <2>1. heard = "ok" /\ offset' = offset /\ tries' = 0
      BY <1>0, <1>7 DEF Leads
    <2>2. declared = Chunks /\ sent = <<>> /\ staged = <<>> /\ offset = 0
      BY <1>2, <1>7, <2>1 DEF StepOK, StartOK, Clear, DfuInv, JobOK
    <2>3. declared' = Chunks /\ sent' = <<>> /\ staged' = <<>> /\ offset' = 0 /\ ~awaiting' /\ tries' \in Nat
      BY <2>1, <2>2, <1>1
    <2>4. (declared = Chunks /\ sent = <<>> /\ staged = <<>> /\ offset = 0 /\ ~awaiting /\ tries \in Nat
             => DataOK)'
      BY StartedAfresh, PTL
    <2>5. DataOK'
      BY <2>3, <2>4
    <2> QED BY <1>7, <2>5 DEF StepOK
  <1>8. CASE at = "data" /\ at' = "data" /\ heard # "ok"
    <2>1. offset' = offset /\ tries' = tries + 1
      BY <1>0, <1>8, <1>3 DEF Leads
    <2>2. DataOK
      BY <1>2, <1>8 DEF StepOK
    <2>3. PICK a \in 0 .. Len(staged) :
             Covers(staged, a, offset) /\ \A m \in a + 1 .. Len(staged) : staged[m] = offset + 1
      BY <2>2 DEF DataOK
    <2>4. Len(staged) + Len(sent) <= DataTries * offset' + tries'
      BY <2>1, <2>2, <1>3 DEF DataOK, DataTries
    <2>5. declared = Chunks /\ \A j \in 1 .. Len(sent) : sent[j] = Data(offset + 1)
      BY <2>2 DEF DataOK
    <2>7. DataTries * offset' + tries' + 0 = DataTries * offset' + tries'
      BY <2>1, <1>3 DEF DataTries
    <2>6. DataOK'
      BY <2>1, <2>3, <2>4, <2>5, <2>7, <1>1 DEF DataOK, Covers
    <2> QED BY <1>8, <2>6 DEF StepOK
  <1>9. CASE at = "data" /\ at' = "data" /\ heard = "ok"
    <2>1. offset' = offset + 1 /\ tries' = 0
      BY <1>0, <1>9, <1>3 DEF Leads
    <2>2. DataOK /\ Clear
      BY <1>2, <1>9 DEF StepOK
    <2>3. Covers(staged, Len(staged), offset')
      BY <2>1, <2>2, <1>3, OneMore
    <2>4. Len(staged) + Len(sent) <= DataTries * offset + tries + 1
      BY <2>2 DEF DataOK, Clear
    <2>5. tries < DataTries
      BY DEF DfuInv, JobOK
    <2>6. Len(staged) + Len(sent) <= DataTries * offset' + tries' + 0
      BY <2>1, <2>4, <2>5, <1>3 DEF DataTries
    <2>7. sent = <<>> /\ declared = Chunks
      BY <2>2 DEF Clear, DataOK
    <2>8. Len(staged) \in 0 .. Len(staged) /\ (\A m \in Len(staged) + 1 .. Len(staged) : FALSE)
      BY <1>3
    <2>9. DataOK'
      <3>1. declared' = Chunks /\ sent' = <<>> /\ staged' = staged
        BY <2>7
      <3>2. Len(staged') + Len(sent') <= DataTries * offset' + tries' + (IF awaiting' THEN 1 ELSE 0)
        BY <2>6, <1>1
      <3>3. \E a \in 0 .. Len(staged') :
               /\ Covers(staged', a, offset')
               /\ \A m \in a + 1 .. Len(staged') : staged'[m] = offset' + 1
               /\ awaiting' => sent' # <<>> \/ AnsweredNo' \/ a < Len(staged')
        BY <3>1, <2>3, <2>8, <1>1
      <3> QED BY <3>1, <3>2, <3>3 DEF DataOK, Covers
    <2> QED BY <1>9, <2>9 DEF StepOK
  <1>10. CASE at = "data" /\ at' = "end"
    <2>1. offset + 1 = Chunks /\ heard = "ok"
      BY <1>0, <1>10, <1>3 DEF Leads
    <2>2. DataOK /\ Clear
      BY <1>2, <1>10, <2>1 DEF StepOK
    <2>3. Covers(staged, Len(staged), Chunks)
      BY <2>1, <2>2, <1>3, OneMore
    <2>4. Whole(staged) /\ declared = Chunks /\ sent = <<>>
      BY <2>2, <2>3, <1>3, CoveredIsWhole DEF DataOK, Clear
    <2>5. EndOK'
      BY <2>4 DEF EndOK, Whole
    <2> QED BY <1>10, <2>5 DEF StepOK
  <1>11. CASE at = "reset" /\ at' = "reset_end"
    <2>1. understood' = (heard = "ok")
      BY <1>11, AttemptLeads
    <2>2. understood' => declared = RecoveryLength /\ sent = <<>>
      BY <1>2, <1>11, <2>1 DEF StepOK, Announced, Clear
    <2>3. ResetEndOK'
      BY <2>2 DEF ResetEndOK
    <2> QED BY <1>11, <2>3 DEF StepOK
  <1> QED BY <1>0, <1>4, <1>5, <1>6, <1>7, <1>8, <1>9, <1>10, <1>11 DEF Leads

LEMMA AttemptKeeps ==
  ASSUME DfuInv, at \in Sends, NEW heard \in {"ok", "bad", "silence"}, Attempted(heard),
         ~stale' => ~stale /\ (heard = "ok" => Clear), stale' \in BOOLEAN, answers' \in Seq(BOOLEAN),
         UNCHANGED <<boardState, sent>>
  PROVE  DfuInv'
  <1> USE DEF boardState
  <1>1. /\ awaiting' = FALSE /\ UNCHANGED <<hid, slot>>
        /\ understood' = (IF at = "reset" THEN heard = "ok" ELSE understood)
    BY AttemptLeads
  <1>2. /\ JobOK'
        /\ at' \in Sends \cup {"reboot", "reset_done"}
        /\ tries' \in Nat /\ offset' \in 0 .. Chunks
    BY AttemptKeepsJob
  <1>3. DfuTyped'
    BY <1>1, <1>2 DEF DfuInv, DfuTyped
  <1>4. AwayOK'
    BY <1>2 DEF DfuInv, AwayOK, Sends
  <1>5. TransferOK'
    <2> SUFFICES ASSUME ~stale' PROVE StageOK' /\ (mode' = "dfu" => StepOK') /\ EndsOK'
      BY DEF TransferOK
    <2>1. StageOK /\ EndsOK /\ ~stale /\ (heard = "ok" => Clear)
      BY DEF DfuInv, TransferOK
    <2>2. StageOK'
      BY <2>1 DEF StageOK
    <2>3. mode' = "dfu" => StepOK'
      BY <2>1, AttemptSteps
    <2>4. EndsOK'
      <3>1. understood' => understood \/ sent = <<>>
        BY <1>1, <2>1 DEF Clear
      <3>2. UNCHANGED <<declared, staged, sent>>
        OBVIOUS
      <3> QED BY <3>1, <3>2, <2>1 DEF EndsOK, Whole
    <2> QED BY <2>2, <2>3, <2>4
  <1> QED BY <1>2, <1>3, <1>4, <1>5 DEF DfuInv

\* A write that fails and a read that times out say nothing.
LEMMA SilenceKeeps ==
  ASSUME DfuInv, WriteFails \/ ReadTimesOut
  PROVE  DfuInv'
  <1> USE DEF boardState, wire
  <1>1. Attempted("silence") /\ UNCHANGED <<boardState, sent, answers, stale>>
    BY DEF WriteFails, ReadTimesOut
  <1>2. at \in Sends
    BY DEF WriteFails, ReadTimesOut, Sending, Sends, DfuInv, JobOK
  <1>3. stale' \in BOOLEAN /\ answers' \in Seq(BOOLEAN)
    BY <1>1 DEF DfuInv, DfuTyped
  <1> QED BY <1>1, <1>2, <1>3, AttemptKeeps

LEMMA OnlyOne == ASSUME NEW a \in Nat, NEW b \in Nat, a > 0, ~(a + b > 1) PROVE a = 1 /\ b = 0
  OBVIOUS

\* An answer that is the last thing under way is the answer to this packet.
LEMMA AnswerKeeps ==
  ASSUME DfuInv, ReadAnswer
  PROVE  DfuInv'
  <1> USE DEF boardState
  <1> DEFINE heard == IF Head(answers) THEN "ok" ELSE "bad"
  <1>1. awaiting /\ Attempted(heard) /\ UNCHANGED <<boardState, sent>>
    BY DEF ReadAnswer
  <1>7. heard \in {"ok", "bad", "silence"} /\ (heard = "ok" => Head(answers) # FALSE)
    OBVIOUS
  <1> HIDE DEF heard
  <1>2. at \in Sends
    BY <1>1 DEF DfuInv, JobOK
  <1>3. answers # <<>> /\ answers' = Tail(answers)
    BY DEF ReadAnswer
  <1>4. stale' \in BOOLEAN /\ (~stale' => ~stale /\ ~(Len(answers) + Len(sent) > 1))
    BY DEF ReadAnswer
  <1>5. answers \in Seq(BOOLEAN) /\ sent \in Seq(Wired)
    BY DEF DfuInv, DfuTyped
  <1>6. answers' \in Seq(BOOLEAN)
    BY <1>3, <1>5
  <1>8. ASSUME ~stale', heard = "ok" PROVE Clear
    <2>1. Len(answers) \in Nat /\ Len(answers) > 0 /\ Len(sent) \in Nat
      BY <1>3, <1>5
    <2>6. ~(Len(answers) + Len(sent) > 1)
      BY <1>4, <1>8
    <2>2. Len(answers) = 1 /\ Len(sent) = 0
      BY <2>1, <2>6, OnlyOne
    <2>3. sent = <<>> /\ Head(answers) = answers[1]
      BY <2>2, <1>5
    <2>4. Head(answers) # FALSE
      BY <1>7, <1>8
    <2>7. ASSUME NEW m \in 1 .. Len(answers) PROVE answers[m] # FALSE
      <3>1. m = 1
        BY <2>2
      <3> QED BY <2>3, <2>4, <3>1
    <2>5. ~AnsweredNo
      BY <2>7 DEF AnsweredNo
    <2> QED BY <1>1, <2>3, <2>5 DEF Clear
  <1> QED BY <1>1, <1>2, <1>4, <1>6, <1>7, <1>8, AttemptKeeps

-----------------------------------------------------------------------------
(* The board takes a packet.                                               *)

LEMMA TailOf ==
  ASSUME NEW S, NEW q \in Seq(S), q # <<>>
  PROVE  /\ Tail(q) \in Seq(S) /\ Len(Tail(q)) = Len(q) - 1
         /\ Head(q) = q[1] /\ Head(q) \in S /\ Len(q) \in Nat \ {0}
         /\ \A j \in 1 .. Len(Tail(q)) : Tail(q)[j] = q[j + 1] /\ j + 1 \in 1 .. Len(q) /\ j + 1 # 1
         /\ Tail(q) = <<>> <=> Len(q) = 1
  <1>1. Len(q) \in Nat \ {0}
    BY EmptySeq
  <1>2. Tail(q) \in Seq(S) /\ Len(Tail(q)) = Len(q) - 1
    BY <1>1
  <1>3. Tail(q) = <<>> <=> Len(Tail(q)) = 0
    BY <1>2, EmptySeq
  <1> QED BY <1>1, <1>2, <1>3

\* The packet that is taken was refused, or was accepted as what it is.
Takes(packet) ==
    \/ Refuse(FALSE) \/ Refuse(declared = Nobody) \/ Refuse(~accepting)
    \/ packet.flag = "prepare" /\ TakePrepare(packet.arg)
    \/ packet.flag = "start" /\ TakeStart
    \/ packet.flag = "data" /\ TakeData(packet.arg)
    \/ packet.flag = "end" /\ IgnoreEnd

\* What becomes of the board's stage, and what it says.
TakesAs(packet) ==
    \/ AnsweredNo' /\ UNCHANGED <<declared, staged>>
    \/ packet.flag = "prepare" /\ declared' = packet.arg /\ staged' \in {staged, <<>>}
    \/ packet.flag = "start" /\ declared' = declared /\ staged' = <<>>
    \/ packet.flag = "data" /\ declared' = declared /\ staged' = Append(staged, packet.arg)
    \/ packet.flag = "end" /\ UNCHANGED <<declared, staged>>

LEMMA WiredForms ==
  ASSUME NEW p \in Wired
  PROVE  /\ p.flag = "prepare" => p.arg \in {Chunks, RecoveryLength} /\ p = Prepare(p.arg)
         /\ p.flag = "start" => p = Start
         /\ p.flag = "data" => p.arg \in 1 .. Chunks /\ p = Data(p.arg)
         /\ p.flag = "end" => p \in {End("commit"), End("discard")}
  BY DEF Wired, Prepare, Start, Data, End

LEMMA SaidNo ==
  ASSUME answers \in Seq(BOOLEAN), AnsweredNo \/ answers' = Append(answers, FALSE),
         answers' = answers \/ (\E ok \in BOOLEAN : answers' = Append(answers, ok))
  PROVE  AnsweredNo'
  <1>1. Len(answers) \in Nat
    OBVIOUS
  <1>2. CASE AnsweredNo /\ answers' = answers
    BY <1>2 DEF AnsweredNo
  <1>3. ASSUME AnsweredNo, NEW ok \in BOOLEAN, answers' = Append(answers, ok) PROVE AnsweredNo'
    <2>1. PICK m \in 1 .. Len(answers) : answers[m] = FALSE
      BY <1>3 DEF AnsweredNo
    <2>2. m \in 1 .. Len(answers') /\ answers'[m] = FALSE
      BY <1>3, <2>1
    <2> QED BY <2>2 DEF AnsweredNo
  <1>4. CASE answers' = Append(answers, FALSE)
    <2>1. Len(answers) + 1 \in 1 .. Len(answers') /\ answers'[Len(answers) + 1] = FALSE
      BY <1>1, <1>4
    <2> QED BY <2>1 DEF AnsweredNo
  <1> QED BY <1>2, <1>3, <1>4

LEMMA TakesForms ==
  ASSUME DfuInv, NEW packet, Takes(packet)
  PROVE  /\ TakesAs(packet)
         /\ AnsweredNo => AnsweredNo'
         /\ answers' \in Seq(BOOLEAN) /\ accepting' \in BOOLEAN
         /\ UNCHANGED <<mode, next, image>>
  <1> USE DEF boardState
  <1>1. answers \in Seq(BOOLEAN)
    BY DEF DfuInv, DfuTyped
  <1>2. answers' = answers \/ (\E ok \in BOOLEAN : answers' = Append(answers, ok))
    BY DEF Takes, Refuse, TakePrepare, TakeStart, TakeData, IgnoreEnd, Answered
  <1>3. answers' \in Seq(BOOLEAN)
    BY <1>1, <1>2
  <1>4. AnsweredNo => AnsweredNo'
    BY <1>1, <1>2, SaidNo
  <1>5. UNCHANGED <<mode, next, image>> /\ accepting' \in BOOLEAN
    BY DEF Takes, Refuse, TakePrepare, TakeStart, TakeData, IgnoreEnd, DfuInv, DfuTyped
  <1>6. CASE Refuse(FALSE) \/ Refuse(declared = Nobody) \/ Refuse(~accepting)
    <2>1. answers' = Append(answers, FALSE) /\ UNCHANGED <<declared, staged>>
      BY <1>6 DEF Refuse
    <2>2. AnsweredNo'
      BY <2>1, <1>1, <1>2, SaidNo
    <2> QED BY <2>1, <2>2, <1>3, <1>4, <1>5 DEF TakesAs
  <1>7. CASE ~(Refuse(FALSE) \/ Refuse(declared = Nobody) \/ Refuse(~accepting))
    <2>1. TakesAs(packet)
      BY <1>7 DEF Takes, TakesAs, TakePrepare, TakeStart, TakeData, IgnoreEnd
    <2> QED BY <2>1, <1>3, <1>4, <1>5
  <1> QED BY <1>6, <1>7

LEMMA TakesStage ==
  ASSUME DfuInv, sent # <<>>, TakesAs(Head(sent))
  PROVE  /\ staged' \in Seq(1 .. Chunks) /\ declared' \in {Nobody, Chunks, RecoveryLength}
         /\ Len(staged') <= Len(staged) \/ (Head(sent).flag = "data" /\ Len(staged') = Len(staged) + 1)
         /\ Len(staged) \in Nat /\ Len(staged') \in Nat
  <1> DEFINE p == Head(sent)
  <1>1. sent \in Seq(Wired) /\ staged \in Seq(1 .. Chunks) /\ declared \in {Nobody, Chunks, RecoveryLength}
    BY DEF DfuInv, DfuTyped
  <1>2. p \in Wired
    BY <1>1, TailOf
  <1>3. /\ p.flag = "prepare" => p.arg \in {Chunks, RecoveryLength}
        /\ p.flag = "data" => p.arg \in 1 .. Chunks
    BY <1>2, WiredForms
  <1>4. TakesAs(p)
    OBVIOUS
  <1> HIDE DEF p
  <1>5. Len(staged) \in Nat /\ Len(<<>>) = 0 /\ <<>> \in Seq(1 .. Chunks)
    BY <1>1
  <1>6. CASE staged' = staged \/ staged' = <<>>
    <2>4. ASSUME staged' = staged PROVE staged' \in Seq(1 .. Chunks) /\ Len(staged') <= Len(staged) /\ Len(staged') \in Nat
      <3>1. staged' \in Seq(1 .. Chunks) /\ Len(staged') = Len(staged)
        BY <1>1, <2>4
      <3> QED BY <1>5, <3>1
    <2>5. ASSUME staged' = <<>> PROVE staged' \in Seq(1 .. Chunks) /\ Len(staged') <= Len(staged) /\ Len(staged') \in Nat
      <3>1. staged' \in Seq(1 .. Chunks) /\ Len(staged') = 0
        BY <1>5, <2>5
      <3> QED BY <1>5, <3>1
    <2>1. staged' \in Seq(1 .. Chunks) /\ Len(staged') <= Len(staged) /\ Len(staged') \in Nat
      BY <1>6, <2>4, <2>5
    <2>2. declared' = declared \/ (p.flag = "prepare" /\ declared' = p.arg)
      BY <1>4 DEF TakesAs
    <2>3. declared' \in {Nobody, Chunks, RecoveryLength}
      BY <1>1, <1>3, <2>2
    <2> QED BY <1>5, <2>1, <2>3
  <1>7. CASE p.flag = "data" /\ declared' = declared /\ staged' = Append(staged, p.arg)
    <2>1. p.arg \in 1 .. Chunks
      BY <1>3, <1>7
    <2>2. staged' \in Seq(1 .. Chunks) /\ Len(staged') = Len(staged) + 1
      BY <1>1, <1>7, <2>1
    <2> QED BY <1>1, <1>5, <1>7, <2>2 DEF p
  <1> QED BY <1>4, <1>6, <1>7 DEF TakesAs

\* While the packets of a step are taken, what the step promises stays true.
LEMMA TakesSteps ==
  ASSUME DfuInv, mode = "dfu", ~stale, sent # <<>>, sent' = Tail(sent), TakesAs(Head(sent)),
         AnsweredNo => AnsweredNo', UNCHANGED <<at, awaiting, tries, offset, understood>>
  PROVE  StepOK'
  <1> DEFINE p == Head(sent)
  <1>1. StepOK
    BY DEF DfuInv, TransferOK
  <1>2. sent \in Seq(Wired) /\ staged \in Seq(1 .. Chunks) /\ offset \in Nat /\ tries \in Nat
    BY DfuLengths DEF DfuInv, DfuTyped
  <1>3. /\ sent' \in Seq(Wired) /\ Len(sent') = Len(sent) - 1
        /\ p = sent[1] /\ p \in Wired /\ Len(sent) \in Nat \ {0}
        /\ \A j \in 1 .. Len(sent') : sent'[j] = sent[j + 1] /\ j + 1 \in 1 .. Len(sent)
        /\ sent' = <<>> <=> Len(sent) = 1
    BY <1>2, TailOf
  <1>4. TakesAs(p)
    OBVIOUS
  <1> HIDE DEF p
  <1>5. ASSUME NEW n \in {Chunks, RecoveryLength}, Announced(n) PROVE Announced(n)'
    <2> SUFFICES ASSUME awaiting, ~AnsweredNo' PROVE Announced(n)'
      BY DEF Announced
    <2>1. sent[Len(sent)] = Prepare(n)
      BY <1>5 DEF Announced
    <2>2. CASE Len(sent) = 1
      <3>1. p = Prepare(n)
        BY <1>3, <2>1, <2>2
      <3>2. p.flag = "prepare" /\ p.arg = n
        BY <3>1 DEF Prepare
      <3>3. declared' = n
        BY <1>4, <3>2 DEF TakesAs
      <3> QED BY <3>3, <1>3, <2>2 DEF Announced
    <2>3. CASE Len(sent) # 1
      <3>1. Len(sent') \in 1 .. Len(sent') /\ Len(sent') + 1 = Len(sent) /\ sent' # <<>>
        BY <1>3, <2>3
      <3>2. sent'[Len(sent')] = sent[Len(sent') + 1]
        BY <1>3, <3>1
      <3>3. sent'[Len(sent')] = Prepare(n)
        BY <2>1, <3>1, <3>2
      <3> QED BY <3>1, <3>3 DEF Announced
    <2> QED BY <2>2, <2>3
  <1>6. ASSUME at = "start" PROVE StartOK'
    <2>1. StartOK
      BY <1>1, <1>6 DEF StepOK
    <2>2. p = Start
      BY <2>1, <1>3 DEF StartOK
    <2>3. p.flag = "start"
      BY <2>2 DEF Start
    <2>4. declared' = declared /\ (staged' = <<>> \/ AnsweredNo')
      BY <1>4, <2>3 DEF TakesAs
    <2>5. \A j \in 1 .. Len(sent') : sent'[j] = Start
      BY <2>1, <1>3 DEF StartOK
    <2>6. declared' = Chunks
      BY <2>1, <2>4 DEF StartOK
    <2> QED BY <2>4, <2>5, <2>6 DEF StartOK
  <1>7. ASSUME at = "data" PROVE DataOK'
    <2>1. DataOK
      BY <1>1, <1>7 DEF StepOK
    <2>2. p = Data(offset + 1)
      BY <2>1, <1>3 DEF DataOK
    <2>3. p.flag = "data" /\ p.arg = offset + 1
      BY <2>2 DEF Data
    <2>4. declared' = Chunks
      BY <1>4, <2>1, <2>3 DEF TakesAs, DataOK
    <2>5. \A j \in 1 .. Len(sent') : sent'[j] = Data(offset + 1)
      BY <2>1, <1>3 DEF DataOK
    <2>6. PICK a \in 0 .. Len(staged) :
               /\ Covers(staged, a, offset)
               /\ \A m \in a + 1 .. Len(staged) : staged[m] = offset + 1
      BY <2>1 DEF DataOK
    <2> DEFINE w == IF awaiting THEN 1 ELSE 0
    <2>7. Len(staged) + Len(sent) <= DataTries * offset + tries + w
      BY <2>1 DEF DataOK
    <2>8. w \in Nat
      OBVIOUS
    <2> HIDE DEF w
    <2>9. CASE staged' = Append(staged, offset + 1)
      <3>0. Len(staged) \in Nat /\ offset + 1 \in Nat
        BY <1>2
      <3>1. /\ Len(staged') = Len(staged) + 1 /\ staged'[Len(staged) + 1] = offset + 1
            /\ \A m \in 1 .. Len(staged) : staged'[m] = staged[m]
        BY <1>2, <2>9
      <3>2. Len(staged') + Len(sent') <= DataTries * offset + tries + w
        BY <3>0, <3>1, <1>2, <1>3, <2>7, <2>8 DEF DataTries
      <3>3. a \in 0 .. Len(staged') /\ a < Len(staged')
        BY <3>0, <3>1
      <3>4. Covers(staged', a, offset)
        <4>1. offset <= a
          BY <2>6 DEF Covers
        <4>2. \A i \in 1 .. offset : i \in 1 .. Len(staged)
          BY <4>1, <3>0, <1>2
        <4> QED BY <4>2, <2>6, <3>1 DEF Covers
      <3>5. \A m \in a + 1 .. Len(staged') : staged'[m] = offset + 1
        BY <3>0, <3>1, <2>6
      <3> QED BY <2>4, <2>5, <3>2, <3>3, <3>4, <3>5 DEF DataOK, w, Covers
    <2>10. CASE AnsweredNo' /\ staged' = staged
      <3>1. Len(staged') + Len(sent') <= DataTries * offset + tries + w
        BY <2>7, <2>8, <2>10, <1>2, <1>3 DEF DataTries
      <3> QED BY <2>4, <2>5, <2>6, <2>10, <3>1 DEF DataOK, w, Covers
    <2> QED BY <1>4, <2>3, <2>9, <2>10 DEF TakesAs
  <1>8. at = "end" => EndOK'
    BY <1>1 DEF StepOK, EndOK
  <1>9. at = "reset_end" => ResetEndOK'
    BY <1>1 DEF StepOK, ResetEndOK
  <1> QED BY <1>1, <1>5, <1>6, <1>7, <1>8, <1>9 DEF StepOK

\* An END that is under way is next: what is behind it is none.
LEMMA TakesEnds ==
  ASSUME EndsOK, sent \in Seq(Wired), sent # <<>>, sent' = Tail(sent), understood' = understood
  PROVE  EndsOK'
  <1>1. \A j \in 1 .. Len(sent') : sent'[j] = sent[j + 1] /\ j + 1 \in 1 .. Len(sent) /\ j + 1 # 1
    BY TailOf
  <1>2. ASSUME NEW j \in 1 .. Len(sent')
        PROVE  sent'[j] # End("commit") /\ ~(sent'[j] = End("discard") /\ understood)
    BY <1>1, <1>2 DEF EndsOK
  <1> QED BY <1>2 DEF EndsOK

LEMMA TakesStages ==
  ASSUME DfuInv, StageOK, sent # <<>>, sent' = Tail(sent), TakesAs(Head(sent))
  PROVE  StageOK'
  <1>1. /\ Len(staged') <= Len(staged) \/ (Head(sent).flag = "data" /\ Len(staged') = Len(staged) + 1)
        /\ Len(staged) \in Nat /\ Len(staged') \in Nat
    BY TakesStage
  <1>2. sent \in Seq(Wired)
    BY DEF DfuInv, DfuTyped
  <1>3. /\ Head(sent) = sent[1] /\ 1 \in 1 .. Len(sent) /\ Len(sent') \in Nat
        /\ \A j \in 1 .. Len(sent') : sent'[j] = sent[j + 1] /\ j + 1 \in 1 .. Len(sent)
    BY <1>2, TailOf
  <1> DEFINE most == DataTries * Chunks
  <1>4. most \in Nat
    BY DfuLengths DEF DataTries
  <1>5. /\ Len(staged) <= most
        /\ \A j \in 1 .. Len(sent) : sent[j].flag = "data" => Len(staged) + j <= most
    BY DEF StageOK
  <1> HIDE DEF most
  <1>6. Len(staged') <= most
    BY <1>1, <1>3, <1>4, <1>5
  <1>7. ASSUME NEW j \in 1 .. Len(sent'), sent'[j].flag = "data" PROVE Len(staged') + j <= most
    <2>1. Len(staged) + (j + 1) <= most
      BY <1>3, <1>5, <1>7
    <2> QED BY <2>1, <1>1, <1>4
  <1> QED BY <1>6, <1>7 DEF StageOK, most

LEMMA TakesKeeps ==
  ASSUME DfuInv, mode = "dfu", sent # <<>>, sent' = Tail(sent), Takes(Head(sent)),
         UNCHANGED <<job, calls, stale, understood>>
  PROVE  DfuInv'
  <1> USE DEF job, calls
  <1>1. /\ TakesAs(Head(sent))
        /\ AnsweredNo => AnsweredNo'
        /\ answers' \in Seq(BOOLEAN) /\ accepting' \in BOOLEAN
        /\ UNCHANGED <<mode, next, image>>
    BY TakesForms
  <1>2. staged' \in Seq(1 .. Chunks) /\ declared' \in {Nobody, Chunks, RecoveryLength}
    BY <1>1, TakesStage
  <1>3. sent \in Seq(Wired) /\ sent' \in Seq(Wired)
    BY TailOf DEF DfuInv, DfuTyped
  <1>4. DfuTyped'
    BY <1>1, <1>2, <1>3 DEF DfuInv, DfuTyped
  <1>5. JobOK'
    BY DEF DfuInv, JobOK
  <1>6. AwayOK'
    BY <1>1 DEF DfuInv, AwayOK
  <1>7. TransferOK'
    <2> SUFFICES ASSUME ~stale PROVE StageOK' /\ StepOK' /\ EndsOK'
      BY DEF TransferOK
    <2>1. StageOK /\ EndsOK
      BY DEF DfuInv, TransferOK
    <2> QED BY <1>1, <1>3, <2>1, TakesStages, TakesSteps, TakesEnds
  <1> QED BY <1>4, <1>5, <1>6, <1>7 DEF DfuInv

\* END restarts the board, with the new image or without.
LEMMA RestartKeeps ==
  ASSUME DfuInv, mode = "dfu", Install \/ Discard, UNCHANGED <<job, calls, stale, understood>>
  PROVE  DfuInv'
  <1> USE DEF job, calls
  <1>1. /\ mode' = "boot" /\ next' = "normal" /\ declared' = Nobody /\ accepting' = FALSE
        /\ staged' = <<>> /\ sent' = <<>>
        /\ answers' \in {answers, Append(answers, TRUE), Append(answers, FALSE)}
        /\ image' \in {image, staged}
    BY DEF Install, Discard, Restart
  <1>2. DfuTyped'
    <2>1. <<>> \in Seq(Wired) /\ <<>> \in Seq(1 .. Chunks)
      OBVIOUS
    <2>5. answers \in Seq(BOOLEAN)
      BY DEF DfuInv, DfuTyped
    <2>6. Append(answers, TRUE) \in Seq(BOOLEAN) /\ Append(answers, FALSE) \in Seq(BOOLEAN)
      BY <2>5
    <2>2. answers' \in Seq(BOOLEAN)
      BY <1>1, <2>5, <2>6
    <2>3. staged \in Seq(0 .. Chunks)
      BY DfuLengths DEF DfuInv, DfuTyped
    <2>4. image' \in Seq(0 .. Chunks)
      BY <1>1, <2>3 DEF DfuInv, DfuTyped
    <2> QED BY <1>1, <2>1, <2>2, <2>4 DEF DfuInv, DfuTyped
  <1>3. JobOK'
    BY DEF DfuInv, JobOK
  <1>4. AwayOK'
    BY <1>1 DEF DfuInv, AwayOK
  <1>5. TransferOK'
    <2>1. (sent = <<>> /\ staged = <<>> /\ mode # "dfu" => TransferOK)'
      BY EmptyWire, PTL
    <2> QED BY <1>1, <2>1
  <1> QED BY <1>2, <1>3, <1>4, <1>5 DEF DfuInv

LEMMA BoardTakesKeeps ==
  ASSUME DfuInv, BoardTakes
  PROVE  DfuInv'
  <1>1. mode = "dfu" /\ sent # <<>> /\ UNCHANGED <<job, calls, stale, understood>>
    BY DEF BoardTakes
  <1>2. CASE sent' = Tail(sent) /\ Takes(Head(sent))
    BY <1>1, <1>2, TakesKeeps
  <1>3. CASE Install \/ Discard
    BY <1>1, <1>3, RestartKeeps
  <1>4. (sent' = Tail(sent) /\ Takes(Head(sent))) \/ Install \/ Discard
    BY DEF BoardTakes, Takes, IgnoreEnd
  <1> QED BY <1>2, <1>3, <1>4

-----------------------------------------------------------------------------
(* The theorem.                                                            *)

LEMMA DfuStep ==
  ASSUME DfuInv, DfuNext
  PROVE  DfuInv'
  <1>1. CASE BoardTakes
    BY <1>1, BoardTakesKeeps
  <1>2. CASE BoardBoots \/ Unplug \/ Replug
    BY <1>2, BoardBootsKeeps, BoardGoes
  <1>3. CASE JobStep
    BY <1>3, JobsEnd, JobsBegin, CancelledKeeps, WriteKeeps, SilenceKeeps, AnswerKeeps DEF JobStep
  <1>4. ASSUME NEW c \in Asker, CallStep(c) PROVE DfuInv'
    <2>1. CASE c \in Upgrade /\ EnterDfu(c)
      BY <2>1, EnterDfuKeeps
    <2>2. CASE c \in Upgrade /\ RunUpgrade(c)
      BY <2>2, JobsBegin
    <2>3. CASE c \in Rescue /\ RunRescue(c)
      BY <2>3, JobsBegin
    <2>4. CASE c \in Rescue /\ PollRescue(c)
      BY <2>4, CallsAreQuiet
    <2> QED BY <1>4, <2>1, <2>2, <2>3, <2>4 DEF CallStep
  <1>5. CASE (\E u \in Upgrade : StartUpgrade(u)) \/ (\E r \in Rescue : StartRescue(r))
             \/ CancelUpgrade \/ BoardNoticed
    BY <1>5, CallsAreQuiet
  <1>6. CASE HostDies
    BY <1>6, HostDiesKeeps
  <1> QED BY <1>1, <1>2, <1>3, <1>4, <1>5, <1>6 DEF DfuNext

\* The invariant of the firmware dialogue (dfu/client.rs, dfu/recover.rs).
THEOREM DfuInvariant == DfuSpec => []DfuInv
  <1>1. ASSUME DfuInv, UNCHANGED dfuVars PROVE DfuInv'
    <2>1. UNCHANGED <<boardState, wire, job, stale, understood>> /\ slot' = slot
      BY <1>1 DEF dfuVars, calls, history
    <2> QED BY <1>1, <2>1, OnlyCalls DEF DfuInv, DfuTyped
  <1> QED BY DfuStarts, DfuStep, <1>1, PTL DEF DfuSpec

\* The state of a transfer keeps its types (dfu/client.rs, dfu/recover.rs).
THEOREM DfuTyping == DfuSpec => []DfuTypeOK
  <1>1. DfuInv => DfuTypeOK
    BY DEF DfuInv, DfuTyped, JobOK, DfuTypeOK, DataTries
  <1> QED BY <1>1, DfuInvariant, PTL

\* For every number of packets, of calls and of faults: an upgrade's END
\* installs nothing but the whole firmware in order, and the END of a reset
\* whose PREPARE was accepted nothing at all, as long as no late answer was
\* taken for the next packet's (run_data_loop, send_recovery_sequence_on).
THEOREM OnlyFirmwareInstalled == DfuSpec => InstallsOnlyFirmware
  <1>1. ASSUME DfuInv, DfuNext, image' # image, ~stale
        PROVE  \/ Head(sent) = End("commit") /\ image' = Firmware
               \/ Head(sent) = End("discard") /\ ~understood
    <2>1. BoardTakes /\ Install /\ Head(sent).flag = "end" /\ sent # <<>>
      <3>1. JobStep => image' = image
        BY DEF JobStep, WaitCancelled, OpenBoard, WaitTimesOut, Cancelled, Write, WriteFails, ReadAnswer,
               ReadTimesOut, RebootAwaited, ResetDone, RescueSent, boardState
      <3>2. (\E c \in Asker : CallStep(c)) => image' = image
        BY DEF CallStep, EnterDfu, RunUpgrade, RunRescue, PollRescue, boardState
      <3>3. (\E u \in Upgrade : StartUpgrade(u)) \/ (\E r \in Rescue : StartRescue(r))
              \/ CancelUpgrade \/ BoardNoticed \/ HostDies
              => image' = image
        BY DEF StartUpgrade, StartRescue, CancelUpgrade, BoardNoticed, HostDies, boardState
      <3>4. BoardBoots \/ Unplug \/ Replug => image' = image
        BY DEF BoardBoots, Unplug, Replug
      <3>5. BoardTakes
        BY <1>1, <3>1, <3>2, <3>3, <3>4 DEF DfuNext
      <3> QED BY <3>5, <1>1 DEF BoardTakes, TakePrepare, TakeStart, TakeData, Refuse, Discard, IgnoreEnd,
                                boardState
    <2>2. declared # Nobody /\ Len(staged) = declared /\ image' = staged
      BY <2>1 DEF Install
    <2>3. sent \in Seq(Wired)
      BY <1>1 DEF DfuInv, DfuTyped
    <2>4. Head(sent) = sent[1] /\ Head(sent) \in Wired /\ 1 \in 1 .. Len(sent)
      BY <2>1, <2>3, TailOf
    <2>5. Head(sent) \in {End("commit"), End("discard")}
      BY <2>1, <2>4, WiredForms
    <2>6. StageOK /\ EndsOK
      BY <1>1 DEF DfuInv, TransferOK
    <2>7. CASE Head(sent) = End("commit")
      <3>1. declared = Chunks /\ Whole(staged)
        BY <2>2, <2>4, <2>6, <2>7 DEF EndsOK
      <3> QED BY <2>2, <2>7, <3>1 DEF Whole
    <2>8. ASSUME Head(sent) = End("discard"), understood PROVE FALSE
      <3>1. Len(staged) = RecoveryLength
        BY <2>2, <2>4, <2>6, <2>8 DEF EndsOK
      <3>2. Len(staged) \in 0 .. DataTries * Chunks
        BY <2>6, <1>1, DfuLengths DEF StageOK, DfuInv, DfuTyped, DataTries
      <3> QED BY <3>1, <3>2, DfuRecoveryLength
    <2> QED BY <2>5, <2>7, <2>8
  <1>2. DfuInv /\ [DfuNext]_dfuVars =>
          (image' # image /\ ~stale =>
             \/ Head(sent) = End("commit") /\ image' = Firmware
             \/ Head(sent) = End("discard") /\ ~understood)
    <2> SUFFICES ASSUME DfuInv, [DfuNext]_dfuVars, image' # image, ~stale
                 PROVE  \/ Head(sent) = End("commit") /\ image' = Firmware
                        \/ Head(sent) = End("discard") /\ ~understood
      OBVIOUS
    <2>1. DfuNext
      BY DEF dfuVars, boardState
    <2> QED BY <1>1, <2>1
  <1> QED BY <1>2, DfuInvariant, PTL DEF DfuSpec, InstallsOnlyFirmware
=============================================================================
