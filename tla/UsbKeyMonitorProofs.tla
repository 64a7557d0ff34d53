------------------------ MODULE UsbKeyMonitorProofs ------------------------
(***************************************************************************)
(* Theorems about KeyAggregator, for any set of sources and keys, and      *)
(* about UsbKeyMonitor, for any keys, knob steps and contacts and wires of *)
(* any length.                                                             *)
(*                                                                         *)
(* KeyAggregator first: a subscriber's view is exact once every event is   *)
(* sent.  Then the two monitor threads: what they do is a behaviour of     *)
(* KeyAggregator, so its theorems hold of them too; a key the ledger holds *)
(* is never shown released; the voice key follows the ledger; the threads  *)
(* leave nothing pressed behind.  Last, what is shown follows the hand on  *)
(* the board, over a wire that loses tails.                                *)
(***************************************************************************)
EXTENDS UsbKeyMonitor, SequenceTheorems, TLAPS

-----------------------------------------------------------------------------
(* KeyAggregator                                                           *)
(*                                                                         *)
(* NoPhantomHold is not inductive: between the mutex and the send a key    *)
(* may be shown pressed and held by nobody.  PhantomInv says where its     *)
(* release is then waiting, and that a press still waiting to be sent is   *)
(* of a key its reporter still holds (the reporter is blocked sending).    *)

PrevIsUnion == prevAll = Union(held)
PressedStillHeld == \A s \in Source : outbox[s].pressed \subseteq held[s]
ReleaseOnItsWay ==
    \A k \in view : k \in prevAll \/ \E s \in Source : k \in outbox[s].released

PhantomInv ==
    /\ AggTypeOK
    /\ PrevIsUnion
    /\ PressedStillHeld
    /\ ReleaseOnItsWay

\* The record of events of a report is well typed.
LEMMA EventsOfType ==
    ASSUME NEW all \in SUBSET Key, NEW prev \in SUBSET Key, NEW mask \in SUBSET Key
    PROVE  EventsOf(all, prev, mask) \in
             [released : SUBSET Key, pressed : SUBSET Key, combo : SUBSET ComboEvent]
  <1>1. ComboOf(all, all \ prev, mask) \in SUBSET ComboEvent
    BY DEF ComboOf, ComboEvent
  <1> QED BY <1>1 DEF EventsOf

\* Replacing one source's keys by keys it can report keeps the map typed.
LEMMA HeldUpdateType ==
    ASSUME NEW h \in [Source -> SUBSET Key], NEW s \in Source, NEW keys \in SUBSET Key
    PROVE  /\ [h EXCEPT ![s] = keys] \in [Source -> SUBSET Key]
           /\ Union([h EXCEPT ![s] = keys]) \in SUBSET Key
  <1>1. [h EXCEPT ![s] = keys] \in [Source -> SUBSET Key]
    OBVIOUS
  <1>2. \A g \in [Source -> SUBSET Key] : Union(g) \in SUBSET Key
    BY DEF Union
  <1> QED BY <1>1, <1>2

\* A report and a send keep the types.
LEMMA ReportTyped ==
    ASSUME AggTypeOK, NEW s \in Source, NEW keys \in SUBSET Key, Report(s, keys)
    PROVE  AggTypeOK'
  <1> DEFINE newHeld == [held EXCEPT ![s] = keys]
             all     == Union(newHeld)
             newMask == IF s = Config THEN keys ELSE lastConfigMask
  <1>1. newHeld \in [Source -> SUBSET Key] /\ all \in SUBSET Key
    BY HeldUpdateType DEF AggTypeOK
  <1>2. newMask \in SUBSET Key
    BY DEF AggTypeOK
  <1>3. EventsOf(all, prevAll, newMask) \in
          [released : SUBSET Key, pressed : SUBSET Key, combo : SUBSET ComboEvent]
    BY <1>1, <1>2, EventsOfType DEF AggTypeOK
  <1>4. /\ held' = newHeld /\ prevAll' = all /\ lastConfigMask' = newMask
        /\ outbox' = [outbox EXCEPT ![s] = EventsOf(all, prevAll, newMask)]
        /\ view' = view
    BY DEF Report
  <1> HIDE DEF newHeld, all, newMask
  <1> QED BY <1>1, <1>2, <1>3, <1>4 DEF AggTypeOK

LEMMA SendTyped == ASSUME AggTypeOK, NEW s \in Source, Send(s) PROVE AggTypeOK'
BY DEF Send, SendReleased, SendPressed, SendCombo, AggTypeOK, aggState, IsLeast

\* The aggregator's state stays typed in every behaviour.
THEOREM AggTypeCorrect == AggSpec => []AggTypeOK
  <1>1. AggInit => AggTypeOK
    BY DEF AggInit, AggTypeOK, NoEvents
  <1>2. AggTypeOK /\ [AggNext]_aggVars => AggTypeOK'
    <2> SUFFICES ASSUME AggTypeOK, [AggNext]_aggVars PROVE AggTypeOK'
      OBVIOUS
    <2>1. ASSUME NEW s \in Source, NEW keys \in SUBSET Reportable[s], Report(s, keys)
          PROVE  AggTypeOK'
      <3>1. keys \in SUBSET Key
        BY ReportableAssumption
      <3> QED BY <2>1, <3>1, ReportTyped
    <2>2. ASSUME NEW s \in Source, Send(s) PROVE AggTypeOK'
      BY <2>2, SendTyped
    <2>3. CASE UNCHANGED aggVars
      BY <2>3 DEF AggTypeOK, aggVars
    <2> QED
      BY <2>1, <2>2, <2>3 DEF AggNext
  <1> QED BY <1>1, <1>2, PTL DEF AggSpec

-----------------------------------------------------------------------------
(* One step of each kind preserves PhantomInv.                             *)

\* A report leaves the release of every key it drops in its own outbox.
LEMMA ReportPhantom ==
    ASSUME PhantomInv, AggTypeOK',
           NEW s \in Source, NEW keys \in SUBSET Key, Report(s, keys)
    PROVE  PhantomInv'
  <1> DEFINE newHeld == [held EXCEPT ![s] = keys]
             all     == Union(newHeld)
             newMask == IF s = Config THEN keys ELSE lastConfigMask
  <1> USE DEF PhantomInv
  <1>1. /\ held' = newHeld /\ prevAll' = all
        /\ outbox' = [outbox EXCEPT ![s] = EventsOf(all, prevAll, newMask)]
        /\ view' = view
        /\ Sent(s)
    BY DEF Report
  <1>2. PrevIsUnion'
    BY <1>1 DEF PrevIsUnion, Union
  <1>3. /\ outbox'[s].released = prevAll \ all
        /\ outbox'[s].pressed = all \ prevAll
        /\ \A t \in Source : t # s => outbox'[t] = outbox[t]
    BY <1>1 DEF EventsOf, AggTypeOK
  <1>4. \A t \in Source : t # s => newHeld[t] = held[t]
    BY DEF AggTypeOK
  <1>5. all \ prevAll \subseteq keys
    <2>1. SUFFICES ASSUME NEW k \in all, k \notin prevAll PROVE k \in keys
      OBVIOUS
    <2>2. PICK t \in Source : k \in newHeld[t]
      BY DEF Union
    <2>3. t = s
      BY <2>1, <2>2, <1>4 DEF PrevIsUnion, Union
    <2> QED BY <2>2, <2>3 DEF AggTypeOK
  <1>6. PressedStillHeld'
    <2>1. SUFFICES ASSUME NEW t \in Source PROVE outbox'[t].pressed \subseteq held'[t]
      BY DEF PressedStillHeld
    <2>2. CASE t = s
      BY <2>2, <1>1, <1>3, <1>5 DEF AggTypeOK
    <2>3. CASE t # s
      <3>1. outbox'[t] = outbox[t] /\ held'[t] = held[t]
        BY <2>3, <1>1, <1>3, <1>4
      <3> QED BY <3>1 DEF PressedStillHeld
    <2> QED BY <2>2, <2>3
  <1>7. ReleaseOnItsWay'
    <2>1. SUFFICES ASSUME NEW k \in view, k \notin all
                   PROVE  \E t \in Source : k \in outbox'[t].released
      BY <1>1 DEF ReleaseOnItsWay
    <2>2. CASE k \in prevAll
      BY <2>1, <2>2, <1>3
    <2>3. CASE k \notin prevAll
      <3>1. PICK t \in Source : k \in outbox[t].released
        BY <2>3 DEF ReleaseOnItsWay
      <3>2. t # s
        BY <3>1, <1>1 DEF Sent, NoEvents
      <3> QED BY <3>1, <3>2, <1>3
    <2> QED BY <2>2, <2>3
  <1> QED BY <1>2, <1>6, <1>7

\* A release that is sent takes its key from the view, and a press that is
\* sent is of a key still held.
LEMMA SendPhantom ==
    ASSUME PhantomInv, AggTypeOK', NEW s \in Source, Send(s)
    PROVE  PhantomInv'
  <1> USE DEF PhantomInv
  <1>1. held' = held /\ prevAll' = prevAll
    BY DEF Send, SendReleased, SendPressed, SendCombo, aggState
  <1>2. PrevIsUnion'
    BY <1>1 DEF PrevIsUnion, Union
  <1>3. \A t \in Source : outbox'[t].pressed \subseteq outbox[t].pressed
    BY DEF Send, SendReleased, SendPressed, SendCombo, AggTypeOK
  <1>4. PressedStillHeld'
    BY <1>1, <1>3 DEF PressedStillHeld
  <1>5. ReleaseOnItsWay'
    <2>1. ASSUME NEW k \in Key, SendReleased(s, k) PROVE ReleaseOnItsWay'
      <3>1. /\ view' = view \ {k}
            /\ \A t \in Source, j \in Key :
                  j # k /\ j \in outbox[t].released => j \in outbox'[t].released
        BY <2>1 DEF SendReleased, AggTypeOK
      <3> QED BY <3>1, <1>1 DEF ReleaseOnItsWay, AggTypeOK
    <2>2. ASSUME NEW k \in Key, SendPressed(s, k) PROVE ReleaseOnItsWay'
      <3>1. /\ view' = view \cup {k}
            /\ \A t \in Source : outbox'[t].released = outbox[t].released
            /\ k \in outbox[s].pressed
        BY <2>2 DEF SendPressed, AggTypeOK, IsLeast
      <3>2. k \in prevAll
        BY <3>1 DEF PressedStillHeld, PrevIsUnion, Union
      <3> QED BY <3>1, <3>2, <1>1 DEF ReleaseOnItsWay
    <2>3. ASSUME SendCombo(s) PROVE ReleaseOnItsWay'
      <3>1. /\ view' = view
            /\ \A t \in Source : outbox'[t].released = outbox[t].released
        BY <2>3 DEF SendCombo, AggTypeOK
      <3> QED BY <3>1, <1>1 DEF ReleaseOnItsWay
    <2> QED BY <2>1, <2>2, <2>3 DEF Send
  <1> QED BY <1>2, <1>4, <1>5

\* No interleaving of any number of readers leaves a key stuck down in a
\* subscriber's view once the computed events have all been sent.
THEOREM NeverPhantomHold == AggSpec => []NoPhantomHold
  <1>1. AggInit => PhantomInv
    BY DEF AggInit, PhantomInv, AggTypeOK, PrevIsUnion, PressedStillHeld,
           ReleaseOnItsWay, NoEvents, Union
  <1>2. PhantomInv /\ AggTypeOK' /\ [AggNext]_aggVars => PhantomInv'
    <2> SUFFICES ASSUME PhantomInv, AggTypeOK', [AggNext]_aggVars PROVE PhantomInv'
      OBVIOUS
    <2>1. ASSUME NEW s \in Source, NEW keys \in SUBSET Reportable[s], Report(s, keys)
          PROVE  PhantomInv'
      <3>1. keys \in SUBSET Key
        BY ReportableAssumption
      <3> QED BY <2>1, <3>1, ReportPhantom
    <2>2. ASSUME NEW s \in Source, Send(s) PROVE PhantomInv'
      BY <2>2, SendPhantom
    <2>3. CASE UNCHANGED aggVars
      BY <2>3 DEF PhantomInv, AggTypeOK, PrevIsUnion, PressedStillHeld,
                  ReleaseOnItsWay, Union, aggVars
    <2> QED BY <2>1, <2>2, <2>3 DEF AggNext
  <1>3. PhantomInv => NoPhantomHold
    BY DEF PhantomInv, PrevIsUnion, ReleaseOnItsWay, NoPhantomHold, AllSent, Sent, NoEvents
  <1> QED BY <1>1, <1>2, <1>3, AggTypeCorrect, PTL DEF AggSpec

-----------------------------------------------------------------------------
(* Keys that one interface alone reports                                   *)

\* A source holds, presses and releases only what it can report.
OwnKeys ==
    \A s \in Source : /\ held[s] \subseteq Reportable[s]
                      /\ outbox[s].released \subseteq Reportable[s]
                      /\ outbox[s].pressed \subseteq Reportable[s]

\* Such a key is shown pressed exactly if its source holds it and has told so,
\* or has let it go and not told yet.
Shown ==
    \A s \in Source : \A k \in Reportable[s] :
        Exclusive(k) =>
            /\ k \in view <=> \/ k \in held[s] /\ k \notin outbox[s].pressed
                              \/ k \in outbox[s].released
            /\ k \in outbox[s].released => k \notin held[s]

ExactInv == PhantomInv /\ OwnKeys /\ Shown

\* What a report does to its source and to the others.
LEMMA ReportEffect ==
    ASSUME PhantomInv, NEW s \in Source, NEW keys \in SUBSET Reportable[s], Report(s, keys)
    PROVE  /\ Sent(s) /\ view' = view /\ held'[s] = keys
           /\ outbox'[s].released = Union(held) \ Union(held')
           /\ outbox'[s].pressed = Union(held') \ Union(held)
           /\ \A t \in Source \ {s} : held'[t] = held[t] /\ outbox'[t] = outbox[t]
  <1>1. /\ held' = [held EXCEPT ![s] = keys] /\ Sent(s) /\ view' = view
        /\ \A t \in Source \ {s} : outbox'[t] = outbox[t]
        /\ outbox'[s].released = prevAll \ Union(held')
        /\ outbox'[s].pressed = Union(held') \ prevAll
    BY DEF Report, EventsOf, PhantomInv, AggTypeOK
  <1>2. held'[s] = keys /\ \A t \in Source \ {s} : held'[t] = held[t]
    BY <1>1 DEF PhantomInv, AggTypeOK
  <1> QED BY <1>1, <1>2 DEF PhantomInv, PrevIsUnion

\* An exclusive key is in the union exactly if its source holds it.
LEMMA ExclusiveInUnion ==
    ASSUME NEW h, NEW s \in Source, NEW k \in Reportable[s], Exclusive(k),
           \A t \in Source : h[t] \subseteq Reportable[t]
    PROVE  k \in Union(h) <=> k \in h[s]
  <1>1. ASSUME NEW t \in Source, k \in h[t] PROVE t = s
    BY <1>1 DEF Exclusive
  <1> QED BY <1>1 DEF Union

LEMMA ReportExact ==
    ASSUME ExactInv, NEW s \in Source, NEW keys \in SUBSET Reportable[s], Report(s, keys)
    PROVE  (OwnKeys /\ Shown)'
  <1> USE DEF ExactInv
  <1>1. /\ Sent(s) /\ view' = view /\ held'[s] = keys
        /\ outbox'[s].released = Union(held) \ Union(held')
        /\ outbox'[s].pressed = Union(held') \ Union(held)
        /\ \A t \in Source \ {s} : held'[t] = held[t] /\ outbox'[t] = outbox[t]
    BY ReportEffect
  <1>2. \A t \in Source : held[t] \subseteq Reportable[t] /\ held'[t] \subseteq Reportable[t]
    BY <1>1 DEF OwnKeys
  <1>3. \A t \in Source \ {s} : held'[t] = held[t]
    BY <1>1
  <1>4. /\ Union(held) \ Union(held') \subseteq held[s]
        /\ Union(held') \ Union(held) \subseteq keys
    BY <1>1, <1>3 DEF Union
  <1>5. OwnKeys'
    BY <1>1, <1>2, <1>4 DEF OwnKeys
  <1>6. Shown'
    <2>1. SUFFICES ASSUME NEW t \in Source, NEW k \in Reportable[t], Exclusive(k)
                   PROVE  /\ k \in view' <=> \/ k \in held'[t] /\ k \notin outbox'[t].pressed
                                             \/ k \in outbox'[t].released
                          /\ k \in outbox'[t].released => k \notin held'[t]
      BY DEF Shown
    <2>2. CASE t # s
      BY <1>1, <2>1, <2>2 DEF Shown
    <2>3. CASE t = s
      <3>1. (k \in Union(held) <=> k \in held[s]) /\ (k \in Union(held') <=> k \in keys)
        BY <1>1, <1>2, <2>1, <2>3, ExclusiveInUnion
      <3>2. k \in view <=> k \in held[s]
        BY <1>1, <2>1, <2>3 DEF Shown, Sent, NoEvents
      <3> QED BY <1>1, <2>3, <3>1, <3>2
    <2> QED BY <2>2, <2>3
  <1> QED BY <1>5, <1>6

LEMMA SendExact ==
    ASSUME ExactInv, NEW s \in Source, Send(s) PROVE (OwnKeys /\ Shown)'
  <1> USE DEF ExactInv, PhantomInv
  <1>1. CASE SendCombo(s)
    <2>1. /\ held' = held /\ view' = view
          /\ \A t \in Source : /\ outbox'[t].released = outbox[t].released
                               /\ outbox'[t].pressed = outbox[t].pressed
      BY <1>1 DEF SendCombo, AggTypeOK, aggState
    <2> QED BY <2>1 DEF OwnKeys, Shown
  <1>2. ASSUME NEW j \in Key, SendReleased(s, j) PROVE (OwnKeys /\ Shown)'
    <2>1. /\ held' = held /\ view' = view \ {j} /\ j \in outbox[s].released
          /\ outbox'[s].released = outbox[s].released \ {j}
          /\ outbox'[s].pressed = outbox[s].pressed
          /\ \A t \in Source \ {s} : outbox'[t] = outbox[t]
      BY <1>2 DEF SendReleased, AggTypeOK, aggState, IsLeast
    <2>2. j \in Reportable[s]
      BY <2>1 DEF OwnKeys
    <2>3. \A t \in Source : j \in Reportable[t] /\ Exclusive(j) => t = s
      BY <2>2 DEF Exclusive
    <2>4. OwnKeys'
      BY <2>1 DEF OwnKeys
    <2>5. Shown'
      BY <2>1, <2>2, <2>3 DEF Shown
    <2> QED BY <2>4, <2>5
  <1>3. ASSUME NEW j \in Key, SendPressed(s, j) PROVE (OwnKeys /\ Shown)'
    <2>1. /\ held' = held /\ view' = view \cup {j} /\ j \in outbox[s].pressed
          /\ outbox'[s].released = outbox[s].released
          /\ outbox'[s].pressed = outbox[s].pressed \ {j}
          /\ \A t \in Source \ {s} : outbox'[t] = outbox[t]
      BY <1>3 DEF SendPressed, AggTypeOK, aggState, IsLeast
    <2>2. j \in Reportable[s] /\ j \in held[s]
      BY <2>1 DEF OwnKeys, PressedStillHeld
    <2>3. \A t \in Source : j \in Reportable[t] /\ Exclusive(j) => t = s
      BY <2>2 DEF Exclusive
    <2>4. OwnKeys'
      BY <2>1 DEF OwnKeys
    <2>5. Shown'
      BY <2>1, <2>2, <2>3 DEF Shown
    <2> QED BY <2>4, <2>5
  <1> QED BY <1>1, <1>2, <1>3 DEF Send

LEMMA ExactAlways == AggSpec => []ExactInv
  <1>1. AggInit => ExactInv
    BY ReportableAssumption
    DEF AggInit, ExactInv, PhantomInv, AggTypeOK, PrevIsUnion, PressedStillHeld, ReleaseOnItsWay,
        NoEvents, Union, OwnKeys, Shown
  <1>2. ExactInv /\ [AggNext]_aggVars => ExactInv'
    <2> SUFFICES ASSUME ExactInv, [AggNext]_aggVars PROVE ExactInv'
      OBVIOUS
    <2>1. ASSUME NEW s \in Source, NEW keys \in SUBSET Reportable[s], Report(s, keys)
          PROVE  ExactInv'
      <3>1. keys \in SUBSET Key
        BY ReportableAssumption
      <3>2. AggTypeOK'
        BY <2>1, <3>1, ReportTyped DEF ExactInv, PhantomInv
      <3>3. PhantomInv'
        BY <2>1, <3>1, <3>2, ReportPhantom DEF ExactInv
      <3> QED BY <2>1, <3>3, ReportExact DEF ExactInv
    <2>2. ASSUME NEW s \in Source, Send(s) PROVE ExactInv'
      <3>1. AggTypeOK'
        BY <2>2, SendTyped DEF ExactInv, PhantomInv
      <3>2. PhantomInv'
        BY <2>2, <3>1, SendPhantom DEF ExactInv
      <3> QED BY <2>2, <3>2, SendExact DEF ExactInv
    <2>3. CASE UNCHANGED aggVars
      BY <2>3 DEF ExactInv, PhantomInv, AggTypeOK, PrevIsUnion, PressedStillHeld, ReleaseOnItsWay,
                  Union, OwnKeys, Shown, aggVars
    <2> QED BY <2>1, <2>2, <2>3 DEF AggNext
  <1> QED BY <1>1, <1>2, PTL DEF AggSpec

\* Once every event is sent the view is exact for the keys of one interface.
THEOREM ViewAlwaysExact == AggSpec => []ViewExact
  <1>1. ExactInv => ViewExact
    <2> SUFFICES ASSUME ExactInv, AllSent, NEW k \in Key, Exclusive(k)
                 PROVE  k \in view <=> k \in Union(held)
      BY DEF ViewExact
    <2>1. CASE \E s \in Source : k \in Reportable[s]
      <3>1. PICK s \in Source : k \in Reportable[s]
        BY <2>1
      <3>2. k \in view <=> k \in held[s]
        BY <3>1 DEF ExactInv, Shown, AllSent, Sent, NoEvents
      <3>3. k \in Union(held) <=> k \in held[s]
        BY <3>1, ExclusiveInUnion DEF ExactInv, OwnKeys
      <3> QED BY <3>2, <3>3
    <2>2. CASE ~\E s \in Source : k \in Reportable[s]
      BY <2>2 DEF ExactInv, PhantomInv, OwnKeys, Union, PrevIsUnion, ReleaseOnItsWay
    <2> QED BY <2>1, <2>2
  <1> QED BY <1>1, ExactAlways, PTL

\* The channel's press and release events of such a key alternate.
THEOREM EventsAlwaysAlternate == AggSpec => EventsAlternate
  <1>1. ExactInv => Alternates
    <2> SUFFICES ASSUME ExactInv, NEW s \in Source, NEW k \in Key, Exclusive(k)
                 PROVE  /\ SendPressed(s, k) => k \notin view
                        /\ SendReleased(s, k) => k \in view
      BY DEF Alternates
    <2>1. ASSUME SendPressed(s, k) PROVE k \notin view
      <3>1. k \in outbox[s].pressed /\ outbox[s].released = {}
        BY <2>1 DEF SendPressed, IsLeast
      <3> QED BY <3>1 DEF ExactInv, OwnKeys, Shown
    <2>2. ASSUME SendReleased(s, k) PROVE k \in view
      <3>1. k \in outbox[s].released
        BY <2>2 DEF SendReleased, IsLeast
      <3> QED BY <3>1 DEF ExactInv, OwnKeys, Shown
    <2> QED BY <2>1, <2>2
  <1>2. []ExactInv => EventsAlternate
    BY <1>1, PTL DEF EventsAlternate
  <1> QED BY <1>2, ExactAlways, PTL

\* A release is attributed to the source that alone held the key.
THEOREM ReleaseAlwaysReporters == AggSpec => ReleaseIsReporters
  <1>1. ExactInv /\ [AggNext]_aggVars
        => \A s \in Source :
              Sent(s) /\ outbox'[s] # outbox[s]
                 => /\ outbox'[s].released \subseteq held[s]
                    /\ outbox'[s].released \cap Union(held') = {}
    <2> SUFFICES ASSUME ExactInv, [AggNext]_aggVars, NEW s \in Source, Sent(s),
                        outbox'[s] # outbox[s]
                 PROVE  /\ outbox'[s].released \subseteq held[s]
                        /\ outbox'[s].released \cap Union(held') = {}
      OBVIOUS
    <2>1. PICK t \in Source :
             \/ \E keys \in SUBSET Reportable[t] : Report(t, keys)
             \/ Send(t)
      BY DEF AggNext, aggVars
    <2>2. CASE Send(t)
      <3>1. t # s
        BY <2>2 DEF Send, SendReleased, SendPressed, SendCombo, Sent, NoEvents, IsLeast
      <3> QED BY <2>2, <3>1
          DEF Send, SendReleased, SendPressed, SendCombo, ExactInv, PhantomInv, AggTypeOK
    <2>3. ASSUME NEW keys \in SUBSET Reportable[t], Report(t, keys)
          PROVE  /\ outbox'[s].released \subseteq held[s]
                 /\ outbox'[s].released \cap Union(held') = {}
      <3>1. t = s
        BY <2>3, ReportEffect DEF ExactInv
      <3>2. /\ outbox'[s].released = Union(held) \ Union(held')
            /\ \A u \in Source \ {s} : held'[u] = held[u]
        BY <2>3, <3>1, ReportEffect DEF ExactInv
      <3> QED BY <3>2 DEF Union
    <2> QED BY <2>1, <2>2, <2>3
  <1>2. []ExactInv /\ [][AggNext]_aggVars => ReleaseIsReporters
    BY <1>1, PTL DEF ReleaseIsReporters
  <1> QED BY <1>2, ExactAlways, PTL DEF AggSpec

-----------------------------------------------------------------------------
(* UsbKeyMonitor                                                           *)

\* The frames the board sends: the contact-less mode is no key.
BoardFrame == Reportable[Consumer] \cup {AllUp, KnobUp, Other}

WireOK ==
    /\ down \subseteq Ordinary
    /\ wire \in Seq(BoardFrame)
    /\ isRunning \in BOOLEAN
    /\ configPc \in {"read", "exited"}
    /\ consumerPc \in {"read", "report", "leave", "exited"}

(* The ledger and the frame in hand.  Every batch holds the whole ledger,  *)
(* and the next frame is read only when the last one's events are sent.    *)
LedgerOK ==
    /\ ledger \subseteq Ordinary
    /\ batches \in Seq(SUBSET Reportable[Consumer])
    /\ \A i \in 1 .. Len(batches) : ledger \subseteq batches[i]
    /\ consumerPc # "report" => batches = <<>>
    /\ consumerPc \in {"read", "exited"} => Sent(Consumer)

(* The aggregator holds and releases what a source can report; nothing     *)
(* the ledger holds is about to be released, and a thread that has ended   *)
(* holds nothing.                                                          *)
HoldOK ==
    /\ \A s \in Source : held[s] \subseteq Reportable[s] /\ outbox[s].released \subseteq Reportable[s]
    /\ consumerPc # "leave" => outbox[Consumer].released \cap ledger = {}
    /\ consumerPc \in {"leave", "exited"} => held[Consumer] = {}
    /\ configPc = "exited" => held[Config] = {}

VoiceOK ==
    /\ voicePressed \in BOOLEAN /\ voiceShown \in BOOLEAN /\ cleared \in BOOLEAN
    /\ voiceShown => voicePressed
    /\ cleared => consumerPc = "report" /\ ledger = {}
    /\ ~cleared /\ consumerPc # "exited" => (voiceShown <=> Voice \in ledger)
    /\ consumerPc = "exited" => ~voiceShown

MonInv == PhantomInv /\ WireOK /\ LedgerOK /\ HoldOK /\ VoiceOK

LEMMA Facts ==
    /\ Source = {Config, Consumer} /\ Config # Consumer
    /\ Reportable[Consumer] \subseteq Key /\ Reportable[Config] \subseteq Key
    /\ Knob \subseteq Reportable[Consumer] /\ Ordinary = Reportable[Consumer] \ Knob
    /\ Voice \in Ordinary /\ Voice \in Key
    /\ AllUp \notin Key /\ KnobUp \notin Key /\ Other \notin Key /\ Chat \notin BoardFrame
BY ConsumerAssumption, KnobAssumption, EndpointAssumption, VoiceAssumption, FrameAssumption,
   ReportableAssumption DEF Ordinary, BoardFrame

LEMMA MonStarts == MonInit => MonInv
<1> SUFFICES ASSUME MonInit PROVE MonInv OBVIOUS
<1>1. PhantomInv
  BY DEF MonInit, AggInit, PhantomInv, AggTypeOK, PrevIsUnion, PressedStillHeld, ReleaseOnItsWay,
         NoEvents, Union
<1>2. WireOK /\ LedgerOK
  BY Facts DEF MonInit, AggInit, WireOK, LedgerOK, Sent
<1>3. HoldOK /\ VoiceOK
  BY Facts DEF MonInit, AggInit, HoldOK, VoiceOK, NoEvents
<1> QED BY <1>1, <1>2, <1>3 DEF MonInv

-----------------------------------------------------------------------------
(* Steps that leave the aggregator alone                                   *)

LEMMA AggAlone == ASSUME PhantomInv, UNCHANGED aggVars PROVE PhantomInv'
BY DEF PhantomInv, AggTypeOK, PrevIsUnion, PressedStillHeld, ReleaseOnItsWay, Union, aggVars

LEMMA BoardKeeps == ASSUME MonInv, Board \/ StopMonitor \/ UNCHANGED monVars PROVE MonInv'
<1> USE Facts DEF MonInv
<1>1. /\ UNCHANGED <<aggVars, configPc, consumerPc, frame, ledger, endpoint, shown>>
      /\ isRunning' \in BOOLEAN
  BY DEF Board, Press, Release, Turn, Stray, WindowEnds, StopMonitor, monVars, board, tracker, WireOK
<1>2. PhantomInv'
  BY <1>1, AggAlone
<1>3. WireOK'
  <2>1. ASSUME NEW k \in Ordinary, Press(k) \/ Release(k)
        PROVE  down' \subseteq Ordinary /\ wire' \in Seq(BoardFrame)
    BY <2>1 DEF Press, Release, WireOK, BoardFrame
  <2>2. ASSUME NEW k \in Knob, Turn(k)
        PROVE  down' \subseteq Ordinary /\ wire' \in Seq(BoardFrame)
    <3>1. <<k, KnobUp>> \in Seq(BoardFrame) /\ k \in BoardFrame
      BY DEF BoardFrame
    <3>2. wire \in Seq(BoardFrame) /\ wire \o <<k, KnobUp>> \in Seq(BoardFrame)
      BY <3>1, ConcatProperties DEF WireOK
    <3>3. Append(wire, k) \in Seq(BoardFrame)
      BY <3>1, <3>2
    <3> QED BY <2>2, <3>2, <3>3 DEF Turn, WireOK
  <2>3. ASSUME Stray PROVE down' \subseteq Ordinary /\ wire' \in Seq(BoardFrame)
    <3>1. <<Other>> \in Seq(BoardFrame)
      BY DEF BoardFrame
    <3>2. <<Other>> \o wire \in Seq(BoardFrame)
      BY <3>1, ConcatProperties DEF WireOK
    <3> QED BY <2>3, <3>2 DEF Stray, WireOK
  <2>4. CASE WindowEnds \/ StopMonitor \/ UNCHANGED monVars
    BY <2>4 DEF WindowEnds, StopMonitor, monVars, board, WireOK
  <2> QED BY <1>1, <2>1, <2>2, <2>3, <2>4 DEF Board, WireOK
<1>4. LedgerOK' /\ HoldOK' /\ VoiceOK'
  BY <1>1 DEF LedgerOK, HoldOK, VoiceOK, Sent, aggVars, frame, shown
<1> QED BY <1>2, <1>3, <1>4

(* A frame is taken: the ledger follows it, and each batch holds it.       *)
LEMMA ReadKeeps == ASSUME MonInv, ReadConsumer PROVE MonInv'
<1> USE Facts DEF MonInv
<1> DEFINE v == Head(wire)
<1>1. /\ v \in BoardFrame /\ wire' \in Seq(BoardFrame)
      /\ TailFrame(v) \/ ClearFrame(v) \/ UnknownFrame(v) \/ KnobFrame(v) \/ KeyFrame(v)
      /\ voicePressed' = (voicePressed \/ v = Voice)
      /\ voiceShown' = (voiceShown \/ v = Voice)
      /\ consumerPc = "read" /\ consumerPc' = "report"
      /\ UNCHANGED <<aggVars, down, lost, status, isRunning, configPc>>
  BY DEF ReadConsumer, WireOK
<1> HIDE DEF v
<1>2. /\ ledger \subseteq Ordinary /\ batches = <<>> /\ Sent(Consumer) /\ ~cleared
      /\ cleared \in BOOLEAN
  BY <1>1 DEF LedgerOK, VoiceOK
<1>3. \/ ledger' = ledger /\ batches' = <<>> /\ cleared' = FALSE /\ v # Voice
      \/ ledger' = {} /\ batches' = <<{}>> /\ cleared' = TRUE /\ v # Voice
      \/ v \in Knob /\ ledger' = ledger /\ batches' = <<ledger \cup {v}, ledger>> /\ cleared' = FALSE
      \/ /\ v \in Ordinary /\ ledger' = ledger \cup {v}
         /\ batches' = <<ledger'>> /\ cleared' = FALSE
  BY <1>1 DEF TailFrame, ClearFrame, UnknownFrame, KnobFrame, KeyFrame
<1>4. PhantomInv'
  BY <1>1, AggAlone
<1>5. WireOK'
  BY <1>1 DEF WireOK
<1>6. LedgerOK'
  <2>1. ledger' \subseteq Ordinary
    BY <1>2, <1>3
  <2>2. batches' \in Seq(SUBSET Reportable[Consumer])
    <3> DEFINE S == SUBSET Reportable[Consumer]
    <3>1. {} \in S /\ ledger \in S /\ ledger' \in S /\ (v \in Knob => ledger \cup {v} \in S)
      BY <1>2, <1>3, <2>1
    <3> HIDE DEF S
    <3>2. \A a, b \in S : <<>> \in Seq(S) /\ <<a>> \in Seq(S) /\ <<a, b>> \in Seq(S)
      OBVIOUS
    <3>3. batches' \in Seq(S)
      BY <1>3, <3>1, <3>2
    <3> QED BY <3>3 DEF S
  <2>3. \A i \in 1 .. Len(batches') : ledger' \subseteq batches'[i]
    BY <1>3
  <2> QED BY <1>1, <2>1, <2>2, <2>3 DEF LedgerOK
<1>7. HoldOK'
  <2>1. outbox[Consumer].released = {}
    BY <1>2 DEF Sent, NoEvents
  <2> QED BY <1>1, <2>1 DEF HoldOK, aggVars
<1>8. VoiceOK'
  <2>1. (voiceShown <=> Voice \in ledger) /\ (voiceShown => voicePressed)
        /\ voiceShown \in BOOLEAN /\ voicePressed \in BOOLEAN
    BY <1>1, <1>2 DEF VoiceOK
  <2>2. voicePressed' \in BOOLEAN /\ voiceShown' \in BOOLEAN /\ (voiceShown' => voicePressed')
    BY <1>1, <2>1
  <2>3. cleared' \in BOOLEAN /\ (cleared' => ledger' = {})
        /\ (~cleared' => (voiceShown' <=> Voice \in ledger'))
    BY <1>1, <1>3, <2>1
  <2> QED BY <1>1, <2>2, <2>3 DEF VoiceOK
<1> QED BY <1>4, <1>5, <1>6, <1>7, <1>8

LEMMA FinishKeeps ==
    ASSUME MonInv, FinishFrame \/ ConsumerGone \/ ReadStatus PROVE MonInv'
<1> USE Facts DEF MonInv
<1>1. UNCHANGED <<aggVars, down, wire, isRunning, configPc, batches, ledger>>
  BY DEF FinishFrame, ConsumerGone, ReadStatus, board, frame, tracker
<1>2. PhantomInv'
  BY <1>1, AggAlone
<1>3. /\ WireOK' /\ LedgerOK' /\ HoldOK'
  <2>1. CASE FinishFrame
    BY <1>1, <2>1 DEF FinishFrame, WireOK, LedgerOK, HoldOK, Sent, aggVars
  <2>2. CASE ConsumerGone
    <3>1. outbox[Consumer].released = {}
      BY <2>2 DEF ConsumerGone, Sent, NoEvents
    <3> QED BY <1>1, <2>2, <3>1 DEF ConsumerGone, WireOK, LedgerOK, HoldOK, Sent, aggVars
  <2>3. CASE ReadStatus
    BY <1>1, <2>3 DEF ReadStatus, WireOK, LedgerOK, HoldOK, Sent, aggVars
  <2> QED BY <2>1, <2>2, <2>3
<1>4. VoiceOK'
  <2>1. CASE FinishFrame
    <3>1. /\ consumerPc = "report" /\ consumerPc' = "read" /\ cleared' = FALSE
          /\ voicePressed' = (voicePressed /\ ~cleared)
          /\ voiceShown' = (voiceShown /\ ~(cleared /\ voicePressed))
      BY <2>1 DEF FinishFrame
    <3>2. CASE cleared
      <4>1. ~voicePressed' /\ ~voiceShown' /\ Voice \notin ledger'
        BY <1>1, <3>1, <3>2 DEF VoiceOK
      <4> QED BY <3>1, <4>1 DEF VoiceOK
    <3>3. CASE ~cleared
      <4>1. (voicePressed' <=> voicePressed) /\ (voiceShown' <=> voiceShown)
        BY <3>1, <3>3 DEF VoiceOK
      <4> QED BY <1>1, <3>1, <3>3, <4>1 DEF VoiceOK
    <3> QED BY <3>2, <3>3 DEF VoiceOK
  <2>2. CASE ConsumerGone
    <3>1. /\ consumerPc = "leave" /\ consumerPc' = "exited" /\ cleared' = cleared
          /\ voicePressed' = FALSE /\ voiceShown' = (voiceShown /\ ~voicePressed)
      BY <2>2 DEF ConsumerGone, frame
    <3> QED BY <1>1, <3>1 DEF VoiceOK
  <2>3. CASE ReadStatus
    BY <1>1, <2>3 DEF ReadStatus, VoiceOK, frame
  <2> QED BY <2>1, <2>2, <2>3
<1> QED BY <1>2, <1>3, <1>4

-----------------------------------------------------------------------------
(* Reports and sends                                                       *)

(* What a report leaves in the outbox is released by nobody else, and was  *)
(* held by its source alone.                                               *)
LEMMA Reported ==
    ASSUME MonInv, NEW s \in Source, NEW keys \in SUBSET Reportable[s], Report(s, keys)
    PROVE  /\ PhantomInv'
           /\ held'[s] = keys /\ outbox'[s].released \cap keys = {}
           /\ outbox'[s].released \subseteq Reportable[s]
           /\ \A t \in Source \ {s} : held'[t] = held[t] /\ outbox'[t] = outbox[t]
<1> USE Facts DEF MonInv
<1>1. keys \in SUBSET Key
  BY ReportableAssumption
<1>2. AggTypeOK'
  BY <1>1, ReportTyped DEF PhantomInv
<1>3. PhantomInv'
  BY <1>1, <1>2, ReportPhantom
<1>4. /\ held' = [held EXCEPT ![s] = keys]
      /\ \A t \in Source \ {s} : outbox'[t] = outbox[t]
      /\ outbox'[s].released = prevAll \ Union(held')
  BY DEF Report, EventsOf, PhantomInv, AggTypeOK
<1>5. held'[s] = keys /\ \A t \in Source \ {s} : held'[t] = held[t]
  BY <1>4 DEF PhantomInv, AggTypeOK
<1>6. keys \subseteq Union(held')
  BY <1>5 DEF Union
<1>7. outbox'[s].released \subseteq held[s]
  BY <1>4, <1>5 DEF PhantomInv, PrevIsUnion, Union
<1>8. held[s] \subseteq Reportable[s]
  BY DEF HoldOK
<1> QED BY <1>3, <1>4, <1>5, <1>6, <1>7, <1>8

LEMMA ConsumerReports == ASSUME MonInv, ReportBatch \/ LeaveConsumer PROVE MonInv'
<1> USE Facts DEF MonInv
<1>1. CASE ReportBatch
  <2> DEFINE b == Head(batches)
  <2>1. /\ b \in SUBSET Reportable[Consumer] /\ ledger \subseteq b
        /\ batches' \in Seq(SUBSET Reportable[Consumer])
        /\ \A i \in 1 .. Len(batches') : ledger \subseteq batches'[i]
    <3>1. batches \in Seq(SUBSET Reportable[Consumer]) /\ batches # <<>> /\ batches' = Tail(batches)
      BY <1>1 DEF ReportBatch, LedgerOK
    <3>2. b = batches[1] /\ 1 \in 1 .. Len(batches)
      BY <3>1
    <3>3. /\ Tail(batches) \in Seq(SUBSET Reportable[Consumer])
          /\ \A i \in 1 .. Len(Tail(batches)) :
                i + 1 \in 1 .. Len(batches) /\ Tail(batches)[i] = batches[i + 1]
      BY <3>1
    <3> QED BY <3>1, <3>2, <3>3 DEF LedgerOK
  <2> HIDE DEF b
  <2>2. /\ Report(Consumer, b) /\ consumerPc = "report"
        /\ UNCHANGED <<down, wire, isRunning, configPc, consumerPc, cleared, ledger,
                       voicePressed, voiceShown>>
    BY <1>1 DEF ReportBatch, b, board, tracker, shown
  <2>3. /\ PhantomInv'
        /\ outbox'[Consumer].released \cap b = {}
        /\ outbox'[Consumer].released \subseteq Reportable[Consumer]
        /\ held'[Consumer] = b /\ held'[Config] = held[Config] /\ outbox'[Config] = outbox[Config]
    BY <2>1, <2>2, Reported
  <2>4. HoldOK'
    BY <2>1, <2>2, <2>3 DEF HoldOK
  <2>5. LedgerOK' /\ WireOK' /\ VoiceOK'
    BY <2>1, <2>2 DEF LedgerOK, WireOK, VoiceOK
  <2> QED BY <2>3, <2>4, <2>5
<1>2. CASE LeaveConsumer
  <2>1. /\ Report(Consumer, {}) /\ consumerPc = "read" /\ consumerPc' = "leave" /\ isRunning' = FALSE
        /\ UNCHANGED <<down, wire, configPc, batches, cleared, ledger, voicePressed, voiceShown>>
    BY <1>2 DEF LeaveConsumer, board, frame, tracker, shown
  <2>2. /\ PhantomInv'
        /\ outbox'[Consumer].released \subseteq Reportable[Consumer]
        /\ held'[Consumer] = {} /\ held'[Config] = held[Config] /\ outbox'[Config] = outbox[Config]
    BY <2>1, Reported, {} \in SUBSET Reportable[Consumer]
  <2>3. HoldOK'
    BY <2>1, <2>2 DEF HoldOK
  <2>4. LedgerOK' /\ WireOK' /\ VoiceOK'
    BY <2>1 DEF LedgerOK, WireOK, VoiceOK
  <2> QED BY <2>2, <2>3, <2>4
<1> QED BY <1>1, <1>2

LEMMA ConfigReports == ASSUME MonInv, ReadMask \/ LeaveConfig PROVE MonInv'
<1> USE Facts DEF MonInv
<1>1. PICK keys \in SUBSET Reportable[Config] :
         /\ Report(Config, keys)
         /\ configPc' = "exited" => keys = {}
  BY DEF ReadMask, LeaveConfig
<1>2. /\ UNCHANGED <<down, wire, consumerPc, batches, cleared, ledger, voicePressed, voiceShown>>
      /\ isRunning' \in BOOLEAN /\ configPc' \in {"read", "exited"}
  BY DEF ReadMask, LeaveConfig, board, frame, tracker, shown, WireOK
<1>3. /\ PhantomInv'
      /\ outbox'[Config].released \subseteq Reportable[Config]
      /\ held'[Config] = keys /\ held'[Consumer] = held[Consumer]
      /\ outbox'[Consumer] = outbox[Consumer]
  BY <1>1, Reported
<1>4. HoldOK'
  BY <1>1, <1>2, <1>3 DEF HoldOK
<1>5. LedgerOK' /\ WireOK' /\ VoiceOK'
  BY <1>2, <1>3 DEF LedgerOK, WireOK, VoiceOK, Sent
<1> QED BY <1>3, <1>4, <1>5

LEMMA SendKeeps == ASSUME MonInv, NEW s \in Source, SendEvent(s) PROVE MonInv'
<1> USE Facts DEF MonInv
<1>1. Send(s) /\ UNCHANGED <<down, wire, isRunning, configPc, consumerPc, batches, cleared, ledger,
                             voicePressed, voiceShown>>
  BY DEF SendEvent, board, frame, tracker, shown
<1>2. AggTypeOK'
  BY <1>1, SendTyped DEF PhantomInv
<1>3. PhantomInv'
  BY <1>1, <1>2, SendPhantom
<1>4. /\ held' = held /\ ~Sent(s)
      /\ \A t \in Source : /\ outbox'[t].released \subseteq outbox[t].released
                           /\ t # s => outbox'[t] = outbox[t]
  BY <1>1 DEF Send, SendReleased, SendPressed, SendCombo, aggState, Sent, NoEvents, IsLeast,
              PhantomInv, AggTypeOK
<1>5. HoldOK'
  BY <1>1, <1>4 DEF HoldOK
<1>6. LedgerOK' /\ WireOK' /\ VoiceOK'
  BY <1>1, <1>4 DEF LedgerOK, WireOK, VoiceOK, Sent
<1> QED BY <1>3, <1>5, <1>6

LEMMA MonKept == MonInv /\ [MonNext]_monVars => MonInv'
BY Facts, BoardKeeps, ReadKeeps, FinishKeeps, ConsumerReports, ConfigReports, SendKeeps
DEF MonNext, ConsumerThread, ConfigThread

LEMMA MonAlways == MonSpec => []MonInv
BY MonStarts, MonKept, PTL DEF MonSpec

-----------------------------------------------------------------------------
(* The threads use the aggregator as its module says: each of its theorems *)
(* holds of the running monitor.                                           *)
THEOREM MonitorImplementsAggregator == MonSpec => AggSpec
<1>1. MonInit => AggInit
  BY DEF MonInit
<1>2. MonInv /\ [MonNext]_monVars => [AggNext]_aggVars
  <2> SUFFICES ASSUME MonInv, [MonNext]_monVars PROVE [AggNext]_aggVars OBVIOUS
  <2> USE Facts
  <2>1. CASE ReportBatch
    <3>1. Head(batches) \in SUBSET Reportable[Consumer]
      BY <2>1 DEF ReportBatch, MonInv, LedgerOK
    <3> QED BY <2>1, <3>1 DEF ReportBatch, AggNext
  <2>2. CASE LeaveConsumer \/ LeaveConfig \/ ReadMask
    BY <2>2, {} \in SUBSET Reportable[Consumer], {} \in SUBSET Reportable[Config]
    DEF LeaveConsumer, LeaveConfig, ReadMask, AggNext
  <2>3. CASE SendEvent(Consumer) \/ SendEvent(Config)
    BY <2>3 DEF SendEvent, AggNext
  <2>4. CASE ReadConsumer \/ FinishFrame \/ ConsumerGone \/ ReadStatus
    BY <2>4 DEF ReadConsumer, FinishFrame, ConsumerGone, ReadStatus
  <2>5. CASE Board \/ StopMonitor \/ UNCHANGED monVars
    BY <2>5 DEF Board, Press, Release, Turn, Stray, WindowEnds, StopMonitor, monVars
  <2> QED BY <2>1, <2>2, <2>3, <2>4, <2>5 DEF MonNext, ConsumerThread, ConfigThread
<1> QED BY <1>1, <1>2, MonAlways, PTL DEF MonSpec, AggSpec

(* No key is stuck down in a subscriber's view.                            *)
THEOREM MonitorNeverPhantomHold == MonSpec => []NoPhantomHold
BY MonitorImplementsAggregator, NeverPhantomHold, PTL

(* The voice key is shown pressed exactly while the ledger holds it.       *)
THEOREM VoiceAlwaysFollows == MonSpec => []VoiceFollowsLedger
<1>1. MonInv => VoiceFollowsLedger
  BY DEF MonInv, VoiceOK, VoiceFollowsLedger
<1> QED BY <1>1, MonAlways, PTL

(* However the threads end, nothing is left pressed.                       *)
THEOREM ExitAlwaysReleases == MonSpec => []ExitReleasesAll
<1>1. MonInv => ExitReleasesAll
  <2> SUFFICES ASSUME MonInv, configPc = "exited", consumerPc = "exited", AllSent
               PROVE  view = {} /\ ~voiceShown
    BY DEF ExitReleasesAll
  <2>1. Union(held) = {}
    BY Facts DEF MonInv, HoldOK, Union
  <2>2. view \subseteq Union(held)
    BY DEF MonInv, PhantomInv, PrevIsUnion, ReleaseOnItsWay, AllSent, Sent, NoEvents
  <2>3. ~voiceShown
    BY DEF MonInv, VoiceOK
  <2> QED BY <2>1, <2>2, <2>3
<1> QED BY <1>1, MonAlways, PTL

(* A key the ledger holds is not shown released, not even for an instant.  *)
THEOREM HeldAlwaysPressed == MonSpec => HeldStaysPressed
<1>1. MonInv /\ [MonNext]_monVars
      => (consumerPc # "leave" =>
             \A k \in ledger \cap Ordinary : Exclusive(k) /\ k \in view => k \in view')
  <2> SUFFICES ASSUME MonInv, [MonNext]_monVars, consumerPc # "leave",
                      NEW k \in ledger \cap Ordinary, Exclusive(k), k \in view, k \notin view'
               PROVE  FALSE
    OBVIOUS
  <2> USE Facts
  <2>1. PICK s \in Source : SendReleased(s, k)
    <3>1. \E s \in Source : Send(s)
      <4>1. CASE ReportBatch \/ LeaveConsumer \/ LeaveConfig \/ ReadMask
        BY <4>1 DEF ReportBatch, LeaveConsumer, LeaveConfig, ReadMask, Report
      <4>2. CASE ReadConsumer \/ FinishFrame \/ ConsumerGone \/ ReadStatus
        BY <4>2 DEF ReadConsumer, FinishFrame, ConsumerGone, ReadStatus, aggVars
      <4>3. CASE Board \/ StopMonitor \/ UNCHANGED monVars
        BY <4>3 DEF Board, Press, Release, Turn, Stray, WindowEnds, StopMonitor, monVars, aggVars
      <4> QED BY <4>1, <4>2, <4>3 DEF MonNext, ConsumerThread, ConfigThread, SendEvent
    <3> QED BY <3>1 DEF Send, SendReleased, SendPressed, SendCombo
  <2>2. k \in outbox[s].released
    BY <2>1 DEF SendReleased, IsLeast
  <2>3. k \in Reportable[s] /\ k \in Reportable[Consumer]
    BY <2>2 DEF MonInv, HoldOK
  <2>4. s = Consumer
    BY <2>3 DEF Exclusive
  <2> QED BY <2>2, <2>4 DEF MonInv, HoldOK
<1>2. []MonInv /\ [][MonNext]_monVars => HeldStaysPressed
  BY <1>1, PTL DEF HeldStaysPressed
<1> QED BY <1>2, MonAlways, PTL DEF MonSpec

-----------------------------------------------------------------------------
(* What is shown follows the hand                                          *)
(*                                                                         *)
(* The frames on the wire stand between the hand and the ledger.  Either   *)
(* the ledger already shows what the hand did, and no frame waits that     *)
(* would undo it, or the frame that will bring it about waits, with none   *)
(* after it that undoes it.                                                *)

\* No frame of Y waits; an X frame waits and no Y frame after it.
Without(w, Y) == \A i \in 1 .. Len(w) : w[i] \notin Y
Since(w, X, Y) ==
    \E i \in 1 .. Len(w) : w[i] \in X /\ \A m \in i + 1 .. Len(w) : w[m] \notin Y

\* After n frames of w the ledger takes a 0x0000 for a knob step's tail, if it
\* now does so when p.
Open(w, p, n) ==
    \/ p /\ \A m \in 1 .. n : w[m] = Other
    \/ \E j \in 1 .. n : w[j] \in Knob /\ \A m \in j + 1 .. n : w[m] = Other

\* Each 0x0000 on the wire will be taken for what it is.
TailsTold(w, p) ==
    \A i \in 1 .. Len(w) :
        /\ w[i] = KnobUp => Open(w, p, i - 1)
        /\ w[i] = AllUp => ~Open(w, p, i - 1)

TailsOK ==
    /\ pulse \in BOOLEAN /\ lost \in BOOLEAN
    /\ TailsTold(wire, pulse)
    /\ lost \/ ~Open(wire, pulse, Len(wire))

HandOK ==
    /\ \A k \in down : \/ k \in ledger /\ Without(wire, {AllUp})
                       \/ Since(wire, {k}, {AllUp})
    /\ down = {} => \/ ledger = {} /\ Without(wire, Ordinary)
                    \/ Since(wire, {AllUp}, Ordinary)

\* The contact that is closed, and the one monitor_consumer_loop believes so.
SwitchOK ==
    /\ \A d, e \in down \cap Endpoint : d = e
    /\ endpoint = None \/ endpoint \in ledger \cap Endpoint
    /\ \A e \in down \cap Endpoint :
          \/ endpoint = e /\ Without(wire, Endpoint \cup {AllUp})
          \/ Since(wire, {e}, Endpoint \cup {AllUp})

\* The last mode report on the Config interface is the switch's position.
StatusOK ==
    /\ status \in Seq(Mode)
    /\ status # <<>> =>
          \/ status[Len(status)] \in down
          \/ status[Len(status)] = Chat /\ down \cap Endpoint = {}

\* With no such report waiting, the Consumer thread has told the mode, or is
\* about to.
ModeOK ==
    /\ modeChange \in Endpoint => endpoint = modeChange
    /\ modeChange = Chat => endpoint = None
    /\ modeChange \in Mode \cup {None} /\ modeShown \in Mode \cup {None}
    /\ modeChange # None => consumerPc = "report"
    /\ status = <<>> =>
          /\ \A e \in down \cap Endpoint :
                modeShown = e \/ modeChange = e \/ ~Without(wire, Endpoint)
          /\ down \cap Endpoint = {} /\ modeShown \in Endpoint
                => endpoint # None \/ modeChange = Chat \/ ~Without(wire, Endpoint)

\* The frame's batches end with the ledger, which so is what is held.
BatchOK ==
    consumerPc \in {"read", "report"} =>
        /\ batches = <<>> => held[Consumer] = ledger
        /\ batches # <<>> => batches[Len(batches)] = ledger

FollowInv == TailsOK /\ HandOK /\ SwitchOK /\ StatusOK /\ ModeOK /\ BatchOK

(* A frame is sent: what is true of the longer wire.                       *)
LEMMA Appended ==
    ASSUME NEW S, NEW w \in Seq(S), NEW x \in S
    PROVE  /\ Append(w, x) \in Seq(S) /\ Len(w) \in Nat
           /\ Len(Append(w, x)) = Len(w) + 1
           /\ \A i \in 1 .. Len(w) : Append(w, x)[i] = w[i]
           /\ Append(w, x)[Len(w) + 1] = x
OBVIOUS

LEMMA SinceAppended ==
    ASSUME NEW w \in Seq(BoardFrame), NEW x \in BoardFrame, NEW X, NEW Y
    PROVE  /\ Without(Append(w, x), Y) <=> x \notin Y /\ Without(w, Y)
           /\ Since(Append(w, x), X, Y) <=> x \in X \/ (x \notin Y /\ Since(w, X, Y))
<1> DEFINE z == Append(w, x)
<1>1. /\ Len(w) \in Nat /\ Len(z) = Len(w) + 1 /\ z[Len(w) + 1] = x
      /\ \A i \in 1 .. Len(w) : z[i] = w[i]
  BY Appended
<1> HIDE DEF z
<1>2. Without(z, Y) <=> x \notin Y /\ Without(w, Y)
  BY <1>1 DEF Without
<1>3. ASSUME x \in X PROVE Since(z, X, Y)
  <2>1. Len(w) + 1 \in 1 .. Len(z) /\ \A m \in (Len(w) + 1) + 1 .. Len(z) : FALSE
    BY <1>1
  <2> QED BY <1>1, <1>3, <2>1 DEF Since
<1>4. ASSUME x \notin Y, Since(w, X, Y) PROVE Since(z, X, Y)
  <2>1. PICK i \in 1 .. Len(w) : w[i] \in X /\ \A m \in i + 1 .. Len(w) : w[m] \notin Y
    BY <1>4 DEF Since
  <2>2. i \in 1 .. Len(z) /\ z[i] \in X
    BY <1>1, <2>1
  <2>3. \A m \in i + 1 .. Len(z) : z[m] \notin Y
    BY <1>1, <1>4, <2>1
  <2> QED BY <2>2, <2>3 DEF Since
<1>5. ASSUME Since(z, X, Y), x \notin X PROVE x \notin Y /\ Since(w, X, Y)
  <2>1. PICK i \in 1 .. Len(z) : z[i] \in X /\ \A m \in i + 1 .. Len(z) : z[m] \notin Y
    BY <1>5 DEF Since
  <2>2. i \in 1 .. Len(w)
    BY <1>1, <1>5, <2>1
  <2>3. Len(w) + 1 \in i + 1 .. Len(z) /\ w[i] \in X
    BY <1>1, <2>1, <2>2
  <2>4. \A m \in i + 1 .. Len(w) : w[m] \notin Y
    BY <1>1, <2>1, <2>2
  <2> QED BY <1>1, <2>1, <2>2, <2>3, <2>4 DEF Since
<1> QED BY <1>2, <1>3, <1>4, <1>5 DEF z

(* A frame stands before the others: w is what remains when v is read.     *)
LEMMA Prefixed ==
    ASSUME NEW v \in BoardFrame, NEW w \in Seq(BoardFrame)
    PROVE  /\ <<v>> \o w \in Seq(BoardFrame) /\ Len(w) \in Nat
           /\ Len(<<v>> \o w) = Len(w) + 1 /\ (<<v>> \o w)[1] = v
           /\ \A i \in 1 .. Len(w) : (<<v>> \o w)[i + 1] = w[i]
           /\ \A i \in 2 .. Len(w) + 1 : (<<v>> \o w)[i] = w[i - 1]
<1>1. <<v>> \in Seq(BoardFrame) /\ Len(<<v>>) = 1 /\ <<v>>[1] = v
  OBVIOUS
<1> QED BY <1>1, ConcatProperties

LEMMA ReadIsPrefixed ==
    ASSUME NEW w \in Seq(BoardFrame), w # <<>>
    PROVE  /\ Head(w) \in BoardFrame /\ Tail(w) \in Seq(BoardFrame)
           /\ <<Head(w)>> \o Tail(w) = w
<1>1. Head(w) \in BoardFrame /\ Tail(w) \in Seq(BoardFrame) /\ Head(w) = w[1]
      /\ Len(w) \in Nat /\ Len(w) >= 1 /\ Len(Tail(w)) = Len(w) - 1
      /\ \A i \in 1 .. Len(w) - 1 : Tail(w)[i] = w[i + 1]
  OBVIOUS
<1>2. <<Head(w)>> \o Tail(w) \in Seq(BoardFrame) /\ Len(<<Head(w)>> \o Tail(w)) = Len(w)
  BY <1>1, Prefixed
<1>3. \A i \in 1 .. Len(w) : (<<Head(w)>> \o Tail(w))[i] = w[i]
  <2> SUFFICES ASSUME NEW i \in 1 .. Len(w) PROVE (<<Head(w)>> \o Tail(w))[i] = w[i] OBVIOUS
  <2>1. CASE i = 1
    BY <1>1, <2>1, Prefixed
  <2>2. CASE i # 1
    <3>1. i \in 2 .. Len(Tail(w)) + 1 /\ i - 1 \in 1 .. Len(w) - 1
      BY <1>1, <2>2
    <3> QED BY <1>1, <3>1, Prefixed
  <2> QED BY <2>1, <2>2
<1> QED BY <1>1, <1>2, <1>3, SeqEqual

LEMMA SincePrefixed ==
    ASSUME NEW v \in BoardFrame, NEW w \in Seq(BoardFrame), NEW X, NEW Y
    PROVE  /\ Without(<<v>> \o w, Y) <=> v \notin Y /\ Without(w, Y)
           /\ Since(<<v>> \o w, X, Y) <=> (v \in X /\ Without(w, Y)) \/ Since(w, X, Y)
<1> DEFINE z == <<v>> \o w
<1>1. /\ Len(w) \in Nat /\ Len(z) = Len(w) + 1 /\ z[1] = v
      /\ \A i \in 1 .. Len(w) : z[i + 1] = w[i]
      /\ \A i \in 2 .. Len(w) + 1 : z[i] = w[i - 1]
  BY Prefixed
<1> HIDE DEF z
<1>2. \A i \in 1 .. Len(w) :
         (\A m \in i + 1 .. Len(w) : w[m] \notin Y) <=> (\A m \in i + 2 .. Len(z) : z[m] \notin Y)
  <2> TAKE i \in 1 .. Len(w)
  <2>1. ASSUME \A m \in i + 1 .. Len(w) : w[m] \notin Y, NEW m \in i + 2 .. Len(z) PROVE z[m] \notin Y
    <3>1. m - 1 \in i + 1 .. Len(w) /\ m \in 2 .. Len(w) + 1
      BY <1>1
    <3> QED BY <1>1, <2>1, <3>1
  <2>2. ASSUME \A m \in i + 2 .. Len(z) : z[m] \notin Y, NEW m \in i + 1 .. Len(w) PROVE w[m] \notin Y
    <3>1. m + 1 \in i + 2 .. Len(z) /\ m \in 1 .. Len(w)
      BY <1>1
    <3> QED BY <1>1, <2>2, <3>1
  <2> QED BY <2>1, <2>2
<1>3. Without(z, Y) <=> v \notin Y /\ Without(w, Y)
  <2>1. ASSUME Without(z, Y) PROVE v \notin Y /\ Without(w, Y)
    <3>1. 1 \in 1 .. Len(z) /\ \A i \in 1 .. Len(w) : i + 1 \in 1 .. Len(z)
      BY <1>1
    <3> QED BY <1>1, <2>1, <3>1 DEF Without
  <2>2. ASSUME v \notin Y, Without(w, Y) PROVE Without(z, Y)
    <3>1. \A i \in 1 .. Len(z) : i = 1 \/ (i \in 2 .. Len(w) + 1 /\ i - 1 \in 1 .. Len(w))
      BY <1>1
    <3> QED BY <1>1, <2>2, <3>1 DEF Without
  <2> QED BY <2>1, <2>2
<1>4. ASSUME v \in X, Without(w, Y) PROVE Since(z, X, Y)
  <2>1. \A m \in 2 .. Len(z) : m \in 2 .. Len(w) + 1 /\ m - 1 \in 1 .. Len(w)
    BY <1>1
  <2>2. \A m \in 2 .. Len(z) : z[m] \notin Y
    BY <1>1, <1>4, <2>1 DEF Without
  <2>3. 1 \in 1 .. Len(z) /\ 1 + 1 = 2
    BY <1>1
  <2> QED BY <1>1, <1>4, <2>2, <2>3 DEF Since
<1>5. ASSUME Since(w, X, Y) PROVE Since(z, X, Y)
  <2>1. PICK i \in 1 .. Len(w) : w[i] \in X /\ \A m \in i + 1 .. Len(w) : w[m] \notin Y
    BY <1>5 DEF Since
  <2>2. i + 1 \in 1 .. Len(z) /\ z[i + 1] \in X /\ (i + 1) + 1 = i + 2
    BY <1>1, <2>1
  <2>3. \A m \in (i + 1) + 1 .. Len(z) : z[m] \notin Y
    BY <1>2, <2>1, <2>2
  <2> QED BY <2>2, <2>3 DEF Since
<1>6. ASSUME Since(z, X, Y) PROVE (v \in X /\ Without(w, Y)) \/ Since(w, X, Y)
  <2>1. PICK i \in 1 .. Len(z) : z[i] \in X /\ \A m \in i + 1 .. Len(z) : z[m] \notin Y
    BY <1>6 DEF Since
  <2>2. CASE i = 1
    <3>1. \A m \in 1 .. Len(w) : m + 1 \in i + 1 .. Len(z)
      BY <1>1, <2>2
    <3>2. \A m \in 1 .. Len(w) : w[m] \notin Y
      BY <1>1, <2>1, <3>1
    <3> QED BY <1>1, <2>1, <2>2, <3>2 DEF Without
  <2>3. CASE i # 1
    <3> DEFINE h == i - 1
    <3>1. h \in 1 .. Len(w) /\ i \in 2 .. Len(w) + 1 /\ h + 2 = i + 1
      BY <1>1, <2>3
    <3>2. w[h] \in X
      BY <1>1, <2>1, <3>1
    <3> HIDE DEF h
    <3>3. \A m \in h + 1 .. Len(w) : w[m] \notin Y
      BY <1>2, <2>1, <3>1
    <3> QED BY <3>1, <3>2, <3>3 DEF Since
  <2> QED BY <2>2, <2>3
<1> QED BY <1>3, <1>4, <1>5, <1>6 DEF z

(* Which 0x0000 is a tail depends on the frames before it alone.           *)
LEMMA OpenAppended ==
    ASSUME NEW w \in Seq(BoardFrame), NEW x \in BoardFrame, NEW p
    PROVE  /\ \A n \in 0 .. Len(w) : Open(Append(w, x), p, n) <=> Open(w, p, n)
           /\ x \notin Knob \cup {Other} => ~Open(Append(w, x), p, Len(w) + 1)
           /\ x \in Knob => Open(Append(w, x), p, Len(w) + 1)
<1> DEFINE z == Append(w, x)
<1>1. /\ Len(w) \in Nat /\ Len(z) = Len(w) + 1 /\ z[Len(w) + 1] = x
      /\ \A i \in 1 .. Len(w) : z[i] = w[i]
  BY Appended
<1> HIDE DEF z
<1>2. ASSUME NEW n \in 0 .. Len(w) PROVE Open(z, p, n) <=> Open(w, p, n)
  <2>1. \A m \in 1 .. n : z[m] = w[m]
    BY <1>1
  <2>2. \A j \in 1 .. n : \A m \in j + 1 .. n : z[m] = w[m]
    BY <2>1
  <2> QED BY <2>1, <2>2 DEF Open
<1>3. ASSUME x \notin Knob \cup {Other}, Open(z, p, Len(w) + 1) PROVE FALSE
  <2>1. Len(w) + 1 \in 1 .. Len(w) + 1 /\ z[Len(w) + 1] \notin Knob \cup {Other}
    BY <1>1, <1>3
  <2>2. PICK j \in 1 .. Len(w) + 1 : z[j] \in Knob /\ \A m \in j + 1 .. Len(w) + 1 : z[m] = Other
    BY <1>3, <2>1 DEF Open
  <2>3. j = Len(w) + 1 \/ Len(w) + 1 \in j + 1 .. Len(w) + 1
    BY <1>1, <2>2
  <2> QED BY <2>1, <2>2, <2>3
<1>4. ASSUME x \in Knob PROVE Open(z, p, Len(w) + 1)
  <2>1. Len(w) + 1 \in 1 .. Len(w) + 1 /\ \A m \in (Len(w) + 1) + 1 .. Len(w) + 1 : FALSE
    BY <1>1
  <2> QED BY <1>1, <1>4, <2>1 DEF Open
<1> QED BY <1>2, <1>3, <1>4 DEF z

LEMMA OpenPrefixed ==
    ASSUME NEW v \in BoardFrame, NEW w \in Seq(BoardFrame), NEW p \in BOOLEAN, NEW q \in BOOLEAN,
           q <=> v \in Knob \/ (p /\ v = Other),
           NEW n \in 0 .. Len(w)
    PROVE  Open(<<v>> \o w, p, n + 1) <=> Open(w, q, n)
<1> DEFINE z == <<v>> \o w
<1>1. /\ Len(w) \in Nat /\ Len(z) = Len(w) + 1 /\ z[1] = v
      /\ \A i \in 1 .. Len(w) : z[i + 1] = w[i]
      /\ \A i \in 2 .. Len(w) + 1 : z[i] = w[i - 1]
  BY Prefixed
<1> HIDE DEF z
<1>2. ASSUME NEW i \in 0 .. n
      PROVE  (\A m \in i + 1 .. n : w[m] = Other) <=> (\A m \in i + 2 .. n + 1 : z[m] = Other)
  <2>1. ASSUME \A m \in i + 1 .. n : w[m] = Other, NEW m \in i + 2 .. n + 1 PROVE z[m] = Other
    <3>1. m - 1 \in i + 1 .. n /\ m \in 2 .. Len(w) + 1
      BY <1>1
    <3> QED BY <1>1, <2>1, <3>1
  <2>2. ASSUME \A m \in i + 2 .. n + 1 : z[m] = Other, NEW m \in i + 1 .. n PROVE w[m] = Other
    <3>1. m + 1 \in i + 2 .. n + 1 /\ m \in 1 .. Len(w)
      BY <1>1
    <3> QED BY <1>1, <2>2, <3>1
  <2> QED BY <2>1, <2>2
<1>3. (\A m \in 1 .. n : w[m] = Other) <=> (\A m \in 2 .. n + 1 : z[m] = Other)
  <2>1. 0 \in 0 .. n /\ 0 + 1 = 1 /\ 0 + 2 = 2
    BY <1>1
  <2> QED BY <1>2, <2>1
<1>4. (\A m \in 1 .. n + 1 : z[m] = Other) <=> v = Other /\ \A m \in 2 .. n + 1 : z[m] = Other
  <2>1. \A m \in 1 .. n + 1 : m = 1 \/ m \in 2 .. n + 1
    BY <1>1
  <2>2. 1 \in 1 .. n + 1 /\ \A m \in 2 .. n + 1 : m \in 1 .. n + 1
    BY <1>1
  <2> QED BY <1>1, <2>1, <2>2
<1>5. (\E j \in 1 .. n + 1 : z[j] \in Knob /\ \A m \in j + 1 .. n + 1 : z[m] = Other)
      <=> \/ v \in Knob /\ \A m \in 2 .. n + 1 : z[m] = Other
          \/ \E j \in 1 .. n : w[j] \in Knob /\ \A m \in j + 1 .. n : w[m] = Other
  <2>1. ASSUME NEW j \in 1 .. n + 1, z[j] \in Knob, \A m \in j + 1 .. n + 1 : z[m] = Other
        PROVE  \/ v \in Knob /\ \A m \in 2 .. n + 1 : z[m] = Other
               \/ \E h \in 1 .. n : w[h] \in Knob /\ \A m \in h + 1 .. n : w[m] = Other
    <3>1. CASE j = 1
      BY <1>1, <2>1, <3>1
    <3>2. CASE j # 1
      <4>1. PICK h \in 1 .. n : h + 1 = j
        <5>1. j - 1 \in 1 .. n /\ (j - 1) + 1 = j
          BY <3>2
        <5> QED BY <5>1
      <4>2. w[h] \in Knob /\ h \in 0 .. n /\ h + 2 = j + 1
        BY <1>1, <2>1, <4>1
      <4>3. \A m \in h + 1 .. n : w[m] = Other
        BY <1>2, <2>1, <4>2
      <4> QED BY <4>2, <4>3
    <3> QED BY <3>1, <3>2
  <2>2. ASSUME v \in Knob, \A m \in 2 .. n + 1 : z[m] = Other
        PROVE  \E j \in 1 .. n + 1 : z[j] \in Knob /\ \A m \in j + 1 .. n + 1 : z[m] = Other
    <3>1. 1 \in 1 .. n + 1 /\ 1 + 1 = 2
      BY <1>1
    <3> QED BY <1>1, <2>2, <3>1
  <2>3. ASSUME NEW j \in 1 .. n, w[j] \in Knob, \A m \in j + 1 .. n : w[m] = Other
        PROVE  \E h \in 1 .. n + 1 : z[h] \in Knob /\ \A m \in h + 1 .. n + 1 : z[m] = Other
    <3>1. j + 1 \in 1 .. n + 1 /\ z[j + 1] \in Knob /\ j \in 0 .. n /\ j + 2 = (j + 1) + 1
      BY <1>1, <2>3
    <3>2. \A m \in (j + 1) + 1 .. n + 1 : z[m] = Other
      BY <1>2, <2>3, <3>1
    <3> QED BY <3>1, <3>2
  <2> QED BY <2>1, <2>2, <2>3
<1> QED BY <1>3, <1>4, <1>5 DEF z, Open

LEMMA TailsAppended ==
    ASSUME NEW w \in Seq(BoardFrame), NEW x \in BoardFrame, NEW p, TailsTold(w, p),
           x = KnobUp => Open(w, p, Len(w)),
           x = AllUp => ~Open(w, p, Len(w))
    PROVE  TailsTold(Append(w, x), p)
<1> DEFINE z == Append(w, x)
<1>1. /\ Len(w) \in Nat /\ Len(z) = Len(w) + 1 /\ z[Len(w) + 1] = x
      /\ \A i \in 1 .. Len(w) : z[i] = w[i]
  BY Appended
<1>0. \A n \in 0 .. Len(w) : Open(z, p, n) <=> Open(w, p, n)
  BY OpenAppended
<1> HIDE DEF z
<1> SUFFICES ASSUME NEW i \in 1 .. Len(z)
             PROVE  (z[i] = KnobUp => Open(z, p, i - 1)) /\ (z[i] = AllUp => ~Open(z, p, i - 1))
  BY DEF TailsTold, z
<1>2. i - 1 \in 0 .. Len(w)
  BY <1>1
<1>3. CASE i \in 1 .. Len(w)
  <2>1. z[i] = w[i] /\ (Open(z, p, i - 1) <=> Open(w, p, i - 1))
    BY <1>0, <1>1, <1>2, <1>3
  <2>2. (w[i] = KnobUp => Open(w, p, i - 1)) /\ (w[i] = AllUp => ~Open(w, p, i - 1))
    BY <1>3 DEF TailsTold
  <2> QED BY <2>1, <2>2
<1>4. CASE i = Len(w) + 1
  <2>1. i - 1 = Len(w)
    BY <1>1, <1>4
  <2>2. Open(z, p, i - 1) <=> Open(w, p, Len(w))
    BY <1>0, <1>2, <2>1
  <2> QED BY <1>1, <1>4, <2>2
<1> QED BY <1>1, <1>3, <1>4

LEMMA TailsPrefixed ==
    ASSUME NEW v \in BoardFrame, NEW w \in Seq(BoardFrame), NEW p \in BOOLEAN, NEW q \in BOOLEAN,
           q <=> v \in Knob \/ (p /\ v = Other)
    PROVE  TailsTold(<<v>> \o w, p)
           <=> /\ v = KnobUp => p
               /\ v = AllUp => ~p
               /\ TailsTold(w, q)
<1> DEFINE z == <<v>> \o w
<1>1. /\ Len(w) \in Nat /\ Len(z) = Len(w) + 1 /\ z[1] = v
      /\ \A i \in 1 .. Len(w) : z[i + 1] = w[i]
      /\ \A n \in 0 .. Len(w) : Open(z, p, n + 1) <=> Open(w, q, n)
  BY Prefixed, OpenPrefixed
<1> HIDE DEF z
<1>2. ASSUME NEW i \in 1 .. Len(w)
      PROVE  /\ i + 1 \in 1 .. Len(z) /\ z[i + 1] = w[i]
             /\ Open(z, p, (i + 1) - 1) <=> Open(w, q, i - 1)
  <2>1. i - 1 \in 0 .. Len(w) /\ (i - 1) + 1 = (i + 1) - 1
    BY <1>1
  <2> QED BY <1>1, <2>1
<1>3. Open(z, p, 1 - 1) <=> p
  <2>1. \A m \in 1 .. 1 - 1 : FALSE
    OBVIOUS
  <2> QED BY <2>1 DEF Open
<1>4. ASSUME TailsTold(z, p)
      PROVE (v = KnobUp => p) /\ (v = AllUp => ~p) /\ TailsTold(w, q)
  <2>1. 1 \in 1 .. Len(z)
    BY <1>1
  <2>2. (v = KnobUp => p) /\ (v = AllUp => ~p)
    BY <1>1, <1>3, <1>4, <2>1 DEF TailsTold
  <2>3. ASSUME NEW i \in 1 .. Len(w)
        PROVE  (w[i] = KnobUp => Open(w, q, i - 1)) /\ (w[i] = AllUp => ~Open(w, q, i - 1))
    <3>1. /\ i + 1 \in 1 .. Len(z) /\ z[i + 1] = w[i]
          /\ Open(z, p, (i + 1) - 1) <=> Open(w, q, i - 1)
      BY <1>2
    <3>2. /\ z[i + 1] = KnobUp => Open(z, p, (i + 1) - 1)
          /\ z[i + 1] = AllUp => ~Open(z, p, (i + 1) - 1)
      BY <1>4, <3>1 DEF TailsTold
    <3> QED BY <3>1, <3>2
  <2> QED BY <2>2, <2>3 DEF TailsTold
<1>5. ASSUME v = KnobUp => p, v = AllUp => ~p, TailsTold(w, q) PROVE TailsTold(z, p)
  <2> SUFFICES ASSUME NEW i \in 1 .. Len(z)
               PROVE  (z[i] = KnobUp => Open(z, p, i - 1)) /\ (z[i] = AllUp => ~Open(z, p, i - 1))
    BY DEF TailsTold
  <2>1. CASE i = 1
    BY <1>1, <1>3, <1>5, <2>1
  <2>2. CASE i # 1
    <3>1. PICK j \in 1 .. Len(w) : j + 1 = i
      <4>1. i - 1 \in 1 .. Len(w) /\ (i - 1) + 1 = i
        BY <1>1, <2>2
      <4> QED BY <4>1
    <3>2. z[i] = w[j] /\ (Open(z, p, i - 1) <=> Open(w, q, j - 1))
      BY <1>2, <3>1
    <3>3. (w[j] = KnobUp => Open(w, q, j - 1)) /\ (w[j] = AllUp => ~Open(w, q, j - 1))
      BY <1>5 DEF TailsTold
    <3> QED BY <3>2, <3>3
  <2> QED BY <2>1, <2>2
<1> QED BY <1>4, <1>5 DEF z

-----------------------------------------------------------------------------
(* FollowInv is kept                                                       *)

LEMMA FrameFacts ==
    /\ Ordinary \subseteq BoardFrame /\ Knob \subseteq BoardFrame
    /\ {AllUp, KnobUp, Other} \subseteq BoardFrame
    /\ Knob \cap Ordinary = {} /\ Endpoint \subseteq Ordinary /\ None \notin Mode
    /\ AllUp \notin Ordinary \cup Knob /\ KnobUp \notin Ordinary \cup Knob
    /\ Other \notin Ordinary \cup Knob /\ Chat \notin Ordinary \cup Knob
    /\ AllUp # KnobUp /\ Other # AllUp /\ Other # KnobUp
    /\ Mode = Endpoint \cup {Chat}
BY Facts, EndpointAssumption, NoneAssumption, FrameAssumption DEF Ordinary, Mode, BoardFrame

LEMMA FollowStarts == MonInit => FollowInv
<1> SUFFICES ASSUME MonInit PROVE FollowInv OBVIOUS
<1>1. \A i \in 1 .. Len(<<>>) : FALSE
  OBVIOUS
<1>2. ~Open(<<>>, FALSE, Len(<<>>))
  BY <1>1 DEF Open
<1>3. TailsOK /\ HandOK /\ SwitchOK
  BY <1>1, <1>2, FrameFacts DEF MonInit, TailsOK, TailsTold, HandOK, SwitchOK, Without
<1>4. StatusOK /\ ModeOK /\ BatchOK
  BY FrameFacts, Facts DEF MonInit, AggInit, StatusOK, ModeOK, BatchOK
<1> QED BY <1>3, <1>4 DEF FollowInv

(* A key or a contact closes: its frame is the last on the wire.           *)
LEMMA PressFollows ==
    ASSUME MonInv, FollowInv, NEW k \in Ordinary, Press(k) PROVE FollowInv'
<1> USE FrameFacts DEF MonInv, WireOK, FollowInv
<1>1. /\ k \in BoardFrame /\ wire \in Seq(BoardFrame)
      /\ down' = down \cup {k} /\ wire' = Append(wire, k)
      /\ UNCHANGED <<held, ledger, pulse, endpoint, lost, consumerPc, batches, modeChange, modeShown>>
  BY DEF Press, aggVars, frame, tracker, shown
<1>2. /\ k \in Endpoint => down \cap Endpoint = {} /\ status' = Append(status, k)
      /\ k \notin Endpoint => status' = status
  BY DEF Press
<1>3. /\ \A Y : Without(wire', Y) <=> k \notin Y /\ Without(wire, Y)
      /\ \A X, Y : Since(wire', X, Y) <=> k \in X \/ (k \notin Y /\ Since(wire, X, Y))
  BY <1>1, SinceAppended
<1>4. TailsOK'
  <2>1. TailsTold(wire', pulse)
    BY <1>1, TailsAppended DEF TailsOK
  <2>2. ~Open(wire', pulse, Len(wire'))
    BY <1>1, OpenAppended, Appended
  <2> QED BY <1>1, <2>1, <2>2 DEF TailsOK
<1>5. HandOK'
  BY <1>1, <1>3 DEF HandOK
<1>6. SwitchOK'
  <2>1. CASE k \in Endpoint
    <3>1. down' \cap Endpoint = {k} /\ Since(wire', {k}, Endpoint \cup {AllUp})
      BY <1>1, <1>2, <1>3, <2>1
    <3> QED BY <1>1, <3>1 DEF SwitchOK
  <2>2. CASE k \notin Endpoint
    <3>1. down' \cap Endpoint = down \cap Endpoint /\ k \notin Endpoint \cup {AllUp}
      BY <1>1, <2>2
    <3>2. /\ Without(wire, Endpoint \cup {AllUp}) => Without(wire', Endpoint \cup {AllUp})
          /\ \A X : Since(wire, X, Endpoint \cup {AllUp}) => Since(wire', X, Endpoint \cup {AllUp})
      BY <1>3, <3>1
    <3> QED BY <1>1, <3>1, <3>2 DEF SwitchOK
  <2> QED BY <2>1, <2>2
<1>7. StatusOK'
  <2>1. CASE k \in Endpoint
    <3>1. status' \in Seq(Mode) /\ status' # <<>> /\ status'[Len(status')] = k
      BY <1>2, <2>1, AppendProperties DEF StatusOK
    <3> QED BY <1>1, <3>1 DEF StatusOK
  <2>2. CASE k \notin Endpoint
    BY <1>1, <1>2, <2>2 DEF StatusOK
  <2> QED BY <2>1, <2>2
<1>8. ModeOK'
  <2>1. CASE k \in Endpoint
    <3>1. status' # <<>>
      BY <1>2, <2>1, AppendProperties DEF StatusOK
    <3> QED BY <1>1, <3>1 DEF ModeOK
  <2>2. CASE k \notin Endpoint
    <3>1. down' \cap Endpoint = down \cap Endpoint /\ status' = status
          /\ (Without(wire', Endpoint) <=> Without(wire, Endpoint))
      BY <1>1, <1>2, <1>3, <2>2
    <3> QED BY <1>1, <3>1 DEF ModeOK
  <2> QED BY <2>1, <2>2
<1>9. BatchOK'
  BY <1>1 DEF BatchOK
<1> QED BY <1>4, <1>5, <1>6, <1>7, <1>8, <1>9

(* The last key up sends AllUp; no tail is outstanding that could be taken *)
(* for it.                                                                 *)
LEMMA ReleaseFollows ==
    ASSUME MonInv, FollowInv, NEW k \in Ordinary, Release(k) PROVE FollowInv'
<1> USE FrameFacts DEF MonInv, WireOK, FollowInv
<1>1. /\ wire \in Seq(BoardFrame) /\ k \in down /\ down' = down \ {k}
      /\ down' = {} => wire' = Append(wire, AllUp)
      /\ down' # {} => wire' = wire
      /\ UNCHANGED <<held, ledger, pulse, endpoint, lost, consumerPc, batches, modeChange, modeShown>>
  BY DEF Release, aggVars, frame, tracker, shown
<1>2. /\ k \in Endpoint => status' = Append(status, Chat)
      /\ k \notin Endpoint => status' = status
  BY DEF Release
<1>3. ASSUME down' = {}
      PROVE  /\ \A Y : Without(wire', Y) <=> AllUp \notin Y /\ Without(wire, Y)
             /\ \A X, Y : Since(wire', X, Y) <=> AllUp \in X \/ (AllUp \notin Y /\ Since(wire, X, Y))
  <2>1. AllUp \in BoardFrame /\ wire' = Append(wire, AllUp)
    BY <1>1, <1>3
  <2> QED BY <1>1, <2>1, SinceAppended
<1>4. TailsOK'
  <2>1. ~Open(wire, pulse, Len(wire))
    <3>1. CASE lost
      <4>1. ~pulse /\ \A i \in 1 .. Len(wire) : wire[i] \notin Knob
        BY <3>1 DEF Release, KnobPending
      <4> QED BY <4>1 DEF Open
    <3>2. CASE ~lost
      BY <3>2 DEF TailsOK
    <3> QED BY <3>1, <3>2
  <2>2. CASE down' # {}
    BY <1>1, <2>2 DEF TailsOK
  <2>3. CASE down' = {}
    <3>1. TailsTold(wire', pulse)
      BY <1>1, <2>1, <2>3, TailsAppended DEF TailsOK
    <3>2. ~Open(wire', pulse, Len(wire'))
      <4>1. AllUp \in BoardFrame /\ wire' = Append(wire, AllUp)
        BY <1>1, <2>3
      <4>2. Len(wire') = Len(wire) + 1 /\ AllUp \notin Knob \cup {Other}
        BY <1>1, <4>1, Appended
      <4> QED BY <1>1, <4>1, <4>2, OpenAppended
    <3> QED BY <1>1, <3>1, <3>2 DEF TailsOK
  <2> QED BY <2>2, <2>3
<1>5. HandOK'
  <2>1. CASE down' = {}
    BY <1>1, <1>3, <2>1 DEF HandOK
  <2>2. CASE down' # {}
    BY <1>1, <2>2 DEF HandOK
  <2> QED BY <2>1, <2>2
<1>6. SwitchOK'
  <2>1. CASE down' = {}
    BY <1>1, <2>1 DEF SwitchOK
  <2>2. CASE down' # {}
    <3>1. wire' = wire /\ down' \cap Endpoint \subseteq down \cap Endpoint
      BY <1>1, <2>2
    <3> QED BY <1>1, <3>1 DEF SwitchOK
  <2> QED BY <2>1, <2>2
<1>7. k \in Endpoint => down' \cap Endpoint = {}
  BY <1>1 DEF SwitchOK
<1>8. StatusOK'
  <2>1. CASE k \in Endpoint
    <3>1. status' \in Seq(Mode) /\ status' # <<>> /\ status'[Len(status')] = Chat
      BY <1>2, <2>1, AppendProperties, SMTT(30) DEF StatusOK
    <3> QED BY <1>7, <2>1, <3>1 DEF StatusOK
  <2>2. CASE k \notin Endpoint
    <3>1. down' \cap Endpoint = down \cap Endpoint /\ status' = status
      BY <1>1, <1>2, <2>2
    <3>2. status # <<>> => status[Len(status)] \in Mode
      BY DEF StatusOK
    <3> QED BY <1>1, <3>1, <3>2 DEF StatusOK
  <2> QED BY <2>1, <2>2
<1>9. ModeOK'
  <2>1. CASE k \in Endpoint
    <3>1. status' # <<>>
      BY <1>2, <2>1, AppendProperties DEF StatusOK
    <3> QED BY <1>1, <3>1 DEF ModeOK
  <2>2. CASE k \notin Endpoint
    <3>1. down' \cap Endpoint = down \cap Endpoint /\ status' = status
          /\ (Without(wire', Endpoint) <=> Without(wire, Endpoint))
      BY <1>1, <1>2, <1>3, <2>2
    <3> QED BY <1>1, <3>1 DEF ModeOK
  <2> QED BY <2>1, <2>2
<1>10. BatchOK'
  BY <1>1 DEF BatchOK
<1> QED BY <1>4, <1>5, <1>6, <1>8, <1>9, <1>10

(* Frames that are neither keys' nor 0x0000 of the last key change neither *)
(* what the hand did nor what the ledger will show.                        *)
LEMMA BesideFollows ==
    ASSUME MonInv, FollowInv, TailsOK',
           UNCHANGED <<down, held, ledger, endpoint, status, consumerPc, batches, modeChange, modeShown>>,
           \A X, Y : (Y \subseteq Ordinary \cup {AllUp} /\ X \subseteq Ordinary \cup {AllUp})
                       => /\ Without(wire', Y) <=> Without(wire, Y)
                          /\ Since(wire', X, Y) <=> Since(wire, X, Y)
    PROVE  FollowInv'
<1> USE FrameFacts DEF MonInv, WireOK, FollowInv
<1>1. \A e \in down : {e} \subseteq Ordinary \cup {AllUp}
  OBVIOUS
<1>2. HandOK'
  BY <1>1 DEF HandOK
<1>3. SwitchOK'
  BY <1>1 DEF SwitchOK
<1>4. StatusOK'
  BY DEF StatusOK
<1>5. ModeOK'
  BY DEF ModeOK
<1>6. BatchOK'
  BY DEF BatchOK
<1> QED BY <1>2, <1>3, <1>4, <1>5, <1>6

LEMMA TurnFollows ==
    ASSUME MonInv, FollowInv, NEW k \in Knob, Turn(k) PROVE FollowInv'
<1> USE FrameFacts
<1>1. /\ k \in BoardFrame /\ wire \in Seq(BoardFrame) /\ TailsTold(wire, pulse) /\ pulse \in BOOLEAN
      /\ UNCHANGED <<down, held, ledger, pulse, endpoint, status, consumerPc, batches, modeChange, modeShown>>
  BY DEF Turn, aggVars, frame, tracker, shown, MonInv, WireOK, FollowInv, TailsOK
<1> DEFINE one == Append(wire, k)
           two == Append(one, KnobUp)
<1>2. /\ one \in Seq(BoardFrame) /\ Len(one) = Len(wire) + 1 /\ Len(wire) \in Nat
      /\ TailsTold(one, pulse) /\ Open(one, pulse, Len(one))
  BY <1>1, Appended, OpenAppended, TailsAppended
<1>3. \A X, Y : (Y \subseteq Ordinary \cup {AllUp} /\ X \subseteq Ordinary \cup {AllUp})
                  => /\ Without(one, Y) <=> Without(wire, Y)
                     /\ Since(one, X, Y) <=> Since(wire, X, Y)
  BY <1>1, SinceAppended
<1>4. TailsTold(two, pulse) /\ ~Open(two, pulse, Len(two))
  <2> HIDE DEF one
  <2>1. KnobUp \in BoardFrame /\ KnobUp \notin Knob \cup {Other}
    OBVIOUS
  <2>2. Len(two) = Len(one) + 1
    BY <1>2, <2>1, Appended
  <2>3. TailsTold(two, pulse)
    BY <1>2, <2>1, TailsAppended
  <2>4. ~Open(two, pulse, Len(two))
    BY <1>2, <2>1, <2>2, OpenAppended
  <2> QED BY <2>3, <2>4
<1>5. \A X, Y : (Y \subseteq Ordinary \cup {AllUp} /\ X \subseteq Ordinary \cup {AllUp})
                  => /\ Without(two, Y) <=> Without(one, Y)
                     /\ Since(two, X, Y) <=> Since(one, X, Y)
  <2> HIDE DEF one
  <2> QED BY <1>2, SinceAppended
<1>6. wire \o <<k, KnobUp>> = two
  BY <1>1
<1>7. (lost' = TRUE /\ wire' = one) \/ (lost' = FALSE /\ wire' = two)
  BY <1>6 DEF Turn
<1> HIDE DEF one, two
<1>8. TailsOK'
  BY <1>1, <1>2, <1>4, <1>7 DEF TailsOK
<1>9. \A X, Y : (Y \subseteq Ordinary \cup {AllUp} /\ X \subseteq Ordinary \cup {AllUp})
                  => /\ Without(wire', Y) <=> Without(wire, Y)
                     /\ Since(wire', X, Y) <=> Since(wire, X, Y)
  BY <1>3, <1>5, <1>7
<1> QED BY <1>1, <1>8, <1>9, BesideFollows

LEMMA StrayFollows == ASSUME MonInv, FollowInv, Stray PROVE FollowInv'
<1> USE FrameFacts
<1>1. /\ Other \in BoardFrame /\ wire \in Seq(BoardFrame) /\ wire' = <<Other>> \o wire
      /\ UNCHANGED <<down, lost, held, ledger, pulse, endpoint, status, consumerPc, batches, modeChange, modeShown>>
  BY DEF Stray, aggVars, frame, tracker, shown, MonInv, WireOK
<1>2. TailsOK /\ pulse \in BOOLEAN
  BY DEF FollowInv, TailsOK
<1>3. TailsTold(wire', pulse)
  BY <1>1, <1>2, TailsPrefixed DEF TailsOK
<1>4. Open(wire', pulse, Len(wire')) <=> Open(wire, pulse, Len(wire))
  <2>1. Len(wire') = Len(wire) + 1 /\ Len(wire) \in 0 .. Len(wire)
    BY <1>1, Prefixed
  <2> QED BY <1>1, <1>2, <2>1, OpenPrefixed
<1>5. TailsOK'
  BY <1>1, <1>2, <1>3, <1>4 DEF TailsOK
<1>6. \A X, Y : (Y \subseteq Ordinary \cup {AllUp} /\ X \subseteq Ordinary \cup {AllUp})
                  => /\ Without(wire', Y) <=> Without(wire, Y)
                     /\ Since(wire', X, Y) <=> Since(wire, X, Y)
  BY <1>1, SincePrefixed
<1> QED BY <1>1, <1>5, <1>6, BesideFollows

\* The window ends only once the tail is read, or if it was lost.
LEMMA WindowFollows == ASSUME MonInv, FollowInv, WindowEnds PROVE FollowInv'
<1>1. /\ pulse' = FALSE /\ \A i \in 1 .. Len(wire) : wire[i] # KnobUp
      /\ UNCHANGED <<down, lost, wire, held, ledger, endpoint, status, consumerPc, batches, modeChange, modeShown>>
  <2>1. DOMAIN wire = 1 .. Len(wire)
    BY DEF MonInv, WireOK
  <2> QED BY <2>1 DEF WindowEnds, aggVars, board, frame, shown
<1>2. \A n : Open(wire, FALSE, n) => Open(wire, pulse, n)
  BY DEF Open
<1>3. TailsOK'
  BY <1>1, <1>2 DEF FollowInv, TailsOK, TailsTold
<1> QED BY <1>1, <1>3, BesideFollows

(* The frame read is the one the hand sent first.                          *)
LEMMA ReadFollows == ASSUME MonInv, FollowInv, ReadConsumer PROVE FollowInv'
<1> USE FrameFacts
<1> DEFINE v == Head(wire)
<1>1. /\ wire' \in Seq(BoardFrame) /\ v \in BoardFrame /\ wire = <<v>> \o wire'
      /\ TailFrame(v) \/ ClearFrame(v) \/ UnknownFrame(v) \/ KnobFrame(v) \/ KeyFrame(v)
      /\ ModeFrame(v)
      /\ consumerPc = "read" /\ consumerPc' = "report"
      /\ UNCHANGED <<down, lost, held, status, modeShown>>
  BY ReadIsPrefixed DEF ReadConsumer, aggVars, MonInv, WireOK
<1> HIDE DEF v
<1>2. /\ pulse \in BOOLEAN /\ TailsTold(<<v>> \o wire', pulse) /\ batches = <<>>
      /\ held[Consumer] = ledger /\ modeChange = None /\ down \subseteq Ordinary
  BY <1>1 DEF FollowInv, TailsOK, BatchOK, ModeOK, MonInv, WireOK, LedgerOK
<1>3. /\ pulse' \in BOOLEAN
      /\ pulse' <=> v \in Knob \/ (pulse /\ v = Other)
  <2>1. CASE TailFrame(v)
    BY <1>2, <2>1 DEF TailFrame
  <2>2. CASE ClearFrame(v)
    BY <1>2, <2>2 DEF ClearFrame
  <2>3. CASE UnknownFrame(v)
    BY <1>2, <2>3 DEF UnknownFrame
  <2>4. CASE KnobFrame(v)
    BY <1>2, <2>4 DEF KnobFrame
  <2>5. CASE KeyFrame(v)
    <3>1. v \notin Knob /\ v # Other
      BY <2>5, EndpointAssumption, KnobAssumption, FrameAssumption DEF KeyFrame
    <3> QED BY <2>5, <3>1 DEF KeyFrame
  <2> QED BY <1>1, <2>1, <2>2, <2>3, <2>4, <2>5
<1>4. /\ v = KnobUp => pulse
      /\ v = AllUp => ~pulse
      /\ TailsTold(wire', pulse')
  BY <1>1, <1>2, <1>3, TailsPrefixed
<1>5. Open(wire, pulse, Len(wire)) <=> Open(wire', pulse', Len(wire'))
  <2>1. Len(wire) = Len(wire') + 1 /\ Len(wire') \in 0 .. Len(wire')
    BY <1>1, Prefixed
  <2> QED BY <1>1, <1>2, <1>3, <2>1, OpenPrefixed
<1>6. TailsOK'
  BY <1>1, <1>3, <1>4, <1>5 DEF TailsOK, FollowInv
<1>7. /\ \A Y : Without(wire, Y) <=> v \notin Y /\ Without(wire', Y)
      /\ \A X, Y : Since(wire, X, Y) <=> (v \in X /\ Without(wire', Y)) \/ Since(wire', X, Y)
  BY <1>1, SincePrefixed
<1>8. \/ v \in {KnobUp, Other} /\ ledger' = ledger /\ batches' = <<>> /\ cleared' = FALSE
      \/ v = AllUp /\ ledger' = {} /\ batches' = <<{}>> /\ cleared' = TRUE
      \/ v \in Knob /\ ledger' = ledger /\ batches' = <<ledger \cup {v}, ledger>> /\ cleared' = FALSE
      \/ v \in Ordinary /\ ledger' = ledger \cup {v} /\ batches' = <<ledger'>> /\ cleared' = FALSE
  <2>1. CASE TailFrame(v)
    BY <1>4, <2>1 DEF TailFrame
  <2>2. CASE ClearFrame(v)
    BY <1>4, <2>2 DEF ClearFrame
  <2>3. CASE UnknownFrame(v)
    BY <2>3 DEF UnknownFrame
  <2>4. CASE KnobFrame(v)
    BY <2>4 DEF KnobFrame
  <2>5. CASE KeyFrame(v)
    BY <1>1, <2>5, Facts DEF KeyFrame
  <2> QED BY <1>1, <2>1, <2>2, <2>3, <2>4, <2>5
<1>9. /\ v \in Endpoint => endpoint' = v /\ modeChange' = v
      /\ v = AllUp /\ endpoint # None => endpoint' = None /\ modeChange' = Chat
      /\ v = AllUp /\ endpoint = None => endpoint' = None /\ modeChange' = None
      /\ v \notin Endpoint \cup {AllUp} => endpoint' = endpoint /\ modeChange' = None
  <2>1. v # Chat /\ (v = AllUp => cleared' = TRUE /\ v \notin Mode)
        /\ (v \notin Endpoint \cup {AllUp} => cleared' = FALSE /\ v \notin Mode)
    BY <1>1, <1>8, Facts
  <2> QED BY <1>1, <2>1 DEF ModeFrame
<1>10. HandOK'
  <2>1. HandOK
    BY DEF FollowInv
  <2>2. ASSUME NEW k \in down
        PROVE  (k \in ledger' /\ Without(wire', {AllUp})) \/ Since(wire', {k}, {AllUp})
    BY <1>2, <1>7, <1>8, <2>1, <2>2 DEF HandOK
  <2>3. ASSUME down = {}
        PROVE  (ledger' = {} /\ Without(wire', Ordinary)) \/ Since(wire', {AllUp}, Ordinary)
    BY <1>7, <1>8, <2>1, <2>3 DEF HandOK
  <2> QED BY <1>1, <2>2, <2>3 DEF HandOK
<1>11. SwitchOK'
  <2>1. SwitchOK
    BY DEF FollowInv
  <2>2. endpoint' = None \/ endpoint' \in ledger' \cap Endpoint
    BY <1>8, <1>9, <2>1 DEF SwitchOK
  <2>3. ASSUME NEW e \in down \cap Endpoint
        PROVE  \/ endpoint' = e /\ Without(wire', Endpoint \cup {AllUp})
               \/ Since(wire', {e}, Endpoint \cup {AllUp})
    BY <1>7, <1>9, <2>1, <2>3 DEF SwitchOK
  <2> QED BY <1>1, <2>1, <2>2, <2>3 DEF SwitchOK
<1>12. StatusOK'
  BY <1>1 DEF StatusOK, FollowInv
<1>13. ModeOK'
  <2>1. ModeOK /\ SwitchOK
    BY DEF FollowInv
  <2>2. /\ modeChange' \in Endpoint => endpoint' = modeChange'
        /\ modeChange' = Chat => endpoint' = None
        /\ modeChange' \in Mode \cup {None} /\ modeShown' \in Mode \cup {None}
    BY <1>1, <1>9, <2>1 DEF ModeOK
  <2>3. ASSUME status = <<>>, NEW e \in down \cap Endpoint
        PROVE  modeShown' = e \/ modeChange' = e \/ ~Without(wire', Endpoint)
    <3>1. CASE v \in Endpoint
      <4>1. v = e \/ Since(wire', {e}, Endpoint \cup {AllUp})
        BY <1>7, <2>1, <3>1 DEF SwitchOK
      <4>2. Since(wire', {e}, Endpoint \cup {AllUp}) => ~Without(wire', Endpoint)
        BY DEF Since, Without
      <4> QED BY <1>9, <3>1, <4>1, <4>2
    <3>2. CASE v \notin Endpoint
      BY <1>1, <1>2, <1>7, <2>1, <2>3, <3>2 DEF ModeOK
    <3> QED BY <3>1, <3>2
  <2>4. ASSUME status = <<>>, down \cap Endpoint = {}, modeShown' \in Endpoint
        PROVE  endpoint' # None \/ modeChange' = Chat \/ ~Without(wire', Endpoint)
    BY <1>1, <1>2, <1>7, <1>9, <2>1, <2>4 DEF ModeOK
  <2> QED BY <1>1, <2>2, <2>3, <2>4 DEF ModeOK
<1>14. BatchOK'
  <2>1. \/ batches' = <<>> /\ ledger' = ledger
        \/ batches' = <<ledger'>>
        \/ batches' = <<ledger \cup {v}, ledger>> /\ ledger' = ledger
    BY <1>8
  <2>2. batches' # <<>> => batches'[Len(batches')] = ledger'
    BY <2>1
  <2>3. batches' = <<>> => ledger' = ledger
    BY <2>1
  <2> QED BY <1>1, <1>2, <2>2, <2>3 DEF BatchOK
<1> QED BY <1>6, <1>10, <1>11, <1>12, <1>13, <1>14 DEF FollowInv

\* A sequence ends as its tail does, and with its head if it has no tail.
LEMMA LastOfTail ==
    ASSUME NEW S, NEW q \in Seq(S), q # <<>>
    PROVE  /\ Head(q) \in S /\ Tail(q) \in Seq(S)
           /\ Tail(q) # <<>> => Tail(q)[Len(Tail(q))] = q[Len(q)]
           /\ Tail(q) = <<>> => Head(q) = q[Len(q)]
<1>1. /\ Len(q) \in Nat \ {0} /\ Head(q) = q[1] /\ Head(q) \in S /\ Tail(q) \in Seq(S)
      /\ Len(Tail(q)) = Len(q) - 1 /\ \A i \in 1 .. Len(q) - 1 : Tail(q)[i] = q[i + 1]
  OBVIOUS
<1>2. Tail(q) = <<>> <=> Len(q) = 1
  <2>1. Tail(q) = <<>> <=> Len(Tail(q)) = 0
    <3>1. \A t \in Seq(S) : t = <<>> <=> Len(t) = 0
      BY EmptySeq
    <3>2. Tail(q) \in Seq(S)
      BY <1>1
    <3> DEFINE t == Tail(q)
    <3> HIDE DEF t
    <3>3. t \in Seq(S)
      BY <3>2 DEF t
    <3>4. t = <<>> <=> Len(t) = 0
      BY <3>1, <3>3
    <3> QED BY <3>4 DEF t
  <2>2. Len(Tail(q)) = 0 <=> Len(q) = 1
    BY <1>1
  <2> QED BY <2>1, <2>2
<1>3. CASE Len(q) = 1
  BY <1>1, <1>2, <1>3
<1>4. CASE Len(q) # 1
  <2>1. Len(Tail(q)) \in 1 .. Len(q) - 1 /\ Len(Tail(q)) + 1 = Len(q)
    BY <1>1, <1>4
  <2> QED BY <1>1, <1>2, <1>4, <2>1
<1> QED BY <1>3, <1>4

(* The mode is told.  Whoever tells it last tells the switch's position.   *)
LEMMA FinishFollows == ASSUME MonInv, FollowInv, FinishFrame PROVE FollowInv'
<1> USE FrameFacts
<1>1. /\ consumerPc = "report" /\ consumerPc' = "read" /\ modeChange' = None
      /\ modeShown' = IF modeChange = None THEN modeShown ELSE modeChange
      /\ UNCHANGED <<down, lost, wire, status, held, ledger, pulse, endpoint, batches>>
  BY DEF FinishFrame, aggVars, board, tracker
<1>2. TailsOK' /\ HandOK' /\ SwitchOK' /\ StatusOK'
  BY <1>1 DEF FollowInv, TailsOK, HandOK, SwitchOK, StatusOK
<1>3. ModeOK'
  <2>1. ModeOK /\ SwitchOK
    BY DEF FollowInv
  <2>2. modeChange' \in Mode \cup {None} /\ modeShown' \in Mode \cup {None}
    BY <1>1, <2>1 DEF ModeOK
  <2>3. ASSUME status = <<>>, NEW e \in down \cap Endpoint
        PROVE  modeShown' = e \/ ~Without(wire, Endpoint)
    <3>1. CASE modeChange \in {None, e}
      BY <1>1, <2>1, <2>3, <3>1 DEF ModeOK
    <3>2. CASE modeChange \notin {None, e}
      <4>1. endpoint # e
        BY <2>1, <3>2 DEF ModeOK
      <4>2. Since(wire, {e}, Endpoint \cup {AllUp})
        BY <2>1, <4>1 DEF SwitchOK
      <4> QED BY <4>2 DEF Since, Without
    <3> QED BY <3>1, <3>2
  <2>4. ASSUME status = <<>>, down \cap Endpoint = {}, modeShown' \in Endpoint
        PROVE  endpoint # None \/ ~Without(wire, Endpoint)
    BY <1>1, <2>1, <2>4 DEF ModeOK
  <2> QED BY <1>1, <2>2, <2>3, <2>4 DEF ModeOK
<1>4. BatchOK'
  BY <1>1 DEF FollowInv, BatchOK
<1> QED BY <1>2, <1>3, <1>4 DEF FollowInv

LEMMA StatusFollows == ASSUME MonInv, FollowInv, ReadStatus PROVE FollowInv'
<1> USE FrameFacts
<1>1. /\ status # <<>> /\ modeShown' = Head(status) /\ status' = Tail(status)
      /\ UNCHANGED <<down, lost, wire, held, ledger, pulse, endpoint, batches, consumerPc, modeChange>>
  BY DEF ReadStatus, aggVars, frame, tracker
<1>2. TailsOK' /\ HandOK' /\ SwitchOK' /\ BatchOK'
  BY <1>1 DEF FollowInv, TailsOK, HandOK, SwitchOK, BatchOK
<1>3. /\ status' \in Seq(Mode) /\ Head(status) \in Mode
      /\ status' # <<>> => status'[Len(status')] = status[Len(status)]
      /\ status' = <<>> => Head(status) = status[Len(status)]
  <2>1. status \in Seq(Mode)
    BY DEF FollowInv, StatusOK
  <2> QED BY <1>1, <2>1, LastOfTail
<1>4. StatusOK'
  BY <1>1, <1>3 DEF FollowInv, StatusOK
<1>5. ModeOK'
  <2>1. ModeOK /\ SwitchOK /\ StatusOK /\ down \subseteq Ordinary
    BY DEF FollowInv, MonInv, WireOK
  <2>2. status' = <<>> => \/ modeShown' \in down \cap Endpoint
                          \/ modeShown' = Chat /\ down \cap Endpoint = {}
    BY <1>1, <1>3, <2>1 DEF StatusOK
  <2> QED BY <1>1, <1>3, <2>1, <2>2 DEF ModeOK, SwitchOK
<1> QED BY <1>2, <1>4, <1>5 DEF FollowInv

(* A batch is reported; what is held is the ledger when the last one is.   *)
LEMMA BatchFollows == ASSUME MonInv, FollowInv, ReportBatch PROVE FollowInv'
<1>1. /\ batches # <<>> /\ batches' = Tail(batches)
      /\ held' = [held EXCEPT ![Consumer] = Head(batches)]
      /\ UNCHANGED <<down, lost, wire, status, ledger, pulse, endpoint, consumerPc, modeChange, modeShown>>
  BY DEF ReportBatch, Report, board, tracker, shown
<1>2. /\ batches' # <<>> => batches'[Len(batches')] = batches[Len(batches)]
      /\ batches' = <<>> => Head(batches) = batches[Len(batches)]
  <2>1. batches \in Seq(SUBSET Reportable[Consumer])
    BY DEF MonInv, LedgerOK
  <2> QED BY <1>1, <2>1, LastOfTail
<1>3. held'[Consumer] = Head(batches)
  BY <1>1, Facts DEF MonInv, PhantomInv, AggTypeOK
<1>4. BatchOK'
  BY <1>1, <1>2, <1>3 DEF FollowInv, BatchOK
<1>5. TailsOK' /\ HandOK' /\ SwitchOK' /\ StatusOK' /\ ModeOK'
  BY <1>1, ZenonT(30) DEF FollowInv, TailsOK, HandOK, SwitchOK, StatusOK, ModeOK
<1> QED BY <1>4, <1>5 DEF FollowInv

LEMMA OthersFollow ==
    ASSUME MonInv, FollowInv,
           \/ LeaveConsumer \/ ConsumerGone \/ ReadMask \/ LeaveConfig \/ StopMonitor
           \/ (\E s \in Source : SendEvent(s)) \/ UNCHANGED monVars
    PROVE  FollowInv'
<1>1. /\ UNCHANGED <<down, lost, wire, status, ledger, pulse, endpoint, batches, modeChange, modeShown>>
      /\ \/ consumerPc' = consumerPc /\ held'[Consumer] = held[Consumer]
         \/ consumerPc # "report" /\ consumerPc' \notin {"read", "report"}
  <2>1. CASE LeaveConsumer \/ ConsumerGone
    BY <2>1 DEF LeaveConsumer, ConsumerGone, board, frame, tracker, shown
  <2>2. CASE ReadMask \/ LeaveConfig
    <3>1. \A keys : Report(Config, keys) => held'[Consumer] = held[Consumer]
      BY Facts DEF Report, MonInv, PhantomInv, AggTypeOK
    <3> QED BY <2>2, <3>1 DEF ReadMask, LeaveConfig, board, frame, tracker, shown
  <2>3. CASE StopMonitor \/ UNCHANGED monVars
    BY <2>3 DEF StopMonitor, monVars, aggVars, board, frame, tracker, shown
  <2>4. CASE \E s \in Source : SendEvent(s)
    BY <2>4 DEF SendEvent, Send, SendReleased, SendPressed, SendCombo, aggState, board, frame, tracker, shown
  <2> QED BY <2>1, <2>2, <2>3, <2>4
<1>2. TailsOK' /\ HandOK' /\ SwitchOK' /\ StatusOK'
  BY <1>1 DEF FollowInv, TailsOK, HandOK, SwitchOK, StatusOK
<1>3. ModeOK'
  BY <1>1 DEF FollowInv, ModeOK
<1>4. BatchOK'
  BY <1>1 DEF FollowInv, BatchOK
<1> QED BY <1>2, <1>3, <1>4 DEF FollowInv

LEMMA FollowKept == MonInv /\ FollowInv /\ [MonNext]_monVars => FollowInv'
BY Facts, PressFollows, ReleaseFollows, TurnFollows, StrayFollows, WindowFollows, ReadFollows,
   FinishFollows, StatusFollows, BatchFollows, OthersFollow
DEF MonNext, ConsumerThread, ConfigThread, Board

LEMMA FollowAlways == MonSpec => []FollowInv
BY FollowStarts, FollowKept, MonAlways, PTL DEF MonSpec

(* Once everything sent is read, the mode last told is the switch's        *)
(* position, although two threads tell it.                                 *)
THEOREM ModeAlwaysFollows == MonSpec => []ModeFollowsSwitch
<1>1. MonInv /\ FollowInv => ModeFollowsSwitch
  <2> SUFFICES ASSUME MonInv, FollowInv, Drained, modeShown # None
               PROVE  /\ \A k \in down \cap Endpoint : modeShown = k
                      /\ down = {} => modeShown = Chat
    BY DEF ModeFollowsSwitch
  <2> USE FrameFacts
  <2>1. Without(wire, Endpoint) /\ ~Since(wire, {AllUp}, Ordinary)
    <3>1. \A i \in 1 .. Len(wire) : FALSE
      BY DEF Drained
    <3> QED BY <3>1 DEF Without, Since
  <2>2. modeChange = None /\ status = <<>> /\ modeShown \in Mode
    BY DEF Drained, FollowInv, ModeOK
  <2>3. \A k \in down \cap Endpoint : modeShown = k
    BY <2>1, <2>2 DEF FollowInv, ModeOK
  <2>4. ASSUME down = {} PROVE modeShown = Chat
    <3>1. ledger = {} /\ endpoint = None
      BY <2>1, <2>4 DEF FollowInv, HandOK, SwitchOK
    <3> QED BY <2>1, <2>2, <2>4, <3>1 DEF FollowInv, ModeOK
  <2> QED BY <2>3, <2>4
<1> QED BY <1>1, MonAlways, FollowAlways, PTL

(* Once everything sent is read, the keys that are down are shown pressed, *)
(* and with all of them up none is shown but what the Config mask holds.   *)
THEOREM HoldAlwaysFollows == MonSpec => []HoldFollowsHand
<1>1. MonInv /\ FollowInv /\ ViewExact /\ NoPhantomHold => HoldFollowsHand
  <2> SUFFICES ASSUME MonInv, FollowInv, ViewExact, NoPhantomHold, Drained
               PROVE  /\ \A k \in down : Exclusive(k) => k \in view
                      /\ down = {} => view \subseteq held[Config]
    BY DEF HoldFollowsHand
  <2> USE FrameFacts, Facts
  <2>1. \A X, Y : ~Since(wire, X, Y)
    <3>1. \A i \in 1 .. Len(wire) : FALSE
      BY DEF Drained
    <3> QED BY <3>1 DEF Since
  <2>2. held[Consumer] = ledger
    BY DEF Drained, MonInv, LedgerOK, FollowInv, BatchOK
  <2>3. ASSUME NEW k \in down, Exclusive(k) PROVE k \in view
    <3>1. k \in ledger /\ k \in Key
      BY <2>1 DEF FollowInv, HandOK, MonInv, WireOK
    <3>2. k \in Union(held)
      BY <2>2, <3>1 DEF Union
    <3> QED BY <2>3, <3>1, <3>2 DEF ViewExact, Drained
  <2>4. ASSUME down = {} PROVE view \subseteq held[Config]
    <3>1. held[Consumer] = {}
      BY <2>1, <2>2, <2>4 DEF FollowInv, HandOK
    <3> QED BY <3>1 DEF NoPhantomHold, Drained, Union
  <2> QED BY <2>3, <2>4
<1> QED BY <1>1, MonAlways, FollowAlways, MonitorNeverPhantomHold, MonitorImplementsAggregator,
           ViewAlwaysExact, PTL
=============================================================================
