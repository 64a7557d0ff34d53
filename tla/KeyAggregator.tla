---------------------------- MODULE KeyAggregator ----------------------------
(***************************************************************************)
(* KeyStateAggregator (src/src/kernel/key_aggregator.rs): the key state    *)
(* shared by the threads that read the board's key interfaces.  A reader   *)
(* reports the complete set of keys its interface holds; the aggregator    *)
(* replaces that source's entry, compares the union of all sources with    *)
(* the previous union and broadcasts one event per difference.             *)
(*                                                                         *)
(* The difference is computed under the mutex, the events are sent after   *)
(* it is released, so two readers' events interleave on the broadcast      *)
(* channel: the outbox holds what a reader has computed and not yet sent.  *)
(***************************************************************************)
EXTENDS Integers, FiniteSets

CONSTANTS
    Source,     \* the interfaces that report keys (KeySource)
    Config,     \* the source whose reports carry a bit mask
    Key,        \* key indices, 0..11 in the code
    Reportable  \* Reportable[s]: the keys interface s can report

ASSUME SourceAssumption == Config \in Source
ASSUME KeyAssumption == Key \subseteq Nat
ASSUME ReportableAssumption == Reportable \in [Source -> SUBSET Key]

VARIABLES
    held,           \* AggState.state: the keys each source reported last
    prevAll,        \* AggState.prev_all_pressed
    lastConfigMask, \* AggState.last_config_mask, as the set of keys it encodes
    outbox,         \* events each reader has computed and not sent yet
    view            \* the keys a subscriber of the channel believes pressed

aggState == <<held, prevAll, lastConfigMask>>
aggVars == <<held, prevAll, lastConfigMask, outbox, view>>

ComboEvent == [keys : SUBSET Key, configMask : SUBSET Key]

\* The events of one report_change call, sent in this order: releases,
\* presses (both ascending), and at most one combo.
NoEvents == [released |-> {}, pressed |-> {}, combo |-> {}]

Sent(s) == outbox[s] = NoEvents
AllSent == \A s \in Source : Sent(s)

AggInit ==
    /\ held = [s \in Source |-> {}]
    /\ prevAll = {}
    /\ lastConfigMask = {}
    /\ outbox = [s \in Source |-> NoEvents]
    /\ view = {}

-----------------------------------------------------------------------------
(* report_change, the part under the mutex.  A reader is one thread: it    *)
(* reports again only after it has sent the events of its last report.     *)

Union(h) == UNION {h[s] : s \in Source}

ComboOf(all, newly, mask) ==
    IF Cardinality(all) > 1 /\ newly # {}
    THEN {[keys |-> all, configMask |-> mask]}
    ELSE {}

EventsOf(all, prev, mask) ==
    [released |-> prev \ all,
     pressed  |-> all \ prev,
     combo    |-> ComboOf(all, all \ prev, mask)]

Report(s, keys) ==
    LET newHeld == [held EXCEPT ![s] = keys]
        all     == Union(newHeld)
        newMask == IF s = Config THEN keys ELSE lastConfigMask
    IN  /\ Sent(s)
        /\ held' = newHeld
        /\ prevAll' = all
        /\ lastConfigMask' = newMask
        /\ outbox' = [outbox EXCEPT ![s] = EventsOf(all, prevAll, newMask)]
        /\ view' = view

-----------------------------------------------------------------------------
(* report_change, after the mutex is released: one broadcast send a step.  *)

IsLeast(k, S) == k \in S /\ \A j \in S : k <= j

SendReleased(s, k) ==
    /\ IsLeast(k, outbox[s].released)
    /\ outbox' = [outbox EXCEPT ![s].released = @ \ {k}]
    /\ view' = view \ {k}
    /\ UNCHANGED aggState

SendPressed(s, k) ==
    /\ outbox[s].released = {}
    /\ IsLeast(k, outbox[s].pressed)
    /\ outbox' = [outbox EXCEPT ![s].pressed = @ \ {k}]
    /\ view' = view \cup {k}
    /\ UNCHANGED aggState

SendCombo(s) ==
    /\ outbox[s].released = {}
    /\ outbox[s].pressed = {}
    /\ outbox[s].combo # {}
    /\ outbox' = [outbox EXCEPT ![s].combo = {}]
    /\ UNCHANGED <<aggState, view>>

Send(s) ==
    \/ \E k \in Key : SendReleased(s, k) \/ SendPressed(s, k)
    \/ SendCombo(s)

AggNext ==
    \E s \in Source :
        \/ \E keys \in SUBSET Reportable[s] : Report(s, keys)
        \/ Send(s)

AggSpec == AggInit /\ [][AggNext]_aggVars

-----------------------------------------------------------------------------
AggTypeOK ==
    /\ held \in [Source -> SUBSET Key]
    /\ prevAll \in SUBSET Key
    /\ lastConfigMask \in SUBSET Key
    /\ outbox \in [Source -> [released : SUBSET Key, pressed : SUBSET Key,
                              combo : SUBSET ComboEvent]]
    /\ view \in SUBSET Key

\* A subscriber never keeps a key pressed that nobody holds: once every
\* computed event has been sent, each key the channel showed as pressed and
\* not yet released is held on some interface (no key is stuck down, in
\* whatever order the readers' sends interleave).
NoPhantomHold == AllSent => view \subseteq Union(held)

\* The converse holds of a key that one interface alone reports: once every
\* event is sent, a subscriber shows it pressed exactly while it is held.
Exclusive(k) ==
    \A s, t \in Source : k \in Reportable[s] \cap Reportable[t] => s = t

ViewExact == AllSent => \A k \in Key : Exclusive(k) => (k \in view <=> k \in Union(held))

\* The channel carries strictly alternating press and release events for such
\* a key: no press of a key already shown pressed, no release of one not shown
\* pressed, whatever the other interface's reader sends in between.
Alternates ==
    \A s \in Source, k \in Key :
        Exclusive(k) =>
            /\ SendPressed(s, k) => k \notin view
            /\ SendReleased(s, k) => k \in view
EventsAlternate == [][Alternates]_aggVars

\* A release is attributed to the reporting source, which must have been
\* holding that key (the claim beside the release loop in report_change):
\* a key another interface still holds is never released.
ReleaseIsReporters ==
    [][\A s \in Source :
          Sent(s) /\ outbox'[s] # outbox[s]
             => /\ outbox'[s].released \subseteq held[s]
                /\ outbox'[s].released \cap Union(held') = {}]_aggVars
=============================================================================
