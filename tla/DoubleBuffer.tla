---------------------------- MODULE DoubleBuffer ----------------------------
(***************************************************************************)
(* libASPL's lock-free container for configuration values                  *)
(* (aspl/DoubleBuffer.hpp).  Two buffers, each with a value, an index and  *)
(* a shared mutex; readers use the buffer of the current index, a setter   *)
(* fills the other one and switches.  Setters are serialised by a mutex of *)
(* their own.  Every load, store, lock and unlock is a step, and so are    *)
(* the beginning and the end of writing a value, which is not atomic.      *)
(*                                                                         *)
(* The shared mutex is the library's: a setter that wants it exclusively   *)
(* first turns new readers away (their try_lock_shared fails) and then     *)
(* waits for those inside.  A value is known by its number in the order of *)
(* the sets.  The index wraps at MaxIndex, 2^63 - 1 in the code; that no   *)
(* single attempt of a reader lasts a whole lap is assumed (NoFullLap).    *)
(***************************************************************************)
EXTENDS Integers, FiniteSets

CONSTANTS
    Reader, Setter, None,
    Trivial,     \* std::is_trivial<T>: no old value to destroy
    MaxIndex,    \* the largest BufferIndex
    MaxSets      \* bound of the exploration

ASSUME IndexAssumption == MaxIndex \in Nat /\ MaxIndex % 2 = 1
ASSUME SetsAssumption == MaxSets \in Nat
ASSUME TrivialAssumption == Trivial \in BOOLEAN
ASSUME NoneAssumption == None \notin Reader \cup Setter \cup Int

VARIABLES
    content,    \* Buffer::value of each buffer
    index,      \* Buffer::index
    readers,    \* who holds Buffer::mutex shared
    exclusive,  \* "none", "wanted" or "held" by the setter
    current,    \* currentIndex_
    setter,     \* who holds writeMutex_
    phase,      \* where Set is
    target,     \* newIndex of that Set
    rpc,        \* where each reader is
    seen,       \* currentIndex, as a reader's attempt loaded it
    sets,       \* history: values put in effect so far
    since,      \* history: sets when a reader called the getter
    given       \* history: the value a reader was given

buffers == <<content, index, readers, exclusive>>
vars == <<buffers, current, setter, phase, target, rpc, seen, sets, since, given>>

Empty == 0       \* std::nullopt
Torn == -1       \* a value in the middle of being assigned or destroyed

Slot(i) == i % 2         \* GetBufferAt
NextIndex(i) == IF i < MaxIndex THEN i + 1 ELSE 0

(* After the constructor's own Set, which made value 1 current.            *)
Init ==
    /\ content = [b \in 0 .. 1 |-> IF b = 1 THEN 1 ELSE Empty]
    /\ index = [b \in 0 .. 1 |-> IF b = 1 THEN 1 ELSE -1]
    /\ readers = [b \in 0 .. 1 |-> {}]
    /\ exclusive = [b \in 0 .. 1 |-> "none"]
    /\ current = 1
    /\ setter = None /\ phase = "out" /\ target = 1
    /\ rpc = [r \in Reader |-> "out"]
    /\ seen = [r \in Reader |-> 0]
    /\ sets = 1
    /\ since = [r \in Reader |-> None]
    /\ given = [r \in Reader |-> None]

-----------------------------------------------------------------------------
(* ReadLock's constructor.                                                 *)
Call(r) ==
    /\ rpc[r] = "out"
    /\ rpc' = [rpc EXCEPT ![r] = "load"]
    /\ since' = [since EXCEPT ![r] = sets]
    /\ UNCHANGED <<buffers, current, setter, phase, target, seen, sets, given>>

LoadIndex(r) ==
    /\ rpc[r] = "load"
    /\ seen' = [seen EXCEPT ![r] = current]
    /\ rpc' = [rpc EXCEPT ![r] = "lock"]
    /\ UNCHANGED <<buffers, current, setter, phase, target, sets, since, given>>

\* Mutant: the retry does not load the index again.
TryLockSharedNoReload(r) ==
    /\ rpc[r] = "lock"
    /\ IF exclusive[Slot(seen[r])] = "none"
       THEN /\ readers' = [readers EXCEPT ![Slot(seen[r])] = @ \cup {r}]
            /\ rpc' = [rpc EXCEPT ![r] = "check"]
       ELSE /\ rpc' = [rpc EXCEPT ![r] = "lock"]
            /\ UNCHANGED readers
    /\ UNCHANGED <<content, index, exclusive, current, setter, phase, target,
                   seen, sets, since, given>>
TryLockShared(r) ==
    /\ rpc[r] = "lock"
    /\ IF exclusive[Slot(seen[r])] = "none"
       THEN /\ readers' = [readers EXCEPT ![Slot(seen[r])] = @ \cup {r}]
            /\ rpc' = [rpc EXCEPT ![r] = "check"]
       ELSE /\ rpc' = [rpc EXCEPT ![r] = "load"]
            /\ UNCHANGED readers
    /\ UNCHANGED <<content, index, exclusive, current, setter, phase, target,
                   seen, sets, since, given>>

\* Mutant: the buffer is used without looking at its index again.
CheckSkipped(r) ==
    /\ rpc[r] = "check"
    /\ rpc' = [rpc EXCEPT ![r] = "hold"]
    /\ given' = [given EXCEPT ![r] = content[Slot(seen[r])]]
    /\ since' = [since EXCEPT ![r] = None]
    /\ UNCHANGED <<buffers, current, setter, phase, target, seen, sets>>
CheckIndex(r) ==
    /\ rpc[r] = "check"
    /\ IF index[Slot(seen[r])] = seen[r]
       THEN /\ rpc' = [rpc EXCEPT ![r] = "hold"]
            /\ given' = [given EXCEPT ![r] = content[Slot(seen[r])]]
            /\ since' = [since EXCEPT ![r] = None]
            /\ UNCHANGED readers
       ELSE /\ rpc' = [rpc EXCEPT ![r] = "load"]
            /\ readers' = [readers EXCEPT ![Slot(seen[r])] = @ \ {r}]
            /\ UNCHANGED <<given, since>>
    /\ UNCHANGED <<content, index, exclusive, current, setter, phase, target, seen, sets>>

(* ~ReadLock.                                                              *)
Unlock(r) ==
    /\ rpc[r] = "hold"
    /\ rpc' = [rpc EXCEPT ![r] = "out"]
    /\ readers' = [readers EXCEPT ![Slot(seen[r])] = @ \ {r}]
    /\ given' = [given EXCEPT ![r] = None]
    /\ UNCHANGED <<content, index, exclusive, current, setter, phase, target,
                   seen, sets, since>>

-----------------------------------------------------------------------------
(* Set.  The other buffer gets the new index before its mutex is taken.    *)
InAttempt(r) == rpc[r] \in {"lock", "check"}
NoFullLap(i) == \A r \in Reader : InAttempt(r) => seen[r] # i

LockWriter(s) ==
    /\ setter = None /\ sets < MaxSets
    /\ setter' = s
    /\ phase' = "announce"
    /\ target' = NextIndex(current)
    /\ NoFullLap(target')
    /\ UNCHANGED <<buffers, current, rpc, seen, sets, since, given>>

AnnounceNew(s) ==
    /\ setter = s /\ phase = "announce"
    /\ index' = [index EXCEPT ![Slot(target)] = target]
    /\ phase' = "wantNew"
    /\ UNCHANGED <<content, readers, exclusive, current, setter, target, rpc, seen,
                   sets, since, given>>

(* std::unique_lock, its first half: new readers are turned away.          *)
WantLock(s, from, to, b) ==
    /\ setter = s /\ phase = from
    /\ exclusive' = [exclusive EXCEPT ![b] = "wanted"]
    /\ phase' = to
    /\ UNCHANGED <<content, index, readers, current, setter, target, rpc, seen,
                   sets, since, given>>

(* Its second half, once the readers inside are gone; the value begins to  *)
(* change.                                                                 *)
BeginChange(s, from, to, b) ==
    /\ setter = s /\ phase = from
    /\ readers[b] = {}
    /\ exclusive' = [exclusive EXCEPT ![b] = "held"]
    /\ content' = [content EXCEPT ![b] = Torn]
    /\ phase' = to
    /\ UNCHANGED <<index, readers, current, setter, target, rpc, seen, sets, since, given>>

EndChange(s, from, to, b, v) ==
    /\ setter = s /\ phase = from
    /\ content' = [content EXCEPT ![b] = v]
    /\ exclusive' = [exclusive EXCEPT ![b] = "none"]
    /\ phase' = to
    /\ UNCHANGED <<index, readers, current, setter, target, rpc, seen, sets, since, given>>

WriteNew(s) ==
    \/ WantLock(s, "wantNew", "lockNew", Slot(target))
    \/ BeginChange(s, "lockNew", "write", Slot(target))
    \/ EndChange(s, "write", "switch", Slot(target), sets + 1)

(* The store to currentIndex_, the instant of the set; a trivial value has *)
(* nothing to destroy and Set returns.                                     *)
Switch(s) ==
    /\ setter = s /\ phase = "switch"
    /\ current' = target
    /\ sets' = sets + 1
    /\ phase' = IF Trivial THEN "return" ELSE "retire"
    /\ UNCHANGED <<buffers, setter, target, rpc, seen, since, given>>

RetireOld(s) ==
    /\ setter = s /\ phase = "retire"
    /\ index' = [index EXCEPT ![1 - Slot(target)] = -1]
    /\ phase' = "wantOld"
    /\ UNCHANGED <<content, readers, exclusive, current, setter, target, rpc, seen,
                   sets, since, given>>

DestroyOld(s) ==
    \/ WantLock(s, "wantOld", "lockOld", 1 - Slot(target))
    \/ BeginChange(s, "lockOld", "destroy", 1 - Slot(target))
    \/ EndChange(s, "destroy", "return", 1 - Slot(target), Empty)

Return(s) ==
    /\ setter = s /\ phase = "return"
    /\ setter' = None /\ phase' = "out"
    /\ UNCHANGED <<buffers, current, target, rpc, seen, sets, since, given>>

-----------------------------------------------------------------------------
GetterStep(r) == LoadIndex(r) \/ TryLockShared(r) \/ CheckIndex(r)
ReaderStep(r) == Call(r) \/ GetterStep(r) \/ Unlock(r)
SetterStep(s) ==
    LockWriter(s) \/ AnnounceNew(s) \/ WriteNew(s) \/ Switch(s)
        \/ RetireOld(s) \/ DestroyOld(s) \/ Return(s)

Next ==
    \/ \E r \in Reader : ReaderStep(r)
    \/ \E s \in Setter : SetterStep(s)

Spec == Init /\ [][Next]_vars

(* A thread in a getter runs; a thread in a setter may be suspended for    *)
(* good at any step, and a reader may keep its lock.                       *)
LockFree == \A r \in Reader : WF_vars(GetterStep(r))
LockFreeSpec == Spec /\ LockFree

-----------------------------------------------------------------------------
(* "The referred value is guaranteed to be immutable" while the lock is    *)
(* held (lines 192-194): what a reader was given is a whole value, and is  *)
(* what its buffer contains until it unlocks.                              *)
Immutable ==
    \A r \in Reader : rpc[r] = "hold" =>
        /\ given[r] \in 1 .. sets
        /\ content[Slot(seen[r])] = given[r]

(* "It does not block if a setter thread is suspended in the middle"       *)
(* (lines 29-30): a getter returns, whatever becomes of the setters, as    *)
(* long as they do not come without end, which MaxSets sees to.            *)
GetterReturns ==
    \A r \in Reader : (rpc[r] = "load") ~> (rpc[r] = "hold")

\* What the references of the readers inside refer to.
Held == [r \in Reader |-> IF rpc[r] = "hold" THEN content[Slot(seen[r])] ELSE None]

(* Setting and getting are atomic, and what a reference refers to does not *)
(* change: the buffer implements AtomicValue, the setter's instant being   *)
(* the switch (lines 21-46, 192-194).                                      *)
Atomic == INSTANCE AtomicValue WITH
    value <- sets,
    setting <- <<setter, setter # None
                           /\ phase \in {"retire", "wantOld", "lockOld", "destroy", "return"}>>,
    since <- since,
    answer <- Held
ImplementsAtomicValue == Atomic!AtomicSpec
=============================================================================
