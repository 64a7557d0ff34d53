---------------------------- MODULE LibAsplProofs ----------------------------
(***************************************************************************)
(* Theorems about the two modules of libASPL's values.                     *)
(*                                                                         *)
(* DoubleBuffer, for any readers, setters, width of the index and kind of  *)
(* value: what a reader was given does not change while it holds its lock, *)
(* and gets and sets are atomic.  AsplDevice, for any threads, streams,    *)
(* controls and number of requests: while HAL uses the device, it changes  *)
(* in HAL's own call; and what is queued comes to what the driver asked    *)
(* for, objects and settings alike.                                        *)
(***************************************************************************)
EXTENDS AsplDevice, DoubleBuffer, NaturalsInduction, SequenceTheorems, FiniteSetTheorems, TLAPS

-----------------------------------------------------------------------------
(* DoubleBuffer                                                            *)

Filling == {"announce", "wantNew", "lockNew", "write", "switch"}
Cleaning == {"retire", "wantOld", "lockOld", "destroy", "return"}

Other == 1 - Slot(current)

TypeOK ==
    /\ content \in [0 .. 1 -> Int]
    /\ index \in [0 .. 1 -> Int]
    /\ readers \in [0 .. 1 -> SUBSET Reader]
    /\ exclusive \in [0 .. 1 -> {"none", "wanted", "held"}]
    /\ current \in 0 .. MaxIndex
    /\ target \in 0 .. MaxIndex
    /\ setter \in Setter \cup {None}
    /\ phase \in Filling \cup Cleaning \cup {"out"}
    /\ rpc \in [Reader -> {"out", "load", "lock", "check", "hold"}]
    /\ seen \in [Reader -> 0 .. MaxIndex]
    /\ sets \in Nat \ {0}
    /\ since \in [Reader -> Nat \cup {None}]
    /\ given \in [Reader -> Int \cup {None}]

(* Where Set is decides who it is and which index it is going for.         *)
SetterOK ==
    /\ setter = None <=> phase = "out"
    /\ phase \in Filling => /\ target = NextIndex(current)
                            /\ \A r \in Reader : InAttempt(r) => seen[r] # target
    /\ phase \in Cleaning => target = current

(* The buffer readers are sent to is whole and not being touched.          *)
CurrentOK ==
    /\ content[Slot(current)] = sets
    /\ index[Slot(current)] = current
    /\ exclusive[Slot(current)] = "none"

(* The other one holds the value before it, or its index sends everybody   *)
(* away.                                                                   *)
OtherOK ==
    /\ exclusive[Other] = CASE phase \in {"lockNew", "lockOld"} -> "wanted"
                            [] phase \in {"write", "destroy"} -> "held"
                            [] OTHER -> "none"
    /\ phase \in {"write", "destroy"} => readers[Other] = {}
    /\ phase \in {"wantNew", "lockNew", "write", "switch"} => index[Other] = target
    /\ phase \in {"wantOld", "lockOld", "destroy"} => index[Other] = -1
    /\ phase \in {"out", "announce", "retire", "return"} =>
         index[Other] = -1 \/ (content[Other] = sets - 1 /\ sets > 1)
    /\ phase = "switch" => content[Other] = sets + 1

ReaderOK(r) ==
    /\ rpc[r] \in {"check", "hold"} => r \in readers[Slot(seen[r])]
    /\ rpc[r] = "hold" => /\ given[r] \in 1 .. sets
                          /\ content[Slot(seen[r])] = given[r]
    /\ rpc[r] # "hold" => given[r] = None
    /\ rpc[r] \in {"out", "hold"} => since[r] = None
    /\ rpc[r] \in {"load", "lock", "check"} => since[r] \in 1 .. sets
    /\ InAttempt(r) /\ Slot(seen[r]) = Other /\ index[Other] = seen[r]
         => since[r] < sets

ReadersOK == \A r \in Reader : ReaderOK(r)

Inv == TypeOK /\ SetterOK /\ CurrentOK /\ OtherOK /\ ReadersOK

-----------------------------------------------------------------------------
(* Two buffers: the next index is an index, and its buffer is the other.   *)
LEMMA Slots ==
    /\ \A i \in Nat : Slot(i) \in 0 .. 1
    /\ \A i \in 0 .. MaxIndex :
         /\ i \in Nat
         /\ NextIndex(i) \in 0 .. MaxIndex
         /\ Slot(NextIndex(i)) = 1 - Slot(i)
         /\ NextIndex(i) # i
BY IndexAssumption, SMT DEF Slot, NextIndex

(* The constructor leaves a whole value in its buffer.                     *)
LEMMA InitInv == Init => Inv
<1> SUFFICES ASSUME Init PROVE Inv
    OBVIOUS
<1>1. Slot(1) = 1
    BY SMT DEF Slot
<1>2. TypeOK
    BY IndexAssumption, SMT DEF Init, TypeOK, Filling, Cleaning, Empty
<1>3. SetterOK /\ CurrentOK /\ OtherOK
    BY <1>1, NoneAssumption, SMT
       DEF Init, SetterOK, CurrentOK, OtherOK, Other, Filling, Cleaning, Empty, InAttempt
<1>4. ReadersOK
    BY <1>1, SMT DEF Init, ReadersOK, ReaderOK, InAttempt
<1> QED
    BY <1>2, <1>3, <1>4 DEF Inv

(* Call keeps the invariant. *)
LEMMA CallInv == ASSUME Inv, NEW r \in Reader, Call(r) PROVE Inv'
<1>1. TypeOK'
    BY Slots, NoneAssumption, SMTT(30) DEF Inv, TypeOK, Call, buffers
<1>2. SetterOK'
    BY Slots, SMTT(30) DEF Inv, TypeOK, SetterOK, Call, buffers, InAttempt, Filling
<1>3. CurrentOK'
    BY Slots, SMTT(30) DEF Inv, TypeOK, CurrentOK, Call, buffers
<1>4. OtherOK'
    BY Slots, SMTT(30) DEF Inv, TypeOK, CurrentOK, OtherOK, Other, Call, buffers
<1>5. ReadersOK'
    BY Slots, NoneAssumption, SMTT(30) DEF Inv, TypeOK, CurrentOK, OtherOK, Other, ReadersOK, ReaderOK, Call,
       buffers, InAttempt
<1> QED
    BY <1>1, <1>2, <1>3, <1>4, <1>5 DEF Inv

(* LoadIndex keeps the invariant. *)
LEMMA LoadIndexInv == ASSUME Inv, NEW r \in Reader, LoadIndex(r) PROVE Inv'
<1>1. TypeOK'
    BY Slots, NoneAssumption, SMTT(30) DEF Inv, TypeOK, LoadIndex, buffers
<1>2. SetterOK'
    BY Slots, SMTT(30) DEF Inv, TypeOK, SetterOK, LoadIndex, buffers, InAttempt, Filling
<1>3. CurrentOK'
    BY Slots, SMTT(30) DEF Inv, TypeOK, CurrentOK, LoadIndex, buffers
<1>4. OtherOK'
    BY Slots, SMTT(30) DEF Inv, TypeOK, CurrentOK, OtherOK, Other, LoadIndex, buffers
<1>5. ReadersOK'
    BY Slots, NoneAssumption, SMTT(30) DEF Inv, TypeOK, CurrentOK, OtherOK, Other, ReadersOK, ReaderOK,
       LoadIndex, buffers, InAttempt
<1> QED
    BY <1>1, <1>2, <1>3, <1>4, <1>5 DEF Inv

(* TryLockShared keeps the invariant. *)
LEMMA TryLockSharedInv == ASSUME Inv, NEW r \in Reader, TryLockShared(r) PROVE Inv'
<1>1. TypeOK'
    BY Slots, NoneAssumption, SMTT(30) DEF Inv, TypeOK, TryLockShared, buffers
<1>2. SetterOK'
    BY Slots, SMTT(30) DEF Inv, TypeOK, SetterOK, TryLockShared, buffers, InAttempt, Filling
<1>3. CurrentOK'
    BY Slots, SMTT(30) DEF Inv, TypeOK, CurrentOK, TryLockShared, buffers
<1>4. OtherOK'
    BY Slots, SMTT(30) DEF Inv, TypeOK, CurrentOK, OtherOK, Other, TryLockShared, buffers
<1>5. ReadersOK'
    BY Slots, NoneAssumption, SMTT(30) DEF Inv, TypeOK, CurrentOK, OtherOK, Other, ReadersOK, ReaderOK,
       TryLockShared, buffers, InAttempt
<1> QED
    BY <1>1, <1>2, <1>3, <1>4, <1>5 DEF Inv

(* CheckIndex keeps the invariant. *)
LEMMA CheckIndexInv == ASSUME Inv, NEW r \in Reader, CheckIndex(r) PROVE Inv'
<1>1. TypeOK'
    BY Slots, NoneAssumption, SMTT(30) DEF Inv, TypeOK, CheckIndex, buffers
<1>2. SetterOK'
    BY Slots, SMTT(30) DEF Inv, TypeOK, SetterOK, CheckIndex, buffers, InAttempt, Filling
<1>3. CurrentOK'
    BY Slots, SMTT(30) DEF Inv, TypeOK, CurrentOK, CheckIndex, buffers
<1>4. OtherOK'
  <2>1. /\ content' = content /\ index' = index /\ exclusive' = exclusive
        /\ phase' = phase /\ target' = target /\ current' = current /\ sets' = sets
    BY DEF CheckIndex
  <2>2. Other \in 0 .. 1 /\ Other' = Other
    BY <2>1, Slots, SMT DEF Inv, TypeOK, Other
  <2>3. readers'[Other] \subseteq readers[Other]
    BY <2>2, Slots, SMT DEF Inv, TypeOK, CheckIndex, buffers
  <2>4. phase' \in {"write", "destroy"} => readers'[Other'] = {}
    BY <2>1, <2>2, <2>3, SMT DEF Inv, OtherOK
  <2> QED
    BY <2>1, <2>2, <2>4, SMT DEF Inv, OtherOK
<1>5. ReadersOK'
  <2>1. /\ content' = content /\ index' = index /\ exclusive' = exclusive
        /\ phase' = phase /\ target' = target /\ current' = current /\ sets' = sets
        /\ seen' = seen
    BY DEF CheckIndex
  <2>2. Other' = Other
    BY <2>1 DEF Other
  <2> SUFFICES ASSUME NEW q \in Reader PROVE ReaderOK(q)'
    BY DEF ReadersOK
  <2>3. ReaderOK(q) /\ Slot(seen[q]) \in 0 .. 1
    BY Slots, SMT DEF Inv, TypeOK, ReadersOK
  <2>4. CASE q # r
    <3>1. rpc'[q] = rpc[q] /\ given'[q] = given[q] /\ since'[q] = since[q]
      BY <2>4, SMT DEF Inv, TypeOK, CheckIndex
    <3>2. q \in readers[Slot(seen[q])] => q \in readers'[Slot(seen[q])]
      BY <2>4, <2>3, SMT DEF Inv, TypeOK, CheckIndex, buffers
    <3> QED
      BY <2>1, <2>2, <2>3, <3>1, <3>2, SMT DEF ReaderOK, InAttempt
  <2>5. CASE q = r /\ index[Slot(seen[r])] = seen[r]
    <3>1. /\ rpc'[r] = "hold" /\ given'[r] = content[Slot(seen[r])] /\ since'[r] = None
          /\ readers' = readers
      BY <2>5, SMT DEF Inv, TypeOK, CheckIndex, buffers
    <3>2. rpc[r] = "check"
      BY DEF CheckIndex
    <3>3. seen[r] \in 0 .. MaxIndex /\ Slot(current) \in 0 .. 1
      BY Slots, SMT DEF Inv, TypeOK
    <3>4. content[Slot(seen[r])] \in 1 .. sets
      <4>1. CASE Slot(seen[r]) = Slot(current)
        BY <4>1, SMT DEF Inv, TypeOK, CurrentOK
      <4>2. CASE Slot(seen[r]) # Slot(current)
        <5>1. Slot(seen[r]) = Other
          BY <4>2, <2>3, <2>5, <3>3, SMT DEF Other
        <5>2. index[Other] # -1 /\ seen[r] # -1
          BY <5>1, <2>5, <3>3, IndexAssumption, SMT
        <5>3. ~(phase \in {"wantNew", "lockNew", "write", "switch"})
          BY <5>1, <2>5, <3>2, SMT DEF Inv, OtherOK, SetterOK, InAttempt, Filling
        <5>4. content[Other] = sets - 1 /\ sets > 1
          BY <5>2, <5>3, SMT DEF Inv, TypeOK, OtherOK, Filling, Cleaning
        <5> QED
          BY <5>1, <5>4, SMT DEF Inv, TypeOK
      <4> QED
        BY <4>1, <4>2
    <3> QED
      BY <2>1, <2>3, <2>5, <3>1, <3>2, <3>4, SMT DEF ReaderOK, InAttempt
  <2>6. CASE q = r /\ index[Slot(seen[r])] # seen[r]
    <3>1. /\ rpc'[r] = "load" /\ given'[r] = given[r] /\ since'[r] = since[r]
          /\ rpc[r] = "check"
      BY <2>6, SMT DEF Inv, TypeOK, CheckIndex
    <3> QED
      BY <2>1, <2>3, <2>6, <3>1, SMT DEF ReaderOK, InAttempt
  <2> QED
    BY <2>4, <2>5, <2>6
<1> QED
    BY <1>1, <1>2, <1>3, <1>4, <1>5 DEF Inv

(* Unlock keeps the invariant. *)
LEMMA UnlockInv == ASSUME Inv, NEW r \in Reader, Unlock(r) PROVE Inv'
<1>1. TypeOK'
    BY Slots, NoneAssumption, SMTT(30) DEF Inv, TypeOK, Unlock, buffers
<1>2. SetterOK'
    BY Slots, SMTT(30) DEF Inv, TypeOK, SetterOK, Unlock, buffers, InAttempt, Filling
<1>3. CurrentOK'
    BY Slots, SMTT(30) DEF Inv, TypeOK, CurrentOK, Unlock, buffers
<1>4. OtherOK'
    BY Slots, SMTT(30) DEF Inv, TypeOK, CurrentOK, OtherOK, Other, Unlock, buffers
<1>5. ReadersOK'
    BY Slots, NoneAssumption, SMTT(30) DEF Inv, TypeOK, CurrentOK, OtherOK, Other, ReadersOK, ReaderOK,
       Unlock, buffers, InAttempt
<1> QED
    BY <1>1, <1>2, <1>3, <1>4, <1>5 DEF Inv

(* LockWriter keeps the invariant. *)
LEMMA LockWriterInv == ASSUME Inv, NEW s \in Setter, LockWriter(s) PROVE Inv'
<1>1. TypeOK'
    BY Slots, NoneAssumption, SMTT(30) DEF Inv, TypeOK, LockWriter, buffers, Filling, Cleaning, Empty, Torn
<1>2. SetterOK'
    BY Slots, NoneAssumption, SMTT(30) DEF Inv, TypeOK, SetterOK, LockWriter, buffers, InAttempt, NoFullLap,
       Filling, Cleaning
<1>3. CurrentOK'
    BY Slots, SMTT(30) DEF Inv, TypeOK, SetterOK, CurrentOK, OtherOK, Other, LockWriter, buffers, Filling,
       Cleaning
<1>4. OtherOK'
    BY Slots, SMTT(30) DEF Inv, TypeOK, SetterOK, CurrentOK, OtherOK, Other, LockWriter, buffers, Filling,
       Cleaning, Empty
<1>5. ReadersOK'
    BY Slots, NoneAssumption, SMTT(30) DEF Inv, TypeOK, SetterOK, CurrentOK, OtherOK, Other, ReadersOK,
       ReaderOK, LockWriter, buffers, InAttempt, Filling, Cleaning
<1> QED
    BY <1>1, <1>2, <1>3, <1>4, <1>5 DEF Inv

(* AnnounceNew keeps the invariant. *)
LEMMA AnnounceNewInv == ASSUME Inv, NEW s \in Setter, AnnounceNew(s) PROVE Inv'
<1>1. TypeOK'
    BY Slots, NoneAssumption, SMTT(30) DEF Inv, TypeOK, AnnounceNew, buffers, Filling, Cleaning, Empty, Torn
<1>2. SetterOK'
    BY Slots, NoneAssumption, SMTT(30) DEF Inv, TypeOK, SetterOK, AnnounceNew, buffers, InAttempt, NoFullLap,
       Filling, Cleaning
<1>3. CurrentOK'
    BY Slots, SMTT(30) DEF Inv, TypeOK, SetterOK, CurrentOK, OtherOK, Other, AnnounceNew, buffers, Filling,
       Cleaning
<1>4. OtherOK'
    BY Slots, SMTT(30) DEF Inv, TypeOK, SetterOK, CurrentOK, OtherOK, Other, AnnounceNew, buffers, Filling,
       Cleaning, Empty
<1>5. ReadersOK'
    BY Slots, NoneAssumption, SMTT(30) DEF Inv, TypeOK, SetterOK, CurrentOK, OtherOK, Other, ReadersOK,
       ReaderOK, AnnounceNew, buffers, InAttempt, Filling, Cleaning
<1> QED
    BY <1>1, <1>2, <1>3, <1>4, <1>5 DEF Inv

(* WriteNew keeps the invariant. *)
LEMMA WriteNewInv == ASSUME Inv, NEW s \in Setter, WriteNew(s) PROVE Inv'
<1>1. TypeOK'
    BY Slots, NoneAssumption, SMTT(30) DEF Inv, TypeOK, WriteNew, WantLock, BeginChange, EndChange, buffers,
       Filling, Cleaning, Empty, Torn
<1>2. SetterOK'
    BY Slots, NoneAssumption, SMTT(30) DEF Inv, TypeOK, SetterOK, WriteNew, WantLock, BeginChange, EndChange,
       buffers, InAttempt, NoFullLap, Filling, Cleaning
<1>3. CurrentOK'
    BY Slots, SMTT(30) DEF Inv, TypeOK, SetterOK, CurrentOK, OtherOK, Other, WriteNew, WantLock, BeginChange,
       EndChange, buffers, Filling, Cleaning
<1>4. OtherOK'
    BY Slots, SMTT(30) DEF Inv, TypeOK, SetterOK, CurrentOK, OtherOK, Other, WriteNew, WantLock, BeginChange,
       EndChange, buffers, Filling, Cleaning, Empty
<1>5. ReadersOK'
    BY Slots, NoneAssumption, SMTT(30) DEF Inv, TypeOK, SetterOK, CurrentOK, OtherOK, Other, ReadersOK,
       ReaderOK, WriteNew, WantLock, BeginChange, EndChange, buffers, InAttempt, Filling, Cleaning
<1> QED
    BY <1>1, <1>2, <1>3, <1>4, <1>5 DEF Inv

(* Switch keeps the invariant. *)
LEMMA SwitchInv == ASSUME Inv, NEW s \in Setter, Switch(s) PROVE Inv'
<1>1. TypeOK'
    BY Slots, NoneAssumption, SMTT(30) DEF Inv, TypeOK, Switch, buffers, Filling, Cleaning, Empty, Torn
<1>2. SetterOK'
    BY Slots, NoneAssumption, SMTT(30) DEF Inv, TypeOK, SetterOK, Switch, buffers, InAttempt, NoFullLap,
       Filling, Cleaning
<1>3. CurrentOK'
    BY Slots, SMTT(30) DEF Inv, TypeOK, SetterOK, CurrentOK, OtherOK, Other, Switch, buffers, Filling,
       Cleaning
<1>4. OtherOK'
    BY Slots, SMTT(30) DEF Inv, TypeOK, SetterOK, CurrentOK, OtherOK, Other, Switch, buffers, Filling,
       Cleaning, Empty
<1>5. ReadersOK'
    BY Slots, NoneAssumption, SMTT(30) DEF Inv, TypeOK, SetterOK, CurrentOK, OtherOK, Other, ReadersOK,
       ReaderOK, Switch, buffers, InAttempt, Filling, Cleaning
<1> QED
    BY <1>1, <1>2, <1>3, <1>4, <1>5 DEF Inv

(* RetireOld keeps the invariant. *)
LEMMA RetireOldInv == ASSUME Inv, NEW s \in Setter, RetireOld(s) PROVE Inv'
<1>1. TypeOK'
    BY Slots, NoneAssumption, SMTT(30) DEF Inv, TypeOK, RetireOld, buffers, Filling, Cleaning, Empty, Torn
<1>2. SetterOK'
    BY Slots, NoneAssumption, SMTT(30) DEF Inv, TypeOK, SetterOK, RetireOld, buffers, InAttempt, NoFullLap,
       Filling, Cleaning
<1>3. CurrentOK'
    BY Slots, SMTT(30) DEF Inv, TypeOK, SetterOK, CurrentOK, OtherOK, Other, RetireOld, buffers, Filling,
       Cleaning
<1>4. OtherOK'
    BY Slots, SMTT(30) DEF Inv, TypeOK, SetterOK, CurrentOK, OtherOK, Other, RetireOld, buffers, Filling,
       Cleaning, Empty
<1>5. ReadersOK'
    BY Slots, NoneAssumption, SMTT(30) DEF Inv, TypeOK, SetterOK, CurrentOK, OtherOK, Other, ReadersOK,
       ReaderOK, RetireOld, buffers, InAttempt, Filling, Cleaning
<1> QED
    BY <1>1, <1>2, <1>3, <1>4, <1>5 DEF Inv

(* DestroyOld keeps the invariant. *)
LEMMA DestroyOldInv == ASSUME Inv, NEW s \in Setter, DestroyOld(s) PROVE Inv'
<1>1. TypeOK'
    BY Slots, NoneAssumption, SMTT(30) DEF Inv, TypeOK, DestroyOld, WantLock, BeginChange, EndChange,
       buffers, Filling, Cleaning, Empty, Torn
<1>2. SetterOK'
    BY Slots, NoneAssumption, SMTT(30) DEF Inv, TypeOK, SetterOK, DestroyOld, WantLock, BeginChange,
       EndChange, buffers, InAttempt, NoFullLap, Filling, Cleaning
<1>3. CurrentOK'
    BY Slots, SMTT(30) DEF Inv, TypeOK, SetterOK, CurrentOK, OtherOK, Other, DestroyOld, WantLock,
       BeginChange, EndChange, buffers, Filling, Cleaning
<1>4. OtherOK'
    BY Slots, SMTT(30) DEF Inv, TypeOK, SetterOK, CurrentOK, OtherOK, Other, DestroyOld, WantLock,
       BeginChange, EndChange, buffers, Filling, Cleaning, Empty
<1>5. ReadersOK'
    BY Slots, NoneAssumption, SMTT(30) DEF Inv, TypeOK, SetterOK, CurrentOK, OtherOK, Other, ReadersOK,
       ReaderOK, DestroyOld, WantLock, BeginChange, EndChange, buffers, InAttempt, Filling, Cleaning
<1> QED
    BY <1>1, <1>2, <1>3, <1>4, <1>5 DEF Inv

(* Return keeps the invariant. *)
LEMMA ReturnInv == ASSUME Inv, NEW s \in Setter, Return(s) PROVE Inv'
<1>1. TypeOK'
    BY Slots, NoneAssumption, SMTT(30) DEF Inv, TypeOK, Return, buffers, Filling, Cleaning, Empty, Torn
<1>2. SetterOK'
    BY Slots, NoneAssumption, SMTT(30) DEF Inv, TypeOK, SetterOK, Return, buffers, InAttempt, NoFullLap,
       Filling, Cleaning
<1>3. CurrentOK'
    BY Slots, SMTT(30) DEF Inv, TypeOK, SetterOK, CurrentOK, OtherOK, Other, Return, buffers, Filling,
       Cleaning
<1>4. OtherOK'
    BY Slots, SMTT(30) DEF Inv, TypeOK, SetterOK, CurrentOK, OtherOK, Other, Return, buffers, Filling,
       Cleaning, Empty
<1>5. ReadersOK'
    BY Slots, NoneAssumption, SMTT(30) DEF Inv, TypeOK, SetterOK, CurrentOK, OtherOK, Other, ReadersOK,
       ReaderOK, Return, buffers, InAttempt, Filling, Cleaning
<1> QED
    BY <1>1, <1>2, <1>3, <1>4, <1>5 DEF Inv

(* Every step of a reader or a setter keeps the invariant.                  *)
LEMMA NextInv == Inv /\ [Next]_vars => Inv'
<1> SUFFICES ASSUME Inv, [Next]_vars PROVE Inv'
    OBVIOUS
<1>1. CASE UNCHANGED vars
    BY <1>1 DEF Inv, TypeOK, SetterOK, CurrentOK, OtherOK, Other, ReadersOK, ReaderOK,
                InAttempt, vars, buffers
<1>2. ASSUME NEW r \in Reader, ReaderStep(r) PROVE Inv'
    BY <1>2, CallInv, LoadIndexInv, TryLockSharedInv, CheckIndexInv, UnlockInv
       DEF ReaderStep, GetterStep
<1>3. ASSUME NEW s \in Setter, SetterStep(s) PROVE Inv'
    BY <1>3, LockWriterInv, AnnounceNewInv, WriteNewInv, SwitchInv, RetireOldInv,
       DestroyOldInv, ReturnInv DEF SetterStep
<1> QED
    BY <1>1, <1>2, <1>3 DEF Next

(* The invariant of the two buffers holds throughout.                      *)
THEOREM BuffersSafe == Spec => []Inv
<1> QED
    BY InitInv, NextInv, PTL DEF Spec

(* A reference obtained from a read lock refers to one whole value, set    *)
(* before, until the lock is released, for any number of threads.          *)
THEOREM ReferenceImmutable == Spec => []Immutable
<1>1. Inv => Immutable
    BY DEF Inv, ReadersOK, ReaderOK, Immutable
<1> QED
    BY <1>1, BuffersSafe, PTL

-----------------------------------------------------------------------------
AbstractStep == [Atomic!AtomicNext]_<<sets, <<setter, setter # None
                  /\ phase \in {"retire", "wantOld", "lockOld", "destroy", "return"}>>, since, Held>>

(* What a reader's reference refers to is what it was given.               *)
LEMMA HeldIsGiven == ASSUME Inv, Inv' PROVE Held = given /\ Held' = given'
<1>1. Held = given
    BY DEF Inv, TypeOK, ReadersOK, ReaderOK, Held
<1>2. Held' = given'
    BY DEF Inv, TypeOK, ReadersOK, ReaderOK, Held
<1> QED
    BY <1>1, <1>2

(* A step of a getter is a step of the atomic value, or none.              *)
LEMMA ReaderRefines == ASSUME Inv, Inv', NEW r \in Reader, ReaderStep(r)
                       PROVE AbstractStep
<1>0. Held = given /\ Held' = given'
    BY HeldIsGiven
<1>1. setter' = setter /\ phase' = phase /\ sets' = sets
    BY DEF ReaderStep, GetterStep, Call, LoadIndex, TryLockShared, CheckIndex, Unlock
<1>2. CASE LoadIndex(r) \/ TryLockShared(r)
    BY <1>0, <1>1, <1>2 DEF LoadIndex, TryLockShared, AbstractStep
<1>3. CASE Call(r)
  <2>1. since[r] = None /\ given[r] = None
    BY <1>3 DEF Call, Inv, ReadersOK, ReaderOK
  <2>2. Atomic!BeginGet(r)
    BY <1>0, <1>1, <1>3, <2>1 DEF Call, Atomic!BeginGet
  <2> QED
    BY <2>2 DEF AbstractStep, Atomic!AtomicNext
<1>4. CASE CheckIndex(r)
  <2>1. rpc[r] = "check" /\ since[r] \in 1 .. sets
    BY <1>4 DEF CheckIndex, Inv, ReadersOK, ReaderOK
  <2>2. CASE index[Slot(seen[r])] # seen[r]
    BY <1>0, <1>1, <1>4, <2>2 DEF CheckIndex, AbstractStep
  <2>3. CASE index[Slot(seen[r])] = seen[r]
    <3>1. content[Slot(seen[r])] \in since[r] .. sets
      <4>1. seen[r] \in 0 .. MaxIndex /\ Slot(current) \in 0 .. 1 /\ Slot(seen[r]) \in 0 .. 1
            /\ sets \in Nat \ {0}
        BY Slots, SMT DEF Inv, TypeOK
      <4>2. CASE Slot(seen[r]) = Slot(current)
        BY <4>1, <4>2, <2>1, SMT DEF Inv, CurrentOK
      <4>3. CASE Slot(seen[r]) # Slot(current)
        <5>1. Slot(seen[r]) = Other
          BY <4>1, <4>3, SMT DEF Other
        <5>2. index[Other] # -1 /\ seen[r] # -1 /\ since[r] < sets
          BY <5>1, <2>1, <2>3, <4>1, SMT DEF Inv, ReadersOK, ReaderOK, InAttempt
        <5>3. ~(phase \in {"wantNew", "lockNew", "write", "switch"})
          BY <5>1, <2>1, <2>3, SMT DEF Inv, OtherOK, SetterOK, InAttempt, Filling
        <5>4. content[Other] = sets - 1 /\ sets > 1
          BY <5>2, <5>3, SMT DEF Inv, TypeOK, OtherOK, Filling, Cleaning
        <5> QED
          BY <5>1, <5>2, <5>4, <2>1, <4>1, SMT
      <4> QED
        BY <4>2, <4>3
    <3>2. /\ since' = [since EXCEPT ![r] = None]
          /\ given' = [given EXCEPT ![r] = content[Slot(seen[r])]]
      BY <1>4, <2>3 DEF CheckIndex
    <3>3. since[r] # None
      BY <2>1, NoneAssumption, SMT DEF Inv, TypeOK
    <3>4. Atomic!Answer(r)
      BY <1>0, <1>1, <3>1, <3>2, <3>3 DEF Atomic!Answer
    <3> QED
      BY <3>4 DEF AbstractStep, Atomic!AtomicNext
  <2> QED
    BY <2>2, <2>3
<1>5. CASE Unlock(r)
  <2>1. given[r] # None
    BY <1>5, NoneAssumption, SMT DEF Unlock, Inv, TypeOK, ReadersOK, ReaderOK
  <2>2. Atomic!Release(r)
    BY <1>0, <1>1, <1>5, <2>1 DEF Unlock, Atomic!Release
  <2> QED
    BY <2>2 DEF AbstractStep, Atomic!AtomicNext
<1> QED
    BY <1>2, <1>3, <1>4, <1>5 DEF ReaderStep, GetterStep

(* So is a step of a setter.                                               *)
LEMMA SetterRefines == ASSUME Inv, Inv', NEW s \in Setter, SetterStep(s)
                       PROVE AbstractStep
<1>0. Held = given /\ Held' = given'
    BY HeldIsGiven
<1>1. since' = since /\ given' = given /\ s # None
    BY NoneAssumption DEF SetterStep, LockWriter, AnnounceNew, WriteNew, WantLock, BeginChange,
       EndChange, Switch, RetireOld, DestroyOld, Return
<1>2. CASE LockWriter(s)
  <2>1. Atomic!BeginSet(s)
    BY <1>0, <1>1, <1>2 DEF LockWriter, Atomic!BeginSet
  <2> QED
    BY <2>1 DEF AbstractStep, Atomic!AtomicNext
<1>3. CASE AnnounceNew(s) \/ WriteNew(s) \/ RetireOld(s) \/ DestroyOld(s)
    BY <1>0, <1>1, <1>3 DEF AnnounceNew, WriteNew, WantLock, BeginChange, EndChange, RetireOld,
       DestroyOld, AbstractStep
<1>4. CASE Switch(s)
  <2>1. setter = s /\ setter' = s /\ phase = "switch" /\ phase' \in {"retire", "return"}
        /\ sets' = sets + 1
    BY <1>4 DEF Switch
  <2>2. Atomic!TakeEffect(s)
    BY <1>0, <1>1, <2>1 DEF Atomic!TakeEffect
  <2> QED
    BY <2>2 DEF AbstractStep, Atomic!AtomicNext
<1>5. CASE Return(s)
  <2>1. setter = s /\ setter' = None /\ phase = "return" /\ phase' = "out" /\ sets' = sets
    BY <1>5 DEF Return
  <2>2. Atomic!EndSet(s)
    BY <1>0, <1>1, <2>1 DEF Atomic!EndSet
  <2> QED
    BY <2>2 DEF AbstractStep, Atomic!AtomicNext
<1> QED
    BY <1>2, <1>3, <1>4, <1>5 DEF SetterStep

(* Gets and sets are atomic, for any readers, setters, index width and     *)
(* kind of value: the double buffer implements AtomicValue.                *)
THEOREM BufferIsAtomic == Spec => ImplementsAtomicValue
<1>1. Init => Atomic!AtomicInit
    BY NoneAssumption DEF Init, Atomic!AtomicInit, Held
<1>2. Inv /\ Inv' /\ [Next]_vars => [Atomic!AtomicNext]_Atomic!atomicVars
  <2> SUFFICES ASSUME Inv, Inv', [Next]_vars PROVE AbstractStep
    BY DEF AbstractStep, Atomic!atomicVars
  <2>1. CASE UNCHANGED vars
    BY <2>1, HeldIsGiven DEF vars, AbstractStep
  <2> QED
    BY <2>1, ReaderRefines, SetterRefines DEF Next
<1> QED
    BY <1>1, <1>2, BuffersSafe, PTL DEF Spec, ImplementsAtomicValue, Atomic!AtomicSpec


-----------------------------------------------------------------------------
(* AsplDevice: lists of changes.                                           *)

(* A set of numbers that is not empty has a least one. *)
LEMMA LeastOf == ASSUME NEW S \in SUBSET Nat, S # {} PROVE \E x \in S : \A y \in S : x <= y
<1> DEFINE Less == {pair \in Nat \X Nat : pair[1] < pair[2]}
<1>1. IsWellFoundedOn(Less, Nat)
  BY NatLessThanWellFounded DEF OpToRel
<1>2. PICK x \in S : \A y \in S : ~(<<y, x>> \in Less)
  <2> HIDE DEF Less
  <2> QED BY <1>1, WFMin
<1>3. ASSUME NEW y \in S, y < x PROVE FALSE
  <2>1. <<y, x>> \in Less
    BY <1>3
  <2> QED BY <1>2, <2>1
<1> QED BY <1>2, <1>3

(* What ApplyAll computes on its way: one value per change applied. *)
Course(d, cs, k, f) ==
    f = [n \in 0 .. k |-> IF n = 0 THEN d ELSE Apply(f[n - 1], cs[n])]

LEMMA CourseOnce ==
    ASSUME NEW d, NEW cs, NEW k \in Nat, NEW f, NEW g, Course(d, cs, k, f), Course(d, cs, k, g)
    PROVE  f = g
<1> DEFINE Bad == {n \in 0 .. k : f[n] # g[n]}
<1>1. SUFFICES ASSUME Bad # {} PROVE FALSE
  BY DEF Course
<1>2. PICK n \in Bad : \A m \in Bad : n <= m
  <2>1. Bad \in SUBSET Nat
    OBVIOUS
  <2> HIDE DEF Bad
  <2> QED BY <1>1, <2>1, LeastOf
<1>3. n # 0
  BY DEF Course
<1>4. f[n - 1] = g[n - 1]
  BY <1>2, <1>3
<1> QED BY <1>2, <1>3, <1>4 DEF Course

LEMMA CourseExists ==
    ASSUME NEW d, NEW cs, NEW k \in Nat
    PROVE  \E f : Course(d, cs, k, f)
<1> DEFINE Bad == {n \in Nat : ~\E f : Course(d, cs, n, f)}
<1>1. SUFFICES ASSUME Bad # {} PROVE FALSE
  OBVIOUS
<1>2. PICK n \in Bad : \A m \in Bad : n <= m
  <2>1. Bad \in SUBSET Nat
    OBVIOUS
  <2> HIDE DEF Bad
  <2> QED BY <1>1, <2>1, LeastOf
<1>3. n # 0
  <2>1. Course(d, cs, 0, [m \in 0 .. 0 |-> d])
    BY DEF Course
  <2> QED BY <1>2, <2>1
<1>4. PICK f : Course(d, cs, n - 1, f)
  BY <1>2, <1>3
<1> DEFINE g == [m \in 0 .. n |-> IF m = n THEN Apply(f[n - 1], cs[n]) ELSE f[m]]
<1>5. ASSUME NEW m \in 0 .. n
      PROVE  g[m] = IF m = 0 THEN d ELSE Apply(g[m - 1], cs[m])
  <2>1. CASE m = 0
    BY <2>1, <1>2, <1>3, <1>4 DEF Course
  <2>2. CASE m # 0 /\ m # n
    <3>1. m \in 0 .. n - 1 /\ m - 1 \in 0 .. n - 1 /\ m - 1 \in 0 .. n /\ m - 1 # n
      BY <2>2, <1>2
    <3>2. g[m] = f[m] /\ g[m - 1] = f[m - 1]
      BY <2>2, <3>1
    <3>3. f[m] = Apply(f[m - 1], cs[m])
      BY <2>2, <3>1, <1>4 DEF Course
    <3> QED BY <2>2, <3>2, <3>3
  <2>3. CASE m = n
    <3>1. m - 1 \in 0 .. n /\ m - 1 # n
      BY <2>3, <1>3, <1>2
    <3> QED BY <2>3, <1>3, <3>1
  <2> QED BY <2>1, <2>2, <2>3
<1>6. Course(d, cs, n, g)
  <2>1. g = [m \in 0 .. n |-> g[m]]
    OBVIOUS
  <2> HIDE DEF g
  <2> QED BY <2>1, <1>5 DEF Course
<1> QED BY <1>2, <1>6

LEMMA AppliedIs ==
    ASSUME NEW d, NEW S, NEW cs \in Seq(S), NEW f, Course(d, cs, Len(cs), f)
    PROVE  ApplyAll(d, cs) = f[Len(cs)]
<1> DEFINE g == CHOOSE h : h = [n \in 0 .. Len(cs) |-> IF n = 0 THEN d ELSE Apply(h[n - 1], cs[n])]
<1>1. Course(d, cs, Len(cs), g)
  BY CourseExists DEF Course
<1>2. ApplyAll(d, cs) = g[Len(cs)]
  BY DEF ApplyAll
<1> HIDE DEF g
<1>3. Len(cs) \in Nat
  OBVIOUS
<1>4. f = g
  BY <1>1, <1>3, CourseOnce
<1> QED BY <1>2, <1>4

(* Nothing to apply; one change; two queues, one after the other. *)
LEMMA ApplyNone == ASSUME NEW d PROVE ApplyAll(d, <<>>) = d
<1>1. PICK f : Course(d, <<>>, 0, f)
  BY CourseExists
<1>2. ApplyAll(d, <<>>) = f[0]
  BY <1>1, AppliedIs, Len(<<>>) = 0, <<>> \in Seq({})
<1> QED BY <1>1, <1>2 DEF Course

LEMMA ApplyOne == ASSUME NEW d, NEW c PROVE ApplyAll(d, <<c>>) = Apply(d, c)
<1>1. PICK f : Course(d, <<c>>, 1, f)
  BY CourseExists
<1>2. ApplyAll(d, <<c>>) = f[1]
  BY <1>1, AppliedIs, Len(<<c>>) = 1, <<c>> \in Seq({c})
<1>3. f[0] = d
  BY <1>1 DEF Course
<1>4. f[1] = Apply(f[0], <<c>>[1])
  BY <1>1 DEF Course
<1> QED BY <1>2, <1>3, <1>4

LEMMA ApplyConcat ==
    ASSUME NEW d, NEW S, NEW s \in Seq(S), NEW t \in Seq(S)
    PROVE  ApplyAll(d, s \o t) = ApplyAll(ApplyAll(d, s), t)
<1> DEFINE u == s \o t
           m == Len(s)
           k == Len(s) + Len(t)
<1>1. /\ u \in Seq(S) /\ Len(u) = k /\ m \in Nat /\ Len(t) \in Nat
      /\ \A n \in 1 .. k : u[n] = IF n <= m THEN s[n] ELSE t[n - m]
  OBVIOUS
<1> HIDE DEF u
<1>2. PICK f : Course(d, s, m, f)
  BY <1>1, CourseExists
<1>3. ApplyAll(d, s) = f[m]
  BY <1>2, AppliedIs
<1>4. PICK g : Course(f[m], t, Len(t), g)
  BY <1>1, CourseExists
<1>5. ApplyAll(f[m], t) = g[Len(t)]
  BY <1>4, AppliedIs
<1> DEFINE h == [n \in 0 .. k |-> IF n <= m THEN f[n] ELSE g[n - m]]
<1>6. ASSUME NEW n \in 0 .. k
      PROVE  h[n] = IF n = 0 THEN d ELSE Apply(h[n - 1], u[n])
  <2>1. CASE n = 0
    <3>1. h[n] = f[0]
      BY <2>1, <1>1
    <3>2. f[0] = d
      BY <1>1, <1>2 DEF Course
    <3> QED BY <2>1, <3>1, <3>2
  <2>2. CASE n # 0 /\ n <= m
    <3>1. n \in 0 .. m /\ n - 1 \in 0 .. k /\ n - 1 <= m
      BY <2>2, <1>1
    <3>2. f[n] = Apply(f[n - 1], s[n])
      BY <2>2, <3>1, <1>2 DEF Course
    <3>3. u[n] = s[n]
      BY <2>2, <1>1
    <3> QED BY <2>2, <3>1, <3>2, <3>3
  <2>3. CASE n = m + 1
    <3>1. 1 \in 0 .. Len(t) /\ 0 \in 0 .. Len(t) /\ n - m = 1 /\ n - 1 = m /\ m \in 0 .. k
      BY <2>3, <1>1
    <3>2. g[1] = Apply(g[0], t[1]) /\ g[0] = f[m]
      BY <3>1, <1>4 DEF Course
    <3>3. u[n] = t[1]
      <4>1. n \in 1 .. k /\ ~(n <= m)
        BY <2>3, <1>1
      <4>2. u[n] = t[n - m]
        BY <4>1, <1>1
      <4> QED BY <4>2, <3>1
    <3> QED BY <2>3, <3>1, <3>2, <3>3, <1>1
  <2>4. CASE n > m + 1
    <3>1. n - m \in 0 .. Len(t) /\ n - m # 0 /\ n - 1 \in 0 .. k /\ ~(n - 1 <= m) /\ (n - 1) - m = (n - m) - 1
      BY <2>4, <1>1
    <3>2. g[n - m] = Apply(g[(n - m) - 1], t[n - m])
      BY <3>1, <1>4 DEF Course
    <3>3. u[n] = t[n - m]
      BY <2>4, <1>1
    <3>4. h[n] = g[n - m] /\ h[n - 1] = g[(n - m) - 1]
      BY <2>4, <3>1, <1>1
    <3> QED BY <2>4, <3>2, <3>3, <3>4, <1>1
  <2> QED BY <2>1, <2>2, <2>3, <2>4, <1>1
<1>7. Course(d, u, k, h)
  <2>1. h = [n \in 0 .. k |-> h[n]]
    OBVIOUS
  <2> HIDE DEF h
  <2> QED BY <2>1, <1>6 DEF Course
<1>8. ApplyAll(d, u) = h[k]
  BY <1>1, <1>7, AppliedIs
<1>9. h[k] = g[Len(t)]
  <2>1. CASE Len(t) = 0
    <3>1. h[k] = f[m]
      BY <2>1, <1>1
    <3>2. g[0] = f[m]
      BY <1>1, <1>4 DEF Course
    <3> QED BY <2>1, <3>1, <3>2
  <2>2. CASE Len(t) # 0
    BY <2>2, <1>1
  <2> QED BY <2>1, <2>2
<1> QED BY <1>3, <1>5, <1>8, <1>9 DEF u

-----------------------------------------------------------------------------
(* What one change does to the device.                                     *)

Told == {pv \in Setting \X UNION {Value(p) : p \in Setting} : pv[2] \in Value(pv[1])}
Change ==
    {[kind |-> "set", what |-> pv[1], value |-> pv[2]] : pv \in Told}
    \cup [kind : {"add", "remove"}, what : Object]
    \cup [kind : {"function"}, sets : Told \X Told]

IsList(p) ==
    p[2] \in {"availableSampleRates", "availablePhysicalFormats", "availableVirtualFormats"}
InForce(p) ==
    <<p[1], CASE p[2] = "availableSampleRates" -> "nominalSampleRate"
              [] p[2] = "availablePhysicalFormats" -> "physicalFormat"
              [] OTHER -> "virtualFormat">>

WholeDevice(d) ==
    /\ DOMAIN d = {"config", "owned", "inputs", "outputs"}
    /\ DOMAIN d.config = Setting

LEMMA Names ==
    ASSUME NEW p \in Setting
    PROVE  /\ p = <<p[1], p[2]>>
           /\ p[1] = Device \/ p[1] \in Stream
           /\ p \notin Object
           /\ p \notin Descriptions <=> p[2] \notin {"channelCount", "channels", "channelLayout"}
           /\ IsList(p) => /\ InForce(p) \in Setting /\ InForce(p)[1] = p[1]
                           /\ ~IsList(InForce(p)) /\ InForce(p) # p
                           /\ p \notin Descriptions /\ InForce(p) \notin Descriptions
                           /\ p[2] = "availableSampleRates" => p = <<Device, p[2]>>
<1>1. p = <<p[1], p[2]>> /\ (p[1] = Device \/ p[1] \in Stream)
  BY DEF Setting
<1>2. p \notin Object
  BY ObjectAssumption
<1>3. p \notin Descriptions <=> p[2] \notin {"channelCount", "channels", "channelLayout"}
  BY DEF Setting, Descriptions
<1>4. ASSUME IsList(p)
      PROVE  /\ InForce(p) \in Setting /\ InForce(p)[1] = p[1]
             /\ ~IsList(InForce(p)) /\ InForce(p) # p
             /\ p \notin Descriptions /\ InForce(p) \notin Descriptions
             /\ p[2] = "availableSampleRates" => p = <<Device, p[2]>>
  <2>1. CASE p[2] = "availableSampleRates"
    <3>1. p[1] = Device /\ InForce(p) = <<Device, "nominalSampleRate">>
      BY <2>1 DEF Setting, InForce
    <3> QED BY <2>1, <3>1, <1>1 DEF Setting, IsList, Descriptions
  <2>2. CASE p[2] = "availablePhysicalFormats"
    <3>1. p[1] \in Stream /\ InForce(p) = <<p[1], "physicalFormat">>
      BY <2>2 DEF Setting, InForce
    <3> QED BY <2>2, <3>1, <1>1 DEF Setting, IsList, Descriptions
  <2>3. CASE p[2] = "availableVirtualFormats"
    <3>1. p[1] \in Stream /\ InForce(p) = <<p[1], "virtualFormat">>
      BY <2>3 DEF Setting, InForce
    <3> QED BY <2>3, <3>1, <1>1 DEF Setting, IsList, Descriptions
  <2> QED BY <1>4, <2>1, <2>2, <2>3 DEF IsList
<1> QED BY <1>1, <1>2, <1>3, <1>4

LEMMA GetterPlain ==
    ASSUME NEW c, NEW p \in Setting, p \notin Descriptions, ~IsList(p)
    PROVE  Getter(c, p) = c[p]
<1>1. p[2] \notin {"channelCount", "channels", "channelLayout"}
  BY Names
<1> QED BY <1>1 DEF Getter, IsList

LEMMA GetterOfList ==
    ASSUME NEW c, NEW p \in Setting, IsList(p)
    PROVE  Getter(c, p) = IF c[p] # Unset THEN c[p] ELSE {c[InForce(p)]}
<1>1. p = <<p[1], p[2]>>
  BY Names
<1>2. CASE p[2] = "availableSampleRates"
  <2>1. p = <<Device, "availableSampleRates">>
    BY <1>2, Names
  <2>2. InForce(p) = <<Device, "nominalSampleRate">>
    BY <2>1 DEF InForce
  <2>3. Getter(c, p) = AvailableSampleRates(c)
    BY <1>2 DEF Getter
  <2> QED BY <2>1, <2>2, <2>3 DEF AvailableSampleRates
<1>3. CASE p[2] = "availablePhysicalFormats"
  <2>1. InForce(p) = <<p[1], "physicalFormat">>
    BY <1>3 DEF InForce
  <2>2. Getter(c, p) = AvailablePhysicalFormats(c, p[1])
    BY <1>3 DEF Getter
  <2> QED BY <1>1, <1>3, <2>1, <2>2 DEF AvailablePhysicalFormats
<1>4. CASE p[2] = "availableVirtualFormats"
  <2>1. InForce(p) = <<p[1], "virtualFormat">>
    BY <1>4 DEF InForce
  <2>2. Getter(c, p) = AvailableVirtualFormats(c, p[1])
    BY <1>4 DEF Getter
  <2> QED BY <1>1, <1>4, <2>1, <2>2 DEF AvailableVirtualFormats
<1> QED BY <1>2, <1>3, <1>4 DEF IsList

(* While a list was never set, what it lists is the value in force: no     *)
(* other one is accepted.                                                  *)
LEMMA OnlyOneOffered ==
    ASSUME NEW c, NEW p \in Setting, IsList(p), c[p] = Unset, NEW v
    PROVE  ~Accepted(c, InForce(p), v)
<1> DEFINE q == InForce(p)
<1>1. q \in Setting /\ ~IsList(q) /\ q \notin Descriptions /\ p = <<p[1], p[2]>>
  BY Names
<1>2. Getter(c, q) = c[q]
  BY <1>1, GetterPlain
<1>3. ASSUME Valid(c, q, v) PROVE v = c[q]
  <2>1. CASE p[2] = "availableSampleRates"
    <3>1. p = <<Device, "availableSampleRates">> /\ q = <<Device, "nominalSampleRate">>
      BY <2>1, Names DEF InForce
    <3>2. CheckNominalSampleRate(c, v)
      BY <1>3, <3>1 DEF Valid
    <3>3. AvailableSampleRates(c) = {c[q]}
      BY <3>1 DEF AvailableSampleRates
    <3> QED BY <3>2, <3>3 DEF CheckNominalSampleRate, Offers
  <2>2. CASE p[2] = "availablePhysicalFormats"
    <3>1. q = <<p[1], "physicalFormat">>
      BY <2>2 DEF InForce
    <3>2. CheckPhysicalFormat(c, p[1], v)
      BY <1>3, <3>1 DEF Valid
    <3>3. AvailablePhysicalFormats(c, p[1]) = {c[q]}
      BY <2>2, <3>1, <1>1 DEF AvailablePhysicalFormats
    <3> QED BY <3>2, <3>3 DEF CheckPhysicalFormat, Offers
  <2>3. CASE p[2] = "availableVirtualFormats"
    <3>1. q = <<p[1], "virtualFormat">>
      BY <2>3 DEF InForce
    <3>2. CheckVirtualFormat(c, p[1], v)
      BY <1>3, <3>1 DEF Valid
    <3>3. AvailableVirtualFormats(c, p[1]) = {c[q]}
      BY <2>3, <3>1, <1>1 DEF AvailableVirtualFormats
    <3> QED BY <3>2, <3>3 DEF CheckVirtualFormat, Offers
  <2> QED BY <2>1, <2>2, <2>3 DEF IsList
<1> QED BY <1>2, <1>3 DEF Accepted

LEMMA NoEmptyList ==
    ASSUME NEW p \in Setting, IsList(p), NEW v \in Value(p)
    PROVE  v # Unset
<1>1. v \in {{}, {1}, {1, 2}}
  BY DEF IsList, Value
<1> QED BY <1>1 DEF Unset

LEMMA SetImplDoes ==
    ASSUME NEW d, WholeDevice(d), NEW p \in Setting, NEW v
    PROVE  /\ WholeDevice(SetImpl(d, p, v))
           /\ SetImpl(d, p, v).owned = d.owned
           /\ SetImpl(d, p, v).inputs = d.inputs
           /\ SetImpl(d, p, v).outputs = d.outputs
           /\ \A q \in Setting : q # p => SetImpl(d, p, v).config[q] = d.config[q]
           /\ SetImpl(d, p, v).config[p] = IF Getter(d.config, p) = v THEN d.config[p] ELSE v
<1>1. CASE Getter(d.config, p) = v
  BY <1>1 DEF SetImpl
<1>2. CASE Getter(d.config, p) # v
  <2>1. SetImpl(d, p, v) = [d EXCEPT !.config = [d.config EXCEPT ![p] = v]]
    BY <1>2 DEF SetImpl
  <2>2. /\ SetImpl(d, p, v).config = [d.config EXCEPT ![p] = v]
        /\ SetImpl(d, p, v).owned = d.owned
        /\ SetImpl(d, p, v).inputs = d.inputs
        /\ SetImpl(d, p, v).outputs = d.outputs
        /\ DOMAIN SetImpl(d, p, v) = DOMAIN d
    BY <2>1 DEF WholeDevice
  <2> QED BY <1>2, <2>2 DEF WholeDevice
<1> QED BY <1>1, <1>2

LEMMA SetInPlaceDoes ==
    ASSUME NEW d, WholeDevice(d), NEW pv \in Told
    PROVE  /\ WholeDevice(SetInPlace(d, pv))
           /\ SetInPlace(d, pv).owned = d.owned
           /\ SetInPlace(d, pv).inputs = d.inputs
           /\ SetInPlace(d, pv).outputs = d.outputs
           /\ \A q \in Setting : q # pv[1] => SetInPlace(d, pv).config[q] = d.config[q]
           /\ \A p \in Setting : IsList(p) /\ SetInPlace(d, pv).config[p] = Unset =>
                /\ d.config[p] = Unset
                /\ SetInPlace(d, pv).config[InForce(p)] = d.config[InForce(p)]
<1>1. pv[1] \in Setting /\ pv[2] \in Value(pv[1])
  BY DEF Told
<1>2. CASE Accepted(d.config, pv[1], pv[2])
  <2>1. SetInPlace(d, pv) = SetImpl(d, pv[1], pv[2]) /\ Getter(d.config, pv[1]) # pv[2]
    BY <1>2 DEF SetInPlace, Accepted
  <2>2. ASSUME NEW p \in Setting, IsList(p), SetInPlace(d, pv).config[p] = Unset
        PROVE  /\ d.config[p] = Unset
               /\ SetInPlace(d, pv).config[InForce(p)] = d.config[InForce(p)]
    <3>1. p # pv[1]
      BY <2>1, <2>2, <1>1, SetImplDoes, NoEmptyList
    <3>2. d.config[p] = Unset
      BY <2>1, <2>2, <3>1, <1>1, SetImplDoes
    <3>3. pv[1] # InForce(p)
      BY <1>2, <2>2, <3>2, OnlyOneOffered
    <3> QED BY <2>1, <2>2, <3>2, <3>3, <1>1, SetImplDoes, Names
  <2> QED BY <1>1, <2>1, <2>2, SetImplDoes
<1>3. CASE ~Accepted(d.config, pv[1], pv[2])
  BY <1>3 DEF SetInPlace
<1> QED BY <1>2, <1>3

LEMMA KindsOfChange ==
    ASSUME NEW c \in Change
    PROVE  \/ /\ c.kind = "set" /\ c.what \in Setting /\ c.value \in Value(c.what)
              /\ Touches(c) = {c.what}
              /\ \A d : Apply(d, c) = SetImpl(d, c.what, c.value)
           \/ /\ c.kind = "add" /\ c.what \in Object /\ Touches(c) = {c.what}
              /\ \A d : Apply(d, c) = AddOwned(d, c.what)
           \/ /\ c.kind = "remove" /\ c.what \in Object /\ Touches(c) = {c.what}
              /\ \A d : Apply(d, c) = RemoveOwned(d, c.what)
           \/ /\ c.kind = "function" /\ c.sets[1] \in Told /\ c.sets[2] \in Told
              /\ Touches(c) = {c.sets[1][1], c.sets[2][1]}
              /\ \A d : Apply(d, c) = SetInPlace(SetInPlace(d, c.sets[1]), c.sets[2])
<1>1. CASE \E pv \in Told : c = [kind |-> "set", what |-> pv[1], value |-> pv[2]]
  BY <1>1 DEF Told, Touches, Apply
<1>2. CASE c \in [kind : {"add", "remove"}, what : Object]
  <2>1. CASE c.kind = "add"
    BY <1>2, <2>1 DEF Touches, Apply
  <2>2. CASE c.kind = "remove"
    BY <1>2, <2>2 DEF Touches, Apply
  <2> QED BY <1>2, <2>1, <2>2
<1>3. CASE c \in [kind : {"function"}, sets : Told \X Told]
  <2>2. c.kind = "function" /\ c.sets \in Told \X Told
    BY <1>3
  <2>3. c.sets[1] \in Told /\ c.sets[2] \in Told /\ DOMAIN c.sets = {1, 2}
    BY <2>2
  <2>4. Touches(c) = {c.sets[1][1], c.sets[2][1]}
    BY <2>2, <2>3 DEF Touches
  <2>5. \A d : Apply(d, c) = SetInPlace(SetInPlace(d, c.sets[1]), c.sets[2])
    BY <2>2 DEF Apply
  <2> QED BY <2>2, <2>3, <2>4, <2>5
<1> QED BY <1>1, <1>2, <1>3 DEF Change

LEMMA OwnedDoes ==
    ASSUME NEW d, WholeDevice(d), NEW o
    PROVE  /\ WholeDevice(AddOwned(d, o)) /\ WholeDevice(RemoveOwned(d, o))
           /\ AddOwned(d, o).config = d.config /\ RemoveOwned(d, o).config = d.config
           /\ AddOwned(d, o).owned = d.owned \cup {o}
           /\ RemoveOwned(d, o).owned = d.owned \ {o}
           /\ AddOwned(d, o).inputs = IF o \in Inputs THEN (d.inputs + 1) % UIntMod ELSE d.inputs
           /\ AddOwned(d, o).outputs = IF o \in Outputs THEN (d.outputs + 1) % UIntMod ELSE d.outputs
           /\ RemoveOwned(d, o).inputs =
                IF o \in Inputs THEN (d.inputs - 1) % UIntMod ELSE d.inputs
           /\ RemoveOwned(d, o).outputs =
                IF o \in Outputs THEN (d.outputs - 1) % UIntMod ELSE d.outputs
BY DEF WholeDevice, AddOwned, RemoveOwned

(* A change of the settings leaves the objects alone, and one of the       *)
(* objects the settings; and a setting a change does not name stays.       *)
LEMMA ChangeDoes ==
    ASSUME NEW d, WholeDevice(d), NEW c \in Change
    PROVE  /\ WholeDevice(Apply(d, c))
           /\ c.kind \in {"add", "remove"} => Apply(d, c).config = d.config
           /\ c.kind \notin {"add", "remove"} =>
                /\ Apply(d, c).owned = d.owned
                /\ Apply(d, c).inputs = d.inputs /\ Apply(d, c).outputs = d.outputs
           /\ \A p \in Setting : p \notin Touches(c) => Apply(d, c).config[p] = d.config[p]
<1>1. CASE c.kind = "set"
  BY <1>1, KindsOfChange, SetImplDoes
<1>2. CASE c.kind \in {"add", "remove"}
  BY <1>2, KindsOfChange, OwnedDoes
<1>3. CASE c.kind = "function"
  <2>1. /\ c.sets[1] \in Told /\ c.sets[2] \in Told
        /\ Touches(c) = {c.sets[1][1], c.sets[2][1]}
        /\ Apply(d, c) = SetInPlace(SetInPlace(d, c.sets[1]), c.sets[2])
    BY <1>3, KindsOfChange
  <2> DEFINE e == SetInPlace(d, c.sets[1])
  <2>2. /\ WholeDevice(e) /\ e.owned = d.owned /\ e.inputs = d.inputs /\ e.outputs = d.outputs
        /\ \A q \in Setting : q # c.sets[1][1] => e.config[q] = d.config[q]
    BY <2>1, SetInPlaceDoes
  <2> HIDE DEF e
  <2>3. Apply(d, c) = SetInPlace(e, c.sets[2])
    BY <2>1 DEF e
  <2> DEFINE a == SetInPlace(e, c.sets[2])
  <2>4. /\ WholeDevice(a) /\ a.owned = e.owned /\ a.inputs = e.inputs /\ a.outputs = e.outputs
        /\ \A q \in Setting : q # c.sets[2][1] => a.config[q] = e.config[q]
    BY <2>1, <2>2, SetInPlaceDoes
  <2> HIDE DEF a
  <2>5. Apply(d, c) = a
    BY <2>3 DEF a
  <2> QED BY <1>3, <2>1, <2>2, <2>4, <2>5
<1> QED BY <1>1, <1>2, <1>3, KindsOfChange

(* A list that is still not set was not set before, and what is in force   *)
(* in its place has not changed but by a setter's own change.              *)
LEMMA StaysUnset ==
    ASSUME NEW d, WholeDevice(d), NEW c \in Change, NEW p \in Setting, IsList(p),
           Apply(d, c).config[p] = Unset, c.kind = "set" => c.what # InForce(p)
    PROVE  d.config[p] = Unset /\ Apply(d, c).config[InForce(p)] = d.config[InForce(p)]
<1>0. InForce(p) \in Setting
  BY Names
<1>1. CASE c.kind = "set"
  <2>1. d.config[p] = Unset
    BY <1>1, KindsOfChange, SetImplDoes, NoEmptyList
  <2> QED BY <1>0, <1>1, <2>1, KindsOfChange, ChangeDoes
<1>2. CASE c.kind \in {"add", "remove"}
  BY <1>2, ChangeDoes
<1>3. CASE c.kind = "function"
  <2>1. /\ c.sets[1] \in Told /\ c.sets[2] \in Told
        /\ Apply(d, c) = SetInPlace(SetInPlace(d, c.sets[1]), c.sets[2])
    BY <1>3, KindsOfChange
  <2> DEFINE e == SetInPlace(d, c.sets[1])
  <2>2. WholeDevice(e)
    BY <2>1, SetInPlaceDoes
  <2>3. Apply(d, c) = SetInPlace(e, c.sets[2])
    BY <2>1
  <2>4. e.config[p] = Unset => d.config[p] = Unset /\ e.config[InForce(p)] = d.config[InForce(p)]
    BY <2>1, SetInPlaceDoes
  <2> HIDE DEF e
  <2> QED BY <2>1, <2>2, <2>3, <2>4, SetInPlaceDoes, SMTT(30)
<1> QED BY <1>1, <1>2, <1>3, KindsOfChange

-----------------------------------------------------------------------------
(* What a queue does to the device.                                        *)

LEMMA QueueKeepsWhole ==
    ASSUME NEW d, WholeDevice(d), NEW cs \in Seq(Change)
    PROVE  WholeDevice(ApplyAll(d, cs))
<1>1. PICK f : Course(d, cs, Len(cs), f)
  BY CourseExists, Len(cs) \in Nat
<1> DEFINE Bad == {n \in 0 .. Len(cs) : ~WholeDevice(f[n])}
<1>2. ASSUME Bad # {} PROVE FALSE
  <2>1. PICK n \in Bad : \A m \in Bad : n <= m
    <3>1. Bad \in SUBSET Nat
      OBVIOUS
    <3> HIDE DEF Bad
    <3> QED BY <1>2, <3>1, LeastOf
  <2>2. n # 0
    BY <1>1 DEF Course
  <2>3. n - 1 \in 0 .. Len(cs) /\ n - 1 \notin Bad /\ cs[n] \in Change
    BY <2>1, <2>2
  <2>4. f[n] = Apply(f[n - 1], cs[n])
    BY <2>1, <2>2, <1>1 DEF Course
  <2> QED BY <2>1, <2>3, <2>4, ChangeDoes
<1> QED BY <1>1, <1>2, AppliedIs

(* Two devices whose objects differ only in those of T stay so, whatever   *)
(* is applied to both; and when no stream is in T, their counters agree.   *)
Alike(d, e, T) ==
    /\ \A o \in Object \ T : o \in d.owned <=> o \in e.owned
    /\ T \cap Stream = {} => d.inputs = e.inputs /\ d.outputs = e.outputs

LEMMA ChangeKeepsAlike ==
    ASSUME NEW d, NEW e, NEW T, WholeDevice(d), WholeDevice(e), Alike(d, e, T), NEW c \in Change
    PROVE  Alike(Apply(d, c), Apply(e, c), T)
<1>1. CASE c.kind \in {"add", "remove"}
  BY <1>1, KindsOfChange, OwnedDoes DEF Alike
<1>2. CASE c.kind \notin {"add", "remove"}
  BY <1>2, ChangeDoes DEF Alike
<1> QED BY <1>1, <1>2

LEMMA QueueKeepsAlike ==
    ASSUME NEW d, NEW e, NEW T, WholeDevice(d), WholeDevice(e), Alike(d, e, T),
           NEW cs \in Seq(Change)
    PROVE  Alike(ApplyAll(d, cs), ApplyAll(e, cs), T)
<1>1. PICK f : Course(d, cs, Len(cs), f)
  BY CourseExists, Len(cs) \in Nat
<1>2. PICK g : Course(e, cs, Len(cs), g)
  BY CourseExists, Len(cs) \in Nat
<1> DEFINE Bad == {n \in 0 .. Len(cs) : ~(WholeDevice(f[n]) /\ WholeDevice(g[n]) /\ Alike(f[n], g[n], T))}
<1>3. ASSUME Bad # {} PROVE FALSE
  <2>1. PICK n \in Bad : \A m \in Bad : n <= m
    <3>1. Bad \in SUBSET Nat
      OBVIOUS
    <3> HIDE DEF Bad
    <3> QED BY <1>3, <3>1, LeastOf
  <2>2. n # 0
    BY <1>1, <1>2 DEF Course
  <2>3. n - 1 \in 0 .. Len(cs) /\ n - 1 \notin Bad /\ cs[n] \in Change
    BY <2>1, <2>2
  <2>4. f[n] = Apply(f[n - 1], cs[n]) /\ g[n] = Apply(g[n - 1], cs[n])
    BY <2>1, <2>2, <1>1, <1>2 DEF Course
  <2> QED BY <2>1, <2>3, <2>4, ChangeDoes, ChangeKeepsAlike
<1> QED BY <1>1, <1>2, <1>3, AppliedIs

LEMMA SetTakes ==
    ASSUME NEW d, WholeDevice(d), NEW c \in Change, c.kind = "set", c.what \notin Descriptions,
           IsList(c.what) /\ d.config[c.what] = Unset => c.value # {d.config[InForce(c.what)]}
    PROVE  Apply(d, c).config[c.what] = c.value
<1>1. c.what \in Setting /\ Apply(d, c) = SetImpl(d, c.what, c.value)
  BY KindsOfChange
<1>2. Getter(d.config, c.what) = c.value => d.config[c.what] = c.value
  <2>1. CASE IsList(c.what)
    BY <1>1, <2>1, GetterOfList
  <2>2. CASE ~IsList(c.what)
    BY <1>1, <2>2, GetterPlain
  <2> QED BY <2>1, <2>2
<1> QED BY <1>1, <1>2, SetImplDoes

(* A list that was never set: nobody has asked for another value in its    *)
(* place, and the lists asked for say more than that value.                *)
NeverSet(d, cs, p) ==
    IsList(p) /\ d.config[p] = Unset =>
      \A i \in 1 .. Len(cs) : cs[i].kind = "set" =>
        /\ cs[i].what # InForce(p)
        /\ cs[i].what = p => cs[i].value # {d.config[InForce(p)]}

(* What a setting that no function names comes to: the value of the last   *)
(* change that names it, or what it is.                                    *)
LEMMA QueueSets ==
    ASSUME NEW d, WholeDevice(d), NEW cs \in Seq(Change), NEW p \in Setting, p \notin Descriptions,
           \A i \in 1 .. Len(cs) : p \in Touches(cs[i]) => cs[i].kind = "set",
           NeverSet(d, cs, p)
    PROVE  /\ (\A i \in 1 .. Len(cs) : p \notin Touches(cs[i]))
                => ApplyAll(d, cs).config[p] = d.config[p]
           /\ \A i \in 1 .. Len(cs) :
                /\ p \in Touches(cs[i])
                /\ \A j \in 1 .. Len(cs) : i < j => p \notin Touches(cs[j])
                => ApplyAll(d, cs).config[p] = cs[i].value
<1>1. PICK f : Course(d, cs, Len(cs), f)
  BY CourseExists, Len(cs) \in Nat
<1>0. f[0] = d
  BY <1>1, Len(cs) \in Nat DEF Course
<1> DEFINE Good(n) ==
             /\ WholeDevice(f[n])
             /\ IsList(p) /\ f[n].config[p] = Unset
                  => d.config[p] = Unset /\ f[n].config[InForce(p)] = d.config[InForce(p)]
             /\ (\A i \in 1 .. n : p \notin Touches(cs[i])) => f[n].config[p] = d.config[p]
             /\ \A i \in 1 .. n :
                  /\ p \in Touches(cs[i])
                  /\ \A j \in 1 .. n : i < j => p \notin Touches(cs[j])
                  => f[n].config[p] = cs[i].value
           Bad == {n \in 0 .. Len(cs) : ~Good(n)}
<1>2. Good(0)
  BY <1>0
<1>3. ASSUME NEW n \in 1 .. Len(cs), Good(n - 1) PROVE Good(n)
  <2>1. /\ n \in Nat /\ n \in 0 .. Len(cs) /\ n # 0 /\ cs[n] \in Change
        /\ \A i : i \in 1 .. n <=> i \in 1 .. n - 1 \/ i = n
    OBVIOUS
  <2>2. f[n] = Apply(f[n - 1], cs[n])
    BY <2>1, <1>1 DEF Course
  <2>0. /\ WholeDevice(f[n - 1])
        /\ \A i \in 1 .. n - 1 :
             /\ p \in Touches(cs[i])
             /\ \A j \in 1 .. n - 1 : i < j => p \notin Touches(cs[j])
             => f[n - 1].config[p] = cs[i].value
    BY <1>3
  <2>3. WholeDevice(f[n]) /\ (p \notin Touches(cs[n]) => f[n].config[p] = f[n - 1].config[p])
    <3>1. /\ WholeDevice(Apply(f[n - 1], cs[n]))
          /\ p \notin Touches(cs[n]) => Apply(f[n - 1], cs[n]).config[p] = f[n - 1].config[p]
      BY <2>0, <2>1, ChangeDoes
    <3> QED BY <2>2, <3>1
  <2>4. ASSUME IsList(p), f[n].config[p] = Unset
        PROVE  d.config[p] = Unset /\ f[n].config[InForce(p)] = d.config[InForce(p)]
    <3>1. CASE cs[n].kind = "set" => cs[n].what # InForce(p)
      BY <1>3, <2>1, <2>2, <2>4, <3>1, StaysUnset
    <3>2. CASE cs[n].kind = "set" /\ cs[n].what = InForce(p)
      <4>1. p \notin Touches(cs[n])
        BY <2>1, <2>4, <3>2, KindsOfChange, Names
      <4>2. d.config[p] = Unset
        BY <1>3, <2>3, <2>4, <4>1
      <4> QED BY <2>4, <3>2, <4>2 DEF NeverSet
    <3> QED BY <3>1, <3>2
  <2>5. CASE p \notin Touches(cs[n])
    <3>1. ASSUME NEW i \in 1 .. n, p \in Touches(cs[i]),
                 \A j \in 1 .. n : i < j => p \notin Touches(cs[j])
          PROVE  f[n].config[p] = cs[i].value
      <4>1. i \in 1 .. n - 1 /\ \A j \in 1 .. n - 1 : i < j => p \notin Touches(cs[j])
        BY <2>1, <2>5, <3>1
      <4>2. f[n - 1].config[p] = cs[i].value
        BY ONLY <2>0, <3>1, <4>1
      <4> QED BY <2>3, <2>5, <4>2
    <3>2. (\A i \in 1 .. n : p \notin Touches(cs[i])) => f[n].config[p] = d.config[p]
      BY <1>3, <2>1, <2>3, <2>5
    <3> QED BY <2>3, <2>4, <3>1, <3>2
  <2>6. CASE p \in Touches(cs[n])
    <3>1. cs[n].kind = "set" /\ cs[n].what = p
      BY <2>1, <2>6, KindsOfChange
    <3>2. IsList(p) /\ f[n - 1].config[p] = Unset => cs[n].value # {f[n - 1].config[InForce(p)]}
      BY <1>3, <3>1 DEF NeverSet
    <3>3. f[n].config[p] = cs[n].value
      BY <1>3, <2>1, <2>2, <3>1, <3>2, SetTakes
    <3>4. ASSUME NEW i \in 1 .. n, p \in Touches(cs[i]),
                 \A j \in 1 .. n : i < j => p \notin Touches(cs[j])
          PROVE  f[n].config[p] = cs[i].value
      <4>1. i = n
        BY <2>1, <2>6, <3>4
      <4> QED BY <3>3, <4>1
    <3>5. ~\A i \in 1 .. n : p \notin Touches(cs[i])
      BY <2>1, <2>6
    <3> QED BY <2>3, <2>4, <3>4, <3>5
  <2> QED BY <2>5, <2>6
<1>4. ASSUME Bad # {} PROVE FALSE
  <2>1. PICK n \in Bad : \A m \in Bad : n <= m
    <3>1. Bad \in SUBSET Nat
      OBVIOUS
    <3> HIDE DEF Bad
    <3> QED BY <1>4, <3>1, LeastOf
  <2>2. n # 0
    BY <2>1, <1>2
  <2>3. n \in 1 .. Len(cs) /\ n - 1 \in 0 .. Len(cs) /\ n - 1 \notin Bad
    BY <2>1, <2>2
  <2>4. Good(n - 1)
    BY <2>3
  <2> QED BY <1>3, <2>1, <2>3, <2>4
<1>5. Good(Len(cs))
  BY <1>4, Len(cs) \in Nat
<1> QED BY <1>1, <1>5, AppliedIs

-----------------------------------------------------------------------------
(* The invariant.                                                          *)

Request == [id : Nat, change : Change]

QueueTyped ==
    /\ host \in BOOLEAN /\ attached \in BOOLEAN
    /\ WholeDevice(dev) /\ DOMAIN asked = Setting
    /\ pending \in Seq(Request) /\ hal \in Seq(Nat)
    /\ lastRequest \in Nat
    /\ DOMAIN pc = Thread \cup {"hal"} /\ DOMAIN streamLock = Stream

(* Who works off the queue holds the device's mutex from the first change  *)
(* to the last; a stream's setter holds the stream's until its request is  *)
(* made, so that what it found acceptable still is.                        *)
ToBeSet(t) == <<pc[t].what, pc[t].value>>
LocksOK ==
    /\ devLock \in Thread \cup {"hal", Nothing}
    /\ pc["hal"].at \in {"idle", "perform"}
    /\ pc["hal"].at = "perform" <=> devLock = "hal"
    /\ devLock = "hal" => hal # <<>> /\ Found(Head(hal)) # {}
    /\ \A t \in Thread : /\ pc[t].at \in {"idle", "stream", "detach"}
                         /\ pc[t].at = "detach" <=> devLock = t
    /\ devLock \in Thread => ~attached /\ pluginLock = devLock /\ pending # <<>>
SettersOK ==
    \A t \in Thread : pc[t].at = "stream" =>
        /\ ToBeSet(t) \in Told /\ pc[t].what[1] \in Stream
        /\ streamLock[pc[t].what[1]] = t
        /\ Accepted(dev.config, pc[t].what, pc[t].value)

(* The requests HAL has not heard of again are the last ones it was asked  *)
(* for, in the same order; and there are none when HAL does not use the    *)
(* device, unless they are being worked off.                               *)
QueueOK ==
    /\ ~host => pending = <<>>
    /\ ~attached /\ devLock \notin Thread => pending = <<>>
    /\ \A i, j \in 1 .. Len(pending) : i < j => pending[i].id < pending[j].id
    /\ \A i \in 1 .. Len(pending) : pending[i].id < lastRequest
    /\ \A i, j \in 1 .. Len(hal) : i < j => hal[i] < hal[j]
    /\ \A i \in 1 .. Len(hal) : hal[i] < lastRequest
    /\ attached => /\ Len(pending) <= Len(hal)
                   /\ \A i \in 1 .. Len(pending) :
                        pending[i].id = hal[Len(hal) - Len(pending) + i]

(* What was accepted last for a setting is what the last request for it    *)
(* will set, or what it is.                                                *)
AskedFor(p) ==
    /\ (\A i \in 1 .. Len(pending) : p \notin Touches(pending[i].change)) => asked[p] = dev.config[p]
    /\ \A i \in 1 .. Len(pending) :
          /\ pending[i].change.kind = "set" /\ p \in Touches(pending[i].change)
          /\ \A j \in 1 .. Len(pending) : i < j => p \notin Touches(pending[j].change)
          => asked[p] = pending[i].change.value
AskedOK == \A p \in Setting \ (Descriptions \cup disturbed) : AskedFor(p)

Queue == [i \in DOMAIN pending |-> pending[i].change]
ListsOK == \A p \in Setting : NeverSet(dev, Queue, p)

(* The objects a device will own and those in its lists, but for those an  *)
(* abort touched.                                                          *)
Agree(d, L, T) ==
    /\ \A o \in Object \ T : o \in d.owned <=> o \in L
    /\ T \cap Stream = {} => /\ d.inputs = Cardinality(d.owned \cap Inputs)
                             /\ d.outputs = Cardinality(d.owned \cap Outputs)
ObjectsOK == Agree(Settled, listed, disturbed)

DeviceInv == QueueTyped /\ LocksOK /\ SettersOK /\ QueueOK /\ AskedOK /\ ListsOK /\ ObjectsOK

QueueReads ==
    /\ Queue \in Seq(Change) /\ Len(Queue) = Len(pending)
    /\ \A i \in 1 .. Len(pending) : /\ Queue[i] = pending[i].change
                                    /\ pending[i].change \in Change /\ pending[i] \in Request
    /\ Settled = ApplyAll(dev, Queue)

LEMMA QueueIs == QueueTyped => QueueReads
<1> SUFFICES ASSUME QueueTyped PROVE QueueReads
  OBVIOUS
<1>1. DOMAIN pending = 1 .. Len(pending) /\ \A i \in 1 .. Len(pending) : pending[i] \in Request
  BY DEF QueueTyped
<1>2. \A i \in 1 .. Len(pending) : pending[i].change \in Change
  BY <1>1 DEF Request
<1>3. Queue \in Seq(Change) /\ Len(Queue) = Len(pending)
  BY <1>1, <1>2, Len(pending) \in Nat DEF Queue, QueueTyped
<1> QED BY <1>1, <1>2, <1>3 DEF Queue, Settled, QueueReads

LEMMA DeviceStarts == DeviceInit => DeviceInv
<1> SUFFICES ASSUME DeviceInit PROVE DeviceInv
  OBVIOUS
<1> USE DEF DeviceInit
<1>1. pending = <<>> /\ hal = <<>> /\ devLock = Nothing /\ Len(pending) = 0 /\ Len(hal) = 0
  OBVIOUS
<1>2. QueueTyped
  <2>1. DOMAIN dev = {"config", "owned", "inputs", "outputs"} /\ DOMAIN dev.config = Setting
    OBVIOUS
  <2>2. pending \in Seq(Request) /\ hal \in Seq(Nat)
    BY <1>1
  <2>3. DOMAIN asked = Setting /\ DOMAIN pc = Thread \cup {"hal"} /\ DOMAIN streamLock = Stream
    OBVIOUS
  <2>4. host \in BOOLEAN /\ attached \in BOOLEAN /\ lastRequest \in Nat
    OBVIOUS
  <2> QED BY <2>1, <2>2, <2>3, <2>4 DEF QueueTyped, WholeDevice
<1>3. LocksOK /\ SettersOK
  <2>1. \A t \in Thread \cup {"hal"} : pc[t].at = "idle"
    OBVIOUS
  <2> HIDE DEF DeviceInit
  <2> QED BY <1>1, <2>1, ThreadAssumption DEF LocksOK, SettersOK
<1>4. QueueOK /\ AskedOK
  BY <1>1 DEF QueueOK, AskedOK, AskedFor
<1>5. Queue = <<>> /\ Len(Queue) = 0
  BY <1>1 DEF Queue
<1>6. ListsOK
  BY <1>5 DEF ListsOK, NeverSet
<1>7. Settled = dev
  BY <1>5, ApplyNone DEF Settled, Queue
<1>8. ObjectsOK
  <2>1. dev.owned = {} /\ dev.inputs = 0 /\ dev.outputs = 0 /\ listed = {}
    OBVIOUS
  <2>2. Cardinality(dev.owned \cap Inputs) = 0 /\ Cardinality(dev.owned \cap Outputs) = 0
    BY <2>1, FS_EmptySet
  <2> QED BY <1>7, <2>1, <2>2 DEF ObjectsOK, Agree
<1> QED BY <1>2, <1>3, <1>4, <1>6, <1>8 DEF DeviceInv

-----------------------------------------------------------------------------
(* A request.                                                              *)

LEMMA Agreeing ==
    ASSUME NEW d, WholeDevice(d), NEW L, NEW T, Agree(d, L, T), NEW o \in Object
    PROVE  /\ o \notin L \/ o \notin Stream => Agree(AddOwned(d, o), L \cup {o}, T)
           /\ o \in L => Agree(RemoveOwned(d, o), L \ {o}, T)
<1>1. ASSUME NEW X, X = Inputs \/ X = Outputs, NEW n, n = Cardinality(d.owned \cap X), T \cap Stream = {}
      PROVE  /\ (o \notin L \/ o \notin Stream) =>
                  (IF o \in X THEN (n + 1) % UIntMod ELSE n) = Cardinality((d.owned \cup {o}) \cap X)
             /\ o \in L =>
                  (IF o \in X THEN (n - 1) % UIntMod ELSE n) = Cardinality((d.owned \ {o}) \cap X)
  <2>1. X \subseteq Stream /\ IsFiniteSet(Stream) /\ UIntMod \in Nat /\ Cardinality(Stream) < UIntMod
    BY <1>1, UIntAssumption DEF Stream
  <2>2. /\ IsFiniteSet(d.owned \cap X) /\ n \in Nat
    BY <1>1, <2>1, FS_Subset, FS_CardinalityType
  <2>3. ASSUME o \in X, o \notin L
        PROVE  (n + 1) % UIntMod = Cardinality((d.owned \cup {o}) \cap X)
    <3>1. o \notin d.owned
      BY <1>1, <2>1, <2>3 DEF Agree
    <3>2. (d.owned \cup {o}) \cap X = (d.owned \cap X) \cup {o} /\ o \notin d.owned \cap X
      BY <2>3, <3>1
    <3>3. Cardinality((d.owned \cup {o}) \cap X) = n + 1
      BY <1>1, <2>2, <3>2, FS_AddElement
    <3>4. n + 1 <= Cardinality(Stream) /\ Cardinality(Stream) \in Nat
      <4>1. (d.owned \cup {o}) \cap X \subseteq Stream
        BY <2>1
      <4> QED BY <2>1, <3>3, <4>1, FS_Subset, FS_CardinalityType
    <3>5. (n + 1) % UIntMod = n + 1
      BY <2>1, <2>2, <3>4
    <3> QED BY <3>3, <3>5
  <2>4. ASSUME o \in X, o \in L
        PROVE  (n - 1) % UIntMod = Cardinality((d.owned \ {o}) \cap X)
    <3>1. o \in d.owned
      BY <1>1, <2>1, <2>4 DEF Agree
    <3>2. (d.owned \ {o}) \cap X = (d.owned \cap X) \ {o} /\ o \in d.owned \cap X
      BY <2>4, <3>1
    <3>3. Cardinality((d.owned \ {o}) \cap X) = n - 1
      <4>1. Cardinality((d.owned \cap X) \ {o}) = Cardinality(d.owned \cap X) - 1
        BY <2>2, <3>2, FS_RemoveElement
      <4> QED BY <1>1, <3>2, <4>1
    <3>4. n <= Cardinality(Stream) /\ Cardinality(Stream) \in Nat
      <4>1. d.owned \cap X \subseteq Stream
        BY <2>1
      <4> QED BY <1>1, <2>1, <4>1, FS_Subset, FS_CardinalityType
    <3>5. n - 1 \in Nat
      <4>1. IsFiniteSet((d.owned \ {o}) \cap X)
        BY <2>2, <3>2, FS_RemoveElement
      <4> QED BY <3>3, <4>1, FS_CardinalityType
    <3>6. (n - 1) % UIntMod = n - 1
      BY <2>1, <2>2, <3>4, <3>5
    <3> QED BY <3>3, <3>6
  <2>5. ASSUME o \notin X PROVE (d.owned \cup {o}) \cap X = d.owned \cap X
                                /\ (d.owned \ {o}) \cap X = d.owned \cap X
    BY <2>5
  <2> QED BY <1>1, <2>1, <2>3, <2>4, <2>5
<1>2. ASSUME o \notin L \/ o \notin Stream PROVE Agree(AddOwned(d, o), L \cup {o}, T)
  <2>1. \A x \in Object \ T : x \in AddOwned(d, o).owned <=> x \in L \cup {o}
    BY OwnedDoes DEF Agree
  <2>2. ASSUME T \cap Stream = {}
        PROVE  /\ AddOwned(d, o).inputs = Cardinality(AddOwned(d, o).owned \cap Inputs)
               /\ AddOwned(d, o).outputs = Cardinality(AddOwned(d, o).owned \cap Outputs)
    <3>1. d.inputs = Cardinality(d.owned \cap Inputs) /\ d.outputs = Cardinality(d.owned \cap Outputs)
      BY <2>2 DEF Agree
    <3>2. /\ (IF o \in Inputs THEN (d.inputs + 1) % UIntMod ELSE d.inputs)
                = Cardinality((d.owned \cup {o}) \cap Inputs)
          /\ (IF o \in Outputs THEN (d.outputs + 1) % UIntMod ELSE d.outputs)
                = Cardinality((d.owned \cup {o}) \cap Outputs)
      BY <1>1, <1>2, <2>2, <3>1
    <3>3. /\ AddOwned(d, o).owned = d.owned \cup {o}
          /\ AddOwned(d, o).inputs = IF o \in Inputs THEN (d.inputs + 1) % UIntMod ELSE d.inputs
          /\ AddOwned(d, o).outputs = IF o \in Outputs THEN (d.outputs + 1) % UIntMod ELSE d.outputs
      BY OwnedDoes
    <3> QED BY <3>2, <3>3
  <2> QED BY <2>1, <2>2 DEF Agree
<1>3. ASSUME o \in L PROVE Agree(RemoveOwned(d, o), L \ {o}, T)
  <2>1. \A x \in Object \ T : x \in RemoveOwned(d, o).owned <=> x \in L \ {o}
    BY OwnedDoes DEF Agree
  <2>2. ASSUME T \cap Stream = {}
        PROVE  /\ RemoveOwned(d, o).inputs = Cardinality(RemoveOwned(d, o).owned \cap Inputs)
               /\ RemoveOwned(d, o).outputs = Cardinality(RemoveOwned(d, o).owned \cap Outputs)
    <3>1. d.inputs = Cardinality(d.owned \cap Inputs) /\ d.outputs = Cardinality(d.owned \cap Outputs)
      BY <2>2 DEF Agree
    <3>2. /\ (IF o \in Inputs THEN (d.inputs - 1) % UIntMod ELSE d.inputs)
                = Cardinality((d.owned \ {o}) \cap Inputs)
          /\ (IF o \in Outputs THEN (d.outputs - 1) % UIntMod ELSE d.outputs)
                = Cardinality((d.owned \ {o}) \cap Outputs)
      BY <1>1, <1>3, <2>2, <3>1
    <3>3. /\ RemoveOwned(d, o).owned = d.owned \ {o}
          /\ RemoveOwned(d, o).inputs = IF o \in Inputs THEN (d.inputs - 1) % UIntMod ELSE d.inputs
          /\ RemoveOwned(d, o).outputs = IF o \in Outputs THEN (d.outputs - 1) % UIntMod ELSE d.outputs
      BY OwnedDoes
    <3> QED BY <3>2, <3>3
  <2> QED BY <2>1, <2>2 DEF Agree
<1> QED BY <1>2, <1>3

LEMMA Joined ==
    ASSUME NEW S, NEW s \in Seq(S), NEW t \in Seq(S)
    PROVE  /\ s \o t \in Seq(S) /\ Len(s \o t) = Len(s) + Len(t)
           /\ \A i \in 1 .. Len(s) + Len(t) :
                (s \o t)[i] = IF i <= Len(s) THEN s[i] ELSE t[i - Len(s)]
OBVIOUS

(* What is requested is queued behind what is, or applied at once when     *)
(* there is nothing in the queue: either way it comes last.                *)
LEMMA RequestShape ==
    ASSUME QueueTyped, QueueOK, devLock = Nothing, NEW cs \in Seq(Change),
           RequestConfigurationChange(cs)
    PROVE  /\ ~Queued => /\ pending = <<>> /\ UNCHANGED <<pending, lastRequest, hal>>
                         /\ dev' = ApplyAll(dev, cs)
           /\ Queued => /\ dev' = dev
                        /\ pending' \in Seq(Request) /\ hal' \in Seq(Nat)
                        /\ Len(pending') = Len(pending) + Len(cs)
                        /\ Len(hal') = Len(hal) + Len(cs)
                        /\ \A i \in 1 .. Len(pending) + Len(cs) :
                             pending'[i] = IF i <= Len(pending) THEN pending[i]
                                           ELSE [id |-> lastRequest + (i - Len(pending)) - 1,
                                                 change |-> cs[i - Len(pending)]]
                        /\ \A i \in 1 .. Len(hal) + Len(cs) :
                             hal'[i] = IF i <= Len(hal) THEN hal[i]
                                       ELSE lastRequest + (i - Len(hal)) - 1
                        /\ lastRequest' = lastRequest + Len(cs) /\ lastRequest' \in Nat
<1>0. devLock \notin Thread
  BY ThreadAssumption
<1>1. CASE ~Queued
  <2>1. pending = <<>>
    BY <1>0, <1>1 DEF Queued, QueueOK, QueueTyped
  <2> QED BY <1>1, <2>1 DEF RequestConfigurationChange
<1>2. CASE Queued
  <2> DEFINE new == [i \in DOMAIN cs |-> [id |-> lastRequest + i - 1, change |-> cs[i]]]
             ids == [i \in DOMAIN cs |-> lastRequest + i - 1]
  <2>1. /\ pending' = pending \o new /\ hal' = hal \o ids /\ dev' = dev
        /\ lastRequest' = lastRequest + Len(cs)
    BY <1>2 DEF RequestConfigurationChange
  <2>2. DOMAIN cs = 1 .. Len(cs) /\ Len(cs) \in Nat /\ lastRequest \in Nat
    BY DEF QueueTyped
  <2>3. \A i \in 1 .. Len(cs) : lastRequest + i - 1 \in Nat /\ cs[i] \in Change
    BY <2>2
  <2>4. /\ new \in Seq(Request) /\ Len(new) = Len(cs)
        /\ \A i \in 1 .. Len(cs) : new[i] = [id |-> lastRequest + i - 1, change |-> cs[i]]
    BY <2>2, <2>3 DEF Request
  <2>5. /\ ids \in Seq(Nat) /\ Len(ids) = Len(cs)
        /\ \A i \in 1 .. Len(cs) : ids[i] = lastRequest + i - 1
    BY <2>2, <2>3
  <2> HIDE DEF new, ids
  <2>6. /\ pending \in Seq(Request) /\ hal \in Seq(Nat)
    BY DEF QueueTyped
  <2>7. /\ pending' \in Seq(Request) /\ Len(pending') = Len(pending) + Len(cs)
        /\ \A i \in 1 .. Len(pending) + Len(cs) :
             pending'[i] = IF i <= Len(pending) THEN pending[i] ELSE new[i - Len(pending)]
    <3>1. /\ pending \o new \in Seq(Request) /\ Len(pending \o new) = Len(pending) + Len(new)
          /\ \A i \in 1 .. Len(pending) + Len(new) :
               (pending \o new)[i] = IF i <= Len(pending) THEN pending[i] ELSE new[i - Len(pending)]
      <4>1. \A s, t : s \in Seq(Request) /\ t \in Seq(Request) =>
              /\ s \o t \in Seq(Request) /\ Len(s \o t) = Len(s) + Len(t)
              /\ \A i \in 1 .. Len(s) + Len(t) :
                   (s \o t)[i] = IF i <= Len(s) THEN s[i] ELSE t[i - Len(s)]
        BY Joined
      <4>2. pending \in Seq(Request) /\ new \in Seq(Request)
        BY <2>4, <2>6
      <4> QED BY ONLY <4>1, <4>2
    <3> QED BY ONLY <2>1, <2>4, <3>1
  <2>8. /\ hal' \in Seq(Nat) /\ Len(hal') = Len(hal) + Len(cs)
        /\ \A i \in 1 .. Len(hal) + Len(cs) :
             hal'[i] = IF i <= Len(hal) THEN hal[i] ELSE ids[i - Len(hal)]
    <3>1. /\ hal \o ids \in Seq(Nat) /\ Len(hal \o ids) = Len(hal) + Len(ids)
          /\ \A i \in 1 .. Len(hal) + Len(ids) :
               (hal \o ids)[i] = IF i <= Len(hal) THEN hal[i] ELSE ids[i - Len(hal)]
      <4>1. \A s, t : s \in Seq(Nat) /\ t \in Seq(Nat) =>
              /\ s \o t \in Seq(Nat) /\ Len(s \o t) = Len(s) + Len(t)
              /\ \A i \in 1 .. Len(s) + Len(t) :
                   (s \o t)[i] = IF i <= Len(s) THEN s[i] ELSE t[i - Len(s)]
        BY Joined
      <4>2. hal \in Seq(Nat) /\ ids \in Seq(Nat)
        BY <2>5, <2>6
      <4> QED BY ONLY <4>1, <4>2, Zenon
    <3> QED BY ONLY <2>1, <2>5, <3>1
  <2>9. Len(pending) \in Nat /\ Len(hal) \in Nat
    BY <2>6
  <2>10. ASSUME NEW i \in 1 .. Len(pending) + Len(cs)
         PROVE  pending'[i] = IF i <= Len(pending) THEN pending[i]
                              ELSE [id |-> lastRequest + (i - Len(pending)) - 1,
                                    change |-> cs[i - Len(pending)]]
    <3>1. ~(i <= Len(pending)) => i - Len(pending) \in 1 .. Len(cs)
      BY <2>2, <2>9
    <3> QED BY <2>4, <2>7, <3>1
  <2>11. ASSUME NEW i \in 1 .. Len(hal) + Len(cs)
         PROVE  hal'[i] = IF i <= Len(hal) THEN hal[i] ELSE lastRequest + (i - Len(hal)) - 1
    <3>1. ~(i <= Len(hal)) => i - Len(hal) \in 1 .. Len(cs)
      BY <2>2, <2>9
    <3> QED BY <2>5, <2>8, <3>1
  <2>12. \A i \in 1 .. Len(pending) + Len(cs) :
           pending'[i] = IF i <= Len(pending) THEN pending[i]
                         ELSE [id |-> lastRequest + (i - Len(pending)) - 1,
                               change |-> cs[i - Len(pending)]]
    BY ONLY <2>10
  <2>13. \A i \in 1 .. Len(hal) + Len(cs) :
           hal'[i] = IF i <= Len(hal) THEN hal[i] ELSE lastRequest + (i - Len(hal)) - 1
    BY ONLY <2>11
  <2>14. lastRequest' \in Nat
    BY ONLY <2>1, <2>2
  <2> QED BY ONLY <1>2, <2>1, <2>7, <2>8, <2>12, <2>13, <2>14
<1> QED BY <1>1, <1>2

LEMMA RequestedAt ==
    ASSUME QueueTyped, QueueOK, devLock = Nothing, NEW cs \in Seq(Change),
           RequestConfigurationChange(cs), Queued
    PROVE  /\ dev' = dev /\ Len(pending') = Len(pending) + Len(cs)
           /\ \A i \in 1 .. Len(pending) + Len(cs) :
                pending'[i].change = IF i <= Len(pending) THEN pending[i].change
                                     ELSE cs[i - Len(pending)]
<1>1. /\ dev' = dev /\ Len(pending') = Len(pending) + Len(cs)
      /\ \A i \in 1 .. Len(pending) + Len(cs) :
           pending'[i] = IF i <= Len(pending) THEN pending[i]
                         ELSE [id |-> lastRequest + (i - Len(pending)) - 1,
                               change |-> cs[i - Len(pending)]]
  BY RequestShape
<1> QED BY ONLY <1>1

LEMMA RequestSettles ==
    ASSUME QueueTyped, QueueOK, devLock = Nothing, NEW cs \in Seq(Change),
           RequestConfigurationChange(cs), QueueTyped'
    PROVE  Settled' = ApplyAll(Settled, cs)
<1>1. CASE ~Queued
  <2>1. pending = <<>> /\ pending' = <<>> /\ dev' = ApplyAll(dev, cs)
    BY <1>1, RequestShape
  <2>2. [i \in DOMAIN <<>> |-> <<>>[i].change] = <<>>
    OBVIOUS
  <2>3. Settled = dev /\ Settled' = dev'
    BY <2>1, <2>2, ApplyNone DEF Settled
  <2> QED BY <2>1, <2>3
<1>2. CASE Queued
  <2>1. Queue \in Seq(Change) /\ Len(Queue) = Len(pending) /\ Settled = ApplyAll(dev, Queue)
        /\ \A i \in 1 .. Len(pending) : Queue[i] = pending[i].change
    BY QueueIs DEF QueueReads
  <2>2. Queue' \in Seq(Change) /\ Len(Queue)' = Len(pending)' /\ Settled' = ApplyAll(dev', Queue')
        /\ \A i \in 1 .. Len(pending') : Queue'[i] = pending'[i].change
    <3>1. QueueReads'
      BY QueueIs, PTL
    <3> QED BY <3>1 DEF QueueReads
  <2> DEFINE q == Queue
             r == Queue'
  <2>3. /\ dev' = dev /\ Len(pending') = Len(pending) + Len(cs)
        /\ \A i \in 1 .. Len(pending) + Len(cs) :
             pending'[i] = IF i <= Len(pending) THEN pending[i]
                           ELSE [id |-> lastRequest + (i - Len(pending)) - 1,
                                 change |-> cs[i - Len(pending)]]
    BY <1>2, RequestShape
  <2>4. \A i \in 1 .. Len(q) + Len(cs) : r[i] = IF i <= Len(q) THEN q[i] ELSE cs[i - Len(q)]
    BY <2>1, <2>2, <2>3
  <2>5. r \in Seq(Change) /\ q \in Seq(Change) /\ Len(r) = Len(q) + Len(cs)
    BY <2>1, <2>2, <2>3
  <2> HIDE DEF q, r
  <2>6. r = q \o cs
    BY <2>4, <2>5
  <2>7. ApplyAll(dev, r) = ApplyAll(ApplyAll(dev, q), cs)
    BY <2>5, <2>6, ApplyConcat
  <2> QED BY <2>1, <2>2, <2>3, <2>7 DEF q, r
<1> QED BY <1>1, <1>2

LEMMA RequestQueues ==
    ASSUME QueueTyped, QueueOK, devLock = Nothing, NEW cs \in Seq(Change),
           RequestConfigurationChange(cs), UNCHANGED <<host, attached, devLock>>
    PROVE  QueueOK'
<1>1. CASE ~Queued
  BY <1>1, RequestShape DEF QueueOK
<1>2. CASE Queued
  <2> DEFINE L == Len(pending)
             H == Len(hal)
             C == Len(cs)
  <2>0. L \in Nat /\ H \in Nat /\ C \in Nat /\ lastRequest \in Nat
        /\ (\A i \in 1 .. L : pending[i].id \in Nat) /\ \A i \in 1 .. H : hal[i] \in Nat
    <3>1. pending \in Seq(Request) /\ hal \in Seq(Nat) /\ lastRequest \in Nat
      BY DEF QueueTyped
    <3>2. \A i \in 1 .. L : pending[i] \in Request
      BY <3>1
    <3> QED BY <3>1, <3>2 DEF Request
  <2>1. /\ Len(pending') = L + C /\ Len(hal') = H + C /\ lastRequest' = lastRequest + C
        /\ \A i \in 1 .. L + C : pending'[i].id = IF i <= L THEN pending[i].id
                                                 ELSE lastRequest + (i - L) - 1
        /\ \A i \in 1 .. H + C : hal'[i] = IF i <= H THEN hal[i] ELSE lastRequest + (i - H) - 1
    <3>1. /\ Len(pending') = L + C /\ Len(hal') = H + C /\ lastRequest' = lastRequest + C
          /\ \A i \in 1 .. L + C :
               pending'[i] = IF i <= L THEN pending[i]
                             ELSE [id |-> lastRequest + (i - L) - 1, change |-> cs[i - L]]
          /\ \A i \in 1 .. H + C : hal'[i] = IF i <= H THEN hal[i] ELSE lastRequest + (i - H) - 1
      BY <1>2, RequestShape
    <3> HIDE DEF L, H, C
    <3> QED BY <3>1
  <2>2. attached /\ host /\ L <= H
        /\ \A i \in 1 .. L : pending[i].id = hal[H - L + i]
    BY <1>2 DEF Queued, QueueOK
  <2>3. /\ \A i, j \in 1 .. L : i < j => pending[i].id < pending[j].id
        /\ \A i \in 1 .. L : pending[i].id < lastRequest
    BY DEF QueueOK
  <2>4. /\ \A i, j \in 1 .. H : i < j => hal[i] < hal[j]
        /\ \A i \in 1 .. H : hal[i] < lastRequest
    BY DEF QueueOK
  <2> HIDE DEF L, H, C
  <2>5. \A i, j \in 1 .. L + C : i < j => pending'[i].id < pending'[j].id
    <3> SUFFICES ASSUME NEW i \in 1 .. L + C, NEW j \in 1 .. L + C, i < j
                 PROVE  pending'[i].id < pending'[j].id
      OBVIOUS
    <3>1. CASE j <= L
      <4>1. i \in 1 .. L /\ j \in 1 .. L /\ i <= L
        BY <2>0, <3>1
      <4> QED BY <2>1, <2>3, <3>1, <4>1
    <3>2. CASE i <= L /\ ~(j <= L)
      <4>1. i \in 1 .. L /\ j - L >= 1
        BY <2>0, <3>2
      <4>2. pending'[i].id = pending[i].id /\ pending'[j].id = lastRequest + (j - L) - 1
        BY <2>1, <3>2
      <4> QED BY <2>0, <2>3, <4>1, <4>2
    <3>3. CASE ~(i <= L) /\ ~(j <= L)
      <4>1. pending'[i].id = lastRequest + (i - L) - 1 /\ pending'[j].id = lastRequest + (j - L) - 1
        BY <2>1, <3>3
      <4> QED BY <2>0, <4>1
    <3> QED BY <2>0, <3>1, <3>2, <3>3
  <2>6. \A i \in 1 .. L + C : pending'[i].id < lastRequest + C
    BY <2>0, <2>1, <2>3
  <2>7. \A i, j \in 1 .. H + C : i < j => hal'[i] < hal'[j]
    BY <2>0, <2>1, <2>4
  <2>8. \A i \in 1 .. H + C : hal'[i] < lastRequest + C
    BY <2>0, <2>1, <2>4
  <2>9. ASSUME NEW i \in 1 .. L + C PROVE pending'[i].id = hal'[(H + C) - (L + C) + i]
    <3>1. (H + C) - (L + C) + i \in 1 .. H + C /\ (H + C) - (L + C) + i = H - L + i
          /\ ((H + C) - (L + C) + i <= H <=> i <= L)
      BY <2>0, <2>2
    <3>2. CASE i <= L
      <4>1. i \in 1 .. L
        BY <2>0, <3>2
      <4> QED BY <2>0, <2>1, <2>2, <3>1, <3>2, <4>1
    <3>3. CASE ~(i <= L)
      <4>1. hal'[H - L + i] = lastRequest + ((H - L + i) - H) - 1
        BY <2>1, <3>1, <3>3
      <4>2. (H - L + i) - H = i - L
        BY <2>0
      <4> QED BY <2>1, <3>1, <3>3, <4>1, <4>2
    <3> QED BY <3>2, <3>3
  <2>10. L + C <= H + C
    BY <2>0, <2>2
  <2> QED BY <2>1, <2>2, <2>5, <2>6, <2>7, <2>8, <2>9, <2>10 DEF QueueOK
<1> QED BY <1>1, <1>2

LEMMA RequestLists ==
    ASSUME QueueTyped, QueueOK, ListsOK, devLock = Nothing, NEW cs \in Seq(Change),
           RequestConfigurationChange(cs), QueueTyped',
           \A i \in 1 .. Len(cs) :
             cs[i].kind = "set" => Accepted(dev.config, cs[i].what, cs[i].value)
    PROVE  ListsOK'
<1>1. /\ Len(Queue)' = Len(pending)'
      /\ \A i \in 1 .. Len(pending') : Queue'[i] = pending'[i].change
  <2>1. QueueReads'
    BY QueueIs, PTL
  <2> QED BY <2>1 DEF QueueReads
<1>2. ASSUME NEW p \in Setting, IsList(p), dev'.config[p] = Unset, NEW i \in 1 .. Len(pending'),
             pending'[i].change.kind = "set"
      PROVE  /\ pending'[i].change.what # InForce(p)
             /\ pending'[i].change.what = p => pending'[i].change.value # {dev'.config[InForce(p)]}
  <2>1. CASE ~Queued
    <3>1. pending' = <<>>
      BY <2>1, RequestShape
    <3> QED BY <1>2, <3>1
  <2>2. CASE Queued
    <3>1. /\ dev' = dev /\ Len(pending') = Len(pending) + Len(cs)
          /\ pending'[i].change = IF i <= Len(pending) THEN pending[i].change
                                  ELSE cs[i - Len(pending)]
      BY <1>2, <2>2, RequestedAt
    <3>2. CASE i <= Len(pending)
      <4>1. i \in 1 .. Len(pending) /\ Len(Queue) = Len(pending) /\ Queue[i] = pending[i].change
        BY <1>2, <3>2, QueueIs DEF QueueReads, QueueTyped
      <4> QED BY <1>2, <3>1, <3>2, <4>1 DEF ListsOK, NeverSet
    <3>3. CASE ~(i <= Len(pending))
      <4> DEFINE c == cs[i - Len(pending)]
      <4>1. i - Len(pending) \in 1 .. Len(cs)
        BY <1>2, <3>1, <3>3 DEF QueueTyped
      <4>2. Accepted(dev.config, c.what, c.value) /\ pending'[i].change = c
        BY <1>2, <3>1, <3>3, <4>1
      <4> HIDE DEF c
      <4>3. c.what # InForce(p)
        BY <1>2, <3>1, <4>2, OnlyOneOffered
      <4>4. c.what = p => c.value # {dev.config[InForce(p)]}
        <5>1. Getter(dev.config, p) = {dev.config[InForce(p)]}
          BY <1>2, <3>1, GetterOfList
        <5> QED BY <4>2, <5>1 DEF Accepted
      <4> QED BY <3>1, <4>2, <4>3, <4>4
    <3> QED BY <3>2, <3>3
  <2> QED BY <2>1, <2>2
<1> QED BY <1>1, <1>2 DEF ListsOK, NeverSet

LEMMA RequestAsked ==
    ASSUME QueueTyped, QueueOK, AskedOK, devLock = Nothing, NEW cs \in Seq(Change), QueueTyped',
           RequestConfigurationChange(cs), disturbed' = disturbed,
           \A p \in Setting \ Descriptions :
             \/ /\ asked'[p] = asked[p] /\ \A i \in 1 .. Len(cs) : p \notin Touches(cs[i])
                /\ ~Queued => dev'.config[p] = dev.config[p]
             \/ /\ Len(cs) = 1 /\ p \in Touches(cs[1])
                /\ ~Queued => asked'[p] = dev'.config[p]
                /\ cs[1].kind = "set" => asked'[p] = cs[1].value
    PROVE  AskedOK'
<1>1. ASSUME NEW p \in Setting \ (Descriptions \cup disturbed) PROVE AskedFor(p)'
  <2>0. AskedFor(p) /\ Len(pending) \in Nat /\ Len(cs) \in Nat
    BY <1>1 DEF AskedOK, QueueTyped
  <2>1. CASE ~Queued
    <3>1. pending = <<>> /\ pending' = <<>>
      BY <2>1, RequestShape
    <3>2. asked[p] = dev.config[p]
      BY <2>0, <3>1 DEF AskedFor
    <3> QED BY <1>1, <2>1, <3>1, <3>2 DEF AskedFor
  <2>2. CASE Queued
    <3> DEFINE L == Len(pending)
               C == Len(cs)
    <3>1. /\ dev' = dev /\ Len(pending') = L + C
          /\ \A i \in 1 .. L + C : pending'[i].change = IF i <= L THEN pending[i].change ELSE cs[i - L]
      BY <2>2, RequestedAt
    <3>2. CASE asked'[p] = asked[p] /\ \A i \in 1 .. Len(cs) : p \notin Touches(cs[i])
      <4>1. ASSUME \A i \in 1 .. L + C : p \notin Touches(pending'[i].change)
            PROVE  asked'[p] = dev'.config[p]
        <5>1. \A i \in 1 .. L : p \notin Touches(pending[i].change)
          BY <2>0, <3>1, <4>1
        <5> QED BY <2>0, <3>1, <3>2, <5>1 DEF AskedFor
      <4>2. ASSUME NEW i \in 1 .. L + C, pending'[i].change.kind = "set",
                   p \in Touches(pending'[i].change),
                   \A j \in 1 .. L + C : i < j => p \notin Touches(pending'[j].change)
            PROVE  asked'[p] = pending'[i].change.value
        <5>1. i <= L
          <6>1. ASSUME ~(i <= L) PROVE FALSE
            <7>1. i - L \in 1 .. C
              BY <2>0, <6>1
            <7> QED BY <3>1, <3>2, <4>2, <6>1, <7>1
          <6> QED BY <6>1
        <5>2. i \in 1 .. L /\ pending'[i].change = pending[i].change
          BY <2>0, <3>1, <5>1
        <5>3. ASSUME NEW j \in 1 .. L, i < j PROVE p \notin Touches(pending[j].change)
          BY <2>0, <3>1, <4>2, <5>3
        <5> QED BY <2>0, <3>2, <4>2, <5>2, <5>3 DEF AskedFor
      <4> QED BY <3>1, <4>1, <4>2 DEF AskedFor
    <3>3. CASE /\ Len(cs) = 1 /\ p \in Touches(cs[1])
               /\ cs[1].kind = "set" => asked'[p] = cs[1].value
      <4>1. L + C = L + 1 /\ L + 1 \in 1 .. L + C /\ pending'[L + 1].change = cs[1]
        BY <2>0, <3>1, <3>3
      <4>2. ASSUME NEW i \in 1 .. L + C,
                   \A j \in 1 .. L + C : i < j => p \notin Touches(pending'[j].change)
            PROVE  i = L + 1
        BY <2>0, <3>3, <4>1, <4>2
      <4> QED BY <3>1, <3>3, <4>1, <4>2 DEF AskedFor
    <3> QED BY <1>1, <3>2, <3>3
  <2> QED BY <2>1, <2>2
<1>2. AskedOK' <=> \A p \in Setting \ (Descriptions \cup disturbed') : AskedFor(p)'
  BY DEF AskedOK
<1> QED BY <1>1, <1>2

-----------------------------------------------------------------------------
(* The oldest request, performed or dropped.                               *)

LEMMA OldestGone ==
    ASSUME QueueTyped, pending # <<>>, pending' = Tail(pending)
    PROVE  /\ Len(pending) \in Nat \ {0} /\ Len(pending') = Len(pending) - 1
           /\ \A i \in 1 .. Len(pending) - 1 : pending'[i] = pending[i + 1]
           /\ Head(pending) = pending[1] /\ pending[1] \in Request /\ pending[1].change \in Change
           /\ pending' \in Seq(Request)
           /\ Queue = <<pending[1].change>> \o Queue'
<1>1. pending \in Seq(Request)
  BY DEF QueueTyped
<1>2. /\ Len(pending) \in Nat \ {0} /\ Len(pending') = Len(pending) - 1
      /\ \A i \in 1 .. Len(pending) - 1 : pending'[i] = pending[i + 1]
      /\ Head(pending) = pending[1] /\ pending[1] \in Request
      /\ pending' \in Seq(Request)
  BY <1>1
<1>3. pending[1].change \in Change
  BY <1>2 DEF Request
<1>4. /\ Queue \in Seq(Change) /\ Len(Queue) = Len(pending)
      /\ \A i \in 1 .. Len(pending) : Queue[i] = pending[i].change
  BY QueueIs DEF QueueReads
<1> DEFINE q == Queue
           r == Queue'
<1>5. /\ r \in Seq(Change) /\ Len(r) = Len(pending) - 1
      /\ \A i \in 1 .. Len(pending) - 1 : r[i] = pending[i + 1].change
  <2>1. r = [i \in DOMAIN pending' |-> pending'[i].change]
    BY DEF Queue
  <2>2. DOMAIN pending' = 1 .. Len(pending) - 1
    BY <1>2
  <2>3. \A i \in 1 .. Len(pending) - 1 : r[i] = pending[i + 1].change
    BY <1>2, <2>1, <2>2
  <2>4. \A i \in 1 .. Len(pending) - 1 : pending[i + 1].change \in Change
    <3>1. \A i \in 1 .. Len(pending) : pending[i].change \in Change
      BY QueueIs DEF QueueReads
    <3> QED BY <1>2, <3>1
  <2> HIDE DEF r
  <2> QED BY <1>2, <2>1, <2>2, <2>3, <2>4
<1> DEFINE a == pending[1].change
<1>6. q = <<a>> \o r
  <2>1. <<a>> \in Seq(Change) /\ Len(<<a>>) = 1 /\ <<a>>[1] = a
    BY <1>3
  <2>2. q \in Seq(Change) /\ r \in Seq(Change) /\ Len(q) = Len(r) + 1 /\ q[1] = a
        /\ \A i \in 2 .. Len(q) : q[i] = r[i - 1]
    <3>1. Len(q) = Len(r) + 1 /\ q[1] = a
      BY <1>2, <1>4, <1>5
    <3>2. ASSUME NEW i \in 2 .. Len(q) PROVE q[i] = r[i - 1]
      <4>1. i - 1 \in 1 .. Len(pending) - 1 /\ (i - 1) + 1 = i /\ i \in 1 .. Len(pending)
        BY <1>2, <1>4
      <4>2. q[i] = pending[i].change
        BY <1>4, <4>1
      <4>3. r[i - 1] = pending[(i - 1) + 1].change
        BY <1>5, <4>1
      <4> QED BY <4>1, <4>2, <4>3
    <3> QED BY <1>4, <1>5, <3>1, <3>2
  <2> HIDE DEF q, r, a
  <2> QED BY <2>1, <2>2
<1> QED BY <1>2, <1>3, <1>6

LEMMA OldestSettles ==
    ASSUME QueueTyped, pending # <<>>, pending' = Tail(pending), QueueTyped'
    PROVE  /\ Settled = ApplyAll(Apply(dev, pending[1].change), Queue')
           /\ Settled' = ApplyAll(dev', Queue') /\ Queue' \in Seq(Change)
<1>1. Queue = <<pending[1].change>> \o Queue' /\ pending[1].change \in Change
  BY OldestGone
<1>2. Settled = ApplyAll(dev, Queue)
  BY QueueIs DEF QueueReads
<1>3. Settled' = ApplyAll(dev', Queue') /\ Queue' \in Seq(Change)
  <2>1. QueueReads'
    BY QueueIs, PTL
  <2> QED BY <2>1 DEF QueueReads
<1>4. ApplyAll(dev, <<pending[1].change>> \o Queue')
      = ApplyAll(Apply(dev, pending[1].change), Queue')
  <2> DEFINE a == pending[1].change
             r == Queue'
  <2>1. a \in Change /\ r \in Seq(Change)
    BY <1>1, <1>3
  <2> HIDE DEF a, r
  <2>2. <<a>> \in Seq(Change)
    BY <2>1
  <2>3. ApplyAll(dev, <<a>> \o r) = ApplyAll(ApplyAll(dev, <<a>>), r)
    <3> DEFINE one == <<a>>
    <3>1. one \in Seq(Change)
      BY <2>2
    <3> HIDE DEF one
    <3>2. ApplyAll(dev, one \o r) = ApplyAll(ApplyAll(dev, one), r)
      BY <2>1, <3>1, ApplyConcat
    <3> QED BY <3>2 DEF one
  <2>4. ApplyAll(dev, <<a>> \o r) = ApplyAll(Apply(dev, a), r)
    BY <2>3, ApplyOne
  <2> QED BY <2>4 DEF a, r
<1> QED BY <1>1, <1>2, <1>3, <1>4

LEMMA OldestAsked ==
    ASSUME QueueTyped, pending # <<>>, pending' = Tail(pending), NEW p \in Setting, AskedFor(p),
           \/ asked'[p] = asked[p]
           \/ /\ \A i \in 1 .. Len(pending) - 1 : p \notin Touches(pending'[i].change)
              /\ asked'[p] = dev'.config[p],
           (\A i \in 1 .. Len(pending) - 1 : p \notin Touches(pending'[i].change)) =>
               \/ asked'[p] = dev'.config[p]
               \/ p \notin Touches(pending[1].change) /\ dev'.config[p] = dev.config[p]
    PROVE  AskedFor(p)'
<1> DEFINE L == Len(pending)
<1>1. /\ L \in Nat \ {0} /\ Len(pending') = L - 1
      /\ \A i \in 1 .. L - 1 : pending'[i] = pending[i + 1]
  BY OldestGone
<1>2. ASSUME \A i \in 1 .. L - 1 : p \notin Touches(pending'[i].change)
      PROVE  asked'[p] = dev'.config[p]
  <2>1. CASE p \notin Touches(pending[1].change) /\ dev'.config[p] = dev.config[p]
    <3>1. ASSUME NEW i \in 1 .. L PROVE p \notin Touches(pending[i].change)
      <4>1. CASE i = 1
        BY <2>1, <4>1
      <4>2. CASE i # 1
        <5>1. i - 1 \in 1 .. L - 1 /\ (i - 1) + 1 = i
          BY <1>1, <4>2
        <5>2. pending'[i - 1] = pending[i]
          BY <1>1, <5>1
        <5> QED BY <1>2, <5>1, <5>2
      <4> QED BY <4>1, <4>2
    <3>2. asked[p] = dev.config[p]
      BY <3>1 DEF AskedFor
    <3> QED BY <2>1, <3>2
  <2> QED BY <1>2, <2>1
<1>3. ASSUME NEW i \in 1 .. L - 1, pending'[i].change.kind = "set", p \in Touches(pending'[i].change),
             \A j \in 1 .. L - 1 : i < j => p \notin Touches(pending'[j].change)
      PROVE  asked'[p] = pending'[i].change.value
  <2>1. asked'[p] = asked[p]
    BY <1>3
  <2>2. i + 1 \in 1 .. L /\ pending'[i] = pending[i + 1]
    BY <1>1
  <2>3. ASSUME NEW j \in 1 .. L, i + 1 < j PROVE p \notin Touches(pending[j].change)
    <3>1. j - 1 \in 1 .. L - 1 /\ i < j - 1 /\ (j - 1) + 1 = j
      BY <1>1, <2>3
    <3>2. pending'[j - 1] = pending[j]
      BY <1>1, <3>1
    <3> QED BY <1>3, <3>1, <3>2
  <2>4. pending[i + 1].change.kind = "set" /\ p \in Touches(pending[i + 1].change)
    BY <1>3, <2>2
  <2>5. asked[p] = pending[i + 1].change.value
    BY <2>2, <2>3, <2>4 DEF AskedFor
  <2> QED BY <2>1, <2>2, <2>5
<1> QED BY <1>1, <1>2, <1>3 DEF AskedFor

(* HAL finds the oldest request, or none.                                  *)
LEMMA HalFinds ==
    ASSUME QueueTyped, QueueOK, devLock \notin Thread, hal # <<>>
    PROVE  /\ Found(Head(hal)) # {} =>
                /\ attached /\ pending # <<>> /\ Len(pending) = Len(hal)
                /\ Place(Head(hal)) = 1 /\ Found(Head(hal)) = {1}
                /\ Erased(Head(hal)) = Tail(pending)
           /\ Found(Head(hal)) = {} =>
                /\ attached => Len(pending) < Len(hal)
                /\ Erased(Head(hal)) = pending
<1> DEFINE L == Len(pending)
           H == Len(hal)
<1>1. /\ pending \in Seq(Request) /\ hal \in Seq(Nat) /\ L \in Nat /\ H \in Nat \ {0}
      /\ Head(hal) = hal[1] /\ DOMAIN pending = 1 .. L /\ \A i \in 1 .. H : hal[i] \in Nat
  BY DEF QueueTyped
<1>2. CASE Found(Head(hal)) # {}
  <2>1. pending # <<>> /\ attached
    BY <1>1, <1>2 DEF Found, QueueOK, QueueTyped
  <2>2. L <= H /\ \A i \in 1 .. L : pending[i].id = hal[H - L + i]
    BY <2>1 DEF QueueOK
  <2>3. ASSUME NEW i \in Found(Head(hal)) PROVE i = 1 /\ L = H
    <3>1. i \in 1 .. L /\ hal[H - L + i] = hal[1]
      BY <1>1, <2>2 DEF Found
    <3>2. H - L + i \in 1 .. H /\ 1 \in 1 .. H
      BY <1>1, <2>2, <3>1
    <3>3. ~(1 < H - L + i)
      BY <1>1, <3>1, <3>2 DEF QueueOK
    <3> QED BY <1>1, <2>2, <3>1, <3>3
  <2>4. Found(Head(hal)) = {1} /\ L = H
    BY <1>2, <2>3
  <2>5. Place(Head(hal)) = 1
    <3>1. \A i \in DOMAIN pending : pending[i].id = Head(hal) <=> i = 1
      BY <2>4 DEF Found
    <3>2. 1 \in DOMAIN pending
      BY <2>4 DEF Found
    <3> QED BY <3>1, <3>2 DEF Place
  <2>6. RemoveAt(pending, 1) = Tail(pending)
    <3>1. SubSeq(pending, 1, 0) = <<>> /\ SubSeq(pending, 2, L) = Tail(pending)
      BY <1>1, <2>1
    <3>2. RemoveAt(pending, 1) = SubSeq(pending, 1, 0) \o SubSeq(pending, 2, L)
      BY DEF RemoveAt
    <3>3. <<>> \o Tail(pending) = Tail(pending)
      BY <1>1, <2>1
    <3> QED BY <3>1, <3>2, <3>3
  <2>7. Erased(Head(hal)) = Tail(pending)
    BY <1>2, <2>5, <2>6 DEF Erased
  <2> QED BY <1>2, <2>1, <2>4, <2>5, <2>7
<1>3. CASE Found(Head(hal)) = {}
  <2>1. ASSUME attached PROVE L < H
    <3>1. L <= H /\ \A i \in 1 .. L : pending[i].id = hal[H - L + i]
      BY <2>1 DEF QueueOK
    <3>2. ASSUME L = H PROVE FALSE
      <4>1. 1 \in 1 .. L /\ H - L + 1 = 1
        BY <1>1, <3>2
      <4>2. pending[1].id = hal[1]
        BY <3>1, <4>1
      <4>3. 1 \in Found(Head(hal))
        BY <1>1, <4>1, <4>2 DEF Found
      <4> QED BY <1>3, <4>3
    <3> QED BY <1>1, <3>1, <3>2
  <2> QED BY <1>3, <2>1 DEF Erased
<1> QED BY <1>2, <1>3

(* The queue is in HAL's order still: when a request is worked off on the  *)
(* way out, when HAL does one, when it asks for one that is gone.          *)
LEMMA OldestQueue ==
    ASSUME QueueTyped, QueueOK, UNCHANGED <<host, attached, lastRequest>>,
           devLock' \notin Thread => devLock \notin Thread \/ pending' = <<>>,
           \/ pending # <<>> /\ pending' = Tail(pending) /\ hal' = hal /\ ~attached
           \/ /\ pending # <<>> /\ pending' = Tail(pending) /\ hal # <<>> /\ hal' = Tail(hal)
              /\ Len(pending) = Len(hal)
           \/ /\ pending' = pending /\ hal # <<>> /\ hal' = Tail(hal)
              /\ attached => Len(pending) < Len(hal)
    PROVE  QueueOK'
<1> DEFINE L == Len(pending)
           H == Len(hal)
<1>1. /\ pending \in Seq(Request) /\ hal \in Seq(Nat) /\ L \in Nat /\ H \in Nat
      /\ host \in BOOLEAN /\ attached \in BOOLEAN /\ lastRequest \in Nat
      /\ \A i \in 1 .. H : hal[i] \in Nat
      /\ \A i \in 1 .. L : pending[i].id \in Nat
  <2>1. pending \in Seq(Request)
    BY DEF QueueTyped
  <2>2. \A i \in 1 .. L : pending[i] \in Request
    BY <2>1
  <2> QED BY <2>1, <2>2 DEF QueueTyped, Request
<1>2. hal # <<>> /\ hal' = Tail(hal) =>
        H # 0 /\ Len(hal') = H - 1 /\ \A i \in 1 .. H - 1 : hal'[i] = hal[i + 1]
  BY <1>1
<1>3. pending # <<>> /\ pending' = Tail(pending) =>
        L # 0 /\ Len(pending') = L - 1 /\ \A i \in 1 .. L - 1 : pending'[i] = pending[i + 1]
  BY <1>1
<1>4. /\ \A i, j \in 1 .. L : i < j => pending[i].id < pending[j].id
      /\ \A i \in 1 .. L : pending[i].id < lastRequest
      /\ \A i, j \in 1 .. H : i < j => hal[i] < hal[j]
      /\ \A i \in 1 .. H : hal[i] < lastRequest
      /\ attached => L <= H /\ \A i \in 1 .. L : pending[i].id = hal[H - L + i]
  BY DEF QueueOK
<1>5. (~host => pending' = <<>>) /\ (~attached /\ devLock' \notin Thread => pending' = <<>>)
  <2>1. pending = <<>> => pending' = <<>>
    OBVIOUS
  <2> QED BY <2>1 DEF QueueOK
<1> HIDE DEF L, H
<1>6. /\ \A i, j \in 1 .. Len(pending') : i < j => pending'[i].id < pending'[j].id
      /\ \A i \in 1 .. Len(pending') : pending'[i].id < lastRequest
  <2>1. CASE pending' = pending
    BY <1>4, <2>1 DEF L
  <2>2. CASE pending # <<>> /\ pending' = Tail(pending)
    <3>1. ASSUME NEW i \in 1 .. L - 1
          PROVE  i + 1 \in 1 .. L /\ pending'[i].id = pending[i + 1].id
      BY <1>1, <1>3, <2>2
    <3>2. ASSUME NEW i \in 1 .. L - 1, NEW j \in 1 .. L - 1, i < j
          PROVE  pending'[i].id < pending'[j].id
      <4>1. i + 1 < j + 1
        BY <3>2
      <4> QED BY <1>4, <3>1, <4>1
    <3> QED BY <1>3, <1>4, <2>2, <3>1, <3>2
  <2> QED BY <2>1, <2>2
<1>7. /\ \A i, j \in 1 .. Len(hal') : i < j => hal'[i] < hal'[j]
      /\ \A i \in 1 .. Len(hal') : hal'[i] < lastRequest
  <2>1. CASE hal' = hal
    BY <1>4, <2>1 DEF H
  <2>2. CASE hal # <<>> /\ hal' = Tail(hal)
    <3>1. ASSUME NEW i \in 1 .. H - 1
          PROVE  i + 1 \in 1 .. H /\ hal'[i] = hal[i + 1]
      BY <1>1, <1>2, <2>2
    <3>2. ASSUME NEW i \in 1 .. H - 1, NEW j \in 1 .. H - 1, i < j
          PROVE  hal'[i] < hal'[j]
      <4>1. i + 1 < j + 1
        BY <3>2
      <4> QED BY <1>4, <3>1, <4>1
    <3> QED BY <1>2, <1>4, <2>2, <3>1, <3>2
  <2> QED BY <2>1, <2>2
<1>8. ASSUME attached
      PROVE  /\ Len(pending') <= Len(hal')
             /\ \A i \in 1 .. Len(pending') : pending'[i].id = hal'[Len(hal') - Len(pending') + i]
  <2>1. CASE pending # <<>> /\ pending' = Tail(pending) /\ hal # <<>> /\ hal' = Tail(hal) /\ L = H
    <3>1. ASSUME NEW i \in 1 .. L - 1 PROVE pending'[i].id = hal'[(H - 1) - (L - 1) + i]
      <4>1. (H - 1) - (L - 1) + i = i /\ i + 1 \in 1 .. L /\ H - L + (i + 1) = i + 1 /\ i \in 1 .. H - 1
        BY <1>1, <2>1
      <4>2. pending[i + 1].id = hal[i + 1]
        BY <1>4, <1>8, <4>1
      <4> QED BY <1>2, <1>3, <2>1, <4>1, <4>2
    <3> QED BY <1>1, <1>2, <1>3, <2>1, <3>1
  <2>2. CASE pending' = pending /\ hal # <<>> /\ hal' = Tail(hal) /\ L < H
    <3>1. ASSUME NEW i \in 1 .. L PROVE pending'[i].id = hal'[(H - 1) - L + i]
      <4>1. (H - 1) - L + i \in 1 .. H - 1 /\ ((H - 1) - L + i) + 1 = H - L + i
        BY <1>1, <2>2
      <4>2. hal'[(H - 1) - L + i] = hal[H - L + i]
        BY <1>2, <2>2, <4>1
      <4> QED BY <1>4, <1>8, <2>2, <4>2
    <3>2. Len(pending') = L /\ Len(hal') = H - 1
      BY <1>2, <2>2 DEF L
    <3>3. L <= H - 1
      BY <1>1, <2>2
    <3> QED BY ONLY <3>1, <3>2, <3>3
  <2> QED BY <1>8, <2>1, <2>2 DEF L, H
<1> QED BY <1>5, <1>6, <1>7, <1>8 DEF QueueOK

(* A stream's setter looks at the stream alone.                            *)
LEMMA AcceptedLocally ==
    ASSUME NEW c, NEW e, NEW p \in Setting, p[1] \in Stream, NEW v, Accepted(c, p, v),
           \A q \in Setting : q[1] = p[1] => e[q] = c[q]
    PROVE  Accepted(e, p, v)
<1>1. p[1] # Device /\ p \notin Descriptions /\ p = <<p[1], p[2]>>
  BY ObjectAssumption, Names DEF Descriptions, Object
<1>2. p[2] \in {"latency", "physicalFormat", "virtualFormat", "availablePhysicalFormats",
               "availableVirtualFormats"}
  BY <1>1 DEF Setting
<1>3. /\ <<p[1], "physicalFormat">> \in Setting /\ <<p[1], "virtualFormat">> \in Setting
      /\ <<p[1], "availablePhysicalFormats">> \in Setting
      /\ <<p[1], "availableVirtualFormats">> \in Setting
  BY DEF Setting
<1>4. /\ e[<<p[1], "physicalFormat">>] = c[<<p[1], "physicalFormat">>]
      /\ e[<<p[1], "virtualFormat">>] = c[<<p[1], "virtualFormat">>]
      /\ e[<<p[1], "availablePhysicalFormats">>] = c[<<p[1], "availablePhysicalFormats">>]
      /\ e[<<p[1], "availableVirtualFormats">>] = c[<<p[1], "availableVirtualFormats">>]
      /\ e[p] = c[p]
  BY <1>3
<1>5. Getter(e, p) = Getter(c, p)
  <2>1. CASE IsList(p)
    <3>1. InForce(p) \in Setting /\ InForce(p)[1] = p[1]
      BY <2>1, Names
    <3>2. e[InForce(p)] = c[InForce(p)]
      BY <3>1
    <3> QED BY <1>4, <2>1, <3>2, GetterOfList
  <2>2. CASE ~IsList(p)
    BY <1>1, <1>4, <2>2, GetterPlain
  <2> QED BY <2>1, <2>2
<1>6. /\ AvailablePhysicalFormats(e, p[1]) = AvailablePhysicalFormats(c, p[1])
      /\ AvailableVirtualFormats(e, p[1]) = AvailableVirtualFormats(c, p[1])
  BY <1>4 DEF AvailablePhysicalFormats, AvailableVirtualFormats
<1>7. Valid(c, p, v) => Valid(e, p, v)
  BY <1>2, <1>6 DEF Valid, CheckPhysicalFormat, CheckVirtualFormat
<1> QED BY <1>5, <1>7 DEF Accepted

(* One request performed: what was to come of it has.                      *)
LEMMA OldestPerformed ==
    ASSUME DeviceInv, pending # <<>>, ApplyPending(pending[1]), pending' = Tail(pending),
           hal' \in Seq(Nat), DOMAIN pc' = DOMAIN pc,
           UNCHANGED <<host, attached, listed, lastRequest, streamLock>>
    PROVE  /\ QueueTyped' /\ AskedOK' /\ ListsOK' /\ ObjectsOK'
           /\ \A p \in Setting : \A v : p[1] \in Stream /\ streamLock[p[1]] # Nothing
                /\ Accepted(dev.config, p, v) => Accepted(dev'.config, p, v)
<1> DEFINE c == pending[1].change
           L == Len(pending)
<1>1. QueueTyped /\ AskedOK /\ ListsOK /\ ObjectsOK /\ QueueOK
  BY DEF DeviceInv
<1>2. /\ L \in Nat \ {0} /\ Len(pending') = L - 1
      /\ \A i \in 1 .. L - 1 : pending'[i] = pending[i + 1]
      /\ c \in Change /\ pending' \in Seq(Request)
  BY <1>1, OldestGone
<1>3. dev' = Apply(dev, c) /\ disturbed' = disturbed
  BY DEF ApplyPending
<1>4. /\ WholeDevice(dev) /\ WholeDevice(dev')
      /\ \A p \in Setting : p \notin Touches(c) => dev'.config[p] = dev.config[p]
  <2>1. WholeDevice(dev)
    BY <1>1 DEF QueueTyped
  <2> QED BY <1>2, <1>3, <2>1, ChangeDoes
<1>5. \/ c.kind # "function" /\ asked' = asked
      \/ /\ c.kind = "function"
         /\ asked' = [p \in Setting |->
                        IF /\ p \in Touches(c)
                           /\ \A q \in ToSet(pending) \ {pending[1]} : p \notin Touches(q.change)
                        THEN dev'.config[p] ELSE asked[p]]
  BY DEF ApplyPending
<1>6. QueueTyped'
  <2>1. DOMAIN asked' = Setting
    BY <1>1, <1>5 DEF QueueTyped
  <2> QED BY <1>1, <1>2, <1>4, <2>1 DEF QueueTyped
<1>7. ASSUME NEW p \in Setting \ (Descriptions \cup disturbed) PROVE AskedFor(p)'
  <2>1. AskedFor(p)
    BY <1>1 DEF AskedOK
  <2>2. (\A i \in 1 .. L - 1 : p \notin Touches(pending'[i].change))
        <=> \A q \in ToSet(pending) \ {pending[1]} : p \notin Touches(q.change)
    <3>0. DOMAIN pending = 1 .. L
      BY <1>1 DEF QueueTyped
    <3>1. ASSUME NEW i \in 1 .. L - 1
          PROVE  pending'[i] \in ToSet(pending) \ {pending[1]}
      <4>1. i + 1 \in 1 .. L /\ 1 \in 1 .. L /\ 1 < i + 1
        BY <1>2
      <4>2. pending[1].id < pending[i + 1].id
        BY <1>1, <4>1 DEF QueueOK
      <4>3. pending[1] \in Request
        BY <1>1, <4>1, QueueIs DEF QueueReads
      <4>4. pending[1] # pending[i + 1]
        <5>1. pending[1].id \in Nat
          BY <4>3 DEF Request
        <5> QED BY <4>2, <5>1
      <4> QED BY <1>2, <3>0, <4>1, <4>4 DEF ToSet
    <3>2. ASSUME NEW q \in ToSet(pending) \ {pending[1]}
          PROVE  \E i \in 1 .. L - 1 : q = pending'[i]
      <4>1. PICK k \in 1 .. L : q = pending[k]
        BY <3>0 DEF ToSet
      <4>2. k - 1 \in 1 .. L - 1 /\ (k - 1) + 1 = k
        BY <1>2, <3>2, <4>1
      <4> QED BY <1>2, <4>1, <4>2
    <3> QED BY <3>1, <3>2
  <2>3. CASE p \notin Touches(c)
    <3>1. asked'[p] = asked[p] /\ dev'.config[p] = dev.config[p]
      BY <1>4, <1>5, <2>3
    <3> QED BY <1>1, <2>1, <2>3, <3>1, OldestAsked
  <2>4. CASE p \in Touches(c) /\ c.kind = "set"
    <3>1. asked'[p] = asked[p] /\ c.what = p
      BY <1>2, <1>5, <2>4, KindsOfChange
    <3>2. dev'.config[p] = c.value
      <4>1. Queue[1] = c /\ Len(Queue) = L /\ 1 \in 1 .. L
        BY <1>1, <1>2, QueueIs DEF QueueReads
      <4>2. IsList(p) /\ dev.config[p] = Unset => c.value # {dev.config[InForce(p)]}
        BY <1>1, <2>4, <3>1, <4>1 DEF ListsOK, NeverSet
      <4> QED BY <1>2, <1>3, <1>4, <1>7, <2>4, <3>1, <4>2, SetTakes
    <3>3. ASSUME \A i \in 1 .. L - 1 : p \notin Touches(pending'[i].change)
          PROVE  asked'[p] = dev'.config[p]
      <4>1. ASSUME NEW j \in 1 .. L, 1 < j PROVE p \notin Touches(pending[j].change)
        <5>1. j - 1 \in 1 .. L - 1 /\ (j - 1) + 1 = j
          BY <1>2, <4>1
        <5>2. pending'[j - 1] = pending[j]
          BY <1>2, <5>1
        <5> QED BY <3>3, <5>1, <5>2
      <4>2. 1 \in 1 .. L
        BY <1>2
      <4>3. asked[p] = c.value
        BY <2>1, <2>4, <4>1, <4>2 DEF AskedFor
      <4> QED BY <3>1, <3>2, <4>3
    <3> QED BY <1>1, <2>1, <3>1, <3>3, OldestAsked
  <2>5. CASE p \in Touches(c) /\ c.kind = "function"
    <3>1. /\ (\A i \in 1 .. L - 1 : p \notin Touches(pending'[i].change)) => asked'[p] = dev'.config[p]
          /\ ~(\A i \in 1 .. L - 1 : p \notin Touches(pending'[i].change)) => asked'[p] = asked[p]
      BY <1>5, <2>2, <2>5
    <3> QED BY <1>1, <2>1, <3>1, OldestAsked
  <2>6. CASE p \in Touches(c) /\ c.kind \notin {"set", "function"}
    <3>1. p \in Object
      BY <1>2, <2>6, KindsOfChange
    <3> QED BY <3>1, Names
  <2> QED BY <2>3, <2>4, <2>5, <2>6
<1>8. AskedOK'
  <2>1. AskedOK' <=> \A p \in Setting \ (Descriptions \cup disturbed') : AskedFor(p)'
    BY DEF AskedOK
  <2> QED BY <1>3, <1>7, <2>1
<1>9. ListsOK'
  <2>1. /\ Len(Queue)' = L - 1
        /\ \A i \in 1 .. L - 1 : Queue'[i] = pending'[i].change
    <3>1. QueueReads'
      BY <1>6, QueueIs, PTL
    <3> QED BY <1>2, <3>1 DEF QueueReads
  <2>2. /\ Len(Queue) = L
        /\ \A i \in 1 .. L : Queue[i] = pending[i].change
    BY <1>1, QueueIs DEF QueueReads
  <2>3. ASSUME NEW p \in Setting, IsList(p), dev'.config[p] = Unset, NEW i \in 1 .. L - 1,
               pending'[i].change.kind = "set"
        PROVE  /\ pending'[i].change.what # InForce(p)
               /\ pending'[i].change.what = p => pending'[i].change.value # {dev'.config[InForce(p)]}
    <3>1. NeverSet(dev, Queue, p)
      BY <1>1 DEF ListsOK
    <3>2. 1 \in 1 .. L /\ i + 1 \in 1 .. L
      BY <1>2
    <3>3. c.kind = "set" => c.what # InForce(p)
      <4>1. ASSUME c.kind = "set", c.what = InForce(p) PROVE FALSE
        <5>1. p \notin Touches(c)
          BY <1>2, <2>3, <4>1, KindsOfChange, Names, SMTT(30)
        <5>2. dev.config[p] = Unset
          BY <1>4, <2>3, <5>1
        <5> QED BY <2>2, <2>3, <3>1, <3>2, <4>1, <5>2 DEF NeverSet
      <4> QED BY <4>1
    <3>4. dev.config[p] = Unset /\ dev'.config[InForce(p)] = dev.config[InForce(p)]
      BY <1>2, <1>3, <1>4, <2>3, <3>3, StaysUnset
    <3>5. pending'[i] = pending[i + 1] /\ Queue[i + 1] = pending[i + 1].change
      BY <1>2, <2>2, <3>2
    <3> QED BY <2>2, <2>3, <3>1, <3>2, <3>4, <3>5 DEF NeverSet
  <2>4. ASSUME NEW p \in Setting PROVE NeverSet(dev', Queue', p)
    <3> DEFINE r == Queue'
               d == dev'
    <3>1. Len(r) = L - 1 /\ \A i \in 1 .. L - 1 : r[i] = pending'[i].change
      BY <2>1
    <3>2. IsList(p) /\ d.config[p] = Unset =>
            \A i \in 1 .. L - 1 : pending'[i].change.kind = "set" =>
              /\ pending'[i].change.what # InForce(p)
              /\ pending'[i].change.what = p => pending'[i].change.value # {d.config[InForce(p)]}
      BY <2>3
    <3> HIDE DEF r, d, L
    <3>3. NeverSet(d, r, p)
      BY <3>1, <3>2, ZenonT(30) DEF NeverSet
    <3> QED BY <3>3 DEF r, d
  <2> QED BY <2>4 DEF ListsOK
<1>10. ObjectsOK'
  <2>1. Settled' = Settled
    BY <1>1, <1>3, <1>6, OldestSettles
  <2> QED BY <1>1, <1>3, <2>1 DEF ObjectsOK
<1>11. ASSUME NEW p \in Setting, NEW v, p[1] \in Stream, streamLock[p[1]] # Nothing,
              Accepted(dev.config, p, v)
       PROVE  Accepted(dev'.config, p, v)
  <2>1. p[1] \notin StreamOf(c)
    BY <1>11 DEF ApplyPending
  <2>2. ASSUME NEW q \in Setting, q[1] = p[1] PROVE q \notin Touches(c)
    BY <1>11, <2>1, <2>2 DEF StreamOf
  <2>3. \A q \in Setting : q[1] = p[1] => dev'.config[q] = dev.config[q]
    BY <1>4, <2>2
  <2> QED BY <1>11, <2>3, AcceptedLocally
<1> QED BY <1>6, <1>8, <1>9, <1>10, <1>11

(* One request dropped: nothing else is to come out differently, but what  *)
(* it named.                                                               *)
LEMMA OldestDropped ==
    ASSUME DeviceInv, pending # <<>>, pending' = Tail(pending), hal' \in Seq(Nat),
           disturbed' = disturbed \cup Touches(pending[1].change),
           UNCHANGED <<host, attached, listed, dev, lastRequest, streamLock, pc, asked>>
    PROVE  QueueTyped' /\ AskedOK' /\ ListsOK' /\ ObjectsOK'
<1> DEFINE c == pending[1].change
           L == Len(pending)
<1>1. QueueTyped /\ AskedOK /\ ListsOK /\ ObjectsOK /\ QueueOK
  BY DEF DeviceInv
<1>2. /\ L \in Nat \ {0} /\ Len(pending') = L - 1
      /\ \A i \in 1 .. L - 1 : pending'[i] = pending[i + 1]
      /\ c \in Change /\ pending' \in Seq(Request)
  BY <1>1, OldestGone
<1>3. QueueTyped'
  BY <1>1, <1>2 DEF QueueTyped
<1>4. ASSUME NEW p \in Setting \ (Descriptions \cup disturbed') PROVE AskedFor(p)'
  <2>1. AskedFor(p) /\ p \notin Touches(c)
    BY <1>1, <1>4 DEF AskedOK
  <2> QED BY <1>1, <2>1, OldestAsked
<1>5. AskedOK'
  <2>1. AskedOK' <=> \A p \in Setting \ (Descriptions \cup disturbed') : AskedFor(p)'
    BY DEF AskedOK
  <2> QED BY <1>4, <2>1
<1>6. ListsOK'
  <2>1. /\ Len(Queue)' = L - 1
        /\ \A i \in 1 .. L - 1 : Queue'[i] = pending'[i].change
    <3>1. QueueReads'
      BY <1>3, QueueIs, PTL
    <3> QED BY <1>2, <3>1 DEF QueueReads
  <2>2. /\ Len(Queue) = L
        /\ \A i \in 1 .. L : Queue[i] = pending[i].change
    BY <1>1, QueueIs DEF QueueReads
  <2>3. ASSUME NEW i \in 1 .. L - 1 PROVE i + 1 \in 1 .. L /\ Queue'[i] = Queue[i + 1]
    <3>1. i + 1 \in 1 .. L
      BY <1>2
    <3> QED BY <1>2, <2>1, <2>2, <3>1
  <2>4. ASSUME NEW p \in Setting PROVE NeverSet(dev, Queue', p)
    <3>1. NeverSet(dev, Queue, p)
      BY <1>1 DEF ListsOK
    <3> QED BY <2>1, <2>2, <2>3, <3>1 DEF NeverSet
  <2> QED BY <2>4 DEF ListsOK
<1>7. ObjectsOK'
  <2>1. WholeDevice(dev) /\ WholeDevice(Apply(dev, c))
    BY <1>1, <1>2, ChangeDoes DEF QueueTyped
  <2>2. Alike(Apply(dev, c), dev, Touches(c))
    <3>1. CASE c.kind \in {"add", "remove"}
      <4>1. c.what \in Object /\ Touches(c) = {c.what}
        BY <1>2, <3>1, KindsOfChange
      <4>2. Apply(dev, c) = AddOwned(dev, c.what) \/ Apply(dev, c) = RemoveOwned(dev, c.what)
        BY <1>2, <3>1, KindsOfChange
      <4> DEFINE o == c.what
                 e == Apply(dev, c)
      <4>3. /\ e.owned = dev.owned \cup {o} \/ e.owned = dev.owned \ {o}
            /\ o \notin Inputs => e.inputs = dev.inputs
            /\ o \notin Outputs => e.outputs = dev.outputs
        BY <2>1, <4>2, OwnedDoes
      <4> HIDE DEF o, e
      <4>4. Alike(e, dev, {o})
        BY <4>3 DEF Alike, Stream
      <4> QED BY <4>1, <4>4 DEF o, e
    <3>2. CASE c.kind \notin {"add", "remove"}
      BY <1>2, <2>1, <3>2, ChangeDoes DEF Alike
    <3> QED BY <3>1, <3>2
  <2>3. /\ Settled = ApplyAll(Apply(dev, c), Queue')
        /\ Settled' = ApplyAll(dev, Queue') /\ Queue' \in Seq(Change)
    BY <1>1, <1>3, OldestSettles
  <2>4. Alike(Settled, Settled', Touches(c))
    <3> DEFINE e == Apply(dev, c)
               T == Touches(c)
               r == Queue'
    <3> HIDE DEF e, T, r, c
    <3>1. WholeDevice(e) /\ WholeDevice(dev) /\ Alike(e, dev, T) /\ r \in Seq(Change)
      BY <2>1, <2>2, <2>3 DEF e, T, r
    <3>2. Alike(ApplyAll(e, r), ApplyAll(dev, r), T)
      BY <3>1, QueueKeepsAlike
    <3> QED BY <2>3, <3>2 DEF e, T, r
  <2>5. Agree(Settled, listed, disturbed)
    BY <1>1 DEF ObjectsOK
  <2> DEFINE a == Settled
             b == Settled'
             T == Touches(c)
  <2> HIDE DEF a, b, T
  <2>6. Agree(b, listed, disturbed \cup T)
    <3>1. Alike(a, b, T) /\ Agree(a, listed, disturbed)
      BY <2>4, <2>5 DEF a, b, T
    <3>2. ASSUME (disturbed \cup T) \cap Stream = {}
          PROVE  /\ b.inputs = Cardinality(b.owned \cap Inputs)
                 /\ b.outputs = Cardinality(b.owned \cap Outputs)
      <4>1. \A o \in Stream : o \in a.owned <=> o \in b.owned
        BY <3>1, <3>2 DEF Alike, Object
      <4>2. a.owned \cap Inputs = b.owned \cap Inputs /\ a.owned \cap Outputs = b.owned \cap Outputs
        BY <4>1 DEF Stream
      <4>3. a.inputs = Cardinality(a.owned \cap Inputs) /\ a.outputs = Cardinality(a.owned \cap Outputs)
            /\ a.inputs = b.inputs /\ a.outputs = b.outputs
        BY <3>1, <3>2 DEF Alike, Agree
      <4> QED BY <4>2, <4>3
    <3> QED BY <3>1, <3>2 DEF Alike, Agree
  <2> QED BY <2>6 DEF ObjectsOK, b, T
<1> QED BY <1>3, <1>5, <1>6, <1>7

-----------------------------------------------------------------------------
(* The calls of the driver.                                                *)

LEMMA OneRequest ==
    ASSUME DeviceInv, devLock = Nothing, NEW c \in Change, RequestConfigurationChange(<<c>>),
           c.kind = "set" => Accepted(dev.config, c.what, c.value),
           UNCHANGED <<host, attached, devLock, disturbed>>,
           DOMAIN asked' = Setting, DOMAIN streamLock' = Stream, DOMAIN pc' = Thread \cup {"hal"},
           \A p \in Setting \ Descriptions :
             IF p \in Touches(c)
             THEN /\ c.kind = "set" => asked'[p] = c.value
                  /\ c.kind # "set" /\ ~Queued => asked'[p] = dev'.config[p]
             ELSE asked'[p] = asked[p]
    PROVE  /\ QueueTyped' /\ QueueOK' /\ AskedOK' /\ ListsOK'
           /\ WholeDevice(Settled) /\ Settled' = Apply(Settled, c)
           /\ dev' = dev \/ dev' = Apply(dev, c)
<1> DEFINE cs == <<c>>
<1>1. cs \in Seq(Change) /\ Len(cs) = 1 /\ cs[1] = c
  OBVIOUS
<1>2. ApplyAll(dev, cs) = Apply(dev, c) /\ ApplyAll(Settled, cs) = Apply(Settled, c)
  BY ApplyOne
<1>3. RequestConfigurationChange(cs)
  OBVIOUS
<1> HIDE DEF cs
<1>4. QueueTyped /\ QueueOK /\ AskedOK /\ ListsOK /\ WholeDevice(dev)
  BY DEF DeviceInv, QueueTyped
<1>5. dev' = dev \/ dev' = Apply(dev, c)
  BY <1>1, <1>2, <1>3, <1>4, RequestShape
<1>6. QueueTyped'
  <2>1. pending' \in Seq(Request) /\ hal' \in Seq(Nat) /\ lastRequest' \in Nat
    <3>1. CASE Queued
      BY <1>1, <1>3, <1>4, <3>1, RequestShape
    <3>2. CASE ~Queued
      <4>1. UNCHANGED <<pending, hal, lastRequest>>
        BY <1>1, <1>3, <1>4, <3>2, RequestShape
      <4> QED BY <1>4, <4>1 DEF QueueTyped
    <3> QED BY <3>1, <3>2
  <2>2. WholeDevice(dev')
    BY <1>4, <1>5, ChangeDoes
  <2> QED BY <1>4, <2>1, <2>2 DEF QueueTyped
<1>7. QueueOK'
  BY <1>1, <1>3, <1>4, RequestQueues
<1>8. ListsOK'
  BY <1>1, <1>3, <1>4, <1>6, RequestLists
<1>9. Settled' = Apply(Settled, c)
  <2>1. Settled' = ApplyAll(Settled, cs)
    BY <1>1, <1>3, <1>4, <1>6, RequestSettles
  <2> QED BY <1>2, <2>1
<1>10. AskedOK'
  <2>1. ASSUME NEW p \in Setting \ Descriptions
        PROVE  \/ /\ asked'[p] = asked[p] /\ \A i \in 1 .. Len(cs) : p \notin Touches(cs[i])
                  /\ ~Queued => dev'.config[p] = dev.config[p]
               \/ /\ Len(cs) = 1 /\ p \in Touches(cs[1])
                  /\ ~Queued => asked'[p] = dev'.config[p]
                  /\ cs[1].kind = "set" => asked'[p] = cs[1].value
    <3>1. CASE p \notin Touches(c)
      <4>1. dev'.config[p] = dev.config[p]
        BY <1>4, <1>5, <3>1, ChangeDoes
      <4>2. \A i \in 1 .. Len(cs) : p \notin Touches(cs[i])
        BY <1>1, <3>1
      <4> QED BY <3>1, <4>1, <4>2
    <3>2. CASE p \in Touches(c)
      <4>1. ASSUME ~Queued, c.kind = "set" PROVE asked'[p] = dev'.config[p]
        <5>1. dev' = Apply(dev, c)
          BY <1>1, <1>2, <1>3, <1>4, <4>1, RequestShape
        <5>2. Apply(dev, c) = SetImpl(dev, p, c.value) /\ c.what = p
          BY <3>2, <4>1, KindsOfChange
        <5>3. dev'.config[p] = c.value
          BY <1>4, <4>1, <5>1, <5>2, SetImplDoes DEF Accepted
        <5> QED BY <3>2, <4>1, <5>3
      <4> QED BY <1>1, <3>2, <4>1
    <3> QED BY <3>1, <3>2
  <2> QED BY <1>1, <1>3, <1>4, <1>6, <2>1, RequestAsked
<1>11. WholeDevice(Settled)
  <2>1. Settled = ApplyAll(dev, Queue) /\ Queue \in Seq(Change)
    BY <1>4, QueueIs DEF QueueReads
  <2> QED BY <1>4, <2>1, QueueKeepsWhole
<1> QED BY <1>5, <1>6, <1>7, <1>8, <1>9, <1>10, <1>11

(* What a change of the settings, or of the objects, leaves of the rest.   *)
LEMMA SettingsOnly ==
    ASSUME NEW d, WholeDevice(d), NEW c \in Change, c.kind \in {"set", "function"}, NEW L, NEW T,
           Agree(d, L, T)
    PROVE  Agree(Apply(d, c), L, T)
BY ChangeDoes DEF Agree

\* Nobody is in the middle of a setter that a change reaches.
LEMMA SettersStay ==
    ASSUME SettersOK, WholeDevice(dev), NEW c \in Change, dev' = dev \/ dev' = Apply(dev, c),
           \A t \in Thread : pc'[t].at = "stream" =>
             /\ pc'[t] = pc[t] /\ streamLock'[pc[t].what[1]] = streamLock[pc[t].what[1]]
             /\ \A q \in Touches(c) \cap Setting : q[1] # pc[t].what[1]
    PROVE  SettersOK'
<1>1. ASSUME NEW t \in Thread, pc'[t].at = "stream"
      PROVE  /\ pc'[t] = pc[t] /\ ToBeSet(t) \in Told /\ pc[t].what[1] \in Stream
             /\ streamLock'[pc[t].what[1]] = t
             /\ Accepted(dev'.config, pc[t].what, pc[t].value)
  <2>1. /\ pc'[t] = pc[t] /\ ToBeSet(t) \in Told /\ pc[t].what[1] \in Stream
        /\ streamLock'[pc[t].what[1]] = t
        /\ Accepted(dev.config, pc[t].what, pc[t].value)
    BY <1>1 DEF SettersOK
  <2>2. pc[t].what \in Setting
    BY <2>1 DEF Told, ToBeSet
  <2>3. \A q \in Setting : q[1] = pc[t].what[1] => dev'.config[q] = dev.config[q]
    BY <1>1, ChangeDoes
  <2>4. Accepted(dev'.config, pc[t].what, pc[t].value)
    <3> DEFINE p == pc[t].what
               v == pc[t].value
               d == dev.config
               e == dev'.config
    <3> HIDE DEF p, v, d, e
    <3>1. /\ p \in Setting /\ p[1] \in Stream /\ Accepted(d, p, v)
          /\ \A q \in Setting : q[1] = p[1] => e[q] = d[q]
      BY <2>1, <2>2, <2>3 DEF p, v, d, e
    <3>2. Accepted(e, p, v)
      BY <3>1, AcceptedLocally
    <3> QED BY <3>2 DEF p, v, e
  <2> QED BY <2>1, <2>4
<1> QED BY <1>1 DEF SettersOK, ToBeSet

(* What a set request is.                                                  *)
LEMMA SetChanges ==
    ASSUME NEW p \in Setting, NEW v \in Value(p), NEW c, c = [kind |-> "set", what |-> p, value |-> v]
    PROVE  c \in Change /\ c.kind = "set" /\ c.what = p /\ c.value = v /\ Touches(c) = {p}
<1>1. <<p, v>> \in Told
  BY DEF Told
<1>2. c = [kind |-> "set", what |-> <<p, v>>[1], value |-> <<p, v>>[2]]
  OBVIOUS
<1>3. c \in Change
  BY <1>1, <1>2 DEF Change
<1> QED BY <1>3, KindsOfChange

\* No setter of a stream is concerned in what is the device's own.
LEMMA DeviceOnly ==
    ASSUME NEW s \in Stream
    PROVE  s # Device
BY ObjectAssumption DEF Object

LEMMA SetInv ==
    ASSUME DeviceInv, NEW t \in Thread, NEW p \in Setting, p[1] = Device, NEW v, SetAsync(t, p, v)
    PROVE  DeviceInv'
<1> DEFINE c == [kind |-> "set", what |-> p, value |-> v]
<1>1. /\ v \in Value(p) /\ devLock = Nothing
      /\ Accepted(dev.config, p, v) /\ RequestConfigurationChange(<<c>>)
      /\ asked' = [asked EXCEPT ![p] = v]
      /\ UNCHANGED <<host, attached, listed, devLock, streamLock, pluginLock, pc, disturbed>>
  BY DEF SetAsync, locks
<1>2. c \in Change /\ c.kind = "set" /\ c.what = p /\ c.value = v /\ Touches(c) = {p}
  BY <1>1, SetChanges
<1> HIDE DEF c
<1>3. /\ DOMAIN asked' = Setting /\ DOMAIN streamLock' = Stream /\ DOMAIN pc' = Thread \cup {"hal"}
      /\ \A q \in Setting : asked'[q] = IF q = p THEN v ELSE asked[q]
  BY <1>1 DEF DeviceInv, QueueTyped
<1>4. /\ QueueTyped' /\ QueueOK' /\ AskedOK' /\ ListsOK'
      /\ WholeDevice(Settled) /\ Settled' = Apply(Settled, c)
      /\ dev' = dev \/ dev' = Apply(dev, c)
  BY <1>1, <1>2, <1>3, OneRequest
<1>5. LocksOK'
  BY <1>1, ThreadAssumption DEF DeviceInv, LocksOK
<1>6. SettersOK'
  <2>1. ASSUME NEW u \in Thread, pc'[u].at = "stream"
        PROVE  /\ pc'[u] = pc[u] /\ streamLock'[pc[u].what[1]] = streamLock[pc[u].what[1]]
               /\ \A q \in Touches(c) \cap Setting : q[1] # pc[u].what[1]
    <3>1. pc[u].what[1] \in Stream
      BY <1>1, <2>1 DEF DeviceInv, SettersOK
    <3> QED BY <1>1, <1>2, <3>1, DeviceOnly
  <2> QED BY <1>2, <1>4, <2>1, SettersStay DEF DeviceInv, QueueTyped
<1>7. ObjectsOK'
  <2>1. Agree(Settled, listed, disturbed)
    BY DEF DeviceInv, ObjectsOK
  <2>2. Agree(Apply(Settled, c), listed, disturbed)
    BY <1>2, <1>4, <2>1, SettingsOnly
  <2> QED BY <1>1, <1>4, <2>2 DEF ObjectsOK
<1> QED BY <1>4, <1>5, <1>6, <1>7 DEF DeviceInv

LEMMA FunctionInv ==
    ASSUME DeviceInv, NEW t \in Thread, NEW p \in Setting, NEW v \in Value(p), NEW q \in Setting,
           NEW w \in Value(q), RequestFunction(t, p, v, q, w)
    PROVE  DeviceInv'
<1> DEFINE c == [kind |-> "function", sets |-> << <<p, v>>, <<q, w>> >>]
<1>1. /\ devLock = Nothing /\ RequestConfigurationChange(<<c>>) /\ p[1] = Device /\ q[1] = Device
      /\ asked' = IF Queued THEN asked
                  ELSE [x \in Setting |-> IF x \in {p, q} THEN dev'.config[x] ELSE asked[x]]
      /\ UNCHANGED <<host, attached, listed, devLock, streamLock, pluginLock, pc, disturbed>>
  BY DEF RequestFunction, locks
<1>2. c \in Change /\ c.kind = "function" /\ Touches(c) = {p, q}
  <2>1. <<p, v>> \in Told /\ <<q, w>> \in Told
    BY DEF Told
  <2>2. c \in Change
    <3>1. \A pv, qw \in Told : [kind |-> "function", sets |-> <<pv, qw>>] \in Change
      BY DEF Change
    <3> QED BY <2>1, <3>1
  <2>3. c.kind = "function" /\ c.sets = << <<p, v>>, <<q, w>> >>
    OBVIOUS
  <2>4. Touches(c) = {c.sets[1][1], c.sets[2][1]}
    BY <2>2, <2>3, KindsOfChange
  <2> HIDE DEF c
  <2> QED BY <2>2, <2>3, <2>4
<1> HIDE DEF c
<1>3. /\ DOMAIN asked' = Setting /\ DOMAIN streamLock' = Stream /\ DOMAIN pc' = Thread \cup {"hal"}
      /\ \A x \in Setting : IF x \in {p, q} THEN ~Queued => asked'[x] = dev'.config[x]
                            ELSE asked'[x] = asked[x]
  BY <1>1 DEF DeviceInv, QueueTyped
<1>4. /\ QueueTyped' /\ QueueOK' /\ AskedOK' /\ ListsOK'
      /\ WholeDevice(Settled) /\ Settled' = Apply(Settled, c)
      /\ dev' = dev \/ dev' = Apply(dev, c)
  BY <1>1, <1>2, <1>3, OneRequest
<1>5. LocksOK'
  BY <1>1, ThreadAssumption DEF DeviceInv, LocksOK
<1>6. SettersOK'
  <2>1. ASSUME NEW u \in Thread, pc'[u].at = "stream"
        PROVE  /\ pc'[u] = pc[u] /\ streamLock'[pc[u].what[1]] = streamLock[pc[u].what[1]]
               /\ \A x \in Touches(c) \cap Setting : x[1] # pc[u].what[1]
    <3>1. pc[u].what[1] \in Stream
      BY <1>1, <2>1 DEF DeviceInv, SettersOK
    <3> QED BY <1>1, <1>2, <3>1, DeviceOnly
  <2> QED BY <1>2, <1>4, <2>1, SettersStay DEF DeviceInv, QueueTyped
<1>7. ObjectsOK'
  <2>1. Agree(Settled, listed, disturbed)
    BY DEF DeviceInv, ObjectsOK
  <2>2. Agree(Apply(Settled, c), listed, disturbed)
    BY <1>2, <1>4, <2>1, SettingsOnly
  <2> QED BY <1>1, <1>4, <2>2 DEF ObjectsOK
<1> QED BY <1>4, <1>5, <1>6, <1>7 DEF DeviceInv

LEMMA StreamSetInv ==
    ASSUME DeviceInv, NEW t \in Thread, NEW p \in Setting, p[1] \in Stream, NEW v,
           SetStreamAsync(t, p, v)
    PROVE  DeviceInv'
<1>1. /\ v \in Value(p) /\ streamLock[p[1]] = Nothing /\ Accepted(dev.config, p, v)
      /\ streamLock' = [streamLock EXCEPT ![p[1]] = t]
      /\ pc' = [pc EXCEPT ![t] = [at |-> "stream", what |-> p, value |-> v]]
      /\ pc[t] = [at |-> "idle"]
      /\ UNCHANGED <<host, attached, listed, dev, pending, lastRequest, devLock, pluginLock, hal,
                     asked, disturbed>>
  BY DEF SetStreamAsync, Turn, Idle, history
<1>2. QueueTyped /\ LocksOK /\ SettersOK
  BY DEF DeviceInv
<1>3. /\ pc'[t].at = "stream" /\ pc'[t].what = p /\ pc'[t].value = v
      /\ \A u \in Thread \cup {"hal"} : u # t => pc'[u] = pc[u]
      /\ DOMAIN pc' = Thread \cup {"hal"} /\ DOMAIN streamLock' = Stream
      /\ streamLock'[p[1]] = t /\ \A s \in Stream : s # p[1] => streamLock'[s] = streamLock[s]
  BY <1>1, <1>2 DEF QueueTyped
<1>4. QueueTyped'
  BY <1>1, <1>2, <1>3 DEF QueueTyped
<1>5. LocksOK'
  <2>1. devLock # t
    BY <1>1, <1>2 DEF LocksOK
  <2>2. Found(Head(hal))' = Found(Head(hal))
    BY <1>1 DEF Found
  <2> QED BY <1>1, <1>2, <1>3, <2>1, <2>2, ThreadAssumption DEF LocksOK
<1>6. SettersOK'
  <2>1. ASSUME NEW u \in Thread, pc'[u].at = "stream"
        PROVE  /\ <<pc'[u].what, pc'[u].value>> \in Told /\ pc'[u].what[1] \in Stream
               /\ streamLock'[pc'[u].what[1]] = u
               /\ Accepted(dev.config, pc'[u].what, pc'[u].value)
    <3>1. CASE u = t
      BY <1>1, <1>3, <3>1 DEF Told
    <3>2. CASE u # t
      <4>1. /\ pc'[u] = pc[u] /\ <<pc[u].what, pc[u].value>> \in Told /\ pc[u].what[1] \in Stream
            /\ streamLock[pc[u].what[1]] = u
            /\ Accepted(dev.config, pc[u].what, pc[u].value)
        BY <1>2, <1>3, <2>1, <3>2 DEF SettersOK, ToBeSet
      <4>2. pc[u].what[1] # p[1]
        BY <1>1, <4>1, ThreadAssumption
      <4> QED BY <1>3, <4>1, <4>2
    <3> QED BY <3>1, <3>2
  <2> QED BY <1>1, <2>1 DEF SettersOK, ToBeSet
<1>7. QueueOK' /\ AskedOK' /\ ListsOK' /\ ObjectsOK'
  BY <1>1, SMTT(30) DEF DeviceInv, QueueOK, AskedOK, AskedFor, ListsOK, ObjectsOK, Settled, Queue
<1> QED BY <1>4, <1>5, <1>6, <1>7 DEF DeviceInv

LEMMA FromStreamInv ==
    ASSUME DeviceInv, NEW t \in Thread, RequestFromStream(t)
    PROVE  DeviceInv'
<1> DEFINE p == pc[t].what
           v == pc[t].value
           c == [kind |-> "set", what |-> p, value |-> v]
<1>1. /\ pc[t].at = "stream" /\ devLock = Nothing /\ RequestConfigurationChange(<<c>>)
      /\ asked' = [asked EXCEPT ![p] = v]
      /\ streamLock' = [streamLock EXCEPT ![p[1]] = Nothing]
      /\ pc' = [pc EXCEPT ![t] = [at |-> "idle"]]
      /\ UNCHANGED <<host, attached, listed, devLock, pluginLock, disturbed>>
  BY DEF RequestFromStream
<1>2. QueueTyped /\ LocksOK /\ SettersOK
  BY DEF DeviceInv
<1>3. p \in Setting /\ v \in Value(p) /\ p[1] \in Stream /\ streamLock[p[1]] = t
      /\ Accepted(dev.config, p, v)
  BY <1>1, <1>2 DEF SettersOK, ToBeSet, Told
<1>4. c \in Change /\ c.kind = "set" /\ c.what = p /\ c.value = v /\ Touches(c) = {p}
  BY <1>3, SetChanges
<1> HIDE DEF c, p, v
<1>5. /\ DOMAIN asked' = Setting /\ DOMAIN streamLock' = Stream /\ DOMAIN pc' = Thread \cup {"hal"}
      /\ \A q \in Setting : asked'[q] = IF q = p THEN v ELSE asked[q]
      /\ pc'[t].at = "idle" /\ \A u \in Thread \cup {"hal"} : u # t => pc'[u] = pc[u]
      /\ \A s \in Stream : s # p[1] => streamLock'[s] = streamLock[s]
  BY <1>1, <1>2 DEF QueueTyped
<1>6. /\ QueueTyped' /\ QueueOK' /\ AskedOK' /\ ListsOK'
      /\ WholeDevice(Settled) /\ Settled' = Apply(Settled, c)
      /\ dev' = dev \/ dev' = Apply(dev, c)
  BY <1>1, <1>3, <1>4, <1>5, OneRequest
<1>7. LocksOK'
  BY <1>1, <1>2, <1>5, ThreadAssumption DEF LocksOK
<1>8. SettersOK'
  <2>1. ASSUME NEW u \in Thread, pc'[u].at = "stream"
        PROVE  /\ pc'[u] = pc[u] /\ streamLock'[pc[u].what[1]] = streamLock[pc[u].what[1]]
               /\ \A q \in Touches(c) \cap Setting : q[1] # pc[u].what[1]
    <3>1. u # t /\ pc'[u] = pc[u]
      BY <1>5, <2>1
    <3>2. pc[u].what[1] \in Stream /\ streamLock[pc[u].what[1]] = u
      BY <1>2, <2>1, <3>1 DEF SettersOK
    <3> QED BY <1>3, <1>4, <1>5, <3>1, <3>2
  <2> QED BY <1>2, <1>4, <1>6, <2>1, SettersStay DEF QueueTyped
<1>9. ObjectsOK'
  <2>1. Agree(Settled, listed, disturbed)
    BY DEF DeviceInv, ObjectsOK
  <2>2. Agree(Apply(Settled, c), listed, disturbed)
    BY <1>4, <1>6, <2>1, SettingsOnly
  <2> QED BY <1>1, <1>6, <2>2 DEF ObjectsOK
<1> QED BY <1>6, <1>7, <1>8, <1>9 DEF DeviceInv

\* Adding one object, or a stream with its two controls.
LEMMA ApplyThree ==
    ASSUME NEW d, NEW a, NEW b, NEW c
    PROVE  ApplyAll(d, <<a, b, c>>) = Apply(Apply(Apply(d, a), b), c)
<1> DEFINE s == <<a, b, c>>
<1>0. s \in Seq({a, b, c}) /\ Len(s) = 3 /\ s[1] = a /\ s[2] = b /\ s[3] = c
  OBVIOUS
<1> HIDE DEF s
<1>1. PICK f : Course(d, s, 3, f)
  BY CourseExists
<1>2. ApplyAll(d, s) = f[3]
  BY <1>0, <1>1, AppliedIs
<1>3. f[0] = d /\ f[1] = Apply(f[0], s[1]) /\ f[2] = Apply(f[1], s[2]) /\ f[3] = Apply(f[2], s[3])
  BY <1>1 DEF Course
<1>4. ApplyAll(d, s) = Apply(Apply(Apply(d, a), b), c)
  BY <1>0, <1>2, <1>3
<1> QED BY <1>4 DEF s

LEMMA AddChanges ==
    ASSUME NEW o \in Object, NEW k \in {"add", "remove"}, NEW c, c = [kind |-> k, what |-> o]
    PROVE  /\ c \in Change /\ c.kind = k /\ c.what = o /\ Touches(c) = {o}
           /\ \A d : /\ k = "add" => Apply(d, c) = AddOwned(d, o)
                     /\ k = "remove" => Apply(d, c) = RemoveOwned(d, o)
<1>1. c \in Change
  BY DEF Change
<1>2. c.kind = k /\ c.what = o
  OBVIOUS
<1> QED BY <1>1, <1>2, KindsOfChange

(* The lists change with the request, the objects the device owns when the *)
(* request is performed; in between the queue says what is to come.        *)
LEMMA ObjectInv ==
    ASSUME DeviceInv, devLock = Nothing, NEW c \in Change, NEW o \in Object,
           c.kind \in {"add", "remove"}, c.what = o, RequestConfigurationChange(<<c>>),
           c.kind = "add" => o \notin listed /\ listed' = listed \cup {o},
           c.kind = "remove" => o \in listed /\ listed' = listed \ {o},
           UNCHANGED <<host, attached, locks, pc, history>>
    PROVE  DeviceInv'
<1>1. /\ UNCHANGED <<host, attached, devLock, streamLock, pluginLock, pc, asked, disturbed>>
  BY DEF locks, history
<1>2. /\ Touches(c) = {o} /\ c.kind \notin {"set", "function"}
      /\ \A d : /\ c.kind = "add" => Apply(d, c) = AddOwned(d, o)
                /\ c.kind = "remove" => Apply(d, c) = RemoveOwned(d, o)
  BY KindsOfChange
<1>3. /\ DOMAIN asked' = Setting /\ DOMAIN streamLock' = Stream /\ DOMAIN pc' = Thread \cup {"hal"}
  BY <1>1 DEF DeviceInv, QueueTyped
<1>4. \A q \in Setting : q \notin Touches(c)
  BY <1>2, Names
<1>5. /\ QueueTyped' /\ QueueOK' /\ AskedOK' /\ ListsOK'
      /\ WholeDevice(Settled) /\ Settled' = Apply(Settled, c)
      /\ dev' = dev \/ dev' = Apply(dev, c)
  BY <1>1, <1>2, <1>3, <1>4, OneRequest
<1>6. LocksOK'
  BY <1>1, ThreadAssumption DEF DeviceInv, LocksOK
<1>7. SettersOK'
  BY <1>1, <1>4, <1>5, SettersStay DEF DeviceInv, QueueTyped
<1>8. ObjectsOK'
  <2>1. Agree(Settled, listed, disturbed)
    BY DEF DeviceInv, ObjectsOK
  <2>2. Agree(Apply(Settled, c), listed', disturbed)
    <3> DEFINE d == Settled
    <3>1. WholeDevice(d) /\ Agree(d, listed, disturbed)
      BY <1>5, <2>1
    <3> HIDE DEF d
    <3>2. CASE c.kind = "add"
      <4>1. Agree(AddOwned(d, o), listed \cup {o}, disturbed)
        BY <3>1, <3>2, Agreeing
      <4> QED BY <1>2, <3>2, <4>1 DEF d
    <3>3. CASE c.kind = "remove"
      <4>1. Agree(RemoveOwned(d, o), listed \ {o}, disturbed)
        BY <3>1, <3>3, Agreeing
      <4> QED BY <1>2, <3>3, <4>1 DEF d
    <3> QED BY <3>2, <3>3
  <2> QED BY <1>1, <1>5, <2>2 DEF ObjectsOK
<1> QED BY <1>5, <1>6, <1>7, <1>8 DEF DeviceInv

LEMMA AddOneInv ==
    ASSUME DeviceInv, NEW t \in Thread, NEW o \in Object, AddObjects(t, <<o>>)
    PROVE  DeviceInv'
<1> DEFINE c == [kind |-> "add", what |-> o]
           os == <<o>>
<1>0. Len(os) = 1 /\ DOMAIN os = {1} /\ os[1] = o
  OBVIOUS
<1>1. [i \in DOMAIN os |-> [kind |-> "add", what |-> os[i]]] = <<c>>
  OBVIOUS
<1>2. {os[i] : i \in DOMAIN os} = {o} /\ (\A i \in DOMAIN os : Fresh(os[i])) => Fresh(o)
  BY <1>0
<1>3. /\ devLock = Nothing /\ Fresh(o) /\ listed' = listed \cup {o}
      /\ RequestConfigurationChange(<<c>>)
      /\ UNCHANGED <<host, attached, locks, pc, history>>
  <2>1. AddObjects(t, os)
    OBVIOUS
  <2> HIDE DEF os, c
  <2> QED BY <1>1, <1>2, <2>1 DEF AddObjects
<1>4. c \in Change /\ c.kind = "add" /\ c.what = o
  BY AddChanges
<1> HIDE DEF c
<1> QED BY <1>3, <1>4, ObjectInv DEF Fresh

LEMMA RemoveInv ==
    ASSUME DeviceInv, NEW t \in Thread, NEW o \in Object, RemoveObject(t, o)
    PROVE  DeviceInv'
<1> DEFINE c == [kind |-> "remove", what |-> o]
<1>1. /\ devLock = Nothing /\ o \in listed /\ listed' = listed \ {o}
      /\ RequestConfigurationChange(<<c>>)
      /\ UNCHANGED <<host, attached, locks, pc, history>>
  BY DEF RemoveObject
<1>2. c \in Change /\ c.kind = "remove" /\ c.what = o
  BY AddChanges
<1> HIDE DEF c
<1> QED BY <1>1, <1>2, ObjectInv

LEMMA AddThreeInv ==
    ASSUME DeviceInv, NEW t \in Thread, NEW s \in Stream, NEW v \in Volumes, NEW m \in Mutes,
           AddObjects(t, <<s, v, m>>)
    PROVE  DeviceInv'
<1> DEFINE a == [kind |-> "add", what |-> s]
           b == [kind |-> "add", what |-> v]
           c == [kind |-> "add", what |-> m]
           os == <<s, v, m>>
           cs == <<a, b, c>>
<1>0. s \in Object /\ v \in Object /\ m \in Object /\ v \notin Stream /\ m \notin Stream
  BY ObjectAssumption DEF Object
<1>1. [i \in DOMAIN os |-> [kind |-> "add", what |-> os[i]]] = cs
  OBVIOUS
<1>2. {os[i] : i \in DOMAIN os} = {s, v, m} /\ ((\A i \in DOMAIN os : Fresh(os[i])) => Fresh(s))
  <2>1. DOMAIN os = {1, 2, 3} /\ os[1] = s /\ os[2] = v /\ os[3] = m
    OBVIOUS
  <2> HIDE DEF os
  <2> QED BY <2>1
<1>3. /\ devLock = Nothing /\ s \notin listed /\ listed' = listed \cup {s, v, m}
      /\ RequestConfigurationChange(cs)
      /\ UNCHANGED <<host, attached, locks, pc, history>>
  <2>1. AddObjects(t, os)
    OBVIOUS
  <2> HIDE DEF os, cs
  <2> QED BY <1>1, <1>2, <2>1 DEF AddObjects, Fresh
<1>4. /\ a \in Change /\ a.kind = "add" /\ Touches(a) = {s} /\ \A d : Apply(d, a) = AddOwned(d, s)
      /\ b \in Change /\ b.kind = "add" /\ Touches(b) = {v} /\ \A d : Apply(d, b) = AddOwned(d, v)
      /\ c \in Change /\ c.kind = "add" /\ Touches(c) = {m} /\ \A d : Apply(d, c) = AddOwned(d, m)
  <2> DEFINE Adds(r, o) == /\ r \in Change /\ r.kind = "add" /\ Touches(r) = {o}
                           /\ \A d : Apply(d, r) = AddOwned(d, o)
  <2>1. ASSUME NEW o \in Object, NEW r, r = [kind |-> "add", what |-> o] PROVE Adds(r, o)
    BY <2>1, AddChanges
  <2> HIDE DEF Adds
  <2>2. Adds(a, s) /\ Adds(b, v) /\ Adds(c, m)
    BY <1>0, <2>1
  <2> HIDE DEF a, b, c
  <2> QED BY <2>2 DEF Adds
<1> HIDE DEF a, b, c, os
<1>5. cs \in Seq(Change) /\ Len(cs) = 3 /\ cs[1] = a /\ cs[2] = b /\ cs[3] = c
  BY <1>4
<1>6. \A d : ApplyAll(d, cs) = AddOwned(AddOwned(AddOwned(d, s), v), m)
  BY <1>4, ApplyThree
<1> HIDE DEF cs
<1>7. \A i \in 1 .. Len(cs) : cs[i].kind = "add" /\ \A p \in Setting : p \notin Touches(cs[i])
  <2>1. \A i \in 1 .. Len(cs) : i = 1 \/ i = 2 \/ i = 3
    BY <1>5
  <2> QED BY <1>0, <1>4, <1>5, <2>1, Names
<1>8. /\ UNCHANGED <<host, attached, devLock, streamLock, pluginLock, pc, asked, disturbed>>
      /\ QueueTyped /\ QueueOK /\ AskedOK /\ ListsOK /\ SettersOK /\ LocksOK /\ WholeDevice(dev)
  BY <1>3 DEF locks, history, DeviceInv, QueueTyped
<1>9. ASSUME NEW d, WholeDevice(d), NEW L, NEW T, s \notin L, Agree(d, L, T)
      PROVE  /\ WholeDevice(ApplyAll(d, cs)) /\ ApplyAll(d, cs).config = d.config
             /\ Agree(ApplyAll(d, cs), L \cup {s, v, m}, T)
  <2> DEFINE e == AddOwned(d, s)
             f == AddOwned(e, v)
             g == AddOwned(f, m)
  <2>1. WholeDevice(e) /\ e.config = d.config /\ Agree(e, L \cup {s}, T)
    BY <1>0, <1>9, OwnedDoes, Agreeing
  <2> HIDE DEF e
  <2>2. WholeDevice(f) /\ f.config = e.config /\ Agree(f, (L \cup {s}) \cup {v}, T)
    BY <1>0, <2>1, OwnedDoes, Agreeing
  <2> HIDE DEF f
  <2>3. WholeDevice(g) /\ g.config = f.config /\ Agree(g, ((L \cup {s}) \cup {v}) \cup {m}, T)
    BY <1>0, <2>2, OwnedDoes, Agreeing
  <2>4. ((L \cup {s}) \cup {v}) \cup {m} = L \cup {s, v, m} /\ ApplyAll(d, cs) = g
    BY <1>6 DEF e, f
  <2> HIDE DEF g
  <2> QED BY <2>1, <2>2, <2>3, <2>4
<1>10. WholeDevice(dev') /\ dev'.config = dev.config
  <2>1. dev' = dev \/ dev' = ApplyAll(dev, cs)
    BY <1>3, <1>5, <1>8, RequestShape
  <2>3. WholeDevice(ApplyAll(dev, cs)) /\ ApplyAll(dev, cs).config = dev.config
    <3> DEFINE e == AddOwned(dev, s)
               f == AddOwned(e, v)
               g == AddOwned(f, m)
    <3>1. WholeDevice(e) /\ e.config = dev.config
      BY <1>8, OwnedDoes
    <3> HIDE DEF e
    <3>2. WholeDevice(f) /\ f.config = e.config
      BY <3>1, OwnedDoes
    <3> HIDE DEF f
    <3>3. WholeDevice(g) /\ g.config = f.config
      BY <3>2, OwnedDoes
    <3>4. ApplyAll(dev, cs) = g
      BY <1>6 DEF e, f
    <3> QED BY <3>1, <3>2, <3>3, <3>4
  <2> QED BY <1>8, <2>1, <2>3
<1>11. QueueTyped'
  <2>1. pending' \in Seq(Request) /\ hal' \in Seq(Nat) /\ lastRequest' \in Nat
    <3>1. CASE Queued
      BY <1>3, <1>5, <1>8, <3>1, RequestShape
    <3>2. CASE ~Queued
      <4>1. UNCHANGED <<pending, hal, lastRequest>>
        BY <1>3, <1>5, <1>8, <3>2, RequestShape
      <4> QED BY <1>8, <4>1 DEF QueueTyped
    <3> QED BY <3>1, <3>2
  <2> QED BY <1>8, <1>10, <2>1 DEF QueueTyped
<1>12. QueueOK'
  BY <1>3, <1>5, <1>8, RequestQueues
<1>13. ListsOK'
  BY <1>3, <1>5, <1>7, <1>8, <1>11, RequestLists
<1>14. AskedOK'
  <2>1. \A p \in Setting \ Descriptions :
          /\ asked'[p] = asked[p] /\ \A i \in 1 .. Len(cs) : p \notin Touches(cs[i])
          /\ ~Queued => dev'.config[p] = dev.config[p]
    BY <1>7, <1>8, <1>10
  <2> QED BY <1>3, <1>5, <1>8, <1>11, <2>1, RequestAsked
<1>15. LocksOK'
  BY <1>3, <1>8, ThreadAssumption DEF LocksOK
<1>16. SettersOK'
  BY <1>8, <1>10 DEF SettersOK, ToBeSet
<1>17. ObjectsOK'
  <2>1. Agree(Settled, listed, disturbed)
    BY DEF DeviceInv, ObjectsOK
  <2>2. WholeDevice(Settled)
    <3>1. Settled = ApplyAll(dev, Queue) /\ Queue \in Seq(Change)
      BY <1>8, QueueIs DEF QueueReads
    <3> QED BY <1>8, <3>1, QueueKeepsWhole
  <2>3. Settled' = ApplyAll(Settled, cs)
    BY <1>3, <1>5, <1>8, <1>11, RequestSettles
  <2> DEFINE d == Settled
  <2> HIDE DEF d
  <2>4. Agree(ApplyAll(d, cs), listed \cup {s, v, m}, disturbed)
    BY <1>3, <1>9, <2>1, <2>2 DEF d
  <2> QED BY <1>3, <1>8, <2>3, <2>4 DEF ObjectsOK, d
<1> QED BY <1>11, <1>12, <1>13, <1>14, <1>15, <1>16, <1>17 DEF DeviceInv

(* The plug-in's steps and HAL's.  A setter keeps what it found as long as *)
(* a change that needs a stream's mutex waits for it.                      *)
LEMMA SettersKept ==
    ASSUME SettersOK, UNCHANGED streamLock,
           \A t \in Thread : pc'[t].at = "stream" => pc'[t] = pc[t],
           \A p \in Setting : \A v : p[1] \in Stream /\ streamLock[p[1]] # Nothing
             /\ Accepted(dev.config, p, v) => Accepted(dev'.config, p, v)
    PROVE  SettersOK'
<1>1. ASSUME NEW t \in Thread, pc'[t].at = "stream"
      PROVE  /\ pc'[t] = pc[t] /\ ToBeSet(t) \in Told /\ pc[t].what[1] \in Stream
             /\ streamLock'[pc[t].what[1]] = t
             /\ Accepted(dev'.config, pc[t].what, pc[t].value)
  <2>1. /\ pc'[t] = pc[t] /\ ToBeSet(t) \in Told /\ pc[t].what[1] \in Stream
        /\ streamLock[pc[t].what[1]] = t
        /\ Accepted(dev.config, pc[t].what, pc[t].value)
    BY <1>1 DEF SettersOK
  <2>2. pc[t].what \in Setting
    BY <2>1 DEF Told, ToBeSet
  <2> QED BY <2>1, <2>2, ThreadAssumption
<1> QED BY <1>1 DEF SettersOK, ToBeSet

LEMMA OthersAsWere ==
    ASSUME DeviceInv, UNCHANGED <<listed, dev, pending, lastRequest, streamLock, asked, disturbed>>,
           host' \in BOOLEAN, attached' \in BOOLEAN, hal' \in Seq(Nat), DOMAIN pc' = DOMAIN pc,
           \A t \in Thread : pc'[t].at = "stream" => pc'[t] = pc[t],
           LocksOK', QueueOK'
    PROVE  DeviceInv'
<1>1. QueueTyped'
  BY DEF DeviceInv, QueueTyped
<1>2. SettersOK'
  BY SettersKept DEF DeviceInv
<1>3. Settled' = Settled /\ Queue' = Queue
  BY DEF Settled, Queue
<1>4. AskedOK'
  <2>1. \A p : AskedFor(p)' <=> AskedFor(p)
    BY DEF AskedFor
  <2> QED BY <2>1 DEF DeviceInv, AskedOK
<1>5. ListsOK' /\ ObjectsOK'
  BY <1>3 DEF DeviceInv, ListsOK, ObjectsOK
<1> QED BY <1>1, <1>2, <1>4, <1>5 DEF DeviceInv

LEMMA InitializeInv == ASSUME DeviceInv, Initialize PROVE DeviceInv'
<1>1. /\ host' = TRUE
      /\ UNCHANGED <<attached, listed, dev, pending, lastRequest, streamLock, devLock, pluginLock, pc,
                     hal, asked, disturbed>>
  BY DEF Initialize, locks, history
<1>2. hal \in Seq(Nat) /\ attached \in BOOLEAN
  BY DEF DeviceInv, QueueTyped
<1>3. LocksOK'
  BY <1>1 DEF DeviceInv, LocksOK, Found
<1>4. QueueOK'
  BY <1>1 DEF DeviceInv, QueueOK
<1> QED BY <1>1, <1>2, <1>3, <1>4, OthersAsWere

LEMMA AddDeviceInv == ASSUME DeviceInv, NEW t \in Thread, AddDevice(t) PROVE DeviceInv'
<1>1. /\ devLock = Nothing /\ ~attached /\ attached' = TRUE
      /\ UNCHANGED <<host, listed, dev, pending, lastRequest, streamLock, devLock, pluginLock, pc,
                     hal, asked, disturbed>>
  BY DEF AddDevice, Move, history
<1>2. hal \in Seq(Nat) /\ host \in BOOLEAN
  BY DEF DeviceInv, QueueTyped
<1>3. devLock \notin Thread /\ devLock # "hal"
  BY <1>1, ThreadAssumption
<1>4. LocksOK'
  BY <1>1, <1>3 DEF DeviceInv, LocksOK
<1>5. pending = <<>> /\ Len(pending) = 0 /\ Len(hal) \in Nat
  BY <1>1, <1>2, <1>3 DEF DeviceInv, QueueOK
<1>6. QueueOK'
  BY <1>1, <1>5 DEF DeviceInv, QueueOK
<1> QED BY <1>1, <1>2, <1>4, <1>6, OthersAsWere

LEMMA RemoveDeviceInv == ASSUME DeviceInv, NEW t \in Thread, RemoveDevice(t) PROVE DeviceInv'
<1>1. /\ devLock = Nothing /\ attached' = FALSE /\ pc[t] = [at |-> "idle"]
      /\ UNCHANGED <<host, listed, dev, pending, lastRequest, streamLock, hal, asked, disturbed>>
      /\ IF pending = <<>> THEN UNCHANGED <<devLock, pluginLock, pc>>
         ELSE /\ devLock' = t /\ pluginLock' = t
              /\ pc' = [pc EXCEPT ![t] = [at |-> "detach"]]
  BY DEF RemoveDevice, Move, history, Idle
<1>2. hal \in Seq(Nat) /\ host \in BOOLEAN /\ DOMAIN pc = Thread \cup {"hal"}
  BY DEF DeviceInv, QueueTyped
<1>3. devLock \notin Thread /\ devLock # "hal" /\ t # "hal" /\ t # Nothing
  BY <1>1, ThreadAssumption
<1>4. CASE pending = <<>>
  <2>1. LocksOK'
    BY <1>1, <1>3, <1>4 DEF DeviceInv, LocksOK
  <2>2. QueueOK'
    BY <1>1, <1>4 DEF DeviceInv, QueueOK
  <2> QED BY <1>1, <1>2, <1>4, <2>1, <2>2, OthersAsWere
<1>5. CASE pending # <<>>
  <2>1. /\ DOMAIN pc' = DOMAIN pc /\ pc'[t] = [at |-> "detach"]
        /\ \A u \in Thread \cup {"hal"} : u # t => pc'[u] = pc[u]
    BY <1>1, <1>2, <1>5
  <2>2. pc'[t].at = "detach"
    BY <2>1
  <2>3. \A u \in Thread : pc'[u].at = "stream" => pc'[u] = pc[u]
    BY <2>1, <2>2
  <2>4. LocksOK'
    BY <1>1, <1>3, <1>5, <2>1, <2>2 DEF DeviceInv, LocksOK
  <2>5. QueueOK'
    BY <1>1, <1>5 DEF DeviceInv, QueueOK
  <2> QED BY <1>1, <1>2, <2>1, <2>3, <2>4, <2>5, OthersAsWere
<1> QED BY <1>4, <1>5

LEMMA DetachInv == ASSUME DeviceInv, NEW t \in Thread, DetachApply(t) PROVE DeviceInv'
<1>1. /\ pc[t].at = "detach" /\ ApplyPending(Head(pending)) /\ pending' = Tail(pending)
      /\ DetachDone(t, pending')
      /\ UNCHANGED <<host, attached, listed, lastRequest, streamLock, hal>>
  BY DEF DetachApply
<1>2. /\ QueueTyped /\ QueueOK /\ LocksOK /\ SettersOK
      /\ hal \in Seq(Nat) /\ DOMAIN pc = Thread \cup {"hal"}
  BY DEF DeviceInv, QueueTyped
<1>3. /\ devLock = t /\ devLock \in Thread /\ t # "hal" /\ t # Nothing
      /\ ~attached /\ pluginLock = devLock /\ pending # <<>>
  BY <1>1, <1>2, ThreadAssumption DEF LocksOK
<1>4. ApplyPending(pending[1])
  BY <1>1, <1>2, <1>3, OldestGone
<1>5. /\ DOMAIN pc' = DOMAIN pc
      /\ \A u \in Thread \cup {"hal"} : u # t => pc'[u] = pc[u]
      /\ pc'[t].at \in {"idle", "detach"}
      /\ \/ pending' = <<>> /\ devLock' = Nothing /\ pluginLock' = Nothing /\ pc'[t].at = "idle"
         \/ pending' # <<>> /\ devLock' = devLock /\ pluginLock' = pluginLock /\ pc'[t].at = "detach"
  <2>1. CASE pending' = <<>>
    <3>1. /\ devLock' = Nothing /\ pluginLock' = Nothing
          /\ pc' = [pc EXCEPT ![t] = [at |-> "idle"]]
      BY <1>1, <2>1 DEF DetachDone
    <3>2. pc'[t] = [at |-> "idle"]
      BY <1>2, <3>1
    <3> QED BY <1>2, <2>1, <3>1, <3>2
  <2>2. CASE pending' # <<>>
    BY <1>1, <2>2 DEF DetachDone
  <2> QED BY <2>1, <2>2
<1>6. /\ QueueTyped' /\ AskedOK' /\ ListsOK' /\ ObjectsOK'
      /\ \A p \in Setting : \A v : p[1] \in Stream /\ streamLock[p[1]] # Nothing
           /\ Accepted(dev.config, p, v) => Accepted(dev'.config, p, v)
  BY <1>1, <1>2, <1>3, <1>4, <1>5, OldestPerformed
<1>7. QueueOK'
  <2>1. devLock' \notin Thread => pending' = <<>>
    BY <1>3, <1>5
  <2> QED BY <1>1, <1>2, <1>3, <2>1, OldestQueue
<1>8. LocksOK'
  BY <1>1, <1>2, <1>3, <1>5, ThreadAssumption DEF LocksOK
<1>9. SettersOK'
  <2>1. \A u \in Thread : pc'[u].at = "stream" => pc'[u] = pc[u]
    BY <1>5
  <2> QED BY <1>1, <1>2, <1>6, <2>1, SettersKept
<1> QED BY <1>6, <1>7, <1>8, <1>9 DEF DeviceInv

LEMMA IgnoreInv == ASSUME DeviceInv, IgnoreLate PROVE DeviceInv'
<1>1. /\ hal # <<>> /\ devLock = Nothing /\ Found(Head(hal)) = {} /\ hal' = Tail(hal)
      /\ UNCHANGED <<host, attached, listed, dev, pending, lastRequest, devLock, streamLock, pluginLock,
                     pc, asked, disturbed>>
  BY DEF IgnoreLate, locks, history
<1>2. /\ QueueTyped /\ QueueOK /\ LocksOK /\ hal \in Seq(Nat)
      /\ host \in BOOLEAN /\ attached \in BOOLEAN
  BY DEF DeviceInv, QueueTyped
<1>3. devLock \notin Thread /\ devLock # "hal"
  BY <1>1, ThreadAssumption
<1>4. attached => Len(pending) < Len(hal)
  BY <1>1, <1>2, <1>3, HalFinds
<1>5. QueueOK'
  BY <1>1, <1>2, <1>3, <1>4, OldestQueue
<1>6. LocksOK'
  BY <1>1, <1>2, <1>3 DEF LocksOK
<1>7. hal' \in Seq(Nat)
  BY <1>1, <1>2
<1> QED BY <1>1, <1>2, <1>5, <1>6, <1>7, OthersAsWere

LEMMA PerformBeginInv == ASSUME DeviceInv, PerformBegin PROVE DeviceInv'
<1>1. /\ hal # <<>> /\ devLock = Nothing /\ Found(Head(hal)) # {} /\ devLock' = "hal"
      /\ pc' = [pc EXCEPT !["hal"] = [at |-> "perform"]]
      /\ UNCHANGED <<host, attached, listed, dev, pending, lastRequest, streamLock, pluginLock, hal,
                     asked, disturbed>>
  BY DEF PerformBegin, history
<1>2. /\ QueueOK /\ LocksOK /\ hal \in Seq(Nat) /\ DOMAIN pc = Thread \cup {"hal"}
      /\ host \in BOOLEAN /\ attached \in BOOLEAN
  BY DEF DeviceInv, QueueTyped
<1>3. devLock \notin Thread /\ devLock # "hal" /\ "hal" \notin Thread
  BY <1>1, ThreadAssumption
<1>4. /\ DOMAIN pc' = DOMAIN pc /\ pc'["hal"] = [at |-> "perform"]
      /\ \A u \in Thread : pc'[u] = pc[u]
  BY <1>1, <1>2, <1>3
<1>5. pc'["hal"].at = "perform"
  BY <1>4
<1>6. LocksOK'
  <2>1. hal' # <<>> /\ Found(Head(hal))' # {}
    BY <1>1 DEF Found
  <2> QED BY <1>1, <1>2, <1>3, <1>4, <1>5, <2>1 DEF LocksOK
<1>7. QueueOK'
  BY <1>1, <1>2, <1>3 DEF QueueOK
<1> QED BY <1>1, <1>2, <1>4, <1>6, <1>7, OthersAsWere

LEMMA PerformEndInv == ASSUME DeviceInv, PerformEnd PROVE DeviceInv'
<1>1. /\ pc["hal"].at = "perform" /\ ApplyPending(pending[Place(Head(hal))])
      /\ pending' = Erased(Head(hal)) /\ hal' = Tail(hal) /\ devLock' = Nothing
      /\ pc' = [pc EXCEPT !["hal"] = [at |-> "idle"]]
      /\ UNCHANGED <<host, attached, listed, lastRequest, streamLock, pluginLock>>
  BY DEF PerformEnd
<1>2. /\ QueueTyped /\ QueueOK /\ LocksOK /\ SettersOK
      /\ hal \in Seq(Nat) /\ DOMAIN pc = Thread \cup {"hal"}
  BY DEF DeviceInv, QueueTyped
<1>3. devLock = "hal" /\ hal # <<>> /\ Found(Head(hal)) # {} /\ devLock \notin Thread
  BY <1>1, <1>2, ThreadAssumption DEF LocksOK
<1>4. attached /\ pending # <<>> /\ Len(pending) = Len(hal) /\ Place(Head(hal)) = 1
      /\ Erased(Head(hal)) = Tail(pending)
  BY <1>2, <1>3, HalFinds
<1>5. /\ DOMAIN pc' = DOMAIN pc /\ pc'["hal"] = [at |-> "idle"]
      /\ \A u \in Thread : pc'[u] = pc[u]
  BY <1>1, <1>2, ThreadAssumption
<1>6. pc'["hal"].at = "idle"
  BY <1>5
<1>7. hal' \in Seq(Nat)
  BY <1>1, <1>2, <1>3
<1>8. /\ QueueTyped' /\ AskedOK' /\ ListsOK' /\ ObjectsOK'
      /\ \A p \in Setting : \A v : p[1] \in Stream /\ streamLock[p[1]] # Nothing
           /\ Accepted(dev.config, p, v) => Accepted(dev'.config, p, v)
  BY <1>1, <1>4, <1>5, <1>7, OldestPerformed
<1>9. QueueOK'
  BY <1>1, <1>2, <1>3, <1>4, OldestQueue
<1>10. LocksOK'
  BY <1>1, <1>2, <1>3, <1>5, <1>6, ThreadAssumption DEF LocksOK
<1>11. SettersOK'
  BY <1>1, <1>2, <1>5, <1>8, SettersKept
<1> QED BY <1>8, <1>9, <1>10, <1>11 DEF DeviceInv

LEMMA AbortInv == ASSUME DeviceInv, AbortConfigurationChange PROVE DeviceInv'
<1>1. /\ hal # <<>> /\ devLock = Nothing
      /\ disturbed' = disturbed \cup UNION {Touches(pending[i].change) : i \in Found(Head(hal))}
      /\ pending' = Erased(Head(hal)) /\ hal' = Tail(hal)
      /\ UNCHANGED <<host, attached, listed, dev, lastRequest, devLock, streamLock, pluginLock, pc, asked>>
  BY DEF AbortConfigurationChange, locks
<1>2. /\ QueueTyped /\ QueueOK /\ LocksOK /\ SettersOK /\ hal \in Seq(Nat)
      /\ host \in BOOLEAN /\ attached \in BOOLEAN
  BY DEF DeviceInv, QueueTyped
<1>3. devLock \notin Thread /\ devLock # "hal"
  BY <1>1, ThreadAssumption
<1>4. hal' \in Seq(Nat)
  BY <1>1, <1>2
<1>5. LocksOK'
  BY <1>1, <1>2, <1>3 DEF LocksOK
<1>6. CASE Found(Head(hal)) = {}
  <2>1. pending' = pending /\ (attached => Len(pending) < Len(hal))
    BY <1>1, <1>2, <1>3, <1>6, HalFinds
  <2>2. disturbed' = disturbed
    BY <1>1, <1>6
  <2>3. QueueOK'
    BY <1>1, <1>2, <1>3, <2>1, OldestQueue
  <2> QED BY <1>1, <1>2, <1>4, <1>5, <2>1, <2>2, <2>3, OthersAsWere
<1>7. CASE Found(Head(hal)) # {}
  <2>1. /\ pending # <<>> /\ Len(pending) = Len(hal) /\ Found(Head(hal)) = {1}
        /\ pending' = Tail(pending)
    BY <1>1, <1>2, <1>3, <1>7, HalFinds
  <2>2. disturbed' = disturbed \cup Touches(pending[1].change)
    BY <1>1, <2>1
  <2>3. QueueOK'
    BY <1>1, <1>2, <1>3, <2>1, OldestQueue
  <2>4. QueueTyped' /\ AskedOK' /\ ListsOK' /\ ObjectsOK'
    BY <1>1, <1>4, <2>1, <2>2, OldestDropped
  <2>5. SettersOK'
    BY <1>1, <1>2 DEF SettersOK, ToBeSet
  <2> QED BY <1>5, <2>3, <2>4, <2>5 DEF DeviceInv
<1> QED BY <1>6, <1>7

LEMMA ForgetsInv == ASSUME DeviceInv, HalForgets PROVE DeviceInv'
<1>1. /\ pc["hal"] = [at |-> "idle"] /\ ~attached /\ hal' = <<>>
      /\ UNCHANGED <<host, attached, listed, dev, pending, lastRequest, devLock, streamLock, pluginLock,
                     pc, asked, disturbed>>
  BY DEF HalForgets, Idle, locks, history
<1>2. pc["hal"].at = "idle"
  BY <1>1
<1>3. /\ QueueOK /\ LocksOK /\ host \in BOOLEAN /\ attached \in BOOLEAN
      /\ hal' \in Seq(Nat) /\ Len(hal') = 0
  BY <1>1 DEF DeviceInv, QueueTyped
<1>4. LocksOK'
  BY <1>1, <1>2, <1>3 DEF LocksOK
<1>5. QueueOK'
  BY <1>1, <1>3 DEF QueueOK
<1> QED BY <1>1, <1>3, <1>4, <1>5, OthersAsWere

(* Every step.                                                             *)
LEMMA DeviceSteps == DeviceInv /\ [DeviceNext]_deviceVars => DeviceInv'
<1> SUFFICES ASSUME DeviceInv, [DeviceNext]_deviceVars PROVE DeviceInv'
  OBVIOUS
<1>1. CASE UNCHANGED deviceVars
  <2>1. UNCHANGED <<host, attached, listed, dev, pending, lastRequest, devLock, streamLock, pluginLock,
                    pc, hal, asked, disturbed>>
    BY <1>1 DEF deviceVars, locks, history
  <2>2. /\ LocksOK /\ QueueOK /\ host \in BOOLEAN /\ attached \in BOOLEAN /\ hal \in Seq(Nat)
    BY DEF DeviceInv, QueueTyped
  <2>3. LocksOK'
    <3>1. Found(Head(hal))' = Found(Head(hal))
      BY <2>1 DEF Found
    <3> QED BY <2>1, <2>2, <3>1 DEF LocksOK
  <2>4. QueueOK'
    BY <2>1, <2>2 DEF QueueOK
  <2> QED BY <2>1, <2>2, <2>3, <2>4, OthersAsWere
<1>2. ASSUME NEW t \in Thread, DeviceSetter(t) PROVE DeviceInv'
  <2>1. ASSUME NEW w, NEW v, <<Device, w>> \in Setting, SetAsync(t, <<Device, w>>, v) PROVE DeviceInv'
    <3> DEFINE p == <<Device, w>>
    <3>1. p[1] = Device
      OBVIOUS
    <3> HIDE DEF p
    <3>2. p \in Setting /\ SetAsync(t, p, v)
      BY <2>1 DEF p
    <3> QED BY <3>1, <3>2, SetInv
  <2>2. \A w \in {"latency", "safetyOffset", "zeroTimeStampPeriod", "nominalSampleRate",
                   "availableSampleRates", "stereoChannels", "channelCount", "channels",
                   "channelLayout"} : <<Device, w>> \in Setting
    BY DEF Setting
  <2> QED
    BY <1>2, <2>1, <2>2
       DEF DeviceSetter, SetLatencyAsync, SetSafetyOffsetAsync, SetZeroTimeStampPeriodAsync,
           SetNominalSampleRateAsync, SetAvailableSampleRatesAsync,
           SetPreferredChannelsForStereoAsync, SetPreferredChannelCountAsync,
           SetPreferredChannelsAsync, SetPreferredChannelLayoutAsync
<1>3. ASSUME NEW t \in Thread, NEW s \in Stream, StreamSetter(t, s) PROVE DeviceInv'
  <2>1. ASSUME NEW w, NEW v, <<s, w>> \in Setting, SetStreamAsync(t, <<s, w>>, v) PROVE DeviceInv'
    <3> DEFINE p == <<s, w>>
    <3>1. p[1] = s
      OBVIOUS
    <3> HIDE DEF p
    <3>2. p \in Setting /\ SetStreamAsync(t, p, v)
      BY <2>1 DEF p
    <3> QED BY <3>1, <3>2, StreamSetInv
  <2>2. \A w \in {"latency", "physicalFormat", "virtualFormat", "availablePhysicalFormats",
                   "availableVirtualFormats"} : <<s, w>> \in Setting
    BY DEF Setting
  <2> QED
    BY <1>3, <2>1, <2>2
       DEF StreamSetter, SetStreamLatencyAsync, SetPhysicalFormatAsync, SetVirtualFormatAsync,
           SetAvailablePhysicalFormatsAsync, SetAvailableVirtualFormatsAsync
<1>4. ASSUME NEW t \in Thread, RequestFromStream(t) PROVE DeviceInv'
  BY <1>4, FromStreamInv
<1>5. ASSUME NEW t \in Thread, NEW p \in Setting, NEW q \in Setting, NEW v \in Value(p),
             NEW w \in Value(q), RequestFunction(t, p, v, q, w)
      PROVE  DeviceInv'
  BY <1>5, FunctionInv
<1>6. ASSUME NEW t \in Thread,
             \/ AddStreamAsync(t) \/ AddVolumeControlAsync(t) \/ AddMuteControlAsync(t)
      PROVE  DeviceInv'
  <2>1. PICK o \in Object : AddObjects(t, <<o>>)
    BY <1>6 DEF AddStreamAsync, AddVolumeControlAsync, AddMuteControlAsync, Object
  <2> QED BY <2>1, AddOneInv
<1>7. ASSUME NEW t \in Thread,
             \/ RemoveStreamAsync(t) \/ RemoveVolumeControlAsync(t) \/ RemoveMuteControlAsync(t)
      PROVE  DeviceInv'
  <2>1. PICK o \in Object : RemoveObject(t, o)
    BY <1>7 DEF RemoveStreamAsync, RemoveVolumeControlAsync, RemoveMuteControlAsync, Object
  <2> QED BY <2>1, RemoveInv
<1>8. ASSUME NEW t \in Thread, AddStreamWithControlsAsync(t) PROVE DeviceInv'
  <2>1. PICK s \in Stream, v \in Volumes, m \in Mutes : AddObjects(t, <<s, v, m>>)
    BY <1>8 DEF AddStreamWithControlsAsync
  <2> QED BY <2>1, AddThreeInv
<1>9. ASSUME NEW t \in Thread, AddDevice(t) \/ RemoveDevice(t) \/ DetachApply(t) PROVE DeviceInv'
  BY <1>9, AddDeviceInv, RemoveDeviceInv, DetachInv
<1>10. ASSUME IgnoreLate \/ PerformBegin \/ PerformEnd \/ AbortConfigurationChange \/ HalForgets
              \/ Initialize
       PROVE  DeviceInv'
  BY <1>10, IgnoreInv, PerformBeginInv, PerformEndInv, AbortInv, ForgetsInv, InitializeInv
<1> QED BY <1>1, <1>2, <1>3, <1>4, <1>5, <1>6, <1>7, <1>8, <1>9, <1>10 DEF DeviceNext

(* The queue of a device: it is in the order HAL was asked in, it is empty *)
(* when nobody will work it off, who works it off holds the device's mutex *)
(* throughout, and what it comes to is what the driver was told.           *)
THEOREM QueueInvariant == DeviceSpec => []DeviceInv
BY DeviceStarts, DeviceSteps, PTL DEF DeviceSpec

(* Once the queue is worked off the objects the device owns are those in   *)
(* its lists, and the counters count its streams, but for what HAL         *)
(* aborted; whatever was added, removed, detached, ignored or performed in *)
(* between.                                                                *)
THEOREM ChangesAlwaysSettle == DeviceSpec => []ChangesSettle
<1>1. DeviceInv => ChangesSettle
  BY DEF DeviceInv, ObjectsOK, Agree, ChangesSettle
<1> QED BY <1>1, QueueInvariant, PTL

(* The last request for a setting decides what the queue comes to.         *)
LEMMA LastIsAsked ==
    ASSUME DeviceInv, NEW p \in Setting, p \notin Descriptions, p \notin InFunctions, p \notin disturbed
    PROVE  Settled.config[p] = asked[p]
<1>1. QueueTyped /\ WholeDevice(dev) /\ AskedFor(p) /\ NeverSet(dev, Queue, p)
  BY DEF DeviceInv, QueueTyped, AskedOK, ListsOK
<1>2. /\ Queue \in Seq(Change) /\ Len(Queue) = Len(pending) /\ Settled = ApplyAll(dev, Queue)
      /\ \A i \in 1 .. Len(pending) : Queue[i] = pending[i].change /\ pending[i].change \in Change
      /\ pending \in Seq(Request) /\ Len(pending) \in Nat
  BY <1>1, QueueIs DEF QueueReads, QueueTyped
<1>3. ASSUME NEW i \in 1 .. Len(pending), p \in Touches(pending[i].change)
      PROVE  pending[i].change.kind = "set"
  <2>1. pending[i].change.kind # "function"
    <3>1. ASSUME pending[i].change.kind = "function" PROVE FALSE
      <4>1. pending[i] \in {q \in ToSet(pending) : q.change.kind = "function"}
        BY <1>2, <3>1 DEF ToSet
      <4>2. p \in InFunctions
        BY <1>3, <4>1 DEF InFunctions
      <4> QED BY <4>2
    <3> QED BY <3>1
  <2> QED BY <1>2, <1>3, <2>1, KindsOfChange, Names
<1> DEFINE T == {i \in 1 .. Len(pending) : p \in Touches(pending[i].change)}
<1>4. CASE T = {}
  <2>1. \A i \in 1 .. Len(pending) : p \notin Touches(pending[i].change)
    BY <1>4
  <2>2. asked[p] = dev.config[p]
    BY <1>1, <2>1 DEF AskedFor
  <2>3. ApplyAll(dev, Queue).config[p] = dev.config[p]
    BY <1>1, <1>2, <2>1, QueueSets
  <2> QED BY <1>2, <2>2, <2>3
<1>5. CASE T # {}
  <2>1. PICK i \in T : \A j \in T : j <= i
    <3> DEFINE N == {Len(pending) - j : j \in T}
    <3>1. N \in SUBSET Nat /\ N # {}
      BY <1>2, <1>5
    <3> HIDE DEF N
    <3>2. PICK n \in N : \A m \in N : n <= m
      BY <3>1, LeastOf
    <3>3. PICK i \in T : n = Len(pending) - i
      BY DEF N
    <3>4. ASSUME NEW j \in T PROVE j <= i
      <4>1. Len(pending) - j \in N
        BY DEF N
      <4>2. n <= Len(pending) - j
        BY <3>2, <4>1
      <4>3. i \in Int /\ j \in Int
        OBVIOUS
      <4> QED BY <1>2, <3>3, <4>2, <4>3
    <3> QED BY <3>4
  <2>2. /\ i \in 1 .. Len(pending) /\ p \in Touches(pending[i].change)
        /\ \A j \in 1 .. Len(pending) : i < j => p \notin Touches(pending[j].change)
    BY <1>2, <2>1
  <2> HIDE DEF T
  <2>3. asked[p] = pending[i].change.value
    BY <1>1, <1>3, <2>2 DEF AskedFor
  <2>4. ApplyAll(dev, Queue).config[p] = Queue[i].value
    BY <1>1, <1>2, <1>3, <2>2, QueueSets
  <2> QED BY <1>2, <2>2, <2>3, <2>4
<1> QED BY <1>4, <1>5

(* Once the queue is worked off every setting has the value accepted last: *)
(* a setter looks at what is in force and not at what is queued, and the   *)
(* queued setter, which looks again, is never in the way of the last one.  *)
THEOREM LastAcceptedAlwaysWins == DeviceSpec => []LastAcceptedWins
<1>1. DeviceInv => LastAcceptedWins
  BY LastIsAsked DEF LastAcceptedWins
<1> QED BY <1>1, QueueInvariant, PTL

(* While HAL uses the device its configuration changes in HAL's own call   *)
(* and at no other time: neither a call of the driver nor the thread that  *)
(* works off the queue on the device's way out changes anything then.      *)
THEOREM ConfigurationIsHals == DeviceSpec => ChangedOnlyWhenSafe
<1>1. DeviceInv /\ [DeviceNext]_deviceVars
      => ((dev' # dev /\ Queued) => pc["hal"].at = "perform" /\ pc'["hal"].at = "idle")
  <2> SUFFICES ASSUME DeviceInv, [DeviceNext]_deviceVars, dev' # dev, Queued
               PROVE  pc["hal"].at = "perform" /\ pc'["hal"].at = "idle"
    OBVIOUS
  <2>1. \A cs : ~RequestConfigurationChange(cs)
    BY DEF RequestConfigurationChange
  <2>2. ASSUME NEW t \in Thread
        PROVE  /\ ~DeviceSetter(t)
               /\ \A s \in Stream : ~StreamSetter(t, s)
               /\ ~RequestFromStream(t)
               /\ ~\E p, q \in play \cap Setting : \E v \in Value(p), w \in Value(q) :
                     RequestFunction(t, p, v, q, w)
               /\ \A os : ~AddObjects(t, os)
               /\ \A o : ~RemoveObject(t, o)
               /\ ~AddDevice(t) /\ ~RemoveDevice(t)
    <3>1. \A p, v : ~SetAsync(t, p, v) /\ ~SetStreamAsync(t, p, v)
      BY <2>1 DEF SetAsync, SetStreamAsync
    <3>2. ~DeviceSetter(t)
      BY <3>1 DEF DeviceSetter, SetLatencyAsync, SetSafetyOffsetAsync, SetZeroTimeStampPeriodAsync,
                  SetNominalSampleRateAsync, SetAvailableSampleRatesAsync,
                  SetPreferredChannelsForStereoAsync, SetPreferredChannelCountAsync,
                  SetPreferredChannelsAsync, SetPreferredChannelLayoutAsync
    <3>3. \A s \in Stream : ~StreamSetter(t, s)
      BY <3>1 DEF StreamSetter, SetStreamLatencyAsync, SetPhysicalFormatAsync,
                  SetVirtualFormatAsync, SetAvailablePhysicalFormatsAsync,
                  SetAvailableVirtualFormatsAsync
    <3>4. /\ ~RequestFromStream(t)
          /\ \A p, q, v, w : ~RequestFunction(t, p, v, q, w)
          /\ \A os : ~AddObjects(t, os)
          /\ \A o : ~RemoveObject(t, o)
      BY <2>1 DEF RequestFromStream, RequestFunction, AddObjects, RemoveObject
    <3>5. ~AddDevice(t) /\ ~RemoveDevice(t)
      BY DEF AddDevice, RemoveDevice, Move
    <3> QED BY <3>2, <3>3, <3>4, <3>5
  <2>3. \A t \in Thread : ~DetachApply(t)
    <3>1. \A t \in Thread : pc[t].at = "detach" => ~attached
      BY DEF DeviceInv, LocksOK
    <3> QED BY <3>1 DEF DetachApply, Queued
  <2>4. ~Initialize /\ ~IgnoreLate /\ ~PerformBegin /\ ~AbortConfigurationChange /\ ~HalForgets
        /\ ~UNCHANGED deviceVars
    BY DEF Initialize, IgnoreLate, PerformBegin, AbortConfigurationChange, HalForgets, deviceVars
  <2>5. PerformEnd
    BY <2>2, <2>3, <2>4 DEF DeviceNext, AddStreamAsync, RemoveStreamAsync, AddVolumeControlAsync,
       RemoveVolumeControlAsync, AddMuteControlAsync, RemoveMuteControlAsync,
       AddStreamWithControlsAsync
  <2> QED BY <2>5 DEF PerformEnd, DeviceInv, QueueTyped
<1> QED BY <1>1, QueueInvariant, PTL DEF DeviceSpec, ChangedOnlyWhenSafe
=============================================================================
