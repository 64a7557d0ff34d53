---------------------------- MODULE AsplRegistry ----------------------------
(***************************************************************************)
(* The registry of libASPL's objects (Dispatcher.cpp).  An object enters   *)
(* itself in its constructor, before a shared_ptr to it exists, and leaves *)
(* in its destructor, when none exists any more; HAL's threads look it up  *)
(* by number meanwhile, without waiting, and keep it alive for the length  *)
(* of a call.  Numbers are reused.                                         *)
(*                                                                         *)
(* The map from numbers to registrations is a double buffer whose gets and *)
(* sets are atomic (module DoubleBuffer): a reader keeps the map it began  *)
(* with, and a set returns when nobody reads the old map any more.         *)
(***************************************************************************)
EXTENDS Integers, FiniteSets, FiniteSetsExt

CONSTANTS
    Obj,           \* objects: a place in memory that lives at most once
    PlugIn,        \* the one that asks for a number of its own
    Caller,        \* HAL's threads
    Driver,        \* the driver's thread, and its handle to an object
    None,
    BitsPerChunk,  \* 64
    HintMaximum    \* the hint to the dispatcher's constructor, 1000

Unknown == 0            \* kAudioObjectUnknown
PlugInID == 1           \* kAudioObjectPlugInObject
Reserved == {Unknown, PlugInID}
Thread == Caller \cup {Driver}

ASSUME RegistryAssumption ==
    /\ PlugIn \in Obj /\ Driver \notin Caller /\ None \notin Obj \cup Thread
    /\ BitsPerChunk \in Nat \ {0} /\ HintMaximum \in Nat

VARIABLES
    life,        \* unborn, constructed, alive, dying, gone
    id,          \* objectID_
    map,         \* registeredObjects_, the current one
    points,      \* objects whose registration still points to them
    alloc,       \* allocatedBits_ with its chunks, and the allocator's numbers
    regLock,     \* registrationMutex_
    oldReaders,  \* who reads a map that is being replaced
    refs,        \* who holds a shared_ptr to an object
    pc           \* per thread

registryVars == <<life, id, map, points, alloc, regLock, oldReaders, refs, pc>>

Idle == [at |-> "idle", id |-> Unknown, obj |-> None]

RegistryInit ==
    /\ life = [o \in Obj |-> "unborn"]
    /\ id = [o \in Obj |-> Unknown]
    /\ map = [i \in {} |-> None]
    /\ points = {}
    /\ alloc = [bits |-> {}, chunks |-> 0, count |-> 0, last |-> 0, maximum |-> HintMaximum]
    /\ regLock = None
    /\ oldReaders = {}
    /\ refs = [o \in Obj |-> {}]
    /\ pc = [t \in Thread |-> Idle]

-----------------------------------------------------------------------------
(* The allocator of numbers.                                               *)
IsFree(a, i) == i \notin Reserved \cup a.bits

ChunksFor(a, i) == IF i \div BitsPerChunk < a.chunks THEN a.chunks ELSE i \div BitsPerChunk + 1

SetFree(a, i, free) ==
    [a EXCEPT !.bits = IF free THEN @ \ {i} ELSE @ \cup {i}, !.chunks = ChunksFor(a, i)]

(* Chunk after chunk from the one of start, round to it again; past the    *)
(* last chunk when all of them are full.                                   *)
\* Mutant: the last round, which looks at the beginning of the first chunk, and what is reserved are forgotten.
FindFreeIDNoReserved(a, start) ==
    LET inChunk(n) ==
          LET k == (start \div BitsPerChunk + n) % a.chunks
          IN  {i \in k * BitsPerChunk .. (k + 1) * BitsPerChunk - 1 :
                 i \notin a.bits /\ (n = 0 => i >= start)}
        rounds == IF a.chunks = 0 THEN {} ELSE {n \in 0 .. a.chunks : inChunk(n) # {}}
    IN  IF rounds # {} THEN Min(inChunk(Min(rounds))) ELSE a.chunks * BitsPerChunk
FindFreeID(a, start) ==
    LET inChunk(n) ==
          LET k == (start \div BitsPerChunk + n) % a.chunks
          IN  {i \in k * BitsPerChunk .. (k + 1) * BitsPerChunk - 1 :
                 IsFree(a, i) /\ (n = 0 => i >= start)}
        rounds == IF a.chunks = 0 THEN {} ELSE {n \in 0 .. a.chunks : inChunk(n) # {}}
        after == a.chunks * BitsPerChunk
    IN  IF rounds # {} THEN Min(inChunk(Min(rounds)))
        ELSE Min({i \in after .. after + 2 : i \notin Reserved})

(* Sequential numbers up to a maximum that doubles when half of it is in   *)
(* use; at the maximum the search begins from zero.                        *)
AllocateID(a) ==
    LET next == a.last + 1
        maximum == IF next >= a.maximum /\ a.count > a.maximum \div 2
                   THEN a.maximum * 2 ELSE a.maximum
        chosen == IF next >= maximum THEN FindFreeID(a, 0)
                  ELSE IF IsFree(a, next) THEN next
                  ELSE FindFreeID(a, next + 1)
    IN  [SetFree(a, chosen, FALSE) EXCEPT !.count = @ + 1, !.last = chosen, !.maximum = maximum]

FreeID(a, i) == [SetFree(a, i, TRUE) EXCEPT !.count = @ - 1]

-----------------------------------------------------------------------------
At(t, place) == pc[t].at = place
Goto(t, place) == pc' = [pc EXCEPT ![t].at = place]

(* Readers of the current map; the ones a set has to wait for.             *)
Reading == {c \in Caller : pc[c].at \in {"found", "locked", "loaded"}}

-----------------------------------------------------------------------------
(* Object's constructor: RegisterObject, up to the switch to the new map.  *)
RegisterObject(o) ==
    /\ At(Driver, "idle") /\ life[o] = "unborn" /\ regLock = None
    /\ LET chosen == IF o = PlugIn THEN PlugInID ELSE AllocateID(alloc).last
           free == chosen \notin DOMAIN map
       IN  /\ alloc' = IF o = PlugIn THEN alloc ELSE AllocateID(alloc)
           /\ id' = [id EXCEPT ![o] = IF free THEN chosen ELSE Unknown]
           /\ map' = IF free
                     THEN [i \in DOMAIN map \cup {chosen} |-> IF i = chosen THEN o ELSE map[i]]
                     ELSE map
           /\ points' = IF free THEN points \cup {o} ELSE points
           /\ oldReaders' = IF free THEN Reading ELSE {}
    /\ life' = [life EXCEPT ![o] = "constructed"]
    /\ regLock' = Driver
    /\ pc' = [pc EXCEPT ![Driver] = [at |-> "register", id |-> id'[o], obj |-> o]]
    /\ UNCHANGED refs

(* ... and its return, when nobody reads the old map.                      *)
RegisterReturns ==
    /\ At(Driver, "register") /\ oldReaders = {}
    /\ regLock' = None
    /\ Goto(Driver, "construct")
    /\ UNCHANGED <<life, id, map, points, alloc, oldReaders, refs>>

(* The rest of the constructors, and the first shared_ptr.                 *)
Constructed ==
    /\ At(Driver, "construct")
    /\ life' = [life EXCEPT ![pc[Driver].obj] = "alive"]
    /\ refs' = [refs EXCEPT ![pc[Driver].obj] = {Driver}]
    /\ pc' = [pc EXCEPT ![Driver] = Idle]
    /\ UNCHANGED <<id, map, points, alloc, regLock, oldReaders>>

(* A thread gives its shared_ptr back; the last one runs the destructors.  *)
Unref(t, o) ==
    /\ refs' = [refs EXCEPT ![o] = @ \ {t}]
    /\ IF refs[o] = {t}
       THEN /\ life' = [life EXCEPT ![o] = "dying"]
            /\ pc' = [pc EXCEPT ![t] = [at |-> "destroy", id |-> id[o], obj |-> o]]
       ELSE /\ pc' = [pc EXCEPT ![t] = Idle]
            /\ UNCHANGED life
    /\ UNCHANGED <<id, map, points, alloc, regLock, oldReaders>>

DropObject(o) == At(Driver, "idle") /\ Driver \in refs[o] /\ Unref(Driver, o)

(* Object's destructor: UnregisterObject.                                  *)
StoreNull(t) ==
    /\ At(t, "destroy") /\ regLock = None
    /\ IF pc[t].id = Unknown
       THEN /\ life' = [life EXCEPT ![pc[t].obj] = "gone"]
            /\ pc' = [pc EXCEPT ![t] = Idle]
            /\ UNCHANGED <<points, regLock>>
       ELSE /\ points' = points \ {pc[t].obj}
            /\ regLock' = t
            /\ Goto(t, "erase")
            /\ UNCHANGED life
    /\ UNCHANGED <<id, map, alloc, oldReaders, refs>>

EraseFromMap(t) ==
    /\ At(t, "erase")
    /\ map' = [i \in DOMAIN map \ {pc[t].id} |-> map[i]]
    /\ oldReaders' = Reading
    /\ Goto(t, "wait")
    /\ UNCHANGED <<life, id, points, alloc, regLock, refs>>

(* The set returns when the old map is not read any more, the registration *)
(* is locked when no look-up holds it; then the number is free and the     *)
(* memory goes.                                                            *)
\* Mutant: it does not wait for the look-ups.
UnregisterReturnsAtOnce(t) ==
    /\ At(t, "wait")
    /\ alloc' = FreeID(alloc, pc[t].id)
    /\ life' = [life EXCEPT ![pc[t].obj] = "gone"]
    /\ regLock' = None /\ oldReaders' = {}
    /\ pc' = [pc EXCEPT ![t] = Idle]
    /\ UNCHANGED <<id, map, points, refs>>
UnregisterReturns(t) ==
    /\ At(t, "wait") /\ oldReaders = {}
    /\ \A c \in Caller : pc[c].obj = pc[t].obj => pc[c].at \notin {"locked", "loaded"}
    /\ alloc' = FreeID(alloc, pc[t].id)
    /\ life' = [life EXCEPT ![pc[t].obj] = "gone"]
    /\ regLock' = None
    /\ pc' = [pc EXCEPT ![t] = Idle]
    /\ UNCHANGED <<id, map, points, oldReaders, refs>>

-----------------------------------------------------------------------------
(* FindObject, for a thread of HAL's.                                      *)
NotFound(c) ==
    /\ pc' = [pc EXCEPT ![c] = [Idle EXCEPT !.at = "none"]]
    /\ oldReaders' = oldReaders \ {c}

Lookup(c, i) ==
    /\ At(c, "idle")
    /\ IF i \in DOMAIN map
       THEN /\ pc' = [pc EXCEPT ![c] = [at |-> "found", id |-> i, obj |-> map[i]]]
            /\ UNCHANGED oldReaders
       ELSE NotFound(c)
    /\ UNCHANGED <<life, id, map, points, alloc, regLock, refs>>

(* A shared lock is refused to a reader that comes while the registration  *)
(* is locked or about to be.                                               *)
TryLock(c) ==
    /\ At(c, "found")
    /\ \/ Goto(c, "locked") /\ UNCHANGED oldReaders
       \/ /\ \E t \in Thread : At(t, "wait") /\ pc[t].obj = pc[c].obj
          /\ NotFound(c)
    /\ UNCHANGED <<life, id, map, points, alloc, regLock, refs>>

LoadObject(c) ==
    /\ At(c, "locked")
    /\ IF pc[c].obj \in points THEN Goto(c, "loaded") /\ UNCHANGED oldReaders ELSE NotFound(c)
    /\ UNCHANGED <<life, id, map, points, alloc, regLock, refs>>

(* shared_from_this: bad_weak_ptr before the first and after the last      *)
(* shared_ptr.  Both locks end with the look-up.                           *)
ShareObject(c) ==
    /\ At(c, "loaded")
    /\ IF life[pc[c].obj] = "alive"
       THEN /\ refs' = [refs EXCEPT ![pc[c].obj] = @ \cup {c}]
            /\ Goto(c, "holds")
            /\ oldReaders' = oldReaders \ {c}
       ELSE NotFound(c) /\ UNCHANGED refs
    /\ UNCHANGED <<life, id, map, points, alloc, regLock>>

-----------------------------------------------------------------------------
(* "It's guaranteed that after this method returns, the registered object  *)
(* is not accessed by dispatcher anymore and can be destroyed"             *)
(* (Dispatcher.hpp, lines 59-61): a look-up that has the raw pointer in    *)
(* hand never finds freed memory behind it, and a call works on an object  *)
(* that lives, whoever drops his reference meanwhile.                      *)
NoDanglingObject ==
    \A c \in Caller :
        /\ At(c, "loaded") => life[pc[c].obj] # "gone"
        /\ At(c, "holds") => life[pc[c].obj] = "alive"

(* Every living object has a number of its own and is found under it,      *)
(* across growth of the number space, reuse and the one object that brings *)
(* its number along; what the allocator counts is what is in use.          *)
EveryObjectIsFound ==
    /\ \A o \in Obj : life[o] = "alive" =>
         id[o] # Unknown /\ id[o] \in DOMAIN map /\ map[id[o]] = o /\ o \in points
    /\ regLock = None /\ life[PlugIn] # "gone" =>
         /\ alloc.bits = {id[o] : o \in {x \in Obj \ {PlugIn} : life[x] \notin {"unborn", "gone"}}}
         /\ alloc.count = Cardinality(alloc.bits)
=============================================================================
