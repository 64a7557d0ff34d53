-------------------------- MODULE AsplBridgeProofs --------------------------
(***************************************************************************)
(* For any objects, threads of HAL's, size of the allocator's chunks and   *)
(* first maximum of its numbers: whoever drops his reference, a look-up    *)
(* never has freed memory in hand, and every living object is found under  *)
(* a number of its own.  For any properties and lists: what HAL was told   *)
(* about a property in one call holds in the next.                         *)
(*                                                                         *)
(* The first two follow from RegistryInv.  A thread is somewhere in an     *)
(* operation on one object (ThreadsOK), and with it the object in its life *)
(* (LifeOK); numbers in use are distinct, and exactly those the allocator  *)
(* has given out (NumbersOK); an object is in the map until its destructor *)
(* erases it (MapOK); and who reads an object that is in the map no more   *)
(* is one of those the erasure waits for (ReadersOK).                      *)
(*                                                                         *)
(* The third follows from TalkInv - the answers of a talk are still those  *)
(* the object would give, unless the talk knows that it was disturbed -    *)
(* and from HandlersAgree: of every class and selector the five handlers   *)
(* say the same.                                                           *)
(***************************************************************************)
EXTENDS AsplBridge, FiniteSetTheorems, TLAPS

Destroying == {"destroy", "erase", "wait"}
Looking == {"found", "locked", "loaded"}
Place == {"idle", "none", "holds", "register", "construct"} \cup Looking \cup Destroying

(* The allocator's state; its chunks have room for every number in use.    *)
Alloc == [bits : SUBSET Nat, chunks : Nat, count : Int, last : Nat, maximum : Nat]
Covered(a) == \A i \in a.bits : i < a.chunks * BitsPerChunk

RegistryTypeOK ==
    /\ life \in [Obj -> {"unborn", "constructed", "alive", "dying", "gone"}]
    /\ id \in [Obj -> Nat]
    /\ DOMAIN map \subseteq Nat
    /\ \A i \in DOMAIN map : map[i] \in Obj
    /\ points \subseteq Obj
    /\ alloc \in Alloc
    /\ regLock \in Thread \cup {None}
    /\ oldReaders \subseteq Caller
    /\ refs \in [Obj -> SUBSET Thread]
    /\ pc \in [Thread -> [at : Place, id : Nat, obj : Obj \cup {None}]]

(* HAL's threads look up, the driver's makes objects, any of them may be   *)
(* the one that destroys; an operation that changes the map has the lock.  *)
ThreadsOK ==
    /\ \A t \in Thread :
         /\ pc[t].at \notin {"idle", "none"} => pc[t].obj \in Obj /\ pc[t].id = id[pc[t].obj]
         /\ pc[t].at \in {"register", "erase", "wait"} <=> regLock = t
    /\ \A c \in Caller : pc[c].at \notin {"register", "construct"}
    /\ pc[Driver].at \notin {"holds", "none"} \cup Looking

(* An object is what the threads have made of it, and is destroyed once.   *)
LifeOK ==
    /\ \A o \in Obj :
         /\ life[o] = "unborn" => id[o] = Unknown
         /\ life[o] = "constructed" <=> pc[Driver].at \in {"register", "construct"} /\ pc[Driver].obj = o
         /\ life[o] = "alive" <=> refs[o] # {}
         /\ \A c \in Caller : c \in refs[o] <=> pc[c].at = "holds" /\ pc[c].obj = o
    /\ \A t \in Thread : pc[t].at \in Destroying => life[pc[t].obj] = "dying"
    /\ \A t, u \in Thread :
         pc[t].at \in Destroying /\ pc[u].at \in Destroying /\ pc[t].obj = pc[u].obj => t = u

Living(o) == life[o] \notin {"unborn", "gone"}
InUse == {x \in Obj \ {PlugIn} : Living(x)}

NumbersOK ==
    /\ \A o \in Obj : Living(o) => (id[o] = PlugInID <=> o = PlugIn)
    /\ alloc.bits = {id[o] : o \in InUse}
    /\ \A o, p \in InUse : id[o] = id[p] => o = p
    /\ alloc.bits \cap Reserved = {}
    /\ Covered(alloc)
    /\ IsFiniteSet(alloc.bits)
    /\ life[PlugIn] # "gone" => alloc.count = Cardinality(alloc.bits)

InMap(o) == id[o] \in DOMAIN map /\ map[id[o]] = o

MapOK ==
    /\ \A i \in DOMAIN map : Living(map[i]) /\ id[map[i]] = i
    /\ \A o \in points : Living(o)
    /\ \A o \in Obj : life[o] \in {"constructed", "alive"} => InMap(o) /\ o \in points
    /\ \A t \in Thread :
         /\ pc[t].at \in {"destroy", "erase"} => InMap(pc[t].obj)
         /\ pc[t].at = "wait" => pc[t].id \notin DOMAIN map
         /\ pc[t].at \in Destroying => (pc[t].obj \in points <=> pc[t].at = "destroy")

ReadersOK ==
    \A c \in Caller : pc[c].at \in Looking =>
        Living(pc[c].obj) /\ (InMap(pc[c].obj) \/ c \in oldReaders)

RegistryInv ==
    RegistryTypeOK /\ ThreadsOK /\ LifeOK /\ NumbersOK /\ MapOK /\ ReadersOK

-----------------------------------------------------------------------------
(* The allocator.                                                          *)

(* The least element of a set of numbers is one of them.                   *)
LEMMA MinIsMember == ASSUME NEW S \in SUBSET Nat, S # {} PROVE Min(S) \in S
<1> DEFINE R == {ss \in Nat \X Nat : ss[1] < ss[2]}
<1>1. IsWellFoundedOn(R, Nat)
    BY NatLessThanWellFounded DEF OpToRel
<1>2. PICK x \in S : \A y \in S : ~(<<y, x>> \in R)
  <2> HIDE DEF R
  <2> QED
    BY <1>1, WFMin
<1>3. \A y \in S : x <= y
  <2> SUFFICES ASSUME NEW y \in S, y < x PROVE FALSE
    OBVIOUS
  <2>1. <<y, x>> \in R
    OBVIOUS
  <2> QED
    BY <1>2, <2>1
<1> QED
    BY <1>3 DEF Min

(* More chunks have room for more numbers.                                 *)
LEMMA ChunksGrow == ASSUME NEW m \in Nat, NEW n \in Nat, m <= n
                    PROVE m * BitsPerChunk <= n * BitsPerChunk
<1>1. BitsPerChunk \in Nat
    BY RegistryAssumption
<1>2. (n - m) * BitsPerChunk >= 0 /\ n * BitsPerChunk = m * BitsPerChunk + (n - m) * BitsPerChunk
    BY <1>1, SMT
<1> QED
    BY <1>1, <1>2

(* The chunk of a number that is set or cleared is one the bits cover.     *)
LEMMA ChunksCover == ASSUME NEW a \in Alloc, NEW i \in Nat
                     PROVE /\ ChunksFor(a, i) \in Nat /\ a.chunks <= ChunksFor(a, i)
                           /\ i < ChunksFor(a, i) * BitsPerChunk
<1>1. BitsPerChunk \in Nat \ {0}
    BY RegistryAssumption
<1> DEFINE q == i \div BitsPerChunk
<1>2. q \in Nat /\ i < (q + 1) * BitsPerChunk
  <2>1. q \in Nat /\ i % BitsPerChunk < BitsPerChunk /\ i = (BitsPerChunk * q) + (i % BitsPerChunk)
    BY <1>1, SMT
  <2> QED
    BY <1>1, <2>1, SMT
<1>3. ChunksFor(a, i) \in Nat /\ a.chunks <= ChunksFor(a, i) /\ q + 1 <= ChunksFor(a, i)
    BY <1>2 DEF ChunksFor, Alloc
<1> HIDE DEF q
<1>4. (q + 1) * BitsPerChunk <= ChunksFor(a, i) * BitsPerChunk
    BY <1>2, <1>3, ChunksGrow
<1>5. (q + 1) * BitsPerChunk \in Int /\ ChunksFor(a, i) * BitsPerChunk \in Int
    BY <1>1, <1>2, <1>3
<1> QED
    BY <1>2, <1>3, <1>4, <1>5

LEMMA CoveredStays == ASSUME NEW a \in Alloc, NEW i \in Nat, Covered(a), NEW free \in BOOLEAN
                      PROVE SetFree(a, i, free) \in Alloc /\ Covered(SetFree(a, i, free))
<1>1. BitsPerChunk \in Nat
    BY RegistryAssumption
<1>2. a.chunks * BitsPerChunk <= ChunksFor(a, i) * BitsPerChunk
    BY ChunksCover, ChunksGrow DEF Alloc
<1>3. SetFree(a, i, free).bits \subseteq a.bits \cup {i} /\ SetFree(a, i, free).chunks = ChunksFor(a, i)
    BY DEF SetFree, Alloc
<1>4. \A j \in a.bits \cup {i} : j < ChunksFor(a, i) * BitsPerChunk
  <2>1. a.bits \subseteq Nat /\ a.chunks * BitsPerChunk \in Int /\ ChunksFor(a, i) * BitsPerChunk \in Int
    BY <1>1, ChunksCover DEF Alloc
  <2> QED
    BY <1>2, <2>1, ChunksCover DEF Covered
<1>5. SetFree(a, i, free) \in Alloc
    BY ChunksCover DEF SetFree, Alloc
<1> QED
    BY <1>3, <1>4, <1>5 DEF Covered

(* The search finds a number that is free, in the chunks there are or      *)
(* behind the last of them.                                                *)
LEMMA FoundIsFree == ASSUME NEW a \in Alloc, Covered(a), NEW start \in Nat
                     PROVE FindFreeID(a, start) \in Nat /\ IsFree(a, FindFreeID(a, start))
<1> DEFINE inChunk(n) ==
             LET k == (start \div BitsPerChunk + n) % a.chunks
             IN  {i \in k * BitsPerChunk .. (k + 1) * BitsPerChunk - 1 :
                    IsFree(a, i) /\ (n = 0 => i >= start)}
           rounds == IF a.chunks = 0 THEN {} ELSE {n \in 0 .. a.chunks : inChunk(n) # {}}
           after == a.chunks * BitsPerChunk
           behind == {i \in after .. after + 2 : i \notin Reserved}
<1>1. FindFreeID(a, start) = IF rounds # {} THEN Min(inChunk(Min(rounds))) ELSE Min(behind)
    BY DEF FindFreeID
<1>2. BitsPerChunk \in Nat \ {0} /\ a.chunks \in Nat /\ start \div BitsPerChunk \in Nat
    BY RegistryAssumption, SMT DEF Alloc
<1>3. CASE rounds # {}
  <2>1. Min(rounds) \in rounds
    BY <1>2, <1>3, MinIsMember
  <2>2. PICK n \in 0 .. a.chunks : n = Min(rounds) /\ inChunk(n) # {} /\ a.chunks # 0
    BY <1>3, <2>1
  <2>3. inChunk(n) \in SUBSET Nat
    <3>1. (start \div BitsPerChunk + n) % a.chunks \in Nat
      BY <1>2, <2>2, SMT
    <3>2. \A k \in Nat : k * BitsPerChunk \in Nat /\ (k + 1) * BitsPerChunk - 1 \in Int
      BY <1>2, SMT
    <3> QED
      BY <3>1, <3>2
  <2>4. Min(inChunk(n)) \in inChunk(n)
    BY <2>2, <2>3, MinIsMember
  <2> HIDE DEF rounds
  <2>5. IsFree(a, Min(inChunk(n))) /\ Min(inChunk(n)) \in Nat
    BY <2>3, <2>4
  <2> QED
    BY <1>1, <1>3, <2>2, <2>5
<1>4. CASE rounds = {}
  <2>1. after \in Nat
    BY <1>2
  <2> HIDE DEF after
  <2>2. behind \in SUBSET Nat /\ after + 2 \in behind
    BY <2>1 DEF Reserved, Unknown, PlugInID
  <2>3. Min(behind) \in behind
    BY <2>2, MinIsMember
  <2>4. \A i \in a.bits : i < after
    BY DEF Covered, after
  <2>5. IsFree(a, Min(behind)) /\ Min(behind) \in Nat
    BY <2>1, <2>2, <2>3, <2>4 DEF IsFree, Alloc
  <2> QED
    BY <1>1, <1>4, <2>5
<1> QED
    BY <1>3, <1>4

(* A new number was free and is taken, and nothing else is.                *)
LEMMA NewNumber ==
    ASSUME NEW a \in Alloc, Covered(a)
    PROVE  LET b == AllocateID(a)
           IN  /\ b \in Alloc /\ Covered(b)
               /\ IsFree(a, b.last) /\ b.bits = a.bits \cup {b.last} /\ b.count = a.count + 1
<1> DEFINE next == a.last + 1
           maximum == IF next >= a.maximum /\ a.count > a.maximum \div 2
                      THEN a.maximum * 2 ELSE a.maximum
           chosen == IF next >= maximum THEN FindFreeID(a, 0)
                     ELSE IF IsFree(a, next) THEN next
                     ELSE FindFreeID(a, next + 1)
<1>1. AllocateID(a) = [SetFree(a, chosen, FALSE) EXCEPT !.count = @ + 1, !.last = chosen,
                                                        !.maximum = maximum]
    BY DEF AllocateID
<1>2. next \in Nat /\ next + 1 \in Nat /\ maximum \in Nat
    BY DEF Alloc
<1> HIDE DEF next, maximum
<1>3. chosen \in Nat /\ IsFree(a, chosen)
    BY <1>2, FoundIsFree
<1> HIDE DEF chosen
<1>4. SetFree(a, chosen, FALSE) \in Alloc /\ Covered(SetFree(a, chosen, FALSE))
    BY <1>3, CoveredStays
<1>5. SetFree(a, chosen, FALSE).bits = a.bits \cup {chosen} /\ SetFree(a, chosen, FALSE).count = a.count
    BY DEF SetFree, Alloc
<1> DEFINE c == SetFree(a, chosen, FALSE)
<1>6. AllocateID(a) = [c EXCEPT !.count = a.count + 1, !.last = chosen, !.maximum = maximum]
    BY <1>1, <1>4, <1>5 DEF Alloc
<1> HIDE DEF c
<1>7. c \in Alloc /\ Covered(c) /\ c.bits = a.bits \cup {chosen}
    BY <1>4, <1>5 DEF c
<1>8. a.count + 1 \in Int
    BY DEF Alloc
<1>9. /\ AllocateID(a) \in Alloc
      /\ AllocateID(a).bits = c.bits /\ AllocateID(a).chunks = c.chunks
      /\ AllocateID(a).last = chosen /\ AllocateID(a).count = a.count + 1
    BY <1>2, <1>3, <1>6, <1>7, <1>8 DEF Alloc
<1> QED
    BY <1>3, <1>7, <1>9 DEF Covered

(* A number given back is free, and nothing else is.                       *)
LEMMA NumberBack ==
    ASSUME NEW a \in Alloc, Covered(a), NEW i \in Nat
    PROVE  /\ FreeID(a, i) \in Alloc /\ Covered(FreeID(a, i))
           /\ FreeID(a, i).bits = a.bits \ {i} /\ FreeID(a, i).count = a.count - 1
<1>1. SetFree(a, i, TRUE) \in Alloc /\ Covered(SetFree(a, i, TRUE))
    BY CoveredStays
<1>2. SetFree(a, i, TRUE).bits = a.bits \ {i} /\ SetFree(a, i, TRUE).count = a.count
    BY DEF SetFree, Alloc
<1> DEFINE c == SetFree(a, i, TRUE)
<1>3. FreeID(a, i) = [c EXCEPT !.count = a.count - 1]
    BY <1>1, <1>2 DEF FreeID, Alloc
<1> HIDE DEF c
<1>4. c \in Alloc /\ Covered(c) /\ c.bits = a.bits \ {i}
    BY <1>1, <1>2 DEF c
<1>5. a.count - 1 \in Int
    BY DEF Alloc
<1>6. /\ FreeID(a, i) \in Alloc /\ FreeID(a, i).count = a.count - 1
      /\ FreeID(a, i).bits = c.bits /\ FreeID(a, i).chunks = c.chunks
    BY <1>3, <1>4, <1>5 DEF Alloc
<1> QED
    BY <1>4, <1>6 DEF Covered

-----------------------------------------------------------------------------
(* Steps that leave numbers, and which objects use one, as they are.       *)
LEMMA NumbersKept ==
    ASSUME RegistryInv, UNCHANGED <<id, alloc>>,
           \A o \in Obj : Living(o)' <=> Living(o),
           life'[PlugIn] # "gone" => life[PlugIn] # "gone"
    PROVE  NumbersOK'
<1>1. InUse' = InUse
    BY DEF InUse
<1>2. alloc' = alloc /\ id' = id /\ NumbersOK
    BY DEF RegistryInv
<1> QED
    BY <1>1, <1>2 DEF NumbersOK, Covered

LEMMA RegistryStart == RegistryInit => RegistryInv
<1> SUFFICES ASSUME RegistryInit PROVE RegistryInv
    OBVIOUS
<1>1. RegistryTypeOK
    BY RegistryAssumption DEF RegistryInit, RegistryTypeOK, Alloc, Idle, Place, Unknown, Thread
<1>2. ThreadsOK /\ LifeOK /\ MapOK /\ ReadersOK
    BY RegistryAssumption
    DEF RegistryInit, ThreadsOK, LifeOK, MapOK, ReadersOK, Idle, Destroying, Looking, Living, Thread
<1>3. InUse = {} /\ ~Living(PlugIn) /\ \A o \in Obj : ~Living(o)
    BY RegistryAssumption DEF RegistryInit, InUse, Living
<1>4. NumbersOK
    BY <1>3, FS_EmptySet DEF RegistryInit, NumbersOK, Covered
<1> QED
    BY <1>1, <1>2, <1>4 DEF RegistryInv

(* Registration under a number that nobody else has.                       *)
Registers(o, n) ==
    /\ n # Unknown /\ (n = PlugInID <=> o = PlugIn)
    /\ \A p \in Obj : Living(p) => id[p] # n
    /\ n \notin DOMAIN map
    /\ id' = [id EXCEPT ![o] = n]
    /\ map' = [i \in DOMAIN map \cup {n} |-> IF i = n THEN o ELSE map[i]]
    /\ points' = points \cup {o}
    /\ oldReaders' = Reading
    /\ pc' = [pc EXCEPT ![Driver] = [at |-> "register", id |-> n, obj |-> o]]
    /\ alloc' \in Alloc /\ Covered(alloc')
    /\ o = PlugIn => alloc' = alloc
    /\ o # PlugIn => /\ n \notin alloc.bits /\ n \notin Reserved
                    /\ alloc'.bits = alloc.bits \cup {n}
                    /\ alloc'.count = alloc.count + 1

LEMMA Registered ==
    ASSUME RegistryInv, NEW o \in Obj, RegisterObject(o)
    PROVE  \E n \in Nat : Registers(o, n)
<1> USE DEF RegistryInv
<1> DEFINE chosen == IF o = PlugIn THEN PlugInID ELSE AllocateID(alloc).last
<1>1. alloc \in Alloc /\ Covered(alloc)
    BY DEF RegistryTypeOK, NumbersOK
<1>2. chosen \in Nat /\ chosen # Unknown /\ (chosen = PlugInID <=> o = PlugIn)
    BY <1>1, NewNumber DEF IsFree, Reserved, Unknown, PlugInID, Alloc
<1>3. o # PlugIn => chosen \notin alloc.bits /\ chosen \notin Reserved
    BY <1>1, NewNumber DEF IsFree
<1>4. ~Living(o)
    BY DEF RegisterObject, Living
<1> HIDE DEF chosen
<1>5. \A p \in Obj : Living(p) => id[p] # chosen
    BY <1>2, <1>3, <1>4 DEF NumbersOK, InUse
<1>6. chosen \notin DOMAIN map
    BY <1>5 DEF MapOK, RegistryTypeOK
<1>7. /\ id' = [id EXCEPT ![o] = chosen]
      /\ map' = [i \in DOMAIN map \cup {chosen} |-> IF i = chosen THEN o ELSE map[i]]
      /\ points' = points \cup {o} /\ oldReaders' = Reading
      /\ alloc' = IF o = PlugIn THEN alloc ELSE AllocateID(alloc)
    BY <1>6 DEF RegisterObject, chosen
<1>8. pc' = [pc EXCEPT ![Driver] = [at |-> "register", id |-> chosen, obj |-> o]]
    BY <1>7 DEF RegisterObject, RegistryTypeOK
<1>9. /\ alloc' \in Alloc /\ Covered(alloc')
      /\ o # PlugIn => alloc'.bits = alloc.bits \cup {chosen} /\ alloc'.count = alloc.count + 1
    BY <1>1, <1>7, NewNumber DEF chosen
<1> QED
    BY <1>2, <1>3, <1>5, <1>6, <1>7, <1>8, <1>9 DEF Registers

LEMMA RegisterKeeps ==
    ASSUME RegistryInv, NEW o \in Obj, RegisterObject(o)
    PROVE  RegistryInv'
<1> USE RegistryAssumption DEF RegistryInv
<1>1. PICK n \in Nat : Registers(o, n)
    BY Registered
<1>2. /\ life[o] = "unborn" /\ life' = [life EXCEPT ![o] = "constructed"]
      /\ pc[Driver].at = "idle" /\ regLock = None /\ regLock' = Driver /\ refs' = refs
    BY DEF RegisterObject, At
<1>3. Driver \in Thread /\ Driver # None /\ Caller \subseteq Thread /\ Driver \notin Caller
    BY DEF Thread
<1>4. RegistryTypeOK'
    BY <1>1, <1>2, <1>3 DEF RegistryTypeOK, Place, Reading, Registers
<1>5. \A t \in Thread \ {Driver} : pc'[t] = pc[t]
    BY <1>1 DEF Registers
<1>6. pc'[Driver] = [at |-> "register", id |-> n, obj |-> o]
    BY <1>1, <1>3 DEF RegistryTypeOK, Registers
<1>7. \A t \in Thread : pc[t].at \notin {"idle", "none"} =>
        Living(pc[t].obj) /\ pc[t].obj \in Obj /\ pc[t].obj # o
    BY <1>2 DEF ThreadsOK, LifeOK, ReadersOK, Living, RegistryTypeOK, Place, Looking, Destroying, Thread
<1>8. \A p \in Obj \ {o} : id'[p] = id[p] /\ life'[p] = life[p]
    BY <1>1, <1>2 DEF Registers
<1>9. id'[o] = n /\ life'[o] = "constructed"
    BY <1>1, <1>2 DEF RegistryTypeOK, Registers
<1>10. ThreadsOK'
    BY <1>2, <1>3, <1>5, <1>6, <1>7, <1>8, <1>9 DEF ThreadsOK, Looking
<1>11. LifeOK'
    BY <1>2, <1>3, <1>5, <1>6, <1>7, <1>8, <1>9 DEF LifeOK, ThreadsOK, Destroying
<1>12. Living(o)' /\ ~Living(o) /\ \A p \in Obj \ {o} : Living(p)' <=> Living(p)
    BY <1>2, <1>8, <1>9 DEF Living
<1>13. NumbersOK'
  <2>1. alloc' \in Alloc /\ Covered(alloc') /\ (n = PlugInID <=> o = PlugIn)
    BY <1>1 DEF Registers
  <2>2. \A p \in Obj : Living(p)' => (id'[p] = PlugInID <=> p = PlugIn)
    BY <2>1, <1>8, <1>9, <1>12 DEF NumbersOK
  <2>3. \A p, q \in InUse' : id'[p] = id'[q] => p = q
    BY <1>1, <1>8, <1>9, <1>12 DEF NumbersOK, InUse, Registers
  <2>4. CASE o = PlugIn
    <3>1. InUse' = InUse /\ alloc' = alloc /\ o \notin InUse
      BY <2>4, <1>1, <1>12 DEF InUse, Registers
    <3>2. alloc'.bits = {id'[p] : p \in InUse'}
      BY <3>1, <1>8 DEF NumbersOK, InUse
    <3>3. /\ IsFiniteSet(alloc'.bits) /\ alloc'.bits \cap Reserved = {}
          /\ alloc'.count = Cardinality(alloc'.bits)
      BY <3>1, <2>4, <1>2 DEF NumbersOK
    <3> QED
      BY <2>1, <2>2, <2>3, <3>2, <3>3 DEF NumbersOK
  <2>5. CASE o # PlugIn
    <3>1. InUse' = InUse \cup {o} /\ o \notin InUse
      BY <2>5, <1>12 DEF InUse
    <3>2. /\ n \notin alloc.bits /\ n \notin Reserved /\ alloc'.bits = alloc.bits \cup {n}
          /\ alloc'.count = alloc.count + 1
      BY <2>5, <1>1 DEF Registers
    <3>3. alloc'.bits = {id'[p] : p \in InUse'}
      BY <3>1, <3>2, <1>8, <1>9 DEF NumbersOK, InUse
    <3>4. IsFiniteSet(alloc.bits)
      BY DEF NumbersOK
    <3>5. IsFiniteSet(alloc'.bits) /\ Cardinality(alloc'.bits) = Cardinality(alloc.bits) + 1
    <4>1. /\ IsFiniteSet(alloc.bits \cup {n})
          /\ Cardinality(alloc.bits \cup {n}) = IF n \in alloc.bits THEN Cardinality(alloc.bits)
                                                ELSE Cardinality(alloc.bits) + 1
      BY <3>4, FS_AddElement
    <4> QED
      BY <3>2, <4>1
    <3>6. life'[PlugIn] # "gone" => alloc'.count = Cardinality(alloc'.bits)
      BY <2>5, <3>2, <3>5, <1>8 DEF NumbersOK
    <3>7. alloc'.bits \cap Reserved = {}
      BY <3>2 DEF NumbersOK
    <3> QED
      BY <2>1, <2>2, <2>3, <3>3, <3>5, <3>6, <3>7 DEF NumbersOK
  <2> QED
    BY <2>4, <2>5
<1>14. \A p \in Obj \ {o} : InMap(p) => InMap(p)'
    BY <1>1, <1>8 DEF InMap, Registers
<1>15. MapOK'
  <2>1. InMap(o)' /\ points' = points \cup {o} /\ DOMAIN map' = DOMAIN map \cup {n}
    BY <1>1, <1>9 DEF InMap, Registers
  <2>2. ASSUME NEW i \in DOMAIN map' PROVE Living(map[i])' /\ id'[map'[i]] = i
    <3>1. CASE i = n
      BY <3>1, <1>1, <1>9, <1>12 DEF Registers, Living
    <3>2. CASE i # n
      <4>1. i \in DOMAIN map /\ map'[i] = map[i]
        BY <3>2, <2>1, <1>1 DEF Registers
      <4>2. map[i] \in Obj \ {o}
        BY <4>1, <1>12 DEF MapOK, RegistryTypeOK
      <4> QED
        BY <4>1, <4>2, <1>8 DEF MapOK, Living
    <3> QED
      BY <3>1, <3>2
  <2>3. \A p \in Obj : life'[p] \in {"constructed", "alive"} => InMap(p)' /\ p \in points'
    BY <1>8, <1>14, <2>1 DEF MapOK
  <2>4. ASSUME NEW t \in Thread, pc'[t].at \in Destroying
        PROVE  /\ pc'[t].at \in {"destroy", "erase"} => InMap(pc[t].obj)'
               /\ pc'[t].at = "wait" => pc'[t].id \notin DOMAIN map'
               /\ pc'[t].obj \in points' <=> pc'[t].at = "destroy"
    <3>1. t # Driver /\ pc'[t] = pc[t] /\ pc[t].obj \in Obj \ {o} /\ Living(pc[t].obj)
      BY <2>4, <1>5, <1>6, <1>7 DEF Destroying
    <3>2. pc[t].at # "wait"
      BY <3>1, <1>2, <1>3 DEF ThreadsOK
    <3> QED
      BY <3>1, <3>2, <2>4, <2>1, <1>14 DEF MapOK
  <2>5. \A p \in points' : Living(p)'
    BY <2>1, <1>12 DEF MapOK, RegistryTypeOK
  <2> QED
    BY <2>2, <2>3, <2>4, <2>5 DEF MapOK, Destroying
<1>16. ReadersOK'
    BY <1>1, <1>3, <1>5, <1>7, <1>12, <1>14 DEF ReadersOK, Reading, Looking, Registers
<1> QED
    BY <1>4, <1>10, <1>11, <1>13, <1>15, <1>16

LEMMA RegisterReturnsKeeps == ASSUME RegistryInv, RegisterReturns PROVE RegistryInv'
<1> USE RegistryAssumption DEF RegistryInv, RegisterReturns, At, Goto
<1>1. Driver \in Thread /\ Driver \notin Caller /\ None \notin Thread
    BY DEF Thread
<1>2. /\ pc'[Driver] = [pc[Driver] EXCEPT !.at = "construct"]
      /\ \A t \in Thread \ {Driver} : pc'[t] = pc[t]
    BY <1>1 DEF RegistryTypeOK
<1>3. RegistryTypeOK'
    BY <1>1 DEF RegistryTypeOK, Place
<1>4. ThreadsOK'
    BY <1>1, <1>2 DEF ThreadsOK, RegistryTypeOK, Looking
<1>5. LifeOK'
    BY <1>1, <1>2 DEF LifeOK, RegistryTypeOK, Destroying, Thread
<1>6. NumbersOK'
    BY NumbersKept DEF Living
<1>7. MapOK'
    BY <1>2 DEF MapOK, InMap, Living, RegistryTypeOK, Destroying
<1>8. ReadersOK'
    BY <1>1, <1>2 DEF ReadersOK, InMap, Living, Thread
<1> QED
    BY <1>3, <1>4, <1>5, <1>6, <1>7, <1>8

LEMMA ConstructedKeeps == ASSUME RegistryInv, Constructed PROVE RegistryInv'
<1> USE RegistryAssumption DEF RegistryInv, Constructed, At
<1> DEFINE o == pc[Driver].obj
<1>1. Driver \in Thread /\ Driver \notin Caller /\ None \notin Thread /\ Caller \subseteq Thread
    BY DEF Thread
<1>2. o \in Obj /\ life[o] = "constructed" /\ refs[o] = {}
    BY <1>1 DEF ThreadsOK, LifeOK
<1>3. pc'[Driver] = Idle /\ \A t \in Thread \ {Driver} : pc'[t] = pc[t]
    BY <1>1 DEF RegistryTypeOK
<1>4. /\ life'[o] = "alive" /\ refs'[o] = {Driver}
      /\ \A p \in Obj \ {o} : life'[p] = life[p] /\ refs'[p] = refs[p]
    BY <1>2 DEF RegistryTypeOK
<1>5. RegistryTypeOK'
    BY <1>1, <1>2 DEF RegistryTypeOK, Place, Idle, Unknown
<1> HIDE DEF o
<1>6. ThreadsOK'
    BY <1>1, <1>3 DEF ThreadsOK, Idle, Looking
<1>7. LifeOK'
    BY <1>1, <1>2, <1>3, <1>4 DEF LifeOK, ThreadsOK, Idle, Destroying, o
<1>8. \A p \in Obj : Living(p)' <=> Living(p)
    BY <1>2, <1>4 DEF Living
<1>9. NumbersOK'
    BY <1>8, <1>2, <1>4, NumbersKept
<1>10. MapOK'
    BY <1>2, <1>3, <1>4, <1>8 DEF MapOK, InMap, RegistryTypeOK, Idle, Destroying
<1>11. ReadersOK'
    BY <1>1, <1>3, <1>8 DEF ReadersOK, InMap, ThreadsOK, Looking
<1> QED
    BY <1>5, <1>6, <1>7, <1>9, <1>10, <1>11

(* Whoever gives a reference back has one, and has nothing else in hand.   *)
LEMMA UnrefKeeps ==
    ASSUME RegistryInv, NEW t \in Thread, NEW o \in Obj, Unref(t, o), t \in refs[o],
           \/ t = Driver /\ At(t, "idle")
           \/ t \in Caller /\ At(t, "holds") /\ pc[t].obj = o
    PROVE  RegistryInv'
<1> USE RegistryAssumption DEF RegistryInv, Unref, At
<1>1. Driver \in Thread /\ Driver \notin Caller /\ None \notin Thread /\ Caller \subseteq Thread
    BY DEF Thread
<1>2. life[o] = "alive" /\ pc[t].at \in {"idle", "holds"}
    BY DEF LifeOK
<1>3. \A u \in Thread \ {t} : pc'[u] = pc[u]
    BY DEF RegistryTypeOK
<1>4. refs'[o] = refs[o] \ {t} /\ \A p \in Obj \ {o} : life'[p] = life[p] /\ refs'[p] = refs[p]
    BY DEF RegistryTypeOK
<1>5. \/ /\ refs[o] = {t} /\ life'[o] = "dying"
         /\ pc'[t] = [at |-> "destroy", id |-> id[o], obj |-> o]
      \/ refs[o] # {t} /\ life' = life /\ pc'[t] = Idle
    BY DEF RegistryTypeOK
<1>6. RegistryTypeOK'
  <2>1. refs' \in [Obj -> SUBSET Thread]
    BY DEF RegistryTypeOK
  <2>2. /\ life' \in [Obj -> {"unborn", "constructed", "alive", "dying", "gone"}]
        /\ pc' \in [Thread -> [at : Place, id : Nat, obj : Obj \cup {None}]]
    <3>1. CASE refs[o] = {t}
      BY <3>1 DEF RegistryTypeOK, Place, Destroying
    <3>2. CASE refs[o] # {t}
      BY <3>2 DEF RegistryTypeOK, Place, Idle, Unknown
    <3> QED
      BY <3>1, <3>2
  <2> QED
    BY <2>1, <2>2 DEF RegistryTypeOK
<1>7. \A u \in Thread : pc[u].at \in Destroying => pc[u].obj # o
    BY <1>2 DEF LifeOK
<1>8. ThreadsOK'
    BY <1>1, <1>2, <1>3, <1>5 DEF ThreadsOK, Idle, Looking
<1>9. LifeOK'
    BY <1>1, <1>2, <1>3, <1>4, <1>5, <1>7 DEF LifeOK, ThreadsOK, Idle, Destroying
<1>10. \A p \in Obj : Living(p)' <=> Living(p)
    BY <1>2, <1>4, <1>5 DEF Living
<1>11. NumbersOK'
    BY <1>10, <1>2, <1>4, <1>5, NumbersKept
<1>12. MapOK'
    BY <1>2, <1>3, <1>4, <1>5, <1>10 DEF MapOK, InMap, RegistryTypeOK, Idle, Destroying
<1>13. ReadersOK'
    BY <1>1, <1>2, <1>3, <1>5, <1>10 DEF ReadersOK, InMap, ThreadsOK, Looking, Idle
<1> QED
    BY <1>6, <1>8, <1>9, <1>11, <1>12, <1>13

LEMMA StoreNullKeeps == ASSUME RegistryInv, NEW t \in Thread, StoreNull(t) PROVE RegistryInv'
<1> USE RegistryAssumption DEF RegistryInv, StoreNull, At
<1> DEFINE o == pc[t].obj
<1>1. Driver \in Thread /\ Driver \notin Caller /\ None \notin Thread /\ Caller \subseteq Thread
    BY DEF Thread
<1>2. o \in Obj /\ pc[t].id = id[o] /\ life[o] = "dying" /\ InMap(o)
    BY DEF ThreadsOK, LifeOK, Destroying, MapOK
<1>3. pc[t].id # Unknown
    BY <1>2 DEF NumbersOK, InUse, Living, Reserved, Unknown, PlugInID
<1>4. /\ points' = points \ {o} /\ regLock' = t /\ life' = life
      /\ pc' = [pc EXCEPT ![t].at = "erase"]
    BY <1>3 DEF Goto
<1>5. pc'[t] = [pc[t] EXCEPT !.at = "erase"] /\ \A u \in Thread \ {t} : pc'[u] = pc[u]
    BY <1>4 DEF RegistryTypeOK
<1>6. RegistryTypeOK'
    BY <1>4 DEF RegistryTypeOK, Place, Destroying
<1> HIDE DEF o
<1>7. ThreadsOK'
    BY <1>1, <1>4, <1>5 DEF ThreadsOK, RegistryTypeOK, Looking
<1>8. LifeOK'
    BY <1>1, <1>4, <1>5 DEF LifeOK, RegistryTypeOK, Destroying
<1>9. NumbersOK'
    BY <1>4, NumbersKept DEF Living
<1>10. \A u \in Thread \ {t} : pc[u].at \in Destroying => pc[u].obj # o
    BY DEF LifeOK, Destroying, o
<1>11. MapOK'
    BY <1>2, <1>4, <1>5, <1>10 DEF MapOK, InMap, Living, RegistryTypeOK, Destroying, o
<1>12. ReadersOK'
    BY <1>1, <1>4, <1>5 DEF ReadersOK, InMap, Living, Looking, RegistryTypeOK
<1> QED
    BY <1>6, <1>7, <1>8, <1>9, <1>11, <1>12

(* Who reads the object when it leaves the map is waited for.              *)
LEMMA EraseKeeps == ASSUME RegistryInv, NEW t \in Thread, EraseFromMap(t) PROVE RegistryInv'
<1> USE RegistryAssumption DEF RegistryInv, EraseFromMap, At, Goto
<1>1. Driver \in Thread /\ Driver \notin Caller /\ None \notin Thread /\ Caller \subseteq Thread
    BY DEF Thread
<1>0. PICK o \in Obj : o = pc[t].obj
    BY DEF ThreadsOK
<1>2. pc[t].id = id[o] /\ life[o] = "dying" /\ InMap(o) /\ o \notin points
    BY <1>0 DEF ThreadsOK, LifeOK, Destroying, MapOK
<1>3. pc'[t] = [pc[t] EXCEPT !.at = "wait"] /\ \A u \in Thread \ {t} : pc'[u] = pc[u]
    BY DEF RegistryTypeOK
<1>4. DOMAIN map' = DOMAIN map \ {id[o]} /\ \A i \in DOMAIN map' : map'[i] = map[i]
    BY <1>0, <1>2
<1>5. RegistryTypeOK'
    BY <1>4 DEF RegistryTypeOK, Place, Destroying, Reading
<1>6. ThreadsOK'
    BY <1>1, <1>3 DEF ThreadsOK, RegistryTypeOK, Looking
<1>7. LifeOK'
    BY <1>1, <1>3 DEF LifeOK, RegistryTypeOK, Destroying
<1>8. NumbersOK'
    BY NumbersKept DEF Living
<1>9. \A u \in Thread \ {t} : pc[u].at \in Destroying => pc[u].obj # o
    BY <1>0 DEF LifeOK, Destroying
<1>10. \A p \in Obj \ {o} : InMap(p) => InMap(p)'
    BY <1>2, <1>4 DEF InMap
<1>11. MapOK'
  <2>1. \A i \in DOMAIN map' : Living(map[i])' /\ id'[map'[i]] = i
    BY <1>4 DEF MapOK, Living
  <2>2. \A p \in points' : Living(p)'
    BY DEF MapOK, Living
  <2>3. \A p \in Obj : life'[p] \in {"constructed", "alive"} => InMap(p)' /\ p \in points'
    BY <1>2, <1>10 DEF MapOK
  <2>4. ASSUME NEW u \in Thread, pc'[u].at \in Destroying
        PROVE  /\ pc'[u].at \in {"destroy", "erase"} => InMap(pc[u].obj)'
               /\ pc'[u].at = "wait" => pc'[u].id \notin DOMAIN map'
               /\ pc'[u].obj \in points' <=> pc'[u].at = "destroy"
    <3>1. CASE u = t
      BY <3>1, <1>0, <1>2, <1>3, <1>4 DEF RegistryTypeOK
    <3>2. CASE u # t
      <4>1. pc'[u] = pc[u] /\ pc[u].obj \in Obj \ {o}
        BY <3>2, <2>4, <1>3, <1>9 DEF ThreadsOK, Destroying
      <4>2. pc[u].at \in {"destroy", "erase"} => InMap(pc[u].obj)
        BY DEF MapOK
      <4>3. pc'[u].at \in {"destroy", "erase"} => InMap(pc[u].obj)'
        BY <4>1, <4>2, <1>10 DEF InMap
      <4>4. pc'[u].at = "wait" => pc'[u].id \notin DOMAIN map'
        BY <4>1, <1>4 DEF MapOK
      <4>5. pc'[u].obj \in points' <=> pc'[u].at = "destroy"
        <5>1. pc[u].at \in Destroying /\ points' = points
          BY <4>1, <2>4
        <5>2. pc[u].obj \in points <=> pc[u].at = "destroy"
          <6> HIDE DEF EraseFromMap
          <6> QED
            BY <5>1 DEF MapOK
        <5> QED
          BY <4>1, <5>1, <5>2
      <4> QED
        BY <4>3, <4>4, <4>5
    <3> QED
      BY <3>1, <3>2
  <2> QED
    BY <2>1, <2>2, <2>3, <2>4 DEF MapOK, Destroying
<1>12. ReadersOK'
  <2> SUFFICES ASSUME NEW c \in Caller, pc'[c].at \in Looking
               PROVE  Living(pc[c].obj)' /\ c \in oldReaders'
    BY DEF ReadersOK
  <2>1. c # t /\ pc'[c] = pc[c]
    BY <1>1, <1>3 DEF Looking, RegistryTypeOK
  <2>2. c \in Reading
    BY <2>1 DEF Reading, Looking
  <2> QED
    BY <2>1, <2>2 DEF ReadersOK, Living
<1> QED
    BY <1>5, <1>6, <1>7, <1>8, <1>11, <1>12

(* Nobody reads an object any more when its destructor goes on.            *)
LEMMA UnregisterKeeps == ASSUME RegistryInv, NEW t \in Thread, UnregisterReturns(t) PROVE RegistryInv'
<1> USE RegistryAssumption DEF RegistryInv, UnregisterReturns, At
<1>1. Driver \in Thread /\ Driver \notin Caller /\ None \notin Thread /\ Caller \subseteq Thread
    BY DEF Thread
<1>0. PICK o \in Obj : o = pc[t].obj
    BY DEF ThreadsOK
<1>2. /\ pc[t].id = id[o] /\ id[o] \in Nat /\ life[o] = "dying"
      /\ id[o] \notin DOMAIN map /\ o \notin points
    BY <1>0 DEF ThreadsOK, LifeOK, Destroying, MapOK, RegistryTypeOK
<1>3. pc'[t] = Idle /\ \A u \in Thread \ {t} : pc'[u] = pc[u]
    BY DEF RegistryTypeOK
<1>4. life'[o] = "gone" /\ \A p \in Obj \ {o} : life'[p] = life[p]
    BY <1>0, <1>2 DEF RegistryTypeOK
<1>5. /\ alloc' \in Alloc /\ Covered(alloc') /\ alloc'.bits = alloc.bits \ {id[o]}
      /\ alloc'.count = alloc.count - 1
  <2>1. alloc \in Alloc /\ Covered(alloc) /\ alloc' = FreeID(alloc, id[o])
    BY <1>2 DEF RegistryTypeOK, NumbersOK
  <2>2. /\ FreeID(alloc, id[o]) \in Alloc /\ Covered(FreeID(alloc, id[o]))
        /\ FreeID(alloc, id[o]).bits = alloc.bits \ {id[o]}
        /\ FreeID(alloc, id[o]).count = alloc.count - 1
    <3> HIDE DEF RegistryInv, UnregisterReturns
    <3> QED
      BY <2>1, <1>2, NumberBack
  <2> QED
    BY <2>1, <2>2 DEF Covered
<1>6. \A u \in Thread \ {t} : pc[u].at \in Destroying => pc[u].obj # o
    BY <1>0 DEF LifeOK, Destroying
<1>7. \A c \in Caller : pc[c].at \in Looking => pc[c].obj # o
    BY <1>2 DEF ReadersOK, InMap
<1>8. RegistryTypeOK'
    BY <1>5 DEF RegistryTypeOK, Place, Idle, Unknown
<1>9. ThreadsOK'
    BY <1>1, <1>3 DEF ThreadsOK, RegistryTypeOK, Looking, Idle
<1>10. LifeOK'
    BY <1>1, <1>2, <1>3, <1>4, <1>6 DEF LifeOK, RegistryTypeOK, Destroying, Idle
<1>11. Living(o) /\ ~Living(o)' /\ \A p \in Obj \ {o} : Living(p)' <=> Living(p)
    BY <1>2, <1>4 DEF Living
<1>12. NumbersOK'
  <2>1. InUse' = InUse \ {o}
    BY <1>11 DEF InUse
  <2>2. \A p, q \in InUse : id[p] = id[q] => p = q
    BY DEF NumbersOK
  <2>3. alloc.bits = {id[p] : p \in InUse} /\ alloc.bits \cap Reserved = {}
    BY DEF NumbersOK
  <2>4. o = PlugIn => id[o] = PlugInID
    BY <1>2, <1>11 DEF NumbersOK
  <2>5. alloc'.bits = {id'[p] : p \in InUse'}
    <3>1. CASE o = PlugIn
      BY <3>1, <2>1, <2>3, <2>4, <1>5 DEF InUse, Reserved
    <3>2. CASE o # PlugIn
      <4>1. o \in InUse
        BY <3>2, <1>2, <1>11 DEF InUse
      <4> QED
        BY <4>1, <2>1, <2>2, <2>3, <1>5
    <3> QED
      BY <3>1, <3>2
  <2>6. \A p \in Obj : Living(p)' => (id'[p] = PlugInID <=> p = PlugIn)
    BY <1>11 DEF NumbersOK
  <2>7. IsFiniteSet(alloc.bits)
    BY DEF NumbersOK
  <2>8. IsFiniteSet(alloc'.bits)
    <3>1. IsFiniteSet(alloc.bits \ {id[o]})
      BY <2>7, FS_RemoveElement
    <3> QED
      BY <3>1, <1>5
  <2>9. ASSUME life'[PlugIn] # "gone" PROVE alloc'.count = Cardinality(alloc'.bits)
    <3>1. o # PlugIn /\ life[PlugIn] # "gone"
      BY <2>9, <1>2, <1>4
    <3>2. id[o] \in alloc.bits
      BY <3>1, <2>3, <1>2, <1>11 DEF InUse
    <3>3. Cardinality(alloc.bits \ {id[o]}) = Cardinality(alloc.bits) - 1
      BY <2>7, <3>2, FS_RemoveElement
    <3> QED
      BY <3>1, <3>3, <1>5 DEF NumbersOK
  <2> QED
    BY <2>1, <2>2, <2>3, <2>5, <2>6, <2>8, <2>9, <1>5 DEF NumbersOK
<1>13. MapOK'
    BY <1>2, <1>3, <1>4, <1>6, <1>11 DEF MapOK, InMap, RegistryTypeOK, Destroying, Idle, ThreadsOK
<1>14. ReadersOK'
    BY <1>1, <1>3, <1>7, <1>11 DEF ReadersOK, InMap, Looking, Idle, ThreadsOK
<1> QED
    BY <1>8, <1>9, <1>10, <1>12, <1>13, <1>14

(* A look-up goes on: what it reads is in the map, or waited for.          *)
LEMMA LookingKeeps ==
    ASSUME RegistryInv, NEW c \in Caller,
           UNCHANGED <<life, id, map, points, alloc, regLock, refs>>,
           NEW x \in [at : Place, id : Nat, obj : Obj \cup {None}],
           pc' = [pc EXCEPT ![c] = x],
           pc[c].at \in {"idle", "none"} \cup Looking, x.at \in {"idle", "none"} \cup Looking,
           oldReaders' \in {oldReaders, oldReaders \ {c}},
           x.at \in Looking => x.obj \in Obj /\ x.id = id[x.obj] /\ Living(x.obj),
           x.at \in Looking => (InMap(x.obj) \/ c \in oldReaders')
    PROVE  RegistryInv'
<1> USE RegistryAssumption DEF RegistryInv
<1>1. Driver \in Thread /\ c \in Thread /\ c # Driver /\ None \notin Thread /\ Caller \subseteq Thread
    BY DEF Thread
<1>2. pc'[c] = x /\ \A u \in Thread \ {c} : pc'[u] = pc[u]
    BY <1>1 DEF RegistryTypeOK
<1>3. RegistryTypeOK'
    BY <1>1 DEF RegistryTypeOK
<1>4. ThreadsOK'
  <2>1. ASSUME NEW t \in Thread
        PROVE  /\ pc'[t].at \notin {"idle", "none"} => pc'[t].obj \in Obj /\ pc'[t].id = id[pc'[t].obj]
               /\ pc'[t].at \in {"register", "erase", "wait"} <=> regLock = t
    <3>1. CASE t = c
      <4>1. regLock # c
        BY <1>1 DEF ThreadsOK, Looking
      <4> QED
        BY <3>1, <1>2, <4>1 DEF Looking
    <3>2. CASE t # c
      BY <3>2, <1>2 DEF ThreadsOK
    <3> QED
      BY <3>1, <3>2
  <2>2. pc'[Driver] = pc[Driver] /\ \A d \in Caller : pc'[d].at \notin {"register", "construct"}
    BY <1>1, <1>2 DEF ThreadsOK, Looking
  <2> QED
    BY <2>1, <2>2 DEF ThreadsOK
<1>5. LifeOK'
    BY <1>1, <1>2 DEF LifeOK, Destroying, Looking
<1>6. NumbersOK'
    BY NumbersKept DEF Living
<1>7. MapOK'
    BY <1>1, <1>2 DEF MapOK, InMap, Living, Destroying, Looking
<1>8. ReadersOK'
  <2> SUFFICES ASSUME NEW d \in Caller, pc'[d].at \in Looking
               PROVE  Living(pc[d].obj)' /\ (InMap(pc[d].obj)' \/ d \in oldReaders')
    BY DEF ReadersOK
  <2>1. CASE d = c
    <3>1. pc'[d] = x /\ x.at \in Looking
      BY <2>1, <1>2
    <3>2. Living(pc[d].obj)'
      BY <3>1 DEF Living
    <3>3. InMap(pc[d].obj)' \/ c \in oldReaders'
      BY <3>1 DEF InMap
    <3> QED
      BY <2>1, <3>2, <3>3
  <2>2. CASE d # c
    BY <2>2, <1>1, <1>2 DEF ReadersOK, InMap, Living
  <2> QED
    BY <2>1, <2>2
<1> QED
    BY <1>3, <1>4, <1>5, <1>6, <1>7, <1>8

LEMMA LookupKeeps == ASSUME RegistryInv, NEW c \in Caller, NEW i \in Nat, Lookup(c, i) PROVE RegistryInv'
<1> USE RegistryAssumption DEF RegistryInv, Lookup, At
<1>1. CASE i \in DOMAIN map
  <2> DEFINE x == [at |-> "found", id |-> i, obj |-> map[i]]
  <2>1. map[i] \in Obj /\ Living(map[i]) /\ InMap(map[i]) /\ id[map[i]] = i
    BY <1>1 DEF RegistryTypeOK, MapOK, InMap
  <2>2. x \in [at : Place, id : Nat, obj : Obj \cup {None}] /\ x.at \in Looking
    BY <2>1 DEF Place, Looking
  <2>3. pc' = [pc EXCEPT ![c] = x]
    BY <1>1
  <2>4. x.obj \in Obj /\ x.id = id[x.obj] /\ Living(x.obj) /\ InMap(x.obj)
    BY <2>1
  <2> HIDE DEF x
  <2> QED
    BY <1>1, <2>2, <2>3, <2>4, LookingKeeps
<1>2. CASE i \notin DOMAIN map
  <2> DEFINE x == [Idle EXCEPT !.at = "none"]
  <2>1. x \in [at : Place, id : Nat, obj : Obj \cup {None}] /\ x.at = "none"
    BY DEF Place, Idle, Unknown
  <2>2. pc' = [pc EXCEPT ![c] = x] /\ oldReaders' = oldReaders \ {c}
    BY <1>2 DEF NotFound
  <2> HIDE DEF x
  <2> QED
    BY <2>1, <2>2, LookingKeeps DEF Looking
<1> QED
    BY <1>1, <1>2

(* A look-up that finds the registration locked, or the object gone.       *)
LEMMA NotFoundKeeps ==
    ASSUME RegistryInv, NEW c \in Caller, NotFound(c), pc[c].at \in {"idle", "none"} \cup Looking,
           UNCHANGED <<life, id, map, points, alloc, regLock, refs>>
    PROVE  RegistryInv'
<1> DEFINE x == [Idle EXCEPT !.at = "none"]
<1>1. x \in [at : Place, id : Nat, obj : Obj \cup {None}] /\ x.at = "none"
    BY DEF Place, Idle, Unknown
<1>2. pc' = [pc EXCEPT ![c] = x] /\ oldReaders' = oldReaders \ {c}
    BY DEF NotFound
<1> HIDE DEF x
<1> QED
    BY <1>1, <1>2, LookingKeeps DEF Looking

LEMMA LookingOn ==
    ASSUME RegistryInv, NEW c \in Caller, pc[c].at \in Looking, NEW place \in Looking, Goto(c, place),
           UNCHANGED <<life, id, map, points, alloc, regLock, oldReaders, refs>>
    PROVE  RegistryInv'
<1> USE RegistryAssumption DEF RegistryInv
<1>1. PICK x : x = [pc[c] EXCEPT !.at = place]
    OBVIOUS
<1>2. c \in Thread /\ pc[c] \in [at : Place, id : Nat, obj : Obj \cup {None}]
    BY DEF RegistryTypeOK, Thread
<1>3. x \in [at : Place, id : Nat, obj : Obj \cup {None}] /\ x.at = place /\ x.obj = pc[c].obj /\ x.id = pc[c].id
    BY <1>1, <1>2 DEF Place, Looking
<1>4. pc' = [pc EXCEPT ![c] = x]
    BY <1>1, <1>2 DEF Goto
<1>5. /\ x.obj \in Obj /\ x.id = id[x.obj] /\ Living(x.obj)
      /\ InMap(x.obj) \/ c \in oldReaders'
    BY <1>2, <1>3 DEF ThreadsOK, ReadersOK, Looking
<1> QED
    BY <1>3, <1>4, <1>5, LookingKeeps

(* shared_from_this gives a reference to an object that is alive.          *)
LEMMA ShareKeeps == ASSUME RegistryInv, NEW c \in Caller, ShareObject(c) PROVE RegistryInv'
<1> USE RegistryAssumption DEF RegistryInv, ShareObject, At
<1> DEFINE o == pc[c].obj
<1>1. CASE life[o] = "alive"
  <2>1. Driver \in Thread /\ c \in Thread /\ c # Driver /\ None \notin Thread /\ Caller \subseteq Thread
    BY DEF Thread
  <2>2. o \in Obj /\ refs' = [refs EXCEPT ![o] = @ \cup {c}] /\ pc' = [pc EXCEPT ![c].at = "holds"]
    BY <1>1, <2>1 DEF ThreadsOK, Goto
  <2>3. pc'[c] = [pc[c] EXCEPT !.at = "holds"] /\ \A u \in Thread \ {c} : pc'[u] = pc[u]
    BY <2>1, <2>2 DEF RegistryTypeOK
  <2>4. refs'[o] = refs[o] \cup {c} /\ \A p \in Obj \ {o} : refs'[p] = refs[p]
    BY <2>2 DEF RegistryTypeOK
  <2>5. pc[c].at = "loaded" /\ pc'[c].at = "holds" /\ pc'[c].obj = o /\ pc'[c].id = pc[c].id
    BY <2>1, <2>3 DEF RegistryTypeOK
  <2>6. RegistryTypeOK'
    BY <1>1, <2>1, <2>2 DEF RegistryTypeOK, Place
  <2>7. ThreadsOK'
    <3>1. UNCHANGED <<life, id, map, points, alloc, regLock>>
      OBVIOUS
    <3>2. /\ pc[c].obj \in Obj /\ pc[c].id = id[pc[c].obj] /\ regLock # c
          /\ pc[Driver].at \notin {"holds", "none"} \cup Looking
          /\ \A d \in Caller : pc[d].at \notin {"register", "construct"}
      BY <2>1, <2>5 DEF ThreadsOK
    <3> HIDE DEF ShareObject, RegistryInv
    <3>3. ThreadsOK
      BY DEF RegistryInv
    <3>4. \A t \in Thread : pc'[t].at \in {"register", "erase", "wait"} <=> regLock' = t
      BY <2>1, <2>3, <2>5, <3>1, <3>2, <3>3 DEF ThreadsOK
    <3>5. \A t \in Thread : pc'[t].at \notin {"idle", "none"} =>
                            pc'[t].obj \in Obj /\ pc'[t].id = id'[pc'[t].obj]
      <4> SUFFICES ASSUME NEW t \in Thread, pc'[t].at \notin {"idle", "none"}
                   PROVE  pc'[t].obj \in Obj /\ pc'[t].id = id[pc'[t].obj]
        BY <3>1
      <4>1. CASE t = c
        BY <4>1, <2>5, <3>2
      <4>2. CASE t # c
        BY <4>2, <2>3, <3>3 DEF ThreadsOK
      <4> QED
        BY <4>1, <4>2
    <3>6. \A d \in Caller : pc'[d].at \notin {"register", "construct"}
      BY <2>1, <2>3, <2>5, <3>2
    <3> QED
      BY <2>1, <2>3, <3>2, <3>4, <3>5, <3>6 DEF ThreadsOK, Looking
  <2>8. LifeOK'
    BY <1>1, <2>1, <2>2, <2>3, <2>4, <2>5 DEF LifeOK, Destroying
  <2>9. NumbersOK'
    BY NumbersKept DEF Living
  <2>10. MapOK'
    <3>1. UNCHANGED <<life, id, map, points>> /\ MapOK
      OBVIOUS
    <3> HIDE DEF ShareObject, RegistryInv
    <3>2. \A t \in Thread : pc'[t].at \in Destroying => pc'[t] = pc[t]
      BY <2>3, <2>5 DEF Destroying
    <3> QED
      BY <3>1, <3>2 DEF MapOK, InMap, Living, Destroying
  <2>11. ReadersOK'
    BY <1>1, <2>1, <2>3, <2>5, ZenonT(30) DEF ReadersOK, InMap, Living, Looking
  <2> QED
    BY <2>6, <2>7, <2>8, <2>9, <2>10, <2>11
<1>2. CASE life[o] # "alive"
    BY <1>2, NotFoundKeeps DEF Looking
<1> QED
    BY <1>1, <1>2

LEMMA RegistryUnchanged == ASSUME RegistryInv, UNCHANGED registryVars PROVE RegistryInv'
<1> USE DEF RegistryInv, registryVars
<1>1. RegistryTypeOK' /\ ThreadsOK' /\ LifeOK'
    BY DEF RegistryTypeOK, ThreadsOK, LifeOK
<1>2. NumbersOK'
    BY NumbersKept DEF Living
<1>3. MapOK' /\ ReadersOK'
    BY DEF MapOK, ReadersOK, InMap, Living
<1> QED
    BY <1>1, <1>2, <1>3

LEMMA BadObjectKeeps == ASSUME RegistryInv, NEW c \in Caller, BadObject(c) PROVE RegistryInv'
<1>1. Idle \in [at : Place, id : Nat, obj : Obj \cup {None}] /\ Idle.at = "idle"
    BY DEF Place, Idle, Unknown
<1>2. pc[c].at = "none" /\ pc' = [pc EXCEPT ![c] = Idle]
    BY DEF BadObject, At
<1> QED
    BY <1>1, <1>2, LookingKeeps DEF BadObject, Looking

LEMMA TryLockKeeps == ASSUME RegistryInv, NEW c \in Caller, TryLock(c) PROVE RegistryInv'
    BY LookingOn, NotFoundKeeps DEF TryLock, At, Looking

LEMMA LoadKeeps == ASSUME RegistryInv, NEW c \in Caller, LoadObject(c) PROVE RegistryInv'
    BY LookingOn, NotFoundKeeps DEF LoadObject, At, Looking

LEMMA AnswerKeeps ==
    ASSUME RegistryInv, NEW c \in Caller, At(c, "holds"), Unref(c, pc[c].obj)
    PROVE  RegistryInv'
<1>1. c \in Thread /\ pc[c].obj \in Obj /\ c \in refs[pc[c].obj]
    BY DEF RegistryInv, ThreadsOK, LifeOK, At, Thread
<1> QED
    BY <1>1, UnrefKeeps

LEMMA RegistryStep == ASSUME RegistryInv, play \in Plays, [Next]_vars PROVE RegistryInv' /\ play' \in Plays
<1> USE RegistryAssumption
<1>1. play' = play /\ play.objects \subseteq Obj /\ play.callers \subseteq Caller
    BY BridgeAssumption DEF Next, vars, Registry, ChangeList, RegisterCustomProperty, Call, BadObject,
       HasProperty, IsPropertySettable, GetPropertyDataSize, GetPropertyData, SetPropertyData, Answer
<1>2. CASE UNCHANGED vars
    BY <1>2, RegistryUnchanged DEF vars
<1>3. CASE Registry
  <2>1. ASSUME NEW o \in Obj, RegisterObject(o) PROVE RegistryInv'
    BY <2>1, RegisterKeeps
  <2>2. ASSUME NEW o \in Obj, DropObject(o) PROVE RegistryInv'
    BY <2>2, UnrefKeeps DEF DropObject, Thread
  <2>3. ASSUME NEW t \in Thread, StoreNull(t) \/ EraseFromMap(t) \/ UnregisterReturns(t) PROVE RegistryInv'
    BY <2>3, StoreNullKeeps, EraseKeeps, UnregisterKeeps
  <2>4. ASSUME NEW c \in Caller, TryLock(c) \/ LoadObject(c) \/ ShareObject(c) PROVE RegistryInv'
    BY <2>4, TryLockKeeps, LoadKeeps, ShareKeeps
  <2> QED
    BY <1>1, <1>3, <2>1, <2>2, <2>3, <2>4, RegisterReturnsKeeps, ConstructedKeeps DEF Registry
<1>4. CASE \E o \in play.objects :
             \/ \E n \in 0 .. MaxElements : ChangeList(o, n)
             \/ \E s \in Custom, setter \in BOOLEAN : RegisterCustomProperty(o, s, setter)
    BY <1>4, RegistryUnchanged DEF ChangeList, RegisterCustomProperty
<1>5. ASSUME NEW c \in Caller, Call(c) PROVE RegistryInv'
  <2>1. PICK o \in Obj : Lookup(c, id[o])
    BY <1>5 DEF Call
  <2>2. id[o] \in Nat
    BY DEF RegistryInv, RegistryTypeOK
  <2> QED
    BY <2>1, <2>2, LookupKeeps
<1>6. ASSUME NEW c \in Caller,
             \/ HasProperty(c) \/ IsPropertySettable(c) \/ GetPropertyDataSize(c)
             \/ GetPropertyData(c) \/ SetPropertyData(c)
      PROVE  RegistryInv'
    BY <1>6, AnswerKeeps DEF HasProperty, IsPropertySettable, GetPropertyDataSize, GetPropertyData,
       SetPropertyData, Answer
<1> QED
    BY <1>1, <1>2, <1>3, <1>4, <1>5, <1>6, BadObjectKeeps DEF Next

(* The registry's invariant: numbers, map, references and the places of    *)
(* all threads agree (Dispatcher.cpp), whoever makes and drops objects.    *)
THEOREM RegistrySafe == Spec => []RegistryInv
<1>1. Init => RegistryInv /\ play \in Plays
    BY RegistryStart DEF Init
<1>2. (RegistryInv /\ play \in Plays) /\ [Next]_vars => (RegistryInv /\ play \in Plays)'
    BY RegistryStep
<1> QED
    BY <1>1, <1>2, PTL DEF Spec

(* A look-up that has the raw pointer in hand never finds freed memory     *)
(* behind it, and a call works on an object that lives, whoever drops his  *)
(* reference meanwhile.                                                    *)
THEOREM NothingDangles == Spec => []NoDanglingObject
<1>1. RegistryInv => NoDanglingObject
    BY DEF RegistryInv, NoDanglingObject, ReadersOK, LifeOK, ThreadsOK, Living, Looking, At, Thread
<1> QED
    BY <1>1, RegistrySafe, PTL

(* Every living object is found under a number of its own, and what the    *)
(* allocator counts is what is in use.                                     *)
THEOREM ObjectsAreFound == Spec => []EveryObjectIsFound
<1>1. RegistryInv => EveryObjectIsFound
  <2> SUFFICES ASSUME RegistryInv PROVE EveryObjectIsFound
    OBVIOUS
  <2>1. ASSUME NEW o \in Obj, life[o] = "alive"
        PROVE  id[o] # Unknown /\ id[o] \in DOMAIN map /\ map[id[o]] = o /\ o \in points
    BY <2>1 DEF RegistryInv, MapOK, InMap, NumbersOK, InUse, Living, Reserved, Unknown, PlugInID
  <2>2. InUse = {x \in Obj \ {PlugIn} : life[x] \notin {"unborn", "gone"}}
    BY DEF InUse, Living
  <2>3. alloc.bits = {id[o] : o \in {x \in Obj \ {PlugIn} : life[x] \notin {"unborn", "gone"}}}
    BY <2>2 DEF RegistryInv, NumbersOK
  <2> QED
    BY <2>1, <2>3 DEF EveryObjectIsFound, RegistryInv, NumbersOK
<1> QED
    BY <1>1, RegistrySafe, PTL

-----------------------------------------------------------------------------
(* The handlers: what each says of a selector.                             *)

Classes == {"PlugIn", "Device", "Stream", "Volume", "Mute"}
TablesOf(class) == OwnSizes(class) \cup {ObjectSize}

LEMMA TableDomains ==
    /\ \A s : s \in DOMAIN ObjectSize <=> ObjectHas(s)
    /\ \A s : s \in DOMAIN PluginSize <=> PluginHas(s)
    /\ \A s : s \in DOMAIN NamesSize <=> NamesHas(s)
    /\ \A s : s \in DOMAIN DetailsSize <=> DetailsHas(s)
    /\ \A s : s \in DOMAIN ClockSize <=> ClockHas(s)
    /\ \A s : s \in DOMAIN DelaySize <=> s \in {"Latency", "SafetyOffset"}
    /\ \A s : s \in DOMAIN RatesSize <=>
         s \in {"ZeroTimeStampPeriod", "NominalSampleRate", "AvailableNominalSampleRates",
                "PreferredChannelsForStereo", "PreferredChannelLayout"}
    /\ \A s : s \in DOMAIN StateSize <=>
         s \in {"DeviceIsRunning", "Identify", "DeviceIsAlive", "IsHidden", "CanBeDefaultDevice",
                "CanBeDefaultSystemDevice"}
    /\ \A s : s \in DOMAIN ListsSize <=> ListsHas(s)
    /\ \A s : s \in DOMAIN StreamSize <=> StreamHas(s)
    /\ \A s : s \in DOMAIN VolumeSize <=> VolumeHas(s)
    /\ \A s : s \in DOMAIN MuteSize <=> MuteHas(s)
<1>1. DOMAIN ObjectSize = {"Class", "BaseClass", "Owner", "OwnedObjects", "CustomPropertyInfoList"}
  BY DEF ObjectSize
<1>2. DOMAIN PluginSize = {"Manufacturer", "ResourceBundle", "DeviceList", "TranslateUIDToDevice"}
  BY DEF PluginSize
<1>3. DOMAIN NamesSize = {"Name", "Manufacturer", "DeviceUID", "ModelUID"}
  BY DEF NamesSize
<1>4. DOMAIN DetailsSize = {"SerialNumber", "FirmwareVersion", "Icon", "ConfigurationApplication"}
  BY DEF DetailsSize
<1>5. DOMAIN ClockSize = {"TransportType", "RelatedDevices", "ClockIsStable", "ClockAlgorithm",
                          "ClockDomain"}
  BY DEF ClockSize
<1>6. DOMAIN DelaySize = {"Latency", "SafetyOffset"}
  BY DEF DelaySize
<1>7. DOMAIN RatesSize = {"ZeroTimeStampPeriod", "NominalSampleRate", "AvailableNominalSampleRates",
                          "PreferredChannelsForStereo", "PreferredChannelLayout"}
  BY DEF RatesSize
<1>8. DOMAIN StateSize = {"DeviceIsRunning", "Identify", "DeviceIsAlive", "IsHidden",
                          "CanBeDefaultDevice", "CanBeDefaultSystemDevice"}
  BY DEF StateSize
<1>9. DOMAIN ListsSize = {"Streams", "ControlList"}
  BY DEF ListsSize
<1>10. DOMAIN StreamSize = {"IsActive", "Direction", "TerminalType", "StartingChannel", "Latency",
                            "PhysicalFormat", "VirtualFormat", "AvailablePhysicalFormats",
                            "AvailableVirtualFormats"}
  BY DEF StreamSize
<1>11. DOMAIN VolumeSize = {"ControlScope", "ControlElement", "ScalarValue", "DecibelValue",
                            "DecibelRange", "ConvertScalarToDecibels", "ConvertDecibelsToScalar"}
  BY DEF VolumeSize
<1>12. DOMAIN MuteSize = {"ControlScope", "ControlElement", "BooleanValue"}
  BY DEF MuteSize
<1> QED BY <1>1, <1>2, <1>3, <1>4, <1>5, <1>6, <1>7, <1>8, <1>9, <1>10, <1>11, <1>12, Zenon
        DEF ObjectHas, PluginHas, NamesHas, DetailsHas, ClockHas, ListsHas, StreamHas, VolumeHas, MuteHas

\* The sizes of the values.
LEMMA TableSizes ==
    /\ \A s : ObjectHas(s) => ObjectSize[s] = IF s = "CustomPropertyInfoList" THEN 12 ELSE 4
    /\ \A s : PluginHas(s) => PluginSize[s] \in {4, 8}
    /\ \A s : NamesHas(s) => NamesSize[s] = 8
    /\ \A s : DetailsHas(s) => DetailsSize[s] = 8
    /\ \A s : ClockHas(s) => ClockSize[s] = 4
    /\ \A s \in {"Latency", "SafetyOffset"} : DelaySize[s] = 4
    /\ RatesSize["ZeroTimeStampPeriod"] = 4 /\ RatesSize["NominalSampleRate"] = 8
    /\ RatesSize["AvailableNominalSampleRates"] = 16 /\ RatesSize["PreferredChannelsForStereo"] = 4
    /\ RatesSize["PreferredChannelLayout"] = 1
    /\ \A s \in {"DeviceIsRunning", "Identify", "DeviceIsAlive", "IsHidden", "CanBeDefaultDevice",
                 "CanBeDefaultSystemDevice"} : StateSize[s] = 4
    /\ \A s : ListsHas(s) => ListsSize[s] = 4
    /\ \A s : StreamHas(s) =>
         StreamSize[s] = CASE s \in {"PhysicalFormat", "VirtualFormat"} -> 40
                           [] s \in {"AvailablePhysicalFormats", "AvailableVirtualFormats"} -> 56
                           [] OTHER -> 4
    /\ \A s : VolumeHas(s) => VolumeSize[s] = IF s = "DecibelRange" THEN 16 ELSE 4
    /\ \A s : MuteHas(s) => MuteSize[s] = 4
<1> USE DEF Ref, Word, Double, ValueRange, Format, RangedFormat, CustomInfo
<1>1. \A s : ObjectHas(s) => ObjectSize[s] = IF s = "CustomPropertyInfoList" THEN 12 ELSE 4
  BY DEF ObjectHas, ObjectSize
<1>2. \A s : PluginHas(s) => PluginSize[s] \in {4, 8}
  BY DEF PluginHas, PluginSize
<1>3. \A s : NamesHas(s) => NamesSize[s] = 8
  BY DEF NamesHas, NamesSize
<1>4. \A s : DetailsHas(s) => DetailsSize[s] = 8
  BY DEF DetailsHas, DetailsSize
<1>5. \A s : ClockHas(s) => ClockSize[s] = 4
  BY DEF ClockHas, ClockSize
<1>6. \A s \in {"Latency", "SafetyOffset"} : DelaySize[s] = 4
  BY DEF DelaySize
<1>7. /\ RatesSize["ZeroTimeStampPeriod"] = 4 /\ RatesSize["NominalSampleRate"] = 8
      /\ RatesSize["AvailableNominalSampleRates"] = 16 /\ RatesSize["PreferredChannelsForStereo"] = 4
      /\ RatesSize["PreferredChannelLayout"] = 1
  BY DEF RatesSize
<1>8. \A s \in {"DeviceIsRunning", "Identify", "DeviceIsAlive", "IsHidden", "CanBeDefaultDevice",
                "CanBeDefaultSystemDevice"} : StateSize[s] = 4
  BY DEF StateSize
<1>9. \A s : ListsHas(s) => ListsSize[s] = 4
  BY DEF ListsHas, ListsSize
<1>10. \A s : StreamHas(s) =>
         StreamSize[s] = CASE s \in {"PhysicalFormat", "VirtualFormat"} -> 40
                           [] s \in {"AvailablePhysicalFormats", "AvailableVirtualFormats"} -> 56
                           [] OTHER -> 4
  BY DEF StreamHas, StreamSize
<1>11. \A s : VolumeHas(s) => VolumeSize[s] = IF s = "DecibelRange" THEN 16 ELSE 4
  BY DEF VolumeHas, VolumeSize
<1>12. \A s : MuteHas(s) => MuteSize[s] = 4
  BY DEF MuteHas, MuteSize
<1> QED BY <1>1, <1>2, <1>3, <1>4, <1>5, <1>6, <1>7, <1>8, <1>9, <1>10, <1>11, <1>12

\* No selector is in two tables of a class.
LEMMA OneTable ==
    ASSUME NEW class \in Classes, NEW s, NEW t \in TablesOf(class), NEW u \in TablesOf(class), In(t, s), In(u, s)
    PROVE  t = u
<1> USE TableDomains DEF In, TablesOf, OwnSizes, ObjectHas
<1>1. CASE class = "PlugIn"
  BY <1>1 DEF PluginHas
<1>2. CASE class = "Device"
  BY <1>2 DEF NamesHas, DetailsHas, ClockHas, ListsHas
<1>3. CASE class = "Stream"
  BY <1>3 DEF StreamHas
<1>4. CASE class = "Volume"
  BY <1>4 DEF VolumeHas
<1>5. CASE class = "Mute"
  BY <1>5 DEF MuteHas
<1> QED BY <1>1, <1>2, <1>3, <1>4, <1>5 DEF Classes

\* The size of an element, of a list or of the only one.
EltSize(class, s) ==
    LET tables == {t \in TablesOf(class) : In(t, s)}
    IN  IF tables = {} THEN Ref ELSE (CHOOSE t \in tables : TRUE)[s]

LEMMA BuiltIn ==
    ASSUME NEW class \in Classes, NEW cu, NEW s, NEW scope, NEW n, NEW t \in TablesOf(class), In(t, s)
    PROVE  /\ Size(class, cu, s, n) = Ok(IF s \in Lists THEN t[s] * n ELSE t[s])
           /\ EltSize(class, s) = t[s]
<1>1. (CHOOSE u \in TablesOf(class) : In(u, s)) = t
  BY OneTable
<1>2. (CHOOSE u \in {v \in TablesOf(class) : In(v, s)} : TRUE) = t
  BY OneTable
<1>3. Own(class, s) \/ In(ObjectSize, s)
  BY DEF TablesOf, Own
<1>4. Size(class, cu, s, n) = Ok(IF s \in Lists THEN t[s] * n ELSE t[s])
  BY <1>1, <1>3 DEF Size, TablesOf
<1>5. EltSize(class, s) = t[s]
  BY <1>2 DEF EltSize
<1> QED BY <1>4, <1>5

\* What a handler gives for a selector of its own.
Given(t, s, n, in) ==
    IF s \notin Lists THEN GetOne(t[s], in)
    ELSE IF s = "PreferredChannelLayout" THEN GetWhole(n, in)
    ELSE GetList(t[s], n, in)

LEMMA GivenByObject ==
    ASSUME NEW class \in Classes, NEW cu, NEW s, NEW n, NEW in, In(ObjectSize, s)
    PROVE  Get(class, cu, s, n, Ref, in) = Given(ObjectSize, s, n, in)
<1>1. ObjectHas(s) /\ ~PluginHas(s) /\ ~NamesHas(s) /\ ~DetailsHas(s) /\ ~ClockHas(s)
      /\ ~ListsHas(s) /\ ~StreamHas(s) /\ ~VolumeHas(s) /\ ~MuteHas(s) /\ ~In(DelaySize, s) /\ ~In(RatesSize, s) /\ ~In(StateSize, s)
  BY TableDomains DEF In, ObjectHas, PluginHas, NamesHas, DetailsHas, ClockHas, ListsHas, StreamHas,
     VolumeHas, MuteHas
<1>2. ~In(NamesSize, s) /\ ~In(DetailsSize, s) /\ ~In(ClockSize, s) /\ ~In(ListsSize, s) /\ ~In(StreamSize, s)
      /\ ~In(VolumeSize, s) /\ ~In(MuteSize, s)
  BY <1>1, TableDomains DEF In
<1> QED BY <1>1, <1>2 DEF Get, Given, Lists, ObjectHas, PluginHas, StreamHas, VolumeHas, ObjectGet,
     ObjectGetLists

LEMMA GivenByPlugin ==
    ASSUME NEW cu, NEW s, NEW n, NEW in, In(PluginSize, s)
    PROVE  Get("PlugIn", cu, s, n, Ref, in) = Given(PluginSize, s, n, in)
<1>1. PluginHas(s) /\ ~ObjectHas(s)
  BY TableDomains DEF In, ObjectHas, PluginHas
<1> QED BY <1>1 DEF Get, Given, Lists, ObjectHas, PluginHas, PluginGet, PluginGetDevices, PluginTranslate

LEMMA GivenByDevice ==
    ASSUME NEW t \in OwnSizes("Device"), NEW cu, NEW s, NEW n, NEW in, In(t, s)
    PROVE  Get("Device", cu, s, n, Ref, in) = Given(t, s, n, in)
<1>1. t \in {NamesSize, DetailsSize, ClockSize, DelaySize, RatesSize, StateSize, ListsSize}
  BY DEF OwnSizes
<1>2. CASE t = NamesSize
  <2>1. ~ObjectHas(s)
    BY <1>2, TableDomains DEF In, ObjectHas, NamesHas, DetailsHas, ClockHas, ListsHas
  <2>2. ~In(DetailsSize, s) /\ ~In(ClockSize, s) /\ ~In(DelaySize, s)
        /\ ~In(RatesSize, s) /\ ~In(StateSize, s) /\ ~In(ListsSize, s)
    BY <1>2, TableDomains DEF In, NamesHas, DetailsHas, ClockHas, ListsHas
  <2>3. Get("Device", cu, s, n, Ref, in) = NamesGet(s, in)
    BY <1>2, <2>1, <2>2 DEF Get, ObjectHas
  <2> QED
    BY <1>2, <2>3, TableDomains DEF In, Given, Lists, NamesGet, NamesHas, DetailsHas, ClockHas, ListsHas
<1>3. CASE t = DetailsSize
  <2>1. ~ObjectHas(s)
    BY <1>3, TableDomains DEF In, ObjectHas, NamesHas, DetailsHas, ClockHas, ListsHas
  <2>2. ~In(NamesSize, s) /\ ~In(ClockSize, s) /\ ~In(DelaySize, s)
        /\ ~In(RatesSize, s) /\ ~In(StateSize, s) /\ ~In(ListsSize, s)
    BY <1>3, TableDomains DEF In, NamesHas, DetailsHas, ClockHas, ListsHas
  <2>3. Get("Device", cu, s, n, Ref, in) = DetailsGet(s, in)
    BY <1>3, <2>1, <2>2 DEF Get, ObjectHas
  <2> QED
    BY <1>3, <2>3, TableDomains DEF In, Given, Lists, DetailsGet, NamesHas, DetailsHas, ClockHas, ListsHas
<1>4. CASE t = ClockSize
  <2>1. ~ObjectHas(s)
    BY <1>4, TableDomains DEF In, ObjectHas, NamesHas, DetailsHas, ClockHas, ListsHas
  <2>2. ~In(NamesSize, s) /\ ~In(DetailsSize, s) /\ ~In(DelaySize, s)
        /\ ~In(RatesSize, s) /\ ~In(StateSize, s) /\ ~In(ListsSize, s)
    BY <1>4, TableDomains DEF In, NamesHas, DetailsHas, ClockHas, ListsHas
  <2>3. Get("Device", cu, s, n, Ref, in) = ClockGet(s, n, in)
    BY <1>4, <2>1, <2>2 DEF Get, ObjectHas
  <2> QED
    BY <1>4, <2>3, TableDomains DEF In, Given, Lists, ClockGet, NamesHas, DetailsHas, ClockHas, ListsHas
<1>5. CASE t = DelaySize
  <2>1. ~ObjectHas(s)
    BY <1>5, TableDomains DEF In, ObjectHas, NamesHas, DetailsHas, ClockHas, ListsHas
  <2>2. ~In(NamesSize, s) /\ ~In(DetailsSize, s) /\ ~In(ClockSize, s)
        /\ ~In(RatesSize, s) /\ ~In(StateSize, s) /\ ~In(ListsSize, s)
    BY <1>5, TableDomains DEF In, NamesHas, DetailsHas, ClockHas, ListsHas
  <2>3. Get("Device", cu, s, n, Ref, in) = DelayGet(s, in)
    BY <1>5, <2>1, <2>2 DEF Get, ObjectHas
  <2> QED
    BY <1>5, <2>3, TableDomains DEF In, Given, Lists, DelayGet, NamesHas, DetailsHas, ClockHas, ListsHas
<1>6. CASE t = RatesSize
  <2>1. ~ObjectHas(s)
    BY <1>6, TableDomains DEF In, ObjectHas, NamesHas, DetailsHas, ClockHas, ListsHas
  <2>2. ~In(NamesSize, s) /\ ~In(DetailsSize, s) /\ ~In(ClockSize, s)
        /\ ~In(DelaySize, s) /\ ~In(StateSize, s) /\ ~In(ListsSize, s)
    BY <1>6, TableDomains DEF In, NamesHas, DetailsHas, ClockHas, ListsHas
  <2>3. Get("Device", cu, s, n, Ref, in) = RatesGet(s, n, in)
    BY <1>6, <2>1, <2>2 DEF Get, ObjectHas
  <2> QED
    BY <1>6, <2>3, TableDomains DEF In, Given, Lists, RatesGet, NamesHas, DetailsHas, ClockHas, ListsHas
<1>7. CASE t = StateSize
  <2>1. ~ObjectHas(s)
    BY <1>7, TableDomains DEF In, ObjectHas, NamesHas, DetailsHas, ClockHas, ListsHas
  <2>2. ~In(NamesSize, s) /\ ~In(DetailsSize, s) /\ ~In(ClockSize, s)
        /\ ~In(DelaySize, s) /\ ~In(RatesSize, s) /\ ~In(ListsSize, s)
    BY <1>7, TableDomains DEF In, NamesHas, DetailsHas, ClockHas, ListsHas
  <2>3. Get("Device", cu, s, n, Ref, in) = StateGet(s, in)
    BY <1>7, <2>1, <2>2 DEF Get, ObjectHas
  <2> QED
    BY <1>7, <2>3, TableDomains DEF In, Given, Lists, StateGet, NamesHas, DetailsHas, ClockHas, ListsHas
<1>8. CASE t = ListsSize
  <2>1. ~ObjectHas(s)
    BY <1>8, TableDomains DEF In, ObjectHas, NamesHas, DetailsHas, ClockHas, ListsHas
  <2>2. ~In(NamesSize, s) /\ ~In(DetailsSize, s) /\ ~In(ClockSize, s)
        /\ ~In(DelaySize, s) /\ ~In(RatesSize, s) /\ ~In(StateSize, s)
    BY <1>8, TableDomains DEF In, NamesHas, DetailsHas, ClockHas, ListsHas
  <2>3. Get("Device", cu, s, n, Ref, in) = ListsGet(s, n, in)
    BY <1>8, <2>1, <2>2 DEF Get, ObjectHas
  <2> QED
    BY <1>8, <2>3, TableDomains DEF In, Given, Lists, ListsGet, NamesHas, DetailsHas, ClockHas, ListsHas
<1> QED BY <1>1, <1>2, <1>3, <1>4, <1>5, <1>6, <1>7, <1>8

LEMMA GivenByStream ==
    ASSUME NEW cu, NEW s, NEW n, NEW in, In(StreamSize, s)
    PROVE  Get("Stream", cu, s, n, Ref, in) = Given(StreamSize, s, n, in)
<1>1. StreamHas(s) /\ ~ObjectHas(s)
  BY TableDomains DEF In, ObjectHas, StreamHas
<1>2. CASE s \in {"IsActive", "Direction", "TerminalType", "StartingChannel", "Latency"}
  <2>1. Get("Stream", cu, s, n, Ref, in) = StreamGet(s, in)
    BY <1>2 DEF Get
  <2> QED BY <1>2, <2>1 DEF Given, Lists, StreamGet
<1>3. CASE s \in {"PhysicalFormat", "VirtualFormat", "AvailablePhysicalFormats", "AvailableVirtualFormats"}
  <2>1. Get("Stream", cu, s, n, Ref, in) = StreamGetFormats(s, n, in)
    BY <1>3 DEF Get
  <2> QED BY <1>3, <2>1 DEF Given, Lists, StreamGetFormats
<1> QED BY <1>1, <1>2, <1>3 DEF StreamHas

LEMMA GivenByVolume ==
    ASSUME NEW cu, NEW s, NEW n, NEW in, In(VolumeSize, s)
    PROVE  Get("Volume", cu, s, n, Ref, in) = Given(VolumeSize, s, n, in)
<1>1. VolumeHas(s) /\ ~ObjectHas(s)
  BY TableDomains DEF In, ObjectHas, VolumeHas
<1> QED BY <1>1 DEF Get, Given, Lists, ObjectHas, VolumeHas, VolumeGet, VolumeConvert

LEMMA GivenByMute ==
    ASSUME NEW cu, NEW s, NEW n, NEW in, In(MuteSize, s)
    PROVE  Get("Mute", cu, s, n, Ref, in) = Given(MuteSize, s, n, in)
<1>1. MuteHas(s) /\ ~ObjectHas(s)
  BY TableDomains DEF In, ObjectHas, MuteHas
<1> QED BY <1>1 DEF Get, Given, Lists, ObjectHas, MuteHas, MuteGet

LEMMA WholeElements ==
    ASSUME NEW k \in {4, 12, 16, 56}, NEW n \in Nat, NEW in \in Nat
    PROVE  LET bytes == k * (IF in \div k < n THEN in \div k ELSE n)
           IN  k * n \in Nat /\ bytes \in 0 .. in /\ bytes % k = 0 /\ (in = k * n => bytes = k * n)
OBVIOUS

\* The value given fits the buffer, in whole elements, and a buffer of the
\* size told takes all of it.
LEMMA GivenFits ==
    ASSUME NEW class \in Classes, NEW t \in TablesOf(class), NEW s, In(t, s), NEW n \in Nat, NEW in \in Nat
    PROVE  LET size == IF s \in Lists THEN t[s] * n ELSE t[s]
               got == Given(t, s, n, in)
           IN  /\ size \in Nat /\ got.bytes \in 0 .. in /\ got.bytes % t[s] = 0
               /\ in = size => got = Ok(size)
<1>1. t[s] \in {1, 4, 8, 12, 16, 40, 56}
  BY TableDomains, TableSizes DEF In, TablesOf, OwnSizes, Classes, ObjectHas
<1>2. s \in Lists /\ s # "PreferredChannelLayout" => t[s] \in {4, 12, 16, 56}
  <2>1. CASE t = ObjectSize
    BY <2>1, TableDomains, TableSizes DEF In, Lists, ObjectHas
  <2>2. CASE class = "PlugIn" /\ t = PluginSize
    <3>1. s = "DeviceList" => t[s] = 4
      BY <2>2 DEF PluginSize, Word
    <3> QED BY <2>2, <3>1, TableDomains DEF In, Lists, PluginHas
  <2>3. CASE class = "Device" /\ t # ObjectSize
    <3>1. t \in {NamesSize, DetailsSize, ClockSize, DelaySize, RatesSize, StateSize, ListsSize}
      BY <2>3 DEF TablesOf, OwnSizes
    <3>2. CASE t \in {NamesSize, DetailsSize, ClockSize, DelaySize, StateSize, ListsSize}
      BY <3>2, TableDomains, TableSizes DEF In, Lists, NamesHas, DetailsHas, ClockHas, ListsHas
    <3>3. CASE t = RatesSize
      BY <3>3, TableDomains, TableSizes DEF In, Lists
    <3> QED BY <3>1, <3>2, <3>3
  <2>4. CASE class = "Stream" /\ t = StreamSize
    BY <2>4, TableDomains, TableSizes DEF In, Lists, StreamHas
  <2>5. CASE class = "Volume" /\ t = VolumeSize
    BY <2>5, TableDomains DEF In, Lists, VolumeHas
  <2>6. CASE class = "Mute" /\ t = MuteSize
    BY <2>6, TableDomains DEF In, Lists, MuteHas
  <2> QED BY <2>1, <2>2, <2>3, <2>4, <2>5, <2>6 DEF TablesOf, OwnSizes, Classes
<1>3. s = "PreferredChannelLayout" => s \in Lists /\ t[s] = 1
  BY TableDomains, TableSizes DEF In, Lists, TablesOf, OwnSizes, Classes, ObjectHas, PluginHas, NamesHas,
     DetailsHas, ClockHas, ListsHas, StreamHas, VolumeHas, MuteHas
<1>4. CASE s \notin Lists
  BY <1>1, <1>4 DEF Given, GetOne, Ok, Error
<1>5. CASE s = "PreferredChannelLayout"
  BY <1>3, <1>5 DEF Given, GetWhole, Ok, Error
<1>6. CASE s \in Lists /\ s # "PreferredChannelLayout"
  BY <1>2, <1>6, WholeElements DEF Given, GetList, Ok
<1> QED BY <1>4, <1>5, <1>6

\* The selectors a class can set.
SettersOf(class) ==
    CASE class = "Device" -> {"NominalSampleRate", "Identify"}
      [] class = "Stream" -> {"IsActive", "PhysicalFormat", "VirtualFormat"}
      [] class = "Volume" -> {"ScalarValue", "DecibelValue"}
      [] class = "Mute" -> {"BooleanValue"}
      [] OTHER -> {}

LEMMA SettableByTable ==
    ASSUME NEW class \in Classes, NEW cu, NEW s, NEW t \in TablesOf(class), In(t, s)
    PROVE  LET told == Settable(class, cu, s)
           IN  told.status = "ok" /\ (told.settable <=> s \in SettersOf(class))
<1> DEFINE settable == \E u \in SettableOf(class) \cup {ObjectSettable} : In(u, s) /\ u[s]
<1>1. Own(class, s) \/ In(ObjectSettable, s)
  BY TableDomains DEF TablesOf, Own, In, ObjectSettable, ObjectHas
<1>2. ~(In(ObjectSettable, s) /\ ObjectSettable[s])
  BY DEF In, ObjectSettable
<1>3. settable <=> s \in SettersOf(class)
  <2>1. CASE class = "PlugIn"
    BY <1>2, <2>1 DEF SettersOf, SettableOf, In, PluginSettable
  <2>2. CASE class = "Device"
    <3>1. settable <=> \E u \in {RatesSettable, StateSettable} : In(u, s) /\ u[s]
      BY <1>2, <2>2 DEF SettableOf, In, NamesSettable, DetailsSettable, ClockSettable, DelaySettable,
         ListsSettable
    <3>2. In(RatesSettable, s) /\ RatesSettable[s] <=> s = "NominalSampleRate"
      BY TableDomains DEF In, RatesSettable
    <3>3. In(StateSettable, s) /\ StateSettable[s] <=> s = "Identify"
      BY TableDomains DEF In, StateSettable
    <3> QED BY <2>2, <3>1, <3>2, <3>3 DEF SettersOf
  <2>3. CASE class = "Stream"
    <3>1. settable <=> In(StreamSettable, s) /\ StreamSettable[s]
      BY <1>2, <2>3 DEF SettableOf
    <3>2. In(StreamSettable, s) <=> In(StreamSize, s)
      BY DEF In, StreamSettable
    <3>3. In(StreamSettable, s) => (StreamSettable[s] <=> s \in SettersOf(class))
      BY <2>3 DEF In, StreamSettable, SettersOf
    <3>4. s \in SettersOf(class) => In(StreamSize, s)
      BY <2>3, TableDomains DEF In, SettersOf, StreamHas
    <3> QED BY <3>1, <3>2, <3>3, <3>4
  <2>4. CASE class = "Volume"
    <3>1. settable <=> In(VolumeSettable, s) /\ VolumeSettable[s]
      BY <1>2, <2>4 DEF SettableOf
    <3>2. In(VolumeSettable, s) <=> In(VolumeSize, s)
      BY DEF In, VolumeSettable
    <3>3. In(VolumeSettable, s) => (VolumeSettable[s] <=> s \in SettersOf(class))
      BY <2>4 DEF In, VolumeSettable, SettersOf
    <3>4. s \in SettersOf(class) => In(VolumeSize, s)
      BY <2>4, TableDomains DEF In, SettersOf, VolumeHas
    <3> QED BY <3>1, <3>2, <3>3, <3>4
  <2>5. CASE class = "Mute"
    <3>1. settable <=> In(MuteSettable, s) /\ MuteSettable[s]
      BY <1>2, <2>5 DEF SettableOf
    <3>2. In(MuteSettable, s) <=> In(MuteSize, s)
      BY DEF In, MuteSettable
    <3>3. In(MuteSettable, s) => (MuteSettable[s] <=> s \in SettersOf(class))
      BY <2>5 DEF In, MuteSettable, SettersOf
    <3>4. s \in SettersOf(class) => In(MuteSize, s)
      BY <2>5, TableDomains DEF In, SettersOf, MuteHas
    <3> QED BY <3>1, <3>2, <3>3, <3>4
  <2> QED BY <2>1, <2>2, <2>3, <2>4, <2>5 DEF Classes
<1>4. Settable(class, cu, s) = [status |-> "ok", settable |-> settable]
  BY <1>1 DEF Settable
<1>5. Settable(class, cu, s).status = "ok" /\ Settable(class, cu, s).settable = settable
  BY <1>4
<1> QED BY <1>3, <1>5

LEMMA SetByTable ==
    ASSUME NEW class \in Classes, NEW cu, NEW s, NEW t \in TablesOf(class), In(t, s), s \notin DOMAIN cu, NEW in
    PROVE  Set(class, cu, s, in).status = "ok" <=> s \in SettersOf(class) /\ in = t[s]
<1>1. CASE s \notin SettersOf(class)
  <2>1. Set(class, cu, s, in) = SetCustom(cu, s, in)
    BY <1>1 DEF Set, SettersOf
  <2> QED BY <1>1, <2>1 DEF SetCustom, In, Error
<1>2. CASE s \in SettersOf(class)
  <2>1. s \notin {"Class", "BaseClass", "Owner", "OwnedObjects", "CustomPropertyInfoList"}
    BY <1>2 DEF SettersOf, Classes
  <2>2. t # ObjectSize
    BY <2>1, TableDomains DEF In, ObjectHas
  <2>3. CASE class = "Device"
    <3>1. Set(class, cu, s, in) = SetOne(t[s], in)
      BY <1>2, <2>2, <2>3, TableDomains, TableSizes DEF In, Set, SettersOf, DeviceSet, Double, Word,
         TablesOf, OwnSizes, NamesHas, DetailsHas, ClockHas, ListsHas
    <3> QED BY <1>2, <3>1 DEF SetOne, Ok, Error
  <2>4. CASE class = "Stream"
    <3>1. Set(class, cu, s, in) = SetOne(t[s], in)
      BY <1>2, <2>2, <2>4, TableDomains, TableSizes DEF In, Set, SettersOf, StreamSet, Format, Word,
         TablesOf, OwnSizes, StreamHas
    <3> QED BY <1>2, <3>1 DEF SetOne, Ok, Error
  <2>5. CASE class = "Volume"
    <3>1. Set(class, cu, s, in) = SetOne(t[s], in)
      BY <1>2, <2>2, <2>5, TableDomains, TableSizes DEF In, Set, SettersOf, VolumeSet, Word, TablesOf,
         OwnSizes, VolumeHas
    <3> QED BY <1>2, <3>1 DEF SetOne, Ok, Error
  <2>6. CASE class = "Mute"
    <3>1. Set(class, cu, s, in) = SetOne(t[s], in)
      BY <1>2, <2>2, <2>6, TableDomains, TableSizes DEF In, Set, SettersOf, MuteSet, Word, TablesOf,
         OwnSizes, MuteHas
    <3> QED BY <1>2, <3>1 DEF SetOne, Ok, Error
  <2> QED BY <1>2, <2>3, <2>4, <2>5, <2>6 DEF SettersOf, Classes
<1> QED BY <1>1, <1>2

\* A selector in no table is a custom property's or nobody's.
LEMMA NoTable ==
    ASSUME NEW class \in Classes, NEW cu, NEW s, NEW scope, NEW n, NEW in,
           \A t \in TablesOf(class) : ~In(t, s)
    PROVE  /\ Has(class, cu, s, scope) <=> HasCustom(cu, s)
           /\ Settable(class, cu, s) = SettableCustom(cu, s)
           /\ Size(class, cu, s, n) = SizeCustom(cu, s)
           /\ Get(class, cu, s, n, Ref, in) = GetCustom(cu, s, in)
           /\ Set(class, cu, s, in) = SetCustom(cu, s, in)
           /\ EltSize(class, s) = Ref
<1>1. ~Own(class, s) /\ ~In(ObjectSize, s) /\ ~ObjectHas(s) /\ ~In(ObjectSettable, s)
  BY TableDomains DEF TablesOf, Own, In, ObjectSettable, ObjectHas
<1>2. /\ Has(class, cu, s, scope) <=> HasCustom(cu, s)
      /\ Settable(class, cu, s) = SettableCustom(cu, s)
      /\ Size(class, cu, s, n) = SizeCustom(cu, s)
  BY <1>1 DEF Has, Settable, Size
<1>3. EltSize(class, s) = Ref
  BY DEF EltSize
<1>4. /\ class = "PlugIn" => ~In(PluginSize, s)
      /\ class = "Device" => /\ ~In(NamesSize, s) /\ ~In(DetailsSize, s) /\ ~In(ClockSize, s)
                             /\ ~In(DelaySize, s) /\ ~In(RatesSize, s) /\ ~In(StateSize, s) /\ ~In(ListsSize, s)
      /\ class = "Stream" => ~In(StreamSize, s)
      /\ class = "Volume" => ~In(VolumeSize, s)
      /\ class = "Mute" => ~In(MuteSize, s)
  BY DEF TablesOf, OwnSizes
<1>5. Get(class, cu, s, n, Ref, in) = GetCustom(cu, s, in)
  <2>1. /\ class = "PlugIn" => s \notin {"DeviceList", "TranslateUIDToDevice", "Manufacturer", "ResourceBundle"}
        /\ class = "Stream" => s \notin {"IsActive", "Direction", "TerminalType", "StartingChannel", "Latency",
             "PhysicalFormat", "VirtualFormat", "AvailablePhysicalFormats", "AvailableVirtualFormats"}
        /\ class = "Volume" => s \notin {"ConvertScalarToDecibels", "ConvertDecibelsToScalar"}
    BY <1>4, TableDomains DEF In, PluginHas, StreamHas, VolumeHas
  <2>2. s \notin {"Class", "BaseClass", "Owner", "OwnedObjects", "CustomPropertyInfoList"}
    BY <1>1 DEF ObjectHas
  <2> QED BY <1>4, <2>1, <2>2 DEF Get
<1>6. Set(class, cu, s, in) = SetCustom(cu, s, in)
  <2>1. /\ class = "Device" => s \notin {"NominalSampleRate", "Identify"}
        /\ class = "Stream" => s \notin {"IsActive", "PhysicalFormat", "VirtualFormat"}
        /\ class = "Volume" => s \notin {"ScalarValue", "DecibelValue"}
        /\ class = "Mute" => s # "BooleanValue"
    BY <1>4, TableDomains DEF In, StreamHas, VolumeHas, MuteHas
  <2> QED BY <2>1 DEF Set
<1> QED BY <1>2, <1>3, <1>5, <1>6

\* The properties of a driver's own that an object may have.
CustomOf(cu, class) ==
    /\ \A s \in DOMAIN cu : cu[s].getter = TRUE
    /\ \A t \in TablesOf(class) : \A s \in DOMAIN cu : ~In(t, s)

\* The handlers agree about any property of any object.
LEMMA HandlersAgree ==
    ASSUME NEW class \in Classes, NEW cu, CustomOf(cu, class), NEW s, NEW scope, NEW n \in Nat
    PROVE  LET size == Size(class, cu, s, n)
               settable == Settable(class, cu, s)
               got(in) == Get(class, cu, s, n, Ref, in)
           IN  /\ Has(class, cu, s, scope) => settable.status = "ok" /\ size.status = "ok"
               /\ size.bytes \in Nat
               /\ \A in \in Nat : got(in).bytes \in 0 .. in
               /\ \A in \in Nat : Has(class, cu, s, scope) =>
                    (in = size.bytes => got(in) = size) /\ got(in).bytes % EltSize(class, s) = 0
               /\ Set(class, cu, s, size.bytes).status = "ok" <=> settable.settable
<1>1. CASE \E t \in TablesOf(class) : In(t, s)
  <2>1. PICK t \in TablesOf(class) : In(t, s)
    BY <1>1
  <2> DEFINE bytes == IF s \in Lists THEN t[s] * n ELSE t[s]
  <2>2. Size(class, cu, s, n) = Ok(bytes) /\ EltSize(class, s) = t[s]
    BY <2>1, BuiltIn
  <2>3. \A in \in Nat : Get(class, cu, s, n, Ref, in) = Given(t, s, n, in)
    <3>1. CASE t = ObjectSize
      BY <2>1, <3>1, GivenByObject
    <3>2. CASE class = "PlugIn" /\ t = PluginSize
      BY <2>1, <3>2, GivenByPlugin
    <3>3. CASE class = "Device" /\ t \in OwnSizes("Device")
      BY <2>1, <3>3, GivenByDevice
    <3>4. CASE class = "Stream" /\ t = StreamSize
      BY <2>1, <3>4, GivenByStream
    <3>5. CASE class = "Volume" /\ t = VolumeSize
      BY <2>1, <3>5, GivenByVolume
    <3>6. CASE class = "Mute" /\ t = MuteSize
      BY <2>1, <3>6, GivenByMute
    <3>7. OwnSizes(class) = CASE class = "PlugIn" -> {PluginSize}
                              [] class = "Device" -> OwnSizes("Device")
                              [] class = "Stream" -> {StreamSize}
                              [] class = "Volume" -> {VolumeSize}
                              [] class = "Mute" -> {MuteSize}
      BY DEF OwnSizes, Classes
    <3> QED BY <3>1, <3>2, <3>3, <3>4, <3>5, <3>6, <3>7 DEF TablesOf, Classes
  <2>4. /\ bytes \in Nat
        /\ \A in \in Nat : /\ Given(t, s, n, in).bytes \in 0 .. in /\ Given(t, s, n, in).bytes % t[s] = 0
                           /\ in = bytes => Given(t, s, n, in) = Ok(bytes)
    BY <2>1, GivenFits
  <2>5. Settable(class, cu, s).status = "ok" /\ (Settable(class, cu, s).settable <=> s \in SettersOf(class))
    BY <2>1, SettableByTable
  <2>6. s \notin DOMAIN cu
    BY <2>1 DEF CustomOf
  <2>7. Set(class, cu, s, bytes).status = "ok" <=> s \in SettersOf(class) /\ bytes = t[s]
    BY <2>1, <2>6, SetByTable
  <2>8. s \in SettersOf(class) => s \notin Lists
    BY DEF SettersOf, Lists, Classes
  <2>9. Ok(bytes).status = "ok" /\ Ok(bytes).bytes = bytes
    BY DEF Ok
  <2> HIDE DEF bytes
  <2>10. s \in SettersOf(class) => bytes = t[s]
    BY <2>8 DEF bytes
  <2> QED BY <2>2, <2>3, <2>4, <2>5, <2>7, <2>9, <2>10
<1>2. CASE \A t \in TablesOf(class) : ~In(t, s)
  <2>1. \A in \in Nat :
           /\ Has(class, cu, s, scope) <=> HasCustom(cu, s)
           /\ Settable(class, cu, s) = SettableCustom(cu, s)
           /\ Size(class, cu, s, n) = SizeCustom(cu, s)
           /\ Get(class, cu, s, n, Ref, in) = GetCustom(cu, s, in)
           /\ Set(class, cu, s, in) = SetCustom(cu, s, in)
           /\ EltSize(class, s) = Ref
    BY <1>2, NoTable
  <2>2. CASE s \in DOMAIN cu
    BY <2>1, <2>2 DEF CustomOf, HasCustom, SettableCustom, SizeCustom, GetCustom, SetCustom, In, Ok, Error,
       GetOne, SetOne, Ref
  <2>3. CASE s \notin DOMAIN cu
    BY <2>1, <2>3 DEF HasCustom, SettableCustom, SizeCustom, GetCustom, SetCustom, In, Ok, Error
  <2> QED BY <2>2, <2>3
<1> QED BY <1>1, <1>2

-----------------------------------------------------------------------------
(* The talks.                                                              *)

\* Of a talk nobody has disturbed: every answer is still the one the object
\* would give.
AnswersStand(t) ==
    LET o == t.obj
        class == Class(o)
        asked == t.step \in {"Settable", "Size", "Get", "Set", "Done"}
    IN  /\ asked /\ t.has => Has(class, custom[o], play.sel, play.scope)
        /\ t.step \in {"Size", "Get", "Set", "Done"} => t.settable = Settable(class, custom[o], play.sel)
        /\ t.step \in {"Get", "Set", "Done"} => t.size = Size(class, custom[o], play.sel, Elements(o))
        /\ t.step \in {"Set", "Done"} =>
             t.got = Get(class, custom[o], play.sel, Elements(o), Ref, t.in)
        /\ t.step = "Done" => t.set = Set(class, custom[o], play.sel, t.size.bytes)

TalkOK(t) ==
    /\ DOMAIN t = DOMAIN Silence
    /\ t.step \in {"Has", "Settable", "Size", "Get", "Set", "Done"}
    /\ t.obj \in Obj \cup {None}
    /\ t.in \in Nat /\ t.size.bytes \in Nat /\ t.got.bytes \in 0 .. t.in
    /\ ~t.changed /\ t.obj # None => AnswersStand(t)

\* A driver's own properties have a getter and numbers of their own.
CustomOK ==
    /\ DOMAIN custom = Obj
    /\ \A o \in Obj : /\ IsFiniteSet(DOMAIN custom[o]) /\ DOMAIN custom[o] \subseteq Custom
                      /\ \A s \in DOMAIN custom[o] : custom[o][s].getter = TRUE

TalkInv ==
    /\ play \in Plays /\ count \in [Obj -> Nat] /\ CustomOK
    /\ DOMAIN talk = Caller /\ \A c \in Caller : TalkOK(talk[c])

LEMMA ElementsCounted == ASSUME TalkInv, NEW o \in Obj PROVE Elements(o) \in Nat /\ Class(o) \in Classes
<1>1. count[o] \in Nat /\ Layout(count[o]) \in Nat
  BY DEF TalkInv, Layout
<1>2. Cardinality(DOMAIN custom[o]) \in Nat
  BY FS_CardinalityType DEF TalkInv, CustomOK
<1>3. play.class \in Classes
  BY BridgeAssumption DEF TalkInv, Classes
<1> QED BY <1>1, <1>2, <1>3 DEF Elements, Class, Classes

\* The driver uses none of the numbers Apple has given to a class's own.
OwnNumbers == \A class \in Classes : Custom \cap Selectors(class) = {}

LEMMA CustomOwn == ASSUME OwnNumbers, TalkInv, NEW o \in Obj PROVE CustomOf(custom[o], Class(o))
<1>1. Class(o) \in Classes
  BY ElementsCounted
<1>2. ASSUME NEW t \in TablesOf(Class(o)), NEW s \in DOMAIN custom[o], In(t, s) PROVE FALSE
  <2>1. s \in Custom
    BY DEF TalkInv, CustomOK
  <2>2. s \in Selectors(Class(o))
    BY <1>2 DEF Selectors, TablesOf, In
  <2> QED BY <1>1, <2>1, <2>2 DEF OwnNumbers
<1> QED BY <1>2 DEF CustomOf, TalkInv, CustomOK

LEMMA Fields ==
    DOMAIN Silence = {"step", "id", "obj", "has", "settable", "size", "in", "got", "set", "changed"}
BY DEF Silence
LEMMA SilenceSays == /\ Silence.step = "Has" /\ Silence.obj = None /\ Silence.in = 0 /\ Silence.size.bytes = 0
                     /\ Silence.got.bytes = 0
BY DEF Silence, Error

LEMMA TalksStart == Init => TalkInv
<1> SUFFICES ASSUME Init PROVE TalkInv
  OBVIOUS
<1>1. CustomOK
  <2>1. \A o \in Obj : DOMAIN custom[o] = {}
    BY DEF Init
  <2> QED BY <2>1, FS_EmptySet DEF Init, CustomOK
<1>3. TalkOK(Silence)
  BY SilenceSays DEF TalkOK
<1> QED BY <1>1, <1>3 DEF Init, TalkInv

\* What the object's handlers answer to c's next question, put into its talk.
LEMMA AnswerStands ==
    ASSUME OwnNumbers, TalkInv, RegistryInv, NEW c \in Caller,
           \/ HasProperty(c) \/ IsPropertySettable(c) \/ GetPropertyDataSize(c)
           \/ GetPropertyData(c) \/ SetPropertyData(c)
    PROVE  TalkOK(talk[c])'
<1> DEFINE o == pc[c].obj
           t == talk[c]
           u == talk'[c]
           class == Class(o)
           cu == custom[o]
           n == Elements(o)
<1>1. o \in Obj /\ UNCHANGED <<play, custom, count>>
  <2>1. pc[c].at = "holds" /\ UNCHANGED <<play, custom, count>>
    BY DEF HasProperty, IsPropertySettable, GetPropertyDataSize, GetPropertyData, SetPropertyData, Answer, At
  <2> QED BY <2>1 DEF RegistryInv, ThreadsOK, Thread
<1>2. TalkOK(t) /\ DOMAIN talk = Caller
  BY DEF TalkInv
<1>3. /\ Size(class, cu, play.sel, n).bytes \in Nat
      /\ \A in \in Nat : Get(class, cu, play.sel, n, Ref, in).bytes \in 0 .. in
  <2>1. class \in Classes /\ CustomOf(cu, class) /\ n \in Nat
    BY <1>1, ElementsCounted, CustomOwn
  <2> QED BY <2>1, HandlersAgree
<1> HIDE DEF class, cu, n
<1>4. CASE HasProperty(c)
  <2>1. /\ DOMAIN u = DOMAIN Silence /\ u.step \in {"Has", "Settable"} /\ u.obj = o /\ u.in = t.in
        /\ u.size = t.size /\ u.got = t.got
        /\ u.has = Has(class, cu, play.sel, play.scope)
    BY <1>2, <1>4, Fields DEF HasProperty, Answer, class, cu, TalkOK
  <2> QED BY <1>1, <1>2, <2>1 DEF TalkOK, AnswersStand, class, cu, Class
<1>5. CASE IsPropertySettable(c)
  <2>1. /\ DOMAIN u = DOMAIN Silence /\ t.step = "Settable" /\ u.step = "Size" /\ u.obj = t.obj /\ u.in = t.in
        /\ u.size = t.size /\ u.got = t.got /\ u.has = t.has
        /\ u.settable = Settable(class, cu, play.sel)
        /\ u.changed <=> t.changed \/ t.obj # o
    BY <1>2, <1>5, Fields DEF IsPropertySettable, Answer, class, cu, TalkOK
  <2> QED BY <1>1, <1>2, <2>1 DEF TalkOK, AnswersStand, class, cu, Class
<1>6. CASE GetPropertyDataSize(c)
  <2>1. /\ DOMAIN u = DOMAIN Silence /\ t.step = "Size" /\ u.step = "Get" /\ u.obj = t.obj /\ u.in = t.in
        /\ u.settable = t.settable /\ u.got = t.got /\ u.has = t.has
        /\ u.size = Size(class, cu, play.sel, n)
        /\ u.changed <=> t.changed \/ t.obj # o
    BY <1>2, <1>6, Fields DEF GetPropertyDataSize, Answer, class, cu, n, TalkOK
  <2> QED BY <1>1, <1>2, <1>3, <2>1, SMTT(30) DEF TalkOK, AnswersStand, class, cu, n, Class, Elements
<1>7. CASE GetPropertyData(c)
  <2>1. PICK in \in {t.size.bytes, t.size.bytes - 1} :
           in >= 0 /\ Answer(c, "Get", "Set", [t EXCEPT !.in = in, !.got = Get(class, cu, play.sel, n, Ref, in)])
    BY <1>7 DEF GetPropertyData, class, cu, n
  <2>2. in \in Nat
    BY <1>2, <2>1 DEF TalkOK
  <2>3. /\ DOMAIN u = DOMAIN Silence /\ t.step = "Get" /\ u.step = "Set" /\ u.obj = t.obj /\ u.in = in
        /\ u.settable = t.settable /\ u.size = t.size /\ u.has = t.has
        /\ u.got = Get(class, cu, play.sel, n, Ref, in)
        /\ u.changed <=> t.changed \/ t.obj # o
    BY <1>2, <2>1, Fields DEF Answer, TalkOK
  <2> QED BY <1>1, <1>2, <1>3, <2>2, <2>3, SMTT(30) DEF TalkOK, AnswersStand, class, cu, n, Class, Elements
<1>8. CASE SetPropertyData(c)
  <2>1. /\ DOMAIN u = DOMAIN Silence /\ t.step = "Set" /\ u.step = "Done" /\ u.obj = t.obj /\ u.in = t.in
        /\ u.settable = t.settable /\ u.size = t.size /\ u.has = t.has /\ u.got = t.got
        /\ u.set = Set(class, cu, play.sel, t.size.bytes)
        /\ u.changed <=> t.changed \/ t.obj # o
    BY <1>2, <1>8, Fields DEF SetPropertyData, Answer, class, cu, TalkOK
  <2> QED BY <1>1, <1>2, <2>1 DEF TalkOK, AnswersStand, class, cu, Class, Elements
<1> QED BY <1>4, <1>5, <1>6, <1>7, <1>8

\* Nothing else of the driver's or of HAL's threads changes what was told.
LEMMA TalkStays ==
    ASSUME NEW c \in Caller, TalkOK(talk[c]), UNCHANGED <<play, custom, count>>, talk'[c] = talk[c]
    PROVE  TalkOK(talk[c])'
BY DEF TalkOK, AnswersStand, Class, Elements

LEMMA SilenceOK ==
    ASSUME NEW c \in Caller, talk'[c] = Silence \/ \E i : talk'[c] = [Silence EXCEPT !.id = i]
    PROVE  TalkOK(talk[c])'
<1>1. /\ DOMAIN talk'[c] = DOMAIN Silence /\ talk'[c].step = "Has" /\ talk'[c].obj = None /\ talk'[c].in = 0
      /\ talk'[c].size.bytes = 0 /\ talk'[c].got.bytes = 0
  BY Fields, SilenceSays
<1> QED BY <1>1 DEF TalkOK

\* The properties f of an object, with s.
WithProperty(f, s, setter) ==
    [x \in DOMAIN f \cup {s} |-> IF x = s THEN [getter |-> TRUE, setter |-> setter] ELSE f[x]]

LEMMA TalksKeep == ASSUME OwnNumbers, TalkInv, RegistryInv, Next PROVE TalkInv'
<1> DEFINE Driven == \E o \in Obj : \/ \E k \in 0 .. MaxElements : ChangeList(o, k)
                                   \/ \E s \in Custom, setter \in BOOLEAN : RegisterCustomProperty(o, s, setter)
<1>1. play' = play /\ play \in Plays /\ DOMAIN talk = Caller /\ DOMAIN custom = Obj /\ count \in [Obj -> Nat]
  <2>1. play' = play
    BY DEF Next, Registry, ChangeList, RegisterCustomProperty, Call, BadObject, HasProperty,
       IsPropertySettable,
           GetPropertyDataSize, GetPropertyData, SetPropertyData, Answer
  <2> QED BY <2>1 DEF TalkInv, CustomOK
<1>2. play.objects \subseteq Obj /\ play.callers \subseteq Caller
  BY <1>1, BridgeAssumption
<1>3. CASE Driven
  <2>1. PICK o \in Obj : /\ Notice(o)
                         /\ \/ /\ UNCHANGED custom /\ \E k \in Nat : count' = [count EXCEPT ![o] = k]
                            \/ /\ UNCHANGED count
                               /\ \E s \in Custom, setter \in BOOLEAN :
                                    custom' = [custom EXCEPT ![o] = WithProperty(@, s, setter)]
    <3>1. ASSUME NEW o \in Obj, NEW k \in 0 .. MaxElements, ChangeList(o, k)
          PROVE  Notice(o) /\ UNCHANGED custom /\ k \in Nat /\ count' = [count EXCEPT ![o] = k]
      BY <3>1, BridgeAssumption DEF ChangeList
    <3>2. ASSUME NEW o \in Obj, NEW s \in Custom, NEW setter \in BOOLEAN, RegisterCustomProperty(o, s, setter)
          PROVE  /\ Notice(o) /\ UNCHANGED count
                 /\ custom' = [custom EXCEPT ![o] = WithProperty(@, s, setter)]
      BY <3>2 DEF RegisterCustomProperty, WithProperty
    <3> QED BY <1>3, <3>1, <3>2
  <2>2. count' \in [Obj -> Nat] /\ DOMAIN custom' = Obj
    BY <1>1, <2>1
  <2>3. CustomOK'
    <3>1. CASE UNCHANGED custom
      BY <3>1 DEF TalkInv, CustomOK
    <3>2. CASE ~UNCHANGED custom
      <4>1. PICK s \in Custom, setter \in BOOLEAN : custom' = [custom EXCEPT ![o] = WithProperty(@, s, setter)]
        BY <2>1, <3>2
      <4>2. ASSUME NEW p \in Obj
            PROVE  /\ IsFiniteSet(DOMAIN custom'[p]) /\ DOMAIN custom'[p] \subseteq Custom
                   /\ \A x \in DOMAIN custom'[p] : custom'[p][x].getter = TRUE
        <5>1. /\ IsFiniteSet(DOMAIN custom[p]) /\ DOMAIN custom[p] \subseteq Custom
              /\ \A x \in DOMAIN custom[p] : custom[p][x].getter = TRUE
          BY DEF TalkInv, CustomOK
        <5>2. CASE p # o
          BY <1>1, <4>1, <5>1, <5>2
        <5>3. CASE p = o
          <6>1. custom'[o] = [x \in DOMAIN custom[o] \cup {s} |->
                                IF x = s THEN [getter |-> TRUE, setter |-> setter] ELSE custom[o][x]]
            BY <1>1, <4>1 DEF WithProperty
          <6>2. IsFiniteSet(DOMAIN custom[o] \cup {s})
            BY <5>1, <5>3, FS_AddElement
          <6> QED BY <5>1, <5>3, <6>1, <6>2
        <5> QED BY <5>2, <5>3
      <4> QED BY <2>2, <4>2 DEF CustomOK
    <3> QED BY <3>1, <3>2
  <2>4. ASSUME NEW c \in Caller PROVE TalkOK(talk[c])'
    <3> DEFINE t == talk[c]
               u == talk'[c]
    <3>1. TalkOK(t)
      BY DEF TalkInv
    <3>2. /\ DOMAIN u = DOMAIN t /\ u.step = t.step /\ u.obj = t.obj /\ u.has = t.has /\ u.settable = t.settable
          /\ u.size = t.size /\ u.in = t.in /\ u.got = t.got /\ u.set = t.set
          /\ u.changed <=> t.changed \/ t.obj = o
      BY <2>1, <3>1, Fields DEF Notice, TalkOK
    <3>3. CASE u.changed \/ u.obj = None
      BY <3>1, <3>2, <3>3 DEF TalkOK
    <3>4. CASE ~u.changed /\ u.obj # None
      <4>1. t.obj \in Obj /\ t.obj # o
        BY <3>1, <3>2, <3>4 DEF TalkOK
      <4>2. custom'[t.obj] = custom[t.obj] /\ count'[t.obj] = count[t.obj]
        BY <1>1, <2>1, <4>1
      <4> QED BY <1>1, <3>1, <3>2, <3>4, <4>2 DEF TalkOK, AnswersStand, Class, Elements
    <3> QED BY <3>3, <3>4
  <2> QED BY <1>1, <2>1, <2>2, <2>3, <2>4 DEF TalkInv, Notice
<1>4. CASE ~Driven
  <2>1. UNCHANGED <<custom, count>> /\ DOMAIN talk' = Caller
    BY <1>1, <1>2, <1>4, ZenonT(30) DEF Next, Registry, Call, BadObject, HasProperty, IsPropertySettable,
       GetPropertyDataSize,
       GetPropertyData, SetPropertyData, Answer
  <2>2. ASSUME NEW c \in Caller PROVE TalkOK(talk[c])'
    <3>1. TalkOK(talk[c])
      BY DEF TalkInv
    <3>2. \/ talk'[c] = talk[c]
          \/ talk'[c] = Silence \/ \E i : talk'[c] = [Silence EXCEPT !.id = i]
          \/ HasProperty(c) \/ IsPropertySettable(c) \/ GetPropertyDataSize(c)
          \/ GetPropertyData(c) \/ SetPropertyData(c)
      <4>1. CASE Registry
        BY <4>1 DEF Registry
      <4>2. ASSUME NEW d \in Caller, Call(d)
            PROVE  talk'[c] = talk[c] \/ \E i : talk'[c] = [Silence EXCEPT !.id = i]
        BY <1>1, <4>2 DEF Call
      <4>3. ASSUME NEW d \in Caller, BadObject(d) PROVE talk'[c] = talk[c] \/ talk'[c] = Silence
        BY <1>1, <4>3 DEF BadObject
      <4>4. ASSUME NEW d \in Caller, d # c,
                     \/ HasProperty(d) \/ IsPropertySettable(d) \/ GetPropertyDataSize(d)
                     \/ GetPropertyData(d) \/ SetPropertyData(d)
            PROVE talk'[c] = talk[c]
        BY <1>1, <4>4 DEF HasProperty, IsPropertySettable, GetPropertyDataSize, GetPropertyData,
           SetPropertyData, Answer
      <4> QED BY <1>2, <1>4, <4>1, <4>2, <4>3, <4>4 DEF Next
    <3> QED BY <1>1, <2>1, <3>1, <3>2, TalkStays, SilenceOK, AnswerStands
  <2> QED BY <1>1, <2>1, <2>2 DEF TalkInv, CustomOK
<1> QED BY <1>3, <1>4

(* What HAL was told in one call holds in the next, whatever changes       *)
(* between the two (Bridge.g.cpp, the handlers of every class, Object.cpp),*)
(* of a driver whose own properties have numbers of their own.             *)
THEOREM AnswersAlwaysAgree == ASSUME OwnNumbers PROVE Spec => []AnswersAgree
<1>1. ASSUME TalkInv PROVE AnswersAgree
  <2> SUFFICES ASSUME NEW c \in Caller
               PROVE  LET t == talk[c]
                      IN /\ t.got.bytes <= t.in
                         /\ ~t.changed /\ t.obj # None =>
                              /\ t.step \in {"Size", "Get", "Set", "Done"} /\ t.has => t.settable.status = "ok"
                              /\ t.step \in {"Get", "Set", "Done"} /\ t.has => t.size.status = "ok"
                              /\ t.step \in {"Set", "Done"} /\ t.has =>
                                   /\ t.in = t.size.bytes => t.got = t.size
                                   /\ t.got.bytes % ElementSize(c) = 0
                              /\ t.step = "Done" => (t.set.status = "ok" <=> t.settable.settable)
    BY DEF AnswersAgree
  <2> DEFINE t == talk[c]
  <2>1. TalkOK(t)
    BY <1>1 DEF TalkInv
  <2>2. CASE t.changed \/ t.obj = None
    BY <2>1, <2>2 DEF TalkOK
  <2>3. CASE ~t.changed /\ t.obj # None
    <3> DEFINE class == Class(t.obj)
               cu == custom[t.obj]
               n == Elements(t.obj)
    <3>1. t.obj \in Obj /\ AnswersStand(t) /\ t.in \in Nat /\ t.got.bytes \in 0 .. t.in
      BY <2>1, <2>3 DEF TalkOK
    <3>2. class \in Classes /\ n \in Nat /\ CustomOf(cu, class)
      BY <1>1, <3>1, ElementsCounted, CustomOwn
    <3>3. ElementSize(c) = EltSize(class, play.sel)
      BY DEF ElementSize, EltSize, TablesOf
    <3> HIDE DEF class, cu, n
    <3>4. LET size == Size(class, cu, play.sel, n)
              settable == Settable(class, cu, play.sel)
              got(in) == Get(class, cu, play.sel, n, Ref, in)
          IN  /\ Has(class, cu, play.sel, play.scope) => settable.status = "ok" /\ size.status = "ok"
              /\ \A in \in Nat : Has(class, cu, play.sel, play.scope) =>
                   (in = size.bytes => got(in) = size) /\ got(in).bytes % EltSize(class, play.sel) = 0
              /\ Set(class, cu, play.sel, size.bytes).status = "ok" <=> settable.settable
      BY <3>2, HandlersAgree
    <3>5. /\ t.step \in {"Size", "Get", "Set", "Done"} =>
               /\ t.has => Has(class, cu, play.sel, play.scope)
               /\ t.settable = Settable(class, cu, play.sel)
          /\ t.step \in {"Get", "Set", "Done"} => t.size = Size(class, cu, play.sel, n)
          /\ t.step \in {"Set", "Done"} => t.got = Get(class, cu, play.sel, n, Ref, t.in)
          /\ t.step = "Done" => t.set = Set(class, cu, play.sel, t.size.bytes)
      BY <3>1 DEF AnswersStand, class, cu, n
    <3> HIDE DEF t
    <3>6. t.step = "Done" => (t.set.status = "ok" <=> t.settable.settable)
      BY <3>4, <3>5
    <3> QED BY <2>3, <3>1, <3>3, <3>4, <3>5, <3>6 DEF t
  <2> QED BY <2>2, <2>3
<1>2. ASSUME TalkInv, UNCHANGED vars PROVE TalkInv'
  BY <1>2, TalkStays DEF TalkInv, CustomOK, vars
<1>3. TalkInv /\ RegistryInv /\ [Next]_vars => TalkInv'
  BY <1>2, TalksKeep
<1>4. TalkInv => AnswersAgree
  BY <1>1
<1> QED BY <1>3, <1>4, TalksStart, RegistrySafe, PTL DEF Spec
====
