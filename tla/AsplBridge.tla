----------------------------- MODULE AsplBridge -----------------------------
(***************************************************************************)
(* HAL's calls to libASPL's objects (Bridge.g.cpp): each looks the object  *)
(* up by its number, keeps it alive, and asks it (AsplProperties), or says *)
(* that there is no such object.  HAL asks about a property in several     *)
(* calls - is it there, can it be set, how long is it, what is it, set it  *)
(* - and between any two of them the driver may change it, destroy the     *)
(* object, or have its number reused.                                      *)
(***************************************************************************)
EXTENDS AsplRegistry, AsplProperties

CONSTANTS
    Plays,        \* what one behaviour is about: objects, their class, a selector, a scope,
                  \* the threads that ask, and whether they only ask if it is there
    Custom,       \* the selectors a driver registers
    MaxElements   \* bound of the length of a list

ASSUME BridgeAssumption ==
    /\ MaxElements \in Nat
    /\ Plays \subseteq [objects : SUBSET Obj, class : {"Device", "Stream", "Volume", "Mute"},
                        sel : STRING, scope : Scopes, callers : SUBSET Caller, brief : BOOLEAN]

VARIABLES
    play,
    custom,    \* customProps_ of every object
    count,     \* elements of the list that is asked for, of every object
    talk       \* what HAL's thread was told about the property, and about whose

vars == <<registryVars, play, custom, count, talk>>

Silence == [step |-> "Has", id |-> Unknown, obj |-> None, has |-> FALSE, settable |-> Error(""),
            size |-> Error(""), in |-> 0, got |-> Error(""), set |-> Error(""), changed |-> FALSE]

Init ==
    /\ RegistryInit
    /\ play \in Plays
    /\ custom = [o \in Obj |-> [s \in {} |-> None]]
    /\ count = [o \in Obj |-> 0]
    /\ talk = [c \in Caller |-> Silence]

-----------------------------------------------------------------------------
Class(o) == IF o = PlugIn THEN "PlugIn" ELSE play.class

(* The length of the list the selector names.                              *)
Elements(o) ==
    CASE play.sel = "RelatedDevices" -> 1
      [] play.sel = "PreferredChannelsForStereo" -> 2
      [] play.sel = "PreferredChannelLayout" -> Layout(count[o])
      [] play.sel = "CustomPropertyInfoList" ->
           IF DOMAIN custom[o] = {} THEN 0 ELSE Cardinality(DOMAIN custom[o])
      [] OTHER -> count[o]

(* Talks about an object that has changed.                                 *)
Notice(o) ==
    talk' = [c \in Caller |-> [talk[c] EXCEPT !.changed = @ \/ talk[c].obj = o]]

(* The driver changes a list, or registers a property with a getter and,   *)
(* perhaps, a setter.                                                      *)
ChangeList(o, n) ==
    /\ At(Driver, "idle") /\ Driver \in refs[o]
    /\ play.sel \in Lists
    /\ count' = [count EXCEPT ![o] = n] /\ n # count[o]
    /\ Notice(o)
    /\ UNCHANGED <<registryVars, play, custom>>

RegisterCustomProperty(o, s, setter) ==
    /\ At(Driver, "idle") /\ Driver \in refs[o]
    /\ play.sel \in {s, "CustomPropertyInfoList"}
    /\ LET prop == [getter |-> TRUE, setter |-> setter]
       IN  /\ ~(s \in DOMAIN custom[o] /\ custom[o][s] = prop)
           /\ custom' = [custom EXCEPT ![o] =
                           [x \in DOMAIN @ \cup {s} |-> IF x = s THEN prop ELSE @[x]]]
    /\ Notice(o)
    /\ UNCHANGED <<registryVars, play, count>>

-----------------------------------------------------------------------------
(* HAL goes on with a talk, or begins one with a number it has learned.    *)
Call(c) ==
    /\ \E o \in Obj :
         /\ id[o] # Unknown
         /\ IF talk[c].step \in {"Has", "Done"}
            THEN talk' = [talk EXCEPT ![c] = [Silence EXCEPT !.id = id[o]]]
            ELSE talk[c].id = id[o] /\ UNCHANGED talk
         /\ Lookup(c, id[o])
    /\ UNCHANGED <<play, custom, count>>

(* kAudioHardwareBadObjectError.                                           *)
BadObject(c) ==
    /\ At(c, "none")
    /\ pc' = [pc EXCEPT ![c] = Idle]
    /\ talk' = [talk EXCEPT ![c] = Silence]
    /\ UNCHANGED <<life, id, map, points, alloc, regLock, oldReaders, refs, play, custom, count>>

(* A call answered; the object is given back at its end, which may be the  *)
(* end of the object.                                                      *)
Answer(c, step, next, told) ==
    /\ At(c, "holds") /\ talk[c].step = step
    /\ talk' = [talk EXCEPT ![c] =
                  [told EXCEPT !.step = next, !.obj = IF step = "Has" THEN pc[c].obj ELSE @,
                               !.changed = @ \/ (step # "Has" /\ talk[c].obj # pc[c].obj)]]
    /\ Unref(c, pc[c].obj)
    /\ UNCHANGED <<play, custom, count>>

HasProperty(c) ==
    LET o == pc[c].obj
    IN  Answer(c, "Has", IF play.brief THEN "Has" ELSE "Settable",
               [talk[c] EXCEPT !.has = Has(Class(o), custom[o], play.sel, play.scope)])

IsPropertySettable(c) ==
    LET o == pc[c].obj
    IN  Answer(c, "Settable", "Size",
               [talk[c] EXCEPT !.settable = Settable(Class(o), custom[o], play.sel)])

GetPropertyDataSize(c) ==
    LET o == pc[c].obj
    IN  Answer(c, "Size", "Get",
               [talk[c] EXCEPT !.size = Size(Class(o), custom[o], play.sel, Elements(o))])

(* With a buffer of the size it was told, or one byte short of it.         *)
GetPropertyData(c) ==
    \E in \in {talk[c].size.bytes, talk[c].size.bytes - 1} :
        LET o == pc[c].obj
        IN  /\ in >= 0
            /\ Answer(c, "Get", "Set",
                      [talk[c] EXCEPT !.in = in, !.got = Get(Class(o), custom[o], play.sel,
                                                             Elements(o), Ref, in)])

SetPropertyData(c) ==
    LET o == pc[c].obj
    IN  Answer(c, "Set", "Done",
               [talk[c] EXCEPT !.set = Set(Class(o), custom[o], play.sel, talk[c].size.bytes)])

-----------------------------------------------------------------------------
Registry ==
    /\ \/ \E o \in play.objects : RegisterObject(o) \/ DropObject(o)
       \/ RegisterReturns \/ Constructed
       \/ \E t \in Thread : StoreNull(t) \/ EraseFromMap(t) \/ UnregisterReturns(t)
       \/ \E c \in Caller : TryLock(c) \/ LoadObject(c) \/ ShareObject(c)
    /\ UNCHANGED <<play, custom, count, talk>>

Next ==
    \/ Registry
    \/ \E o \in play.objects :
         \/ \E n \in 0 .. MaxElements : ChangeList(o, n)
         \/ \E s \in Custom, setter \in BOOLEAN : RegisterCustomProperty(o, s, setter)
    \/ \E c \in play.callers :
         \/ Call(c) \/ BadObject(c)
         \/ HasProperty(c) \/ IsPropertySettable(c) \/ GetPropertyDataSize(c)
         \/ GetPropertyData(c) \/ SetPropertyData(c)

Spec == Init /\ [][Next]_vars

-----------------------------------------------------------------------------
(* What HAL was told in one call holds in the next.  A property that Has   *)
(* affirms can be asked for its size and its settability, and a buffer of  *)
(* the size told takes all of it; what is settable takes a value of that   *)
(* size and nothing else does.  If the driver changed the property         *)
(* meanwhile, or the number belongs to another object by now, the answer   *)
(* still fits the buffer, in whole elements.                               *)
ElementSize(c) ==
    LET tables == {t \in OwnSizes(Class(talk[c].obj)) \cup {ObjectSize} : In(t, play.sel)}
    IN  IF tables = {} THEN Ref ELSE (CHOOSE t \in tables : TRUE)[play.sel]

AnswersAgree ==
    \A c \in Caller :
        LET t == talk[c]
        IN  /\ t.got.bytes <= t.in
            /\ ~t.changed /\ t.obj # None =>
                 /\ t.step \in {"Size", "Get", "Set", "Done"} /\ t.has => t.settable.status = "ok"
                 /\ t.step \in {"Get", "Set", "Done"} /\ t.has => t.size.status = "ok"
                 /\ t.step \in {"Set", "Done"} /\ t.has =>
                      /\ t.in = t.size.bytes => t.got = t.size
                      /\ t.got.bytes % ElementSize(c) = 0
                 /\ t.step = "Done" => (t.set.status = "ok" <=> t.settable.settable)
=============================================================================
