---------------------------- MODULE AtomicValue ----------------------------
(***************************************************************************)
(* What libASPL's DoubleBuffer promises its callers (DoubleBuffer.hpp,     *)
(* lines 21-46): one value that setters replace one at a time and at one   *)
(* instant of the call, and that every getter sees as it was at one        *)
(* instant of its own call.  A value is known by its number in the order   *)
(* of the sets.                                                            *)
(***************************************************************************)
EXTENDS Naturals

CONSTANTS Reader, Setter, None

VARIABLES
    value,     \* the number of the last value set
    setting,   \* the setter in Set, and whether its value is in effect
    since,     \* per reader in a getter: the value at the time of the call
    answer     \* per reader holding a reference: what it refers to

atomicVars == <<value, setting, since, answer>>

AtomicInit ==
    /\ value = 1
    /\ setting = <<None, FALSE>>
    /\ since = [r \in Reader |-> None]
    /\ answer = [r \in Reader |-> None]

BeginSet(s) ==
    /\ setting = <<None, FALSE>>
    /\ setting' = <<s, FALSE>>
    /\ UNCHANGED <<value, since, answer>>

(* The instant of a set.                                                   *)
TakeEffect(s) ==
    /\ setting = <<s, FALSE>>
    /\ setting' = <<s, TRUE>>
    /\ value' = value + 1
    /\ UNCHANGED <<since, answer>>

(* Set returns only once its value is in effect.                           *)
EndSet(s) ==
    /\ setting = <<s, TRUE>>
    /\ setting' = <<None, FALSE>>
    /\ UNCHANGED <<value, since, answer>>

BeginGet(r) ==
    /\ since[r] = None /\ answer[r] = None
    /\ since' = [since EXCEPT ![r] = value]
    /\ UNCHANGED <<value, setting, answer>>

(* A value that was in effect at some instant of the call.                 *)
Answer(r) ==
    /\ since[r] # None
    /\ since' = [since EXCEPT ![r] = None]
    /\ \E v \in since[r] .. value : answer' = [answer EXCEPT ![r] = v]
    /\ UNCHANGED <<value, setting>>

Release(r) ==
    /\ answer[r] # None
    /\ answer' = [answer EXCEPT ![r] = None]
    /\ UNCHANGED <<value, setting, since>>

AtomicNext ==
    \/ \E s \in Setter : BeginSet(s) \/ TakeEffect(s) \/ EndSet(s)
    \/ \E r \in Reader : BeginGet(r) \/ Answer(r) \/ Release(r)

AtomicSpec == AtomicInit /\ [][AtomicNext]_atomicVars
=============================================================================
