--------------------------- MODULE TimedValidator ---------------------------
(***************************************************************************)
(* TimedCacheValidator (mem/cache/timed_validator.rs): a slot is valid for *)
(* valid_time after the update that preceded its validation.  Time stands  *)
(* still between two calls of update_validity.                             *)
(***************************************************************************)
EXTENDS Integers, Sequences

CONSTANTS
    valid_time,    \* in Nat
    MaxTime,       \* bound on the clock, in Nat
    MaxSlots       \* bound on the number of slots, in Nat

VARIABLES
    time,          \* TimedCacheValidator.time
    last_time,     \* TimedCacheValidator.last_time
    moved          \* history: was the slot validated since it was allocated
                   \* or invalidated, and how far has the clock moved since

vars == <<time, last_time, moved>>

TypeOK ==
    /\ last_time \in valid_time..MaxTime
    /\ \A i \in 1..Len(time) : time[i] \in 0..last_time
    /\ moved \in Seq([validated : BOOLEAN, n : Nat])

Elapsed(i) == last_time - time[i]       \* duration_since

is_slot_valid(i) == Elapsed(i) <= valid_time

(* The clock has run for at least valid_time when the cache is built. *)
Init == time = <<>> /\ last_time \in valid_time..MaxTime /\ moved = <<>>

Fresh     == [validated |-> FALSE, n |-> 0]
Validated == [validated |-> TRUE, n |-> 0]

allocate_slots(n) ==
    /\ time' = [i \in 1..n |-> IF i <= Len(time) THEN time[i]
                               ELSE last_time - valid_time]
    /\ moved' = [i \in 1..n |-> IF i <= Len(moved) THEN moved[i] ELSE Fresh]
    /\ UNCHANGED last_time

update_validity ==
    /\ last_time' \in last_time..MaxTime
    /\ moved' = [i \in 1..Len(moved) |-> [moved[i] EXCEPT !.n = @ + (last_time' - last_time)]]
    /\ UNCHANGED time

validate_slot(i) ==
    /\ time' = [time EXCEPT ![i] = last_time]
    /\ moved' = [moved EXCEPT ![i] = Validated]
    /\ UNCHANGED last_time

invalidate_slot(i) ==
    /\ time' = [time EXCEPT ![i] = last_time - valid_time]
    /\ moved' = [moved EXCEPT ![i] = Fresh]
    /\ UNCHANGED last_time

Next ==
    \/ \E n \in 0..MaxSlots : allocate_slots(n)
    \/ update_validity
    \/ \E i \in 1..Len(time) : validate_slot(i) \/ invalidate_slot(i)

Spec == Init /\ [][Next]_vars

----------------------------------------------------------------------------
(* Refinement *)

AgeOf(i) == IF Elapsed(i) > valid_time THEN valid_time + 1 ELSE Elapsed(i)

Ages == INSTANCE AgeValidator WITH
            age <- [i \in 1..Len(time) |-> AgeOf(i)],
            Window <- valid_time, Ticks <- 0..MaxTime, AllocAge <- valid_time

(* Time stamps implement ages, but a slot that was allocated or            *)
(* invalidated has the largest age that is still valid: it expires only    *)
(* when the clock next moves (timed_validator.rs:59-82).                   *)
Implements == Ages!Spec

(* A slot is valid from its validation on until the clock has moved by     *)
(* more than valid_time since; one that was not validated since it was     *)
(* allocated or invalidated is valid until the clock first moves           *)
(* (timed_validator.rs:59-82).                                             *)
ExpiresInTime ==
    \A i \in 1..Len(time) :
        is_slot_valid(i) <=> moved[i].n <= (IF moved[i].validated THEN valid_time ELSE 0)
=============================================================================
