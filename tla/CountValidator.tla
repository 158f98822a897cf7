--------------------------- MODULE CountValidator ---------------------------
(***************************************************************************)
(* CountCacheValidator (mem/cache/count_validator.rs): a slot is valid     *)
(* while fewer than valid_count operations have passed since it was        *)
(* validated.  Counters are usize and wrap: here they have Width values.   *)
(***************************************************************************)
EXTENDS Integers, Sequences

CONSTANTS
    Width,         \* number of values of a usize, 2^64, in Nat \ {0}
    valid_count,   \* in 1..(Width - 1)
    MaxSlots       \* bound on the number of slots, in Nat

VARIABLES
    count,         \* CountCacheValidator.count
    last_count,    \* CountCacheValidator.last_count
    ops            \* history: was the slot validated since it was allocated
                   \* or invalidated, and how many operations ago was that

vars == <<count, last_count, ops>>

TypeOK ==
    /\ count \in Seq(0..(Width - 1)) /\ last_count \in 0..(Width - 1)
    /\ ops \in Seq([validated : BOOLEAN, n : Nat])

Elapsed(i) == (last_count - count[i]) % Width

is_slot_valid(i) == Elapsed(i) < valid_count

Init == count = <<>> /\ last_count = 0 /\ ops = <<>>

Fresh     == [validated |-> FALSE, n |-> 0]
Validated == [validated |-> TRUE, n |-> 0]
NewSlots(n)  == ops' = [i \in 1..n |-> IF i <= Len(ops) THEN ops[i] ELSE Fresh]
OneOperation == ops' = [i \in 1..Len(ops) |-> [ops[i] EXCEPT !.n = @ + 1]]

allocate_slots_Zero(n) ==      \* mutant: fresh slots start with a count of 0
    /\ count' = [i \in 1..n |-> IF i <= Len(count) THEN count[i] ELSE 0]
    /\ NewSlots(n) /\ UNCHANGED last_count

allocate_slots(n) ==
    /\ count' = [i \in 1..n |-> IF i <= Len(count) THEN count[i]
                                ELSE (last_count - valid_count) % Width]
    /\ NewSlots(n) /\ UNCHANGED last_count

(* Bound: no slot is left alone for Width, 2^64, operations, after which   *)
(* its age would start again from 0.                                       *)
NoWrap == \A i \in 1..Len(count) : Elapsed(i) < Width - 1

update_validity_Stops ==       \* mutant: the counter saturates
    /\ NoWrap
    /\ last_count' = IF last_count = Width - 1 THEN last_count ELSE last_count + 1
    /\ OneOperation /\ UNCHANGED count

update_validity ==
    /\ NoWrap
    /\ last_count' = (last_count + 1) % Width
    /\ OneOperation /\ UNCHANGED count

validate_slot(i) ==
    /\ count' = [count EXCEPT ![i] = last_count]
    /\ ops' = [ops EXCEPT ![i] = Validated]
    /\ UNCHANGED last_count

(* A plain `-`, which wraps only in builds without overflow checks; with   *)
(* them it panics while last_count is below valid_count.                   *)
invalidate_slot(i) ==
    /\ count' = [count EXCEPT ![i] = (last_count - valid_count) % Width]
    /\ ops' = [ops EXCEPT ![i] = Fresh]
    /\ UNCHANGED last_count

Next ==
    \/ \E n \in 0..MaxSlots : allocate_slots(n)
    \/ update_validity
    \/ \E i \in 1..Len(count) : validate_slot(i) \/ invalidate_slot(i)

Spec == Init /\ [][Next]_vars

----------------------------------------------------------------------------
(* Refinement *)

LastValid == valid_count - 1

AgeOf(i) == IF Elapsed(i) > LastValid THEN valid_count ELSE Elapsed(i)

Ages == INSTANCE AgeValidator WITH
            age <- [i \in 1..Len(count) |-> AgeOf(i)],
            Window <- LastValid, Ticks <- {1}, AllocAge <- valid_count

(* The wrapping counters implement ages: every operation adds one, also    *)
(* over the end of the counter, and a slot that was allocated or           *)
(* invalidated has expired (count_validator.rs:71-98).                     *)
Implements == Ages!Spec

(* A slot is valid from its validation on until valid_count operations     *)
(* have passed since, and never before it or after an invalidation; also   *)
(* when the counter wraps on the way (count_validator.rs:47-61, 71-98).    *)
ExpiresInTime ==
    \A i \in 1..Len(count) : is_slot_valid(i) <=> ops[i].validated /\ ops[i].n < valid_count
=============================================================================
