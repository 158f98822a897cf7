---------------------------- MODULE AgeValidator ----------------------------
(***************************************************************************)
(* What the trait CacheValidator (mem/cache/mod.rs) promises a cache: each *)
(* slot has an age, which is 0 when the slot is validated, grows with      *)
(* update_validity and makes the slot invalid above Window.  PageCache and *)
(* CachedTranslate are written against these ages.                         *)
(***************************************************************************)
EXTENDS Integers, Sequences

CONSTANTS
    MaxSlots,      \* bound on the number of slots, in Nat
    Window,        \* largest age of a valid slot, in Nat
    Ticks,         \* how far one update_validity may advance the ages
    AllocAge       \* age of a slot that was allocated or invalidated, in
                   \* 0..Expired

Expired == Window + 1          \* stands for every age above the window

VARIABLE age

Older(a, d) == IF a + d > Window THEN Expired ELSE a + d

Init == age = <<>>

Allocate(n) ==
    age' = [i \in 1..n |-> IF i <= Len(age) THEN age[i] ELSE AllocAge]

Update(d) == age' = [i \in 1..Len(age) |-> Older(age[i], d)]

Validate(i) == age' = [age EXCEPT ![i] = 0]

Invalidate(i) == age' = [age EXCEPT ![i] = AllocAge]

IsValid(i) == age[i] <= Window

Next ==
    \/ \E n \in 0..MaxSlots : Allocate(n)
    \/ \E d \in Ticks : Update(d)
    \/ \E i \in 1..Len(age) : Validate(i) \/ Invalidate(i)

Spec == Init /\ [][Next]_age
=============================================================================
