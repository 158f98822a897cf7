------------------------- MODULE MCCachedTranslate -------------------------
(* Instances of CachedTranslate for TLC: two address spaces of three pages *)
(* of four bytes over a cache of two entries, so that pages 0 and 2        *)
(* compete; the guest changes its tables a bounded number of times.        *)
EXTENDS CachedTranslate, TLC

It(a, n) == [addr |-> a, len |-> n]

(* Up to a page's end, over two pages from an address that is not aligned, *)
(* over all three, and two items.                                          *)
MCShortRequests ==
    {<<It(5, 3)>>, <<It(1, 11)>>, <<It(3, 6), It(8, 4)>>}

(* Items longer than the cache has room for, alone and beside short ones.  *)
MCLongRequests == {<<It(0, 12)>>, <<It(0, 12), It(4, 4)>>}

MCRequests == MCShortRequests \cup MCLongRequests

a == "a"
b == "b"
MCSpaces == {a, b}
MCTables == {(a :> (0 :> 0 @@ 1 :> 1 @@ 2 :> NotMapped) @@
              b :> (0 :> 1 @@ 1 :> NotMapped @@ 2 :> NotMapped))}

OwnTables   == (a :> 1 @@ b :> 2)
(* PAE: 32 byte aligned roots of two spaces share a page, so dtb >> 12 of  *)
(* both is the same.                                                       *)
SharedTables == (a :> 1 @@ b :> 1)
MCTicks == {0, 1}

(* The validators that give the entries of a cache their ages. *)
CONSTANTS Width, valid_count, MaxSlots, valid_time, MaxTime

VARIABLES count, last_count, ops, time, last_time, moved

Counted == INSTANCE CountValidator
Timed   == INSTANCE TimedValidator
validators == <<count, last_count, ops, time, last_time, moved>>

(* Explored one by one: walks that fail and a table that changes twice,    *)
(* seen by calls of one space with short items; two spaces with long items *)
(* as well, whose tables change once; each validator.                      *)
VARIABLE part

MCInit ==
    /\ Init /\ Counted!Init /\ Timed!Init
    /\ part \in {"faults", "spaces", "count", "clock"}
    /\ part # "spaces" => space = a
    /\ part # "clock" => last_time = MaxTime

MCNext ==
    \/ /\ part = "faults" /\ Next /\ space' = a /\ table'[b] = table[b]
       /\ req' \notin MCLongRequests
       /\ UNCHANGED <<validators, part>>
    \/ /\ part = "spaces" /\ Next /\ ~WalkFault /\ remaps' <= 1
       /\ UNCHANGED <<validators, part>>
    \/ part = "count" /\ Counted!Next /\ UNCHANGED <<vars, time, last_time, moved, part>>
    \/ part = "clock" /\ Timed!Next /\ UNCHANGED <<vars, count, last_count, ops, part>>

MCSpec == MCInit /\ [][MCNext]_<<vars, validators, part>>

----------------------------------------------------------------------------
(* Properties *)

(* With both validators, what is_slot_valid says of a slot follows from    *)
(* what has happened to it: when it was validated and how many operations, *)
(* or how much time, have passed since, however often the counter wraps    *)
(* (count_validator.rs:47-61, 71-98, timed_validator.rs:59-82).            *)
SlotsExpireInTime == Counted!ExpiresInTime /\ Timed!ExpiresInTime

(* Both validators implement the ages that the caches are written against  *)
(* (count_validator.rs:71-98, timed_validator.rs:59-82).                   *)
ValidatorsImplementAges == Counted!Implements /\ Timed!Implements
=============================================================================
