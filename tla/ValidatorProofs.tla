--------------------------- MODULE ValidatorProofs --------------------------
(***************************************************************************)
(* The two validators implement ages, and a slot expires when its history  *)
(* says so: the counter for every width and every number of valid          *)
(* operations, also when it wraps, the clock for every validity time,      *)
(* however it moves; whatever slots a cache allocates.                     *)
(***************************************************************************)
EXTENDS MCCachedTranslate, TLAPS

----------------------------------------------------------------------------
(* The counter *)

CountConstants ==
    Width \in Nat /\ valid_count \in 1..(Width - 1) /\ MaxSlots \in Nat

Counter == 0..(Width - 1)

CountInv == count \in Seq(Counter) /\ last_count \in Counter

----------------------------------------------------------------------------
(* Wrapping differences *)

Difference(x, y) == (x - y) % Width

LEMMA DifferenceFact ==
    ASSUME CountConstants
    PROVE  \A x, y \in Counter :
              Difference(x, y) = IF x >= y THEN x - y ELSE x - y + Width
BY DEF CountConstants, Counter, Difference

LEMMA DifferenceType ==
    ASSUME CountConstants
    PROVE  \A x, y \in Counter : Difference(x, y) \in Counter
BY DifferenceFact DEF CountConstants, Counter

(* An operation adds one to every difference that is not the largest.      *)
LEMMA DifferenceGrows ==
    ASSUME CountConstants
    PROVE  \A x, y \in Counter :
              /\ (x + 1) % Width \in Counter
              /\ Difference(x, y) < Width - 1 =>
                    Difference((x + 1) % Width, y) = Difference(x, y) + 1
<1> SUFFICES ASSUME NEW x \in Counter, NEW y \in Counter
             PROVE  /\ (x + 1) % Width \in Counter
                    /\ Difference(x, y) < Width - 1 =>
                          Difference((x + 1) % Width, y) = Difference(x, y) + 1
  OBVIOUS
<1>1. /\ x \in Nat /\ y \in Nat /\ Width \in Nat /\ Width >= 2
      /\ x <= Width - 1 /\ y <= Width - 1
  BY DEF CountConstants, Counter
<1>2. (x + 1) % Width = IF x = Width - 1 THEN 0 ELSE x + 1
  BY <1>1
<1>3. (x + 1) % Width \in Counter
  BY <1>1, <1>2 DEF Counter
<1>4. Difference(x, y) = IF x >= y THEN x - y ELSE x - y + Width
  BY DifferenceFact
<1>5. Difference((x + 1) % Width, y) =
          IF ((x + 1) % Width) >= y THEN ((x + 1) % Width) - y
          ELSE ((x + 1) % Width) - y + Width
  BY <1>3, DifferenceFact
<1> DEFINE next == (x + 1) % Width
<1> HIDE DEF next
<1>6. next = (IF x = Width - 1 THEN 0 ELSE x + 1)
      /\ Difference(next, y) = (IF next >= y THEN next - y ELSE next - y + Width)
  BY <1>2, <1>5 DEF next
<1>7. Difference(x, y) < Width - 1 => Difference(next, y) = Difference(x, y) + 1
  BY <1>1, <1>4, <1>6
<1> QED BY <1>3, <1>7 DEF next

(* A stamp that lies valid_count back has expired just now.                *)
LEMMA DifferenceBack ==
    ASSUME CountConstants
    PROVE  \A x \in Counter : /\ Difference(x, valid_count) \in Counter
                              /\ Difference(x, Difference(x, valid_count)) = valid_count
                              /\ Difference(x, x) = 0
<1> SUFFICES ASSUME NEW x \in Counter
             PROVE  /\ Difference(x, valid_count) \in Counter
                    /\ Difference(x, Difference(x, valid_count)) = valid_count
                    /\ Difference(x, x) = 0
  OBVIOUS
<1>1. valid_count \in Counter
  BY DEF CountConstants, Counter
<1> DEFINE s == Difference(x, valid_count)
<1>2. s \in Counter /\ s = (IF x >= valid_count THEN x - valid_count ELSE x - valid_count + Width)
  BY <1>1, DifferenceType, DifferenceFact
<1> HIDE DEF s
<1>3. Difference(x, s) = (IF x >= s THEN x - s ELSE x - s + Width)
  BY <1>2, DifferenceFact
<1>4. Difference(x, s) = valid_count
  BY <1>2, <1>3 DEF CountConstants, Counter
<1>5. Difference(x, x) = 0
  BY DifferenceFact DEF CountConstants, Counter
<1> QED BY <1>2, <1>4, <1>5 DEF s

(* The module's own differences are these. *)
LEMMA ElapsedIs ==
    /\ \A i : Counted!Elapsed(i) = Difference(last_count, count[i])
    /\ \A i : Counted!Elapsed(i)' = Difference(last_count', count'[i])
    /\ (last_count - valid_count) % Width = Difference(last_count, valid_count)
BY DEF Counted!Elapsed, Difference

----------------------------------------------------------------------------
(* Types *)

LEMMA CountInit == ASSUME CountConstants, Counted!Init PROVE CountInv
BY DEF CountConstants, Counted!Init, CountInv, Counter

LEMMA CountNext ==
    ASSUME CountConstants, CountInv, [Counted!Next]_Counted!vars
    PROVE  CountInv'
<1>1. Difference(last_count, valid_count) \in Counter
  BY DifferenceBack DEF CountInv
<1>2. ASSUME NEW n \in 0..MaxSlots, Counted!allocate_slots(n)
      PROVE  CountInv'
  <2>1. n \in Nat
    BY DEF CountConstants
  <2>2. count' = [i \in 1..n |-> IF i <= Len(count) THEN count[i]
                                  ELSE Difference(last_count, valid_count)]
    BY <1>2, ElapsedIs DEF Counted!allocate_slots
  <2>3. \A i \in 1..n : (IF i <= Len(count) THEN count[i]
                         ELSE Difference(last_count, valid_count)) \in Counter
    BY <1>1, <2>1 DEF CountInv
  <2>4. count' \in Seq(Counter)
    BY <2>1, <2>2, <2>3
  <2> QED BY <1>2, <2>4 DEF Counted!allocate_slots, CountInv
<1>3. CASE Counted!update_validity
  BY <1>3, DifferenceGrows DEF Counted!update_validity, CountInv
<1>4. ASSUME NEW i \in 1..Len(count), Counted!validate_slot(i) \/ Counted!invalidate_slot(i)
      PROVE  CountInv'
  BY <1>1, <1>4, ElapsedIs DEF Counted!validate_slot, Counted!invalidate_slot, CountInv
<1>5. CASE UNCHANGED Counted!vars
  BY <1>5 DEF Counted!vars, CountInv
<1> QED BY <1>2, <1>3, <1>4, <1>5 DEF Counted!Next

----------------------------------------------------------------------------
(* Refinement *)

(* What AgeOf says of the slots, one after the other. *)
CountAges == [i \in 1..Len(count) |-> Counted!AgeOf(i)]

Capped(n) == IF n > Counted!LastValid THEN valid_count ELSE n

LEMMA CountAgesType ==
    ASSUME CountConstants, CountInv
    PROVE  /\ Len(CountAges) = Len(count) /\ Len(count) \in Nat
           /\ \A i \in 1..Len(count) : /\ CountAges[i] = Counted!AgeOf(i)
                                       /\ Counted!AgeOf(i) = Capped(Difference(last_count, count[i]))
                                       /\ Difference(last_count, count[i]) \in Counter
<1>1. Len(count) \in Nat
  BY DEF CountInv
<1>2. \A i \in 1..Len(count) : Difference(last_count, count[i]) \in Counter
  BY DifferenceType DEF CountInv
<1>3. \A i \in 1..Len(count) : Counted!AgeOf(i) = Capped(Difference(last_count, count[i]))
  BY ElapsedIs DEF Counted!AgeOf, Capped
<1>4. Len(CountAges) = Len(count)
  BY <1>1 DEF CountAges
<1> QED BY <1>1, <1>2, <1>3, <1>4 DEF CountAges

(* ... and after a step. *)
LEMMA CountAgesNext ==
    CountAges' = [i \in 1..Len(count') |-> Capped(Difference(last_count', count'[i]))]
BY ElapsedIs DEF CountAges, Counted!AgeOf, Capped

LEMMA CappedFacts ==
    ASSUME CountConstants
    PROVE  /\ Capped(0) = 0 /\ Capped(valid_count) = valid_count
           /\ \A n \in Nat : Capped(n + 1) = Counted!Ages!Older(Capped(n), 1)
BY DEF CountConstants, Capped, Counted!LastValid, Counted!Ages!Older, Counted!Ages!Expired

LEMMA CountStep ==
    ASSUME CountConstants, CountInv, [Counted!Next]_Counted!vars
    PROVE  [Counted!Ages!Next]_CountAges
<1> DEFINE back == Difference(last_count, valid_count)
<1>1. /\ last_count \in Counter /\ back \in Counter
      /\ Difference(last_count, back) = valid_count
      /\ Difference(last_count, last_count) = 0
  BY DifferenceBack DEF CountInv
<1>2. /\ Len(CountAges) = Len(count) /\ Len(count) \in Nat
      /\ \A i \in 1..Len(count) : CountAges[i] = Capped(Difference(last_count, count[i]))
  BY CountAgesType
<1> HIDE DEF back
<1>3. ASSUME NEW n \in 0..MaxSlots, Counted!allocate_slots(n)
      PROVE  Counted!Ages!Allocate(n)
  <2>1. /\ count' = [i \in 1..n |-> IF i <= Len(count) THEN count[i] ELSE back]
        /\ last_count' = last_count /\ n \in Nat
    BY <1>3, ElapsedIs DEF Counted!allocate_slots, back, CountConstants
  <2>2. Len(count') = n
    BY <2>1
  <2>3. ASSUME NEW i \in 1..n
        PROVE  Capped(Difference(last_count', count'[i])) =
                   IF i <= Len(CountAges) THEN CountAges[i] ELSE valid_count
    <3>1. CASE i <= Len(count)
      BY <1>2, <2>1, <3>1
    <3>2. CASE ~(i <= Len(count))
      BY <1>1, <1>2, <2>1, <3>2, CappedFacts
    <3> QED BY <3>1, <3>2
  <2>4. CountAges' = [i \in 1..n |-> IF i <= Len(CountAges) THEN CountAges[i] ELSE valid_count]
    BY <2>2, <2>3, CountAgesNext
  <2> QED BY <2>4 DEF Counted!Ages!Allocate, CountAges
<1>4. ASSUME Counted!update_validity
      PROVE  Counted!Ages!Update(1)
  <2>1. /\ last_count' = (last_count + 1) % Width /\ count' = count
        /\ \A i \in 1..Len(count) : Difference(last_count, count[i]) < Width - 1
    BY <1>4, ElapsedIs DEF Counted!update_validity, Counted!NoWrap
  <2>2. ASSUME NEW i \in 1..Len(count)
        PROVE  Capped(Difference(last_count', count'[i])) = Counted!Ages!Older(CountAges[i], 1)
    <3>1. count[i] \in Counter
      BY DEF CountInv
    <3>2. Difference(last_count', count'[i]) = Difference(last_count, count[i]) + 1
      BY <1>1, <2>1, <3>1, DifferenceGrows
    <3>3. Difference(last_count, count[i]) \in Nat
      <4>1. Difference(last_count, count[i]) \in Counter
        BY <1>1, <3>1, DifferenceType
      <4> QED BY <4>1 DEF Counter, CountConstants
    <3> QED BY <1>2, <3>2, <3>3, CappedFacts
  <2>3. CountAges' = [i \in 1..Len(CountAges) |-> Counted!Ages!Older(CountAges[i], 1)]
    BY <1>2, <2>1, <2>2, CountAgesNext
  <2> QED BY <2>3 DEF Counted!Ages!Update, CountAges
<1>5. ASSUME NEW i \in 1..Len(count), Counted!validate_slot(i)
      PROVE  Counted!Ages!Validate(i)
  <2>1. /\ count' = [count EXCEPT ![i] = last_count] /\ last_count' = last_count
        /\ Len(count') = Len(count)
    BY <1>5 DEF Counted!validate_slot, CountInv
  <2>2. ASSUME NEW k \in 1..Len(count)
        PROVE  Capped(Difference(last_count', count'[k])) = IF k = i THEN 0 ELSE CountAges[k]
    <3>1. count'[k] = IF k = i THEN last_count ELSE count[k]
      BY <2>1 DEF CountInv
    <3> QED BY <1>1, <1>2, <2>1, <3>1, CappedFacts
  <2>3. CountAges' = [k \in 1..Len(count) |-> IF k = i THEN 0 ELSE CountAges[k]]
    BY <2>1, <2>2, CountAgesNext
  <2>4. CountAges' = [CountAges EXCEPT ![i] = 0]
    BY <2>3 DEF CountAges
  <2> QED BY <2>4 DEF Counted!Ages!Validate, CountAges
<1>6. ASSUME NEW i \in 1..Len(count), Counted!invalidate_slot(i)
      PROVE  Counted!Ages!Invalidate(i)
  <2>1. /\ count' = [count EXCEPT ![i] = back] /\ last_count' = last_count
        /\ Len(count') = Len(count)
    <3>1. count' = [count EXCEPT ![i] = back] /\ last_count' = last_count
      BY <1>6, ElapsedIs DEF Counted!invalidate_slot, back
    <3> QED BY <1>1, <3>1 DEF CountInv
  <2>2. ASSUME NEW k \in 1..Len(count)
        PROVE  Capped(Difference(last_count', count'[k])) =
                   IF k = i THEN valid_count ELSE CountAges[k]
    <3>1. count'[k] = IF k = i THEN back ELSE count[k]
      BY <2>1 DEF CountInv
    <3> QED BY <1>1, <1>2, <2>1, <3>1, CappedFacts
  <2>3. CountAges' = [k \in 1..Len(count) |-> IF k = i THEN valid_count ELSE CountAges[k]]
    BY <2>1, <2>2, CountAgesNext
  <2>4. CountAges' = [CountAges EXCEPT ![i] = valid_count]
    BY <2>3 DEF CountAges
  <2> QED BY <2>4 DEF Counted!Ages!Invalidate, CountAges
<1>7. CASE UNCHANGED Counted!vars
  <2>1. CountAges' = CountAges
    BY <1>7 DEF Counted!vars, CountAges, Counted!AgeOf, Counted!Elapsed
  <2> QED BY <2>1
<1>8. 1 \in {1} /\ Len(CountAges) = Len(count)
  BY <1>2
<1> QED BY <1>3, <1>4, <1>5, <1>6, <1>7, <1>8 DEF Counted!Next, Counted!Ages!Next, CountAges

----------------------------------------------------------------------------
(* Theorems *)

(* The wrapping counters implement ages: every operation adds one, over    *)
(* the end of the counter too, and a slot that was allocated or            *)
(* invalidated has expired (count_validator.rs:71-98).                     *)
THEOREM CountImplements ==
    ASSUME CountConstants
    PROVE  Counted!Spec => Counted!Implements
<1>1. Counted!Init => CountInv
  BY CountInit
<1>2. CountInv /\ [Counted!Next]_Counted!vars => CountInv'
  BY CountNext
<1>3. Counted!Init => Counted!Ages!Init
  BY DEF Counted!Init, Counted!Ages!Init
<1>4. CountInv /\ [Counted!Next]_Counted!vars => [Counted!Ages!Next]_CountAges
  BY CountStep
<1> QED BY <1>1, <1>2, <1>3, <1>4, PTL DEF Counted!Spec, Counted!Implements, Counted!Ages!Spec, CountAges

(* The age of a slot is what its history says: the operations since its    *)
(* validation or, beyond the window, since it was made or given up.        *)
Event == [validated : BOOLEAN, n : Nat]

Past(x, w) == x.n + (IF x.validated THEN 0 ELSE w)

Later(x, d) == [x EXCEPT !.n = @ + d]

LEMMA LaterFacts ==
    ASSUME NEW x \in Event, NEW w \in Nat, NEW d \in Nat
    PROVE  /\ Later(x, d) \in Event
           /\ Past(x, w) \in Nat
           /\ Past(Later(x, d), w) = Past(x, w) + d
<1>1. x.n \in Nat /\ x.validated \in BOOLEAN
  BY DEF Event
<1>2. /\ Later(x, d) = [validated |-> x.validated, n |-> x.n + d]
      /\ x.n + d \in Nat
  BY <1>1 DEF Event, Later
<1>3. Later(x, d).n = x.n + d /\ Later(x, d).validated = x.validated
  BY <1>2
<1>4. Later(x, d) \in Event
  BY <1>1, <1>2 DEF Event
<1>5. CASE x.validated
  BY <1>1, <1>3, <1>4, <1>5 DEF Past
<1>6. CASE ~x.validated
  BY <1>1, <1>3, <1>4, <1>6 DEF Past
<1> QED BY <1>5, <1>6

(* Past is within a window when a validated slot's operations are; that of *)
(* a slot that was not validated never is below the window.                *)
LEMMA PastWithin ==
    ASSUME NEW x \in Event, NEW w \in Nat
    PROVE  /\ Past(x, w) < w <=> x.validated /\ x.n < w
           /\ Past(x, w) <= w <=> x.n <= (IF x.validated THEN w ELSE 0)
<1>1. x.n \in Nat /\ x.validated \in BOOLEAN
  BY DEF Event
<1>2. CASE x.validated
  BY <1>1, <1>2 DEF Past
<1>3. CASE ~x.validated
  BY <1>1, <1>3 DEF Past
<1> QED BY <1>2, <1>3

CountHistory ==
    /\ CountInv
    /\ ops \in Seq(Event) /\ Len(ops) = Len(count)
    /\ \A i \in 1..Len(count) :
          Difference(last_count, count[i]) = Past(ops[i], valid_count)

LEMMA CountHistoryInit == ASSUME CountConstants, Counted!Init PROVE CountHistory
BY CountInit DEF Counted!Init, CountHistory

LEMMA CountHistoryNext ==
    ASSUME CountConstants, CountHistory, [Counted!Next]_Counted!vars
    PROVE  CountHistory'
<1> DEFINE back == Difference(last_count, valid_count)
<1>1. CountInv /\ CountInv'
  BY CountNext DEF CountHistory
<1>2. /\ last_count \in Counter /\ back \in Counter
      /\ Difference(last_count, back) = valid_count
      /\ Difference(last_count, last_count) = 0
  BY <1>1, DifferenceBack DEF CountInv
<1>3. /\ ops \in Seq(Event) /\ Len(ops) = Len(count) /\ Len(count) \in Nat
      /\ \A i \in 1..Len(count) : /\ ops[i] \in Event /\ count[i] \in Counter
                                  /\ Difference(last_count, count[i]) = Past(ops[i], valid_count)
  BY <1>1 DEF CountHistory, CountInv
<1>4. /\ Counted!Fresh \in Event /\ Past(Counted!Fresh, valid_count) = valid_count
      /\ Counted!Validated \in Event /\ Past(Counted!Validated, valid_count) = 0
  BY DEF Counted!Fresh, Counted!Validated, CountConstants, Event, Past
<1>5. ASSUME ops' \in Seq(Event), Len(ops') = Len(count'),
             \A i \in 1..Len(count') : Difference(last_count', count'[i]) = Past(ops'[i], valid_count)
      PROVE  CountHistory'
  BY <1>1, <1>5 DEF CountHistory
<1> HIDE DEF back
<1>6. ASSUME NEW n \in 0..MaxSlots, Counted!allocate_slots(n)
      PROVE  CountHistory'
  <2>1. /\ count' = [i \in 1..n |-> IF i <= Len(count) THEN count[i] ELSE back]
        /\ ops' = [i \in 1..n |-> IF i <= Len(ops) THEN ops[i] ELSE Counted!Fresh]
        /\ last_count' = last_count /\ n \in Nat
    BY <1>6, ElapsedIs DEF Counted!allocate_slots, Counted!NewSlots, back, CountConstants
  <2>2. Len(count') = n /\ Len(ops') = n
    BY <2>1
  <2>3. ASSUME NEW i \in 1..n
        PROVE  ops'[i] \in Event /\ Difference(last_count', count'[i]) = Past(ops'[i], valid_count)
    <3>1. CASE i <= Len(count)
      BY <1>3, <2>1, <3>1
    <3>2. CASE ~(i <= Len(count))
      BY <1>2, <1>3, <1>4, <2>1, <3>2
    <3> QED BY <3>1, <3>2
  <2>4. ops' \in Seq(Event)
    <3>1. ops' = [i \in 1..n |-> ops'[i]]
      BY <2>1
    <3> QED BY <2>1, <2>3, <3>1
  <2> QED BY <1>5, <2>2, <2>3, <2>4
<1>7. CASE Counted!update_validity
  <2>1. /\ last_count' = (last_count + 1) % Width /\ count' = count
        /\ ops' = [i \in 1..Len(ops) |-> Later(ops[i], 1)]
        /\ \A i \in 1..Len(count) : Difference(last_count, count[i]) < Width - 1
    BY <1>7, ElapsedIs DEF Counted!update_validity, Counted!OneOperation, Counted!NoWrap, Later
  <2>2. ASSUME NEW i \in 1..Len(count)
        PROVE  /\ Later(ops[i], 1) \in Event
               /\ Past(Later(ops[i], 1), valid_count) = Past(ops[i], valid_count) + 1
    <3>1. valid_count \in Nat
      BY DEF CountConstants
    <3> QED BY <1>3, <3>1, LaterFacts
  <2>3. ops' \in Seq(Event) /\ Len(ops') = Len(count')
    BY <1>3, <2>1, <2>2
  <2>4. ASSUME NEW i \in 1..Len(count)
        PROVE  Difference(last_count', count'[i]) = Past(ops'[i], valid_count)
    <3>1. Difference(last_count', count'[i]) = Difference(last_count, count[i]) + 1
      BY <1>2, <1>3, <2>1, DifferenceGrows
    <3>2. ops'[i] = Later(ops[i], 1)
      BY <1>3, <2>1
    <3> QED BY <1>3, <2>2, <3>1, <3>2
  <2> QED BY <1>5, <2>1, <2>3, <2>4
<1>8. ASSUME NEW i \in 1..Len(count), NEW x \in Counter, NEW e \in Event,
             Difference(last_count, x) = Past(e, valid_count), last_count' = last_count,
             count' = [count EXCEPT ![i] = x], ops' = [ops EXCEPT ![i] = e]
      PROVE  CountHistory'
  <2>1. Len(count') = Len(count) /\ Len(ops') = Len(count) /\ ops' \in Seq(Event)
    BY <1>1, <1>3, <1>8 DEF CountInv
  <2>2. ASSUME NEW k \in 1..Len(count)
        PROVE  Difference(last_count', count'[k]) = Past(ops'[k], valid_count)
    <3>1. count'[k] = IF k = i THEN x ELSE count[k]
      BY <1>1, <1>8 DEF CountInv
    <3>2. ops'[k] = IF k = i THEN e ELSE ops[k]
      BY <1>3, <1>8
    <3> QED BY <1>3, <1>8, <3>1, <3>2
  <2> QED BY <1>5, <2>1, <2>2
<1>9. ASSUME NEW i \in 1..Len(count), Counted!validate_slot(i)
      PROVE  CountHistory'
  BY <1>2, <1>4, <1>8, <1>9 DEF Counted!validate_slot
<1>10. ASSUME NEW i \in 1..Len(count), Counted!invalidate_slot(i)
       PROVE  CountHistory'
  <2>1. /\ count' = [count EXCEPT ![i] = back] /\ ops' = [ops EXCEPT ![i] = Counted!Fresh]
        /\ last_count' = last_count
    BY <1>10, ElapsedIs DEF Counted!invalidate_slot, back
  <2> QED BY <1>2, <1>4, <1>8, <2>1
<1>11. CASE UNCHANGED Counted!vars
  <2>1. count' = count /\ ops' = ops /\ last_count' = last_count
    BY <1>11 DEF Counted!vars
  <2> QED BY <1>3, <1>5, <2>1
<1> QED BY <1>6, <1>7, <1>9, <1>10, <1>11 DEF Counted!Next

(* A slot is valid for exactly the valid_count operations that follow its  *)
(* validation, also when the counter wraps among them, and never before it *)
(* or after an invalidation (count_validator.rs:47-61, 71-98).             *)
THEOREM CountExpires ==
    ASSUME CountConstants
    PROVE  Counted!Spec => []Counted!ExpiresInTime
<1>1. Counted!Init => CountHistory
  BY CountHistoryInit
<1>2. CountHistory /\ [Counted!Next]_Counted!vars => CountHistory'
  BY CountHistoryNext
<1>3. CountHistory => Counted!ExpiresInTime
  <2> SUFFICES ASSUME CountHistory, NEW i \in 1..Len(count)
               PROVE  Counted!is_slot_valid(i) <=>
                          ops[i].validated /\ ops[i].n < valid_count
    BY DEF Counted!ExpiresInTime
  <2>1. Counted!is_slot_valid(i) <=> Difference(last_count, count[i]) < valid_count
    BY ElapsedIs DEF Counted!is_slot_valid
  <2>2. /\ ops[i] \in Event /\ valid_count \in Nat
        /\ Difference(last_count, count[i]) = Past(ops[i], valid_count)
    BY DEF CountHistory, CountConstants
  <2> QED BY <2>1, <2>2, PastWithin
<1> QED BY <1>1, <1>2, <1>3, PTL DEF Counted!Spec
----------------------------------------------------------------------------
(* The clock *)

TimeConstants == valid_time \in Nat /\ MaxTime \in Nat /\ MaxSlots \in Nat

(* No slot is stamped in the future, and the clock has run for valid_time. *)
TimeInv ==
    /\ time \in Seq(Nat)
    /\ last_time \in Nat /\ last_time >= valid_time
    /\ \A i \in 1..Len(time) : time[i] <= last_time

LEMMA TimeInit == ASSUME TimeConstants, Timed!Init PROVE TimeInv
BY DEF TimeConstants, Timed!Init, TimeInv

LEMMA TimeNext ==
    ASSUME TimeConstants, TimeInv, [Timed!Next]_Timed!vars
    PROVE  TimeInv'
<1> USE DEF TimeConstants, TimeInv
<1>1. ASSUME NEW n \in 0..MaxSlots, Timed!allocate_slots(n)
      PROVE  TimeInv'
  <2>1. n \in Nat /\ last_time - valid_time \in Nat
    OBVIOUS
  <2>2. time' = [i \in 1..n |-> IF i <= Len(time) THEN time[i] ELSE last_time - valid_time]
    BY <1>1 DEF Timed!allocate_slots
  <2>3. time' \in Seq(Nat) /\ Len(time') = n
    <3>1. \A i \in 1..n : (IF i <= Len(time) THEN time[i] ELSE last_time - valid_time) \in Nat
      BY <2>1
    <3> QED BY <2>1, <2>2, <3>1
  <2> QED BY <1>1, <2>1, <2>2, <2>3 DEF Timed!allocate_slots
<1>2. CASE Timed!update_validity
  BY <1>2 DEF Timed!update_validity
<1>3. ASSUME NEW i \in 1..Len(time), Timed!validate_slot(i) \/ Timed!invalidate_slot(i)
      PROVE  TimeInv'
  <2>1. ASSUME NEW x \in Nat, x <= last_time, time' = [time EXCEPT ![i] = x],
               last_time' = last_time
        PROVE  TimeInv'
    <3>1. time' \in Seq(Nat) /\ Len(time') = Len(time)
      BY <2>1
    <3>2. \A j \in 1..Len(time') : time'[j] <= last_time
      BY <2>1, <3>1
    <3> QED BY <2>1, <3>1, <3>2
  <2>2. CASE Timed!validate_slot(i)
    <3>1. last_time \in Nat /\ last_time <= last_time
      OBVIOUS
    <3> QED BY <2>1, <2>2, <3>1 DEF Timed!validate_slot
  <2>3. CASE Timed!invalidate_slot(i)
    <3>1. last_time - valid_time \in Nat /\ last_time - valid_time <= last_time
      OBVIOUS
    <3> QED BY <2>1, <2>3, <3>1 DEF Timed!invalidate_slot
  <2> QED BY <1>3, <2>2, <2>3
<1>4. CASE UNCHANGED Timed!vars
  BY <1>4 DEF Timed!vars
<1> QED BY <1>1, <1>2, <1>3, <1>4 DEF Timed!Next

(* What AgeOf says of the slots, one after the other. *)
TimeAges == [i \in 1..Len(time) |-> Timed!AgeOf(i)]

LEMMA TimeAgesType ==
    ASSUME TimeConstants, TimeInv
    PROVE  /\ TimeAges \in Seq(Nat) /\ Len(TimeAges) = Len(time)
           /\ \A i \in 1..Len(time) : TimeAges[i] = Timed!AgeOf(i)
<1>1. \A i \in 1..Len(time) : Timed!AgeOf(i) \in Nat
  BY DEF TimeConstants, TimeInv, Timed!AgeOf, Timed!Elapsed
<1>2. Len(time) \in Nat
  BY DEF TimeInv
<1> QED BY <1>1, <1>2 DEF TimeAges

(* How far the clock has moved. *)
LEMMA Advance ==
    \A x, y, m \in Nat : x <= y /\ y <= m => \E d \in 0..m : y = x + d
<1> SUFFICES ASSUME NEW x \in Nat, NEW y \in Nat, NEW m \in Nat, x <= y, y <= m
             PROVE  \E d \in 0..m : y = x + d
  OBVIOUS
<1>1. y - x \in 0..m /\ y = x + (y - x)
  OBVIOUS
<1> QED BY <1>1

LEMMA TimeStep ==
    ASSUME TimeConstants, TimeInv, TimeInv', [Timed!Next]_Timed!vars
    PROVE  [Timed!Ages!Next]_TimeAges
<1> USE DEF TimeConstants
<1>1. /\ Len(TimeAges) = Len(time) /\ \A i \in 1..Len(time) : TimeAges[i] = Timed!AgeOf(i)
      /\ Len(time) \in Nat
  BY TimeAgesType DEF TimeInv
<1>2. ASSUME NEW n \in 0..MaxSlots, Timed!allocate_slots(n)
      PROVE  Timed!Ages!Allocate(n)
  <2>1. time' = [i \in 1..n |-> IF i <= Len(time) THEN time[i] ELSE last_time - valid_time]
        /\ last_time' = last_time
    BY <1>2 DEF Timed!allocate_slots
  <2>2. Len(time') = n
    BY <2>1
  <2>3. ASSUME NEW i \in 1..n
        PROVE  Timed!AgeOf(i)' = IF i <= Len(time) THEN Timed!AgeOf(i) ELSE valid_time
    BY <2>1 DEF Timed!AgeOf, Timed!Elapsed, TimeInv
  <2>4. TimeAges' = [i \in 1..n |-> IF i <= Len(TimeAges) THEN TimeAges[i] ELSE valid_time]
    BY <1>1, <2>2, <2>3 DEF TimeAges
  <2> QED BY <2>4 DEF Timed!Ages!Allocate, TimeAges
<1>3. ASSUME Timed!update_validity
      PROVE  \E d \in 0..MaxTime : Timed!Ages!Update(d)
  <2>1. PICK d \in 0..MaxTime : last_time' = last_time + d
    <3>1. last_time \in Nat /\ last_time' \in Nat
      BY DEF TimeInv
    <3>2. last_time <= last_time' /\ last_time' <= MaxTime
      BY <1>3, <3>1 DEF Timed!update_validity
    <3> QED BY <3>1, <3>2, Advance
  <2>2. ASSUME NEW i \in 1..Len(time)
        PROVE  Timed!AgeOf(i)' = Timed!Ages!Older(Timed!AgeOf(i), d)
    <3>1. /\ time[i] \in Nat /\ last_time \in Nat /\ d \in Nat
          /\ valid_time \in Nat /\ time[i] <= last_time
      BY DEF TimeInv
    <3>2. time' = time
      BY <1>3 DEF Timed!update_validity
    <3> QED BY <2>1, <3>1, <3>2 DEF Timed!AgeOf, Timed!Elapsed, Timed!Ages!Older, Timed!Ages!Expired
  <2>3. TimeAges' = [i \in 1..Len(TimeAges) |-> Timed!Ages!Older(TimeAges[i], d)]
    BY <1>1, <1>3, <2>2 DEF TimeAges, Timed!update_validity
  <2> QED BY <2>3 DEF Timed!Ages!Update, TimeAges
<1>4. ASSUME NEW i \in 1..Len(time), Timed!validate_slot(i)
      PROVE  Timed!Ages!Validate(i)
  <2>1. Len(time') = Len(time) /\ last_time' = last_time
    BY <1>4 DEF Timed!validate_slot, TimeInv
  <2>2. ASSUME NEW k \in 1..Len(time)
        PROVE  Timed!AgeOf(k)' = IF k = i THEN 0 ELSE Timed!AgeOf(k)
    BY <1>4 DEF Timed!validate_slot, Timed!AgeOf, Timed!Elapsed, TimeInv
  <2>3. TimeAges' = [TimeAges EXCEPT ![i] = 0]
    BY <1>1, <2>1, <2>2 DEF TimeAges
  <2> QED BY <2>3 DEF Timed!Ages!Validate, TimeAges
<1>5. ASSUME NEW i \in 1..Len(time), Timed!invalidate_slot(i)
      PROVE  Timed!Ages!Invalidate(i)
  <2>1. Len(time') = Len(time) /\ last_time' = last_time
    BY <1>5 DEF Timed!invalidate_slot, TimeInv
  <2>2. ASSUME NEW k \in 1..Len(time)
        PROVE  Timed!AgeOf(k)' = IF k = i THEN valid_time ELSE Timed!AgeOf(k)
    BY <1>5 DEF Timed!invalidate_slot, Timed!AgeOf, Timed!Elapsed, TimeInv
  <2>3. TimeAges' = [TimeAges EXCEPT ![i] = valid_time]
    BY <1>1, <2>1, <2>2 DEF TimeAges
  <2> QED BY <2>3 DEF Timed!Ages!Invalidate, TimeAges
<1>6. CASE UNCHANGED Timed!vars
  BY <1>6 DEF Timed!vars, TimeAges, Timed!AgeOf, Timed!Elapsed
<1>7. Len(TimeAges) = Len(time)
  BY <1>1
<1> QED BY <1>2, <1>3, <1>4, <1>5, <1>6, <1>7 DEF Timed!Next, Timed!Ages!Next, TimeAges

----------------------------------------------------------------------------
(* Theorems *)

(* No slot is valid longer than the validity time says: the clock behaves  *)
(* as the ages that the caches are written against, a slot that was        *)
(* allocated or invalidated having the largest valid age                   *)
(* (timed_validator.rs:59-82).                                             *)
THEOREM TimedImplements ==
    ASSUME TimeConstants
    PROVE  Timed!Spec => Timed!Implements
<1>1. Timed!Init => TimeInv
  BY TimeInit
<1>2. TimeInv /\ [Timed!Next]_Timed!vars => TimeInv'
  BY TimeNext
<1>3. Timed!Init => Timed!Ages!Init
  BY DEF Timed!Init, Timed!Ages!Init
<1>4. TimeInv /\ TimeInv' /\ [Timed!Next]_Timed!vars => [Timed!Ages!Next]_TimeAges
  BY TimeStep
<1> QED BY <1>1, <1>2, <1>3, <1>4, PTL DEF Timed!Spec, Timed!Implements, Timed!Ages!Spec, TimeAges

(* The age of a slot is what its history says: how far the clock has moved *)
(* since its validation or, from valid_time on, since it was made or given *)
(* up.                                                                     *)
TimeHistory ==
    /\ TimeInv
    /\ moved \in Seq(Event) /\ Len(moved) = Len(time)
    /\ \A i \in 1..Len(time) : last_time - time[i] = Past(moved[i], valid_time)

LEMMA TimeHistoryInit == ASSUME TimeConstants, Timed!Init PROVE TimeHistory
BY TimeInit DEF Timed!Init, TimeHistory

LEMMA TimeHistoryNext ==
    ASSUME TimeConstants, TimeHistory, [Timed!Next]_Timed!vars
    PROVE  TimeHistory'
<1> DEFINE back == last_time - valid_time
<1>1. TimeInv /\ TimeInv'
  BY TimeNext DEF TimeHistory
<1>2. /\ moved \in Seq(Event) /\ Len(moved) = Len(time) /\ Len(time) \in Nat
      /\ last_time \in Nat /\ last_time' \in Nat /\ valid_time \in Nat
      /\ back \in Nat /\ last_time - back = valid_time
      /\ \A i \in 1..Len(time) : /\ moved[i] \in Event /\ time[i] \in Nat
                                 /\ last_time - time[i] = Past(moved[i], valid_time)
  BY <1>1 DEF TimeHistory, TimeInv, TimeConstants
<1>3. /\ Timed!Fresh \in Event /\ Past(Timed!Fresh, valid_time) = valid_time
      /\ Timed!Validated \in Event /\ Past(Timed!Validated, valid_time) = 0
  BY <1>2 DEF Timed!Fresh, Timed!Validated, Event, Past
<1>4. ASSUME moved' \in Seq(Event), Len(moved') = Len(time'),
             \A i \in 1..Len(time') : last_time' - time'[i] = Past(moved'[i], valid_time)
      PROVE  TimeHistory'
  BY <1>1, <1>4 DEF TimeHistory
<1> HIDE DEF back
<1>5. ASSUME NEW n \in 0..MaxSlots, Timed!allocate_slots(n)
      PROVE  TimeHistory'
  <2>1. /\ time' = [i \in 1..n |-> IF i <= Len(time) THEN time[i] ELSE back]
        /\ moved' = [i \in 1..n |-> IF i <= Len(moved) THEN moved[i] ELSE Timed!Fresh]
        /\ last_time' = last_time /\ n \in Nat
    BY <1>5 DEF Timed!allocate_slots, back, TimeConstants
  <2>2. Len(time') = n /\ Len(moved') = n
    BY <2>1
  <2>3. ASSUME NEW i \in 1..n
        PROVE  moved'[i] \in Event /\ last_time' - time'[i] = Past(moved'[i], valid_time)
    <3>1. CASE i <= Len(time)
      BY <1>2, <2>1, <3>1
    <3>2. CASE ~(i <= Len(time))
      BY <1>2, <1>3, <2>1, <3>2
    <3> QED BY <3>1, <3>2
  <2>4. moved' \in Seq(Event)
    <3>1. moved' = [i \in 1..n |-> moved'[i]]
      BY <2>1
    <3> QED BY <2>1, <2>3, <3>1
  <2> QED BY <1>4, <2>2, <2>3, <2>4
<1>6. CASE Timed!update_validity
  <2>1. PICK d \in 0..MaxTime : last_time' = last_time + d
    <3>1. last_time \in Nat /\ last_time' \in Nat
      BY <1>2
    <3>2. last_time <= last_time' /\ last_time' <= MaxTime
      BY <1>6, <3>1 DEF Timed!update_validity
    <3> QED BY <3>1, <3>2, Advance DEF TimeConstants
  <2> d \in Nat /\ last_time' - last_time = d
    BY <1>2, <2>1 DEF TimeConstants
  <2>2. time' = time /\ moved' = [i \in 1..Len(moved) |-> Later(moved[i], d)]
    BY <1>6 DEF Timed!update_validity, Later
  <2>3. ASSUME NEW i \in 1..Len(time)
        PROVE  /\ Later(moved[i], d) \in Event /\ Past(moved[i], valid_time) \in Nat
               /\ Past(Later(moved[i], d), valid_time) = Past(moved[i], valid_time) + d
    BY <1>2, LaterFacts
  <2>4. moved' \in Seq(Event) /\ Len(moved') = Len(time')
    BY <1>2, <2>2, <2>3
  <2>5. ASSUME NEW i \in 1..Len(time)
        PROVE  last_time' - time'[i] = Past(moved'[i], valid_time)
    <3>1. moved'[i] = Later(moved[i], d)
      BY <1>2, <2>2
    <3> QED BY <1>2, <2>1, <2>3, <2>2, <3>1
  <2> QED BY <1>4, <2>2, <2>4, <2>5
<1>7. ASSUME NEW i \in 1..Len(time), NEW x \in Nat, NEW e \in Event,
             last_time - x = Past(e, valid_time), last_time' = last_time,
             time' = [time EXCEPT ![i] = x], moved' = [moved EXCEPT ![i] = e]
      PROVE  TimeHistory'
  <2>1. Len(time') = Len(time) /\ Len(moved') = Len(time) /\ moved' \in Seq(Event)
    BY <1>1, <1>2, <1>7 DEF TimeInv
  <2>2. ASSUME NEW k \in 1..Len(time)
        PROVE  last_time' - time'[k] = Past(moved'[k], valid_time)
    <3>1. time'[k] = IF k = i THEN x ELSE time[k]
      BY <1>1, <1>7 DEF TimeInv
    <3>2. moved'[k] = IF k = i THEN e ELSE moved[k]
      BY <1>2, <1>7
    <3> QED BY <1>2, <1>7, <3>1, <3>2
  <2> QED BY <1>4, <2>1, <2>2
<1>8. ASSUME NEW i \in 1..Len(time), Timed!validate_slot(i)
      PROVE  TimeHistory'
  <2>1. last_time - last_time = 0
    BY <1>2
  <2> QED BY <1>2, <1>3, <1>7, <1>8, <2>1 DEF Timed!validate_slot
<1>9. ASSUME NEW i \in 1..Len(time), Timed!invalidate_slot(i)
      PROVE  TimeHistory'
  <2>1. /\ time' = [time EXCEPT ![i] = back] /\ moved' = [moved EXCEPT ![i] = Timed!Fresh]
        /\ last_time' = last_time
    BY <1>9 DEF Timed!invalidate_slot, back
  <2> QED BY <1>2, <1>3, <1>7, <2>1
<1>10. CASE UNCHANGED Timed!vars
  <2>1. time' = time /\ moved' = moved /\ last_time' = last_time
    BY <1>10 DEF Timed!vars
  <2> QED BY <1>2, <1>4, <2>1
<1> QED BY <1>5, <1>6, <1>8, <1>9, <1>10 DEF Timed!Next

(* A slot is valid from its validation until the clock has moved by more   *)
(* than valid_time; one that was not validated since it was made or given  *)
(* up is valid until the clock first moves (timed_validator.rs:59-82).     *)
THEOREM TimedExpires ==
    ASSUME TimeConstants
    PROVE  Timed!Spec => []Timed!ExpiresInTime
<1>1. Timed!Init => TimeHistory
  BY TimeHistoryInit
<1>2. TimeHistory /\ [Timed!Next]_Timed!vars => TimeHistory'
  BY TimeHistoryNext
<1>3. TimeHistory => Timed!ExpiresInTime
  <2> SUFFICES ASSUME TimeHistory, NEW i \in 1..Len(time)
               PROVE  Timed!is_slot_valid(i) <=>
                          moved[i].n <= (IF moved[i].validated THEN valid_time ELSE 0)
    BY DEF Timed!ExpiresInTime
  <2>1. /\ moved[i] \in Event /\ valid_time \in Nat
        /\ last_time - time[i] = Past(moved[i], valid_time)
    BY DEF TimeHistory, TimeConstants
  <2>2. Timed!is_slot_valid(i) <=> last_time - time[i] <= valid_time
    BY DEF Timed!is_slot_valid, Timed!Elapsed
  <2> QED BY <2>1, <2>2, PastWithin
<1> QED BY <1>1, <1>2, <1>3, PTL DEF Timed!Spec

----------------------------------------------------------------------------
(* Both, beside a translation cache *)

LEMMA MCStep ==
    ASSUME [MCNext]_<<vars, validators, part>>
    PROVE  [Counted!Next]_Counted!vars /\ [Timed!Next]_Timed!vars
<1>1. CASE UNCHANGED validators
  BY <1>1 DEF validators, Counted!vars, Timed!vars
<1>2. CASE Counted!Next /\ UNCHANGED <<time, last_time, moved>>
  BY <1>2 DEF Timed!vars
<1>3. CASE Timed!Next /\ UNCHANGED <<count, last_count, ops>>
  BY <1>3 DEF Counted!vars
<1> QED BY <1>1, <1>2, <1>3 DEF MCNext

(* Of both validators at once: what is_slot_valid says of a slot follows   *)
(* from when it was validated and from the operations, or the time, that   *)
(* have passed since (count_validator.rs:47-61, 71-98,                     *)
(* timed_validator.rs:59-82).                                              *)
THEOREM SlotsExpire ==
    ASSUME CountConstants, TimeConstants
    PROVE  MCSpec => []SlotsExpireInTime
<1>1. MCSpec => Counted!Spec /\ Timed!Spec
  <2>1. MCInit => Counted!Init /\ Timed!Init
    BY DEF MCInit
  <2>2. [MCNext]_<<vars, validators, part>>
            => [Counted!Next]_Counted!vars /\ [Timed!Next]_Timed!vars
    BY MCStep
  <2> QED BY <2>1, <2>2, PTL DEF MCSpec, Counted!Spec, Timed!Spec
<1>2. Counted!Spec => []Counted!ExpiresInTime
  BY CountExpires
<1>3. Timed!Spec => []Timed!ExpiresInTime
  BY TimedExpires
<1> QED BY <1>1, <1>2, <1>3, PTL DEF SlotsExpireInTime

(* Of both at once: what the trait CacheValidator promises a cache         *)
(* (count_validator.rs:71-98, timed_validator.rs:59-82).                   *)
THEOREM ValidatorsImplement ==
    ASSUME CountConstants, TimeConstants
    PROVE  MCSpec => ValidatorsImplementAges
<1>1. MCSpec => Counted!Spec /\ Timed!Spec
  <2>1. MCInit => Counted!Init /\ Timed!Init
    BY DEF MCInit
  <2>2. [MCNext]_<<vars, validators, part>>
            => [Counted!Next]_Counted!vars /\ [Timed!Next]_Timed!vars
    BY MCStep
  <2> QED BY <2>1, <2>2, PTL DEF MCSpec, Counted!Spec, Timed!Spec
<1>2. Counted!Spec => Counted!Implements
  BY CountImplements
<1>3. Timed!Spec => Timed!Implements
  BY TimedImplements
<1> QED BY <1>1, <1>2, <1>3, PTL DEF ValidatorsImplementAges
=============================================================================
