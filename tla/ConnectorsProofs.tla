-------------------------- MODULE ConnectorsProofs --------------------------
(***************************************************************************)
(* The connector layer, for every instance.                                *)
(*                                                                         *)
(* The iterator of the memory map for every set of regions, pushed in any  *)
(* order, and every list of ranges that do not overlap: what is yielded is *)
(* right, also over a list that is not sorted or has mappings inside of    *)
(* each other.                                                             *)
(*                                                                         *)
(* The transfers of the connectors for every map, list and host, every     *)
(* fault and every short count: what is read and written is right; and for *)
(* every qemu process and every argument list the guest that is opened is  *)
(* the one asked for, with its memory mapped byte by byte.                 *)
(*                                                                         *)
(* The objects of the C interface for every inventory and every number of  *)
(* boxes: the references of a library are exactly those that the client's  *)
(* objects and the entries of its inventories hold.                        *)
(***************************************************************************)
EXTENDS MCConnectors, FiniteSetTheorems, SequenceTheorems,
    WellFoundedInduction, TLAPS

Items     == [addr : Nat, len : Nat]
Mapping  == [base : Nat, len : Nat \ {0}, real : Nat]
BytesIn(e) == BytesOf(e.addr, e.len)

(* No byte is asked for twice in one list. *)
DisjointQueries ==
    \A q \in Queries : \A i, j \in 1..Len(q) :
        i # j => \A b \in BytesIn(q[i]) : b \notin BytesIn(q[j])

----------------------------------------------------------------------------
(* The inductive invariant *)

Types ==
    /\ mappings \in Seq(Mapping)
    /\ in_iter \in Seq(Items)
    /\ cur_elem \in Items \cup {NoElem} /\ cur_map_pos \in Nat
    /\ out \subseteq Nat \X Int

(* The ranges that are still to be looked at have no byte in common ...    *)
Ahead ==
    /\ \A i, j \in 1..Len(in_iter) :
          i # j => \A b \in BytesIn(in_iter[i]) : b \notin BytesIn(in_iter[j])
    /\ cur_elem # NoElem => \A i \in 1..Len(in_iter) :
          \A b \in BytesIn(cur_elem) : b \notin BytesIn(in_iter[i])

Pending(b) ==
    \/ cur_elem # NoElem /\ b \in BytesIn(cur_elem)
    \/ \E i \in 1..Len(in_iter) : b \in BytesIn(in_iter[i])

(* ... nor with what was yielded and rejected.                             *)
Behindhand ==
    /\ \A y \in out : ~Pending(y[1])
    /\ \A b \in fail_out : ~Pending(b)

MapInv == Types /\ Ahead /\ Behindhand /\ YieldedIsRight

----------------------------------------------------------------------------
(* The largest and the smallest element *)

LEMMA LessThan == \A x, y \in Nat : x < y => <<x, y>> \in OpToRel(<, Nat)
BY Zenon DEF OpToRel

LEMMA Smallest ==
    ASSUME NEW S \in SUBSET Nat, S # {}
    PROVE  \E x \in S : \A y \in S : x <= y
<1>1. PICK x \in S : \A y \in S : ~ (<<y, x>> \in OpToRel(<, Nat))
  BY NatLessThanWellFounded, WFMin, Zenon
<1>2. \A y \in S : x <= y
  <2> SUFFICES ASSUME NEW y \in S PROVE x <= y
    OBVIOUS
  <2>1. ~(y < x)
    BY <1>1, LessThan
  <2> QED BY <2>1
<1> QED BY <1>2

LEMMA Largest ==
    ASSUME NEW n \in Nat, NEW S, \A x \in S : x \in 1..n, S # {}
    PROVE  \E x \in S : \A y \in S : x >= y
<1> DEFINE T == {n - x : x \in S}
<1>1. \A t \in T : t \in Nat
  <2> SUFFICES ASSUME NEW x \in S PROVE n - x \in Nat
    OBVIOUS
  <2>1. x \in 1..n
    OBVIOUS
  <2> QED BY <2>1
<1>2. T \in SUBSET Nat /\ T # {}
  BY <1>1
<1>3. PICK t \in T : \A u \in T : t <= u
  <2> HIDE DEF T
  <2> QED BY <1>2, Smallest
<1>4. PICK x \in S : t = n - x
  OBVIOUS
<1>5. ASSUME NEW y \in S
      PROVE  x >= y
  <2>1. n - y \in T
    OBVIOUS
  <2>2. n - x <= n - y
    BY <1>3, <1>4, <2>1
  <2>3. x \in 1..n /\ y \in 1..n
    OBVIOUS
  <2> QED BY <2>2, <2>3
<1> QED BY <1>5

(* The mapping that the walk finds is one behind its start. *)
LEMMA FoundFact ==
    ASSUME Types, NEW addr \in Nat, NEW pos \in Nat, Found(addr, pos) # 0
    PROVE  /\ Found(addr, pos) \in 1..Len(mappings)
           /\ mappings[Found(addr, pos)] \in Mapping
           /\ End(mappings[Found(addr, pos)]) > addr
<1> DEFINE I == {i \in (pos + 1)..Len(mappings) : End(mappings[i]) > addr}
<1>1. Len(mappings) \in Nat
  BY DEF Types
<1>2. Found(addr, pos) = IF I # {} THEN Min(I) ELSE 0
  BY DEF Found, SelectInSubSeq
<1>3. I \in SUBSET Nat /\ I \subseteq 1..Len(mappings)
  BY <1>1
<1>4. I # {} /\ Min(I) \in I
  BY <1>2, <1>3, Smallest DEF Min
<1>5. Found(addr, pos) \in I
  BY <1>2, <1>4
<1>6. Found(addr, pos) \in 1..Len(mappings)
  BY <1>3, <1>5
<1>7. mappings[Found(addr, pos)] \in Mapping
  BY <1>6 DEF Types
<1> QED BY <1>5, <1>6, <1>7

(* Every start of the walk is a position. *)
LEMMA StartFact ==
    ASSUME Types, NEW addr \in Nat
    PROVE  StartPos(addr) \subseteq Nat
<1> DEFINE S == {i \in DOMAIN mappings : End(mappings[i]) <= addr}
<1>1. Len(mappings) \in Nat /\ DOMAIN mappings = 1..Len(mappings)
  BY DEF Types
<1>2. IsFiniteSet(1..Len(mappings))
  BY <1>1, FS_Interval
<1>3. IsFiniteSet(S)
  <2>1. S \subseteq 1..Len(mappings)
    BY <1>1
  <2> HIDE DEF S
  <2> QED BY <1>2, <2>1, FS_Subset
<1>4. Cardinality(S) \in Nat
  <2> HIDE DEF S
  <2> QED BY <1>3, FS_CardinalityType
<1>5. binary_search(addr) = IF Sorted THEN {Cardinality(S)} ELSE 0..Len(mappings)
  BY DEF binary_search
<1>6. binary_search(addr) \subseteq Nat
  <2> HIDE DEF S
  <2> QED BY <1>1, <1>4, <1>5
<1>7. cur_map_pos \in Nat
  BY DEF Types
<1> HIDE DEF S
<1> QED BY <1>6, <1>7 DEF StartPos

(* A region is put into the list, not behind its end. *)
LEMMA PlaceFact ==
    ASSUME Types, NEW r \in Mapping
    PROVE  shift_idx(r) \in 0..Len(mappings)
<1> DEFINE I == {i \in 1..Len(mappings) : Collides(mappings[i], r) \/ End(mappings[i]) <= r.base}
<1>1. Len(mappings) \in Nat
  BY DEF Types
<1>2. scan_end(r) = IF I # {} THEN Max(I) ELSE 0
  BY DEF scan_end, SelectLastInSeq
<1>3. \A x \in I : x \in 1..Len(mappings)
  OBVIOUS
<1>4. I # {} => Max(I) \in I
  <2> HIDE DEF I
  <2> SUFFICES ASSUME I # {} PROVE Max(I) \in I
    OBVIOUS
  <2>1. \E x \in I : \A y \in I : x >= y
    BY <1>1, <1>3, Largest
  <2> QED BY <2>1 DEF Max
<1> HIDE DEF I
<1>5. scan_end(r) \in 0..Len(mappings)
  BY <1>1, <1>2, <1>3, <1>4
<1> QED BY <1>1, <1>5 DEF shift_idx

LEMMA SecondPart ==
    ASSUME NEW S, NEW x \in Seq(S), NEW y \in Seq(S), NEW j \in 1..Len(y)
    PROVE  (x \o y)[Len(x) + j] = y[j]
OBVIOUS

(* What is where after an insertion behind the k-th element. *)
LEMMA InsertFact ==
    ASSUME NEW s \in Seq(Mapping), NEW k \in 0..Len(s), NEW r \in Mapping
    PROVE  LET t == InsertAt(s, k + 1, r) IN
           /\ t \in Seq(Mapping) /\ Len(t) = Len(s) + 1
           /\ \A i \in 1..k : t[i] = s[i]
           /\ t[k + 1] = r
           /\ \A i \in (k + 1)..Len(s) : t[i + 1] = s[i]
<1> DEFINE a == SubSeq(s, 1, k)
           b == SubSeq(s, k + 1, Len(s))
           t == (a \o <<r>>) \o b
<1>1. Len(s) \in Nat /\ k \in Nat /\ k <= Len(s)
  OBVIOUS
<1>2. InsertAt(s, k + 1, r) = t
  <2>1. (k + 1) - 1 = k
    BY <1>1
  <2> QED BY <2>1 DEF InsertAt
<1>3. a \in Seq(Mapping) /\ Len(a) = k
  BY <1>1
<1>4. b \in Seq(Mapping) /\ Len(b) = Len(s) - k
  BY <1>1
<1>5. t \in Seq(Mapping) /\ Len(t) = Len(s) + 1
  <2> HIDE DEF a, b
  <2> QED BY <1>1, <1>3, <1>4
<1>6. ASSUME NEW i \in 1..k
      PROVE  t[i] = s[i]
  <2>1. a[i] = s[i]
    BY <1>1
  <2>2. t[i] = a[i]
    <3> HIDE DEF a, b
    <3> QED BY <1>1, <1>3, <1>4
  <2> QED BY <2>1, <2>2
<1>7. t[k + 1] = r
  <2> HIDE DEF a, b
  <2> QED BY <1>1, <1>3, <1>4
<1>8. ASSUME NEW i \in (k + 1)..Len(s)
      PROVE  t[i + 1] = s[i]
  <2>1. b[i - k] = s[i]
    <3>1. /\ i - k \in 1..Len(s) - k
          /\ (k + 1) + (i - k) - 1 = i
      BY <1>1
    <3>2. b[i - k] = s[(k + 1) + (i - k) - 1]
      BY <1>1, <3>1, SMTT(60)
    <3> QED BY <3>1, <3>2
  <2>2. t[i + 1] = b[i - k]
    <3>1. a \o <<r>> \in Seq(Mapping) /\ Len(a \o <<r>>) = k + 1
      <4> HIDE DEF a
      <4>1. <<r>> \in Seq(Mapping) /\ Len(<<r>>) = 1
        OBVIOUS
      <4> QED BY <1>3, <4>1
    <3>3. i - k \in 1..Len(b)
      <4> HIDE DEF b
      <4> QED BY <1>1, <1>4
    <3>2. i + 1 = (k + 1) + (i - k)
      BY <1>1
    <3> HIDE DEF a, b
    <3> QED BY <1>4, <3>1, <3>2, <3>3, SecondPart
  <2> QED BY <2>1, <2>2
<1> HIDE DEF t
<1> QED BY <1>2, <1>5, <1>6, <1>7, <1>8

----------------------------------------------------------------------------
(* The steps *)

LEMMA InitInv == Init => MapInv
BY DEF Init, MapInv, Types, Ahead, Behindhand, Pending, YieldedIsRight, Yielded

LEMMA PushStep ==
    ASSUME MapInv, Push
    PROVE  MapInv'
<1>1. mappings' \in Seq(Mapping)
  <2>1. PICK r \in Mapping : \/ mappings' = mappings
                             \/ mappings' = InsertAt(mappings, shift_idx(r) + 1, r)
    BY RegionsAssumption DEF Push, Mapping
  <2>2. shift_idx(r) \in 0..Len(mappings) /\ mappings \in Seq(Mapping)
    BY PlaceFact DEF MapInv, Types
  <2> QED BY <2>1, <2>2, InsertFact, SMTT(60)
<1>2. /\ out' = {} /\ fail_out' = {}
      /\ in_iter' = in_iter /\ cur_elem' = cur_elem /\ cur_map_pos' = cur_map_pos
  BY DEF Push
<1>3. Types'
  BY <1>1, <1>2 DEF MapInv, Types
<1>4. Ahead'
  BY <1>2 DEF MapInv, Ahead
<1>5. Behindhand' /\ YieldedIsRight'
  BY <1>2 DEF Behindhand, YieldedIsRight
<1> QED BY <1>3, <1>4, <1>5 DEF MapInv

LEMMA MapIterStep ==
    ASSUME DisjointQueries, MapInv, MapIter
    PROVE  MapInv'
<1>1. /\ out' = {} /\ fail_out' = {} /\ cur_elem' = NoElem /\ cur_map_pos' = 0
      /\ mappings' = mappings
  BY DEF MapIter
<1>2. in_iter' \in Queries
  BY DEF MapIter
<1>3. Types'
  BY <1>1, <1>2, QueriesAssumption DEF MapInv, Types, Items
<1>4. Ahead'
  BY <1>1, <1>2 DEF DisjointQueries, Ahead
<1>5. Behindhand' /\ YieldedIsRight'
  BY <1>1 DEF Behindhand, YieldedIsRight
<1> QED BY <1>3, <1>4, <1>5 DEF MapInv

LEMMA FetchStep ==
    ASSUME MapInv, FetchElem
    PROVE  MapInv'
<1>1. /\ cur_elem = NoElem /\ in_iter # <<>> /\ in_iter \in Seq(Items)
      /\ cur_elem' = Head(in_iter) /\ in_iter' = Tail(in_iter) /\ cur_map_pos' = 0
      /\ mappings' = mappings /\ out' = out /\ fail_out' = fail_out
  BY DEF FetchElem, MapInv, Types
<1>2. /\ cur_elem' = in_iter[1] /\ 1 \in 1..Len(in_iter)
      /\ cur_elem' \in Items /\ in_iter' \in Seq(Items)
  BY <1>1
<1>3. \A i \in 1..Len(in_iter') : i + 1 \in 1..Len(in_iter) /\ in_iter'[i] = in_iter[i + 1] /\ i + 1 # 1
  BY <1>1
<1>4. Types'
  BY <1>1, <1>2 DEF MapInv, Types
<1>5. Ahead'
  <2>1. ASSUME NEW i \in 1..Len(in_iter'), NEW j \in 1..Len(in_iter'), i # j,
               NEW b \in BytesIn(in_iter'[i])
        PROVE  b \notin BytesIn(in_iter'[j])
    <3>1. i + 1 # j + 1
      BY <2>1
    <3> QED BY <1>3, <2>1, <3>1 DEF MapInv, Ahead
  <2>2. ASSUME NEW i \in 1..Len(in_iter'), NEW b \in BytesIn(cur_elem')
        PROVE  b \notin BytesIn(in_iter'[i])
    BY <1>2, <1>3 DEF MapInv, Ahead
  <2> QED BY <2>1, <2>2 DEF Ahead
<1>6. ASSUME NEW b, Pending(b)'
      PROVE  Pending(b)
  BY <1>2, <1>3, <1>6 DEF Pending
<1>7. Behindhand'
  BY <1>1, <1>6 DEF MapInv, Behindhand
<1>8. YieldedIsRight'
  BY <1>1 DEF MapInv, YieldedIsRight, Yielded
<1> QED BY <1>4, <1>5, <1>7, <1>8 DEF MapInv

(* A turn that gives out some bytes of the current range and keeps others. *)
LEMMA Consume ==
    ASSUME MapInv, cur_elem # NoElem, NEW Y, NEW R,
           mappings' = mappings, in_iter' = in_iter,
           out' = out \cup Y, fail_out' = fail_out \cup R,
           cur_elem' \in Items \cup {NoElem}, cur_map_pos' \in Nat,
           cur_elem' # NoElem => \A b \in BytesIn(cur_elem') : b \in BytesIn(cur_elem),
           \A b \in R : b \in BytesIn(cur_elem),
           \A y \in Y : /\ y \in Nat \X Int
                        /\ y[1] \in BytesIn(cur_elem)
                        /\ y[1] \notin R
                        /\ \E i \in 1..Len(mappings) :
                              /\ Covers(mappings[i], y[1])
                              /\ y[2] = mappings[i].real + (y[1] - mappings[i].base),
           \A y, z \in Y : y[1] = z[1] => y = z,
           cur_elem' # NoElem => /\ \A b \in R : b \notin BytesIn(cur_elem')
                                 /\ \A y \in Y : y[1] \notin BytesIn(cur_elem')
    PROVE  MapInv'
<1>1. Types'
  BY DEF MapInv, Types
<1>2. Ahead'
  BY DEF MapInv, Ahead
<1>3. ASSUME NEW b, b \in BytesIn(cur_elem)
      PROVE  /\ Pending(b)
             /\ b \notin fail_out
             /\ \A y \in out : y[1] # b
             /\ Pending(b)' => cur_elem' # NoElem /\ b \in BytesIn(cur_elem')
  <2>1. Pending(b)
    BY <1>3 DEF Pending
  <2>2. b \notin fail_out /\ \A y \in out : y[1] # b
    BY <2>1 DEF MapInv, Behindhand
  <2>3. \A i \in 1..Len(in_iter) : b \notin BytesIn(in_iter[i])
    BY <1>3 DEF MapInv, Ahead
  <2> QED BY <2>1, <2>2, <2>3 DEF Pending
<1>4. ASSUME NEW b, Pending(b)'
      PROVE  Pending(b)
  BY <1>4 DEF Pending
<1>5. Behindhand'
  <2>1. ASSUME NEW y \in out' PROVE ~Pending(y[1])'
    BY <1>3, <1>4 DEF MapInv, Behindhand
  <2>2. ASSUME NEW b \in fail_out' PROVE ~Pending(b)'
    BY <1>3, <1>4 DEF MapInv, Behindhand
  <2> QED BY <2>1, <2>2 DEF Behindhand
<1>6. YieldedIsRight'
  <2>1. ASSUME NEW y \in out'
        PROVE  \E i \in 1..Len(mappings) :
                  Covers(mappings[i], y[1]) /\ y[2] = mappings[i].real + (y[1] - mappings[i].base)
    BY DEF MapInv, YieldedIsRight
  <2>2. ASSUME NEW y \in out', NEW z \in out', y[1] = z[1]
        PROVE  y = z
    BY <1>3, <2>2 DEF MapInv, YieldedIsRight
  <2>3. ASSUME NEW b \in fail_out', NEW y \in out'
        PROVE  y[1] # b
    BY <1>3 DEF MapInv, YieldedIsRight, Yielded
  <2> QED BY <2>1, <2>2, <2>3 DEF YieldedIsRight, Yielded
<1> QED BY <1>1, <1>2, <1>5, <1>6 DEF MapInv

LEMMA NoMappingStep ==
    ASSUME MapInv, NoMapping
    PROVE  MapInv'
<1> DEFINE Y == {}
<1>1. /\ cur_elem # NoElem /\ cur_elem' = NoElem /\ cur_map_pos' \in Nat
      /\ mappings' = mappings /\ in_iter' = in_iter
      /\ out' = out \cup Y /\ fail_out' = fail_out \cup Y
  BY DEF NoMapping
<1>2. \A y : y \notin Y
  OBVIOUS
<1> HIDE DEF Y
<1> QED BY <1>1, <1>2, Consume

LEMMA RejectAllStep ==
    ASSUME MapInv, RejectAll
    PROVE  MapInv'
<1> DEFINE Y == {}
           R == BytesIn(cur_elem)
<1>1. /\ cur_elem # NoElem /\ cur_elem' = NoElem /\ cur_map_pos' \in Nat
      /\ mappings' = mappings /\ in_iter' = in_iter
      /\ out' = out \cup Y /\ fail_out' = fail_out \cup R
  BY DEF RejectAll, Reject, BytesIn
<1>2. (\A y : y \notin Y) /\ (\A b \in R : b \in BytesIn(cur_elem))
  OBVIOUS
<1> HIDE DEF Y, R
<1> QED BY <1>1, <1>2, Consume

(* What the arithmetic of a turn comes to: off bytes lie below the mapping *)
(* that was found, n in it, and the others are left for the next turn.     *)
Turn(pos, off, n) ==
    LET m == mappings[Found(cur_elem.addr, pos)]
        a == cur_elem.addr
        l == cur_elem.len
    IN
    /\ cur_elem # NoElem /\ a \in Nat /\ l \in Nat
    /\ Found(a, pos) \in 1..Len(mappings)
    /\ off + n <= l
    /\ off > 0 => a + off = m.base
    /\ m.base <= a + off /\ (a + off) + n <= End(m)
    /\ fail_out' = fail_out \cup BytesOf(a, off)
    /\ out' = out \cup {<<b, m.real + (b - m.base)>> : b \in BytesOf(a + off, n)}
    /\ \/ /\ cur_elem' = [addr |-> (a + off) + n, len |-> (l - off) - n]
          /\ cur_map_pos' = Found(a, pos)
          /\ (a + off) + n = End(m)
       \/ off + n = l /\ cur_elem' = NoElem /\ cur_map_pos' = 0

LEMMA YieldFact ==
    ASSUME Types, YieldPart
    PROVE  \E pos \in StartPos(cur_elem.addr), off \in Nat, n \in Nat :
              Turn(pos, off, n)
<1>1. cur_elem # NoElem /\ cur_elem.addr \in Nat /\ cur_elem.len \in Nat
  BY DEF YieldPart, Types, Items
<1>2. PICK pos \in StartPos(cur_elem.addr) :
          LET i    == Found(cur_elem.addr, pos)
              m    == mappings[i]
              off  == Offset(m, cur_elem.addr)
              addr == cur_elem.addr + off
              left == cur_elem.len - off
              room == End(m) - addr
              n    == IF left <= room THEN left ELSE room
          IN
          /\ i # 0 /\ left > 0
          /\ Reject(cur_elem.addr, off)
          /\ out' = out \cup {<<b, m.real + (b - m.base)>> : b \in BytesOf(addr, n)}
          /\ IF left > room
             THEN /\ cur_elem' = [addr |-> addr + n, len |-> left - n]
                  /\ cur_map_pos' = Behind(i)
             ELSE cur_elem' = NoElem /\ cur_map_pos' = 0
  BY DEF YieldPart
<1> DEFINE i    == Found(cur_elem.addr, pos)
           m    == mappings[i]
           a    == cur_elem.addr
           l    == cur_elem.len
           off  == Offset(m, a)
           left == l - off
           room == End(m) - (a + off)
           n    == IF left <= room THEN left ELSE room
           Y    == {<<b, m.real + (b - m.base)>> : b \in BytesOf(a + off, n)}
<1>3. /\ i # 0 /\ left > 0
      /\ fail_out' = fail_out \cup BytesOf(a, off)
      /\ out' = out \cup Y
      /\ \/ /\ cur_elem' = [addr |-> (a + off) + n, len |-> left - n]
            /\ cur_map_pos' = i /\ left > room
         \/ cur_elem' = NoElem /\ cur_map_pos' = 0 /\ ~(left > room)
  BY <1>2 DEF Reject, Behind
<1>4. /\ i \in 1..Len(mappings)
      /\ m.base \in Nat /\ m.len \in Nat
      /\ m.base + m.len > a
  <2>1. pos \in Nat
    BY <1>1, StartFact
  <2> QED BY <1>1, <1>3, <2>1, FoundFact DEF End, Mapping
<1> DEFINE base == m.base
           len  == m.len
<1>5. off = IF base > a THEN base - a ELSE 0
  BY DEF Offset
<1>6. End(m) = base + len
  BY DEF End
<1>7. a \in Nat /\ l \in Nat /\ base \in Nat /\ len \in Nat /\ base + len > a /\ l - off > 0
  BY <1>1, <1>3, <1>4
<1> HIDE DEF i, m, off, a, l, base, len
<1>8. /\ off \in Nat /\ l - off \in Nat /\ base <= a + off /\ a + off <= base + len
      /\ off > 0 => a + off = base
  <2>1. CASE base > a
    <3>1. off = base - a
      BY <1>5, <2>1
    <3>2. base <= a + (base - a) /\ a + (base - a) <= base + len /\ base - a \in Nat
          /\ a + (base - a) = base
      BY <1>7, <2>1
    <3> QED BY <1>7, <3>1, <3>2
  <2>2. CASE ~(base > a)
    BY <1>5, <1>7, <2>2
  <2> QED BY <2>1, <2>2
<1>9. room \in Nat /\ (a + off) + room = base + len
  BY <1>6, <1>7, <1>8
<1> HIDE DEF room
<1>10. n \in Nat /\ n <= l - off /\ n <= room
       /\ (left > room => n = room) /\ (~(left > room) => n = l - off)
  BY <1>8, <1>9
<1> HIDE DEF n
<1>11. /\ off + n <= l /\ (a + off) + n <= base + len
       /\ left > room => (a + off) + n = base + len
       /\ ~(left > room) => off + n = l
  BY <1>7, <1>8, <1>9, <1>10
<1> HIDE DEF left
<1>12. left = l - off
  BY DEF left
<1> HIDE DEF Y
<1>13. Y = {<<b, m.real + (b - m.base)>> : b \in BytesOf(a + off, n)}
  BY DEF Y
<1>14. Turn(pos, off, n)
  BY <1>1, <1>3, <1>4, <1>6, <1>8, <1>11, <1>12, <1>13 DEF a, l, i, m, base, Turn
<1> QED BY <1>8, <1>10, <1>14

(* A range cut in three: the part in front of a mapping, the part inside   *)
(* it, and the rest.                                                       *)
CutsOf(a, l, off, n) ==
    a \in Nat /\ l \in Nat /\ off \in Nat /\ n \in Nat /\ off + n <= l

LEMMA RangeParts ==
    ASSUME NEW a, NEW l, NEW off, NEW n, CutsOf(a, l, off, n)
    PROVE  /\ \A b \in BytesOf(a, off) : b \in BytesOf(a, l)
           /\ \A b \in BytesOf(a + off, n) :
                 b \in Nat /\ b \in BytesOf(a, l) /\ b \notin BytesOf(a, off)
           /\ \A b \in BytesOf((a + off) + n, (l - off) - n) :
                 /\ b \in BytesOf(a, l) /\ b \notin BytesOf(a, off)
                 /\ b \notin BytesOf(a + off, n)
           /\ \A b \in BytesOf(a, l) :
                 \/ b \in BytesOf(a, off) \/ b \in BytesOf(a + off, n)
                 \/ b \in BytesOf((a + off) + n, (l - off) - n)
<1>1. \A b \in BytesOf(a, off) : b \in BytesOf(a, l)
  BY DEF BytesOf, CutsOf
<1>2. \A b \in BytesOf(a + off, n) :
          b \in Nat /\ b \in BytesOf(a, l) /\ b \notin BytesOf(a, off)
  BY DEF BytesOf, CutsOf
<1>3. \A b \in BytesOf((a + off) + n, (l - off) - n) :
          /\ b \in BytesOf(a, l) /\ b \notin BytesOf(a, off)
          /\ b \notin BytesOf(a + off, n)
  BY DEF BytesOf, CutsOf
<1>4. \A b \in BytesOf(a, l) :
          \/ b \in BytesOf(a, off) \/ b \in BytesOf(a + off, n)
          \/ b \in BytesOf((a + off) + n, (l - off) - n)
  BY DEF BytesOf, CutsOf
<1> QED BY <1>1, <1>2, <1>3, <1>4

(* A part that begins and ends in a mapping lies in it.                    *)
LEMMA PartCovered ==
    ASSUME NEW x \in Nat, NEW n \in Nat, NEW m,
           m.base \in Nat, m.len \in Nat, m.base <= x, x + n <= End(m)
    PROVE  \A b \in BytesOf(x, n) : Covers(m, b)
BY DEF BytesOf, Covers, End

LEMMA YieldPartStep ==
    ASSUME MapInv, YieldPart
    PROVE  MapInv'
<1>1. PICK pos \in StartPos(cur_elem.addr), off \in Nat, n \in Nat :
              Turn(pos, off, n)
  BY YieldFact DEF MapInv
<1> DEFINE f == Found(cur_elem.addr, pos)
           m == mappings[f]
           a == cur_elem.addr
           l == cur_elem.len
           R == BytesOf(a, off)
           B == BytesOf(a + off, n)
           Y == {<<b, m.real + (b - m.base)>> : b \in B}
<1>2. /\ f \in 1..Len(mappings)
      /\ a \in Nat /\ l \in Nat /\ off + n <= l
      /\ m.base <= a + off /\ (a + off) + n <= End(m)
      /\ fail_out' = fail_out \cup R /\ out' = out \cup Y
      /\ \/ cur_elem' = [addr |-> (a + off) + n, len |-> (l - off) - n] /\ cur_map_pos' = f
         \/ cur_elem' = NoElem /\ cur_map_pos' = 0
  BY <1>1 DEF Turn
<1>3. BytesIn(cur_elem) = BytesOf(a, l)
  BY DEF BytesIn
<1>4. /\ mappings' = mappings /\ in_iter' = in_iter /\ cur_elem # NoElem
      /\ Len(mappings) \in Nat /\ m.base \in Nat /\ m.real \in Nat /\ m.len \in Nat
  <2>1. mappings \in Seq(Mapping)
    BY DEF MapInv, Types
  <2>2. m \in Mapping
    <3> HIDE DEF f
    <3> QED BY <1>2, <2>1
  <2>3. m.base \in Nat /\ m.real \in Nat /\ m.len \in Nat
    <3> HIDE DEF m
    <3> QED BY <2>2 DEF Mapping
  <2>4. mappings' = mappings /\ in_iter' = in_iter /\ cur_elem # NoElem
    BY DEF YieldPart
  <2>5. Len(mappings) \in Nat
    BY <2>1
  <2> QED BY <2>3, <2>4, <2>5
<1> HIDE DEF f, m, a, l
<1> DEFINE T == BytesOf((a + off) + n, (l - off) - n)
<1>5. /\ \A b \in B : b \in Nat /\ b \in BytesOf(a, l) /\ b \notin R
      /\ \A b \in R : b \in BytesOf(a, l)
      /\ \A b \in T : b \in BytesOf(a, l) /\ b \notin R /\ b \notin B
  <2>1. CutsOf(a, l, off, n)
    BY <1>2 DEF CutsOf
  <2> QED BY <2>1, RangeParts
<1>6. \A b \in R : b \in BytesOf(a, l)
  BY <1>5
<1> HIDE DEF T
<1>7. \A b \in T : b \in BytesOf(a, l) /\ b \notin R /\ b \notin B
  BY <1>5
<1>8. \A b \in B : Covers(m, b)
  BY <1>2, <1>4, PartCovered
<1> HIDE DEF B, R
<1>9. cur_elem' # NoElem =>
         /\ cur_elem' \in Items
         /\ BytesIn(cur_elem') = BytesOf((a + off) + n, (l - off) - n)
  <2> SUFFICES ASSUME cur_elem' # NoElem
               PROVE  /\ cur_elem' \in Items
                      /\ BytesIn(cur_elem') = BytesOf((a + off) + n, (l - off) - n)
    OBVIOUS
  <2>1. cur_elem' = [addr |-> (a + off) + n, len |-> (l - off) - n]
    BY <1>2
  <2>2. (a + off) + n \in Nat /\ (l - off) - n \in Nat
    BY <1>2
  <2> QED BY <2>1, <2>2 DEF Items, BytesIn
<1>10. cur_elem' \in Items \cup {NoElem} /\ cur_map_pos' \in Nat
  BY <1>2, <1>4, <1>9
<1>11. \A y \in Y : /\ y[1] \in B
                    /\ y[2] = m.real + (y[1] - m.base)
                    /\ y = <<y[1], y[2]>>
                    /\ y \in Nat \X Int
  BY <1>4, <1>5
<1>12. \A y \in Y : /\ y \in Nat \X Int
                    /\ y[1] \in BytesIn(cur_elem)
                    /\ y[1] \notin R
                    /\ \E k \in 1..Len(mappings) :
                          /\ Covers(mappings[k], y[1])
                          /\ y[2] = mappings[k].real + (y[1] - mappings[k].base)
  BY <1>2, <1>3, <1>5, <1>8, <1>11 DEF m
<1>13. \A y, z \in Y : y[1] = z[1] => y = z
  BY <1>11
<1>14. \A b \in R : b \in BytesIn(cur_elem)
  BY <1>3, <1>6
<1>15. cur_elem' # NoElem => /\ \A b \in BytesIn(cur_elem') : b \in BytesIn(cur_elem)
                             /\ \A b \in R : b \notin BytesIn(cur_elem')
                             /\ \A y \in Y : y[1] \notin BytesIn(cur_elem')
  BY <1>3, <1>7, <1>9, <1>11 DEF T
<1>16. fail_out' = fail_out \cup R /\ out' = out \cup Y
  BY <1>2
<1> HIDE DEF Y
<1> QED BY <1>4, <1>10, <1>12, <1>13, <1>14, <1>15, <1>16, Consume

(* Every byte is yielded at the address that a mapping gives it, at one    *)
(* address only, and never rejected as well, whatever mappings are pushed  *)
(* in whatever order and however they overlap (mem_map.rs:342-379).        *)
THEOREM YieldedRight == ASSUME DisjointQueries PROVE Spec => []YieldedIsRight
<1>1. MapInv /\ [Next]_vars => MapInv'
  <2> SUFFICES ASSUME MapInv, [Next]_vars PROVE MapInv'
    OBVIOUS
  <2>1. CASE Push
    BY <2>1, PushStep
  <2>2. CASE MapIter
    BY <2>2, MapIterStep
  <2>3. CASE FetchElem
    BY <2>3, FetchStep
  <2>4. CASE NoMapping
    BY <2>4, NoMappingStep
  <2>5. CASE RejectAll
    BY <2>5, RejectAllStep
  <2>6. CASE YieldPart
    BY <2>6, YieldPartStep
  <2>7. CASE UNCHANGED vars
    BY <2>7 DEF vars, query, MapInv, Types, Ahead, Behindhand, Pending, YieldedIsRight, Yielded
  <2> QED BY <2>1, <2>2, <2>3, <2>4, <2>5, <2>6, <2>7 DEF Next, Step
<1>2. MapInv => YieldedIsRight
  BY DEF MapInv
<1> QED BY <1>1, <1>2, InitInv, PTL DEF Spec

----------------------------------------------------------------------------
(* The order of the list, and what a sorted list makes of a query *)

OverlapFree(s) ==
    \A i, j \in 1..Len(s) :
        i # j => \A b \in BytesOf(s[i].base, s[i].len) : ~Covers(s[j], b)

LowestFirst(s) == \A i \in 1..Len(s) : s[1].base <= s[i].base

InOrder(s) == \A i, j \in 1..Len(s) : i < j => End(s[i]) <= s[j].base

Orderly(s) == OverlapFree(s) /\ LowestFirst(s) => InOrder(s)

(* The place that the scan chooses: behind the last mapping below the new  *)
(* one if no mapping was hit before, at the end if there is none.          *)
Place(s, k, r) ==
    /\ \A i \in (k + 1)..Len(s) : ~Collides(s[i], r) /\ End(s[i]) > r.base
    /\ k \in 1..Len(s) => End(s[k]) <= r.base

Nowhere(s, k, r) ==
    k = Len(s) /\ \A i \in 1..Len(s) : ~Collides(s[i], r) /\ End(s[i]) > r.base

(* In a mapping list that is free of overlaps and has the lowest mapping   *)
(* first, the scan finds the place that keeps the order.                   *)
LEMMA InsertSorted ==
    ASSUME NEW s \in Seq(Mapping), NEW k \in 0..Len(s), NEW r \in Mapping,
           Orderly(s), (k > 0 /\ Place(s, k, r)) \/ Nowhere(s, k, r)
    PROVE  Orderly(InsertAt(s, k + 1, r))
<1> DEFINE t == InsertAt(s, k + 1, r)
<1>1. /\ t \in Seq(Mapping) /\ Len(t) = Len(s) + 1
      /\ \A i \in 1..k : t[i] = s[i]
      /\ t[k + 1] = r
      /\ \A i \in (k + 1)..Len(s) : t[i + 1] = s[i]
  BY InsertFact
<1> HIDE DEF t
<1>2. Len(s) \in Nat /\ k \in Nat /\ k <= Len(s)
  OBVIOUS
<1>3. /\ r.base \in Nat /\ r.len \in Nat /\ r.len > 0
      /\ \A i \in 1..Len(s) : s[i].base \in Nat /\ s[i].len \in Nat /\ s[i].len > 0
  <2>1. \A i \in 1..Len(s) : s[i] \in Mapping
    OBVIOUS
  <2>2. \A m \in Mapping : m.base \in Nat /\ m.len \in Nat /\ m.len > 0
    BY DEF Mapping
  <2> QED BY <2>1, <2>2
<1> SUFFICES ASSUME OverlapFree(t), LowestFirst(t) PROVE InOrder(t)
  BY DEF Orderly, t
<1> DEFINE p(i) == IF i <= k THEN i ELSE i + 1
<1>4. \A i \in 1..Len(s) : p(i) \in 1..Len(t) /\ t[p(i)] = s[i] /\ p(i) # k + 1
  <2> SUFFICES ASSUME NEW i \in 1..Len(s)
               PROVE  p(i) \in 1..Len(t) /\ t[p(i)] = s[i] /\ p(i) # k + 1
    OBVIOUS
  <2>1. CASE i <= k
    <3>1. p(i) = i /\ i \in 1..k
      BY <1>2, <2>1
    <3> HIDE DEF p
    <3> QED BY ONLY <1>1, <1>2, <3>1
  <2>2. CASE ~(i <= k)
    <3>1. p(i) = i + 1 /\ i \in (k + 1)..Len(s)
      BY <1>2, <2>2
    <3> HIDE DEF p
    <3> QED BY ONLY <1>1, <1>2, <3>1
  <2> QED BY <2>1, <2>2
<1>5. \A i, j \in 1..Len(s) : i # j => p(i) # p(j)
  BY <1>2
<1> HIDE DEF p
<1>6. OverlapFree(s)
  BY <1>4, <1>5 DEF OverlapFree
<1>7. CASE Len(s) = 0
  BY <1>1, <1>7 DEF InOrder
<1>8. CASE Len(s) # 0
  <2>1. k > 0
    BY <1>2, <1>8 DEF Nowhere
  <2>2. t[1] = s[1] /\ 1 \in 1..Len(s) /\ k + 1 \in 1..Len(t)
    BY <1>1, <1>2, <2>1
  <2>3. LowestFirst(s)
    BY <1>4, <2>2 DEF LowestFirst
  <2>4. InOrder(s)
    BY <1>6, <2>3 DEF Orderly
  <2>5. s[1].base <= r.base
    BY <1>1, <2>2 DEF LowestFirst
  <2>6. Place(s, k, r)
    <3> SUFFICES ASSUME Nowhere(s, k, r) PROVE FALSE
      OBVIOUS
    <3>1. ~Collides(s[1], r) /\ End(s[1]) > r.base
      BY <2>2 DEF Nowhere
    <3> QED BY <2>5, <3>1 DEF Collides, Covers
  <2>7. \A i \in 1..k : End(s[i]) <= r.base
    <3> SUFFICES ASSUME NEW i \in 1..k PROVE End(s[i]) <= r.base
      OBVIOUS
    <3>1. k \in 1..Len(s) /\ End(s[k]) <= r.base
      BY <1>2, <2>1, <2>6 DEF Place
    <3>2. CASE i = k
      BY <3>1, <3>2
    <3>3. CASE i # k
      <4>1. End(s[i]) <= s[k].base
        BY <1>2, <2>4, <3>1, <3>3 DEF InOrder
      <4>2. i \in 1..Len(s)
        BY <1>2
      <4>3. End(s[k]) = s[k].base + s[k].len /\ End(s[i]) = s[i].base + s[i].len
        BY DEF End
      <4>4. /\ s[k].base \in Nat /\ s[k].len \in Nat
            /\ s[i].base \in Nat /\ s[i].len \in Nat /\ r.base \in Nat
        BY <1>3, <3>1, <4>2
      <4> QED BY <3>1, <4>1, <4>3, <4>4, SMTT(60)
    <3> QED BY <3>2, <3>3
  <2>8. \A j \in (k + 1)..Len(s) : End(r) <= s[j].base
    <3> SUFFICES ASSUME NEW j \in (k + 1)..Len(s) PROVE End(r) <= s[j].base
      OBVIOUS
    <3>1. j \in 1..Len(s) /\ j + 1 \in 1..Len(t) /\ j + 1 # k + 1 /\ t[j + 1] = s[j]
      BY <1>1, <1>2
    <3>2. ~Covers(s[j], r.base) /\ ~Covers(s[j], End(r)) /\ End(s[j]) > r.base
      BY <2>6 DEF Place, Collides
    <3>3. s[j].base \in BytesOf(s[j].base, s[j].len)
      BY <1>3, <3>1, SMTT(60) DEF BytesOf
    <3>4. ~Covers(r, s[j].base)
      BY <1>1, <2>2, <3>1, <3>3 DEF OverlapFree
    <3> QED BY <1>3, <3>1, <3>2, <3>4 DEF Covers, End
  <2>9. ASSUME NEW i \in 1..Len(t), NEW j \in 1..Len(t), i < j
        PROVE  End(t[i]) <= t[j].base
    <3>1. CASE j <= k
      <4>1. i \in 1..k /\ j \in 1..k /\ i \in 1..Len(s) /\ j \in 1..Len(s)
        BY <1>1, <1>2, <2>9, <3>1
      <4> QED BY <1>1, <2>4, <2>9, <4>1 DEF InOrder
    <3>2. CASE j = k + 1
      <4>1. i \in 1..k
        BY <1>1, <1>2, <2>9, <3>2
      <4> QED BY <1>1, <2>7, <3>2, <4>1
    <3>3. CASE j > k + 1
      <4>1. j - 1 \in (k + 1)..Len(s) /\ j - 1 \in 1..Len(s) /\ (j - 1) + 1 = j
        BY <1>1, <1>2, <2>9, <3>3
      <4>2. t[j] = s[j - 1]
        BY <1>1, <4>1
      <4>3. CASE i <= k
        <5>1. i \in 1..k /\ i \in 1..Len(s) /\ i < j - 1
          BY <1>1, <1>2, <3>3, <4>3
        <5> QED BY <1>1, <2>4, <4>1, <4>2, <5>1 DEF InOrder
      <4>4. CASE i = k + 1
        BY <1>1, <2>8, <4>1, <4>2, <4>4
      <4>5. CASE i > k + 1
        <5>1. i - 1 \in (k + 1)..Len(s) /\ i - 1 \in 1..Len(s) /\ (i - 1) + 1 = i /\ i - 1 < j - 1
          BY <1>1, <1>2, <2>9, <4>5
        <5>2. t[i] = s[i - 1]
          BY <1>1, <5>1
        <5> QED BY <2>4, <4>1, <4>2, <5>1, <5>2 DEF InOrder
      <4> QED BY <1>1, <1>2, <4>3, <4>4, <4>5
    <3> QED BY <1>1, <1>2, <3>1, <3>2, <3>3
  <2> QED BY <2>9 DEF InOrder
<1> QED BY <1>7, <1>8

----------------------------------------------------------------------------
(* Queries over a sorted list *)

AllBelow(b) == \A i \in 1..Len(mappings) : End(mappings[i]) <= b

(* The walk has left behind only what ends below the range; what was       *)
(* rejected is in no mapping; a byte that was asked for is still to come,  *)
(* was yielded or rejected, or lies above every mapping.                   *)
WalkInv ==
    /\ cur_elem # NoElem => \A i \in 1..Len(mappings) :
                                i <= cur_map_pos => End(mappings[i]) <= cur_elem.addr
    /\ \A b \in fail_out : ~Mapped(b)
    /\ \A b \in asked : Pending(b) \/ Yielded(b) \/ b \in fail_out \/ AllBelow(b)

ExactInv == Types /\ asked \subseteq Nat /\ Orderly(mappings) /\ (Sorted => WalkInv)

LEMMA ExactIsExact == ExactInv => MapIsExact
<1> SUFFICES ASSUME ExactInv PROVE MapIsExact
  OBVIOUS
<1>1. NoOverlap /\ (\A i \in 1..Len(mappings) : mappings[1].base <= mappings[i].base) => Sorted
  BY DEF ExactInv, Orderly, OverlapFree, LowestFirst, InOrder, NoOverlap, Sorted
<1>2. ASSUME Sorted, Idle, NEW b \in asked
      PROVE  Yielded(b) \/ b \in fail_out \/ AllBelow(b)
  BY <1>2 DEF Idle, Pending, ExactInv, WalkInv
<1>3. ASSUME NEW b \in Nat, AllBelow(b), NEW i \in 1..Len(mappings)
      PROVE  ~Covers(mappings[i], b)
  <2>1. End(mappings[i]) <= b
    BY <1>3 DEF AllBelow
  <2>2. mappings[i] \in Mapping
    BY DEF ExactInv, Types
  <2> QED BY <2>1, <2>2 DEF Covers, End, Mapping
<1>4. ASSUME Sorted, Idle, NEW b \in asked, Mapped(b)
      PROVE  Yielded(b)
  BY <1>2, <1>3, <1>4 DEF Mapped, ExactInv, WalkInv
<1>5. ASSUME Sorted, Idle, NEW b \in asked, NEW i \in 1..Len(mappings), b < End(mappings[i])
      PROVE  Yielded(b) \/ b \in fail_out
  <2>1. ~(End(mappings[i]) <= b)
    <3>1. mappings[i] \in Mapping /\ b \in Nat
      BY DEF ExactInv, Types
    <3> QED BY <1>5, <3>1 DEF End, Mapping
  <2> QED BY <1>2, <1>5, <2>1 DEF AllBelow
<1> QED BY <1>1, <1>4, <1>5 DEF MapIsExact, ExactInv, WalkInv

(* The search starts the walk behind mappings that end below the range.    *)
LEMMA SearchFact ==
    ASSUME Types, Sorted, WalkInv, cur_elem # NoElem, NEW pos \in StartPos(cur_elem.addr),
           NEW i \in 1..Len(mappings), i <= pos
    PROVE  End(mappings[i]) <= cur_elem.addr
<1>1. CASE pos = cur_map_pos
  BY <1>1 DEF WalkInv
<1>2. CASE pos # cur_map_pos
  <2> DEFINE a == cur_elem.addr
             S == {j \in DOMAIN mappings : End(mappings[j]) <= a}
  <2>1. pos = Cardinality(S)
    BY <1>2 DEF StartPos, binary_search
  <2>2. Len(mappings) \in Nat /\ DOMAIN mappings = 1..Len(mappings) /\ a \in Nat
    BY DEF Types, Items
  <2>3. \A j \in S : j \in 1..Len(mappings) /\ End(mappings[j]) <= a
    BY <2>2
  <2>4. \A j \in 1..Len(mappings) : End(mappings[j]) <= a => j \in S
    BY <2>2
  <2> HIDE DEF S
  <2>5. S # {}
    <3> SUFFICES ASSUME S = {} PROVE FALSE
      OBVIOUS
    <3>1. pos = 0
      BY <2>1, FS_EmptySet
    <3> QED BY <2>2, <3>1
  <2>6. PICK c \in S : \A j \in S : c >= j
    BY <2>2, <2>3, <2>5, Largest
  <2>7. ASSUME NEW j \in 1..c
        PROVE  j \in S
    <3>1. c \in 1..Len(mappings) /\ End(mappings[c]) <= a /\ j \in 1..Len(mappings)
      BY <2>2, <2>3
    <3>2. CASE j = c
      BY <3>2
    <3>3. CASE j # c
      <4>1. End(mappings[j]) <= mappings[c].base
        BY <3>1, <3>3 DEF Sorted
      <4>2. mappings[c] \in Mapping /\ mappings[j] \in Mapping
        BY <3>1 DEF Types
      <4>3. End(mappings[j]) <= a
        BY <2>2, <3>1, <4>1, <4>2 DEF End, Mapping
      <4> QED BY <2>4, <3>1, <4>3
    <3> QED BY <3>2, <3>3
  <2>8. c \in Nat /\ c > 0
    BY <2>2, <2>3
  <2>9. S = 1..c
    <3>1. \A j \in S : j \in 1..c
      BY <2>2, <2>3, <2>6, <2>8
    <3> QED BY <2>7, <3>1
  <2>10. Cardinality(1..c) = c
    BY <2>8, FS_Interval
  <2>11. i \in 1..c
    BY <2>1, <2>2, <2>8, <2>9, <2>10
  <2> QED BY <2>3, <2>7, <2>11 DEF a
<1> QED BY <1>1, <1>2

(* What the walk passes over ends below the range.                         *)
LEMMA FoundFirst ==
    ASSUME Types, NEW addr \in Nat, NEW pos \in Nat,
           NEW i \in 1..Len(mappings), i > pos,
           Found(addr, pos) = 0 \/ i < Found(addr, pos)
    PROVE  End(mappings[i]) <= addr
<1> DEFINE I == {j \in (pos + 1)..Len(mappings) : End(mappings[j]) > addr}
<1>1. Len(mappings) \in Nat
  BY DEF Types
<1>2. Found(addr, pos) = IF I # {} THEN Min(I) ELSE 0
  BY DEF Found, SelectInSubSeq
<1>3. I \in SUBSET Nat /\ \A j \in I : j \in Nat /\ j > 0
  BY <1>1
<1>4. I # {} => Min(I) \in I /\ \A j \in I : Min(I) <= j
  BY <1>3, Smallest DEF Min
<1>5. i \in (pos + 1)..Len(mappings)
  BY <1>1
<1>6. i \notin I
  <2> SUFFICES ASSUME i \in I PROVE FALSE
    OBVIOUS
  <2> HIDE DEF I
  <2>1. Found(addr, pos) = Min(I) /\ Min(I) \in I /\ Min(I) <= i
    BY <1>2, <1>4
  <2>2. Min(I) \in Nat /\ Min(I) > 0
    BY <1>3, <2>1
  <2> QED BY <2>1, <2>2
<1>7. ~(End(mappings[i]) > addr)
  BY <1>5, <1>6
<1>8. mappings[i] \in Mapping
  BY DEF Types
<1> QED BY <1>7, <1>8 DEF End, Mapping

(* Both together: everything before the mapping that was found ends below. *)
LEMMA BelowFound ==
    ASSUME Types, Sorted, WalkInv, cur_elem # NoElem, NEW pos \in StartPos(cur_elem.addr),
           NEW i \in 1..Len(mappings),
           Found(cur_elem.addr, pos) = 0 \/ i < Found(cur_elem.addr, pos)
    PROVE  End(mappings[i]) <= cur_elem.addr
<1>1. cur_elem.addr \in Nat /\ Len(mappings) \in Nat
  BY DEF Types, Items
<1>2. pos \in Nat
  BY <1>1, StartFact
<1>3. CASE i <= pos
  BY <1>3, SearchFact
<1>4. CASE i > pos
  BY <1>1, <1>2, <1>4, FoundFirst
<1> QED BY <1>1, <1>2, <1>3, <1>4

(* No mapping covers a byte between the start of the range and the mapping *)
(* that was found.                                                         *)
LEMMA GapIsUnmapped ==
    ASSUME Types, Sorted, WalkInv, cur_elem # NoElem, NEW pos \in StartPos(cur_elem.addr),
           Found(cur_elem.addr, pos) \in 1..Len(mappings),
           NEW b \in Nat, cur_elem.addr <= b, b < mappings[Found(cur_elem.addr, pos)].base
    PROVE  ~Mapped(b)
<1> DEFINE f == Found(cur_elem.addr, pos)
<1>1. SUFFICES ASSUME NEW i \in 1..Len(mappings), Covers(mappings[i], b)
               PROVE  FALSE
  BY DEF Mapped
<1>2. /\ cur_elem.addr \in Nat /\ Len(mappings) \in Nat
      /\ mappings[i] \in Mapping /\ mappings[f] \in Mapping
  BY DEF Types, Items
<1>3. CASE i < f
  <2>1. End(mappings[i]) <= cur_elem.addr
    BY <1>3, BelowFound
  <2> QED BY <1>1, <1>2, <2>1 DEF Covers, End, Mapping
<1>4. CASE i = f
  BY <1>1, <1>2, <1>4 DEF Covers, Mapping
<1>5. CASE i > f
  <2>1. End(mappings[f]) <= mappings[i].base
    BY <1>5 DEF Sorted
  <2> QED BY <1>1, <1>2, <2>1 DEF Covers, End, Mapping
<1> QED BY <1>2, <1>3, <1>4, <1>5

LEMMA InitExact == Init => ExactInv
BY DEF Init, ExactInv, Types, Orderly, InOrder, WalkInv

LEMMA ScanFact ==
    ASSUME Types, NEW r \in Mapping,
           ~(scan_end(r) # 0 /\ Collides(mappings[scan_end(r)], r))
    PROVE  \/ shift_idx(r) > 0 /\ Place(mappings, shift_idx(r), r)
           \/ Nowhere(mappings, shift_idx(r), r)
<1> DEFINE Hit(i) == Collides(mappings[i], r) \/ End(mappings[i]) <= r.base
           I == {i \in 1..Len(mappings) : Hit(i)}
<1>1. Len(mappings) \in Nat /\ \A i \in 1..Len(mappings) : mappings[i] \in Mapping
  BY DEF Types
<1>2. scan_end(r) = IF I # {} THEN Max(I) ELSE 0
  BY DEF scan_end, SelectLastInSeq
<1>3. \A x \in I : x \in 1..Len(mappings)
  OBVIOUS
<1>4. I # {} => Max(I) \in I /\ \A y \in I : Max(I) >= y
  <2> HIDE DEF I
  <2> SUFFICES ASSUME I # {} PROVE Max(I) \in I /\ \A y \in I : Max(I) >= y
    OBVIOUS
  <2>1. \E x \in I : \A y \in I : x >= y
    BY <1>1, <1>3, Largest
  <2> QED BY <2>1 DEF Max
<1>5. ASSUME NEW i \in 1..Len(mappings), i \notin I
      PROVE  ~Collides(mappings[i], r) /\ End(mappings[i]) > r.base
  <2>1. ~Collides(mappings[i], r) /\ ~(End(mappings[i]) <= r.base)
    BY <1>5
  <2>2. End(mappings[i]) \in Nat /\ r.base \in Nat
    BY <1>1 DEF End, Mapping
  <2> QED BY <2>1, <2>2
<1>6. CASE I = {}
  <2>1. shift_idx(r) = Len(mappings)
    BY <1>2, <1>6 DEF shift_idx
  <2> QED BY <1>5, <1>6, <2>1 DEF Nowhere
<1>7. CASE I # {}
  <2>1. scan_end(r) = Max(I) /\ Max(I) \in I /\ Max(I) \in 1..Len(mappings)
    BY <1>2, <1>3, <1>4, <1>7
  <2>2. shift_idx(r) = Max(I) /\ Max(I) # 0
    BY <1>1, <2>1 DEF shift_idx
  <2>3. End(mappings[Max(I)]) <= r.base
    <3>1. Hit(Max(I))
      BY <2>1
    <3> HIDE DEF I
    <3> QED BY <2>1, <2>2, <3>1
  <2>4. ASSUME NEW i \in (Max(I) + 1)..Len(mappings)
        PROVE  i \in 1..Len(mappings) /\ i \notin I
    <3> HIDE DEF I
    <3> QED BY <1>1, <1>4, <1>7, <2>1
  <2> HIDE DEF I
  <2> QED BY <1>1, <1>5, <2>1, <2>2, <2>3, <2>4 DEF Place
<1> QED BY <1>6, <1>7

LEMMA PushExact ==
    ASSUME ExactInv, Push
    PROVE  ExactInv'
<1>1. /\ out' = {} /\ fail_out' = {} /\ asked' = {}
      /\ in_iter' = in_iter /\ cur_elem' = NoElem /\ cur_map_pos' = cur_map_pos
  BY DEF Push, Idle
<1>2. WalkInv'
  BY <1>1 DEF WalkInv
<1>3. PICK r \in Mapping :
          \/ mappings' = mappings
          \/ /\ mappings' = InsertAt(mappings, shift_idx(r) + 1, r)
             /\ ~(scan_end(r) # 0 /\ Collides(mappings[scan_end(r)], r))
  BY RegionsAssumption DEF Push, Mapping
<1>4. mappings \in Seq(Mapping) /\ Len(mappings) \in Nat /\ shift_idx(r) \in 0..Len(mappings)
  BY PlaceFact DEF ExactInv, Types
<1>5. mappings' \in Seq(Mapping)
  <2>1. mappings' = mappings \/ mappings' = InsertAt(mappings, shift_idx(r) + 1, r)
    BY <1>3
  <2> DEFINE k == shift_idx(r)
  <2>2. k \in 0..Len(mappings)
    BY <1>4
  <2> HIDE DEF k
  <2>3. InsertAt(mappings, k + 1, r) \in Seq(Mapping)
    BY <1>4, <2>2, InsertFact
  <2> QED BY <1>4, <2>1, <2>3 DEF k
<1>6. Orderly(mappings)'
  <2>1. CASE mappings' = mappings
    BY <2>1 DEF ExactInv, Orderly, OverlapFree, LowestFirst, InOrder
  <2>2. CASE mappings' # mappings
    <3> DEFINE k == shift_idx(r)
    <3>1. (k > 0 /\ Place(mappings, k, r)) \/ Nowhere(mappings, k, r)
      BY <1>3, <1>4, <2>2, ScanFact DEF ExactInv
    <3>2. Orderly(mappings) /\ k \in 0..Len(mappings)
      BY <1>4 DEF ExactInv
    <3>3. mappings' = InsertAt(mappings, k + 1, r)
      BY <1>3, <2>2
    <3> HIDE DEF k
    <3>4. Orderly(InsertAt(mappings, k + 1, r))
      BY <1>4, <3>1, <3>2, InsertSorted
    <3> QED BY <3>3, <3>4 DEF Orderly, OverlapFree, LowestFirst, InOrder
  <2> QED BY <2>1, <2>2
<1> QED BY <1>1, <1>2, <1>5, <1>6 DEF ExactInv, Types

LEMMA MapIterExact ==
    ASSUME ExactInv, MapIter
    PROVE  ExactInv'
<1>1. PICK q \in Queries :
          /\ in_iter' = q
          /\ asked' = UNION {BytesOf(q[i].addr, q[i].len) : i \in 1..Len(q)}
  BY DEF MapIter
<1>2. /\ out' = {} /\ fail_out' = {} /\ cur_elem' = NoElem /\ cur_map_pos' = 0
      /\ mappings' = mappings
  BY DEF MapIter
<1>3. q \in Seq(Items)
  BY QueriesAssumption DEF Items
<1>4. \A i \in 1..Len(q) : \A b \in BytesOf(q[i].addr, q[i].len) : b \in Nat
  <2>1. \A i \in 1..Len(q) : q[i].addr \in Nat /\ q[i].len \in Nat
    <3>1. \A i \in 1..Len(q) : q[i] \in Items
      BY <1>3
    <3> QED BY <3>1 DEF Items
  <2> QED BY <2>1 DEF BytesOf
<1>5. asked' \subseteq Nat
  BY <1>1, <1>4
<1>6. \A b \in asked' : Pending(b)'
  BY <1>1 DEF Pending, BytesIn
<1>7. WalkInv'
  BY <1>2, <1>6 DEF WalkInv
<1>8. Orderly(mappings)'
  BY <1>2 DEF ExactInv, Orderly, OverlapFree, LowestFirst, InOrder
<1> QED BY <1>1, <1>2, <1>3, <1>5, <1>7, <1>8 DEF ExactInv, Types

(* What a turn leaves alone: the list and, with it, what depends on it.    *)
LEMMA SameList ==
    ASSUME mappings' = mappings
    PROVE  /\ Sorted' <=> Sorted
           /\ Orderly(mappings)' <=> Orderly(mappings)
           /\ \A b : Mapped(b)' <=> Mapped(b)
           /\ \A b : AllBelow(b)' <=> AllBelow(b)
BY DEF Sorted, Orderly, OverlapFree, LowestFirst, InOrder, Mapped, AllBelow

LEMMA FetchExact ==
    ASSUME ExactInv, FetchElem
    PROVE  ExactInv'
<1>1. /\ cur_elem = NoElem /\ in_iter # <<>> /\ in_iter \in Seq(Items)
      /\ cur_elem' = Head(in_iter) /\ in_iter' = Tail(in_iter) /\ cur_map_pos' = 0
      /\ mappings' = mappings /\ out' = out /\ fail_out' = fail_out /\ asked' = asked
  BY DEF FetchElem, ExactInv, Types
<1>2. /\ cur_elem' = in_iter[1] /\ cur_elem' \in Items /\ in_iter' \in Seq(Items)
      /\ cur_elem' # NoElem
  <2>1. cur_elem' = in_iter[1] /\ cur_elem' \in Items /\ in_iter' \in Seq(Items)
    BY <1>1
  <2> QED BY <2>1, NoElemAssumption DEF Items
<1>3. \A i \in 1..Len(in_iter) : i # 1 => i - 1 \in 1..Len(in_iter') /\ in_iter'[i - 1] = in_iter[i]
  BY <1>1
<1>4. ASSUME NEW b, Pending(b)
      PROVE  Pending(b)'
  <2>1. PICK i \in 1..Len(in_iter) : b \in BytesIn(in_iter[i])
    BY <1>1, <1>4 DEF Pending
  <2>2. CASE i = 1
    BY <1>2, <2>1, <2>2 DEF Pending
  <2>3. CASE i # 1
    BY <1>3, <2>1, <2>3 DEF Pending
  <2> QED BY <2>2, <2>3
<1>5. ASSUME Sorted
      PROVE  WalkInv'
  <2>1. \A i \in 1..Len(mappings) : ~(i <= 0)
    OBVIOUS
  <2>2. \A b : Yielded(b)' <=> Yielded(b)
    BY <1>1 DEF Yielded
  <2> QED BY <1>1, <1>4, <1>5, <2>1, <2>2, SameList DEF ExactInv, WalkInv
<1> QED BY <1>1, <1>2, <1>5, SameList DEF ExactInv, Types

LEMMA NoMappingExact ==
    ASSUME ExactInv, NoMapping
    PROVE  ExactInv'
<1>1. /\ cur_elem # NoElem /\ cur_elem' = NoElem /\ cur_map_pos' = 0
      /\ mappings' = mappings /\ in_iter' = in_iter /\ out' = out /\ fail_out' = fail_out
      /\ asked' = asked
  BY DEF NoMapping
<1>2. PICK pos \in StartPos(cur_elem.addr) : Found(cur_elem.addr, pos) = 0
  BY DEF NoMapping
<1>3. cur_elem.addr \in Nat /\ cur_elem.len \in Nat
  BY <1>1 DEF ExactInv, Types, Items
<1>4. ASSUME Sorted
      PROVE  WalkInv'
  <2>1. Types /\ WalkInv
    BY <1>4 DEF ExactInv
  <2>2. \A i \in 1..Len(mappings) : End(mappings[i]) <= cur_elem.addr /\ mappings[i] \in Mapping
    BY <1>1, <1>2, <1>4, <2>1, BelowFound DEF Types
  <2>3. ASSUME NEW b \in BytesIn(cur_elem)
        PROVE  AllBelow(b)
    <3>1. b \in Nat /\ cur_elem.addr <= b
      BY <1>3 DEF BytesIn, BytesOf
    <3> QED BY <1>3, <2>2, <3>1 DEF AllBelow, End, Mapping
  <2>4. \A b : Pending(b) => Pending(b)' \/ b \in BytesIn(cur_elem)
    BY <1>1 DEF Pending
  <2>5. \A b : Yielded(b)' <=> Yielded(b)
    BY <1>1 DEF Yielded
  <2> QED BY <1>1, <2>1, <2>3, <2>4, <2>5, SameList DEF WalkInv
<1> QED BY <1>1, <1>4, SameList DEF ExactInv, Types

LEMMA RejectAllExact ==
    ASSUME ExactInv, RejectAll
    PROVE  ExactInv'
<1>1. /\ cur_elem # NoElem /\ cur_elem' = NoElem /\ cur_map_pos' = 0
      /\ mappings' = mappings /\ in_iter' = in_iter /\ out' = out
      /\ fail_out' = fail_out \cup BytesIn(cur_elem) /\ asked' = asked
  BY DEF RejectAll, Reject, BytesIn
<1>2. PICK pos \in StartPos(cur_elem.addr) :
          /\ Found(cur_elem.addr, pos) # 0
          /\ cur_elem.len <= Offset(mappings[Found(cur_elem.addr, pos)], cur_elem.addr)
  BY DEF RejectAll
<1>3. cur_elem.addr \in Nat /\ cur_elem.len \in Nat
  BY <1>1 DEF ExactInv, Types, Items
<1>4. ASSUME Sorted
      PROVE  WalkInv'
  <2>1. Types /\ WalkInv
    BY <1>4 DEF ExactInv
  <2>2. pos \in Nat
    BY <1>3, <2>1, StartFact
  <2>3. /\ Found(cur_elem.addr, pos) \in 1..Len(mappings)
        /\ mappings[Found(cur_elem.addr, pos)] \in Mapping
    BY <1>2, <1>3, <2>1, <2>2, FoundFact
  <2>4. ASSUME NEW b \in BytesIn(cur_elem)
        PROVE  ~Mapped(b)
    <3>1. b \in Nat /\ cur_elem.addr <= b /\ b < cur_elem.addr + cur_elem.len
      BY <1>3 DEF BytesIn, BytesOf
    <3>2. b < mappings[Found(cur_elem.addr, pos)].base
      BY <1>2, <1>3, <2>3, <3>1 DEF Offset, Mapping
    <3> QED BY <1>1, <1>4, <2>1, <2>3, <3>1, <3>2, GapIsUnmapped
  <2>5. \A b : Pending(b) => Pending(b)' \/ b \in BytesIn(cur_elem)
    BY <1>1 DEF Pending
  <2>6. \A b : Yielded(b)' <=> Yielded(b)
    BY <1>1 DEF Yielded
  <2> QED BY <1>1, <2>1, <2>4, <2>5, <2>6, SameList DEF WalkInv
<1> QED BY <1>1, <1>4, SameList DEF ExactInv, Types

LEMMA YieldPartExact ==
    ASSUME ExactInv, YieldPart
    PROVE  ExactInv'
<1>1. PICK pos \in StartPos(cur_elem.addr), off \in Nat, n \in Nat :
              Turn(pos, off, n)
  BY YieldFact DEF ExactInv
<1>2. mappings' = mappings /\ in_iter' = in_iter /\ asked' = asked
  BY DEF YieldPart
<1> DEFINE f == Found(cur_elem.addr, pos)
           m == mappings[f]
           a == cur_elem.addr
           l == cur_elem.len
           B == BytesOf(a + off, n)
           Y == {<<b, m.real + (b - m.base)>> : b \in B}
<1>3. /\ cur_elem # NoElem /\ a \in Nat /\ l \in Nat
      /\ f \in 1..Len(mappings)
      /\ off + n <= l
      /\ off > 0 => a + off = m.base
      /\ fail_out' = fail_out \cup BytesOf(a, off)
      /\ out' = out \cup Y
      /\ \/ /\ cur_elem' = [addr |-> (a + off) + n, len |-> (l - off) - n]
            /\ cur_map_pos' = f
            /\ (a + off) + n = End(m)
         \/ off + n = l /\ cur_elem' = NoElem /\ cur_map_pos' = 0
  BY <1>1 DEF Turn
<1>4. ASSUME Sorted
      PROVE  WalkInv'
  <2>1. Types /\ WalkInv
    BY <1>4 DEF ExactInv
  <2>2. ASSUME NEW b \in BytesOf(a, off)
        PROVE  ~Mapped(b)
    <3>1. b \in Nat /\ a <= b /\ b < a + off /\ off > 0
      BY <1>3, SMTT(60) DEF BytesOf
    <3>2. b < m.base
      BY <1>3, <3>1
    <3> QED BY <1>3, <1>4, <2>1, <3>1, <3>2, GapIsUnmapped
  <2>3. ASSUME NEW b \in BytesIn(cur_elem)
        PROVE  Pending(b)' \/ b \in BytesOf(a, off) \/ b \in B
    <3>1. b \in Nat /\ a <= b /\ b < a + l
      <4>1. b \in BytesOf(a, l)
        BY DEF BytesIn
      <4> HIDE DEF a, l
      <4> QED BY <1>3, <4>1, SMTT(60) DEF BytesOf
    <3>2. b \in BytesOf(a, off) \/ b \in B \/ b \in BytesOf((a + off) + n, (l - off) - n)
      <4>1. b \in BytesOf(a, l)
        BY DEF BytesIn
      <4> HIDE DEF a, l
      <4>2. CutsOf(a, l, off, n)
        BY <1>3 DEF CutsOf
      <4> QED BY <4>1, <4>2, RangeParts
    <3>3. CASE cur_elem' # NoElem
      <4>1. BytesIn(cur_elem') = BytesOf((a + off) + n, (l - off) - n)
        BY <1>3, <3>3 DEF BytesIn
      <4> QED BY <3>2, <3>3, <4>1 DEF Pending
    <3>4. CASE cur_elem' = NoElem /\ off + n = l
      <4> HIDE DEF a, l
      <4> QED BY <1>3, <3>1, <3>4, SMTT(60) DEF BytesOf
    <3>5. CASE cur_elem' = NoElem /\ off + n # l
      <4>1. cur_elem' = [addr |-> (a + off) + n, len |-> (l - off) - n]
        BY <1>3, <3>5
      <4>2. cur_elem' \in Items
        <5> HIDE DEF a, l
        <5> QED BY <1>3, <4>1 DEF Items
      <4> QED BY <3>5, <4>2, NoElemAssumption DEF Items
    <3> QED BY <3>3, <3>4, <3>5
  <2>4. \A b \in B : Yielded(b)'
    <3>1. \A b \in B : <<b, m.real + (b - m.base)>> \in out'
      BY <1>3
    <3> QED BY <3>1 DEF Yielded
  <2>5. \A b : Yielded(b) => Yielded(b)'
    BY <1>3 DEF Yielded
  <2>6. \A b : Pending(b) => Pending(b)' \/ b \in BytesIn(cur_elem)
    BY <1>2 DEF Pending
  <2>7. \A b \in asked' : Pending(b)' \/ Yielded(b)' \/ b \in fail_out' \/ AllBelow(b)'
    BY <1>2, <1>3, <2>1, <2>3, <2>4, <2>5, <2>6, SameList DEF WalkInv
  <2>8. \A b \in fail_out' : ~Mapped(b)'
    BY <1>2, <1>3, <2>1, <2>2, SameList DEF WalkInv
  <2>9. ASSUME cur_elem' # NoElem, NEW i \in 1..Len(mappings), i <= cur_map_pos'
        PROVE  End(mappings[i]) <= cur_elem'.addr
    <3>1. cur_map_pos' = f /\ cur_elem'.addr = End(m)
      BY <1>3, <2>9
    <3>2. mappings[i] \in Mapping /\ m \in Mapping
      BY <1>3, <2>1 DEF Types
    <3>3. CASE i = f
      <4>1. End(m) \in Nat
        <5> HIDE DEF m
        <5> QED BY <3>2 DEF End, Mapping
      <4> QED BY <3>1, <3>3, <4>1
    <3>4. CASE i # f
      <4>1. End(mappings[i]) <= m.base
        BY <1>3, <1>4, <2>9, <3>1, <3>4, SMTT(60) DEF Sorted
      <4> HIDE DEF m
      <4> QED BY <3>1, <3>2, <4>1 DEF End, Mapping
    <3> QED BY <3>3, <3>4
  <2> QED BY <1>2, <2>7, <2>8, <2>9 DEF WalkInv
<1>5. cur_elem' \in Items \cup {NoElem} /\ cur_map_pos' \in Nat
  <2>1. Len(mappings) \in Nat
    BY DEF ExactInv, Types
  <2> HIDE DEF a, l, f, m
  <2>2. cur_map_pos' \in Nat
    BY <1>3, <2>1
  <2>3. CASE cur_elem' = NoElem
    BY <2>2, <2>3
  <2>4. CASE cur_elem' # NoElem
    <3>1. cur_elem' = [addr |-> (a + off) + n, len |-> (l - off) - n]
      BY <1>3, <2>4
    <3>2. (a + off) + n \in Nat /\ (l - off) - n \in Nat
      BY <1>3
    <3> QED BY <2>2, <3>1, <3>2 DEF Items
  <2> QED BY <2>3, <2>4
<1>6. Y \subseteq Nat \X Int
  <2>1. \A b \in B : b \in Nat
    <3> HIDE DEF a
    <3> QED BY <1>3 DEF BytesOf
  <2>2. m \in Mapping
    <3> HIDE DEF f
    <3> QED BY <1>3 DEF ExactInv, Types
  <2>3. m.real \in Nat /\ m.base \in Nat
    BY <2>2 DEF Mapping
  <2> HIDE DEF B, m
  <2> QED BY <2>1, <2>3
<1>7. Types'
  <2> HIDE DEF Y
  <2> QED BY <1>2, <1>3, <1>5, <1>6 DEF ExactInv, Types
<1> QED BY <1>2, <1>4, <1>7, SameList DEF ExactInv

LEMMA ExactStep == ASSUME ExactInv, [Next]_vars PROVE ExactInv'
<1>1. CASE Push
  BY <1>1, PushExact
<1>2. CASE MapIter
  BY <1>2, MapIterExact
<1>3. CASE FetchElem
  BY <1>3, FetchExact
<1>4. CASE NoMapping
  BY <1>4, NoMappingExact
<1>5. CASE RejectAll
  BY <1>5, RejectAllExact
<1>6. CASE YieldPart
  BY <1>6, YieldPartExact
<1>7. CASE UNCHANGED vars
  <2>1. mappings' = mappings
    BY <1>7 DEF vars
  <2>2. WalkInv' <=> WalkInv
    BY <1>7 DEF vars, query, WalkInv, Pending, Mapped, Yielded, AllBelow
  <2> QED BY <1>7, <2>1, <2>2, SameList DEF vars, query, ExactInv, Types
<1> QED BY <1>1, <1>2, <1>3, <1>4, <1>5, <1>6, <1>7 DEF Next, Step

(* The scan of push keeps disjoint mappings in order as long as the first  *)
(* is the lowest; over a sorted list, however long it is and wherever the  *)
(* search begins, every mapped byte of a query is yielded, no mapped byte  *)
(* is rejected, and every byte below the end of a mapping is one or the    *)
(* other (mem_map.rs:141-165, 342-379).                                    *)
THEOREM MapExact == Spec => []MapIsExact
BY ExactStep, InitExact, ExactIsExact, PTL DEF Spec

----------------------------------------------------------------------------
(* Recursive functions over an interval *)

(* What holds at 0 and is carried from each number to the next one up to   *)
(* N holds up to N: a set that contains 0 and the successors contains all. *)
LEMMA UpTo ==
    ASSUME NEW N \in Nat, NEW S, 0 \in S, \A k \in 1..N : k - 1 \in S => k \in S
    PROVE  \A k \in 0..N : k \in S
<1> DEFINE Out == {k \in 0..N : k \notin S}
<1> SUFFICES ASSUME Out # {} PROVE FALSE
  OBVIOUS
<1>1. PICK k \in Out : \A y \in Out : k <= y
  <2>1. Out \in SUBSET Nat
    OBVIOUS
  <2> HIDE DEF Out
  <2> QED BY <2>1, Smallest
<1>2. k \in 1..N /\ k - 1 \in 0..N /\ ~(k <= k - 1)
  BY <1>1
<1>3. k - 1 \in S
  BY <1>1, <1>2
<1> QED BY <1>1, <1>2, <1>3

(* The recursion that starts with s and takes the step g[k] to k has a     *)
(* solution in every set that is closed under the steps.                   *)
Recursion(S, s, N, g) == s \in S /\ N \in Nat /\ g \in [1..N -> [S -> S]]

Solution(f, S, s, N, g) ==
    f \in [0..N -> S] /\ f[0] = s /\ \A k \in 1..N : f[k] = g[k][f[k - 1]]

LEMMA Iterates ==
    ASSUME NEW S, NEW s, NEW N, NEW g, Recursion(S, s, N, g)
    PROVE  \E f : Solution(f, S, s, N, g)
<1> s \in S /\ N \in Nat /\ g \in [1..N -> [S -> S]]
  BY DEF Recursion
<1> DEFINE Solves(n, f) == f[0] = s /\ \A k \in 1..n : f[k] = g[k][f[k - 1]]
           Done == {n \in 0..N : \E f \in [0..n -> S] : Solves(n, f)}
<1>1. 0 \in Done
  <2> DEFINE f == [k \in 0..0 |-> s]
  <2>1. f \in [0..0 -> S] /\ Solves(0, f)
    OBVIOUS
  <2>2. 0 \in 0..N
    OBVIOUS
  <2> HIDE DEF Solves, f
  <2> QED BY <2>1, <2>2
<1>2. ASSUME NEW n \in 1..N, n - 1 \in Done PROVE n \in Done
  <2>1. PICK f \in [0..(n - 1) -> S] : Solves(n - 1, f)
    BY <1>2
  <2> DEFINE a == g[n][f[n - 1]]
             h == [k \in 0..n |-> IF k = n THEN a ELSE f[k]]
  <2>2. n - 1 \in 0..(n - 1) /\ f[n - 1] \in S
    OBVIOUS
  <2>3. a \in S
    BY <2>2
  <2>4. \A k \in 0..n : k # n => k \in 0..(n - 1)
    OBVIOUS
  <2>5. h \in [0..n -> S]
    <3> HIDE DEF a
    <3> QED BY <2>3, <2>4
  <2>6. h[n] = a /\ \A k \in 0..(n - 1) : h[k] = f[k]
    <3> HIDE DEF a
    <3> QED OBVIOUS
  <2> HIDE DEF h
  <2>7. h[0] = s
    BY <2>1, <2>6
  <2>8. ASSUME NEW k \in 1..n PROVE h[k] = g[k][h[k - 1]]
    <3>1. k - 1 \in 0..(n - 1) /\ h[k - 1] = f[k - 1]
      BY <2>6
    <3>2. CASE k = n
      BY <2>6, <3>1, <3>2
    <3>3. CASE k # n
      <4>1. k \in 1..(n - 1) /\ k \in 0..(n - 1)
        BY <3>3
      <4>2. f[k] = g[k][f[k - 1]]
        BY <2>1, <4>1
      <4> QED BY <2>6, <3>1, <4>1, <4>2
    <3> QED BY <3>2, <3>3
  <2>9. Solves(n, h) /\ n \in 0..N
    BY <2>7, <2>8
  <2> HIDE DEF Solves
  <2> QED BY <2>5, <2>9
<1> HIDE DEF Done
<1>3. \A k \in 0..N : k \in Done
  BY <1>1, <1>2, UpTo
<1>4. N \in Done
  BY <1>3
<1>5. PICK f \in [0..N -> S] : Solves(N, f)
  <2>1. \E f \in [0..N -> S] : Solves(N, f)
    <3> HIDE DEF Solves
    <3> QED BY <1>4 DEF Done
  <2> QED BY <2>1
<1>6. Solution(f, S, s, N, g)
  BY <1>5 DEF Solution
<1> QED BY <1>6

(* Every solution stays in that set. *)
LEMMA IteratesStay ==
    ASSUME NEW S, NEW N \in Nat, NEW f, f[0] \in S,
           \A k \in 1..N : f[k - 1] \in S => f[k] \in S
    PROVE  \A k \in 0..N : f[k] \in S
<1> DEFINE In == {k \in 0..N : f[k] \in S}
<1>1. 0 \in In
  OBVIOUS
<1>2. \A k \in 1..N : k - 1 \in In => k \in In
  OBVIOUS
<1> HIDE DEF In
<1>3. \A k \in 0..N : k \in In
  BY <1>1, <1>2, UpTo
<1> QED BY <1>3 DEF In

----------------------------------------------------------------------------
(* The inventory: what a scan adds, and the references it takes for it *)

Entry  == [name : {f.name : f \in Files}, lib : Libs]
Counts == [Libs -> Int]
States == [connectors : Seq(Entry), refs : Counts]

Having(c, l) == {k \in DOMAIN c : c[k].lib = l}

(* t is s with entries added at its end and one reference more for each.   *)
Grown(s, t) ==
    /\ Len(s.connectors) <= Len(t.connectors)
    /\ \A k \in DOMAIN s.connectors : t.connectors[k] = s.connectors[k]
    /\ \A l \in Libs :
          t.refs[l] = s.refs[l] + Cardinality(Having(t.connectors, l))
                      - Cardinality(Having(s.connectors, l))

LEMMA HavingFinite ==
    ASSUME NEW c \in Seq(Entry), NEW l
    PROVE  IsFiniteSet(Having(c, l)) /\ Cardinality(Having(c, l)) \in Nat
<1>1. IsFiniteSet(1..Len(c)) /\ DOMAIN c = 1..Len(c)
  BY FS_Interval
<1>2. Having(c, l) \subseteq 1..Len(c)
  BY <1>1 DEF Having
<1> QED BY <1>1, <1>2, FS_Subset, FS_CardinalityType

LEMMA GrownRefl ==
    ASSUME NEW s \in States
    PROVE  Grown(s, s)
<1>1. s.connectors \in Seq(Entry) /\ s.refs \in Counts
  BY DEF States
<1>2. \A l \in Libs : Cardinality(Having(s.connectors, l)) \in Nat /\ s.refs[l] \in Int
  BY <1>1, HavingFinite DEF Counts
<1>3. \A l \in Libs : s.refs[l] = s.refs[l] + Cardinality(Having(s.connectors, l))
                          - Cardinality(Having(s.connectors, l))
  BY <1>2
<1> QED BY <1>1, <1>3 DEF Grown

LEMMA GrownTrans ==
    ASSUME NEW s \in States, NEW t \in States, NEW u \in States, Grown(s, t), Grown(t, u)
    PROVE  Grown(s, u)
<1>1. /\ s.connectors \in Seq(Entry) /\ t.connectors \in Seq(Entry)
      /\ u.connectors \in Seq(Entry)
      /\ s.refs \in Counts /\ t.refs \in Counts /\ u.refs \in Counts
  BY DEF States
<1>2. Len(s.connectors) <= Len(u.connectors)
  BY <1>1 DEF Grown
<1>3. \A k \in DOMAIN s.connectors : u.connectors[k] = s.connectors[k]
  <2>1. DOMAIN s.connectors \subseteq DOMAIN t.connectors
    BY <1>1 DEF Grown
  <2> QED BY <2>1 DEF Grown
<1>4. ASSUME NEW l \in Libs
      PROVE  u.refs[l] = s.refs[l] + Cardinality(Having(u.connectors, l))
                         - Cardinality(Having(s.connectors, l))
  <2>1. /\ Cardinality(Having(s.connectors, l)) \in Nat
        /\ Cardinality(Having(t.connectors, l)) \in Nat
        /\ Cardinality(Having(u.connectors, l)) \in Nat
    BY <1>1, HavingFinite
  <2>2. s.refs[l] \in Int /\ t.refs[l] \in Int /\ u.refs[l] \in Int
    BY <1>1 DEF Counts
  <2>3. t.refs[l] = s.refs[l] + Cardinality(Having(t.connectors, l))
                    - Cardinality(Having(s.connectors, l))
    BY DEF Grown
  <2>4. u.refs[l] = t.refs[l] + Cardinality(Having(u.connectors, l))
                    - Cardinality(Having(t.connectors, l))
    BY DEF Grown
  <2> QED BY <2>1, <2>2, <2>3, <2>4
<1> QED BY <1>2, <1>3, <1>4 DEF Grown

(* A library that is kept has an entry at the end and one reference more.  *)
LEMMA AddEntryGrows ==
    ASSUME NEW s \in States, NEW f \in Files
    PROVE  add_entry(s, f) \in States /\ Grown(s, add_entry(s, f))
<1> DEFINE c == s.connectors
           e == [name |-> f.name, lib |-> f.lib]
           d == Append(c, e)
<1>1. c \in Seq(Entry) /\ s.refs \in Counts /\ s = [connectors |-> c, refs |-> s.refs]
  BY DEF States
<1>2. f.lib \in Libs /\ e \in Entry /\ e.lib = f.lib
  BY DEF Libs, Entry
<1>3. CASE ~try_with(f)
  BY <1>3, GrownRefl DEF add_entry
<1>4. CASE try_with(f) /\ \E i \in DOMAIN c : c[i].name = f.name
  <2>1. keep_connector(c, f) = c
    BY <1>4 DEF keep_connector
  <2>2. add_entry(s, f) = s
    BY <1>1, <1>4, <2>1 DEF add_entry
  <2> QED BY <2>2, GrownRefl
<1>5. CASE try_with(f) /\ ~ \E i \in DOMAIN c : c[i].name = f.name
  <2>1. keep_connector(c, f) = d
    BY <1>5 DEF keep_connector
  <2> HIDE DEF e, c
  <2>2. /\ d \in Seq(Entry) /\ Len(d) = Len(c) + 1 /\ Len(c) \in Nat
        /\ DOMAIN d = 1..(Len(c) + 1) /\ DOMAIN c = 1..Len(c)
        /\ d[Len(c) + 1] = e /\ \A k \in 1..Len(c) : d[k] = c[k]
    BY <1>1, <1>2
  <2> HIDE DEF d
  <2>3. d # c
    BY <2>2
  <2>4. add_entry(s, f) = [connectors |-> d, refs |-> Take(s.refs, f.lib)]
    BY <1>5, <2>1, <2>3 DEF add_entry, c
  <2>5. Take(s.refs, f.lib) \in Counts
    BY <1>1, <1>2 DEF Take, Counts
  <2>6. add_entry(s, f) \in States
    BY <2>2, <2>4, <2>5 DEF States
  <2>7. ASSUME NEW l \in Libs
        PROVE  Take(s.refs, f.lib)[l]
                 = s.refs[l] + Cardinality(Having(d, l)) - Cardinality(Having(c, l))
    <3>1. /\ Cardinality(Having(c, l)) \in Nat /\ IsFiniteSet(Having(c, l))
          /\ s.refs[l] \in Int
      BY <1>1, HavingFinite DEF Counts
    <3>2. CASE l = f.lib
      <4>1. Having(d, l) = Having(c, l) \cup {Len(c) + 1}
        BY <1>2, <2>2, <3>2 DEF Having
      <4>2. Len(c) + 1 \notin Having(c, l)
        BY <2>2 DEF Having
      <4>3. Cardinality(Having(d, l)) = Cardinality(Having(c, l)) + 1
        BY <3>1, <4>1, <4>2, FS_AddElement
      <4>4. Take(s.refs, f.lib)[l] = s.refs[l] + 1
        BY <1>1, <1>2, <3>2 DEF Take, Counts
      <4> QED BY <3>1, <4>3, <4>4
    <3>3. CASE l # f.lib
      <4>1. Having(d, l) = Having(c, l)
        BY <1>2, <2>2, <3>3 DEF Having
      <4>2. Take(s.refs, f.lib)[l] = s.refs[l]
        BY <1>1, <1>2, <3>3 DEF Take, Counts
      <4> QED BY <3>1, <4>1, <4>2
    <3> QED BY <3>2, <3>3
  <2>8. /\ add_entry(s, f).connectors = d /\ s.connectors = c
        /\ add_entry(s, f).refs = Take(s.refs, f.lib)
    BY <2>4 DEF c
  <2>9. Len(c) <= Len(d) /\ \A k \in DOMAIN c : d[k] = c[k]
    BY <2>2
  <2>10. Grown(s, add_entry(s, f))
    BY <2>7, <2>8, <2>9 DEF Grown
  <2> QED BY <2>6, <2>10
<1> QED BY <1>3, <1>4, <1>5

LEMMA OrderOfFiles ==
    ASSUME NEW dir \in DOMAIN Dirs, NEW order \in SetToSeqs(Dirs[dir])
    PROVE  Len(order) \in Nat /\ \A n \in 1..Len(order) : order[n] \in Files
<1>1. IsFiniteSet(Dirs[dir])
  BY DirsAssumption
<1>2. Cardinality(Dirs[dir]) \in Nat
  BY <1>1, FS_CardinalityType
<1>3. order \in [1..Cardinality(Dirs[dir]) -> Dirs[dir]]
  BY DEF SetToSeqs
<1>4. Len(order) = Cardinality(Dirs[dir])
  BY <1>2, <1>3
<1>5. Dirs[dir] \subseteq Files
  BY DEF Files
<1> QED BY <1>2, <1>3, <1>4, <1>5

(* The inventory after each file of a directory, in some order.            *)
LEMMA FilesAreAdded ==
    ASSUME NEW s \in States, NEW N \in Nat, NEW order, \A n \in 1..N : order[n] \in Files
    PROVE  LET after[n \in 0..N] == IF n = 0 THEN s ELSE add_entry(after[n - 1], order[n])
           IN  \A n \in 0..N : after[n] \in States /\ Grown(s, after[n])
<1> DEFINE S == {t \in States : Grown(s, t)}
           g == [n \in 1..N |-> [t \in S |-> add_entry(t, order[n])]]
           h == CHOOSE after : after = [n \in 0..N |->
                    IF n = 0 THEN s ELSE add_entry(after[n - 1], order[n])]
<1>1. s \in S
  BY GrownRefl
<1>2. \A t \in S, n \in 1..N : add_entry(t, order[n]) \in S
  <2> SUFFICES ASSUME NEW t \in S, NEW n \in 1..N PROVE add_entry(t, order[n]) \in S
    OBVIOUS
  <2>1. add_entry(t, order[n]) \in States /\ Grown(t, add_entry(t, order[n]))
    BY AddEntryGrows
  <2>2. Grown(s, add_entry(t, order[n]))
    BY <2>1, GrownTrans
  <2> QED BY <2>1, <2>2
<1> HIDE DEF S
<1>3. g \in [1..N -> [S -> S]]
  BY <1>2
<1>4. \A t \in S, n \in 1..N : g[n][t] = add_entry(t, order[n])
  OBVIOUS
<1> HIDE DEF g, h
<1>11. Recursion(S, s, N, g)
  BY <1>1, <1>3 DEF Recursion
<1>12. PICK f : Solution(f, S, s, N, g)
  BY <1>11, Iterates
<1>5. f \in [0..N -> S] /\ f[0] = s /\ \A k \in 1..N : f[k] = g[k][f[k - 1]]
  BY <1>12 DEF Solution
<1>6. f = [n \in 0..N |-> IF n = 0 THEN s ELSE add_entry(f[n - 1], order[n])]
  <2> SUFFICES ASSUME NEW n \in 0..N
               PROVE  f[n] = IF n = 0 THEN s ELSE add_entry(f[n - 1], order[n])
    BY <1>5
  <2>1. n # 0 => n \in 1..N /\ n - 1 \in 0..N
    OBVIOUS
  <2>2. n # 0 => f[n - 1] \in S
    BY <1>5, <2>1
  <2> QED BY <1>4, <1>5, <2>1, <2>2
<1>7. h = [n \in 0..N |-> IF n = 0 THEN s ELSE add_entry(h[n - 1], order[n])]
  BY <1>6 DEF h
<1>8. h[0] \in S
  BY <1>1, <1>7
<1>9. ASSUME NEW k \in 1..N, h[k - 1] \in S PROVE h[k] \in S
  <2>1. k \in 0..N /\ k # 0
    OBVIOUS
  <2>2. h[k] = add_entry(h[k - 1], order[k])
    BY <1>7, <2>1
  <2> QED BY <1>2, <1>9, <2>2
<1>10. \A k \in 0..N : h[k] \in S
  BY <1>8, <1>9, IteratesStay
<1> QED BY <1>10 DEF h, S

(* Whatever the order of the files and wherever the scan of the directory  *)
(* stops, the inventory has only grown.                                    *)
LEMMA AddDirGrows ==
    ASSUME NEW s \in States, NEW dir, NEW a \in add_dir(s, dir)
    PROVE  a.st \in States /\ Grown(s, a.st) /\ a.ok \in BOOLEAN
<1>1. CASE dir \notin DOMAIN Dirs
  <2>1. a = [st |-> s, ok |-> FALSE]
    BY <1>1 DEF add_dir
  <2> QED BY <2>1, GrownRefl
<1>2. CASE dir \in DOMAIN Dirs
  <2> DEFINE Fun(order) == CHOOSE after : after = [n \in 0..Len(order) |->
                               IF n = 0 THEN s ELSE add_entry(after[n - 1], order[n])]
  <2>1. PICK order \in SetToSeqs(Dirs[dir]) : \E n \in 0..Len(order) :
            a = [st |-> Fun(order)[n], ok |-> n = Len(order)]
    BY <1>2 DEF add_dir
  <2>2. Len(order) \in Nat /\ \A n \in 1..Len(order) : order[n] \in Files
    BY <1>2, OrderOfFiles
  <2>3. \A n \in 0..Len(order) : Fun(order)[n] \in States /\ Grown(s, Fun(order)[n])
    BY <2>2, FilesAreAdded
  <2> HIDE DEF Fun
  <2> QED BY <2>1, <2>3
<1> QED BY <1>1, <1>2

(* So has the inventory of scan(), from nothing.                           *)
LEMMA ScanGrows ==
    ASSUME refs \in Counts, NEW st \in scan
    PROVE  st \in States /\ Grown(NoConnectors, st)
<1> DEFINE S == {t \in States : Grown(NoConnectors, t)}
           Dir(n, sts) == UNION {{a.st : a \in add_dir(t, SearchPath[n])} : t \in sts}
           N == Len(SearchPath)
           g == [n \in 1..N |-> [sts \in SUBSET S |-> Dir(n, sts)]]
           h == CHOOSE after : after = [n \in 0..N |->
                    IF n = 0 THEN {NoConnectors} ELSE Dir(n, after[n - 1])]
<1>1. N \in Nat
  BY DirsAssumption
<1>2. NoConnectors \in States
  BY DEF NoConnectors, States
<1>3. {NoConnectors} \in SUBSET S
  BY <1>2, GrownRefl
<1>4. ASSUME NEW n \in 1..N, NEW sts \in SUBSET S PROVE Dir(n, sts) \in SUBSET S
  <2> SUFFICES ASSUME NEW t \in sts, NEW a \in add_dir(t, SearchPath[n]) PROVE a.st \in S
    OBVIOUS
  <2>1. t \in States /\ Grown(NoConnectors, t)
    OBVIOUS
  <2>2. a.st \in States /\ Grown(t, a.st)
    BY <2>1, AddDirGrows
  <2>3. Grown(NoConnectors, a.st)
    BY <1>2, <2>1, <2>2, GrownTrans
  <2> QED BY <2>2, <2>3
<1> HIDE DEF S, Dir
<1>5. g \in [1..N -> [SUBSET S -> SUBSET S]]
  BY <1>4
<1>6. \A sts \in SUBSET S, n \in 1..N : g[n][sts] = Dir(n, sts)
  OBVIOUS
<1> HIDE DEF g
<1>15. Recursion(SUBSET S, {NoConnectors}, N, g)
  BY <1>1, <1>3, <1>5 DEF Recursion
<1>16. PICK f : Solution(f, SUBSET S, {NoConnectors}, N, g)
  BY <1>15, Iterates
<1>7. /\ f \in [0..N -> SUBSET S] /\ f[0] = {NoConnectors}
      /\ \A k \in 1..N : f[k] = g[k][f[k - 1]]
  BY <1>16 DEF Solution
<1>8. f = [n \in 0..N |-> IF n = 0 THEN {NoConnectors} ELSE Dir(n, f[n - 1])]
  <2> SUFFICES ASSUME NEW n \in 0..N
               PROVE  f[n] = IF n = 0 THEN {NoConnectors} ELSE Dir(n, f[n - 1])
    BY <1>7
  <2>1. n # 0 => n \in 1..N /\ n - 1 \in 0..N
    BY <1>1
  <2>2. n # 0 => f[n - 1] \in SUBSET S
    BY <1>7, <2>1
  <2> QED BY <1>6, <1>7, <2>1, <2>2
<1>9. h = [n \in 0..N |-> IF n = 0 THEN {NoConnectors} ELSE Dir(n, h[n - 1])]
  BY <1>8
<1>10. scan = h[N]
  BY DEF scan, Dir
<1> HIDE DEF h
<1>11. h[0] \in SUBSET S
  BY <1>1, <1>3, <1>9
<1>12. ASSUME NEW k \in 1..N, h[k - 1] \in SUBSET S PROVE h[k] \in SUBSET S
  <2>1. k \in 0..N /\ k # 0
    BY <1>1
  <2>2. h[k] = Dir(k, h[k - 1])
    BY <1>9, <2>1
  <2> QED BY <1>4, <1>12, <2>2
<1>13. \A k \in 0..N : h[k] \in SUBSET S
  <2> HIDE DEF N
  <2> QED BY <1>1, <1>11, <1>12, IteratesStay
<1>14. scan \in SUBSET S
  BY <1>1, <1>10, <1>13
<1> QED BY <1>14 DEF S

----------------------------------------------------------------------------
(* The references that objects hold *)

Plains  == {"process_info", "module_info", "arch"}
Objects ==
    [kind : Owners, lib : Libs]
    \cup [kind : {"inventory"}, connectors : Seq(Entry)]
    \cup [kind : Views, of : Ids]
    \cup [kind : Plains]

(* The object of a box, and what stands for an empty box.                  *)
Empty     == plain("arch")
Box(h, i) == IF i \in DOMAIN h THEN h[i] ELSE Empty

(* One slot for each reference to library l that an object holds.          *)
Slots(o, l) ==
    IF o.kind \in Owners /\ o.lib = l THEN {0}
    ELSE IF o.kind = "inventory" THEN Having(o.connectors, l)
    ELSE {}

Holders(h, l) == {x \in Ids \X Nat : x[2] \in Slots(Box(h, x[1]), l)}

(* The references of a library are those that the objects hold.            *)
CountedIn(r, h) ==
    \A l \in Libs : IsFiniteSet(Holders(h, l)) /\ r[l] = Cardinality(Holders(h, l))

(* The invariant of the C interfaces. *)
StateOK(r, h, c) ==
    /\ r \in [Libs -> Nat]
    /\ DOMAIN h \subseteq Ids /\ \A i \in DOMAIN h : h[i] \in Objects
    /\ c \subseteq DOMAIN h
    /\ \A i \in DOMAIN h \ c : h[i].kind \in {"process_info", "module_info"}
    /\ CountedIn(r, h)

FInv == StateOK(refs, heap, held)

LEMMA EmptyIsObject == Empty \in Objects
BY DEF Empty, plain, Objects, Plains

(* What an object of each kind is, and the references it holds.            *)
LEMMA ObjectFacts ==
    ASSUME NEW o \in Objects
    PROVE  /\ o.kind \in Owners => o.lib \in Libs /\ o = owner(o.kind, o.lib)
           /\ o.kind = "inventory" => o.connectors \in Seq(Entry)
BY DEF Objects, Owners, Views, Plains, owner

LEMMA SlotsFacts ==
    ASSUME NEW o \in Objects, NEW l
    PROVE  /\ Slots(o, l) \subseteq Nat /\ IsFiniteSet(Slots(o, l))
           /\ Cardinality(Slots(o, l)) \in Nat
           /\ o.kind \in Owners => Cardinality(Slots(o, l)) = IF o.lib = l THEN 1 ELSE 0
           /\ o.kind = "inventory" => Slots(o, l) = Having(o.connectors, l)
           /\ o.kind \notin Owners \cup {"inventory"} =>
                Slots(o, l) = {} /\ Cardinality(Slots(o, l)) = 0
<1>1. CASE o.kind \in Owners /\ o.lib = l
  <2>1. Slots(o, l) = {0} /\ o.kind # "inventory"
    BY <1>1 DEF Slots, Owners
  <2>2. IsFiniteSet({0}) /\ Cardinality({0}) = 1
    BY FS_Singleton
  <2> QED BY <1>1, <2>1, <2>2
<1>2. CASE o.kind \in Owners /\ o.lib # l
  <2>1. Slots(o, l) = {} /\ o.kind # "inventory"
    BY <1>2 DEF Slots, Owners
  <2> QED BY <1>2, <2>1, FS_EmptySet
<1>3. CASE o.kind = "inventory"
  <2>1. Slots(o, l) = Having(o.connectors, l) /\ o.kind \notin Owners
    BY <1>3 DEF Slots, Owners
  <2>2. o.connectors \in Seq(Entry)
    BY <1>3, ObjectFacts
  <2>3. Having(o.connectors, l) \subseteq Nat
    BY <2>2 DEF Having
  <2> QED BY <1>3, <2>1, <2>2, <2>3, HavingFinite
<1>4. CASE o.kind \notin Owners \cup {"inventory"}
  <2>1. Slots(o, l) = {}
    BY <1>4 DEF Slots
  <2> QED BY <1>4, <2>1, FS_EmptySet
<1> QED BY <1>1, <1>2, <1>3, <1>4

(* The references of one box. *)
LEMMA OneBox ==
    ASSUME NEW i \in Ids, NEW o \in Objects, NEW l
    PROVE  /\ IsFiniteSet({i} \X Slots(o, l))
           /\ Cardinality({i} \X Slots(o, l)) = Cardinality(Slots(o, l))
<1>1. IsFiniteSet(Slots(o, l)) /\ Cardinality(Slots(o, l)) \in Nat
  BY SlotsFacts
<1>2. IsFiniteSet({i}) /\ Cardinality({i}) = 1
  BY FS_Singleton
<1>3. /\ IsFiniteSet({i} \X Slots(o, l))
      /\ Cardinality({i} \X Slots(o, l)) = 1 * Cardinality(Slots(o, l))
  BY <1>1, <1>2, FS_Product
<1> QED BY <1>1, <1>3

(* When one box changes, its references go and those of the new object     *)
(* come.                                                                   *)
LEMMA BoxChanges ==
    ASSUME NEW h, NEW h2, NEW i \in Ids, NEW l, IsFiniteSet(Holders(h, l)),
           Box(h, i) \in Objects, Box(h2, i) \in Objects,
           \A j \in Ids \ {i} : Box(h2, j) = Box(h, j)
    PROVE  /\ IsFiniteSet(Holders(h2, l))
           /\ Cardinality(Holders(h2, l)) = Cardinality(Holders(h, l))
                - Cardinality(Slots(Box(h, i), l)) + Cardinality(Slots(Box(h2, i), l))
<1> DEFINE H == Holders(h, l)
           Old == {i} \X Slots(Box(h, i), l)
           New == {i} \X Slots(Box(h2, i), l)
           Rest == H \ Old
<1>1. /\ IsFiniteSet(Old) /\ Cardinality(Old) = Cardinality(Slots(Box(h, i), l))
      /\ IsFiniteSet(New) /\ Cardinality(New) = Cardinality(Slots(Box(h2, i), l))
  BY OneBox
<1>2. /\ Cardinality(Old) \in Nat /\ Cardinality(New) \in Nat /\ Cardinality(H) \in Nat
  <2> HIDE DEF Old, New, H
  <2>1. IsFiniteSet(H)
    BY DEF H
  <2> QED BY <1>1, <2>1, FS_CardinalityType
<1>3. Slots(Box(h, i), l) \subseteq Nat /\ Slots(Box(h2, i), l) \subseteq Nat
  BY SlotsFacts
<1>4. Old \subseteq H
  BY <1>3 DEF Holders
<1>5. Holders(h2, l) = Rest \cup New
  <2>1. ASSUME NEW x \in Holders(h2, l) PROVE x \in Rest \cup New
    <3>1. x \in Ids \X Nat /\ x[2] \in Slots(Box(h2, x[1]), l) /\ x = <<x[1], x[2]>>
      BY DEF Holders
    <3>2. CASE x[1] = i
      BY <3>1, <3>2
    <3>3. CASE x[1] # i
      <4>1. Box(h2, x[1]) = Box(h, x[1])
        BY <3>1, <3>3
      <4>2. x \in H /\ x \notin Old
        BY <3>1, <3>3, <4>1 DEF Holders
      <4> QED BY <4>2
    <3> QED BY <3>2, <3>3
  <2>2. ASSUME NEW x \in Rest PROVE x \in Holders(h2, l)
    <3>1. x \in Ids \X Nat /\ x[2] \in Slots(Box(h, x[1]), l) /\ x = <<x[1], x[2]>>
      BY DEF Holders
    <3>2. x[1] # i
      BY <3>1
    <3>3. Box(h2, x[1]) = Box(h, x[1])
      BY <3>1, <3>2
    <3> QED BY <3>1, <3>3 DEF Holders
  <2>3. ASSUME NEW x \in New PROVE x \in Holders(h2, l)
    BY <1>3 DEF Holders
  <2> HIDE DEF Rest, New
  <2> QED BY <2>1, <2>2, <2>3
<1>6. Rest \cap New = {}
  <2> SUFFICES ASSUME NEW x \in Rest, x \in New PROVE FALSE
    OBVIOUS
  <2>1. x \in Ids \X Nat /\ x[2] \in Slots(Box(h, x[1]), l) /\ x = <<x[1], x[2]>>
    BY DEF Holders
  <2>2. x[1] = i
    OBVIOUS
  <2>3. x \in Old
    BY <2>1, <2>2
  <2> QED BY <2>3
<1> HIDE DEF Old, New, H
<1>7. IsFiniteSet(H)
  BY DEF H
<1>8. H \cap Old = Old
  BY <1>4
<1>9. IsFiniteSet(Rest) /\ Cardinality(Rest) = Cardinality(H) - Cardinality(Old)
  BY <1>7, <1>8, FS_Difference
<1> HIDE DEF Rest
<1>10. /\ IsFiniteSet(Rest \cup New)
       /\ Cardinality(Rest \cup New)
            = Cardinality(Rest) + Cardinality(New) - Cardinality(Rest \cap New)
  BY <1>1, <1>9, FS_Union
<1>11. Cardinality(Rest \cap New) = 0
  BY <1>6, FS_EmptySet
<1>12. Cardinality(Rest \cup New) = Cardinality(H) - Cardinality(Old) + Cardinality(New)
  BY <1>2, <1>9, <1>10, <1>11
<1> QED BY <1>1, <1>5, <1>10, <1>12 DEF H

(* Only references that are held count. *)
LEMMA BoxesKept ==
    ASSUME NEW h, NEW h2, NEW l,
           \A j \in Ids : Slots(Box(h2, j), l) = Slots(Box(h, j), l)
    PROVE  Holders(h2, l) = Holders(h, l)
BY DEF Holders

----------------------------------------------------------------------------
(* What the calls do to the boxes *)

(* The lowest free box is there when there is room, and free.              *)
LEMMA NewBoxIsFree ==
    ASSUME StateOK(refs, heap, held), Room(1)
    PROVE  NewBox \in Ids \ DOMAIN heap
<1> DEFINE Free == Ids \ DOMAIN heap
<1>1. Ids = 1..MaxObjects /\ MaxObjects \in Nat
  BY FFIAssumption DEF Ids
<1>2. IsFiniteSet(Ids)
  BY <1>1, FS_Interval
<1>3. IsFiniteSet(Free)
  BY <1>2, FS_Subset
<1>4. Cardinality(Free) >= 1
  BY DEF Room
<1>5. Free # {}
  <2> SUFFICES ASSUME Free = {} PROVE FALSE
    OBVIOUS
  <2>1. Cardinality(Free) = 0
    BY FS_EmptySet
  <2> HIDE DEF Free
  <2> QED BY <1>4, <2>1
<1>6. PICK i \in Free : \A j \in Free : i <= j
  <2>1. Free \in SUBSET Nat
    BY <1>1
  <2> HIDE DEF Free
  <2> QED BY <1>5, <2>1, Smallest
<1>7. {j \in Free : j < i} = {}
  <2> SUFFICES ASSUME NEW j \in Free, j < i PROVE FALSE
    OBVIOUS
  <2>1. i <= j /\ i \in Nat /\ j \in Nat
    BY <1>1, <1>6
  <2> HIDE DEF Free
  <2> QED BY <2>1
<1>8. Cardinality({j \in Free : j < i}) < 1
  <2>1. Cardinality({j \in Free : j < i}) = 0
    BY <1>7, FS_EmptySet
  <2> QED BY <2>1
<1>9. i \in Boxes(1)
  BY <1>8 DEF Boxes
<1>10. NewBox \in Boxes(1)
  BY <1>9 DEF NewBox
<1> QED BY <1>10 DEF Boxes

LEMMA BoxesAreFree == ASSUME NEW n PROVE Boxes(n) \subseteq Ids \ DOMAIN heap
BY DEF Boxes

(* The references after a box changed, and those of the client.            *)
Settled(r, h, h2, i, r2) ==
    /\ r2 \in [Libs -> Int]
    /\ \A l \in Libs : r2[l] = r[l] - Cardinality(Slots(Box(h, i), l))
                               + Cardinality(Slots(Box(h2, i), l))

LEMMA CountedAgain ==
    ASSUME NEW r, NEW h, NEW h2, NEW i \in Ids, NEW r2,
           CountedIn(r, h), Settled(r, h, h2, i, r2),
           Box(h, i) \in Objects, Box(h2, i) \in Objects,
           \A j \in Ids \ {i} : Box(h2, j) = Box(h, j)
    PROVE  CountedIn(r2, h2) /\ r2 \in [Libs -> Nat]
<1>1. ASSUME NEW l \in Libs
      PROVE  /\ IsFiniteSet(Holders(h2, l)) /\ r2[l] = Cardinality(Holders(h2, l))
             /\ r2[l] \in Nat
  <2>1. IsFiniteSet(Holders(h, l)) /\ r[l] = Cardinality(Holders(h, l))
    BY DEF CountedIn
  <2>2. /\ IsFiniteSet(Holders(h2, l))
        /\ Cardinality(Holders(h2, l)) = Cardinality(Holders(h, l))
                - Cardinality(Slots(Box(h, i), l)) + Cardinality(Slots(Box(h2, i), l))
    BY <2>1, BoxChanges
  <2>3. Cardinality(Holders(h2, l)) \in Nat
    BY <2>2, FS_CardinalityType
  <2> QED BY <2>1, <2>2, <2>3 DEF Settled
<1>2. r2 \in [Libs -> Int]
  BY DEF Settled
<1>3. r2 \in [Libs -> Nat]
  BY <1>1, <1>2
<1> QED BY <1>1, <1>3 DEF CountedIn

(* A box more, and a box with another object. *)
Placed(h, i, o)   == [j \in DOMAIN h \cup {i} |-> IF j = i THEN o ELSE h[j]]
Replaced(h, i, o) == [h EXCEPT ![i] = o]

(* A new object for the client. *)
LEMMA HandOutKeeps ==
    ASSUME NEW r, NEW h, NEW c, StateOK(r, h, c), NEW i \in Ids \ DOMAIN h,
           NEW o \in Objects, NEW h2, NEW r2, h2 = Placed(h, i, o),
           r2 \in [Libs -> Int],
           \A l \in Libs : r2[l] = r[l] + Cardinality(Slots(o, l))
    PROVE  StateOK(r2, h2, c \cup {i})
<1>1. /\ r \in [Libs -> Nat] /\ DOMAIN h \subseteq Ids /\ \A j \in DOMAIN h : h[j] \in Objects
      /\ c \subseteq DOMAIN h /\ CountedIn(r, h)
      /\ \A j \in DOMAIN h \ c : h[j].kind \in {"process_info", "module_info"}
  BY DEF StateOK
<1>2. /\ DOMAIN h2 = DOMAIN h \cup {i} /\ h2[i] = o
      /\ \A j \in DOMAIN h : h2[j] = h[j]
  BY DEF Placed
<1>3. Box(h, i) = Empty /\ Box(h2, i) = o /\ \A j \in Ids \ {i} : Box(h2, j) = Box(h, j)
  BY <1>2 DEF Box
<1>4. \A l \in Libs : Cardinality(Slots(Empty, l)) = 0
  <2>1. Empty.kind \notin Owners \cup {"inventory"}
    BY DEF Empty, plain, Owners
  <2> QED BY <2>1, EmptyIsObject, SlotsFacts
<1>5. Settled(r, h, h2, i, r2)
  <2>1. ASSUME NEW l \in Libs
        PROVE  r2[l] = r[l] - Cardinality(Slots(Box(h, i), l))
                         + Cardinality(Slots(Box(h2, i), l))
    <3>1. r[l] \in Nat /\ Cardinality(Slots(o, l)) \in Nat
      BY <1>1, SlotsFacts
    <3> QED BY <1>3, <1>4, <3>1
  <2> QED BY <2>1 DEF Settled
<1>6. CountedIn(r2, h2) /\ r2 \in [Libs -> Nat]
  <2>1. /\ i \in Ids /\ CountedIn(r, h) /\ \A j \in Ids \ {i} : Box(h2, j) = Box(h, j)
        /\ Box(h, i) \in Objects /\ Box(h2, i) \in Objects
    BY <1>1, <1>3, EmptyIsObject
  <2>2. Settled(r, h, h2, i, r2)
    BY <1>5
  <2> QED BY ONLY <2>1, <2>2, CountedAgain
<1>7. DOMAIN h2 \subseteq Ids /\ \A j \in DOMAIN h2 : h2[j] \in Objects
  BY <1>1, <1>2
<1>8. /\ c \cup {i} \subseteq DOMAIN h2
      /\ \A j \in DOMAIN h2 \ (c \cup {i}) : h2[j].kind \in {"process_info", "module_info"}
  BY <1>1, <1>2
<1> QED BY <1>6, <1>7, <1>8 DEF StateOK

(* An object of the client freed. *)
LEMMA FreeKeeps ==
    ASSUME NEW r, NEW h, NEW c, StateOK(r, h, c), NEW i \in DOMAIN h \cap c, NEW h2, NEW r2,
           h2 = [j \in DOMAIN h \ {i} |-> h[j]],
           r2 \in [Libs -> Int],
           \A l \in Libs : r2[l] = r[l] - Cardinality(Slots(h[i], l))
    PROVE  StateOK(r2, h2, c \ {i})
<1>1. /\ r \in [Libs -> Nat] /\ DOMAIN h \subseteq Ids /\ \A j \in DOMAIN h : h[j] \in Objects
      /\ c \subseteq DOMAIN h /\ CountedIn(r, h) /\ i \in Ids
      /\ \A j \in DOMAIN h \ c : h[j].kind \in {"process_info", "module_info"}
  BY DEF StateOK
<1>2. DOMAIN h2 = DOMAIN h \ {i} /\ \A j \in DOMAIN h2 : h2[j] = h[j]
  OBVIOUS
<1>3. Box(h2, i) = Empty /\ Box(h, i) = h[i] /\ \A j \in Ids \ {i} : Box(h2, j) = Box(h, j)
  BY <1>2 DEF Box
<1>4. \A l \in Libs : Cardinality(Slots(Empty, l)) = 0
  <2>1. Empty.kind \notin Owners \cup {"inventory"}
    BY DEF Empty, plain, Owners
  <2> QED BY <2>1, EmptyIsObject, SlotsFacts
<1>5. Settled(r, h, h2, i, r2)
  <2>1. ASSUME NEW l \in Libs
        PROVE  r2[l] = r[l] - Cardinality(Slots(Box(h, i), l))
                         + Cardinality(Slots(Box(h2, i), l))
    <3>1. r[l] \in Nat /\ Cardinality(Slots(h[i], l)) \in Nat
      BY <1>1, SlotsFacts
    <3> QED BY <1>3, <1>4, <3>1
  <2> QED BY <2>1 DEF Settled
<1>6. CountedIn(r2, h2) /\ r2 \in [Libs -> Nat]
  <2>1. /\ i \in Ids /\ CountedIn(r, h) /\ \A j \in Ids \ {i} : Box(h2, j) = Box(h, j)
        /\ Box(h, i) \in Objects /\ Box(h2, i) \in Objects
    BY <1>1, <1>3, EmptyIsObject
  <2>2. Settled(r, h, h2, i, r2)
    BY <1>5
  <2> QED BY ONLY <2>1, <2>2, CountedAgain
<1>7. DOMAIN h2 \subseteq Ids /\ \A j \in DOMAIN h2 : h2[j] \in Objects
  BY <1>1, <1>2
<1>8. /\ c \ {i} \subseteq DOMAIN h2
      /\ \A j \in DOMAIN h2 \ (c \ {i}) : h2[j].kind \in {"process_info", "module_info"}
  BY <1>1, <1>2
<1> QED BY <1>6, <1>7, <1>8 DEF StateOK

(* An object of the client in the place of another one. *)
LEMMA ConvertKeeps ==
    ASSUME NEW r, NEW h, NEW c, StateOK(r, h, c), NEW i \in DOMAIN h \cap c,
           NEW o \in Objects, NEW h2, NEW r2, h2 = Replaced(h, i, o),
           r2 \in [Libs -> Int],
           \A l \in Libs : r2[l] = r[l] - Cardinality(Slots(h[i], l))
                                   + Cardinality(Slots(o, l))
    PROVE  StateOK(r2, h2, c)
<1>1. /\ r \in [Libs -> Nat] /\ DOMAIN h \subseteq Ids /\ \A j \in DOMAIN h : h[j] \in Objects
      /\ c \subseteq DOMAIN h /\ CountedIn(r, h) /\ i \in Ids
      /\ \A j \in DOMAIN h \ c : h[j].kind \in {"process_info", "module_info"}
  BY DEF StateOK
<1>2. /\ DOMAIN h2 = DOMAIN h /\ h2[i] = o
      /\ \A j \in DOMAIN h \ {i} : h2[j] = h[j]
  BY DEF Replaced
<1>3. Box(h2, i) = o /\ Box(h, i) = h[i] /\ \A j \in Ids \ {i} : Box(h2, j) = Box(h, j)
  BY <1>2 DEF Box
<1>4. Settled(r, h, h2, i, r2)
  BY <1>3 DEF Settled
<1>5. CountedIn(r2, h2) /\ r2 \in [Libs -> Nat]
  <2>1. /\ i \in Ids /\ CountedIn(r, h) /\ \A j \in Ids \ {i} : Box(h2, j) = Box(h, j)
        /\ Box(h, i) \in Objects /\ Box(h2, i) \in Objects
    BY <1>1, <1>3, EmptyIsObject
  <2>2. Settled(r, h, h2, i, r2)
    BY <1>4
  <2> QED BY ONLY <2>1, <2>2, CountedAgain
<1>6. \A j \in DOMAIN h2 : h2[j] \in Objects
  BY <1>1, <1>2
<1>7. \A j \in DOMAIN h2 \ c : h2[j].kind \in {"process_info", "module_info"}
  BY <1>1, <1>2
<1> QED BY <1>1, <1>2, <1>5, <1>6, <1>7 DEF StateOK

(* A list of elements, of which the client is told or not. *)
LEMMA ListKeeps ==
    ASSUME NEW r, NEW h, NEW c, StateOK(r, h, c), NEW B \in SUBSET (Ids \ DOMAIN h),
           NEW kind \in {"process_info", "module_info"}, NEW h2, NEW c2,
           h2 = [j \in DOMAIN h \cup B |-> IF j \in DOMAIN h THEN h[j] ELSE plain(kind)],
           c2 = c \cup B \/ c2 = c
    PROVE  StateOK(r, h2, c2)
<1>1. /\ r \in [Libs -> Nat] /\ DOMAIN h \subseteq Ids /\ \A j \in DOMAIN h : h[j] \in Objects
      /\ c \subseteq DOMAIN h /\ CountedIn(r, h)
      /\ \A j \in DOMAIN h \ c : h[j].kind \in {"process_info", "module_info"}
  BY DEF StateOK
<1>2. /\ DOMAIN h2 = DOMAIN h \cup B /\ \A j \in DOMAIN h : h2[j] = h[j]
      /\ \A j \in B : h2[j] = plain(kind)
  OBVIOUS
<1>3. plain(kind) \in Objects /\ plain(kind).kind = kind
  BY DEF plain, Objects, Plains
<1>4. ASSUME NEW l \in Libs PROVE Holders(h2, l) = Holders(h, l)
  <2>1. /\ Slots(plain(kind), l) = {} /\ Slots(Empty, l) = {}
    <3>1. /\ plain(kind).kind \notin Owners \cup {"inventory"}
          /\ Empty.kind \notin Owners \cup {"inventory"}
      BY DEF Empty, plain, Owners
    <3> QED BY <1>3, <3>1, EmptyIsObject, SlotsFacts
  <2>2. ASSUME NEW j \in Ids PROVE Slots(Box(h2, j), l) = Slots(Box(h, j), l)
    <3>1. CASE j \in B
      <4>1. Box(h2, j) = plain(kind) /\ Box(h, j) = Empty
        BY <1>2, <3>1 DEF Box
      <4> QED BY <2>1, <4>1
    <3>2. CASE j \notin B
      <4>1. Box(h2, j) = Box(h, j)
        BY <1>2, <3>2 DEF Box
      <4> QED BY <4>1
    <3> QED BY <3>1, <3>2
  <2> QED BY <2>2, BoxesKept
<1>5. CountedIn(r, h2)
  BY <1>1, <1>4 DEF CountedIn
<1>6. DOMAIN h2 \subseteq Ids /\ \A j \in DOMAIN h2 : h2[j] \in Objects
  BY <1>1, <1>2, <1>3
<1>7. c2 \subseteq DOMAIN h2
  BY <1>1, <1>2
<1>8. \A j \in DOMAIN h2 \ c2 : h2[j].kind \in {"process_info", "module_info"}
  BY <1>1, <1>2, <1>3
<1> QED BY <1>1, <1>5, <1>6, <1>7, <1>8 DEF StateOK

----------------------------------------------------------------------------
(* The steps *)

(* c is extended by d. *)
Extends(c, d) ==
    /\ Len(c) <= Len(d) /\ \A k \in DOMAIN c : d[k] = c[k]

(* An inventory that the client keeps has lost none of its entries.        *)
Bound ==
    \A i \in held \cap held' :
        heap[i].kind = "inventory" /\ heap'[i].kind = "inventory" =>
            Extends(heap[i].connectors, heap'[i].connectors)

LEMMA FInvFacts ==
    ASSUME FInv
    PROVE  /\ refs \in [Libs -> Nat] /\ refs \in Counts /\ DOMAIN heap \subseteq Ids
           /\ \A i \in DOMAIN heap : heap[i] \in Objects
           /\ held \subseteq DOMAIN heap
BY DEF FInv, StateOK, Counts

LEMMA OfFacts ==
    ASSUME FInv, NEW kind, NEW i \in Of(kind)
    PROVE  /\ i \in DOMAIN heap \cap held /\ i \in Ids /\ heap[i] \in Objects
           /\ heap[i].kind = kind
BY FInvFacts DEF Of

LEMMA ExtendsSame == ASSUME NEW c \in Seq(Entry) PROVE Extends(c, c)
BY DEF Extends

LEMMA HeldInventory ==
    ASSUME FInv, NEW i \in held, heap[i].kind = "inventory"
    PROVE  heap[i].connectors \in Seq(Entry)
BY FInvFacts, ObjectFacts

LEMMA SameHeap ==
    ASSUME FInv, \A i \in DOMAIN heap \cap held' :
                     heap'[i] = heap[i] \/ heap[i].kind # "inventory"
    PROVE  Bound
<1> SUFFICES ASSUME NEW i \in held \cap held', heap[i].kind = "inventory"
             PROVE  Extends(heap[i].connectors, heap'[i].connectors)
  BY DEF Bound
<1>1. heap'[i] = heap[i]
  BY FInvFacts
<1>2. heap[i].connectors \in Seq(Entry)
  BY HeldInventory
<1> QED BY <1>1, <1>2, ExtendsSame

(* The shapes of the steps. *)
LEMMA NothingStep ==
    ASSUME FInv, UNCHANGED <<heap, held>>, refs' = refs
    PROVE  FInv' /\ Bound
<1>1. FInv'
  BY DEF FInv
<1>2. Bound
  BY SameHeap
<1> QED BY <1>1, <1>2

LEMMA HandOutStep ==
    ASSUME FInv, NEW o \in Objects, HandOut(o), refs' \in [Libs -> Int],
           \A l \in Libs : refs'[l] = refs[l] + Cardinality(Slots(o, l))
    PROVE  FInv' /\ Bound
<1>1. /\ Room(1) /\ held' = held \cup {NewBox}
      /\ heap' = [i \in DOMAIN heap \cup {NewBox} |-> IF i = NewBox THEN o ELSE heap[i]]
  BY DEF HandOut, to_heap
<1>2. StateOK(refs, heap, held)
  BY DEF FInv
<1>3. NewBox \in Ids \ DOMAIN heap
  BY <1>1, <1>2, NewBoxIsFree
<1>4. StateOK(refs', heap', held \cup {NewBox})
  <2> DEFINE n == NewBox
             h2 == heap'
             r2 == refs'
  <2>1. /\ n \in Ids \ DOMAIN heap /\ r2 \in [Libs -> Int]
        /\ h2 = Placed(heap, n, o)
        /\ \A l \in Libs : r2[l] = refs[l] + Cardinality(Slots(o, l))
    BY <1>1, <1>3 DEF Placed
  <2> HIDE DEF n, h2, r2
  <2>2. StateOK(r2, h2, held \cup {n})
    BY <1>2, <2>1, HandOutKeeps
  <2> QED BY <2>2 DEF n, h2, r2
<1>5. FInv'
  BY <1>1, <1>4 DEF FInv
<1>6. \A i \in DOMAIN heap : heap'[i] = heap[i]
  BY <1>1, <1>3
<1>7. Bound
  BY <1>6, SameHeap
<1> QED BY <1>5, <1>7

LEMMA FreeStep ==
    ASSUME FInv, NEW i \in DOMAIN heap \cap held, FreeBox(i), refs' \in [Libs -> Int],
           \A l \in Libs : refs'[l] = refs[l] - Cardinality(Slots(heap[i], l))
    PROVE  FInv' /\ Bound
<1>1. /\ held' = held \ {i}
      /\ heap' = [j \in DOMAIN heap \ {i} |-> heap[j]]
  BY DEF FreeBox, Without, Restricted
<1>2. StateOK(refs, heap, held)
  BY DEF FInv
<1>3. StateOK(refs', heap', held \ {i})
  <2> DEFINE h2 == heap'
             r2 == refs'
  <2>1. /\ h2 = [j \in DOMAIN heap \ {i} |-> heap[j]] /\ r2 \in [Libs -> Int]
        /\ \A l \in Libs : r2[l] = refs[l] - Cardinality(Slots(heap[i], l))
    BY <1>1
  <2> HIDE DEF h2, r2
  <2>2. StateOK(r2, h2, held \ {i})
    BY <1>2, <2>1, FreeKeeps, ZenonT(30)
  <2> QED BY <2>2 DEF h2, r2
<1>4. FInv'
  BY <1>1, <1>3 DEF FInv
<1>5. \A j \in DOMAIN heap \cap held' : heap'[j] = heap[j]
  BY <1>1
<1>6. Bound
  BY <1>5, SameHeap
<1> QED BY <1>4, <1>6

LEMMA ConvertStep ==
    ASSUME FInv, NEW i \in DOMAIN heap \cap held, NEW o \in Objects, Convert(i, o),
           refs' \in [Libs -> Int],
           \A l \in Libs : refs'[l] = refs[l] - Cardinality(Slots(heap[i], l))
                                      + Cardinality(Slots(o, l))
    PROVE  FInv' /\ (heap[i].kind # "inventory" => Bound)
<1>1. held' = held /\ heap' = [heap EXCEPT ![i] = o]
  BY DEF Convert
<1>2. StateOK(refs, heap, held)
  BY DEF FInv
<1>3. StateOK(refs', heap', held)
  <2> DEFINE h2 == heap'
             r2 == refs'
  <2>1. /\ h2 = Replaced(heap, i, o) /\ r2 \in [Libs -> Int]
        /\ \A l \in Libs : r2[l] = refs[l] - Cardinality(Slots(heap[i], l))
                                   + Cardinality(Slots(o, l))
    BY <1>1 DEF Replaced
  <2> HIDE DEF h2, r2
  <2>2. StateOK(r2, h2, held)
    BY <1>2, <2>1, ConvertKeeps
  <2> QED BY <2>2 DEF h2, r2
<1>4. FInv'
  BY <1>1, <1>3 DEF FInv
<1>5. \A j \in DOMAIN heap : j # i => heap'[j] = heap[j]
  BY <1>1
<1>6. heap[i].kind # "inventory" => Bound
  BY <1>5, SameHeap
<1> QED BY <1>4, <1>6

LEMMA ListStep ==
    ASSUME FInv, NEW kind \in {"process_info", "module_info"}, List(kind)
    PROVE  FInv' /\ Bound
<1>1. PICK n \in 0..MaxListed :
          /\ heap' = [i \in DOMAIN heap \cup Boxes(n) |->
                          IF i \in DOMAIN heap THEN heap[i] ELSE plain(kind)]
          /\ held' = held \cup Boxes(n) \/ held' = held
          /\ UNCHANGED refs
  BY DEF List
<1>2. Boxes(n) \in SUBSET (Ids \ DOMAIN heap)
  BY BoxesAreFree
<1>3. StateOK(refs, heap', held')
  <2> DEFINE B == Boxes(n)
             h2 == heap'
             c2 == held'
  <2>1. /\ B \in SUBSET (Ids \ DOMAIN heap) /\ (c2 = held \cup B \/ c2 = held)
        /\ h2 = [j \in DOMAIN heap \cup B |-> IF j \in DOMAIN heap THEN heap[j] ELSE plain(kind)]
        /\ StateOK(refs, heap, held)
    BY <1>1, <1>2 DEF FInv
  <2> HIDE DEF B, h2, c2
  <2>2. StateOK(refs, h2, c2)
    BY <2>1, ListKeeps
  <2> QED BY <2>2 DEF h2, c2
<1>4. FInv'
  BY <1>1, <1>3 DEF FInv
<1>5. \A j \in DOMAIN heap : heap'[j] = heap[j]
  BY <1>1
<1>6. Bound
  BY <1>5, SameHeap
<1> QED BY <1>4, <1>6

(* The steps of owners, which take, give and move one reference, and of    *)
(* views and information, which hold none.                                 *)
LEMMA OwnerIs ==
    ASSUME NEW kind \in Owners, NEW lib \in Libs
    PROVE  /\ owner(kind, lib) \in Objects
           /\ \A l \in Libs : Cardinality(Slots(owner(kind, lib), l)) = IF lib = l THEN 1 ELSE 0
<1>1. /\ owner(kind, lib) \in Objects
      /\ owner(kind, lib).kind \in Owners /\ owner(kind, lib).lib = lib
  BY DEF owner, Objects
<1> QED BY <1>1, SlotsFacts

LEMMA OwnerHandedOut ==
    ASSUME FInv, NEW kind \in Owners, NEW lib \in Libs,
           HandOut(owner(kind, lib)), refs' = Take(refs, lib)
    PROVE  FInv' /\ Bound
<1>1. refs \in [Libs -> Nat]
  BY FInvFacts
<1>2. refs' \in [Libs -> Int] /\ \A l \in Libs : refs'[l] = refs[l] + IF lib = l THEN 1 ELSE 0
  BY <1>1 DEF Take
<1>3. /\ owner(kind, lib) \in Objects
      /\ \A l \in Libs : refs'[l] = refs[l] + Cardinality(Slots(owner(kind, lib), l))
  BY <1>2, OwnerIs
<1> QED BY <1>2, <1>3, HandOutStep

LEMMA OwnerFreed ==
    ASSUME FInv, NEW kind \in Owners, NEW i \in Of(kind), FreeBox(i),
           refs' = Give(refs, heap[i].lib)
    PROVE  FInv' /\ Bound
<1> DEFINE lib == heap[i].lib
<1>1. refs \in [Libs -> Nat]
  BY FInvFacts
<1>2. /\ i \in DOMAIN heap \cap held /\ heap[i] \in Objects /\ heap[i].kind \in Owners
      /\ lib \in Libs
  BY OfFacts, ObjectFacts
<1>3. \A l \in Libs : Cardinality(Slots(heap[i], l)) = IF lib = l THEN 1 ELSE 0
  BY <1>2, SlotsFacts
<1>4. refs' \in [Libs -> Int] /\ \A l \in Libs : refs'[l] = refs[l] - IF lib = l THEN 1 ELSE 0
  <2> HIDE DEF lib
  <2>1. refs' = Give(refs, lib)
    BY DEF lib
  <2> QED BY <1>1, <1>2, <2>1 DEF Give
<1>5. \A l \in Libs : refs'[l] = refs[l] - Cardinality(Slots(heap[i], l))
  BY <1>3, <1>4
<1> QED BY <1>2, <1>4, <1>5, FreeStep

LEMMA OwnerMoved ==
    ASSUME FInv, NEW kind \in Owners, NEW i \in Of(kind), NEW kind2 \in Owners,
           Convert(i, owner(kind2, heap[i].lib)), UNCHANGED refs
    PROVE  FInv' /\ Bound
<1> DEFINE lib == heap[i].lib
           o == owner(kind2, lib)
<1>1. refs \in [Libs -> Nat]
  BY FInvFacts
<1>2. /\ i \in DOMAIN heap \cap held /\ heap[i] \in Objects /\ heap[i].kind \in Owners
      /\ lib \in Libs
  BY OfFacts, ObjectFacts
<1>3. \A l \in Libs : Cardinality(Slots(heap[i], l)) = IF lib = l THEN 1 ELSE 0
  BY <1>2, SlotsFacts
<1>4. o \in Objects /\ \A l \in Libs : Cardinality(Slots(o, l)) = IF lib = l THEN 1 ELSE 0
  BY <1>2, OwnerIs
<1>5. /\ refs' \in [Libs -> Int]
      /\ \A l \in Libs : refs'[l] = refs[l] - Cardinality(Slots(heap[i], l))
                                    + Cardinality(Slots(o, l))
  BY <1>1, <1>3, <1>4
<1>6. Convert(i, o) /\ heap[i].kind # "inventory"
  BY <1>2 DEF Owners
<1> HIDE DEF o
<1> QED BY <1>2, <1>4, <1>5, <1>6, ConvertStep

(* What holds no reference. *)
Bare(o) == o \in Objects /\ o.kind \notin Owners \cup {"inventory"}

LEMMA BareIs ==
    /\ \A kind \in Plains : Bare(plain(kind))
    /\ \A kind \in Views, i \in Ids : Bare(view(kind, i))
BY DEF Bare, Plains, Views, Owners, Objects, plain, view

LEMMA BareHandedOut ==
    ASSUME FInv, NEW o, Bare(o), HandOut(o), UNCHANGED refs
    PROVE  FInv' /\ Bound
<1>1. refs \in [Libs -> Nat]
  BY FInvFacts
<1>2. o \in Objects /\ \A l \in Libs : Cardinality(Slots(o, l)) = 0
  BY SlotsFacts DEF Bare
<1>3. refs' \in [Libs -> Int] /\ \A l \in Libs : refs'[l] = refs[l] + Cardinality(Slots(o, l))
  BY <1>1, <1>2
<1> QED BY <1>2, <1>3, HandOutStep

LEMMA BareFreed ==
    ASSUME FInv, NEW kind, kind \notin Owners \cup {"inventory"}, NEW i \in Of(kind),
           FreeBox(i), UNCHANGED refs
    PROVE  FInv' /\ Bound
<1>1. refs \in [Libs -> Nat]
  BY FInvFacts
<1>2. i \in DOMAIN heap \cap held /\ heap[i] \in Objects /\ heap[i].kind = kind
  BY OfFacts
<1>3. \A l \in Libs : Cardinality(Slots(heap[i], l)) = 0
  BY <1>2, SlotsFacts
<1>4. /\ refs' \in [Libs -> Int]
      /\ \A l \in Libs : refs'[l] = refs[l] - Cardinality(Slots(heap[i], l))
  BY <1>1, <1>3
<1> QED BY <1>2, <1>4, FreeStep

----------------------------------------------------------------------------
(* The calls *)

(* An inventory dropped gives back what its entries hold.                  *)
LEMMA GiveAllFacts ==
    ASSUME NEW r \in Counts, NEW c \in Seq(Entry)
    PROVE  /\ GiveAll(r, c) \in Counts
           /\ \A l \in Libs : GiveAll(r, c)[l] = r[l] - Cardinality(Having(c, l))
<1>1. \A l \in Libs : Cardinality(Having(c, l)) \in Nat
  BY HavingFinite
<1>2. GiveAll(r, c) = [l \in Libs |-> r[l] - Cardinality(Having(c, l))]
  BY DEF GiveAll, Having
<1> QED BY <1>1, <1>2 DEF Counts

LEMMA InventoryIs ==
    ASSUME NEW c \in Seq(Entry)
    PROVE  /\ inventory(c) \in Objects
           /\ \A l \in Libs : Cardinality(Slots(inventory(c), l)) = Cardinality(Having(c, l))
<1>1. /\ inventory(c) \in Objects /\ inventory(c).kind = "inventory"
      /\ inventory(c).connectors = c
  BY DEF inventory, Objects
<1>2. \A l : Slots(inventory(c), l) = Having(c, l)
  BY <1>1, SlotsFacts
<1> QED BY <1>1, <1>2

(* The empty inventory, and what has grown from it.                        *)
LEMMA FromNothing ==
    ASSUME FInv, NEW st \in States, Grown(NoConnectors, st)
    PROVE  \A l \in Libs : st.refs[l] = refs[l] + Cardinality(Having(st.connectors, l))
<1> SUFFICES ASSUME NEW l \in Libs
             PROVE  st.refs[l] = refs[l] + Cardinality(Having(st.connectors, l))
  OBVIOUS
<1>1. refs[l] \in Nat
  BY FInvFacts
<1>2. st.connectors \in Seq(Entry)
  BY DEF States
<1>3. Cardinality(Having(st.connectors, l)) \in Nat
  BY <1>2, HavingFinite
<1>4. Having(<<>>, l) = {}
  BY DEF Having
<1>5. Cardinality(Having(<<>>, l)) = 0
  BY <1>4, FS_EmptySet
<1>6. NoConnectors.connectors = <<>> /\ NoConnectors.refs = refs
  BY DEF NoConnectors
<1>7. st.refs[l] = refs[l] + Cardinality(Having(st.connectors, l)) - Cardinality(Having(<<>>, l))
  BY <1>6 DEF Grown
<1> QED BY <1>1, <1>3, <1>5, <1>7

LEMMA NoConnectorsIs == FInv => NoConnectors \in States
<1> SUFFICES ASSUME FInv PROVE NoConnectors \in States
  OBVIOUS
<1>1. refs \in Counts
  BY FInvFacts
<1> QED BY <1>1 DEF NoConnectors, States

LEMMA InventoryHandedOut ==
    ASSUME FInv, NEW st \in States, Grown(NoConnectors, st),
           HandOut(inventory(st.connectors)), refs' = st.refs
    PROVE  FInv' /\ Bound
<1>1. st.connectors \in Seq(Entry) /\ st.refs \in Counts
  BY DEF States
<1>2. \A l \in Libs : st.refs[l] = refs[l] + Cardinality(Having(st.connectors, l))
  BY FromNothing
<1> DEFINE o == inventory(st.connectors)
<1>3. o \in Objects /\ \A l \in Libs : Cardinality(Slots(o, l)) = Cardinality(Having(st.connectors, l))
  BY <1>1, InventoryIs
<1>4. refs' \in [Libs -> Int] /\ \A l \in Libs : refs'[l] = refs[l] + Cardinality(Slots(o, l))
  BY <1>1, <1>2, <1>3 DEF Counts
<1>5. HandOut(o)
  OBVIOUS
<1> HIDE DEF o
<1> QED BY <1>3, <1>4, <1>5, HandOutStep

LEMMA ScanStep == FInv /\ inventory_scan => FInv' /\ Bound
<1> SUFFICES ASSUME FInv, inventory_scan PROVE FInv' /\ Bound
  OBVIOUS
<1>1. PICK st \in scan : refs' = st.refs /\ HandOut(inventory(st.connectors))
  BY DEF inventory_scan
<1>2. refs \in Counts
  BY FInvFacts
<1>3. st \in States /\ Grown(NoConnectors, st)
  BY <1>2, ScanGrows
<1> QED BY <1>1, <1>3, InventoryHandedOut

LEMMA ScanPathStep == FInv /\ inventory_scan_path => FInv' /\ Bound
<1> SUFFICES ASSUME FInv, inventory_scan_path PROVE FInv' /\ Bound
  OBVIOUS
<1>1. PICK dir, a :
          /\ a \in add_dir(NoConnectors, dir)
          /\ \/ refs' = a.st.refs /\ HandOut(inventory(a.st.connectors))
             \/ refs' = GiveAll(a.st.refs, a.st.connectors) /\ UNCHANGED <<heap, held>>
  BY DEF inventory_scan_path
<1>2. a.st \in States /\ Grown(NoConnectors, a.st)
  BY <1>1, NoConnectorsIs, AddDirGrows
<1>3. CASE refs' = a.st.refs /\ HandOut(inventory(a.st.connectors))
  BY <1>2, <1>3, InventoryHandedOut
<1>4. CASE refs' = GiveAll(a.st.refs, a.st.connectors) /\ UNCHANGED <<heap, held>>
  <2> DEFINE c == a.st.connectors
             r == a.st.refs
  <2>1. c \in Seq(Entry) /\ r \in Counts
    BY <1>2 DEF States
  <2>2. refs \in [Libs -> Nat]
    BY FInvFacts
  <2>3. \A l \in Libs : r[l] = refs[l] + Cardinality(Having(c, l))
    BY <1>2, FromNothing
  <2>4. refs' = GiveAll(r, c)
    BY <1>4
  <2> HIDE DEF c, r
  <2>5. \A l \in Libs : Cardinality(Having(c, l)) \in Nat
    BY <2>1, HavingFinite
  <2>6. refs' \in [Libs -> Int] /\ \A l \in Libs : refs'[l] = r[l] - Cardinality(Having(c, l))
    BY <2>1, <2>4, GiveAllFacts DEF Counts
  <2>7. \A l \in Libs : refs'[l] = refs[l]
    BY <2>2, <2>3, <2>5, <2>6
  <2>8. refs' = refs
    BY <2>2, <2>6, <2>7
  <2> QED BY <1>4, <2>8, NothingStep
<1> QED BY <1>1, <1>3, <1>4

LEMMA AddDirStep == FInv /\ inventory_add_dir => FInv' /\ Bound
<1> SUFFICES ASSUME FInv, inventory_add_dir PROVE FInv' /\ Bound
  OBVIOUS
<1>1. PICK i \in Of("inventory"), dir \in DOMAIN Dirs \cup {"nowhere"} :
        \E a \in add_dir([connectors |-> heap[i].connectors, refs |-> refs], dir) :
          /\ refs' = a.st.refs
          /\ heap' = [heap EXCEPT ![i] = inventory(a.st.connectors)]
          /\ UNCHANGED held
  BY DEF inventory_add_dir
<1> DEFINE s == [connectors |-> heap[i].connectors, refs |-> refs]
<1>2. PICK a \in add_dir(s, dir) :
          /\ refs' = a.st.refs
          /\ heap' = [heap EXCEPT ![i] = inventory(a.st.connectors)]
          /\ UNCHANGED held
  BY <1>1
<1>3. /\ i \in DOMAIN heap \cap held /\ heap[i] \in Objects /\ heap[i].kind = "inventory"
  BY OfFacts
<1>4. heap[i].connectors \in Seq(Entry) /\ refs \in [Libs -> Nat] /\ refs \in Counts
  BY <1>3, ObjectFacts, FInvFacts
<1>5. s \in States /\ s.connectors = heap[i].connectors /\ s.refs = refs
  BY <1>4 DEF States
<1> HIDE DEF s
<1>6. a.st \in States /\ Grown(s, a.st)
  BY <1>5, AddDirGrows
<1> DEFINE c == heap[i].connectors
           d == a.st.connectors
           o == inventory(d)
<1>7. d \in Seq(Entry) /\ a.st.refs \in Counts
  BY <1>6 DEF States
<1>8. o \in Objects /\ \A l \in Libs : Cardinality(Slots(o, l)) = Cardinality(Having(d, l))
  BY <1>7, InventoryIs
<1>9. \A l \in Libs : Cardinality(Slots(heap[i], l)) = Cardinality(Having(c, l))
  BY <1>3, SlotsFacts
<1>10. \A l \in Libs : refs'[l] = refs[l] + Cardinality(Having(d, l)) - Cardinality(Having(c, l))
  BY <1>2, <1>5, <1>6 DEF Grown
<1>11. /\ refs' \in [Libs -> Int]
       /\ \A l \in Libs : refs'[l] = refs[l] - Cardinality(Slots(heap[i], l))
                                     + Cardinality(Slots(o, l))
  <2>1. refs' \in [Libs -> Int]
    BY <1>2, <1>7 DEF Counts
  <2>2. ASSUME NEW l \in Libs
        PROVE  refs'[l] = refs[l] - Cardinality(Slots(heap[i], l)) + Cardinality(Slots(o, l))
    <3>1. Cardinality(Having(c, l)) \in Nat /\ Cardinality(Having(d, l)) \in Nat
      BY <1>4, <1>7, HavingFinite
    <3>2. refs[l] \in Nat
      BY <1>4
    <3> HIDE DEF c, d, o
    <3> QED BY <1>8, <1>9, <1>10, <3>1, <3>2
  <2> QED BY <2>1, <2>2
<1>12. Convert(i, o)
  BY <1>2 DEF Convert
<1>13. FInv'
  <2> HIDE DEF o
  <2> QED BY <1>3, <1>8, <1>11, <1>12, ConvertStep
<1>14. Extends(c, d)
  BY <1>5, <1>6 DEF Extends, Grown
<1>15. /\ heap'[i] = o /\ o.connectors = d
       /\ \A j \in DOMAIN heap : j # i => heap'[j] = heap[j]
  BY <1>2, <1>3 DEF inventory
<1>16. Bound
  <2> SUFFICES ASSUME NEW j \in held \cap held', heap[j].kind = "inventory"
               PROVE  Extends(heap[j].connectors, heap'[j].connectors)
    BY DEF Bound
  <2>1. CASE j = i
    BY <1>14, <1>15, <2>1
  <2>2. CASE j # i
    <3>1. heap'[j] = heap[j]
      BY <1>15, <2>2, FInvFacts
    <3> QED BY <3>1, HeldInventory, ExtendsSame
  <2> QED BY <2>1, <2>2
<1> QED BY <1>13, <1>16

LEMMA InventoryFreeStep == FInv /\ inventory_free => FInv' /\ Bound
<1> SUFFICES ASSUME FInv, inventory_free PROVE FInv' /\ Bound
  OBVIOUS
<1>1. PICK i \in Of("inventory") :
          refs' = GiveAll(refs, heap[i].connectors) /\ FreeBox(i)
  BY DEF inventory_free
<1>2. /\ i \in DOMAIN heap \cap held /\ heap[i] \in Objects /\ heap[i].kind = "inventory"
  BY OfFacts
<1>3. heap[i].connectors \in Seq(Entry) /\ refs \in Counts
  BY <1>2, ObjectFacts, FInvFacts
<1>4. \A l \in Libs : Slots(heap[i], l) = Having(heap[i].connectors, l)
  BY <1>2, SlotsFacts
<1>5. /\ refs' \in [Libs -> Int]
      /\ \A l \in Libs : refs'[l] = refs[l] - Cardinality(Slots(heap[i], l))
  BY <1>1, <1>3, <1>4, GiveAllFacts DEF Counts
<1> QED BY <1>1, <1>2, <1>5, FreeStep

LEMMA CreateStep == FInv /\ inventory_create_connector => FInv' /\ Bound
<1> SUFFICES ASSUME FInv, inventory_create_connector PROVE FInv' /\ Bound
  OBVIOUS
<1>1. PICK i \in Of("inventory"), name \in Names :
          \/ UNCHANGED <<refs, heap, held>>
          \/ \E c \in find_connector(heap[i].connectors, name) :
                refs' = Take(refs, c.lib) /\ HandOut(owner("memory", c.lib))
  BY DEF inventory_create_connector
<1>2. CASE UNCHANGED <<refs, heap, held>>
  BY <1>2, NothingStep
<1>3. CASE \E c \in find_connector(heap[i].connectors, name) :
              refs' = Take(refs, c.lib) /\ HandOut(owner("memory", c.lib))
  <2>1. PICK c \in find_connector(heap[i].connectors, name) :
              refs' = Take(refs, c.lib) /\ HandOut(owner("memory", c.lib))
    BY <1>3
  <2>2. heap[i].connectors \in Seq(Entry)
    BY OfFacts, ObjectFacts
  <2>3. c \in Entry
    BY <2>2 DEF find_connector
  <2>4. c.lib \in Libs /\ "memory" \in Owners
    BY <2>3 DEF Entry, Owners
  <2> QED BY <2>1, <2>4, OwnerHandedOut
<1> QED BY <1>1, <1>2, <1>3

OwnerKinds == "memory" \in Owners /\ "kernel" \in Owners /\ "process" \in Owners

LEMMA OwnerKindsAre == OwnerKinds
BY DEF OwnerKinds, Owners

LEMMA OwnerHasLib ==
    ASSUME FInv, NEW kind \in Owners, NEW i \in Of(kind)
    PROVE  heap[i].lib \in Libs
BY OfFacts, ObjectFacts

LEMMA CloneStep == FInv /\ (connector_clone \/ kernel_clone \/ process_clone) => FInv' /\ Bound
<1> SUFFICES ASSUME FInv, connector_clone \/ kernel_clone \/ process_clone PROVE FInv' /\ Bound
  OBVIOUS
<1>1. PICK kind, i :
          /\ kind \in Owners /\ i \in Of(kind)
          /\ refs' = Take(refs, heap[i].lib) /\ HandOut(owner(kind, heap[i].lib))
  BY OwnerKindsAre DEF OwnerKinds, connector_clone, kernel_clone, process_clone, clone_box
<1>2. heap[i].lib \in Libs
  BY <1>1, OwnerHasLib
<1> QED BY <1>1, <1>2, OwnerHandedOut

LEMMA OwnerFreeStep ==
    FInv /\ (connector_free \/ kernel_free \/ process_free) => FInv' /\ Bound
<1> SUFFICES ASSUME FInv, connector_free \/ kernel_free \/ process_free PROVE FInv' /\ Bound
  OBVIOUS
<1>1. PICK kind, i :
          /\ kind \in Owners /\ i \in Of(kind)
          /\ refs' = Give(refs, heap[i].lib) /\ FreeBox(i)
  BY OwnerKindsAre DEF OwnerKinds, connector_free, kernel_free, process_free
<1> QED BY <1>1, OwnerFreed

LEMMA BuildStep == FInv /\ kernel_build => FInv' /\ Bound
<1> SUFFICES ASSUME FInv, kernel_build PROVE FInv' /\ Bound
  OBVIOUS
<1>1. PICK i \in Of("memory") :
          \/ refs' = Give(refs, heap[i].lib) /\ FreeBox(i)
          \/ Convert(i, owner("kernel", heap[i].lib)) /\ UNCHANGED refs
  BY DEF kernel_build, kernel_build_fails
<1> QED BY <1>1, OwnerKindsAre, OwnerFreed, OwnerMoved DEF OwnerKinds

LEMMA ConvertSteps ==
    FInv /\ (kernel_destroy \/ kernel_into_process \/ process_with_kernel) => FInv' /\ Bound
<1> SUFFICES ASSUME FInv, kernel_destroy \/ kernel_into_process \/ process_with_kernel
             PROVE  FInv' /\ Bound
  OBVIOUS
<1>1. PICK i \in Of("kernel") :
          \/ refs' = Give(refs, heap[i].lib) /\ FreeBox(i)
          \/ \E kind \in Owners : Convert(i, owner(kind, heap[i].lib)) /\ UNCHANGED refs
  BY OwnerKindsAre DEF OwnerKinds, kernel_destroy, kernel_into_process, process_with_kernel
<1> QED BY <1>1, OwnerKindsAre, OwnerFreed, OwnerMoved DEF OwnerKinds

LEMMA InfoStep ==
    FInv /\ (kernel_process_info \/ process_module_info \/ os_process_info_arch) => FInv' /\ Bound
<1> SUFFICES ASSUME FInv, kernel_process_info \/ process_module_info \/ os_process_info_arch
             PROVE  FInv' /\ Bound
  OBVIOUS
<1>1. /\ UNCHANGED refs
      /\ UNCHANGED <<heap, held>> \/ \E kind \in Plains : HandOut(plain(kind))
  BY DEF kernel_process_info, process_module_info, os_process_info_arch, Plains
<1>2. CASE UNCHANGED <<heap, held>>
  BY <1>1, <1>2, NothingStep
<1>3. CASE \E kind \in Plains : HandOut(plain(kind))
  BY <1>1, <1>3, BareIs, BareHandedOut
<1> QED BY <1>1, <1>2, <1>3

LEMMA ViewStep ==
    FInv /\ (downcast_cloneable \/ process_virt_mem \/ process_info_trait \/ module_info_trait)
      => FInv' /\ Bound
<1> SUFFICES ASSUME FInv, \/ downcast_cloneable \/ process_virt_mem
                          \/ process_info_trait \/ module_info_trait
             PROVE  FInv' /\ Bound
  OBVIOUS
<1>1. UNCHANGED refs
  BY DEF downcast_cloneable, process_virt_mem, process_info_trait, module_info_trait
<1>2. PICK kind, other, i :
          kind \in Views /\ i \in Of(other) /\ HandOut(view(kind, i))
  BY DEF downcast_cloneable, process_virt_mem, process_info_trait, module_info_trait, Views
<1>3. i \in Ids
  BY <1>2, OfFacts
<1> QED BY <1>1, <1>2, <1>3, BareIs, BareHandedOut

LEMMA BareFreeStep == FInv /\ (info_free \/ arch_free \/ view_free) => FInv' /\ Bound
<1> SUFFICES ASSUME FInv, info_free \/ arch_free \/ view_free PROVE FInv' /\ Bound
  OBVIOUS
<1>1. UNCHANGED refs
  BY DEF info_free, arch_free, view_free
<1>2. PICK kind, i : kind \in Plains \cup Views /\ i \in Of(kind) /\ FreeBox(i)
  BY DEF info_free, arch_free, view_free, Plains
<1>3. kind \notin Owners \cup {"inventory"}
  BY <1>2 DEF Plains, Views, Owners
<1> QED BY <1>1, <1>2, <1>3, BareFreed

LEMMA ListSteps ==
    FInv /\ (kernel_process_info_list \/ process_module_list) => FInv' /\ Bound
BY ListStep DEF kernel_process_info_list, process_module_list

LEMMA FNextStep == FInv /\ FNext => FInv' /\ Bound
BY ScanStep, ScanPathStep, AddDirStep, InventoryFreeStep, CreateStep, CloneStep, OwnerFreeStep,
   BuildStep, ConvertSteps, InfoStep, ViewStep, BareFreeStep, ListSteps
   DEF FNext

LEMMA FStep == FInv /\ [FNext]_fvars => FInv' /\ Bound
<1>1. FInv /\ UNCHANGED fvars => FInv' /\ Bound
  BY NothingStep DEF fvars
<1> QED BY <1>1, FNextStep

LEMMA FInitially == FInit => FInv
<1> SUFFICES ASSUME FInit PROVE FInv
  OBVIOUS
<1>1. /\ refs = [l \in Libs |-> 0] /\ DOMAIN heap = {} /\ held = {}
  BY DEF FInit
<1>2. \A l \in Libs : Holders(heap, l) = {}
  <2> SUFFICES ASSUME NEW l \in Libs, NEW x \in Holders(heap, l) PROVE FALSE
    OBVIOUS
  <2>1. x[2] \in Slots(Empty, l)
    BY <1>1 DEF Holders, Box
  <2>2. Empty.kind \notin Owners \cup {"inventory"}
    BY DEF Empty, plain, Owners
  <2>3. Slots(Empty, l) = {}
    BY <2>2, EmptyIsObject, SlotsFacts
  <2> QED BY <2>1, <2>3
<1>3. CountedIn(refs, heap)
  <2>1. \A l \in Libs : IsFiniteSet(Holders(heap, l)) /\ Cardinality(Holders(heap, l)) = 0
    BY <1>2, FS_EmptySet
  <2> QED BY <1>1, <2>1 DEF CountedIn
<1> QED BY <1>1, <1>3 DEF FInv, StateOK

----------------------------------------------------------------------------
(* What the invariant says *)

(* Who holds a reference is counted. *)
LEMMA HolderCounts ==
    ASSUME FInv, NEW l \in Libs, NEW i \in DOMAIN heap, NEW k \in Nat, k \in Slots(heap[i], l)
    PROVE  refs[l] > 0
<1>1. i \in Ids /\ Box(heap, i) = heap[i]
  BY FInvFacts DEF Box
<1>2. <<i, k>> \in Holders(heap, l)
  BY <1>1 DEF Holders
<1>3. IsFiniteSet(Holders(heap, l)) /\ refs[l] = Cardinality(Holders(heap, l)) /\ refs[l] \in Nat
  BY FInvFacts DEF FInv, StateOK, CountedIn
<1>4. Cardinality(Holders(heap, l)) # 0
  BY <1>2, <1>3, FS_EmptySet
<1> QED BY <1>3, <1>4

LEMMA MappedFromInv == FInv => MappedWhileUsed
<1> SUFFICES ASSUME FInv, NEW i \in DOMAIN heap
             PROVE  /\ heap[i].kind \in Owners => refs[heap[i].lib] > 0
                    /\ heap[i].kind = "inventory" =>
                         \A k \in DOMAIN heap[i].connectors : refs[heap[i].connectors[k].lib] > 0
  BY DEF MappedWhileUsed
<1>1. heap[i] \in Objects
  BY FInvFacts
<1>2. ASSUME heap[i].kind \in Owners PROVE refs[heap[i].lib] > 0
  <2>1. heap[i].lib \in Libs
    BY <1>1, <1>2, ObjectFacts
  <2>2. 0 \in Slots(heap[i], heap[i].lib)
    BY <1>2 DEF Slots
  <2> QED BY <2>1, <2>2, HolderCounts
<1>3. ASSUME heap[i].kind = "inventory", NEW k \in DOMAIN heap[i].connectors
      PROVE  refs[heap[i].connectors[k].lib] > 0
  <2>1. heap[i].connectors \in Seq(Entry)
    BY <1>1, <1>3, ObjectFacts
  <2>2. heap[i].connectors[k].lib \in Libs /\ k \in Nat
    <3> DEFINE c == heap[i].connectors
    <3>1. c \in Seq(Entry) /\ k \in DOMAIN c
      BY <1>3, <2>1
    <3> HIDE DEF c
    <3>2. c[k] \in Entry /\ k \in Nat
      BY <3>1
    <3> QED BY <3>2 DEF c, Entry
  <2>3. k \in Slots(heap[i], heap[i].connectors[k].lib)
    BY <1>1, <1>3, SlotsFacts DEF Having
  <2> QED BY <2>2, <2>3, HolderCounts
<1> QED BY <1>2, <1>3

LEMMA UnmappedFromInv == FInv => UnmappedWhenFreed
<1> SUFFICES ASSUME FInv, held = {}, NEW l \in Libs PROVE refs[l] = 0
  BY DEF UnmappedWhenFreed
<1>1. refs[l] = Cardinality(Holders(heap, l))
  BY DEF FInv, StateOK, CountedIn
<1>2. \A i \in DOMAIN heap : heap[i].kind \in {"process_info", "module_info"}
  BY DEF FInv, StateOK
<1>3. Holders(heap, l) = {}
  <2> SUFFICES ASSUME NEW x \in Holders(heap, l) PROVE FALSE
    OBVIOUS
  <2> DEFINE o == Box(heap, x[1])
  <2>1. x[2] \in Slots(o, l)
    BY DEF Holders
  <2>2. o \in Objects /\ o.kind \in Plains
    <3>1. CASE x[1] \in DOMAIN heap
      BY <1>2, <3>1, FInvFacts DEF Box, Plains
    <3>2. CASE x[1] \notin DOMAIN heap
      BY <3>2, EmptyIsObject DEF Box, Empty, plain, Plains
    <3> QED BY <3>1, <3>2
  <2>3. o.kind \notin Owners \cup {"inventory"}
    BY <2>2 DEF Plains, Owners
  <2> HIDE DEF o
  <2>4. Slots(o, l) = {}
    BY <2>2, <2>3, SlotsFacts
  <2> QED BY <2>1, <2>4
<1> QED BY <1>1, <1>3, FS_EmptySet

LEMMA LostFromInv == FInv => LostOnlyFromLists
BY DEF FInv, StateOK, LostOnlyFromLists

(* A name that is found in an inventory is found in an extension of it,    *)
(* in the same entry.                                                      *)
LEMMA FoundAgain ==
    ASSUME NEW c \in Seq(Entry), NEW d \in Seq(Entry), Extends(c, d), NEW name,
           find_connector(c, name) # {}
    PROVE  find_connector(d, name) = find_connector(c, name)
<1> DEFINE First(s) == {j \in DOMAIN s : s[j].name = name /\ \A k \in 1..(j - 1) : s[k].name # name}
<1>1. /\ find_connector(c, name) = {c[i] : i \in First(c)}
      /\ find_connector(d, name) = {d[i] : i \in First(d)}
  BY DEF find_connector
<1>2. PICK i \in First(c) : TRUE
  BY <1>1
<1>3. /\ Len(c) \in Nat /\ Len(d) \in Nat /\ DOMAIN c = 1..Len(c) /\ DOMAIN d = 1..Len(d)
      /\ Len(c) <= Len(d) /\ \A k \in 1..Len(c) : d[k] = c[k]
  BY DEF Extends
<1>4. i \in 1..Len(c) /\ c[i].name = name /\ \A k \in 1..(i - 1) : c[k].name # name
  BY <1>2, <1>3
<1>5. \A j \in First(c) : j = i
  BY <1>3, <1>4
<1>6. i \in First(d)
  BY <1>3, <1>4
<1>7. \A j \in First(d) : j = i
  <2> SUFFICES ASSUME NEW j \in First(d) PROVE j = i
    OBVIOUS
  <2>1. j \in 1..Len(d) /\ d[j].name = name /\ \A k \in 1..(j - 1) : d[k].name # name
    BY <1>3
  <2>2. ~(i < j)
    BY <1>3, <1>4, <2>1
  <2>3. ~(j < i)
    BY <1>3, <1>4, <2>1
  <2> QED BY <1>3, <1>4, <2>1, <2>2, <2>3
<1>8. First(c) = {i} /\ First(d) = {i} /\ d[i] = c[i]
  BY <1>2, <1>3, <1>4, <1>5, <1>6, <1>7
<1> HIDE DEF First
<1> QED BY <1>1, <1>8

LEMMA NamesFromInv ==
    ASSUME FInv, FInv', Bound
    PROVE  \A i \in held \cap held' :
             (heap[i].kind = "inventory" /\ heap'[i].kind = "inventory") =>
               \A name \in Names :
                 LET now == find_connector(heap[i].connectors, name)
                 IN now # {} => find_connector(heap'[i].connectors, name) = now
<1> SUFFICES ASSUME NEW i \in held \cap held',
                    heap[i].kind = "inventory", heap'[i].kind = "inventory", NEW name \in Names,
                    find_connector(heap[i].connectors, name) # {}
             PROVE  find_connector(heap'[i].connectors, name)
                      = find_connector(heap[i].connectors, name)
  OBVIOUS
<1>1. heap[i].connectors \in Seq(Entry)
  BY HeldInventory
<1>2. heap'[i].connectors \in Seq(Entry)
  <2>1. held' \subseteq DOMAIN heap' /\ \A j \in DOMAIN heap' : heap'[j] \in Objects
    BY DEF FInv, StateOK
  <2> QED BY <2>1, ObjectFacts
<1>3. Extends(heap[i].connectors, heap'[i].connectors)
  BY DEF Bound
<1> QED BY <1>1, <1>2, <1>3, FoundAgain

----------------------------------------------------------------------------
(* For every set of directories and any number of boxes, the references of *)
(* a library are as many as the objects that need it (FInv): it is mapped  *)
(* as long as a connector, a kernel, a process or an inventory's entry     *)
(* uses it, through every clone, move and failed call.                     *)
THEOREM LibrariesStayMapped == FSpec => []MappedWhileUsed
<1>1. FInit => FInv
  BY FInitially
<1>2. FInv /\ [FNext]_fvars => FInv'
  BY FStep
<1> QED BY <1>1, <1>2, MappedFromInv, PTL DEF FSpec

(* A client that has freed what it was given has no library mapped ...     *)
THEOREM NothingIsLeft == FSpec => []UnmappedWhenFreed
<1>1. FInit => FInv
  BY FInitially
<1>2. FInv /\ [FNext]_fvars => FInv'
  BY FStep
<1> QED BY <1>1, <1>2, UnmappedFromInv, PTL DEF FSpec

(* ... and only elements of lists that failed are lost to it.              *)
THEOREM OnlyListsLose == FSpec => []LostOnlyFromLists
<1>1. FInit => FInv
  BY FInitially
<1>2. FInv /\ [FNext]_fvars => FInv'
  BY FStep
<1> QED BY <1>1, <1>2, LostFromInv, PTL DEF FSpec

(* A name that an inventory knows stays bound to the library it was first  *)
(* found in, whatever is added later.                                      *)
THEOREM NamesAreBound == FSpec => NamesStayBound
<1> DEFINE A == \A i \in held \cap held' :
                  (heap[i].kind = "inventory" /\ heap'[i].kind = "inventory") =>
                    \A name \in Names :
                      LET now == find_connector(heap[i].connectors, name)
                      IN now # {} => find_connector(heap'[i].connectors, name) = now
<1>1. FInit => FInv
  BY FInitially
<1>2. FInv /\ [FNext]_fvars => FInv'
  BY FStep
<1>3. FInv /\ FInv' /\ [FNext]_fvars => [A]_fvars
  BY FStep, NamesFromInv
<1> HIDE DEF A
<1>4. FSpec => [][A]_fvars
  BY <1>1, <1>2, <1>3, PTL DEF FSpec
<1> QED BY <1>4 DEF A, NamesStayBound

----------------------------------------------------------------------------
(* The process that is asked for *)

(* The places that SelectInSeq and SelectLastInSeq pick. *)
LEMMA PickedFirst ==
    ASSUME NEW n \in Nat, NEW I, I = {} \/ I # {}, I \subseteq 1..n
    PROVE  /\ I = {} => (IF I # {} THEN Min(I) ELSE 0) = 0
           /\ I # {} => (IF I # {} THEN Min(I) ELSE 0) \in I
<1>1. I \in SUBSET Nat
  OBVIOUS
<1> QED BY <1>1, Smallest DEF Min

LEMMA PickedLast ==
    ASSUME NEW n \in Nat, NEW I, I \subseteq 1..n
    PROVE  /\ I = {} => (IF I # {} THEN Max(I) ELSE 0) = 0
           /\ I # {} => /\ (IF I # {} THEN Max(I) ELSE 0) \in I
                        /\ \A i \in I : i <= (IF I # {} THEN Max(I) ELSE 0)
<1>1. I # {} => \E x \in I : \A y \in I : x >= y
  BY Largest
<1> QED BY <1>1 DEF Max

(* args_get finds the value of the last argument with the key, or the bare *)
(* first one for the default.                                              *)
Keyed(args, key) == {i \in 1..Len(args) : Len(args[i]) = 2 /\ args[i][1] = key}

LEMMA ArgsGet ==
    ASSUME NEW args, IsOptions(args), NEW key
    PROVE  LET I    == Keyed(args, key)
               bare == args # <<>> /\ Len(args[1]) # 2 /\ args[1] # <<"">> /\ key = "default"
           IN  /\ I # {} => \E i \in I : /\ \A j \in I : j <= i
                                         /\ args_get(args, key) = args[i][2]
               /\ I = {} => args_get(args, key) = IF bare THEN args[1][1] ELSE NoArg
<1> DEFINE I == Keyed(args, key)
           bare == args # <<>> /\ Len(args[1]) # 2 /\ args[1] # <<"">> /\ key = "default"
           j == IF I # {} THEN Max(I) ELSE 0
<1>1. Len(args) \in Nat /\ I \subseteq 1..Len(args)
  BY DEF IsOptions, Keyed
<1>2. args_get(args, key) = IF j # 0 THEN args[j][2] ELSE IF bare THEN args[1][1] ELSE NoArg
  BY DEF args_get, SelectLastInSeq, Keyed
<1> HIDE DEF I, bare
<1>3. /\ I = {} => j = 0
      /\ I # {} => j \in I /\ \A i \in I : i <= j
  BY <1>1, PickedLast
<1>4. \A i \in I : i # 0
  BY <1>1
<1> HIDE DEF j
<1>5. I # {} => \E i \in I : (\A k \in I : k <= i) /\ args_get(args, key) = args[i][2]
  BY <1>2, <1>3, <1>4
<1>6. I = {} => args_get(args, key) = IF bare THEN args[1][1] ELSE NoArg
  BY <1>2, <1>3
<1> QED BY <1>5, <1>6 DEF I, bare

LEMMA ArgsGetLast ==
    ASSUME NEW args, IsOptions(args), NEW key, Keyed(args, key) # {}
    PROVE  \E i \in Keyed(args, key) :
              (\A j \in Keyed(args, key) : j <= i) /\ args_get(args, key) = args[i][2]
BY ArgsGet

(* Sequences of one and of two elements. *)
LEMMA One ==
    ASSUME NEW S, NEW s \in Seq(S), Len(s) = 1, NEW v, s[1] = v
    PROVE  s = <<v>>
<1>1. <<v>> \in Seq({v} \cup S) /\ s \in Seq({v} \cup S) /\ Len(<<v>>) = 1
  OBVIOUS
<1>2. \A i \in 1..Len(s) : s[i] = <<v>>[i]
  OBVIOUS
<1> QED BY <1>1, <1>2, SeqEqual

LEMMA Two ==
    ASSUME NEW S, NEW s \in Seq(S), Len(s) = 2, NEW v, NEW k, s[1] = k, s[2] = v
    PROVE  s = <<k, v>>
<1>1. <<k, v>> \in Seq({k, v} \cup S) /\ s \in Seq({k, v} \cup S) /\ Len(<<k, v>>) = 2
  OBVIOUS
<1>2. \A i \in 1..Len(s) : s[i] = <<k, v>>[i]
  <2> SUFFICES ASSUME NEW i \in 1..Len(s) PROVE s[i] = <<k, v>>[i]
    OBVIOUS
  <2>1. i = 1 \/ i = 2
    OBVIOUS
  <2> QED BY <2>1
<1> QED BY <1>1, <1>2, SeqEqual

(* An option that is found has this value: it is written with its name, or *)
(* it is all of the first option.                                          *)
LEMMA OptionFound ==
    ASSUME NEW opts, IsOptions(opts), NEW key, NEW v \in STRING,
           qemu_arg_opt(opts, key) = v
    PROVE  \/ <<key, v>> \in ToSet(opts)
           \/ \E i \in {1} \cap DOMAIN opts : opts[i] = <<v>>
<1> DEFINE I == {i \in 1..Len(opts) : Len(opts[i]) = 2 /\ opts[i][1] = key}
           j == IF I # {} THEN Min(I) ELSE 0
<1>1. /\ opts \in Seq(Seq(STRING)) /\ Len(opts) \in Nat /\ DOMAIN opts = 1..Len(opts)
      /\ \A i \in 1..Len(opts) : opts[i] \in Seq(STRING) /\ Len(opts[i]) \in {1, 2}
  BY DEF IsOptions
<1>2. v = IF opts # <<>> /\ Len(opts[1]) # 2 THEN opts[1][1]
          ELSE IF j # 0 THEN opts[j][2] ELSE NoArg
  BY DEF qemu_arg_opt, SelectInSeq
<1>3. I \subseteq 1..Len(opts)
  OBVIOUS
<1>4. (I = {} => j = 0) /\ (I # {} => j \in I)
  <2> HIDE DEF I
  <2> QED BY <1>1, <1>3, PickedFirst
<1>5. CASE opts # <<>> /\ Len(opts[1]) # 2
  <2>1. 1 \in DOMAIN opts
    BY <1>1, <1>5
  <2>2. opts[1] \in Seq(STRING) /\ Len(opts[1]) = 1 /\ opts[1][1] = v
    <3> HIDE DEF j
    <3> QED BY <1>1, <1>2, <1>5, <2>1
  <2>3. opts[1] = <<v>>
    BY ONLY <2>2, One
  <2> QED BY <2>1, <2>3
<1>6. CASE ~(opts # <<>> /\ Len(opts[1]) # 2)
  <2>1. j # 0 /\ v = opts[j][2]
    <3> HIDE DEF j
    <3> QED BY <1>2, <1>6, ArgumentsAssumption
  <2>2. j \in I
    <3> HIDE DEF I
    <3> QED BY <1>4, <2>1
  <2>3. PICK i \in 1..Len(opts) : Len(opts[i]) = 2 /\ opts[i][1] = key /\ opts[i][2] = v
    <3> HIDE DEF j
    <3> QED BY <2>1, <2>2
  <2>4. opts[i] \in Seq(STRING)
    BY <1>1
  <2>5. opts[i] = <<key, v>>
    <3> DEFINE o == opts[i]
    <3>1. o \in Seq(STRING) /\ Len(o) = 2 /\ o[1] = key /\ o[2] = v
      BY ONLY <2>3, <2>4
    <3> HIDE DEF o
    <3>2. o = <<key, v>>
      BY ONLY <3>1, Two
    <3> QED BY <3>2 DEF o
  <2>6. <<key, v>> \in ToSet(opts)
    BY <1>1, <2>5 DEF ToSet
  <2> QED BY <2>6
<1> QED BY <1>5, <1>6

(* create_connector has opened what was asked for. *)
QemuOpened(c) ==
    /\ IsOptions(c.asked) /\ IsOptions(c.process.name)
    /\ c.process.qemu /\ c.process.size \in Nat /\ c.process.size >= mb1
    /\ wanted(c.asked) # NoArg => guest_name(c.process) = wanted(c.asked)
    /\ c.map = with_process(c.process)

LEMMA OpenQemuFinds ==
    ASSUME OpenQemu
    PROVE  /\ connector'.kind = "qemu" /\ QemuOpened(connector')
           /\ host' = Bytes(connector'.process.size) /\ connector = Closed
           /\ UNCHANGED <<transfer, faults>>
<1>1. PICK procs \in Processes, args \in Arguments :
          /\ found_process(procs, wanted(args)) # 0
          /\ Opened("qemu", with_process(procs[found_process(procs, wanted(args))]),
                    procs[found_process(procs, wanted(args))].size, args,
                    procs[found_process(procs, wanted(args))])
  BY DEF OpenQemu
<1> DEFINE name == wanted(args)
           I    == {i \in 1..Len(procs) : procs[i].qemu /\ (name # NoArg => guest_name(procs[i]) = name)}
           j    == found_process(procs, name)
<1>2. Len(procs) \in Nat /\ DOMAIN procs = 1..Len(procs)
  BY ProcessesAssumption
<1>3. j = IF I # {} THEN Min(I) ELSE 0
  BY DEF found_process, SelectInSeq
<1>4. I \subseteq 1..Len(procs)
  OBVIOUS
<1>5. j \in I
  <2> HIDE DEF I, j
  <2> QED BY <1>1, <1>2, <1>3, <1>4, PickedFirst DEF j
<1> DEFINE p == procs[j]
<1>6. /\ p.qemu /\ (name # NoArg => guest_name(p) = name)
      /\ IsOptions(p.name) /\ p.size \in Nat /\ p.size >= mb1
  <2>1. j \in 1..Len(procs) /\ p.qemu /\ (name # NoArg => guest_name(p) = name)
    <3> HIDE DEF j
    <3> QED BY <1>5
  <2>2. p \in [qemu : BOOLEAN, name : Seq(Seq(STRING)), machine : Seq(Seq(STRING)), size : Nat]
    <3> DEFINE R == [qemu : BOOLEAN, name : Seq(Seq(STRING)),
                     machine : Seq(Seq(STRING)), size : Nat]
    <3>1. procs \in Seq(R)
      BY ProcessesAssumption
    <3> HIDE DEF j, R
    <3>2. procs[j] \in R
      BY <1>2, <2>1, <3>1
    <3> QED BY <3>2 DEF R
  <2>3. IsOptions(p.name) /\ (p.qemu => p.size >= mb1)
    <3> HIDE DEF j
    <3> QED BY <1>2, <2>1, ProcessesAssumption
  <2> HIDE DEF p
  <2> QED BY <2>1, <2>2, <2>3
<1>7. IsOptions(args)
  BY ArgumentsAssumption
<1>8. connector' = [kind |-> "qemu", map |-> with_process(p), asked |-> args, process |-> p]
      /\ host' = Bytes(p.size) /\ UNCHANGED <<transfer, faults>> /\ connector = Closed
  BY <1>1 DEF Opened, OpenQemu
<1> HIDE DEF p
<1> QED BY <1>6, <1>7, <1>8 DEF QemuOpened

(* Then it is the one that the arguments name. *)
LEMMA NamedIsOpened ==
    ASSUME connector.kind = "qemu", QemuOpened(connector)
    PROVE  OpenedTheNamed
<1> DEFINE args  == connector.asked
           of(k) == {i \in DOMAIN args : args[i][1] = k /\ Len(args[i]) = 2}
           bare  == {i \in {1} \cap DOMAIN args : Len(args[i]) = 1 /\ args[i] # <<"">>}
           last(S) == CHOOSE i \in S : \A j \in S : j <= i
           named(n) == \/ <<"guest", n>> \in ToSet(connector.process.name)
                       \/ \E i \in {1} \cap DOMAIN connector.process.name :
                              connector.process.name[i] = <<n>>
           value(S) == Last(args[last(S)])
<1>1. /\ IsOptions(args) /\ args \in Seq(Seq(STRING)) /\ DOMAIN args = 1..Len(args) /\ Len(args) \in Nat
      /\ \A i \in 1..Len(args) : args[i] \in Seq(STRING) /\ Len(args[i]) \in {1, 2}
  BY DEF QemuOpened, IsOptions
<1>2. \A k : of(k) = Keyed(args, k)
  BY <1>1 DEF Keyed
<1>3. ASSUME NEW v \in STRING, wanted(args) = v
      PROVE  named(v)
  <2>1. guest_name(connector.process) = v /\ IsOptions(connector.process.name)
    BY <1>3, ArgumentsAssumption DEF QemuOpened
  <2>2. qemu_arg_opt(connector.process.name, "guest") = v
    BY <2>1, Zenon DEF guest_name
  <2> QED BY ONLY <1>3, <2>1, <2>2, OptionFound
<1>4. ASSUME NEW S, NEW i \in S, \A j \in S : j <= i, S \subseteq 1..Len(args)
      PROVE  last(S) = i
  <2>1. last(S) \in S /\ \A j \in S : j <= last(S)
    BY <1>4
  <2> HIDE DEF last
  <2>2. last(S) \in 1..Len(args) /\ i \in 1..Len(args) /\ i <= last(S) /\ last(S) <= i
    BY <1>4, <2>1
  <2> QED BY <2>2, <1>1
<1>5. ASSUME of("name") # {}
      PROVE  named(value(of("name")))
  <2>1. PICK i \in Keyed(args, "name") :
            (\A j \in Keyed(args, "name") : j <= i) /\ args_get(args, "name") = args[i][2]
    <3>1. Keyed(args, "name") # {}
      BY <1>2, <1>5
    <3> QED BY ONLY <1>1, <3>1, ArgsGetLast
  <2>2. Keyed(args, "name") \subseteq 1..Len(args)
    BY DEF Keyed
  <2>3. last(of("name")) = i
    <3> HIDE DEF last, of
    <3> QED BY <1>2, <1>4, <2>1, <2>2
  <2>4. args[i] \in Seq(STRING) /\ Len(args[i]) = 2
    BY <1>1, <2>1 DEF Keyed
  <2>5. Last(args[i]) = args[i][2] /\ args[i][2] \in STRING
    BY <2>4 DEF Last
  <2>6. wanted(args) = args[i][2]
    BY <2>1, <2>5, ArgumentsAssumption DEF wanted
  <2> HIDE DEF named, last, of
  <2> QED BY <1>3, <2>3, <2>5, <2>6
<1>6. ASSUME of("name") = {}, of("default") \cup bare # {}
      PROVE  named(value(of("default") \cup bare))
  <2>1. args_get(args, "name") = NoArg
    <3>1. Keyed(args, "name") = {} /\ "name" # "default"
      BY <1>2, <1>6
    <3> QED BY <1>1, <3>1, ArgsGet
  <2>2. wanted(args) = args_get(args, "default")
    BY <2>1 DEF wanted
  <2>3. CASE of("default") # {}
    <3>1. PICK i \in Keyed(args, "default") :
              (\A j \in Keyed(args, "default") : j <= i) /\ args_get(args, "default") = args[i][2]
      <4>1. Keyed(args, "default") # {}
        BY <1>2, <2>3
      <4> QED BY ONLY <1>1, <4>1, ArgsGetLast
    <3>2. i \in 1..Len(args) /\ args[i] \in Seq(STRING) /\ Len(args[i]) = 2
      BY <1>1, <3>1 DEF Keyed
    <3>3. \A j \in bare : j <= i /\ j \in 1..Len(args)
      <4>1. \A j \in bare : j = 1
        OBVIOUS
      <4> HIDE DEF bare
      <4>2. 1 <= i /\ 1 \in 1..Len(args)
        BY ONLY <1>1, <3>2
      <4> QED BY ONLY <4>1, <4>2
    <3>4. Keyed(args, "default") \subseteq 1..Len(args)
      BY DEF Keyed
    <3>5. last(of("default") \cup bare) = i
      <4> HIDE DEF last, of, bare
      <4> QED BY <1>2, <1>4, <3>1, <3>3, <3>4
    <3>6. Last(args[i]) = args[i][2] /\ args[i][2] \in STRING
      BY <3>2 DEF Last
    <3> HIDE DEF named, last, of, bare
    <3> QED BY <1>3, <2>2, <3>1, <3>5, <3>6
  <2>4. CASE of("default") = {}
    <3>1. bare = {1} /\ 1 \in 1..Len(args) /\ Len(args[1]) = 1
      <4> HIDE DEF of
      <4> QED BY <1>1, <1>6, <2>4
    <3>7. args[1] # <<"">>
      BY <3>1, Zenon
    <3>2. args # <<>> /\ Len(args[1]) # 2
      <4> HIDE DEF bare
      <4> QED BY ONLY <1>1, <3>1
    <3>3. Keyed(args, "default") = {}
      BY <1>2, <2>4
    <3>4. args_get(args, "default") = args[1][1]
      <4> HIDE DEF bare, of
      <4> QED BY ONLY <1>1, <3>7, <3>2, <3>3, ArgsGet
    <3>5. last(of("default") \cup bare) = 1
      <4>1. of("default") \cup bare = {1}
        BY <2>4, <3>1
      <4> DEFINE S == of("default") \cup bare
      <4>2. 1 \in S /\ (\A j \in S : j <= 1) /\ S \subseteq 1..Len(args)
        <5> HIDE DEF S, bare, of
        <5>1. S = {1}
          BY ONLY <4>1 DEF S
        <5> QED BY ONLY <3>1, <5>1
      <4> HIDE DEF last, of, bare, S
      <4>3. last(S) = 1
        BY ONLY <1>4, <4>2
      <4> QED BY <4>3 DEF S
    <3>6. args[1] \in Seq(STRING) /\ Last(args[1]) = args[1][1] /\ args[1][1] \in STRING
      <4> DEFINE o == args[1]
      <4>1. o \in Seq(STRING) /\ Len(o) = 1
        BY ONLY <1>1, <3>1
      <4> HIDE DEF o, bare
      <4>2. Last(o) = o[1] /\ o[1] \in STRING
        BY ONLY <4>1 DEF Last
      <4> QED BY <4>1, <4>2 DEF o
    <3> HIDE DEF named, last, of, bare
    <3> QED BY <1>3, <2>2, <3>4, <3>5, <3>6
  <2> QED BY <2>3, <2>4
<1>7. connector.process.qemu
  BY DEF QemuOpened
<1> QED BY <1>5, <1>6, <1>7 DEF OpenedTheNamed

----------------------------------------------------------------------------
(* The maps of connectors *)

(* A map is sorted, its mappings have no byte in common and end before e.  *)
IsMap(map) ==
    /\ map \in Seq(Mapping)
    /\ \A i, j \in 1..Len(map) : i < j => map[i].base + map[i].len <= map[j].base

LEMMA Regrouped ==
    ASSUME NEW x \in Seq(Mapping), NEW y \in Seq(Mapping), NEW z \in Seq(Mapping)
    PROVE  x \o (y \o z) = (x \o y) \o z
OBVIOUS

EndsBefore(map, e) == \A i \in 1..Len(map) : map[i].base + map[i].len <= e

Ranges(base, end, real) ==
    IF end > base THEN {[base |-> base, len |-> end - base, real |-> real]} ELSE {}

LEMMA MappingsOfMap ==
    ASSUME NEW map, IsMap(map), NEW i \in 1..Len(map)
    PROVE  /\ map[i] \in Mapping
           /\ map[i].base \in Nat /\ map[i].len \in Nat /\ map[i].len > 0 /\ map[i].real \in Nat
<1>1. map[i] \in Mapping
  BY DEF IsMap
<1>2. \A m \in Mapping : /\ m.base \in Nat /\ m.len \in Nat /\ m.len > 0 /\ m.real \in Nat
  BY DEF Mapping
<1> QED BY <1>1, <1>2

LEMMA EndsLater ==
    ASSUME NEW map, IsMap(map), NEW d \in Nat, NEW e \in Nat, EndsBefore(map, d), d <= e
    PROVE  EndsBefore(map, e)
<1> SUFFICES ASSUME NEW i \in 1..Len(map) PROVE map[i].base + map[i].len <= e
  BY DEF EndsBefore
<1>1. map[i].base + map[i].len <= d
  BY DEF EndsBefore
<1> QED BY <1>1, MappingsOfMap

LEMMA RangeAlone ==
    ASSUME NEW base \in Nat, NEW end \in Nat, NEW real \in Nat
    PROVE  push_range(base, end, real) \in Seq(Mapping)
<1> DEFINE m == [base |-> base, len |-> end - base, real |-> real]
<1>1. CASE end > base
  <2>1. end - base \in Nat \ {0}
    BY <1>1
  <2>2. m \in Mapping
    BY <2>1 DEF Mapping
  <2>3. push_range(base, end, real) = <<m>>
    BY <1>1 DEF push_range
  <2> HIDE DEF m
  <2> QED BY <2>2, <2>3
<1>2. CASE ~(end > base)
  BY <1>2 DEF push_range
<1> QED BY <1>1, <1>2

(* A range behind a map. *)
Fits(map, base, end, real, e) ==
    /\ IsMap(map) /\ EndsBefore(map, base)
    /\ base \in Nat /\ end \in Nat /\ real \in Nat /\ e \in Nat /\ base <= e /\ end <= e

LEMMA PushRange ==
    ASSUME NEW map, NEW base, NEW end, NEW real, NEW e, Fits(map, base, end, real, e)
    PROVE  /\ IsMap(map \o push_range(base, end, real))
           /\ EndsBefore(map \o push_range(base, end, real), e)
           /\ ToSet(map \o push_range(base, end, real)) = ToSet(map) \cup Ranges(base, end, real)
<1> DEFINE m == [base |-> base, len |-> end - base, real |-> real]
<1>0. /\ IsMap(map) /\ EndsBefore(map, base)
      /\ base \in Nat /\ end \in Nat /\ real \in Nat /\ e \in Nat /\ base <= e /\ end <= e
  BY DEF Fits
<1> USE <1>0
<1>1. map \in Seq(Mapping) /\ Len(map) \in Nat /\ DOMAIN map = 1..Len(map)
  BY DEF IsMap
<1>2. \A i \in 1..Len(map) : map[i].base \in Nat /\ map[i].len \in Nat
  BY MappingsOfMap
<1>3. CASE end > base
  <2> DEFINE t == map \o <<m>>
  <2>1. m \in Mapping /\ m.base = base /\ m.base + m.len <= e
    <3>1. end - base \in Nat \ {0} /\ base + (end - base) = end
      BY <1>3
    <3> QED BY <3>1 DEF Mapping
  <2>2. map \o push_range(base, end, real) = t /\ Ranges(base, end, real) = {m}
    BY <1>3 DEF push_range, Ranges
  <2> HIDE DEF m
  <2>3. /\ t \in Seq(Mapping) /\ Len(t) = Len(map) + 1 /\ DOMAIN t = 1..Len(t)
        /\ \A i \in 1..Len(map) : t[i] = map[i]
        /\ t[Len(map) + 1] = m
    BY <1>1, <2>1
  <2> HIDE DEF t
  <2>4. \A i \in 1..Len(t) : i \in 1..Len(map) \/ i = Len(map) + 1
    BY <1>1, <2>3
  <2>5. EndsBefore(t, e)
    <3> SUFFICES ASSUME NEW i \in 1..Len(t) PROVE t[i].base + t[i].len <= e
      BY DEF EndsBefore
    <3>1. CASE i \in 1..Len(map)
      <4>1. map[i].base + map[i].len <= base
        BY <3>1 DEF EndsBefore
      <4> QED BY <1>2, <2>3, <3>1, <4>1
    <3> QED BY <2>1, <2>3, <2>4, <3>1
  <2>6. IsMap(t)
    <3> SUFFICES ASSUME NEW i \in 1..Len(t), NEW j \in 1..Len(t), i < j
                 PROVE  t[i].base + t[i].len <= t[j].base
      BY <2>3 DEF IsMap
    <3>1. i \in 1..Len(map) /\ t[i] = map[i]
      BY <1>1, <2>3
    <3>2. CASE j \in 1..Len(map)
      BY <2>3, <3>1, <3>2 DEF IsMap
    <3>3. CASE j = Len(map) + 1
      <4>1. map[i].base + map[i].len <= base
        BY <3>1 DEF EndsBefore
      <4> QED BY <2>1, <2>3, <3>1, <3>3, <4>1
    <3> QED BY <2>4, <3>2, <3>3
  <2>7. ToSet(t) = ToSet(map) \cup {m}
    <3>1. \A i \in 1..Len(map) : i \in 1..Len(t)
      BY <1>1, <2>3
    <3>2. Len(map) + 1 \in 1..Len(t)
      BY <1>1, <2>3
    <3> QED BY <1>1, <2>3, <2>4, <3>1, <3>2 DEF ToSet
  <2> QED BY <2>2, <2>5, <2>6, <2>7
<1>4. CASE ~(end > base)
  <2>1. map \o push_range(base, end, real) = map /\ Ranges(base, end, real) = {}
    BY <1>1, <1>4 DEF push_range, Ranges
  <2>2. EndsBefore(map, e)
    <3> SUFFICES ASSUME NEW i \in 1..Len(map) PROVE map[i].base + map[i].len <= e
      BY DEF EndsBefore
    <3>1. map[i].base + map[i].len <= base
      BY DEF EndsBefore
    <3> QED BY <1>2, <3>1
  <2> QED BY <2>1, <2>2
<1> QED BY <1>3, <1>4

(* One range alone. *)
LEMMA FirstRange ==
    ASSUME NEW end \in Nat
    PROVE  /\ IsMap(push_range(0, end, 0)) /\ EndsBefore(push_range(0, end, 0), end)
           /\ ToSet(push_range(0, end, 0)) = Ranges(0, end, 0)
<1>1. IsMap(<<>>) /\ EndsBefore(<<>>, 0) /\ ToSet(<<>>) = {}
  BY DEF IsMap, EndsBefore, ToSet
<1>2. push_range(0, end, 0) \in Seq(Mapping) /\ 0 \in Nat /\ 0 <= end /\ end <= end
  BY RangeAlone
<1>3. <<>> \o push_range(0, end, 0) = push_range(0, end, 0)
  BY <1>2
<1>4. /\ IsMap(<<>> \o push_range(0, end, 0)) /\ EndsBefore(<<>> \o push_range(0, end, 0), end)
      /\ ToSet(<<>> \o push_range(0, end, 0)) = ToSet(<<>>) \cup Ranges(0, end, 0)
  <2>1. Fits(<<>>, 0, end, 0, end)
    BY <1>1, <1>2 DEF Fits
  <2> QED BY <2>1, PushRange
<1> QED BY <1>1, <1>3, <1>4

(* The sizes, and what follows from their order. *)
Sizes ==
    /\ kb640 \in Nat /\ kb768 \in Nat /\ kb812 \in Nat /\ kb824 \in Nat /\ kb928 \in Nat
    /\ kb960 \in Nat /\ mb1 \in Nat /\ gb1 \in Nat /\ mb2816 \in Nat
    /\ gb2 \in Nat /\ gb3 \in Nat /\ gb4 \in Nat
    /\ 0 < kb640 /\ kb640 < kb768 /\ kb768 < kb812 /\ kb812 < kb824
    /\ kb824 < kb928 /\ kb928 < kb960 /\ kb960 < mb1 /\ mb1 < gb1
    /\ gb2 = gb1 + gb1 /\ gb3 = gb1 + gb1 + gb1 /\ gb4 = gb1 + gb1 + gb1 + gb1
    /\ gb2 < mb2816 /\ mb2816 < gb3

LEMMA SizesHold == Sizes
BY SizesAssumption DEF Sizes

(* The mappings of the machines. *)
MappingsOf(p) ==
    IF machine(p) = "q35"
    THEN Ranges(0, kb640, 0) \cup
         (IF p.size >= mb2816 THEN Ranges(mb1, gb2, mb1) \cup Ranges(gb4, p.size + gb2, gb2)
          ELSE Ranges(mb1, p.size, mb1))
    ELSE Ranges(0, kb768, 0) \cup Ranges(kb812, kb824, kb812) \cup Ranges(kb928, kb960, kb928)
         \cup Ranges(mb1, gb3, mb1) \cup Ranges(gb4, p.size + gb1, gb3)

LEMMA ProcessMap ==
    ASSUME NEW p, p.size \in Nat
    PROVE  IsMap(with_process(p)) /\ ToSet(with_process(p)) = MappingsOf(p)
<1> DEFINE n == p.size
<1>0. Sizes
  BY SizesHold
<1> USE <1>0 DEF Sizes
<1>1. CASE machine(p) = "q35" /\ n >= mb2816
  <2> DEFINE a == push_range(0, kb640, 0)
             b == push_range(mb1, gb2, mb1)
             c == push_range(gb4, n + gb2, gb2)
  <2>1. IsMap(a) /\ EndsBefore(a, kb640) /\ ToSet(a) = Ranges(0, kb640, 0)
    BY FirstRange
  <2>2. EndsBefore(a, mb1)
    BY <2>1, EndsLater
  <2>3. IsMap(a \o b) /\ EndsBefore(a \o b, gb4) /\ ToSet(a \o b) = ToSet(a) \cup Ranges(mb1, gb2, mb1)
    <3> HIDE DEF a
    <3>1. Fits(a, mb1, gb2, mb1, gb4)
      BY <2>1, <2>2 DEF Fits
    <3> QED BY <3>1, PushRange
  <2>4. /\ IsMap((a \o b) \o c)
        /\ ToSet((a \o b) \o c) = ToSet(a \o b) \cup Ranges(gb4, n + gb2, gb2)
    <3> DEFINE ab == a \o b
    <3> HIDE DEF ab
    <3>1. IsMap(ab) /\ EndsBefore(ab, gb4)
      BY <2>3 DEF ab
    <3>2. Fits(ab, gb4, n + gb2, gb2, n + gb2 + gb4)
      BY <3>1 DEF Fits
    <3>3. IsMap(ab \o c) /\ ToSet(ab \o c) = ToSet(ab) \cup Ranges(gb4, n + gb2, gb2)
      BY <3>2, PushRange
    <3> QED BY <3>3 DEF ab
  <2>5. with_process(p) = a \o (b \o c)
    BY <1>1 DEF with_process, mem_map_q35
  <2>6. a \o (b \o c) = (a \o b) \o c
    <3>1. a \in Seq(Mapping) /\ b \in Seq(Mapping) /\ c \in Seq(Mapping)
      <4>1. n + gb2 \in Nat /\ 0 \in Nat
        OBVIOUS
      <4> HIDE DEF n
      <4> QED BY <4>1, RangeAlone
    <3> HIDE DEF a, b, c
    <3> QED BY ONLY <3>1, Regrouped
  <2>7. MappingsOf(p) = Ranges(0, kb640, 0) \cup (Ranges(mb1, gb2, mb1) \cup Ranges(gb4, n + gb2, gb2))
    BY <1>1 DEF MappingsOf
  <2> HIDE DEF a, b, c
  <2> QED BY <2>1, <2>3, <2>4, <2>5, <2>6, <2>7
<1>2. CASE machine(p) = "q35" /\ ~(n >= mb2816)
  <2> DEFINE a == push_range(0, kb640, 0)
             b == push_range(mb1, n, mb1)
  <2>1. IsMap(a) /\ EndsBefore(a, kb640) /\ ToSet(a) = Ranges(0, kb640, 0)
    BY FirstRange
  <2>2. EndsBefore(a, mb1)
    BY <2>1, EndsLater
  <2>3. IsMap(a \o b) /\ ToSet(a \o b) = ToSet(a) \cup Ranges(mb1, n, mb1)
    <3> HIDE DEF a
    <3>1. Fits(a, mb1, n, mb1, n + mb1)
      BY <2>1, <2>2 DEF Fits
    <3> QED BY <3>1, PushRange
  <2>4. with_process(p) = a \o b
    BY <1>2 DEF with_process, mem_map_q35
  <2>5. MappingsOf(p) = Ranges(0, kb640, 0) \cup Ranges(mb1, n, mb1)
    BY <1>2 DEF MappingsOf
  <2> HIDE DEF a, b
  <2> QED BY <2>1, <2>3, <2>4, <2>5
<1>3. CASE machine(p) # "q35"
  <2> DEFINE a == push_range(0, kb768, 0)
             b == push_range(kb812, kb824, kb812)
             c == push_range(kb928, kb960, kb928)
             d == push_range(mb1, gb3, mb1)
             e == push_range(gb4, n + gb1, gb3)
             ab == a \o b
             abc == ab \o c
             abcd == abc \o d
  <2>1. IsMap(a) /\ EndsBefore(a, kb768) /\ ToSet(a) = Ranges(0, kb768, 0)
    BY FirstRange
  <2>2. EndsBefore(a, kb812)
    BY <2>1, EndsLater
  <2>3. IsMap(ab) /\ EndsBefore(ab, kb928) /\ ToSet(ab) = ToSet(a) \cup Ranges(kb812, kb824, kb812)
    <3> HIDE DEF a
    <3>1. Fits(a, kb812, kb824, kb812, kb928)
      BY <2>1, <2>2 DEF Fits
    <3> QED BY <3>1, PushRange
  <2>4. IsMap(abc) /\ EndsBefore(abc, mb1) /\ ToSet(abc) = ToSet(ab) \cup Ranges(kb928, kb960, kb928)
    <3> HIDE DEF ab
    <3>1. Fits(ab, kb928, kb960, kb928, mb1)
      BY <2>3 DEF Fits
    <3> QED BY <3>1, PushRange
  <2>5. IsMap(abcd) /\ EndsBefore(abcd, gb4) /\ ToSet(abcd) = ToSet(abc) \cup Ranges(mb1, gb3, mb1)
    <3> HIDE DEF abc
    <3>1. Fits(abc, mb1, gb3, mb1, gb4)
      BY <2>4 DEF Fits
    <3> QED BY <3>1, PushRange
  <2>6. IsMap(abcd \o e) /\ ToSet(abcd \o e) = ToSet(abcd) \cup Ranges(gb4, n + gb1, gb3)
    <3> HIDE DEF abcd
    <3>1. Fits(abcd, gb4, n + gb1, gb3, n + gb1 + gb4)
      BY <2>5 DEF Fits
    <3> QED BY <3>1, PushRange
  <2>7. with_process(p) = abcd \o e
    BY <1>3 DEF with_process, mem_map_i440fx
  <2>8. MappingsOf(p) = Ranges(0, kb768, 0) \cup Ranges(kb812, kb824, kb812)
            \cup Ranges(kb928, kb960, kb928) \cup Ranges(mb1, gb3, mb1) \cup Ranges(gb4, n + gb1, gb3)
    BY <1>3 DEF MappingsOf
  <2> HIDE DEF a, ab, abc, abcd, e
  <2> QED BY <2>1, <2>3, <2>4, <2>5, <2>6, <2>7, <2>8
<1> QED BY <1>1, <1>2, <1>3

(* Byte x is the address a in a range. *)
Lies(x, a, base, end, real) == base <= a /\ a < end /\ x = real + a - base

Holds(m, x, a) == a \in m.base..(m.base + m.len - 1) /\ x = m.real + a - m.base

LEMMA RangeHolds ==
    ASSUME NEW base \in Nat, NEW end \in Nat, NEW real \in Nat, NEW a \in Nat, NEW x \in Nat
    PROVE  (\E m \in Ranges(base, end, real) : Holds(m, x, a)) <=> Lies(x, a, base, end, real)
<1> DEFINE m == [base |-> base, len |-> end - base, real |-> real]
<1>1. Holds(m, x, a) <=> (base <= a /\ a <= base + (end - base) - 1 /\ x = real + a - base)
  BY DEF Holds
<1> HIDE DEF m
<1>2. CASE end > base
  <2>1. Ranges(base, end, real) = {m}
    BY <1>2 DEF Ranges, m
  <2>2. base + (end - base) - 1 = end - 1
    OBVIOUS
  <2> QED BY <1>1, <2>1, <2>2 DEF Lies
<1>3. CASE ~(end > base)
  <2>1. Ranges(base, end, real) = {}
    BY <1>3 DEF Ranges
  <2> QED BY <1>3, <2>1 DEF Lies
<1> QED BY <1>2, <1>3

LEMMA AtIs ==
    ASSUME NEW a, NEW x
    PROVE  x \in At(a) <=> x \in DOMAIN host /\ \E m \in ToSet(connector.map) : Holds(m, x, a)
BY DEF At, Holds

(* A byte above the first megabyte is in one mapping, at one address.      *)
Places(p, x, a) ==
    IF machine(p) = "q35"
    THEN IF p.size >= mb2816
         THEN Lies(x, a, mb1, gb2, mb1) \/ Lies(x, a, gb4, p.size + gb2, gb2)
         ELSE Lies(x, a, mb1, p.size, mb1)
    ELSE Lies(x, a, mb1, gb3, mb1) \/ Lies(x, a, gb4, p.size + gb1, gb3)

LEMMA PlacesAre ==
    ASSUME NEW p, p.size \in Nat, NEW x \in Nat, x >= mb1, NEW a \in Nat
    PROVE  (\E m \in MappingsOf(p) : Holds(m, x, a)) <=> Places(p, x, a)
<1> DEFINE n == p.size
           In(base, end, real) == \E m \in Ranges(base, end, real) : Holds(m, x, a)
<1>0. Sizes
  BY SizesHold
<1>1. ~Lies(x, a, 0, kb640, 0) /\ ~Lies(x, a, 0, kb768, 0)
      /\ ~Lies(x, a, kb812, kb824, kb812) /\ ~Lies(x, a, kb928, kb960, kb928)
  BY <1>0 DEF Lies, Sizes
<1>2. /\ In(0, kb640, 0) <=> Lies(x, a, 0, kb640, 0)
      /\ In(0, kb768, 0) <=> Lies(x, a, 0, kb768, 0)
      /\ In(kb812, kb824, kb812) <=> Lies(x, a, kb812, kb824, kb812)
      /\ In(kb928, kb960, kb928) <=> Lies(x, a, kb928, kb960, kb928)
      /\ In(mb1, gb2, mb1) <=> Lies(x, a, mb1, gb2, mb1)
      /\ In(mb1, gb3, mb1) <=> Lies(x, a, mb1, gb3, mb1)
  <2>1. /\ kb640 \in Nat /\ kb768 \in Nat /\ kb812 \in Nat /\ kb824 \in Nat /\ kb928 \in Nat
        /\ kb960 \in Nat /\ mb1 \in Nat /\ gb2 \in Nat /\ gb3 \in Nat /\ 0 \in Nat
    BY <1>0 DEF Sizes
  <2> QED BY <2>1, RangeHolds
<1>3. /\ In(mb1, n, mb1) <=> Lies(x, a, mb1, n, mb1)
      /\ In(gb4, n + gb2, gb2) <=> Lies(x, a, gb4, n + gb2, gb2)
      /\ In(gb4, n + gb1, gb3) <=> Lies(x, a, gb4, n + gb1, gb3)
  <2>1. /\ n \in Nat /\ mb1 \in Nat /\ gb4 \in Nat /\ gb2 \in Nat /\ gb3 \in Nat /\ gb1 \in Nat
        /\ n + gb2 \in Nat /\ n + gb1 \in Nat
    BY <1>0 DEF Sizes
  <2> HIDE DEF n
  <2> QED BY <2>1, RangeHolds
<1>4. (\E m \in MappingsOf(p) : Holds(m, x, a)) <=>
          IF machine(p) = "q35"
          THEN \/ In(0, kb640, 0)
               \/ IF n >= mb2816 THEN In(mb1, gb2, mb1) \/ In(gb4, n + gb2, gb2)
                  ELSE In(mb1, n, mb1)
          ELSE In(0, kb768, 0) \/ In(kb812, kb824, kb812) \/ In(kb928, kb960, kb928)
               \/ In(mb1, gb3, mb1) \/ In(gb4, n + gb1, gb3)
  BY Zenon DEF MappingsOf
<1> HIDE DEF In
<1> QED BY <1>1, <1>2, <1>3, <1>4 DEF Places

LEMMA OnePlace ==
    ASSUME NEW p, p.size \in Nat, NEW x \in Nat, x >= mb1, x < p.size
    PROVE  \E w \in 0..(p.size + gb4) : \A a \in Nat : Places(p, x, a) <=> a = w
<1> DEFINE n == p.size
<1>0. Sizes /\ n \in Nat
  BY SizesHold
<1>1. CASE machine(p) = "q35" /\ n >= mb2816
  <2> DEFINE w == IF x < gb2 THEN x ELSE (x - gb2) + gb4
  <2>1. w \in 0..(n + gb4)
    BY <1>0 DEF Sizes
  <2>2. \A a \in Nat : (Lies(x, a, mb1, gb2, mb1) \/ Lies(x, a, gb4, n + gb2, gb2)) <=> a = w
    BY <1>0 DEF Sizes, Lies
  <2> HIDE DEF w
  <2> QED BY <1>1, <2>1, <2>2 DEF Places
<1>2. CASE machine(p) = "q35" /\ ~(n >= mb2816)
  <2>1. x \in 0..(n + gb4)
    BY <1>0 DEF Sizes
  <2>2. \A a \in Nat : Lies(x, a, mb1, n, mb1) <=> a = x
    BY <1>0 DEF Sizes, Lies
  <2> QED BY <1>2, <2>1, <2>2 DEF Places
<1>3. CASE machine(p) # "q35"
  <2> DEFINE w == IF x < gb3 THEN x ELSE (x - gb3) + gb4
  <2>1. w \in 0..(n + gb4)
    BY <1>0 DEF Sizes
  <2>2. \A a \in Nat : (Lies(x, a, mb1, gb3, mb1) \/ Lies(x, a, gb4, n + gb1, gb3)) <=> a = w
    BY <1>0 DEF Sizes, Lies
  <2> HIDE DEF w
  <2> QED BY <1>3, <2>1, <2>2 DEF Places
<1> QED BY <1>1, <1>2, <1>3

LEMMA OpenedBijective ==
    ASSUME connector.kind = "qemu", QemuOpened(connector),
           DOMAIN host = 0..(connector.process.size - 1)
    PROVE  QemuBijective
<1> DEFINE p == connector.process
<1>1. p.size \in Nat /\ ToSet(connector.map) = MappingsOf(p)
  <2>1. p.size \in Nat /\ connector.map = with_process(p)
    BY DEF QemuOpened
  <2> HIDE DEF p
  <2> QED BY <2>1, ProcessMap
<1>2. ASSUME NEW x \in mb1..(p.size - 1)
      PROVE  Cardinality({a \in 0..(p.size + gb4) : x \in At(a)}) = 1
  <2>1. x \in Nat /\ x >= mb1 /\ x < p.size /\ mb1 \in Nat /\ gb4 \in Nat /\ x \in DOMAIN host
    <3>1. Sizes
      BY SizesHold
    <3>2. mb1 \in Nat /\ gb4 \in Nat
      BY <3>1 DEF Sizes
    <3> QED BY <1>1, <3>2
  <2> HIDE DEF p
  <2>2. PICK w \in 0..(p.size + gb4) : \A a \in Nat : Places(p, x, a) <=> a = w
    BY <1>1, <2>1, OnePlace
  <2>3. \A a \in Nat : x \in At(a) <=> a = w
    <3> SUFFICES ASSUME NEW a \in Nat PROVE x \in At(a) <=> Places(p, x, a)
      BY <2>2
    <3>1. (\E m \in MappingsOf(p) : Holds(m, x, a)) <=> Places(p, x, a)
      BY <1>1, <2>1, PlacesAre
    <3> QED BY <1>1, <2>1, <3>1, AtIs
  <2>4. \A a \in 0..(p.size + gb4) : a \in Nat
    BY <1>1, <2>1
  <2>5. {a \in 0..(p.size + gb4) : x \in At(a)} = {w}
    BY <2>3, <2>4
  <2> QED BY <2>5, FS_Singleton
<1> QED BY <1>2 DEF QemuBijective

(* No mapping of a q35 machine, or of one with 3 GB, leaves the process.   *)
LEMMA RangeInside ==
    ASSUME NEW base \in Nat, NEW end \in Nat, NEW real \in Nat, NEW n \in Nat,
           end > base => real + (end - base) <= n
    PROVE  \A m \in Ranges(base, end, real) : m.real + m.len <= n
BY DEF Ranges

LEMMA MachineInside ==
    ASSUME NEW p, p.size \in Nat, p.size >= mb1, machine(p) = "q35" \/ p.size >= gb3
    PROVE  \A m \in MappingsOf(p) : m.real + m.len <= p.size
<1> DEFINE n == p.size
           Inside(S) == \A m \in S : m.real + m.len <= n
<1>0. Sizes /\ n \in Nat /\ n >= mb1
  BY SizesHold
<1>1. CASE machine(p) = "q35" /\ n >= mb2816
  <2>1. Inside(Ranges(0, kb640, 0)) /\ Inside(Ranges(mb1, gb2, mb1))
    <3>1. /\ 0 \in Nat /\ kb640 \in Nat /\ mb1 \in Nat /\ gb2 \in Nat
          /\ 0 + (kb640 - 0) <= n /\ mb1 + (gb2 - mb1) <= n
      BY <1>0, <1>1 DEF Sizes
    <3> HIDE DEF n
    <3> QED BY <1>0, <3>1, RangeInside
  <2>2. Inside(Ranges(gb4, n + gb2, gb2))
    <3>1. gb4 \in Nat /\ n + gb2 \in Nat /\ gb2 \in Nat /\ gb2 + ((n + gb2) - gb4) <= n
      BY <1>0, <1>1 DEF Sizes
    <3> HIDE DEF n
    <3> QED BY <1>0, <3>1, RangeInside
  <2>3. MappingsOf(p) = Ranges(0, kb640, 0) \cup (Ranges(mb1, gb2, mb1) \cup Ranges(gb4, n + gb2, gb2))
    BY <1>1 DEF MappingsOf
  <2> HIDE DEF n
  <2> QED BY <2>1, <2>2, <2>3 DEF n
<1>2. CASE machine(p) = "q35" /\ ~(n >= mb2816)
  <2>1. Inside(Ranges(0, kb640, 0)) /\ Inside(Ranges(mb1, n, mb1))
    <3>1. /\ 0 \in Nat /\ kb640 \in Nat /\ mb1 \in Nat
          /\ 0 + (kb640 - 0) <= n /\ mb1 + (n - mb1) <= n
      BY <1>0, <1>2 DEF Sizes
    <3> HIDE DEF n
    <3> QED BY <1>0, <3>1, RangeInside
  <2>2. MappingsOf(p) = Ranges(0, kb640, 0) \cup Ranges(mb1, n, mb1)
    BY <1>2 DEF MappingsOf
  <2> HIDE DEF n
  <2> QED BY <2>1, <2>2 DEF n
<1>3. CASE machine(p) # "q35" /\ n >= gb3
  <2>1. /\ Inside(Ranges(0, kb768, 0)) /\ Inside(Ranges(kb812, kb824, kb812))
        /\ Inside(Ranges(kb928, kb960, kb928)) /\ Inside(Ranges(mb1, gb3, mb1))
    <3>1. /\ 0 \in Nat /\ kb768 \in Nat /\ kb812 \in Nat /\ kb824 \in Nat
          /\ kb928 \in Nat /\ kb960 \in Nat /\ mb1 \in Nat /\ gb3 \in Nat
      BY <1>0 DEF Sizes
    <3>2. /\ 0 + (kb768 - 0) <= n /\ kb812 + (kb824 - kb812) <= n
          /\ kb928 + (kb960 - kb928) <= n /\ mb1 + (gb3 - mb1) <= n
      BY <1>0, <1>3 DEF Sizes
    <3> HIDE DEF n
    <3> QED BY <1>0, <3>1, <3>2, RangeInside
  <2>2. Inside(Ranges(gb4, n + gb1, gb3))
    <3>1. gb4 \in Nat /\ n + gb1 \in Nat /\ gb3 \in Nat /\ gb3 + ((n + gb1) - gb4) <= n
      BY <1>0, <1>3 DEF Sizes
    <3> HIDE DEF n
    <3> QED BY <1>0, <3>1, RangeInside
  <2>3. MappingsOf(p) = Ranges(0, kb768, 0) \cup Ranges(kb812, kb824, kb812)
            \cup Ranges(kb928, kb960, kb928) \cup Ranges(mb1, gb3, mb1) \cup Ranges(gb4, n + gb1, gb3)
    BY <1>3 DEF MappingsOf
  <2> HIDE DEF n
  <2> QED BY <2>1, <2>2, <2>3 DEF n
<1> QED BY <1>1, <1>2, <1>3

----------------------------------------------------------------------------
(* Sequences of sequences, one after the other *)

In(e, s) == \E i \in 1..Len(s) : s[i] = e

(* t has the elements of the first n sequences, in their order.            *)
Joined(ss, n, t) ==
    /\ \A e : In(e, t) <=> \E k \in 1..n : In(e, ss[k])
    /\ \A i, j \in 1..Len(t) : i <= j =>
          \E k, l \in 1..n : k <= l /\ In(t[i], ss[k]) /\ In(t[j], ss[l])

LEMMA JoinedOne ==
    ASSUME NEW S, NEW s \in Seq(S), NEW t \in Seq(S), NEW ss, NEW n \in Nat,
           s = ss[n + 1], Joined(ss, n, t)
    PROVE  Joined(ss, n + 1, t \o s)
<1> DEFINE u == t \o s
<1>1. /\ u \in Seq(S) /\ Len(u) = Len(t) + Len(s) /\ Len(t) \in Nat /\ Len(s) \in Nat
      /\ \A i \in 1..Len(t) : u[i] = t[i]
      /\ \A i \in 1..Len(s) : u[Len(t) + i] = s[i]
  OBVIOUS
<1> HIDE DEF u
<1>2. \A i \in 1..Len(u) : \/ i \in 1..Len(t) /\ u[i] = t[i]
                           \/ i > Len(t) /\ i - Len(t) \in 1..Len(s) /\ u[i] = s[i - Len(t)]
  <2> SUFFICES ASSUME NEW i \in 1..Len(u), i \notin 1..Len(t)
               PROVE  i > Len(t) /\ i - Len(t) \in 1..Len(s) /\ u[i] = s[i - Len(t)]
    BY <1>1
  <2>1. i > Len(t) /\ i - Len(t) \in 1..Len(s) /\ Len(t) + (i - Len(t)) = i
    BY <1>1
  <2> QED BY <1>1, <2>1
<1>3. \A k \in 1..n : k \in 1..(n + 1)
  OBVIOUS
<1>4. \A k \in 1..(n + 1) : k \in 1..n \/ k = n + 1
  OBVIOUS
<1>5. \A i \in 1..Len(u) : \/ i \in 1..Len(t) /\ u[i] = t[i]
                           \/ i > Len(t) /\ In(u[i], ss[n + 1])
  <2> SUFFICES ASSUME NEW i \in 1..Len(u), i > Len(t), i - Len(t) \in 1..Len(s),
                      u[i] = s[i - Len(t)]
               PROVE  In(u[i], ss[n + 1])
    BY <1>2
  <2> QED BY DEF In
<1>6. ASSUME NEW e
      PROVE  In(e, u) <=> In(e, t) \/ In(e, s)
  <2>1. ASSUME In(e, u) PROVE In(e, t) \/ In(e, s)
    <3>1. PICK i \in 1..Len(u) : u[i] = e
      BY <2>1 DEF In
    <3> QED BY <1>5, <3>1 DEF In
  <2>2. ASSUME In(e, t) PROVE In(e, u)
    <3>1. PICK i \in 1..Len(t) : t[i] = e
      BY <2>2 DEF In
    <3>2. i \in 1..Len(u) /\ u[i] = e
      BY <1>1, <3>1
    <3> QED BY <3>2 DEF In
  <2>3. ASSUME In(e, s) PROVE In(e, u)
    <3>1. PICK i \in 1..Len(s) : s[i] = e
      BY <2>3 DEF In
    <3>2. Len(t) + i \in 1..Len(u) /\ u[Len(t) + i] = e
      BY <1>1, <3>1
    <3> QED BY <3>2 DEF In
  <2> QED BY <2>1, <2>2, <2>3
<1>7. \A e : In(e, u) <=> \E k \in 1..(n + 1) : In(e, ss[k])
  <2> SUFFICES ASSUME NEW e PROVE In(e, u) <=> \E k \in 1..(n + 1) : In(e, ss[k])
    OBVIOUS
  <2>1. In(e, t) <=> \E k \in 1..n : In(e, ss[k])
    BY DEF Joined
  <2>2. n + 1 \in 1..(n + 1)
    OBVIOUS
  <2> QED BY <1>3, <1>4, <1>6, <2>1, <2>2
<1>8. ASSUME NEW i \in 1..Len(u), NEW j \in 1..Len(u), i <= j
      PROVE  \E k, l \in 1..(n + 1) : k <= l /\ In(u[i], ss[k]) /\ In(u[j], ss[l])
  <2>1. n + 1 \in 1..(n + 1) /\ \A k \in 1..n : k <= n + 1
    OBVIOUS
  <2>2. CASE j \in 1..Len(t) /\ u[j] = t[j]
    <3>1. i \in 1..Len(t) /\ u[i] = t[i]
      BY <1>1, <1>8, <2>2
    <3>2. PICK k \in 1..n, l \in 1..n : k <= l /\ In(t[i], ss[k]) /\ In(t[j], ss[l])
      BY <1>8, <2>2, <3>1 DEF Joined
    <3> QED BY <1>3, <2>2, <3>1, <3>2
  <2>3. CASE In(u[j], ss[n + 1])
    <3>1. CASE i \in 1..Len(t) /\ u[i] = t[i]
      <4>1. In(u[i], t)
        BY <3>1 DEF In
      <4>2. PICK k \in 1..n : In(u[i], ss[k])
        BY <4>1 DEF Joined
      <4> QED BY <1>3, <2>1, <2>3, <4>2
    <3>2. CASE In(u[i], ss[n + 1])
      <4>1. n + 1 <= n + 1
        OBVIOUS
      <4> QED BY <2>1, <2>3, <3>2, <4>1
    <3> QED BY <1>5, <3>1, <3>2
  <2> QED BY <1>5, <2>2, <2>3
<1> QED BY <1>7, <1>8 DEF Joined, u

LEMMA FlattenFacts ==
    ASSUME NEW S, NEW ss \in Seq(Seq(S))
    PROVE  FlattenSeq(ss) \in Seq(S) /\ Joined(ss, Len(ss), FlattenSeq(ss))
<1> DEFINE N == Len(ss)
           step(f) == [i \in 1..N |-> IF i = 1 THEN ss[i] ELSE f[i - 1] \o ss[i]]
           flatten == CHOOSE f : f = step(f)
<1>1. N \in Nat /\ \A k \in 1..N : ss[k] \in Seq(S)
  OBVIOUS
<1>2. FlattenSeq(ss) = IF N = 0 THEN ss ELSE flatten[N]
  BY DEF FlattenSeq
<1>3. CASE N = 0
  <2>1. FlattenSeq(ss) = <<>>
    BY <1>2, <1>3
  <2>2. Joined(ss, N, <<>>)
    BY <1>3 DEF Joined, In
  <2> QED BY <2>1, <2>2
<1>4. CASE N # 0
  <2> DEFINE g == [k \in 1..N |-> [t \in Seq(S) |-> t \o ss[k]]]
  <2>1. Recursion(Seq(S), <<>>, N, g)
    <3>1. \A k \in 1..N : \A t \in Seq(S) : t \o ss[k] \in Seq(S)
      BY <1>1
    <3> QED BY <1>1, <3>1 DEF Recursion
  <2>2. PICK f : Solution(f, Seq(S), <<>>, N, g)
    <3> HIDE DEF g, N
    <3> QED BY <2>1, Iterates
  <2>3. /\ f \in [0..N -> Seq(S)] /\ f[0] = <<>> /\ \A k \in 1..N : f[k] = f[k - 1] \o ss[k]
    <3>1. f \in [0..N -> Seq(S)] /\ f[0] = <<>> /\ \A k \in 1..N : f[k] = g[k][f[k - 1]]
      BY <2>2 DEF Solution
    <3>2. ASSUME NEW k \in 1..N PROVE f[k] = f[k - 1] \o ss[k]
      <4>1. k - 1 \in 0..N
        OBVIOUS
      <4>2. f[k - 1] \in Seq(S)
        <5> HIDE DEF N, g
        <5> QED BY <3>1, <4>1
      <4> QED BY <3>1, <4>2
    <3> QED BY <3>1, <3>2
  <2> DEFINE h == [i \in 1..N |-> f[i]]
  <2>4. h = step(h)
    <3>1. ASSUME NEW i \in 1..N PROVE h[i] = IF i = 1 THEN ss[i] ELSE h[i - 1] \o ss[i]
      <4>1. CASE i = 1
        <5>1. f[i] = f[i - 1] \o ss[i] /\ i - 1 = 0 /\ ss[i] \in Seq(S)
          <6>1. f[i] = f[i - 1] \o ss[i] /\ ss[i] \in Seq(S)
            <7> HIDE DEF N
            <7> QED BY <1>1, <2>3
          <6> QED BY <4>1, <6>1
        <5>2. f[i] = <<>> \o ss[i]
          BY <2>3, <5>1
        <5> QED BY <4>1, <5>1, <5>2
      <4>2. CASE i # 1
        <5>1. i - 1 \in 1..N
          BY <4>2
        <5> QED BY <2>3, <4>2, <5>1
      <4> QED BY <4>1, <4>2
    <3> QED BY <3>1
  <2>5. flatten = step(flatten)
    <3> HIDE DEF step
    <3> QED BY <2>4
  <2> HIDE DEF flatten, h
  <2>6. \A i \in 1..N : flatten[i] = IF i = 1 THEN ss[i] ELSE flatten[i - 1] \o ss[i]
    BY <2>5
  <2> DEFINE Good == {k \in 0..N : k > 0 => flatten[k] \in Seq(S) /\ Joined(ss, k, flatten[k])}
  <2>7. 0 \in Good
    BY <1>1
  <2>8. ASSUME NEW k \in 1..N, k - 1 \in Good PROVE k \in Good
    <3>0. ss[k] \in Seq(S) /\ k - 1 \in Nat /\ (k - 1) + 1 = k
      BY <1>1
    <3>1. CASE k = 1
      <4>1. flatten[k] = ss[k] /\ <<>> \in Seq(S) /\ <<>> \o ss[k] = ss[k]
        BY <2>6, <3>0, <3>1
      <4>2. Joined(ss, 0, <<>>)
        BY DEF Joined, In
      <4>3. Joined(ss, k, <<>> \o ss[k])
        <5>1. ss[k] = ss[0 + 1] /\ 0 \in Nat /\ 0 + 1 = k
          BY <3>1
        <5>2. Joined(ss, 0 + 1, <<>> \o ss[k])
          BY ONLY <3>0, <4>1, <4>2, <5>1, JoinedOne
        <5> QED BY <5>1, <5>2
      <4>4. flatten[k] \in Seq(S) /\ Joined(ss, k, flatten[k])
        BY <3>0, <4>1, <4>3
      <4>5. k \in 0..N
        OBVIOUS
      <4> HIDE DEF N
      <4> QED BY <4>4, <4>5
    <3>2. CASE k # 1
      <4>1. flatten[k] = flatten[k - 1] \o ss[k] /\ k - 1 > 0
        <5>1. flatten[k] = IF k = 1 THEN ss[k] ELSE flatten[k - 1] \o ss[k]
          BY <2>6, Zenon
        <5>2. k - 1 > 0
          BY <3>0, <3>2
        <5> QED BY <3>2, <5>1, <5>2
      <4>2. flatten[k - 1] \in Seq(S) /\ Joined(ss, k - 1, flatten[k - 1])
        BY <2>8, <4>1
      <4>3. Joined(ss, (k - 1) + 1, flatten[k - 1] \o ss[k])
        <5>1. ss[k] = ss[(k - 1) + 1]
          OBVIOUS
        <5> QED BY ONLY <3>0, <4>2, <5>1, JoinedOne
      <4>4. flatten[k] \in Seq(S) /\ Joined(ss, k, flatten[k])
        BY <3>0, <4>1, <4>2, <4>3
      <4>5. k \in 0..N
        OBVIOUS
      <4> HIDE DEF N
      <4> QED BY <4>4, <4>5
    <3> QED BY <3>1, <3>2
  <2> HIDE DEF Good, N
  <2>9. N \in Good
    <3>1. \A k \in 0..N : k \in Good
      BY <1>1, <2>7, <2>8, UpTo
    <3> QED BY <1>1, <3>1
  <2> QED BY <1>1, <1>2, <1>4, <2>9 DEF Good, N
<1> QED BY <1>3, <1>4

----------------------------------------------------------------------------
(* What map_iter yields *)

Wish  == [addr : Nat, len : Nat]
Piece == [item : Nat, addr : Nat, len : Nat \ {0}, real : Nat]

Within(a, addr, len) == addr <= a /\ a < addr + len

(* p is in item i and in the mapping m, at the byte that m has for it.     *)
IsPart(p, item, i, m) ==
    /\ p.item = i
    /\ item.addr <= p.addr /\ p.addr + p.len <= item.addr + item.len
    /\ m.base <= p.addr /\ p.addr + p.len <= m.base + m.len
    /\ p.real = m.real + p.addr - m.base

(* p has the address a of item i, at the byte x.                           *)
Carries(p, i, a, x) ==
    p.item = i /\ Within(a, p.addr, p.len) /\ x = p.real + a - p.addr

LEMMA PartFacts ==
    ASSUME NEW item \in Wish, NEW i \in Nat, NEW m \in Mapping
    PROVE  /\ Part(item, i, m) \in Seq(Piece)
           /\ \A p : In(p, Part(item, i, m)) => IsPart(p, item, i, m)
           /\ \A a \in Nat : Within(a, item.addr, item.len) /\ Within(a, m.base, m.len) =>
                 \E p : In(p, Part(item, i, m)) /\ Carries(p, i, a, m.real + a - m.base)
<1> DEFINE lo == IF item.addr > m.base THEN item.addr ELSE m.base
           hi == IF item.addr + item.len < m.base + m.len
                 THEN item.addr + item.len ELSE m.base + m.len
           p  == [item |-> i, addr |-> lo, len |-> hi - lo, real |-> m.real + lo - m.base]
<1>1. /\ item.addr \in Nat /\ item.len \in Nat
      /\ m.base \in Nat /\ m.len \in Nat /\ m.real \in Nat
  BY DEF Wish, Mapping
<1>2. /\ lo \in Nat /\ hi \in Nat /\ lo >= item.addr /\ lo >= m.base
      /\ hi <= item.addr + item.len /\ hi <= m.base + m.len
      /\ \A a \in Nat : Within(a, item.addr, item.len) /\ Within(a, m.base, m.len) => lo <= a /\ a < hi
  BY <1>1 DEF Within
<1>3. Part(item, i, m) = IF lo < hi THEN <<p>> ELSE <<>>
  BY DEF Part
<1> HIDE DEF lo, hi
<1>4. CASE lo < hi
  <2>1. p \in Piece
    <3>1. hi - lo \in Nat \ {0} /\ m.real + lo - m.base \in Nat
      BY <1>1, <1>2, <1>4
    <3> QED BY <1>2, <3>1 DEF Piece
  <2>2. IsPart(p, item, i, m)
    BY <1>1, <1>2, <1>4 DEF IsPart
  <2>3. ASSUME NEW a \in Nat, Within(a, item.addr, item.len), Within(a, m.base, m.len)
        PROVE  Carries(p, i, a, m.real + a - m.base)
    <3>1. lo <= a /\ a < hi
      BY <1>2, <2>3
    <3>2. Within(a, p.addr, p.len)
      BY <1>2, <3>1 DEF Within
    <3>3. p.real + a - p.addr = m.real + a - m.base
      BY <1>1, <1>2
    <3> QED BY <3>2, <3>3 DEF Carries
  <2> HIDE DEF p
  <2>4. /\ Part(item, i, m) = <<p>> /\ Len(<<p>>) = 1 /\ <<p>>[1] = p
    BY <1>3, <1>4
  <2>5. \A q : In(q, Part(item, i, m)) <=> q = p
    BY <2>4 DEF In
  <2> QED BY <2>1, <2>2, <2>3, <2>4, <2>5
<1>5. CASE ~(lo < hi)
  <2>1. Part(item, i, m) = <<>> /\ \A q : ~In(q, Part(item, i, m))
    BY <1>3, <1>5 DEF In
  <2>2. ~\E a \in Nat : lo <= a /\ a < hi
    BY <1>2, <1>5
  <2> QED BY <1>2, <2>1, <2>2
<1> QED BY <1>4, <1>5

(* The pieces of a list over a map. *)
Pieces(map, data, s) ==
    /\ s \in Seq(Piece)
    /\ \A p : In(p, s) => \E i \in 1..Len(data), j \in 1..Len(map) : IsPart(p, data[i], i, map[j])
    /\ \A i \in 1..Len(data), j \in 1..Len(map), a \in Nat :
          Within(a, data[i].addr, data[i].len) /\ Within(a, map[j].base, map[j].len) =>
              \E p : In(p, s) /\ Carries(p, i, a, map[j].real + a - map[j].base)
    /\ \A k, l \in 1..Len(s) : k <= l => s[k].item <= s[l].item

LEMMA MapIterYields ==
    ASSUME NEW map \in Seq(Mapping), NEW data \in Seq(Wish)
    PROVE  Pieces(map, data, map_iter(map, data))
<1> DEFINE row(i) == [j \in DOMAIN map |-> Part(data[i], i, map[j])]
           one(i) == FlattenSeq(row(i))
           rows   == [i \in DOMAIN data |-> one(i)]
           s      == FlattenSeq(rows)
<1>1. /\ Len(map) \in Nat /\ DOMAIN map = 1..Len(map) /\ \A j \in 1..Len(map) : map[j] \in Mapping
      /\ Len(data) \in Nat /\ DOMAIN data = 1..Len(data) /\ \A i \in 1..Len(data) : data[i] \in Wish
  OBVIOUS
<1>2. ASSUME NEW i \in 1..Len(data)
      PROVE  /\ one(i) \in Seq(Piece)
             /\ \A p : In(p, one(i)) <=> \E j \in 1..Len(map) : In(p, Part(data[i], i, map[j]))
  <2>1. \A j \in 1..Len(map) : Part(data[i], i, map[j]) \in Seq(Piece)
    <3>1. i \in Nat /\ data[i] \in Wish
      BY <1>1
    <3> QED BY <1>1, <3>1, PartFacts
  <2>2. /\ row(i) \in Seq(Seq(Piece)) /\ Len(row(i)) = Len(map)
        /\ \A j \in 1..Len(map) : row(i)[j] = Part(data[i], i, map[j])
    BY <1>1, <2>1
  <2> HIDE DEF row
  <2>3. one(i) \in Seq(Piece) /\ Joined(row(i), Len(row(i)), one(i))
    BY <2>2, FlattenFacts
  <2> QED BY <2>2, <2>3 DEF Joined
<1> HIDE DEF one
<1>3. /\ rows \in Seq(Seq(Piece)) /\ Len(rows) = Len(data)
      /\ \A i \in 1..Len(data) : rows[i] = one(i)
  BY <1>1, <1>2
<1> HIDE DEF rows
<1>4. s \in Seq(Piece) /\ Joined(rows, Len(data), s)
  BY <1>3, FlattenFacts
<1> HIDE DEF s
<1>5. \A p : In(p, s) <=> \E i \in 1..Len(data), j \in 1..Len(map) : In(p, Part(data[i], i, map[j]))
  <2> SUFFICES ASSUME NEW p
               PROVE  In(p, s) <=> \E i \in 1..Len(data), j \in 1..Len(map) : In(p, Part(data[i], i, map[j]))
    OBVIOUS
  <2>1. In(p, s) <=> \E i \in 1..Len(data) : In(p, rows[i])
    BY <1>4 DEF Joined
  <2>2. \A i \in 1..Len(data) :
            In(p, rows[i]) <=> \E j \in 1..Len(map) : In(p, Part(data[i], i, map[j]))
    BY <1>2, <1>3
  <2> QED BY ONLY <2>1, <2>2
<1>6. ASSUME NEW i \in 1..Len(data), NEW j \in 1..Len(map)
      PROVE  /\ \A p : In(p, Part(data[i], i, map[j])) => IsPart(p, data[i], i, map[j])
             /\ \A a \in Nat :
                   Within(a, data[i].addr, data[i].len) /\ Within(a, map[j].base, map[j].len) =>
                      \E p : /\ In(p, Part(data[i], i, map[j]))
                             /\ Carries(p, i, a, map[j].real + a - map[j].base)
  <2>1. i \in Nat /\ data[i] \in Wish /\ map[j] \in Mapping
    BY <1>1
  <2> QED BY <2>1, PartFacts
<1>7. \A p : In(p, s) => \E i \in 1..Len(data), j \in 1..Len(map) : IsPart(p, data[i], i, map[j])
  BY <1>5, <1>6
<1>8. \A i \in 1..Len(data), j \in 1..Len(map), a \in Nat :
          Within(a, data[i].addr, data[i].len) /\ Within(a, map[j].base, map[j].len) =>
              \E p : In(p, s) /\ Carries(p, i, a, map[j].real + a - map[j].base)
  BY <1>5, <1>6
<1>9. ASSUME NEW k \in 1..Len(s), NEW l \in 1..Len(s), k <= l
      PROVE  s[k].item <= s[l].item
  <2>1. PICK i \in 1..Len(data), j \in 1..Len(data) :
            i <= j /\ In(s[k], rows[i]) /\ In(s[l], rows[j])
    BY <1>4, <1>9 DEF Joined
  <2>2. ASSUME NEW c \in 1..Len(data), NEW p, In(p, rows[c])
        PROVE  p.item = c
    <3>1. In(p, one(c))
      BY <1>3, <2>2
    <3>2. PICK d \in 1..Len(map) : In(p, Part(data[c], c, map[d]))
      BY <1>2, <3>1
    <3>3. IsPart(p, data[c], c, map[d])
      BY <1>6, <3>2
    <3> QED BY <3>3 DEF IsPart
  <2> QED BY <2>1, <2>2
<1>10. map_iter(map, data) = s
  BY DEF map_iter, s, rows, one
<1> QED BY <1>4, <1>7, <1>8, <1>9, <1>10 DEF Pieces

----------------------------------------------------------------------------
(* What is copied *)

Over(p, x) == x \in p.real..(p.real + p.len - 1)

(* A piece, also one that was cut short to nothing. *)
IsCut(p) == p.item \in Nat /\ p.addr \in Nat /\ p.len \in Nat /\ p.real \in Nat

LEMMA ReadFact ==
    ASSUME NEW ps, Len(ps) \in Nat, NEW i \in DOMAIN buffer, NEW k \in DOMAIN buffer[i],
           Addr(i, k) \in Nat, \A j \in 1..Len(ps) : IsCut(ps[j])
    PROVE  \/ \E j \in 1..Len(ps) :
                 /\ ps[j].item = i /\ Within(Addr(i, k), ps[j].addr, ps[j].len)
                 /\ Read(ps)[i][k] = host[ps[j].real + Addr(i, k) - ps[j].addr]
           \/ /\ Read(ps)[i][k] = buffer[i][k]
              /\ \A j \in 1..Len(ps) : ~(ps[j].item = i /\ Within(Addr(i, k), ps[j].addr, ps[j].len))
<1> DEFINE a == Addr(i, k)
           I == {j \in 1..Len(ps) : ps[j].item = i /\ a \in ps[j].addr..(ps[j].addr + ps[j].len - 1)}
           l == IF I # {} THEN Max(I) ELSE 0
<1>1. Read(ps)[i][k] = IF l # 0 THEN host[ps[l].real + a - ps[l].addr] ELSE buffer[i][k]
  BY DEF Read, SelectLastInSeq, Addr
<1>2. \A j \in 1..Len(ps) :
          a \in ps[j].addr..(ps[j].addr + ps[j].len - 1) <=> Within(a, ps[j].addr, ps[j].len)
  <2> SUFFICES ASSUME NEW j \in 1..Len(ps)
               PROVE  a \in ps[j].addr..(ps[j].addr + ps[j].len - 1) <=> Within(a, ps[j].addr, ps[j].len)
    OBVIOUS
  <2>1. ps[j].addr \in Nat /\ ps[j].len \in Nat
    BY DEF IsCut
  <2> HIDE DEF a
  <2> QED BY <2>1 DEF Within, a
<1>3. I \subseteq 1..Len(ps)
  OBVIOUS
<1> HIDE DEF I
<1>4. (I = {} => l = 0) /\ (I # {} => l \in I)
  BY <1>3, PickedLast
<1>5. CASE I = {}
  <2>1. Read(ps)[i][k] = buffer[i][k]
    <3> HIDE DEF l
    <3> QED BY <1>1, <1>4, <1>5
  <2> QED BY <1>2, <1>5, <2>1 DEF I
<1>6. CASE I # {}
  <2>1. l \in I
    BY <1>4, <1>6
  <2> HIDE DEF l
  <2>2. l \in 1..Len(ps) /\ l # 0
    BY <1>3, <2>1
  <2>3. ps[l].item = i /\ Within(a, ps[l].addr, ps[l].len)
    BY <1>2, <2>1, <2>2 DEF I
  <2> QED BY <1>1, <2>2, <2>3
<1> QED BY <1>5, <1>6

LEMMA WriteFact ==
    ASSUME NEW ps, Len(ps) \in Nat, NEW x \in DOMAIN host
    PROVE  \/ \E j \in 1..Len(ps) :
                 /\ Over(ps[j], x) /\ Write(ps)[x] = -ps[j].item
                 /\ \A m \in 1..Len(ps) : Over(ps[m], x) => m <= j
           \/ /\ Write(ps)[x] = host[x]
              /\ \A j \in 1..Len(ps) : ~Over(ps[j], x)
<1> DEFINE I == {j \in 1..Len(ps) : Over(ps[j], x)}
           l == IF I # {} THEN Max(I) ELSE 0
<1>1. Write(ps)[x] = IF l # 0 THEN -ps[l].item ELSE host[x]
  BY DEF Write, SelectLastInSeq, Over
<1>2. I \subseteq 1..Len(ps) /\ \A j \in 1..Len(ps) : j \in I <=> Over(ps[j], x)
  OBVIOUS
<1> HIDE DEF I
<1>3. (I = {} => l = 0) /\ (I # {} => l \in I /\ \A j \in I : j <= l)
  BY <1>2, PickedLast
<1> HIDE DEF l
<1>4. CASE I = {}
  BY <1>1, <1>2, <1>3, <1>4
<1>5. CASE I # {}
  <2>1. l \in I /\ l \in 1..Len(ps)
    BY <1>2, <1>3, <1>5
  <2>2. Over(ps[l], x) /\ \A m \in 1..Len(ps) : Over(ps[m], x) => m <= l
    BY <1>2, <1>3, <1>5, <2>1
  <2>3. l # 0
    BY <2>1
  <2>4. Write(ps)[x] = -ps[l].item
    BY <1>1, <2>3
  <2> QED BY <2>1, <2>2, <2>4
<1> QED BY <1>4, <1>5

----------------------------------------------------------------------------
(* The inductive invariant of the transfers *)

HostOK ==
    /\ Cardinality(DOMAIN host) \in Nat
    /\ DOMAIN host = 0..(Cardinality(DOMAIN host) - 1)
    /\ \A x \in DOMAIN host : host[x] \in Int

(* What is open: a sorted map, with the host behind it. *)
OpenInv ==
    /\ IsMap(connector.map) /\ HostOK
    /\ connector.kind \in {"mmap", "mmap_mut"} => \A i \in 1..Len(connector.map) :
          connector.map[i].real + connector.map[i].len <= Cardinality(DOMAIN host)
    /\ connector.kind = "qemu" => /\ QemuOpened(connector)
                                  /\ DOMAIN host = 0..(connector.process.size - 1)
    /\ connector = Closed => pc = "idle"

(* The pieces that the call has still to copy. *)
Left(p) == In(p, iov) \/ In(p, pieces)

Ordered(s) == \A k, l \in 1..Len(s) : k <= l => s[k].item <= s[l].item

All == map_iter(connector.map, call.data)

TrueBytes(i, k) == {host[x] : x \in At(Addr(i, k))}

(* A piece that was copied: it was read; or it was written, and whatever   *)
(* is written over it belongs to a later item.                             *)
Filled(p) ==
    \A k \in 1..call.data[p.item].len :
        Within(Addr(p.item, k), p.addr, p.len) => buffer[p.item][k] \in TrueBytes(p.item, k)

Written(p) ==
    /\ \A x \in DOMAIN host : Over(p, x) => host[x] <= -p.item
    /\ \A r : Left(r) => p.item <= r.item

Copied(p) == IF call.op = "read" THEN Filled(p) ELSE Written(p)

(* A buffer for every item. *)
Buffers ==
    /\ DOMAIN buffer = 1..Len(call.data)
    /\ \A i \in 1..Len(call.data) : DOMAIN buffer[i] = 1..call.data[i].len

(* No byte is ever wrong. *)
ReadContent ==
    \A i \in 1..Len(call.data) : \A k \in 1..call.data[i].len :
        buffer[i][k] \in TrueBytes(i, k) \cup {Untouched}

WriteContent ==
    \A x \in DOMAIN host : host[x] \in {-i : i \in Covering(x)} \cup {before[x]}

CallInv ==
    /\ call.data \in Seq(Wish)
    /\ iov \in Seq(Piece) /\ pieces \in Seq(Piece)
    /\ pc # "idle" => call.op \in {"read", "write"}
    /\ pc # "idle" /\ call.op = "read" => Buffers /\ ReadContent
    /\ pc # "idle" /\ call.op = "write" => WriteContent

RunInv ==
    pc = "running" =>
        /\ connector.kind # "qemu" => iov = <<>>
        /\ \A p : Left(p) => In(p, All)
        /\ Ordered(iov) /\ Ordered(pieces)
        /\ \A p, q : In(p, iov) /\ In(q, pieces) => p.item <= q.item
        /\ ~short => \A p : In(p, All) => Left(p) \/ Copied(p)

(* After Ok every piece was copied, unless a transfer was short. *)
DoneInv ==
    pc = "done" /\ result = "ok" /\ ~short => \A p : In(p, All) => Copied(p)

TransferInv == ConnectorsTypeOK /\ OpenInv /\ CallInv /\ RunInv /\ DoneInv

(* Where a piece is. *)
LEMMA PieceFacts ==
    ASSUME NEW p \in Piece
    PROVE  IsCut(p) /\ p.len > 0
BY DEF Piece, IsCut

LEMMA AllFacts ==
    ASSUME OpenInv, CallInv
    PROVE  Pieces(connector.map, call.data, All)
BY MapIterYields DEF OpenInv, CallInv, IsMap, All

(* The byte that a part of an item holds is the byte of its address.       *)
LEMMA PartIsAt ==
    ASSUME OpenInv, CallInv, NEW p, IsCut(p), NEW i \in 1..Len(call.data),
           NEW j \in 1..Len(connector.map), IsPart(p, call.data[i], i, connector.map[j]),
           NEW a \in Nat, Within(a, p.addr, p.len),
           p.real + a - p.addr \in DOMAIN host
    PROVE  /\ p.real + a - p.addr \in At(a)
           /\ a - call.data[i].addr + 1 \in 1..call.data[i].len
           /\ Addr(i, a - call.data[i].addr + 1) = a
<1> DEFINE m == connector.map[j]
           w == call.data[i]
           x == p.real + a - p.addr
           k == a - w.addr + 1
<1>1. m.base \in Nat /\ m.len \in Nat /\ m.real \in Nat /\ m \in ToSet(connector.map)
  <2>1. IsMap(connector.map)
    BY DEF OpenInv
  <2>2. m.base \in Nat /\ m.len \in Nat /\ m.real \in Nat
    BY <2>1, MappingsOfMap
  <2>3. DOMAIN connector.map = 1..Len(connector.map)
    BY <2>1 DEF IsMap
  <2> QED BY <2>2, <2>3 DEF ToSet
<1>2. w.addr \in Nat /\ w.len \in Nat
  <2>1. w \in Wish
    BY DEF CallInv
  <2> HIDE DEF w
  <2> QED BY <2>1 DEF Wish
<1> HIDE DEF m, w
<1>3. /\ w.addr <= p.addr /\ p.addr + p.len <= w.addr + w.len
      /\ m.base <= p.addr /\ p.addr + p.len <= m.base + m.len
      /\ p.real = m.real + p.addr - m.base
  BY DEF IsPart, m, w
<1>4. p.addr \in Nat /\ p.len \in Nat /\ p.real \in Nat /\ p.addr <= a /\ a < p.addr + p.len
  BY DEF IsCut, Within
<1> DEFINE P == p.addr
           L == p.len
           B == m.base
           N == m.len
           R == m.real
           A == w.addr
           K == w.len
<1>0. /\ P \in Nat /\ L \in Nat /\ B \in Nat /\ N \in Nat /\ R \in Nat /\ A \in Nat /\ K \in Nat
      /\ P <= a /\ a < P + L /\ A <= P /\ P + L <= A + K /\ B <= P /\ P + L <= B + N
      /\ p.real = R + P - B
  BY <1>1, <1>2, <1>3, <1>4
<1> HIDE DEF P, L, B, N, R, A, K
<1>5. a \in m.base..(m.base + m.len - 1) /\ x = m.real + a - m.base
  <2>1. a \in B..(B + N - 1) /\ p.real + a - P = R + a - B
    BY <1>0
  <2> QED BY <2>1 DEF B, N, R, P
<1>6. x \in At(a)
  BY <1>1, <1>5, AtIs DEF Holds
<1>7. k \in 1..w.len
  <2>1. a - A + 1 \in 1..K
    BY <1>0
  <2> QED BY <2>1 DEF A, K
<1>8. Addr(i, k) = a
  <2>1. Addr(i, k) = w.addr + k - 1
    BY DEF Addr, w
  <2> QED BY <1>2, <2>1
<1> QED BY <1>6, <1>7, <1>8 DEF w

(* Every byte of an item that the map has is in a piece. *)
LEMMA AtIsCarried ==
    ASSUME OpenInv, CallInv, NEW i \in 1..Len(call.data), NEW k \in 1..call.data[i].len,
           NEW x \in At(Addr(i, k))
    PROVE  /\ Addr(i, k) \in Nat
           /\ \E p : In(p, All) /\ Carries(p, i, Addr(i, k), x)
<1> DEFINE w == call.data[i]
           a == Addr(i, k)
<1>1. w.addr \in Nat /\ w.len \in Nat
  <2>1. w \in Wish
    BY DEF CallInv
  <2> HIDE DEF w
  <2> QED BY <2>1 DEF Wish
<1>2. a \in Nat /\ Within(a, w.addr, w.len)
  <2>1. k \in 1..w.len /\ a = w.addr + k - 1
    BY DEF Addr
  <2> HIDE DEF w, a
  <2> QED BY <1>1, <2>1 DEF Within
<1>3. PICK m \in ToSet(connector.map) : Holds(m, x, a)
  BY AtIs
<1>4. PICK j \in 1..Len(connector.map) : connector.map[j] = m
  <2>1. DOMAIN connector.map = 1..Len(connector.map)
    BY DEF OpenInv, IsMap
  <2> QED BY <2>1 DEF ToSet
<1>5. m.base \in Nat /\ m.len \in Nat /\ m.real \in Nat
  BY <1>4, MappingsOfMap DEF OpenInv
<1>6. Within(a, m.base, m.len) /\ x = m.real + a - m.base
  BY <1>2, <1>3, <1>5 DEF Holds, Within
<1> HIDE DEF a, w
<1>7. \E p : In(p, All) /\ Carries(p, i, a, m.real + a - m.base)
  <2>1. Within(a, call.data[i].addr, call.data[i].len)
        /\ Within(a, connector.map[j].base, connector.map[j].len)
    BY <1>2, <1>4, <1>6 DEF w
  <2>2. \E p : In(p, All) /\ Carries(p, i, a, connector.map[j].real + a - connector.map[j].base)
    BY <1>2, <2>1, AllFacts DEF Pieces
  <2> QED BY <1>4, <2>2
<1> QED BY <1>2, <1>6, <1>7 DEF a

----------------------------------------------------------------------------
(* One copy *)

(* Parts of the call's pieces. *)
Source(ps) ==
    /\ Len(ps) \in Nat
    /\ \A n \in 1..Len(ps) :
          /\ IsCut(ps[n])
          /\ \E i \in 1..Len(call.data), j \in 1..Len(connector.map) :
                IsPart(ps[n], call.data[i], i, connector.map[j])

Inside(ps) == \A n \in 1..Len(ps) : InHost(ps[n])

LEMMA AddressOf ==
    ASSUME CallInv, NEW i \in 1..Len(call.data), NEW k \in 1..call.data[i].len
    PROVE  Addr(i, k) \in Nat
<1> DEFINE w == call.data[i]
<1>1. w.addr \in Nat /\ w.len \in Nat
  <2>1. w \in Wish
    BY DEF CallInv
  <2> HIDE DEF w
  <2> QED BY <2>1 DEF Wish
<1>2. Addr(i, k) = w.addr + k - 1 /\ k \in 1..w.len
  BY DEF Addr
<1> HIDE DEF w
<1> QED BY <1>1, <1>2

LEMMA ReadByte ==
    ASSUME OpenInv, CallInv, Buffers, NEW ps, Source(ps), Inside(ps),
           NEW i \in 1..Len(call.data), NEW k \in 1..call.data[i].len
    PROVE  \/ Read(ps)[i][k] \in TrueBytes(i, k)
           \/ /\ Read(ps)[i][k] = buffer[i][k]
              /\ \A n \in 1..Len(ps) :
                    ~(ps[n].item = i /\ Within(Addr(i, k), ps[n].addr, ps[n].len))
<1> DEFINE a == Addr(i, k)
<1>1. a \in Nat
  BY AddressOf
<1>2. i \in DOMAIN buffer /\ k \in DOMAIN buffer[i] /\ Len(ps) \in Nat
      /\ \A n \in 1..Len(ps) : IsCut(ps[n])
  BY DEF Buffers, Source
<1> SUFFICES ASSUME NEW n \in 1..Len(ps), ps[n].item = i, Within(a, ps[n].addr, ps[n].len),
                    Read(ps)[i][k] = host[ps[n].real + a - ps[n].addr]
             PROVE  Read(ps)[i][k] \in TrueBytes(i, k)
  BY <1>1, <1>2, ReadFact
<1> DEFINE p == ps[n]
           x == p.real + a - p.addr
<1> HIDE DEF a
<1>3. PICK l \in 1..Len(call.data), j \in 1..Len(connector.map) :
          IsPart(p, call.data[l], l, connector.map[j])
  BY DEF Source
<1>4. l = i
  BY <1>3 DEF IsPart
<1>5. IsCut(p) /\ InHost(p) /\ Within(a, p.addr, p.len)
  BY <1>2 DEF Inside
<1> HIDE DEF p
<1>6. x \in DOMAIN host
  <2>1. /\ p.addr \in Nat /\ p.len \in Nat /\ p.real \in Nat
        /\ p.addr <= a /\ a < p.addr + p.len
        /\ p.real + p.len <= Cardinality(DOMAIN host)
        /\ Cardinality(DOMAIN host) \in Nat /\ DOMAIN host = 0..(Cardinality(DOMAIN host) - 1)
    BY <1>5 DEF IsCut, Within, InHost, OpenInv, HostOK
  <2> DEFINE N == Cardinality(DOMAIN host)
             P == p.addr
             R == p.real
             L == p.len
  <2>2. P \in Nat /\ L \in Nat /\ R \in Nat /\ P <= a /\ a < P + L /\ R + L <= N /\ N \in Nat
    BY <2>1
  <2> HIDE DEF N, P, R, L
  <2>3. R + a - P \in 0..(N - 1)
    BY ONLY <1>1, <2>2
  <2> QED BY <2>1, <2>3 DEF N, P, R
<1>7. x \in At(a)
  BY <1>1, <1>3, <1>4, <1>5, <1>6, PartIsAt
<1>8. Read(ps)[i][k] = host[x]
  BY DEF p
<1> QED BY <1>7, <1>8 DEF TrueBytes, a

LEMMA WriteByte ==
    ASSUME OpenInv, CallInv, NEW ps, Source(ps), NEW x \in DOMAIN host, NEW n \in 1..Len(ps),
           Over(ps[n], x)
    PROVE  ps[n].item \in Covering(x)
<1> DEFINE p == ps[n]
           a == p.addr + x - p.real
<1>1. PICK i \in 1..Len(call.data), j \in 1..Len(connector.map) :
          IsPart(p, call.data[i], i, connector.map[j])
  BY DEF Source
<1>2. IsCut(p) /\ p.item = i
  BY <1>1 DEF Source, IsPart
<1>3. Over(p, x) /\ x \in Nat
  <2>1. DOMAIN host = 0..(Cardinality(DOMAIN host) - 1) /\ Cardinality(DOMAIN host) \in Nat
    BY DEF OpenInv, HostOK
  <2> QED BY <2>1
<1> HIDE DEF p
<1>4. a \in Nat /\ Within(a, p.addr, p.len) /\ p.real + a - p.addr = x
  <2>1. p.addr \in Nat /\ p.len \in Nat /\ p.real \in Nat /\ p.real <= x /\ x <= p.real + p.len - 1
    BY <1>2, <1>3 DEF IsCut, Over
  <2> DEFINE P == p.addr
             R == p.real
             L == p.len
  <2>2. P \in Nat /\ L \in Nat /\ R \in Nat /\ R <= x /\ x <= R + L - 1
    BY <2>1
  <2> HIDE DEF P, R, L
  <2>3. P + x - R \in Nat /\ P <= P + x - R /\ P + x - R < P + L /\ R + (P + x - R) - P = x
    BY <1>3, <2>2
  <2> QED BY <2>3 DEF Within, P, R, L
<1> HIDE DEF a
<1>5. p.real + a - p.addr \in DOMAIN host
  BY <1>4
<1>6. /\ p.real + a - p.addr \in At(a)
      /\ a - call.data[i].addr + 1 \in 1..call.data[i].len
      /\ Addr(i, a - call.data[i].addr + 1) = a
  BY ONLY OpenInv, CallInv, <1>1, <1>2, <1>4, <1>5, PartIsAt
<1>7. i \in DOMAIN call.data
  BY DEF CallInv
<1>8. i \in Covering(x)
  BY <1>4, <1>6, <1>7 DEF Covering
<1> QED BY <1>2, <1>8 DEF p

(* A copy keeps all that is right. *)
LEMMA CopyKeeps ==
    ASSUME OpenInv, CallInv, pc = "running", NEW ps, Source(ps), Copy(ps),
           call.op = "read" => Inside(ps), UNCHANGED <<connector, call, before>>
    PROVE  /\ DOMAIN host' = DOMAIN host /\ HostOK'
           /\ call.op = "read" => host' = host /\ Buffers' /\ ReadContent'
           /\ call.op = "write" => WriteContent'
<1>1. call.op \in {"read", "write"} /\ (call.op = "read" => Buffers /\ ReadContent)
      /\ (call.op = "write" => WriteContent)
  BY DEF CallInv
<1>2. CASE call.op = "read"
  <2>1. host' = host /\ buffer' = Read(ps) /\ Buffers /\ ReadContent /\ Inside(ps)
    BY <1>1, <1>2 DEF Copy
  <2>2. Buffers'
    <3>1. DOMAIN Read(ps) = DOMAIN buffer
          /\ \A i \in DOMAIN buffer : DOMAIN Read(ps)[i] = DOMAIN buffer[i]
      BY DEF Read
    <3> QED BY <2>1, <3>1 DEF Buffers
  <2>3. ASSUME NEW i \in 1..Len(call.data), NEW k \in 1..call.data[i].len
        PROVE  buffer'[i][k] \in TrueBytes(i, k)' \cup {Untouched}
    <3>1. TrueBytes(i, k)' = TrueBytes(i, k)
      BY <2>1 DEF TrueBytes, At, Addr
    <3>2. buffer[i][k] \in TrueBytes(i, k) \cup {Untouched}
      BY <2>1 DEF ReadContent
    <3>3. Read(ps)[i][k] \in TrueBytes(i, k) \/ Read(ps)[i][k] = buffer[i][k]
      BY <2>1, ReadByte
    <3> QED BY <2>1, <3>1, <3>2, <3>3
  <2>4. ReadContent'
    BY <2>3 DEF ReadContent
  <2>5. HostOK'
    BY <2>1 DEF OpenInv, HostOK
  <2> QED BY <1>2, <2>1, <2>2, <2>4, <2>5
<1>3. CASE call.op = "write"
  <2>1. host' = Write(ps) /\ WriteContent
    BY <1>1, <1>3 DEF Copy
  <2>2. DOMAIN host' = DOMAIN host
    BY <2>1 DEF Write
  <2>3. ASSUME NEW x \in DOMAIN host
        PROVE  /\ host'[x] \in {-i : i \in Covering(x)} \cup {host[x]}
               /\ host'[x] \in Int
    <3>1. Len(ps) \in Nat /\ host[x] \in Int
      BY DEF Source, OpenInv, HostOK
    <3>2. CASE Write(ps)[x] = host[x]
      BY <2>1, <3>1, <3>2
    <3>3. ASSUME NEW n \in 1..Len(ps), Over(ps[n], x), Write(ps)[x] = -ps[n].item
          PROVE  /\ host'[x] \in {-i : i \in Covering(x)} \cup {host[x]}
                 /\ host'[x] \in Int
      <4>1. ps[n].item \in Covering(x) /\ ps[n].item \in Nat
        BY <3>3, WriteByte DEF Source, IsCut
      <4> QED BY <2>1, <3>3, <4>1
    <3> QED BY <3>1, <3>2, <3>3, WriteFact
  <2>4. HostOK'
    BY <2>2, <2>3 DEF OpenInv, HostOK
  <2>5. ASSUME NEW x \in DOMAIN host
        PROVE  Covering(x)' = Covering(x)
    BY <2>2 DEF Covering, At, Addr
  <2>6. WriteContent'
    <3> SUFFICES ASSUME NEW x \in DOMAIN host
                 PROVE  host'[x] \in {-i : i \in Covering(x)} \cup {before[x]}
      BY <2>2, <2>5 DEF WriteContent
    <3>1. host[x] \in {-i : i \in Covering(x)} \cup {before[x]}
      BY <2>1 DEF WriteContent
    <3> QED BY <2>3, <3>1
  <2> QED BY <1>3, <2>2, <2>4, <2>6
<1> QED BY <1>1, <1>2, <1>3

(* What remains after a copy of whole pieces is what was not copied. *)
Takes(ps) ==
    /\ \A p : Left(p) => Left(p)' \/ In(p, ps)
    /\ \A p : Left(p)' => Left(p)
    /\ \A n \in 1..Len(ps) : Left(ps[n]) /\ \A r : Left(r)' => ps[n].item <= r.item
    /\ Ordered(ps)

LEMMA CopyFinishes ==
    ASSUME OpenInv, CallInv, RunInv, pc = "running", ~short, NEW ps, Source(ps), Copy(ps),
           call.op = "read" => Inside(ps), UNCHANGED <<connector, call, before>>,
           Takes(ps), NEW p, In(p, All)
    PROVE  Left(p)' \/ Copied(p)'
<1>1. call.op \in {"read", "write"} /\ call.op' = call.op
      /\ (call.op = "read" => Buffers /\ Inside(ps))
  BY DEF CallInv
<1>2. PICK i \in 1..Len(call.data), j \in 1..Len(connector.map) :
          IsPart(p, call.data[i], i, connector.map[j])
  BY AllFacts DEF Pieces
<1>3. p.item = i /\ i \in Nat
  BY <1>2 DEF IsPart
<1>4. Left(p) \/ Copied(p)
  BY DEF RunInv
<1>5. Len(ps) \in Nat /\ \A n \in 1..Len(ps) : ps[n].item \in Nat
  BY DEF Source, IsCut
<1> SUFFICES ASSUME ~Left(p)' PROVE Copied(p)'
  OBVIOUS
<1>6. In(p, ps) \/ Copied(p)
  BY <1>4 DEF Takes
<1>7. CASE call.op = "read"
  <2>1. host' = host /\ buffer' = Read(ps)
    BY <1>7 DEF Copy
  <2>2. ASSUME NEW k \in 1..call.data[i].len, Within(Addr(i, k), p.addr, p.len)
        PROVE  Read(ps)[i][k] \in TrueBytes(i, k)
    <3> SUFFICES ASSUME Read(ps)[i][k] = buffer[i][k],
                        \A n \in 1..Len(ps) :
                            ~(ps[n].item = i /\ Within(Addr(i, k), ps[n].addr, ps[n].len))
                 PROVE  buffer[i][k] \in TrueBytes(i, k)
      BY <1>1, <1>7, ReadByte
    <3>1. ~In(p, ps)
      BY <1>3, <2>2 DEF In
    <3>2. Filled(p)
      BY <1>6, <1>7, <3>1 DEF Copied
    <3> QED BY <1>3, <2>2, <3>2 DEF Filled
  <2>3. \A k : TrueBytes(i, k)' = TrueBytes(i, k) /\ Addr(i, k)' = Addr(i, k)
    BY <2>1 DEF TrueBytes, At, Addr
  <2>4. Filled(p)'
    BY <1>3, <2>1, <2>2, <2>3 DEF Filled
  <2> QED BY <1>1, <1>7, <2>4 DEF Copied
<1>8. CASE call.op = "write"
  <2>1. host' = Write(ps) /\ DOMAIN host' = DOMAIN host
    BY <1>8 DEF Copy, Write
  <2>2. ASSUME NEW x \in DOMAIN host, Over(p, x)
        PROVE  Write(ps)[x] <= -p.item
    <3>1. ASSUME NEW n \in 1..Len(ps), Over(ps[n], x), Write(ps)[x] = -ps[n].item,
                 \A m \in 1..Len(ps) : Over(ps[m], x) => m <= n
          PROVE  Write(ps)[x] <= -p.item
      <4>1. p.item <= ps[n].item
        <5>1. CASE In(p, ps)
          <6>1. PICK m \in 1..Len(ps) : ps[m] = p
            BY <5>1 DEF In
          <6>2. m <= n
            BY <2>2, <3>1, <6>1
          <6> QED BY <6>1, <6>2 DEF Takes, Ordered
        <5>2. CASE Copied(p)
          <6>1. Written(p) /\ Left(ps[n])
            BY <1>8, <5>2 DEF Copied, Takes
          <6> QED BY <6>1 DEF Written
        <5> QED BY <1>6, <5>1, <5>2
      <4>2. p.item \in Nat /\ ps[n].item \in Nat
        BY <1>3, <1>5
      <4> QED BY <3>1, <4>1, <4>2
    <3>2. ASSUME Write(ps)[x] = host[x], \A n \in 1..Len(ps) : ~Over(ps[n], x)
          PROVE  Write(ps)[x] <= -p.item
      <4>1. ~In(p, ps)
        BY <2>2, <3>2 DEF In
      <4>2. Written(p)
        BY <1>6, <1>8, <4>1 DEF Copied
      <4> QED BY <2>2, <3>2, <4>2 DEF Written
    <3> QED BY <1>5, <3>1, <3>2, WriteFact
  <2>3. \A r : Left(r)' => p.item <= r.item
    <3>1. CASE In(p, ps)
      BY <3>1 DEF In, Takes
    <3>2. CASE Copied(p)
      <4>1. Written(p)
        BY <1>8, <3>2 DEF Copied
      <4> QED BY <4>1 DEF Written, Takes
    <3> QED BY <1>6, <3>1, <3>2
  <2>4. Written(p)'
    BY <2>1, <2>2, <2>3 DEF Written
  <2> QED BY <1>1, <1>8, <2>4 DEF Copied
<1> QED BY <1>1, <1>7, <1>8

----------------------------------------------------------------------------
(* What the invariant says *)

LEMMA ReadsAreTrue ==
    ASSUME TransferInv
    PROVE  ReadIsTrue
<1> USE DEF TransferInv
<1> SUFFICES ASSUME pc = "done", call.op = "read",
                    NEW i \in DOMAIN call.data, NEW k \in 1..call.data[i].len
             PROVE  LET true == TrueBytes(i, k) IN
                    IF result = "ok" /\ ~short /\ true # {} THEN buffer[i][k] \in true
                    ELSE buffer[i][k] \in true \cup {Untouched}
  BY Zenon DEF ReadIsTrue, TrueBytes
<1>1. i \in 1..Len(call.data)
  BY DEF CallInv
<1>2. buffer[i][k] \in TrueBytes(i, k) \cup {Untouched}
  BY <1>1 DEF CallInv, ReadContent
<1>3. ASSUME result = "ok", ~short, TrueBytes(i, k) # {}
      PROVE  buffer[i][k] \in TrueBytes(i, k)
  <2>1. PICK x \in At(Addr(i, k)) : TRUE
    BY <1>3 DEF TrueBytes
  <2>2. PICK p : In(p, All) /\ Carries(p, i, Addr(i, k), x)
    BY <1>1, AtIsCarried
  <2>3. Filled(p)
    BY <1>3, <2>2 DEF DoneInv, Copied
  <2>4. p.item = i /\ Within(Addr(i, k), p.addr, p.len)
    BY <2>2 DEF Carries
  <2> QED BY <2>3, <2>4 DEF Filled
<1> QED BY <1>2, <1>3

LEMMA WritesAreTrue ==
    ASSUME TransferInv
    PROVE  WriteIsTrue
<1> USE DEF TransferInv
<1> SUFFICES ASSUME pc = "done", call.op = "write", NEW x \in DOMAIN host
             PROVE  /\ host[x] \in {-i : i \in Covering(x)} \cup {before[x]}
                    /\ (result = "ok" /\ ~short /\ Covering(x) # {}) =>
                            \A i \in Covering(x) : host[x] <= -i
  BY DEF WriteIsTrue
<1>1. host[x] \in {-i : i \in Covering(x)} \cup {before[x]}
  BY DEF CallInv, WriteContent
<1>2. ASSUME result = "ok", ~short, NEW i \in Covering(x)
      PROVE  host[x] <= -i
  <2>1. PICK k \in 1..call.data[i].len : i \in DOMAIN call.data /\ x \in At(Addr(i, k))
    BY DEF Covering
  <2>2. i \in 1..Len(call.data)
    BY <2>1 DEF CallInv
  <2>3. Addr(i, k) \in Nat /\ \E p : In(p, All) /\ Carries(p, i, Addr(i, k), x)
    BY <2>1, <2>2, AtIsCarried
  <2>4. PICK p : In(p, All) /\ Carries(p, i, Addr(i, k), x)
    BY <2>3
  <2>5. Written(p) /\ p.item = i
    BY <1>2, <2>4 DEF DoneInv, Copied, Carries
  <2>6. IsCut(p)
    <3>1. p \in Piece
      <4>1. All \in Seq(Piece)
        BY AllFacts DEF Pieces
      <4> QED BY <2>4, <4>1 DEF In
    <3> QED BY <3>1, PieceFacts
  <2>7. Over(p, x)
    <3> DEFINE a == Addr(i, k)
               P == p.addr
               R == p.real
               L == p.len
    <3>1. P \in Nat /\ R \in Nat /\ L \in Nat /\ a \in Nat /\ P <= a /\ a < P + L /\ x = R + a - P
      BY <2>3, <2>4, <2>6 DEF IsCut, Carries, Within
    <3> HIDE DEF a, P, R, L
    <3>2. x \in R..(R + L - 1)
      BY <3>1
    <3> QED BY <3>2 DEF Over, R, L
  <2> QED BY <2>5, <2>7 DEF Written
<1> QED BY <1>1, <1>2

LEMMA MapStaysInside ==
    ASSUME TransferInv
    PROVE  MapInside
<1> USE DEF TransferInv
<1> DEFINE map == connector.map
<1>1. IsMap(map) /\ DOMAIN map = 1..Len(map) /\ Len(map) \in Nat
  BY DEF OpenInv, IsMap
<1>2. ASSUME \/ connector.kind \in {"mmap", "mmap_mut"}
             \/ /\ connector.kind = "qemu"
                /\ machine(connector.process) = "q35" \/ connector.process.size >= gb3,
             NEW m \in ToSet(map)
      PROVE  m.real + m.len <= Cardinality(DOMAIN host)
  <2>1. CASE connector.kind \in {"mmap", "mmap_mut"}
    <3>1. PICK i \in 1..Len(map) : map[i] = m
      BY <1>1 DEF ToSet
    <3> QED BY <2>1, <3>1 DEF OpenInv
  <2>2. CASE connector.kind = "qemu"
    <3>1. /\ connector.process.size \in Nat /\ connector.process.size >= mb1
          /\ map = with_process(connector.process)
          /\ DOMAIN host = 0..(connector.process.size - 1)
      BY <2>2 DEF OpenInv, QemuOpened
    <3>2. ToSet(map) = MappingsOf(connector.process)
      BY <3>1, ProcessMap
    <3>3. m.real + m.len <= connector.process.size
      <4>1. machine(connector.process) = "q35" \/ connector.process.size >= gb3
        BY <1>2, <2>2
      <4> QED BY <3>1, <3>2, <4>1, MachineInside
    <3>4. Cardinality(0..(connector.process.size - 1)) = connector.process.size
      <4> DEFINE n == connector.process.size
      <4>1. n \in Nat /\ 0 \in Int /\ n - 1 \in Int
        BY <3>1
      <4> HIDE DEF n
      <4>2. Cardinality(0..(n - 1)) = IF 0 > n - 1 THEN 0 ELSE (n - 1) - 0 + 1
        BY <4>1, FS_Interval
      <4>3. Cardinality(0..(n - 1)) = n
        BY <4>1, <4>2
      <4> QED BY <4>3 DEF n
    <3> QED BY <3>1, <3>3, <3>4
  <2> QED BY <1>2, <2>1, <2>2
<1>3. ASSUME NEW m \in ToSet(map)
      PROVE  m.base + m.len <= metadata(map)
  <2>1. PICK i \in 1..Len(map) : map[i] = m
    BY <1>1 DEF ToSet
  <2> DEFINE l == Len(map)
  <2>2. l \in 1..Len(map) /\ Last(map) = map[l]
    BY <1>1, <2>1 DEF Last
  <2>3. map[l].base \in Nat /\ map[l].len \in Nat /\ m.base \in Nat /\ m.len \in Nat
    BY <1>1, <2>1, <2>2, MappingsOfMap
  <2>4. CASE i = l
    BY <2>1, <2>2, <2>3, <2>4 DEF metadata
  <2>5. CASE i # l
    <3>1. i < l
      BY <1>1, <2>1, <2>5
    <3>2. m.base + m.len <= map[l].base
      BY <1>1, <2>1, <2>2, <3>1 DEF IsMap
    <3> QED BY <2>2, <2>3, <3>2 DEF metadata
  <2> QED BY <2>4, <2>5
<1> QED BY <1>2, <1>3 DEF MapInside

----------------------------------------------------------------------------
(* The steps of a call *)

LEMMA OpenKept ==
    ASSUME OpenInv, connector' = connector, connector # Closed, HostOK', DOMAIN host' = DOMAIN host
    PROVE  OpenInv'
BY DEF OpenInv

LEMMA HeadAndTail ==
    ASSUME NEW s \in Seq(Piece), s # <<>>, Ordered(s)
    PROVE  /\ Head(s) \in Piece /\ In(Head(s), s)
           /\ Tail(s) \in Seq(Piece) /\ Ordered(Tail(s))
           /\ \A p : In(p, s) <=> p = Head(s) \/ In(p, Tail(s))
           /\ \A p : In(p, s) => Head(s).item <= p.item
<1>1. /\ Len(s) \in Nat /\ Len(s) > 0 /\ Head(s) = s[1] /\ 1 \in 1..Len(s) /\ s[1] \in Piece
      /\ Tail(s) \in Seq(Piece) /\ Len(Tail(s)) = Len(s) - 1
      /\ \A i \in 1..(Len(s) - 1) : Tail(s)[i] = s[i + 1]
  OBVIOUS
<1>2. \A p : In(p, s) => Head(s).item <= p.item
  <2> SUFFICES ASSUME NEW i \in 1..Len(s) PROVE s[1].item <= s[i].item
    BY <1>1 DEF In
  <2>1. 1 <= i
    OBVIOUS
  <2> QED BY <1>1, <2>1 DEF Ordered
<1>3. ASSUME NEW p, In(p, s)
      PROVE  p = Head(s) \/ In(p, Tail(s))
  <2>1. PICK i \in 1..Len(s) : s[i] = p
    BY <1>3 DEF In
  <2>2. CASE i = 1
    BY <1>1, <2>1, <2>2
  <2>3. CASE i # 1
    <3>1. i - 1 \in 1..(Len(s) - 1) /\ (i - 1) + 1 = i
      BY <1>1, <2>3
    <3>2. Tail(s)[i - 1] = p
      BY <1>1, <2>1, <3>1
    <3> QED BY <1>1, <3>1, <3>2 DEF In
  <2> QED BY <2>2, <2>3
<1>4. ASSUME NEW p, In(p, Tail(s))
      PROVE  In(p, s)
  <2>1. PICK i \in 1..(Len(s) - 1) : Tail(s)[i] = p
    BY <1>1, <1>4 DEF In
  <2>2. i + 1 \in 1..Len(s) /\ s[i + 1] = p
    BY <1>1, <2>1
  <2> QED BY <2>2 DEF In
<1>5. Ordered(Tail(s))
  <2> SUFFICES ASSUME NEW k \in 1..(Len(s) - 1), NEW l \in 1..(Len(s) - 1), k <= l
               PROVE  Tail(s)[k].item <= Tail(s)[l].item
    BY <1>1 DEF Ordered
  <2>1. k + 1 \in 1..Len(s) /\ l + 1 \in 1..Len(s) /\ k + 1 <= l + 1
    BY <1>1
  <2>2. s[k + 1].item <= s[l + 1].item
    BY <2>1 DEF Ordered
  <2> QED BY <1>1, <2>2
<1>6. In(Head(s), s)
  BY <1>1 DEF In
<1> QED BY <1>1, <1>2, <1>3, <1>4, <1>5, <1>6

(* The state of the loop after a step. *)
Rest ==
    /\ iov' \in Seq(Piece) /\ Len(iov') <= IovMax /\ pieces' \in Seq(Piece)
    /\ connector.kind # "qemu" => iov' = <<>>
    /\ \A p : Left(p)' => Left(p)
    /\ Ordered(iov') /\ Ordered(pieces')
    /\ \A p, q : In(p, iov') /\ In(q, pieces') => p.item <= q.item
    /\ pc' \in {"running", "done"} /\ result' \in {"ok", "error"}
    /\ short' \in BOOLEAN /\ faults' \in 0..MaxFaults

(* A step that copies. *)
LEMMA CopyStep ==
    ASSUME TransferInv, pc = "running", NEW ps, Source(ps), Copy(ps),
           call.op = "read" => Inside(ps), UNCHANGED <<connector, call, before>>,
           Rest, ~short' => ~short /\ Takes(ps),
           pc' = "done" => \A p : ~Left(p)'
    PROVE  TransferInv'
<1> USE DEF TransferInv
<1>1. connector # Closed /\ call.op \in {"read", "write"}
  BY DEF OpenInv, CallInv
<1>2. /\ DOMAIN host' = DOMAIN host /\ HostOK'
      /\ call.op = "read" => host' = host /\ Buffers' /\ ReadContent'
      /\ call.op = "write" => WriteContent'
  BY CopyKeeps
<1>3. OpenInv'
  BY <1>1, <1>2, OpenKept
<1>4. CallInv'
  BY <1>1, <1>2 DEF CallInv, Rest
<1>5. All' = All
  BY DEF All
<1>6. \A p : In(p, All)' <=> In(p, All)
  BY <1>5 DEF In
<1>7. ~short' => \A p : In(p, All) => Left(p)' \/ Copied(p)'
  <2> SUFFICES ASSUME ~short', NEW p, In(p, All) PROVE Left(p)' \/ Copied(p)'
    OBVIOUS
  <2>1. ~short /\ Takes(ps)
    OBVIOUS
  <2> QED BY <2>1, CopyFinishes
<1>8. RunInv'
  <2>1. \A p : Left(p)' => In(p, All)
    BY DEF Rest, RunInv
  <2> QED BY <1>6, <1>7, <2>1 DEF RunInv, Rest, In, Ordered
<1>9. DoneInv'
  BY <1>6, <1>7 DEF DoneInv
<1>10. ConnectorsTypeOK'
  BY <1>2 DEF ConnectorsTypeOK, Rest, HostOK
<1> QED BY <1>3, <1>4, <1>8, <1>9, <1>10

(* A step that copies nothing. *)
LEMMA QuietStep ==
    ASSUME TransferInv, pc = "running",
           UNCHANGED <<connector, host, call, buffer, before, short>>,
           Rest, \A p : Left(p) => Left(p)',
           pc' = "done" /\ result' = "ok" => \A p : ~Left(p)'
    PROVE  TransferInv'
<1> USE DEF TransferInv
<1>1. connector # Closed /\ call.op \in {"read", "write"}
  BY DEF OpenInv, CallInv
<1>2. HostOK'
  BY DEF OpenInv, HostOK
<1>3. OpenInv'
  BY <1>1, <1>2, OpenKept
<1>4. /\ \A i, k : TrueBytes(i, k)' = TrueBytes(i, k) /\ Addr(i, k)' = Addr(i, k)
      /\ \A x : Covering(x)' = Covering(x)
  BY DEF TrueBytes, Covering, At, Addr
<1>5. /\ Buffers => Buffers'
      /\ ReadContent => ReadContent'
      /\ WriteContent => WriteContent'
  BY <1>4 DEF Buffers, ReadContent, WriteContent
<1>6. CallInv'
  BY <1>1, <1>5 DEF CallInv, Rest
<1>7. \A p : In(p, All)' <=> In(p, All)
  BY DEF In, All
<1>8. \A p : Copied(p) => Copied(p)'
  <2> SUFFICES ASSUME NEW p, Copied(p) PROVE Copied(p)'
    OBVIOUS
  <2>1. Filled(p) => Filled(p)'
    BY <1>4 DEF Filled
  <2>2. Written(p) => Written(p)'
    BY DEF Written, Rest
  <2> QED BY <2>1, <2>2 DEF Copied
<1>9. RunInv'
  <2>1. \A p : Left(p)' => In(p, All)
    BY DEF Rest, RunInv
  <2>2. ~short => \A p : In(p, All) => Left(p)' \/ Copied(p)'
    BY <1>8 DEF RunInv
  <2> QED BY <1>7, <2>1, <2>2 DEF RunInv, Rest, In, Ordered
<1>10. DoneInv'
  <2> SUFFICES ASSUME pc' = "done", result' = "ok", ~short', NEW p, In(p, All)
               PROVE  Copied(p)'
    BY <1>7 DEF DoneInv
  <2>1. Left(p) \/ Copied(p)
    BY DEF RunInv
  <2> QED BY <1>8, <2>1
<1>11. ConnectorsTypeOK'
  BY DEF ConnectorsTypeOK, Rest
<1> QED BY <1>3, <1>6, <1>9, <1>10, <1>11

(* What is known while a call runs. *)
LEMMA Running1 ==
    ASSUME TransferInv, pc = "running"
    PROVE  /\ iov \in Seq(Piece) /\ pieces \in Seq(Piece) /\ Len(iov) <= IovMax
           /\ Ordered(iov) /\ Ordered(pieces) /\ (connector.kind # "qemu" => iov = <<>>)
           /\ \A p, q : In(p, iov) /\ In(q, pieces) => p.item <= q.item
           /\ result \in {"ok", "error"} /\ short \in BOOLEAN /\ faults \in 0..MaxFaults
           /\ call.op \in {"read", "write"}
           /\ IovMax \in Nat \ {0} /\ MaxFaults \in Nat
BY IovAssumption DEF TransferInv, ConnectorsTypeOK, CallInv, RunInv

LEMMA Nobody == Ordered(<<>>) /\ (\A p : ~In(p, <<>>)) /\ <<>> \in Seq(Piece) /\ Len(<<>>) = 0
BY DEF Ordered, In

(* The pieces of the call are parts of it. *)
LEMMA LeftAreSources ==
    ASSUME TransferInv, pc = "running", NEW p, Left(p)
    PROVE  /\ p \in Piece
           /\ \E i \in 1..Len(call.data), j \in 1..Len(connector.map) :
                 IsPart(p, call.data[i], i, connector.map[j])
<1> USE DEF TransferInv
<1>1. In(p, All)
  BY DEF RunInv
<1>2. Pieces(connector.map, call.data, All)
  BY AllFacts
<1>3. All \in Seq(Piece)
  BY <1>2 DEF Pieces
<1>4. p \in Piece
  BY <1>1, <1>3 DEF In
<1>5. \E i \in 1..Len(call.data), j \in 1..Len(connector.map) :
          IsPart(p, call.data[i], i, connector.map[j])
  BY ONLY <1>1, <1>2 DEF Pieces
<1> QED BY <1>4, <1>5

LEMMA SourceOf ==
    ASSUME TransferInv, pc = "running", NEW ps, Len(ps) \in Nat, \A n \in 1..Len(ps) : Left(ps[n])
    PROVE  Source(ps)
<1> SUFFICES ASSUME NEW n \in 1..Len(ps)
             PROVE  /\ IsCut(ps[n])
                    /\ \E i \in 1..Len(call.data), j \in 1..Len(connector.map) :
                          IsPart(ps[n], call.data[i], i, connector.map[j])
  BY DEF Source
<1>1. Left(ps[n])
  OBVIOUS
<1> QED BY <1>1, LeftAreSources, PieceFacts

(* The pieces of a mapped buffer are inside of it. *)
LEMMA MappedInside ==
    ASSUME TransferInv, pc = "running", connector.kind \in {"mmap", "mmap_mut"}, NEW p, Left(p)
    PROVE  InHost(p)
<1> USE DEF TransferInv
<1>1. p \in Piece
  BY LeftAreSources
<1>2. PICK i \in 1..Len(call.data), j \in 1..Len(connector.map) :
          IsPart(p, call.data[i], i, connector.map[j])
  BY LeftAreSources
<1> DEFINE m == connector.map[j]
<1>3. m.real + m.len <= Cardinality(DOMAIN host) /\ Cardinality(DOMAIN host) \in Nat
  BY DEF OpenInv, HostOK
<1>4. m.base \in Nat /\ m.len \in Nat /\ m.real \in Nat
  BY MappingsOfMap DEF OpenInv
<1>5. p.addr \in Nat /\ p.len \in Nat
  BY <1>1, PieceFacts DEF IsCut
<1>6. p.addr + p.len <= m.base + m.len /\ p.real = m.real + p.addr - m.base
  BY <1>2 DEF IsPart
<1> DEFINE A == p.addr
           L == p.len
           B == m.base
           N == m.len
           R == m.real
           C == Cardinality(DOMAIN host)
<1>7. /\ A \in Nat /\ L \in Nat /\ B \in Nat /\ N \in Nat /\ R \in Nat /\ C \in Nat
      /\ A + L <= B + N /\ R + N <= C /\ p.real = R + A - B
  BY <1>3, <1>4, <1>5, <1>6
<1> HIDE DEF A, L, B, N, R, C
<1>8. p.real + L <= C
  BY <1>7
<1> QED BY <1>8 DEF InHost, L, C

LEMMA MappedCopyKeeps == ASSUME TransferInv, MappedCopy PROVE TransferInv'
<1>1. /\ pc = "running" /\ connector.kind \in {"mmap", "mmap_mut"}
      /\ Copy(pieces) /\ pieces' = <<>> /\ pc' = "done" /\ result' = "ok"
      /\ UNCHANGED <<connector, call, iov, before, short, faults>>
  BY DEF MappedCopy, Running, Return
<1>2. /\ iov = <<>> /\ pieces \in Seq(Piece) /\ Ordered(pieces)
      /\ short \in BOOLEAN /\ faults \in 0..MaxFaults /\ IovMax \in Nat
  BY <1>1, Running1
<1>3. \A p : Left(p) <=> In(p, pieces)
  BY <1>2, Nobody DEF Left
<1>4. \A p : ~Left(p)'
  BY <1>1, <1>2, Nobody DEF Left
<1>5. Len(pieces) \in Nat /\ \A n \in 1..Len(pieces) : Left(pieces[n])
  BY <1>2, <1>3 DEF In
<1>6. Source(pieces)
  BY <1>1, <1>5, SourceOf
<1>7. Inside(pieces)
  BY <1>1, <1>5, MappedInside DEF Inside
<1>8. Rest
  BY <1>1, <1>2, <1>4, Nobody DEF Rest
<1>9. Takes(pieces)
  BY <1>2, <1>3, <1>4, <1>5 DEF Takes
<1> QED BY <1>1, <1>4, <1>6, <1>7, <1>8, <1>9, CopyStep

LEMMA ReturnKeeps ==
    ASSUME TransferInv, pc = "running", pc' = "done", result' \in {"ok", "error"},
           result' = "ok" => \A p : ~Left(p), faults' \in 0..MaxFaults,
           UNCHANGED <<connector, host, call, pieces, iov, buffer, before, short>>
    PROVE  TransferInv'
<1>1. \A p : Left(p)' <=> Left(p)
  BY DEF Left, In
<1>2. Rest
  BY <1>1, Running1 DEF Rest, In, Ordered
<1> QED BY <1>1, <1>2, QuietStep

LEMMA MappedReadOnlyKeeps == ASSUME TransferInv, MappedReadOnly PROVE TransferInv'
<1>1. pc = "running" /\ faults \in 0..MaxFaults
  BY Running1 DEF MappedReadOnly, Running
<1> QED BY <1>1, ReturnKeeps DEF MappedReadOnly, Return

LEMMA FileFailsKeeps == ASSUME TransferInv, FileFails PROVE TransferInv'
<1>1. pc = "running" /\ faults \in 0..MaxFaults /\ MaxFaults \in Nat
  BY Running1 DEF FileFails, Running
<1>2. faults' \in 0..MaxFaults
  BY <1>1 DEF FileFails
<1> QED BY <1>1, <1>2, ReturnKeeps DEF FileFails, Return

LEMMA TransferFailsKeeps == ASSUME TransferInv, TransferFails PROVE TransferInv'
<1>1. pc = "running" /\ faults \in 0..MaxFaults /\ MaxFaults \in Nat
  BY Running1 DEF TransferFails, Running
<1>2. faults' \in 0..MaxFaults
  BY <1>1 DEF TransferFails
<1> QED BY <1>1, <1>2, ReturnKeeps DEF TransferFails, Return

LEMMA LoopEndsKeeps == ASSUME TransferInv, LoopEnds PROVE TransferInv'
<1>1. pc = "running" /\ faults \in 0..MaxFaults /\ pieces = <<>> /\ iov = <<>>
  BY Running1 DEF LoopEnds, Running, Flushes
<1>2. \A p : ~Left(p)
  BY <1>1, Nobody DEF Left
<1> QED BY <1>1, <1>2, ReturnKeeps DEF LoopEnds, Return

(* A loop of the file connector copies the first piece that is left. *)
LEMMA FileStep ==
    ASSUME TransferInv, pc = "running", connector.kind # "qemu", pieces # <<>>,
           NEW p, Source(<<p>>), Copy(<<p>>), call.op = "read" => InHost(p),
           pieces' = Tail(pieces), short' \in BOOLEAN, faults' \in 0..MaxFaults,
           ~short' => ~short /\ p = Head(pieces),
           UNCHANGED <<connector, pc, call, iov, result, before>>
    PROVE  TransferInv'
<1>1. /\ iov = <<>> /\ pieces \in Seq(Piece) /\ Ordered(pieces) /\ result \in {"ok", "error"}
      /\ IovMax \in Nat
  BY Running1
<1>2. /\ In(Head(pieces), pieces) /\ pieces' \in Seq(Piece) /\ Ordered(pieces')
      /\ \A q : In(q, pieces) <=> q = Head(pieces) \/ In(q, pieces')
      /\ \A q : In(q, pieces) => Head(pieces).item <= q.item
  BY <1>1, HeadAndTail
<1>3. iov' = <<>> /\ (\A q : Left(q) <=> In(q, pieces)) /\ (\A q : Left(q)' <=> In(q, pieces'))
  BY <1>1, Nobody DEF Left, In
<1>4. Rest
  BY <1>1, <1>2, <1>3, Nobody DEF Rest
<1>5. Len(<<p>>) = 1 /\ <<p>>[1] = p /\ 1..1 = {1}
  OBVIOUS
<1>6. call.op = "read" => Inside(<<p>>)
  BY <1>5 DEF Inside
<1>7. ASSUME p = Head(pieces)
      PROVE  Takes(<<p>>)
  <2>1. \A q : In(q, <<p>>) <=> q = p
    BY <1>5 DEF In
  <2>2. Ordered(<<p>>)
    <3>1. p.item <= p.item
      <4>1. p \in Piece
        BY <1>1, <1>7, HeadAndTail
      <4> QED BY <4>1 DEF Piece
    <3> QED BY <1>5, <3>1 DEF Ordered
  <2>3. \A n \in 1..Len(<<p>>) : Left(<<p>>[n]) /\ \A r : Left(r)' => <<p>>[n].item <= r.item
    <3>1. Left(p) /\ \A r : Left(r)' => p.item <= r.item
      BY <1>2, <1>3, <1>7
    <3> QED BY <1>5, <3>1
  <2> HIDE DEF Takes
  <2>4. /\ \A q : Left(q) => Left(q)' \/ In(q, <<p>>)
        /\ \A q : Left(q)' => Left(q)
    BY <1>2, <1>3, <1>7, <2>1
  <2> QED BY <2>2, <2>3, <2>4 DEF Takes
<1>8. ~short' => ~short /\ Takes(<<p>>)
  BY <1>7
<1> QED BY <1>4, <1>6, <1>8, CopyStep

LEMMA FilePieceKeeps == ASSUME TransferInv, FilePiece PROVE TransferInv'
<1> DEFINE p == Head(pieces)
<1>1. /\ pc = "running" /\ connector.kind # "qemu" /\ pieces # <<>> /\ InHost(p) /\ Copy(<<p>>)
      /\ pieces' = Tail(pieces)
      /\ UNCHANGED <<connector, pc, call, iov, result, before, short, faults>>
  BY DEF FilePiece, Running
<1>2. /\ short \in BOOLEAN /\ faults \in 0..MaxFaults /\ pieces \in Seq(Piece) /\ Ordered(pieces)
  BY <1>1, Running1
<1>3. Left(p)
  BY <1>1, <1>2, HeadAndTail DEF Left
<1> HIDE DEF p
<1>4. Source(<<p>>)
  <2>1. Len(<<p>>) = 1 /\ <<p>>[1] = p /\ \A n \in 1..1 : n = 1
    OBVIOUS
  <2> QED BY <1>1, <1>3, <2>1, SourceOf
<1>5. short' \in BOOLEAN /\ faults' \in 0..MaxFaults
  BY <1>1, <1>2
<1>6. ~short' => ~short /\ p = Head(pieces)
  BY <1>1 DEF p
<1> QED BY <1>1, <1>4, <1>5, <1>6, FileStep

LEMMA FileShortWriteKeeps == ASSUME TransferInv, FileShortWrite PROVE TransferInv'
<1> DEFINE h == Head(pieces)
<1>1. /\ pc = "running" /\ connector.kind # "qemu" /\ pieces # <<>> /\ call.op = "write"
      /\ faults' = faults \/ (faults < MaxFaults /\ faults' = faults + 1)
      /\ pieces' = Tail(pieces) /\ short' = TRUE
      /\ UNCHANGED <<connector, pc, call, iov, result, before>>
  BY DEF FileShortWrite, Running
<1>2. PICK n \in 0..(h.len - 1) : Copy(<<[h EXCEPT !.len = n]>>)
  BY DEF FileShortWrite
<1> DEFINE p == [h EXCEPT !.len = n]
<1>3. /\ faults \in 0..MaxFaults /\ MaxFaults \in Nat /\ pieces \in Seq(Piece) /\ Ordered(pieces)
  BY <1>1, Running1
<1>4. Left(h) /\ h \in Piece
  BY <1>1, <1>3, HeadAndTail DEF Left
<1>5. faults' \in 0..MaxFaults /\ short' \in BOOLEAN
  BY <1>1, <1>3
<1>6. PICK i \in 1..Len(call.data), j \in 1..Len(connector.map) :
          IsPart(h, call.data[i], i, connector.map[j])
  BY <1>1, <1>4, LeftAreSources
<1> HIDE DEF h
<1>7. /\ p.item = h.item /\ p.addr = h.addr /\ p.real = h.real /\ p.len = n
      /\ h.item \in Nat /\ h.addr \in Nat /\ h.real \in Nat /\ h.len \in Nat /\ n \in Nat /\ n < h.len
  BY <1>4 DEF Piece
<1> HIDE DEF p
<1>8. IsCut(p)
  BY <1>7 DEF IsCut
<1>9. IsPart(p, call.data[i], i, connector.map[j])
  <2>1. call.data[i].addr \in Nat /\ call.data[i].len \in Nat
    <3>1. call.data[i] \in Wish
      BY DEF TransferInv, CallInv
    <3> QED BY <3>1 DEF Wish
  <2>2. connector.map[j].base \in Nat /\ connector.map[j].len \in Nat
    BY MappingsOfMap DEF TransferInv, OpenInv
  <2> DEFINE w == call.data[i]
             m == connector.map[j]
             A == w.addr + w.len
             B == m.base + m.len
  <2>3. A \in Nat /\ B \in Nat /\ h.addr + h.len <= A /\ h.addr + h.len <= B
    <3>1. A \in Nat /\ B \in Nat
      <4>1. w.addr \in Nat /\ w.len \in Nat /\ m.base \in Nat /\ m.len \in Nat
        BY <2>1, <2>2
      <4> HIDE DEF w, m
      <4> QED BY <4>1
    <3>2. h.addr + h.len <= A /\ h.addr + h.len <= B
      BY <1>6 DEF IsPart
    <3> QED BY <3>1, <3>2
  <2> HIDE DEF A, B
  <2>4. p.addr + p.len <= A /\ p.addr + p.len <= B
    BY <1>7, <2>3
  <2> QED BY <1>6, <1>7, <2>4 DEF IsPart, A, B, w, m
<1>10. Source(<<p>>)
  <2>1. Len(<<p>>) = 1 /\ <<p>>[1] = p /\ \A k \in 1..1 : k = 1
    OBVIOUS
  <2> QED BY <1>8, <1>9, <2>1 DEF Source
<1>11. Copy(<<p>>)
  BY <1>2 DEF p, h
<1>12. (call.op = "read" => InHost(p)) /\ (~short' => ~short /\ p = Head(pieces))
  BY <1>1
<1> QED BY <1>1, <1>5, <1>10, <1>11, <1>12, FileStep

LEMMA Appended ==
    ASSUME NEW s \in Seq(Piece), NEW p \in Piece, Ordered(s), \A q : In(q, s) => q.item <= p.item
    PROVE  /\ Append(s, p) \in Seq(Piece) /\ Len(Append(s, p)) = Len(s) + 1
           /\ Ordered(Append(s, p))
           /\ \A q : In(q, Append(s, p)) <=> In(q, s) \/ q = p
<1> DEFINE t == Append(s, p)
           n == Len(s)
<1>1. /\ t \in Seq(Piece) /\ Len(t) = n + 1 /\ n \in Nat /\ t[n + 1] = p
      /\ \A i \in 1..n : t[i] = s[i]
  OBVIOUS
<1> HIDE DEF t, n
<1>2. 1..(n + 1) = (1..n) \cup {n + 1}
  BY <1>1
<1>3. \A q : In(q, t) <=> In(q, s) \/ q = p
  BY <1>1, <1>2 DEF In, n
<1>4. \A i \in 1..(n + 1) : t[i].item <= p.item
  <2>1. p.item <= p.item
    BY DEF Piece
  <2>2. \A i \in 1..n : In(s[i], s)
    BY DEF In, n
  <2> QED BY <1>1, <1>2, <2>1, <2>2
<1>5. ASSUME NEW k \in 1..(n + 1), NEW l \in 1..(n + 1), k <= l
      PROVE  t[k].item <= t[l].item
  <2>1. CASE l = n + 1
    BY <1>1, <1>4, <2>1
  <2>2. CASE l # n + 1
    <3>1. k \in 1..n /\ l \in 1..n
      BY <1>1, <1>5, <2>2
    <3> QED BY <1>1, <1>5, <3>1 DEF Ordered, n
  <2> QED BY <2>1, <2>2
<1>6. Ordered(t)
  BY <1>1, <1>5 DEF Ordered
<1> QED BY <1>1, <1>3, <1>6 DEF t, n

LEMMA FillIovecKeeps == ASSUME TransferInv, FillIovec PROVE TransferInv'
<1> DEFINE h == Head(pieces)
<1>1. /\ pc = "running" /\ connector.kind = "qemu" /\ pieces # <<>> /\ Len(iov) # IovMax
      /\ iov' = Append(iov, h) /\ pieces' = Tail(pieces)
      /\ UNCHANGED <<connector, host, pc, call, buffer, result, before, short, faults>>
  BY DEF FillIovec, Running, Full
<1>2. /\ iov \in Seq(Piece) /\ pieces \in Seq(Piece) /\ Len(iov) <= IovMax
      /\ Ordered(iov) /\ Ordered(pieces)
      /\ \A p, q : In(p, iov) /\ In(q, pieces) => p.item <= q.item
      /\ result \in {"ok", "error"} /\ short \in BOOLEAN /\ faults \in 0..MaxFaults
      /\ IovMax \in Nat
  BY <1>1, Running1
<1>3. /\ h \in Piece /\ In(h, pieces) /\ pieces' \in Seq(Piece) /\ Ordered(pieces')
      /\ \A p : In(p, pieces) <=> p = h \/ In(p, pieces')
      /\ \A p : In(p, pieces) => h.item <= p.item
  BY <1>1, <1>2, HeadAndTail
<1> HIDE DEF h
<1>4. /\ iov' \in Seq(Piece) /\ Len(iov') = Len(iov) + 1 /\ Ordered(iov')
      /\ \A q : In(q, iov') <=> In(q, iov) \/ q = h
  <2>1. \A q : In(q, iov) => q.item <= h.item
    BY <1>2, <1>3
  <2> QED BY <1>1, <1>2, <1>3, <2>1, Appended
<1>5. Len(iov') <= IovMax
  <2>1. Len(iov) \in Nat
    BY <1>2
  <2> QED BY <1>1, <1>2, <1>4, <2>1
<1>6. \A p : Left(p)' <=> Left(p)
  <2>1. \A p : Left(p)' <=> In(p, iov') \/ In(p, pieces')
    BY DEF Left, In
  <2> QED BY <1>3, <1>4, <2>1 DEF Left
<1>7. \A p, q : In(p, iov') /\ In(q, pieces') => p.item <= q.item
  BY <1>2, <1>3, <1>4
<1>8. Rest
  BY <1>1, <1>2, <1>3, <1>4, <1>5, <1>6, <1>7 DEF Rest
<1> QED BY <1>1, <1>6, <1>8, QuietStep

(* A call of the kernel copies entries of iov and drops all of them.       *)
LEMMA IovecStep ==
    ASSUME TransferInv, pc = "running", NEW ps, Source(ps), Copy(ps), Inside(ps),
           iov' = <<>>, short' \in BOOLEAN, faults' \in 0..MaxFaults,
           ~short' => ~short /\ ps = iov,
           UNCHANGED <<connector, pc, call, pieces, result, before>>
    PROVE  TransferInv'
<1>1. /\ iov \in Seq(Piece) /\ pieces \in Seq(Piece) /\ Ordered(iov) /\ Ordered(pieces)
      /\ \A p, q : In(p, iov) /\ In(q, pieces) => p.item <= q.item
      /\ result \in {"ok", "error"} /\ IovMax \in Nat
  BY Running1
<1>2. \A p : Left(p)' <=> In(p, pieces)
  BY Nobody DEF Left, In
<1>3. Rest
  BY <1>1, <1>2, Nobody DEF Rest, Left
<1>4. Takes(iov)
  <2>1. \A n \in 1..Len(iov) : In(iov[n], iov)
    BY DEF In
  <2> QED BY <1>1, <1>2, <2>1 DEF Takes, Left
<1> QED BY <1>3, <1>4, CopyStep

LEMMA TransferKeeps == ASSUME TransferInv, Transfer PROVE TransferInv'
<1>1. /\ pc = "running" /\ \A i \in DOMAIN iov : InHost(iov[i])
      /\ Copy(iov) /\ iov' = <<>>
      /\ UNCHANGED <<connector, pc, call, pieces, result, before, short, faults>>
  BY DEF Transfer, Running
<1>2. iov \in Seq(Piece) /\ short \in BOOLEAN /\ faults \in 0..MaxFaults
  BY <1>1, Running1
<1>3. Len(iov) \in Nat /\ DOMAIN iov = 1..Len(iov) /\ \A n \in 1..Len(iov) : Left(iov[n])
  BY <1>2 DEF Left, In
<1>4. Source(iov) /\ Inside(iov)
  BY <1>1, <1>3, SourceOf DEF Inside
<1>5. short' \in BOOLEAN /\ faults' \in 0..MaxFaults /\ (~short' => ~short /\ iov = iov)
  BY <1>1, <1>2
<1> QED BY <1>1, <1>4, <1>5, IovecStep

LEMMA TransferShortKeeps == ASSUME TransferInv, TransferShort PROVE TransferInv'
<1>1. /\ pc = "running" /\ iov' = <<>> /\ short' = TRUE
      /\ UNCHANGED <<connector, pc, call, pieces, result, before>>
  BY DEF TransferShort, Running
<1>2. PICK n \in 1..(Len(iov) - 1) :
          /\ \A i \in 1..n : InHost(iov[i])
          /\ faults' = faults \/ (faults < MaxFaults /\ faults' = faults + 1)
          /\ Copy(SubSeq(iov, 1, n))
  BY DEF TransferShort
<1>3. iov \in Seq(Piece) /\ faults \in 0..MaxFaults /\ MaxFaults \in Nat
  BY <1>1, Running1
<1>4. /\ Len(iov) \in Nat /\ n \in Nat /\ n <= Len(iov) /\ Len(SubSeq(iov, 1, n)) = n
      /\ \A i \in 1..n : SubSeq(iov, 1, n)[i] = iov[i] /\ i \in 1..Len(iov)
  BY <1>3
<1> DEFINE ps == SubSeq(iov, 1, n)
<1> HIDE DEF ps
<1>5. Len(ps) = n /\ n \in Nat /\ \A i \in 1..n : ps[i] = iov[i] /\ i \in 1..Len(iov)
  BY <1>4 DEF ps
<1>6. \A i \in 1..Len(ps) : Left(ps[i]) /\ InHost(ps[i])
  BY <1>2, <1>5 DEF Left, In
<1>7. Source(ps) /\ Inside(ps) /\ Copy(ps)
  BY <1>1, <1>2, <1>5, <1>6, SourceOf DEF Inside, ps
<1>8. short' \in BOOLEAN /\ faults' \in 0..MaxFaults /\ (~short' => ~short /\ ps = iov)
  BY <1>1, <1>2, <1>3
<1> QED BY <1>1, <1>7, <1>8, IovecStep

----------------------------------------------------------------------------
(* Opening a connector and beginning a call *)

LEMMA FreshHost ==
    ASSUME NEW n \in Nat
    PROVE  /\ DOMAIN Bytes(n) = 0..(n - 1) /\ Cardinality(DOMAIN Bytes(n)) = n
           /\ \A x \in DOMAIN Bytes(n) : Bytes(n)[x] \in Int
<1>1. DOMAIN Bytes(n) = 0..(n - 1) /\ \A x \in 0..(n - 1) : Bytes(n)[x] = x
  BY DEF Bytes
<1>2. Cardinality(0..(n - 1)) = n
  <2>1. 0 \in Int /\ n - 1 \in Int
    OBVIOUS
  <2>2. Cardinality(0..(n - 1)) = IF 0 > n - 1 THEN 0 ELSE (n - 1) - 0 + 1
    BY <2>1, FS_Interval
  <2> QED BY <2>2
<1> QED BY <1>1, <1>2

(* Whatever is opened: a map of distinct bytes, over a host of n bytes.    *)
LEMMA OpenedKeeps ==
    ASSUME TransferInv, connector = Closed, UNCHANGED <<transfer, faults>>,
           NEW n \in Nat, host' = Bytes(n), IsMap(connector'.map),
           connector'.kind \in {"mmap", "mmap_mut", "fileio", "qemu"},
           connector'.kind \in {"mmap", "mmap_mut"} => \A i \in 1..Len(connector'.map) :
               connector'.map[i].real + connector'.map[i].len <= n,
           connector'.kind = "qemu" => QemuOpened(connector') /\ connector'.process.size = n
    PROVE  TransferInv'
<1> USE DEF TransferInv
<1>1. pc = "idle" /\ pc' = "idle"
  BY DEF OpenInv, transfer
<1>2. Cardinality(DOMAIN host') = n /\ DOMAIN host' = 0..(n - 1) /\ \A x \in DOMAIN host' : host'[x] \in Int
  BY FreshHost
<1>3. HostOK'
  BY <1>2 DEF HostOK
<1>4. OpenInv'
  <2>1. connector'.kind = "qemu" => QemuOpened(connector)'
    BY DEF QemuOpened
  <2>2. IsMap(connector.map)'
    BY DEF IsMap
  <2> QED BY <1>1, <1>2, <1>3, <2>1, <2>2 DEF OpenInv
<1>5. CallInv'
  BY <1>1 DEF CallInv, transfer
<1>6. RunInv' /\ DoneInv'
  BY <1>1 DEF RunInv, DoneInv
<1>7. ConnectorsTypeOK'
  BY <1>2 DEF ConnectorsTypeOK, transfer
<1> QED BY <1>4, <1>5, <1>6, <1>7

LEMMA GivenMap ==
    ASSUME NEW m \in Maps
    PROVE  IsMap(m) /\ DOMAIN m = 1..Len(m) /\ Len(m) \in Nat
<1>1. m \in Seq(Mapping)
  BY MapsAssumption DEF Mapping
<1>2. DOMAIN m = 1..Len(m) /\ Len(m) \in Nat
  BY <1>1
<1>3. \A i, j \in DOMAIN m : i < j => m[i].base + m[i].len <= m[j].base
  BY MapsAssumption
<1> QED BY <1>1, <1>2, <1>3 DEF IsMap

LEMMA OpenMappedKeeps == ASSUME TransferInv, OpenMapped PROVE TransferInv'
<1>1. PICK m \in Maps, n \in FileLens, kind \in {"mmap", "mmap_mut"} :
          /\ \A i \in DOMAIN m : m[i].real + m[i].len <= n
          /\ Opened(kind, m, n, <<>>, Nothing)
  BY DEF OpenMapped
<1>2. /\ connector = Closed /\ connector'.kind = kind /\ connector'.map = m
      /\ host' = Bytes(n) /\ UNCHANGED <<transfer, faults>> /\ n \in Nat
  BY <1>1, ListsAssumption DEF OpenMapped, Opened
<1>3. IsMap(m) /\ \A i \in 1..Len(m) : m[i].real + m[i].len <= n
  BY <1>1, GivenMap
<1>4. connector'.kind \in {"mmap", "mmap_mut", "fileio", "qemu"} /\ connector'.kind # "qemu"
  BY <1>2
<1> QED BY <1>2, <1>3, <1>4, OpenedKeeps

LEMMA OpenFileIOKeeps == ASSUME TransferInv, OpenFileIO PROVE TransferInv'
<1>1. PICK m \in Maps, n \in FileLens : Opened("fileio", m, n, <<>>, Nothing)
  BY DEF OpenFileIO
<1>2. /\ connector = Closed /\ connector'.kind = "fileio" /\ connector'.map = m
      /\ host' = Bytes(n) /\ UNCHANGED <<transfer, faults>> /\ n \in Nat
  BY <1>1, ListsAssumption DEF OpenFileIO, Opened
<1>3. IsMap(m)
  BY GivenMap
<1> QED BY <1>2, <1>3, OpenedKeeps

(* A mapping that was cut at the end of the file is one inside of it.      *)
LEMMA CutMapping ==
    ASSUME NEW m \in Mapping, NEW n \in Nat, m.real < n
    PROVE  /\ cut_to_buffer(m, n) \in Mapping
           /\ cut_to_buffer(m, n).base = m.base
           /\ cut_to_buffer(m, n).len <= m.len
           /\ cut_to_buffer(m, n).real + cut_to_buffer(m, n).len <= n
<1> DEFINE l == IF m.real + m.len <= n THEN m.len ELSE n - m.real
           c == cut_to_buffer(m, n)
<1>1. m.base \in Nat /\ m.real \in Nat /\ m.len \in Nat /\ m.len > 0
  BY DEF Mapping
<1>2. l \in Nat \ {0} /\ l <= m.len /\ m.real + l <= n
  BY <1>1
<1> HIDE DEF l
<1>3. c \in Mapping /\ c.base = m.base /\ c.len = l /\ c.real = m.real
  <2>1. c = [m EXCEPT !.len = l]
    BY DEF cut_to_buffer, l
  <2> HIDE DEF c
  <2> QED BY <1>2, <2>1 DEF Mapping
<1> QED BY <1>2, <1>3

LEMMA OpenFileMapKeeps == ASSUME TransferInv, OpenFileMap PROVE TransferInv'
<1>1. PICK m \in Maps, n \in FileLens, kind \in {"mmap", "mmap_mut"} :
          /\ \A i \in DOMAIN m : m[i].real < n
          /\ Opened(kind, [i \in DOMAIN m |-> cut_to_buffer(m[i], n)], n, <<>>, Nothing)
  BY DEF OpenFileMap
<1> DEFINE map == [i \in DOMAIN m |-> cut_to_buffer(m[i], n)]
<1>2. /\ connector = Closed /\ connector'.kind = kind /\ connector'.map = map
      /\ host' = Bytes(n) /\ UNCHANGED <<transfer, faults>> /\ n \in Nat
  BY <1>1, ListsAssumption DEF OpenFileMap, Opened
<1>3. IsMap(m) /\ DOMAIN m = 1..Len(m) /\ Len(m) \in Nat
  BY GivenMap
<1>4. ASSUME NEW i \in 1..Len(m)
      PROVE  /\ cut_to_buffer(m[i], n) \in Mapping
             /\ cut_to_buffer(m[i], n).base = m[i].base
             /\ cut_to_buffer(m[i], n).len <= m[i].len
             /\ cut_to_buffer(m[i], n).real + cut_to_buffer(m[i], n).len <= n
  <2>1. m[i] \in Mapping /\ m[i].real < n
    BY <1>1, <1>3, MappingsOfMap
  <2> QED BY <1>2, <2>1, CutMapping
<1>5. /\ map \in Seq(Mapping) /\ Len(map) = Len(m)
      /\ \A i \in 1..Len(m) : map[i] = cut_to_buffer(m[i], n)
  BY <1>3, <1>4
<1> HIDE DEF map
<1>6. \A i \in 1..Len(map) : map[i].real + map[i].len <= n
  BY <1>4, <1>5
<1>7. ASSUME NEW i \in 1..Len(map), NEW j \in 1..Len(map), i < j
      PROVE  map[i].base + map[i].len <= map[j].base
  <2>1. m[i].base + m[i].len <= m[j].base
    BY <1>3, <1>5, <1>7 DEF IsMap
  <2>2. map[i].base = m[i].base /\ map[j].base = m[j].base /\ map[i].len <= m[i].len
    BY <1>4, <1>5
  <2>3. m[i].base \in Nat /\ m[i].len \in Nat /\ m[j].base \in Nat
    BY <1>3, <1>5, MappingsOfMap
  <2>4. map[i] \in Mapping
    BY <1>5
  <2>5. map[i].len \in Nat
    BY <2>4 DEF Mapping
  <2> DEFINE B == m[i].base
             C == m[j].base
             L == m[i].len
             K == map[i].len
  <2>6. B \in Nat /\ C \in Nat /\ L \in Nat /\ K \in Nat /\ B + L <= C /\ K <= L
    BY ONLY <2>1, <2>2, <2>3, <2>5
  <2> HIDE DEF B, C, L, K
  <2>7. B + K <= C
    BY ONLY <2>6
  <2> QED BY <2>2, <2>7 DEF B, C, K
<1>8. IsMap(map)
  BY <1>5, <1>7 DEF IsMap
<1>9. connector'.kind \in {"mmap", "mmap_mut", "fileio", "qemu"} /\ connector'.kind # "qemu"
  BY <1>2
<1> QED BY <1>2, <1>6, <1>8, <1>9, OpenedKeeps

LEMMA OpenQemuKeeps == ASSUME TransferInv, OpenQemu PROVE TransferInv'
<1>1. /\ connector'.kind = "qemu" /\ QemuOpened(connector')
      /\ host' = Bytes(connector'.process.size) /\ connector = Closed
      /\ UNCHANGED <<transfer, faults>>
  BY OpenQemuFinds
<1>2. connector'.process.size \in Nat /\ connector'.map = with_process(connector'.process)
  BY <1>1 DEF QemuOpened
<1>3. IsMap(connector'.map)
  BY <1>2, ProcessMap
<1> QED BY <1>1, <1>2, <1>3, OpenedKeeps

LEMMA BeginKeeps == ASSUME TransferInv, Begin PROVE TransferInv'
<1> USE DEF TransferInv
<1>1. PICK data \in Lists, op \in {"read", "write"} :
          /\ call' = [op |-> op, data |-> data]
          /\ pieces' = map_iter(connector.map, data)
          /\ buffer' = IF op = "read"
                       THEN [i \in DOMAIN data |-> [k \in 1..data[i].len |-> Untouched]]
                       ELSE <<>>
  BY DEF Begin
<1>2. /\ connector # Closed /\ pc' = "running" /\ iov' = <<>> /\ before' = host /\ short' = FALSE
      /\ UNCHANGED <<connector, host, result, faults>>
  BY DEF Begin
<1>3. data \in Seq(Wish) /\ DOMAIN data = 1..Len(data) /\ Len(data) \in Nat
  BY ListsAssumption DEF Wish
<1>4. call'.op = op /\ call'.data = data
  BY <1>1
<1>5. OpenInv'
  BY <1>2 DEF OpenInv, HostOK
<1>6. Pieces(connector.map, data, pieces')
  <2>1. connector.map \in Seq(Mapping)
    BY DEF OpenInv, IsMap
  <2> QED BY <1>1, <1>3, <2>1, MapIterYields
<1>7. pieces' \in Seq(Piece) /\ Ordered(pieces')
  BY <1>6 DEF Pieces, Ordered
<1>8. All' = pieces'
  BY <1>1, <1>2, <1>4 DEF All
<1>9. CallInv'
  <2>1. op = "read" => Buffers' /\ ReadContent'
    <3>1. /\ op = "read" => DOMAIN buffer' = 1..Len(data)
          /\ op = "read" => \A i \in 1..Len(data) : /\ DOMAIN buffer'[i] = 1..data[i].len
                                                    /\ \A k \in 1..data[i].len : buffer'[i][k] = Untouched
      BY <1>1, <1>3
    <3> QED BY <1>4, <3>1 DEF Buffers, ReadContent
  <2>2. WriteContent'
    BY <1>2 DEF WriteContent
  <2> QED BY <1>2, <1>3, <1>4, <1>7, <2>1, <2>2, Nobody DEF CallInv
<1>10. RunInv'
  <2>1. \A p : Left(p)' <=> In(p, pieces')
    BY <1>2, Nobody DEF Left, In
  <2>2. \A p : In(p, All)' <=> In(p, pieces')
    BY <1>8 DEF In
  <2>3. /\ Ordered(iov') /\ \A p : ~In(p, iov')
    BY <1>2, Nobody
  <2>4. Ordered(iov)' /\ Ordered(pieces)' /\ \A p : In(p, iov)' <=> In(p, iov')
    BY <1>7, <2>3 DEF Ordered, In
  <2> QED BY <1>2, <2>1, <2>2, <2>3, <2>4 DEF RunInv
<1>11. DoneInv'
  BY <1>2 DEF DoneInv
<1>12. ConnectorsTypeOK'
  <2>1. Len(iov') <= IovMax
    BY <1>2, Nobody, IovAssumption
  <2> QED BY <1>2, <1>4, <2>1 DEF ConnectorsTypeOK
<1> QED BY <1>5, <1>9, <1>10, <1>11, <1>12

----------------------------------------------------------------------------
LEMMA InitTransfers == ASSUME ConnectorsInit PROVE TransferInv
<1> USE DEF ConnectorsInit
<1>1. HostOK
  <2>1. DOMAIN host = {} /\ 0..(-1) = {} /\ Cardinality({}) = 0
    <3>1. Cardinality({}) = 0
      BY FS_EmptySet
    <3> QED BY <3>1
  <2> QED BY <2>1 DEF HostOK
<1>2. connector.map = <<>> /\ connector.kind = "none"
  BY DEF Closed
<1>3. OpenInv
  BY <1>1, <1>2 DEF OpenInv, IsMap
<1>4. CallInv /\ RunInv /\ DoneInv
  BY DEF CallInv, RunInv, DoneInv
<1>5. ConnectorsTypeOK
  <2>1. Len(iov) <= IovMax /\ 0 \in 0..MaxFaults
    BY Nobody, IovAssumption
  <2>2. \A x \in DOMAIN host : host[x] \in Int
    BY <1>1 DEF HostOK
  <2> QED BY <1>2, <2>1, <2>2 DEF ConnectorsTypeOK
<1> QED BY <1>3, <1>4, <1>5 DEF TransferInv

LEMMA StaysTransferInv == ASSUME TransferInv, UNCHANGED cvars PROVE TransferInv'
<1>1. /\ connector' = connector /\ host' = host /\ pc' = pc /\ call' = call /\ pieces' = pieces
      /\ iov' = iov /\ buffer' = buffer /\ result' = result /\ before' = before
      /\ short' = short /\ faults' = faults
  BY DEF cvars, transfer
<1>2. ConnectorsTypeOK' /\ OpenInv'
  BY <1>1 DEF TransferInv, ConnectorsTypeOK, OpenInv, HostOK
<1>3. CallInv'
  BY <1>1 DEF TransferInv, CallInv, Buffers, ReadContent, WriteContent, TrueBytes, Covering, At, Addr
<1>4. /\ \A p : In(p, All)' <=> In(p, All)
      /\ \A p : Left(p)' <=> Left(p)
      /\ \A i, k : TrueBytes(i, k)' = TrueBytes(i, k) /\ Addr(i, k)' = Addr(i, k)
  BY <1>1 DEF All, In, Left, TrueBytes, At, Addr
<1>5. \A p : Copied(p)' <=> Copied(p)
  <2> SUFFICES ASSUME NEW p PROVE Copied(p)' <=> Copied(p)
    OBVIOUS
  <2>1. (Filled(p)' <=> Filled(p)) /\ (Written(p)' <=> Written(p))
    BY <1>1, <1>4 DEF Filled, Written
  <2> QED BY <1>1, <2>1 DEF Copied
<1>6. RunInv'
  <2>1. /\ Ordered(iov)' /\ Ordered(pieces)' <=> Ordered(iov) /\ Ordered(pieces)
        /\ \A p : (In(p, iov)' <=> In(p, iov)) /\ (In(p, pieces)' <=> In(p, pieces))
    BY <1>1 DEF Ordered, In
  <2> QED BY <1>1, <1>4, <1>5, <2>1 DEF TransferInv, RunInv
<1>7. DoneInv'
  BY <1>1, <1>4, <1>5 DEF TransferInv, DoneInv
<1> QED BY <1>2, <1>3, <1>6, <1>7 DEF TransferInv

LEMMA ConnectorsStep == ASSUME TransferInv, [ConnectorsNext]_cvars PROVE TransferInv'
BY StaysTransferInv, OpenMappedKeeps, OpenFileMapKeeps, OpenFileIOKeeps, OpenQemuKeeps, BeginKeeps,
   MappedCopyKeeps, MappedReadOnlyKeeps, FilePieceKeeps, FileFailsKeeps, FileShortWriteKeeps,
   FillIovecKeeps, TransferKeeps, TransferShortKeeps, TransferFailsKeeps, LoopEndsKeeps
   DEF ConnectorsNext

----------------------------------------------------------------------------
(* The theorems of the transfers *)

(* The list holds regions that were pushed, and the walk stays in it.      *)
ListTyped ==
    /\ panicked \in BOOLEAN
    /\ \A i \in 1..Len(mappings) : mappings[i] \in Regions
    /\ cur_map_pos <= Len(mappings)

LEMMA ListIsTyped == ASSUME ExactInv, ListTyped, [Next]_vars PROVE ListTyped'
<1>1. /\ mappings \in Seq(Mapping) /\ Len(mappings) \in Nat
      /\ cur_map_pos \in Nat /\ Types
  BY DEF ExactInv, Types
<1>2. CASE Push
  <2>1. cur_map_pos' = cur_map_pos
    BY <1>2 DEF Push
  <2>2. PICK r \in Regions :
            \/ mappings' = mappings /\ panicked' = TRUE
            \/ mappings' = InsertAt(mappings, shift_idx(r) + 1, r) /\ panicked' = panicked
    BY <1>2 DEF Push
  <2>3. r \in Mapping
    BY RegionsAssumption DEF Mapping
  <2>4. CASE mappings' = mappings /\ panicked' = TRUE
    BY <2>1, <2>4 DEF ListTyped
  <2>5. CASE mappings' = InsertAt(mappings, shift_idx(r) + 1, r) /\ panicked' = panicked
    <3> DEFINE k == shift_idx(r)
    <3>1. k \in 0..Len(mappings)
      BY <1>1, <2>3, PlaceFact
    <3> HIDE DEF k
    <3>2. /\ Len(mappings') = Len(mappings) + 1
          /\ \A i \in 1..k : mappings'[i] = mappings[i]
          /\ mappings'[k + 1] = r
          /\ \A i \in (k + 1)..Len(mappings) : mappings'[i + 1] = mappings[i]
      <4>1. mappings' = InsertAt(mappings, k + 1, r)
        BY <2>5 DEF k
      <4> QED BY ONLY <1>1, <2>3, <3>1, <4>1, InsertFact, ZenonT(30)
    <3>3. ASSUME NEW i \in 1..(Len(mappings) + 1)
          PROVE  mappings'[i] \in Regions
      <4>1. CASE i <= k
        <5>1. i \in 1..k /\ i \in 1..Len(mappings)
          BY <1>1, <3>1, <4>1
        <5> QED BY <3>2, <5>1 DEF ListTyped
      <4>2. CASE i = k + 1
        BY <3>2, <4>2
      <4>3. CASE i > k + 1
        <5>1. i - 1 \in (k + 1)..Len(mappings) /\ i - 1 \in 1..Len(mappings) /\ (i - 1) + 1 = i
          BY <1>1, <3>1, <4>3
        <5> QED BY <3>2, <5>1 DEF ListTyped
      <4>4. i <= k \/ i = k + 1 \/ i > k + 1
        BY <3>1
      <4> QED BY <4>1, <4>2, <4>3, <4>4
    <3>4. cur_map_pos <= Len(mappings) + 1
      BY <1>1 DEF ListTyped
    <3> QED BY <2>1, <2>5, <3>2, <3>3, <3>4 DEF ListTyped
  <2> QED BY <2>2, <2>4, <2>5
<1>3. CASE YieldPart
  <2>1. PICK pos \in StartPos(cur_elem.addr) :
            /\ Found(cur_elem.addr, pos) # 0
            /\ cur_map_pos' \in {Behind(Found(cur_elem.addr, pos)), 0}
    BY <1>3 DEF YieldPart
  <2>2. cur_elem.addr \in Nat
    <3>1. cur_elem \in Items
      BY <1>1, <1>3 DEF YieldPart, Types
    <3> QED BY <3>1 DEF Items
  <2>3. Found(cur_elem.addr, pos) \in 1..Len(mappings)
    BY <1>1, <2>1, <2>2, StartFact, FoundFact
  <2>4. cur_map_pos' <= Len(mappings)
    BY <1>1, <2>1, <2>3 DEF Behind
  <2>5. mappings' = mappings /\ panicked' = panicked
    BY <1>3 DEF YieldPart
  <2> QED BY <2>4, <2>5 DEF ListTyped
<1>4. CASE MapIter \/ FetchElem \/ NoMapping \/ RejectAll
  <2>1. mappings' = mappings /\ panicked' = panicked /\ cur_map_pos' = 0
    BY <1>4 DEF MapIter, FetchElem, NoMapping, RejectAll
  <2> QED BY <1>1, <2>1 DEF ListTyped
<1>5. CASE UNCHANGED vars
  BY <1>5 DEF vars, query, ListTyped
<1> QED BY <1>2, <1>3, <1>4, <1>5 DEF Next, Step

LEMMA MapIsTyped == ASSUME ExactInv, ListTyped PROVE TypeOK
<1>1. /\ mappings \in Seq(Mapping) /\ in_iter \in Seq(Items)
      /\ cur_elem \in Items \cup {NoElem} /\ cur_map_pos \in Nat
  BY DEF ExactInv, Types
<1>2. /\ panicked \in BOOLEAN /\ cur_map_pos <= Len(mappings)
      /\ \A i \in 1..Len(mappings) : mappings[i] \in Regions
  BY DEF ListTyped
<1>3. mappings \in Seq(Regions)
  BY <1>1, <1>2
<1>4. \A i \in 1..Len(in_iter) : in_iter[i] \in Items
  BY <1>1
<1>5. cur_map_pos \in 0..Len(mappings)
  BY <1>1, <1>2
<1> QED BY <1>1, <1>2, <1>3, <1>4, <1>5 DEF TypeOK, Items

(* One part of the layer moves at a time. *)
LEMMA PartsStep ==
    ASSUME [MCNext]_<<parts, part>>
    PROVE  [Next]_vars /\ [ConnectorsNext]_cvars
BY DEF MCNext, parts

(* Whatever map a connector has, whatever list it is given and however its *)
(* host fails or cuts transfers short, a read returns the bytes behind the *)
(* addresses, and a write changes those bytes and no others, the last item *)
(* prevailing (TransferInv: the pieces that are left are parts of the      *)
(* call; those that are not left were copied, and what may still be        *)
(* written over them belongs to later items).                              *)
THEOREM TransfersTrue == MCSpec => []TransfersAreTrue
<1>1. MCInit => ExactInv /\ ListTyped /\ TransferInv
  <2>1. Init => ListTyped
    <3> SUFFICES ASSUME Init PROVE ListTyped
      OBVIOUS
    <3>1. mappings = <<>> /\ panicked = FALSE /\ cur_map_pos = 0 /\ Len(<<>>) = 0
      BY DEF Init
    <3>2. Len(mappings) = 0 /\ ~\E i \in 1..0 : TRUE
      BY <3>1
    <3>3. panicked \in BOOLEAN
      BY <3>1
    <3>4. 0 <= 0
      OBVIOUS
    <3> QED BY ONLY <3>1, <3>2, <3>3, <3>4 DEF ListTyped
  <2> QED BY <2>1, InitExact, InitTransfers DEF MCInit
<1>2. ExactInv /\ ListTyped /\ TransferInv /\ [MCNext]_<<parts, part>>
        => ExactInv' /\ ListTyped' /\ TransferInv'
  BY PartsStep, ExactStep, ListIsTyped, ConnectorsStep
<1>3. ExactInv /\ ListTyped /\ TransferInv => TransfersAreTrue
  BY MapIsTyped, MapStaysInside, ReadsAreTrue, WritesAreTrue DEF TransfersAreTrue, TransferInv
<1> QED BY <1>1, <1>2, <1>3, PTL DEF MCSpec

(* For every qemu process, whatever its size: each byte of its mapping     *)
(* above 1 MB belongs to one guest address, on both kinds of machine.      *)
THEOREM GuestIsMapped == ConnectorsSpec => []QemuBijective
<1>1. TransferInv => QemuBijective
  <2> SUFFICES ASSUME TransferInv PROVE QemuBijective
    OBVIOUS
  <2>1. CASE connector.kind = "qemu"
    <3>1. QemuOpened(connector) /\ DOMAIN host = 0..(connector.process.size - 1)
      BY <2>1 DEF TransferInv, OpenInv
    <3> QED BY ONLY <2>1, <3>1, OpenedBijective
  <2>2. CASE connector.kind # "qemu"
    BY <2>2 DEF QemuBijective
  <2> QED BY <2>1, <2>2
<1> QED BY <1>1, InitTransfers, ConnectorsStep, PTL DEF ConnectorsSpec

(* Whatever the arguments and whatever the processes of the host, the      *)
(* connector that is opened is the one with the name that is asked for.    *)
THEOREM GuestIsTheNamed == ConnectorsSpec => []OpenedTheNamed
<1>1. TransferInv => OpenedTheNamed
  <2> SUFFICES ASSUME TransferInv PROVE OpenedTheNamed
    OBVIOUS
  <2>1. CASE connector.kind = "qemu"
    BY <2>1, NamedIsOpened DEF TransferInv, OpenInv
  <2>2. CASE connector.kind # "qemu"
    BY <2>2 DEF OpenedTheNamed
  <2> QED BY <2>1, <2>2
<1> QED BY <1>1, InitTransfers, ConnectorsStep, PTL DEF ConnectorsSpec
=============================================================================
