----------------------------- MODULE MemoryMap -----------------------------
(***************************************************************************)
(* mem_map.rs: a list of mappings from the linear addresses memflow uses   *)
(* to hardware addresses, and the iterator that cuts a list of requested   *)
(* ranges along it.  A connector pushes its mappings once and then maps    *)
(* every read and write through them.                                      *)
(*                                                                         *)
(* Addresses are small naturals; the buffers that travel with a range are  *)
(* the set of its bytes.  Adding up to the end of the address space is not *)
(* modelled.                                                               *)
(***************************************************************************)
EXTENDS Integers, Sequences, FiniteSets, SequencesExt

CONSTANTS
    Regions,       \* the mappings a connector may push: [base, len, real]
    Queries,       \* the lists of ranges that may be mapped: [addr, len]
    MaxRegions,    \* bound on the number of mappings
    MinBsearch,    \* MIN_BSEARCH_THRESH (32)
    NoElem         \* cur_elem = None

ASSUME RegionsAssumption == Regions \subseteq [base : Nat, len : Nat \ {0}, real : Nat]
ASSUME QueriesAssumption == Queries \subseteq Seq([addr : Nat, len : Nat])
ASSUME BoundAssumption   == MaxRegions \in Nat /\ MinBsearch \in Nat \ {0}
ASSUME NoElemAssumption  == NoElem \notin [addr : Nat, len : Nat]

VARIABLES
    mappings,      \* MemoryMap.mappings
    panicked,      \* push has panicked
    in_iter,       \* MemoryMapIterator.in_iter: the ranges still to come
    cur_elem,      \* MemoryMapIterator.cur_elem
    cur_map_pos,   \* MemoryMapIterator.cur_map_pos
    out,           \* what the iterator yielded: pairs of linear and hardware byte
    fail_out,      \* the bytes given to fail_out
    asked          \* history: the bytes of the running query

query == <<in_iter, cur_elem, cur_map_pos, out, fail_out, asked>>
vars  == <<mappings, panicked, query>>

End(m)      == m.base + m.len
Covers(m, b) == m.base <= b /\ b < End(m)
BytesOf(addr, len) == addr..(addr + len - 1)

(* Idle is the state in which the connector may push or map. *)
Idle == in_iter = <<>> /\ cur_elem = NoElem

TypeOK ==
    /\ mappings \in Seq(Regions)
    /\ panicked \in BOOLEAN
    /\ \A i \in 1..Len(in_iter) : in_iter[i] \in [addr : Nat, len : Nat]
    /\ cur_elem \in [addr : Nat, len : Nat] \cup {NoElem}
    /\ cur_map_pos \in 0..Len(mappings)

Init ==
    /\ mappings = <<>>
    /\ panicked = FALSE
    /\ in_iter = <<>> /\ cur_elem = NoElem /\ cur_map_pos = 0
    /\ out = {} /\ fail_out = {} /\ asked = {}

----------------------------------------------------------------------------
(* push *)

(* The bounds check of one existing mapping: a start or an end of the new  *)
(* region inside it, the end taken as if it belonged to the region.        *)
Collides(m, r) == Covers(m, r.base) \/ Covers(m, End(r))

(* The scan runs from the last mapping down and ends at the first mapping  *)
(* that collides or that lies below the new region; 0 if it reaches none.  *)
scan_end(r) ==
    SelectLastInSeq(mappings, LAMBDA m : Collides(m, r) \/ End(m) <= r.base)

(* shift_idx starts as the length, and stays there when nothing is below.  *)
shift_idx(r) == IF scan_end(r) = 0 THEN Len(mappings) ELSE scan_end(r)

Push ==
    /\ Idle /\ ~panicked /\ Len(mappings) < MaxRegions
    /\ \E r \in Regions :
          LET i == scan_end(r) IN
          /\ IF i # 0 /\ Collides(mappings[i], r)
             THEN panicked' = TRUE /\ UNCHANGED mappings
             ELSE /\ mappings' = InsertAt(mappings, shift_idx(r) + 1, r)
                  /\ UNCHANGED panicked
    /\ out' = {} /\ fail_out' = {} /\ asked' = {}
    /\ UNCHANGED <<in_iter, cur_elem, cur_map_pos>>

----------------------------------------------------------------------------
(* map_iter and the iterator it returns *)

MapIter ==
    /\ Idle /\ ~panicked
    /\ \E q \in Queries :
          /\ in_iter' = q
          /\ asked' = UNION {BytesOf(q[i].addr, q[i].len) : i \in 1..Len(q)}
    /\ out' = {} /\ fail_out' = {}
    /\ cur_elem' = NoElem /\ cur_map_pos' = 0
    /\ UNCHANGED <<mappings, panicked>>

(* in_iter.next(), wherever the iterator calls it *)
FetchElem ==
    /\ cur_elem = NoElem /\ in_iter # <<>>
    /\ cur_elem' = Head(in_iter) /\ in_iter' = Tail(in_iter)
    /\ cur_map_pos' = 0
    /\ UNCHANGED <<mappings, panicked, out, fail_out, asked>>

(* What binary_search_by may return, Ok or Err: the mapping that covers the *)
(* address, or how many lie below it; any index when the list is not       *)
(* sorted, for then the search has no specified result.                    *)
Sorted == \A i, j \in 1..Len(mappings) : i < j => End(mappings[i]) <= mappings[j].base

binary_search(addr) ==
    IF Sorted
    THEN {Cardinality({i \in DOMAIN mappings : End(mappings[i]) <= addr})}
    ELSE 0..Len(mappings)

(* Where the walk over the mappings begins (skip(cur_map_pos)). *)
StartPos(addr) ==
    IF Len(mappings) >= MinBsearch /\ cur_map_pos = 0
    THEN binary_search(addr)
    ELSE {cur_map_pos}

(* The first mapping from pos on that ends above the address, 0 if none.   *)
Found(addr, pos) ==
    SelectInSubSeq(mappings, pos + 1, Len(mappings), LAMBDA m : End(m) > addr)

(* saturating_sub: how much of the range lies below the mapping *)
Offset_None(m, addr) == 0      \* mutant: the range is taken to start in the mapping

Offset(m, addr) == IF m.base > addr THEN m.base - addr ELSE 0

Reject(addr, len) == fail_out' = fail_out \cup BytesOf(addr, len)

(* cur_map_pos = i + 1: the walk goes on behind the i-th mapping.           *)
Behind_Next(i) == i + 1        \* mutant: the next mapping is skipped as well

Behind(i) == i

(* No mapping ends above the address: get_next returns None with nothing   *)
(* yielded and nothing rejected, and the range is forgotten.               *)
NoMapping_Kept ==              \* mutant: the range is not taken out of cur_elem
    /\ cur_elem # NoElem
    /\ \E pos \in StartPos(cur_elem.addr) : Found(cur_elem.addr, pos) = 0
    /\ UNCHANGED vars

NoMapping ==
    /\ cur_elem # NoElem
    /\ \E pos \in StartPos(cur_elem.addr) : Found(cur_elem.addr, pos) = 0
    /\ cur_elem' = NoElem /\ cur_map_pos' = 0
    /\ UNCHANGED <<mappings, panicked, in_iter, out, fail_out, asked>>

(* The whole range lies below the mapping. *)
RejectAll ==
    /\ cur_elem # NoElem
    /\ \E pos \in StartPos(cur_elem.addr) :
          LET i == Found(cur_elem.addr, pos) IN
          /\ i # 0
          /\ cur_elem.len <= Offset(mappings[i], cur_elem.addr)
    /\ Reject(cur_elem.addr, cur_elem.len)
    /\ cur_elem' = NoElem /\ cur_map_pos' = 0
    /\ UNCHANGED <<mappings, panicked, in_iter, out, asked>>

(* The part of the range inside the mapping is yielded, the part below it  *)
(* is rejected, the part above it goes on from the next mapping.           *)
YieldPart ==
    /\ cur_elem # NoElem
    /\ \E pos \in StartPos(cur_elem.addr) :
          LET i    == Found(cur_elem.addr, pos)
              m    == mappings[i]
              off  == Offset(m, cur_elem.addr)
              addr == cur_elem.addr + off
              left == cur_elem.len - off
              room == End(m) - addr
              n    == IF left <= room THEN left ELSE room
          IN
          /\ i # 0 /\ left > 0
          /\ Reject(cur_elem.addr, off)
          /\ out' = out \cup {<<b, m.real + (b - m.base)>> : b \in BytesOf(addr, n)}
          /\ IF left > room
             THEN /\ cur_elem' = [addr |-> addr + n, len |-> left - n]
                  /\ cur_map_pos' = Behind(i)
             ELSE cur_elem' = NoElem /\ cur_map_pos' = 0
    /\ UNCHANGED <<mappings, panicked, in_iter, asked>>

Step == FetchElem \/ NoMapping \/ RejectAll \/ YieldPart

(* A caller drives the iterator to its end before it does anything else;   *)
(* a panic ends the program.                                               *)
Next == Push \/ MapIter \/ Step

Spec == Init /\ [][Next]_vars /\ WF_vars(Step)

----------------------------------------------------------------------------
(* Properties *)

Mapped(b) == \E i \in 1..Len(mappings) : Covers(mappings[i], b)
Yielded(b) == \E y \in out : y[1] = b

(* Every byte is yielded at the hardware address a mapping gives it, at    *)
(* one address only, and never both yielded and rejected: whatever the     *)
(* order and the overlap of the mappings (mem_map.rs:342-379).             *)
YieldedIsRight ==
    /\ \A y \in out : \E i \in 1..Len(mappings) :
          Covers(mappings[i], y[1]) /\ y[2] = mappings[i].real + (y[1] - mappings[i].base)
    /\ \A y, z \in out : y[1] = z[1] => y = z
    /\ \A b \in fail_out : ~Yielded(b)

NoOverlap ==
    \A i, j \in 1..Len(mappings) :
        i # j => \A b \in BytesOf(mappings[i].base, mappings[i].len) :
                     ~Covers(mappings[j], b)

(* The scan of push sorts disjoint mappings, in whatever order they come   *)
(* after the first, if the first one is the lowest; that far goes the      *)
(* order that the walk and the binary search rely on.  In a sorted list a  *)
(* byte is rejected only if no mapping covers it; at the end of the query  *)
(* every mapped byte has been yielded, and every byte below the end of a   *)
(* mapping was yielded or rejected (mem_map.rs:141-165, 342-379); about    *)
(* the bytes above all of them see UnmappedIsRejected.                     *)
MapIsExact ==
    /\ NoOverlap /\ (\A i \in 1..Len(mappings) : mappings[1].base <= mappings[i].base)
          => Sorted
    /\ Sorted =>
        /\ \A b \in fail_out : ~Mapped(b)
        /\ Idle => \A b \in asked :
              /\ Mapped(b) => Yielded(b)
              /\ (\E i \in 1..Len(mappings) : b < End(mappings[i]))
                    => Yielded(b) \/ b \in fail_out

(* The iterator comes to the end of every list. *)
MapEnds == ~Idle ~> Idle

(* mem_map.rs:132: "Adds a new memory mapping to this memory map", in      *)
(* whatever order: every byte of disjoint mappings that is asked for comes *)
(* out.                                                                    *)
PushedIsReachable ==
    NoOverlap /\ Idle => \A b \in asked : Mapped(b) => Yielded(b)

(* mem_map.rs:99, 114: "Invalid regions get pushed to the `out_fail`       *)
(* parameter", whichever part of a query they are: when some of it was     *)
(* mapped, every byte that no mapping covers was rejected.                 *)
UnmappedIsRejected ==
    Idle /\ out # {} => \A b \in asked : ~Mapped(b) => b \in fail_out
=============================================================================
