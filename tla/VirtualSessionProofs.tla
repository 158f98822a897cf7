------------------------ MODULE VirtualSessionProofs ------------------------
(***************************************************************************)
(* Proofs about a session on a virtual memory (VirtualSession) and about   *)
(* the batcher in it, for every size of a page, of the address space and   *)
(* of the memory, every split of the page tables and every item list: what *)
(* a read answers and a write changes is what the page tables say, of a    *)
(* table that may be remapped between any two steps of a call.  The        *)
(* inductive invariant is SessionInv: what the translation has answered so *)
(* far (TranslationInv), what the data access has filled (BufferInv,       *)
(* CoverInv), what the memory of the process was built to be (DummyInv)    *)
(* and the entries of the batcher (ItemsInv).  The session implements the  *)
(* batcher, whose own inductive invariant is BIInv.  MapsInv is about the  *)
(* maps of the whole space: while one is made, every page is still to be   *)
(* translated, was translated once, or was seen unmapped; what sorting and *)
(* joining make of it are the lemmas SortedFacts and CoalesceSteps.        *)
(* BuildInv is about the building of the memory: the frames still to hand  *)
(* out are the ones not handed out yet (FramesInv), and every frame handed *)
(* out has one role, of a table or a page of one process (TreeInv).        *)
(***************************************************************************)
EXTENDS VirtualSession, FiniteSetTheorems, WellFoundedInduction, TLAPS

----------------------------------------------------------------------------
(* The batcher *)

(* What a stage may be after commit_rw has gone on, and what it then did.  *)
LEMMA AfterGoOn ==
    ASSUME NEW d \in BOOLEAN, GoOn(d), BatcherTypeOK
    PROVE  \/ /\ write_list # {} /\ stage' = "writing" /\ outcome' = outcome
              /\ HandOver(write_list)
           \/ /\ write_list = {} /\ stage' \in {"none", "idle"} /\ outcome' = "ok"
              /\ attempts' = attempts
BY DEF GoOn, End

LEMMA AfterStart ==
    ASSUME NEW d \in BOOLEAN, Start(d), BatcherTypeOK
    PROVE  \/ /\ read_list # {} /\ stage' = "reading" /\ outcome' = outcome
              /\ attempts' = attempts
           \/ /\ read_list = {} /\ GoOn(d)
BY DEF Start

(* The lists hold what was queued, and nothing of it has been served. *)
LEMMA ListFacts ==
    ASSUME QueuedOrServed, ListsInv, stage # "none"
    PROVE  /\ read_list \subseteq reads /\ write_list \subseteq writes
           /\ read_list \cap write_list = {}
           /\ \A i \in read_list \cup write_list : i \notin served
BY DEF QueuedOrServed, ListsInv

LEMMA HandOverType ==
    ASSUME BatcherTypeOK, NEW list, HandOver(list)
    PROVE  /\ attempts' \in [Id -> Nat]
           /\ \A i \in Id : attempts'[i] = IF i \in list THEN attempts[i] + 1 ELSE attempts[i]
BY DEF BatcherTypeOK, HandOver

(* The type invariant *)
LEMMA TypeInv ==
    ASSUME BatcherTypeOK, [BatcherNext]_bvars
    PROVE  BatcherTypeOK'
<1>1. CASE New
  BY <1>1 DEF New, BatcherTypeOK
<1>2. CASE Commit
  <2>1. Start(FALSE)
    BY <1>2 DEF Commit
  <2>2. /\ stage' \in {"none", "idle", "reading", "writing"}
        /\ outcome' \in {"none", "ok", "failed"} /\ attempts' \in [Id -> Nat]
    BY <2>1, AfterStart, AfterGoOn, HandOverType DEF BatcherTypeOK
  <2> QED BY <1>2, <2>2 DEF Commit, BatcherTypeOK
<1>3. CASE Drop
  <2>1. Start(TRUE)
    BY <1>3 DEF Drop
  <2>2. /\ stage' \in {"none", "idle", "reading", "writing"}
        /\ outcome' \in {"none", "ok", "failed"} /\ attempts' \in [Id -> Nat]
    BY <2>1, AfterStart, AfterGoOn, HandOverType DEF BatcherTypeOK
  <2> QED BY <1>3, <2>2 DEF Drop, BatcherTypeOK
<1>4. ASSUME NEW i \in Id, QueueRead(i) PROVE BatcherTypeOK'
  BY <1>4 DEF QueueRead, BatcherTypeOK
<1>5. ASSUME NEW i \in Id, QueueWrite(i) PROVE BatcherTypeOK'
  BY <1>5 DEF QueueWrite, BatcherTypeOK
<1>6. CASE ReadsServed
  <2>1. GoOn(dropping) /\ dropping \in BOOLEAN
    BY <1>6 DEF ReadsServed, BatcherTypeOK
  <2>2. /\ stage' \in {"none", "idle", "reading", "writing"}
        /\ outcome' \in {"none", "ok", "failed"} /\ attempts' \in [Id -> Nat]
    BY <2>1, AfterGoOn, HandOverType DEF BatcherTypeOK
  <2> QED BY <1>6, <2>2 DEF ReadsServed, BatcherTypeOK
<1>7. CASE ReadsFailed
  BY <1>7 DEF ReadsFailed, End, BatcherTypeOK
<1>8. CASE WritesServed
  BY <1>8 DEF WritesServed, End, BatcherTypeOK
<1>9. CASE WritesFailed
  BY <1>9 DEF WritesFailed, End, BatcherTypeOK
<1>10. CASE UNCHANGED bvars
  BY <1>10 DEF bvars, BatcherTypeOK
<1> QED BY <1>1, <1>2, <1>3, <1>4, <1>5, <1>6, <1>7, <1>8, <1>9, <1>10 DEF BatcherNext

(* No entry is lost: the lists and what was served. *)
LEMMA KeptInv ==
    ASSUME BatcherTypeOK, ListsInv, QueuedOrServed, [BatcherNext]_bvars
    PROVE  ListsInv' /\ QueuedOrServed'
<1>1. CASE New
  BY <1>1 DEF New, ListsInv, QueuedOrServed
<1>2. CASE Commit
  BY <1>2, AfterStart, AfterGoOn DEF Commit, ListsInv, QueuedOrServed
<1>3. CASE Drop
  BY <1>3, AfterStart, AfterGoOn DEF Drop, ListsInv, QueuedOrServed
<1>4. ASSUME NEW i \in Id, QueueRead(i) PROVE ListsInv' /\ QueuedOrServed'
  <2>1. i \notin reads \cup writes
    BY <1>4 DEF QueueRead, Fresh, Id
  <2> QED BY <1>4, <2>1 DEF QueueRead, ListsInv, QueuedOrServed
<1>5. ASSUME NEW i \in Id, QueueWrite(i) PROVE ListsInv' /\ QueuedOrServed'
  <2>1. i \notin reads \cup writes
    BY <1>5 DEF QueueWrite, Fresh, Id
  <2> QED BY <1>5, <2>1 DEF QueueWrite, ListsInv, QueuedOrServed
<1>6. CASE ReadsServed
  <2>1. /\ GoOn(dropping) /\ dropping \in BOOLEAN /\ stage = "reading"
        /\ served' = served \cup read_list /\ read_list' = {}
        /\ UNCHANGED <<reads, writes, write_list>>
    BY <1>6 DEF ReadsServed, BatcherTypeOK
  <2>2. read_list \subseteq reads /\ write_list \subseteq writes
    BY <2>1, ListFacts
  <2>3. stage' # "reading"
    BY <2>1, AfterGoOn
  <2>4. ListsInv'
    BY <2>1, <2>2, <2>3 DEF ListsInv
  <2>5. QueuedOrServed'
    BY <2>1, <2>2 DEF ListsInv, QueuedOrServed
  <2> QED BY <2>4, <2>5
<1>7. CASE ReadsFailed
  BY <1>7 DEF ReadsFailed, End, ListsInv, QueuedOrServed
<1>8. CASE WritesServed
  <2>1. /\ stage = "writing" /\ stage' \in {"none", "idle"}
        /\ served' = served \cup write_list /\ write_list' = {}
        /\ UNCHANGED <<reads, writes, read_list>>
    BY <1>8 DEF WritesServed, End
  <2>2. write_list \subseteq writes
    BY <2>1, ListFacts
  <2> QED BY <2>1, <2>2 DEF ListsInv, QueuedOrServed
<1>9. CASE WritesFailed
  BY <1>9 DEF WritesFailed, End, ListsInv, QueuedOrServed
<1>10. CASE UNCHANGED bvars
  BY <1>10 DEF bvars, ListsInv, QueuedOrServed
<1> QED BY <1>1, <1>2, <1>3, <1>4, <1>5, <1>6, <1>7, <1>8, <1>9, <1>10 DEF BatcherNext

(* An Ok is told only when both lists are empty. *)
LEMMA OkInv ==
    ASSUME BatcherTypeOK, ListsInv, QueuedOrServed, OkMeansServed, [BatcherNext]_bvars
    PROVE  OkMeansServed'
<1>0. ASSUME NEW d \in BOOLEAN, Start(d), stage = "idle",
             UNCHANGED <<reads, writes, read_list, write_list, served>>
      PROVE  OkMeansServed'
  BY <1>0, AfterStart, AfterGoOn DEF OkMeansServed, QueuedOrServed
<1>1. CASE New
  BY <1>1 DEF New, OkMeansServed
<1>2. CASE Commit
  BY <1>0, <1>2 DEF Commit
<1>3. CASE Drop
  BY <1>0, <1>3 DEF Drop
<1>4. ASSUME NEW i \in Id, QueueRead(i) \/ QueueWrite(i) PROVE OkMeansServed'
  BY <1>4 DEF QueueRead, QueueWrite, OkMeansServed
<1>5. CASE ReadsServed
  <2>1. /\ GoOn(dropping) /\ dropping \in BOOLEAN /\ stage = "reading"
        /\ served' = served \cup read_list
        /\ UNCHANGED <<reads, writes, write_list>>
    BY <1>5 DEF ReadsServed, BatcherTypeOK
  <2> QED BY <2>1, AfterGoOn DEF OkMeansServed, QueuedOrServed
<1>6. CASE ReadsFailed \/ WritesFailed
  BY <1>6 DEF ReadsFailed, WritesFailed, End, OkMeansServed
<1>7. CASE WritesServed
  BY <1>7 DEF WritesServed, End, OkMeansServed, QueuedOrServed, ListsInv
<1>8. CASE UNCHANGED bvars
  BY <1>8 DEF bvars, OkMeansServed
<1> QED BY <1>1, <1>2, <1>3, <1>4, <1>5, <1>6, <1>7, <1>8 DEF BatcherNext

(* Handing the write list over keeps the count: nothing in it was served.  *)
LEMMA HandOverCounts ==
    ASSUME BatcherTypeOK, AttemptsInv, stage # "writing", stage' = "writing",
           HandOver(write_list), write_list' = write_list, write_errors' = write_errors,
           served \subseteq served', \A i \in write_list : i \notin served
    PROVE  AttemptsInv'
<1>1. SUFFICES ASSUME NEW i \in Id
               PROVE  attempts'[i] <= write_errors' +
                          (IF i \in served' \/ (stage' = "writing" /\ i \in write_list')
                           THEN 1 ELSE 0)
  BY DEF AttemptsInv
<1>2. /\ attempts[i] <= write_errors + (IF i \in served THEN 1 ELSE 0)
      /\ attempts[i] \in Nat /\ write_errors \in Nat
  BY DEF AttemptsInv, BatcherTypeOK
<1>3. CASE i \in write_list
  <2>1. attempts'[i] = attempts[i] + 1 /\ i \notin served
    BY <1>3, HandOverType
  <2> QED BY <1>2, <1>3, <2>1
<1>4. CASE i \notin write_list
  <2>1. attempts'[i] = attempts[i]
    BY <1>4, HandOverType
  <2> QED BY <1>2, <1>4, <2>1
<1> QED BY <1>3, <1>4

(* No write is handed over, and what is served does not shrink. *)
LEMMA CountsKept ==
    ASSUME BatcherTypeOK, AttemptsInv, stage # "writing",
           attempts' = attempts, write_errors' = write_errors, served \subseteq served'
    PROVE  AttemptsInv'
<1>1. SUFFICES ASSUME NEW i \in Id
               PROVE  attempts'[i] <= write_errors' +
                          (IF i \in served' \/ (stage' = "writing" /\ i \in write_list')
                           THEN 1 ELSE 0)
  BY DEF AttemptsInv
<1>2. /\ attempts[i] <= write_errors + (IF i \in served THEN 1 ELSE 0)
      /\ attempts[i] \in Nat /\ write_errors \in Nat
  BY DEF AttemptsInv, BatcherTypeOK
<1> QED BY <1>2

LEMMA RepeatInv ==
    ASSUME BatcherTypeOK, ListsInv, QueuedOrServed, AttemptsInv, [BatcherNext]_bvars
    PROVE  AttemptsInv'
<1>0. ASSUME NEW d \in BOOLEAN, GoOn(d), stage \in {"idle", "reading"},
             write_list' = write_list, write_errors' = write_errors, served \subseteq served'
      PROVE  AttemptsInv'
  <2>1. stage # "none" /\ stage # "writing"
    BY <1>0
  <2>2. \A i \in write_list : i \notin served
    BY <2>1, ListFacts
  <2> QED BY <1>0, <2>1, <2>2, AfterGoOn, HandOverCounts, CountsKept
<1>1. CASE New
  BY <1>1 DEF New, AttemptsInv
<1>2. ASSUME NEW d \in BOOLEAN, Start(d), stage = "idle",
             UNCHANGED <<write_list, write_errors, served>>
      PROVE  AttemptsInv'
  BY <1>0, <1>2, AfterStart, CountsKept
<1>3. CASE Commit \/ Drop
  BY <1>2, <1>3 DEF Commit, Drop
<1>4. ASSUME NEW i \in Id, QueueRead(i) \/ QueueWrite(i) PROVE AttemptsInv'
  BY <1>4, CountsKept DEF QueueRead, QueueWrite
<1>5. CASE ReadsServed
  BY <1>0, <1>5 DEF ReadsServed, BatcherTypeOK
<1>6. CASE ReadsFailed
  BY <1>6, CountsKept DEF ReadsFailed
<1>7. CASE WritesServed
  BY <1>7 DEF WritesServed, AttemptsInv
<1>8. CASE WritesFailed
  <2>1. SUFFICES ASSUME NEW i \in Id
                 PROVE  attempts'[i] <= write_errors' +
                            (IF i \in served' \/ (stage' = "writing" /\ i \in write_list')
                             THEN 1 ELSE 0)
    BY DEF AttemptsInv
  <2>2. /\ attempts[i] <= write_errors + 1 /\ attempts[i] \in Nat /\ write_errors \in Nat
    BY DEF AttemptsInv, BatcherTypeOK
  <2>3. attempts' = attempts /\ write_errors' = write_errors + 1
    BY <1>8 DEF WritesFailed
  <2> QED BY <2>2, <2>3
<1>9. CASE UNCHANGED bvars
  BY <1>9 DEF bvars, AttemptsInv
<1> QED BY <1>1, <1>3, <1>4, <1>5, <1>6, <1>7, <1>8, <1>9 DEF BatcherNext

LEMMA InitInv == BatcherInit => BIInv
<1> SUFFICES ASSUME BatcherInit PROVE BIInv
  OBVIOUS
<1>1. BatcherTypeOK
  BY DEF BatcherInit, BatcherTypeOK
<1>2. AttemptsInv
  BY DEF BatcherInit, AttemptsInv
<1> QED BY <1>1, <1>2 DEF BatcherInit, BIInv, ListsInv, QueuedOrServed, OkMeansServed

LEMMA NextInv == BIInv /\ [BatcherNext]_bvars => BIInv'
BY TypeInv, KeptInv, OkInv, RepeatInv DEF BIInv

----------------------------------------------------------------------------
(* Numbers *)

(* Less-than as the relation that the library's theorems are about. *)
LEMMA LessThan == \A x, y \in Nat : x < y => <<x, y>> \in OpToRel(<, Nat)
BY Zenon DEF OpToRel

(* A set of natural numbers has a least element, a bounded one a greatest. *)
LEMMA LeastOf ==
    ASSUME NEW S \in SUBSET Nat, S # {}
    PROVE  \E x \in S : \A y \in S : x <= y
<1>1. PICK x \in S : \A y \in S : ~ (<<y, x>> \in OpToRel(<, Nat))
  BY NatLessThanWellFounded, WFMin, Zenon
<1>2. \A y \in S : x <= y
  <2> SUFFICES ASSUME NEW y \in S PROVE x <= y
    OBVIOUS
  <2>1. ~(y < x)
    BY <1>1, LessThan
  <2> QED BY <2>1
<1> QED BY <1>2

LEMMA LatestOf ==
    ASSUME NEW n \in Nat, NEW S \in SUBSET (1..n), S # {}
    PROVE  latest(S) \in S
<1> DEFINE R == {n - x : x \in S}
<1>1. R \in SUBSET Nat /\ R # {}
  <2>1. \A x \in S : n - x \in Nat
    OBVIOUS
  <2>2. PICK x \in S : TRUE
    OBVIOUS
  <2>3. n - x \in R
    OBVIOUS
  <2>4. \A r \in R : r \in Nat
    BY <2>1
  <2> QED BY <2>3, <2>4
<1>2. PICK r \in R : \A y \in R : r <= y
  BY <1>1, LeastOf
<1>3. PICK x \in S : r = n - x
  OBVIOUS
<1>4. \A y \in S : y <= x
  <2> SUFFICES ASSUME NEW y \in S PROVE y <= x
    OBVIOUS
  <2>1. n - y \in R
    OBVIOUS
  <2> QED BY <1>2, <1>3, <2>1
<1> QED BY <1>4 DEF latest

LEMMA PageSplit ==
    ASSUME NEW a \in Nat
    PROVE  /\ page(a) \in Nat /\ offset(a) \in 0..(PageSize - 1)
           /\ a = page(a) * PageSize + offset(a)
BY PageSizeAssumption DEF page, offset

LEMMA PhysicalSplit ==
    ASSUME NEW f \in Frame, NEW a \in Nat
    PROVE  /\ Physical(f, a) \in PAddress /\ Physical(f, a) \in Nat
           /\ page(Physical(f, a)) = f /\ offset(Physical(f, a)) = offset(a)
<1>1. offset(a) \in 0..(PageSize - 1)
  BY PageSplit
<1> DEFINE o == offset(a)
<1> HIDE DEF o
<1>2. f * PageSize + o \in Nat /\ (f * PageSize + o) \div PageSize = f
      /\ (f * PageSize + o) % PageSize = o
  BY <1>1, PageSizeAssumption DEF o, Frame
<1>3. f * PageSize + o < NFrames * PageSize
  <2>1. f + 1 <= NFrames /\ f \in Nat
    BY PageSizeAssumption DEF Frame
  <2>2. (f + 1) * PageSize <= NFrames * PageSize
    BY <2>1, PageSizeAssumption
  <2>3. (f + 1) * PageSize = f * PageSize + PageSize
    BY <2>1, PageSizeAssumption
  <2> QED BY <1>1, <1>2, <2>2, <2>3, PageSizeAssumption DEF o
<1> QED BY <1>2, <1>3, PageSizeAssumption DEF Physical, PAddress, page, offset, o

(* In a page, offsets are distances. *)
LEMMA SamePage ==
    ASSUME NEW a \in Nat, NEW b \in Nat, page(a) = page(b), NEW f \in Frame
    PROVE  Physical(f, a) + (b - a) = Physical(f, b)
<1>1. a = page(a) * PageSize + offset(a) /\ b = page(b) * PageSize + offset(b)
      /\ offset(a) \in Nat /\ offset(b) \in Nat /\ page(a) \in Nat
  BY PageSplit, PageSizeAssumption
<1> DEFINE P == page(a) * PageSize
           F == f * PageSize
<1>2. P \in Int /\ F \in Int /\ a = P + offset(a) /\ b = P + offset(b)
      /\ Physical(f, a) = F + offset(a) /\ Physical(f, b) = F + offset(b)
  BY <1>1, PageSizeAssumption DEF Physical, Frame
<1> HIDE DEF P, F
<1> QED BY <1>1, <1>2

LEMMA AddressPage ==
    ASSUME NEW a \in Address
    PROVE  a \in Nat /\ page(a) \in Page
BY PageSizeAssumption DEF Address, Page, page

LEMMA PAddressPage ==
    ASSUME NEW a \in PAddress
    PROVE  a \in Nat /\ page(a) \in Frame /\ Physical(page(a), a) = a
<1>1. a \in Nat /\ page(a) \in Frame
  BY PageSizeAssumption DEF PAddress, Frame, page
<1>2. a = page(a) * PageSize + offset(a)
  BY <1>1, PageSplit
<1> QED BY <1>1, <1>2 DEF Physical

----------------------------------------------------------------------------
(* The pieces of an item *)

(* A piece is a part of its item in one page, and every byte is in one.    *)
LEMMA PieceBytes ==
    ASSUME NEW data, NEW i \in DOMAIN data, data[i].addr \in Nat, data[i].len \in Nat \ {0},
           NEW x \in Bytes(data[i])
    PROVE  LET c == Piece(data, i, page(x)) IN
           /\ c.item = i /\ c.addr \in Nat /\ c.len \in Nat \ {0}
           /\ Bytes(c) = {a \in Bytes(data[i]) : page(a) = page(x)}
<1> DEFINE b == {a \in Bytes(data[i]) : page(a) = page(x)}
           c == Piece(data, i, page(x))
<1>1. b \in SUBSET Nat /\ x \in b
  BY DEF Bytes
<1>2. PICK lo \in b : \A y \in b : lo <= y
  BY <1>1, LeastOf
<1> DEFINE R == {data[i].addr + data[i].len - y : y \in b}
<1>3. R \in SUBSET Nat /\ R # {}
  BY <1>1 DEF Bytes
<1>4. PICK r \in R : \A y \in R : r <= y
  BY <1>3, LeastOf
<1>5. PICK hi \in b : r = data[i].addr + data[i].len - hi
  OBVIOUS
<1>6. \A y \in b : y <= hi
  <2> SUFFICES ASSUME NEW y \in b PROVE y <= hi
    OBVIOUS
  <2>1. data[i].addr + data[i].len - y \in R
    OBVIOUS
  <2> HIDE DEF R, b
  <2> QED BY <1>1, <1>4, <1>5, <2>1
<1>7. b = lo..hi
  <2>1. \A y \in b : y \in lo..hi
    BY <1>1, <1>2, <1>6
  <2>2. ASSUME NEW y \in lo..hi PROVE y \in b
    <3>1. y \in Bytes(data[i]) /\ lo \in Nat /\ hi \in Nat /\ y \in Nat
      BY <1>1, <2>2 DEF Bytes
    <3>2. page(lo) <= page(y) /\ page(y) <= page(hi)
      BY <3>1, PageSizeAssumption DEF page
    <3>3. page(lo) = page(x) /\ page(hi) = page(x) /\ page(y) \in Nat /\ page(x) \in Nat
      BY <1>1, <3>1, PageSplit
    <3> QED BY <3>1, <3>2, <3>3
  <2> QED BY <2>1, <2>2
<1>8. lo \in Nat /\ hi \in Nat /\ lo <= hi
  BY <1>1, <1>2
<1>9. Cardinality(b) = hi - lo + 1
  <2>1. Cardinality(lo..hi) = hi - lo + 1
    BY <1>8, FS_Interval
  <2> HIDE DEF b
  <2> QED BY <1>7, <2>1
<1>10. (CHOOSE a \in b : \A y \in b : a <= y) = lo
  <2> DEFINE m == CHOOSE a \in b : \A y \in b : a <= y
  <2>1. m \in b /\ \A y \in b : m <= y
    BY <1>2
  <2> HIDE DEF m, b
  <2>2. m <= lo /\ lo <= m
    BY <1>2, <2>1
  <2>3. m \in Nat /\ lo \in Nat
    BY <1>1, <1>2, <2>1
  <2>4. m = lo
    BY <2>2, <2>3
  <2> QED BY <2>4 DEF m
<1>11. c = [item |-> i, len |-> Cardinality(b), addr |-> CHOOSE a \in b : \A y \in b : a <= y]
  BY DEF Piece
<1> HIDE DEF b, c
<1>12. c.item = i /\ c.addr = lo /\ c.len = hi - lo + 1
  BY <1>9, <1>10, <1>11
<1>13. Bytes(c) = b
  BY <1>7, <1>8, <1>12 DEF Bytes
<1> QED BY <1>8, <1>12, <1>13 DEF b, c

(* Numbers in increasing order: a finite set of them has an enumeration.   *)
Enumerates(s, S) == /\ s \in [1..Cardinality(S) -> S]
                    /\ \A m, n \in DOMAIN s : m < n => s[m] < s[n]

LEMMA Ordered ==
    ASSUME NEW n \in Nat
    PROVE  \A S \in SUBSET (1..n) : IsFiniteSet(S) /\ \E s : Enumerates(s, S)
<1> DEFINE Good(k) == \A S \in SUBSET (1..k) : IsFiniteSet(S) /\ \E s : Enumerates(s, S)
           Bad == {k \in Nat : ~Good(k)}
<1>1. Good(0)
  <2>1. \A S \in SUBSET (1..0) : S = {}
    OBVIOUS
  <2>2. IsFiniteSet({}) /\ Cardinality({}) = 0
    BY FS_EmptySet
  <2>3. Enumerates([i \in 1..0 |-> 0], {})
    BY <2>2 DEF Enumerates
  <2> QED BY <2>1, <2>2, <2>3
<1>2. ASSUME NEW k \in Nat, Good(k) PROVE Good(k + 1)
  <2> SUFFICES ASSUME NEW S \in SUBSET (1..(k + 1))
               PROVE  IsFiniteSet(S) /\ \E s : Enumerates(s, S)
    OBVIOUS
  <2> DEFINE T == S \ {k + 1}
  <2>1. T \in SUBSET (1..k)
    OBVIOUS
  <2>2. IsFiniteSet(T) /\ \E s : Enumerates(s, T)
    BY <1>2, <2>1
  <2>3. PICK s : Enumerates(s, T)
    BY <2>2
  <2>4. CASE k + 1 \notin S
    <3>1. T = S
      BY <2>4
    <3> HIDE DEF T
    <3> QED BY <2>2, <3>1
  <2>5. CASE k + 1 \in S
    <3>1. S = T \cup {k + 1} /\ k + 1 \notin T
      BY <2>5
    <3> HIDE DEF T
    <3>2. IsFiniteSet(S) /\ Cardinality(S) = Cardinality(T) + 1 /\ Cardinality(T) \in Nat
      BY <2>2, <3>1, FS_AddElement, FS_CardinalityType
    <3> DEFINE c == Cardinality(T)
               t == [i \in 1..(c + 1) |-> IF i = c + 1 THEN k + 1 ELSE s[i]]
    <3>3. s \in [1..c -> T] /\ \A m, l \in 1..c : m < l => s[m] < s[l]
      BY <2>3 DEF Enumerates
    <3>4. c \in Nat /\ Cardinality(S) = c + 1
      BY <3>2
    <3> HIDE DEF c
    <3>5. t \in [1..(c + 1) -> S]
      BY <3>1, <3>3, <3>4
    <3>6. \A m, l \in 1..(c + 1) : m < l => t[m] < t[l]
      <4> SUFFICES ASSUME NEW m \in 1..(c + 1), NEW l \in 1..(c + 1), m < l PROVE t[m] < t[l]
        OBVIOUS
      <4>1. m \in 1..c /\ t[m] = s[m]
        BY <3>4
      <4>2. s[m] \in 1..k /\ k \in Nat
        BY <2>1, <3>3, <4>1
      <4>3. CASE l = c + 1
        BY <3>4, <4>1, <4>2, <4>3
      <4>4. CASE l \in 1..c
        BY <3>3, <3>4, <4>1, <4>4
      <4> QED BY <3>4, <4>3, <4>4
    <3> HIDE DEF t
    <3>7. Enumerates(t, S)
      <4>1. DOMAIN t = 1..(c + 1)
        BY <3>5
      <4> QED BY <3>4, <3>5, <3>6, <4>1 DEF Enumerates
    <3> QED BY <3>2, <3>7
  <2> QED BY <2>4, <2>5
<1>3. CASE Bad = {}
  <2>1. n \notin Bad
    BY <1>3
  <2> QED BY <2>1
<1>4. CASE Bad # {}
  <2>1. PICK b \in Bad : \A y \in Bad : b <= y
    BY <1>4, LeastOf
  <2> HIDE DEF Good
  <2>2. b \in Nat /\ b # 0 /\ ~Good(b)
    BY <1>1, <2>1
  <2>3. b - 1 \in Nat /\ ~(b <= b - 1)
    BY <2>2
  <2>4. Good(b - 1)
    BY <2>1, <2>3
  <2>5. Good(b - 1 + 1)
    BY <1>2, <2>3, <2>4
  <2> QED BY <2>2, <2>5
<1> QED BY <1>3, <1>4

LEMMA OrderOf ==
    ASSUME NEW n \in Nat, NEW S \in SUBSET (1..n)
    PROVE  InOrder(S) \in [1..Cardinality(S) -> S] /\ Cardinality(S) \in Nat
<1>1. IsFiniteSet(S) /\ \E s : Enumerates(s, S)
  BY Ordered
<1>2. \E s \in [1..Cardinality(S) -> S] : \A m, l \in DOMAIN s : m < l => s[m] < s[l]
  BY <1>1 DEF Enumerates
<1> QED BY <1>1, <1>2, FS_CardinalityType DEF InOrder

----------------------------------------------------------------------------
(* The memory that is built *)

(* A frame holds nothing, a table of frames, or a page. *)
Content(c) ==
    /\ c.kind \in {"zero", "table", "data"}
    /\ c.kind = "table" => c.entries \in [VIndex -> Frame \cup {NoFrame}]
    /\ c.kind = "data" => c.k \in Nat

Job == [dtb : Frame, base : Nat, size : MapSizes, test : MapSizes \cup {0}]

DummyInv ==
    /\ Frames = Frame /\ DOMAIN buf = Frame /\ \A f \in Frame : Content(buf[f])
    /\ phase \in {"page", "mapping"} => job \in Job /\ cur_len \in Nat
    /\ phase = "mapping" => cur_table \in Frame /\ new_page \in Frame /\ level \in 0..(Levels - 1)
    /\ processes \in Seq(Job)

LEMMA IndexInTable ==
    ASSUME NEW v \in Nat, NEW l \in 0..(Levels - 1)
    PROVE  index(v, l) \in VIndex
<1> DEFINE w == Fan ^ (Levels - 1 - l)
<1>1. Levels - 1 - l \in 0..Levels
  BY LayoutAssumption
<1>2. w \in Nat \ {0}
  BY <1>1, PowersAssumption
<1>3. index(v, l) = (v \div w) % Fan
  BY DEF index
<1> HIDE DEF w
<1>4. v \div w \in Nat
  BY <1>2
<1> DEFINE q == v \div w
<1> HIDE DEF q
<1>5. q \in Nat /\ index(v, l) = q % Fan
  BY <1>3, <1>4 DEF q
<1> QED BY <1>5, LayoutAssumption DEF VIndex

LEMMA EntryIsFrame ==
    ASSUME DummyInv, NEW f \in Frame, NEW i \in VIndex
    PROVE  Entry(f, i) \in Frame \cup {NoFrame}
BY DEF DummyInv, Content, Entry

(* The walk goes from table to table, to a frame or to nothing. *)
LEMMA WalkUnfolds ==
    ASSUME DummyInv, NEW dtb \in Frame, NEW v \in Nat
    PROVE  \E at \in [0..Levels -> Frame \cup {NoFrame}] :
              /\ vtop(dtb, v) = at[Levels]
              /\ \A l \in 0..Levels :
                    at[l] = IF l = 0 THEN dtb
                            ELSE IF at[l - 1] = NoFrame THEN NoFrame
                            ELSE Entry(at[l - 1], index(v, l - 1))
<1> DEFINE F == Frame \cup {NoFrame}
           Body(at, l) == IF l = 0 THEN dtb
                          ELSE IF at[l - 1] = NoFrame THEN NoFrame
                          ELSE Entry(at[l - 1], index(v, l - 1))
           Good(n) == \E g \in [0..n -> F] : \A l \in 0..n : g[l] = Body(g, l)
           Bad == {n \in 0..Levels : ~Good(n)}
<1>1. Good(0)
  <2> DEFINE g == [l \in 0..0 |-> dtb]
  <2>1. g \in [0..0 -> F]
    OBVIOUS
  <2>2. \A l \in 0..0 : g[l] = Body(g, l)
    OBVIOUS
  <2> QED BY <2>1, <2>2
<1>2. ASSUME NEW n \in Nat, n < Levels, Good(n) PROVE Good(n + 1)
  <2>1. PICK g \in [0..n -> F] : \A l \in 0..n : g[l] = Body(g, l)
    BY <1>2
  <2> DEFINE x == IF g[n] = NoFrame THEN NoFrame ELSE Entry(g[n], index(v, n))
             h == [l \in 0..(n + 1) |-> IF l = n + 1 THEN x ELSE g[l]]
  <2>2. x \in F
    <3>1. index(v, n) \in VIndex
      BY <1>2, IndexInTable, LayoutAssumption
    <3>2. g[n] \in F
      BY <2>1
    <3> QED BY <3>1, <3>2, EntryIsFrame
  <2>3. h \in [0..(n + 1) -> F]
    <3> HIDE DEF x, F
    <3> QED BY <2>1, <2>2
  <2>4. \A l \in 0..(n + 1) : h[l] = Body(h, l)
    <3> SUFFICES ASSUME NEW l \in 0..(n + 1) PROVE h[l] = Body(h, l)
      OBVIOUS
    <3>1. CASE l = n + 1
      <4>1. h[l] = x /\ h[l - 1] = g[n] /\ l - 1 = n /\ l # 0
        BY <3>1
      <4> HIDE DEF h
      <4> QED BY <4>1
    <3>2. CASE l \in 1..n
      <4>1. h[l] = g[l] /\ h[l - 1] = g[l - 1] /\ l # 0 /\ l \in 0..n
        BY <3>2
      <4> HIDE DEF h
      <4> QED BY <2>1, <4>1
    <3>3. CASE l = 0
      <4>1. h[l] = g[0] /\ 0 \in 0..n
        BY <3>3
      <4> HIDE DEF h
      <4> QED BY <2>1, <3>3, <4>1
    <3> QED BY <3>1, <3>2, <3>3
  <2> HIDE DEF h
  <2> QED BY <2>3, <2>4
<1>3. Good(Levels)
  <2>1. CASE Bad = {}
    <3>1. Levels \in 0..Levels /\ Levels \notin Bad
      BY <2>1, LayoutAssumption
    <3> HIDE DEF Good
    <3> QED BY <3>1
  <2>2. CASE Bad # {}
    <3> HIDE DEF Good
    <3>1. Bad \in SUBSET Nat
      BY LayoutAssumption
    <3>2. PICK b \in Bad : \A y \in Bad : b <= y
      BY <2>2, <3>1, LeastOf
    <3>3. b \in 0..Levels /\ b # 0 /\ ~Good(b)
      BY <1>1, <3>2
    <3>4. b - 1 \in Nat /\ b - 1 < Levels /\ b - 1 \in 0..Levels /\ ~(b <= b - 1)
      BY <3>3, LayoutAssumption
    <3>5. Good(b - 1)
      BY <3>2, <3>4
    <3>6. Good(b - 1 + 1) /\ b - 1 + 1 = b
      BY <1>2, <3>3, <3>4, <3>5
    <3> QED BY <3>3, <3>6
  <2> QED BY <2>1, <2>2
<1> DEFINE at == CHOOSE at : at = [l \in 0..Levels |-> Body(at, l)]
<1>4. vtop(dtb, v) = at[Levels]
  BY DEF vtop
<1>5. PICK g \in [0..Levels -> F] : \A l \in 0..Levels : g[l] = Body(g, l)
  BY <1>3
<1>6. g = [l \in 0..Levels |-> Body(g, l)]
  BY <1>5
<1>7. at = [l \in 0..Levels |-> Body(at, l)]
  BY <1>6
<1> HIDE DEF at
<1>8. \A l \in 0..Levels : at[l] = Body(at, l)
  BY <1>7
<1> DEFINE Odds == {l \in 0..Levels : at[l] \notin F}
<1>9. Odds = {}
  <2> SUFFICES ASSUME Odds # {} PROVE FALSE
    OBVIOUS
  <2>1. Odds \in SUBSET Nat
    BY LayoutAssumption
  <2>2. PICK l \in Odds : \A y \in Odds : l <= y
    BY <2>1, LeastOf
  <2>3. l # 0
    BY <1>8, <2>2
  <2>4. l - 1 \in 0..Levels /\ l - 1 \in 0..(Levels - 1) /\ ~(l <= l - 1)
    BY <2>2, <2>3, LayoutAssumption
  <2>5. at[l - 1] \in F
    BY <2>2, <2>4
  <2>6. index(v, l - 1) \in VIndex
    BY <2>4, IndexInTable
  <2>7. at[l] \in F
    BY <1>8, <2>2, <2>3, <2>5, <2>6, EntryIsFrame
  <2> QED BY <2>2, <2>7
<1>10. at \in [0..Levels -> F]
  BY <1>7, <1>9
<1> QED BY <1>4, <1>8, <1>10

(* A table is walked to a frame or to nothing. *)
LEMMA WalkIsFrame ==
    ASSUME DummyInv, NEW dtb \in Frame, NEW v \in Nat
    PROVE  vtop(dtb, v) \in Frame \cup {NoFrame}
<1>1. Levels \in 0..Levels
  BY LayoutAssumption
<1> QED BY <1>1, WalkUnfolds

(* A frame gets a new content. *)
LEMMA FrameFilled ==
    ASSUME DummyInv, NEW f \in Frame, NEW c, Content(c), buf' = [buf EXCEPT ![f] = c]
    PROVE  DOMAIN buf' = Frame /\ \A g \in Frame : Content(buf'[g])
<1>1. \A g \in Frame : buf'[g] = IF g = f THEN c ELSE buf[g]
  BY DEF DummyInv
<1>2. DOMAIN buf' = Frame
  BY DEF DummyInv
<1> QED BY <1>1, <1>2 DEF DummyInv

LEMMA NewContents == Content(NewTable) /\ \A p : \A k \in Nat : Content(Data(p, k))
BY DEF Content, NewTable, Data

LEMMA DummyStart == ASSUME DummyInit PROVE DummyInv
<1>1. size = NFrames
  BY MemoryAssumption DEF DummyInit
<1>2. Frames = Frame
  BY <1>1 DEF Frames, Frame
<1> QED BY <1>1, <1>2 DEF DummyInit, DummyInv, Content, Zero, Frame

LEMMA SlotInTable ==
    ASSUME DummyInv, phase = "mapping"
    PROVE  /\ Slot(level) \in VIndex
           /\ NextTable(level) \in Frame \cup {NoFrame}
<1>1. job.base + cur_len \in Nat
  BY DEF DummyInv, Job
<1>2. Slot(level) \in VIndex
  BY <1>1, IndexInTable DEF DummyInv, Slot
<1> QED BY <1>2, EntryIsFrame DEF DummyInv, NextTable

LEMMA LinkedContent ==
    ASSUME DummyInv, phase = "mapping", NEW f \in Frame
    PROVE  DOMAIN Linked(f) = Frame /\ \A g \in Frame : Content(Linked(f)[g])
<1> DEFINE c == [kind |-> "table",
                 entries |-> [i \in VIndex |-> IF i = Slot(level) THEN f ELSE Entry(cur_table, i)]]
<1>1. \A i \in VIndex : Entry(cur_table, i) \in Frame \cup {NoFrame}
  BY EntryIsFrame DEF DummyInv
<1>2. Content(c)
  BY <1>1 DEF Content
<1>3. Linked(f) = [buf EXCEPT ![cur_table] = c]
  BY DEF Linked
<1> HIDE DEF c
<1> QED BY <1>2, <1>3 DEF DummyInv

LEMMA DummyStep ==
    ASSUME DummyInv, DummyNext
    PROVE  DummyInv'
<1>1. Frames' = Frame
  BY DEF DummyNext, Shuffle, NextRound, AllocDtb, NextPage, Descend, CreateTable, MapPage,
         EndProcess, Panic, UseClone, Frames, DummyInv
<1>2. CASE Shuffle \/ NextRound \/ Panic \/ UseClone
  BY <1>1, <1>2 DEF DummyInv, Shuffle, NextRound, Panic, UseClone
<1>3. CASE AllocDtb
  <2>1. PICK base \in VPage, n \in MapSizes, t \in MapSizes \cup {0}, f \in Frames :
            /\ buf' = [buf EXCEPT ![f] = NewTable]
            /\ job' = [dtb |-> f, base |-> base, size |-> n, test |-> t]
    BY <1>3 DEF AllocDtb
  <2>2. f \in Frame /\ base \in Nat
    BY <2>1 DEF DummyInv, VPage
  <2>3. job' \in Job
    BY <2>1, <2>2 DEF Job
  <2>4. DOMAIN buf' = Frame /\ \A g \in Frame : Content(buf'[g])
    BY <2>1, <2>2, FrameFilled, NewContents
  <2> QED BY <1>1, <1>3, <2>3, <2>4 DEF AllocDtb, DummyInv
<1>4. CASE NextPage
  <2>1. PICK f \in Frames :
            /\ new_page' = f
            /\ buf' = IF cur_len < job.test
                      THEN [buf EXCEPT ![f] = Data(Len(processes) + 1, cur_len)] ELSE buf
    BY <1>4 DEF NextPage
  <2>2. f \in Frame /\ cur_len \in Nat /\ job \in Job
    BY <1>4, <2>1 DEF DummyInv, NextPage
  <2>3. DOMAIN buf' = Frame /\ \A g \in Frame : Content(buf'[g])
    <3>1. CASE cur_len < job.test
      BY <2>1, <2>2, <3>1, FrameFilled, NewContents
    <3>2. CASE ~(cur_len < job.test)
      BY <2>1, <3>2 DEF DummyInv
    <3> QED BY <3>1, <3>2
  <2>4. job.dtb \in Frame /\ 0 \in 0..(Levels - 1)
    BY <2>2, LayoutAssumption DEF Job
  <2> QED BY <1>1, <1>4, <2>1, <2>2, <2>3, <2>4 DEF NextPage, DummyInv
<1>5. CASE Descend
  <2>1. NextTable(level) \in Frame
    BY <1>5, SlotInTable DEF Descend
  <2>2. level + 1 \in 0..(Levels - 1)
    BY <1>5, LayoutAssumption DEF Descend, DummyInv
  <2> QED BY <1>1, <1>5, <2>1, <2>2 DEF Descend, DummyInv
<1>6. CASE CreateTable
  <2>1. PICK f \in Frames : cur_table' = f /\ buf' = [Linked(f) EXCEPT ![f] = NewTable]
    BY <1>6 DEF CreateTable
  <2>2. f \in Frame /\ phase = "mapping"
    BY <1>6, <2>1 DEF DummyInv, CreateTable, NeedsTable
  <2>3. DOMAIN buf' = Frame /\ \A g \in Frame : Content(buf'[g])
    <3> DEFINE L == Linked(f)
    <3>1. DOMAIN L = Frame /\ \A g \in Frame : Content(L[g])
      BY <2>2, LinkedContent
    <3>2. buf' = [L EXCEPT ![f] = NewTable]
      BY <2>1
    <3> HIDE DEF L
    <3> QED BY <2>2, <3>1, <3>2, NewContents
  <2>4. level + 1 \in 0..(Levels - 1)
    BY <1>6, LayoutAssumption DEF CreateTable, NeedsTable, DummyInv
  <2> QED BY <1>1, <1>6, <2>1, <2>2, <2>3, <2>4 DEF CreateTable, DummyInv
<1>7. CASE MapPage
  <2>1. DOMAIN buf' = Frame /\ \A g \in Frame : Content(buf'[g])
    <3>1. CASE NextTable(level) = NoFrame
      BY <1>7, <3>1, LinkedContent DEF MapPage, DummyInv
    <3>2. CASE NextTable(level) # NoFrame
      BY <1>7, <3>2 DEF MapPage, DummyInv
    <3> QED BY <3>1, <3>2
  <2> QED BY <1>1, <1>7, <2>1 DEF MapPage, DummyInv
<1>8. CASE EndProcess
  BY <1>1, <1>8 DEF EndProcess, DummyInv
<1> QED BY <1>2, <1>3, <1>4, <1>5, <1>6, <1>7, <1>8 DEF DummyNext

(* What a byte of the memory is when it is opened, and the page table.     *)
LEMMA OpenedMemory ==
    ASSUME DummyInv, NewVirt
    PROVE  table' \in [Page -> Frame \cup {None}] /\ mem' \in [PAddress -> Nat]
<1>1. processes[1].dtb \in Frame
  <2>1. processes # <<>> /\ processes \in Seq(Job)
    BY DEF DummyInv, NewVirt
  <2>2. processes[1] \in Job
    BY <2>1
  <2> QED BY <2>2 DEF Job
<1>2. \A v \in Page : vtop(processes[1].dtb, v) \in Frame \cup {NoFrame}
  BY <1>1, WalkIsFrame DEF Page
<1>3. ASSUME NEW x \in PAddress PROVE Byte(page(x), offset(x)) \in Nat
  <2>1. page(x) \in Frame /\ offset(x) \in Nat
    BY PAddressPage, PageSplit, PageSizeAssumption
  <2>2. Content(buf[page(x)])
    BY <2>1 DEF DummyInv
  <2> QED BY <2>1, <2>2 DEF Content, Byte
<1> DEFINE w(v) == vtop(processes[1].dtb, v)
           b(x) == Byte(page(x), offset(x))
<1>4. /\ table' = [v \in Page |-> IF w(v) = NoFrame THEN None ELSE w(v)]
      /\ mem' = [x \in PAddress |-> b(x)]
  BY DEF NewVirt
<1>5. (\A v \in Page : w(v) \in Frame \cup {NoFrame}) /\ (\A x \in PAddress : b(x) \in Nat)
  BY <1>2, <1>3
<1> HIDE DEF w, b
<1> QED BY <1>4, <1>5

----------------------------------------------------------------------------
(* A call under way *)

Item == [addr : Nat, len : Nat \ {0}]

(* A piece has bytes of its item, as long as it is to be translated those  *)
(* of one page; a translated one lies in the frames that its pages had.    *)
PieceOf(data, c) ==
    /\ c.item \in DOMAIN data /\ c.addr \in Nat /\ c.len \in Nat \ {0}
    /\ Bytes(c) \subseteq Bytes(data[c.item])

InPage(c) == \A a \in Bytes(c) : page(a) = page(c.addr) /\ page(a) \in Page

Placed(maps, c, a) == \E f \in Frame : /\ <<page(a), f>> \in maps
                                       /\ c.paddr + (a - c.addr) = Physical(f, a)

PlacedOf(data, maps, c) ==
    PieceOf(data, c) /\ c.paddr \in Nat /\ \A a \in Bytes(c) : Placed(maps, c, a)

Has(c, i, a) == c.item = i /\ a \in Bytes(c)

CallInv ==
    /\ call.op \in {"read_list", "read_raw", "read_cstr", "write_list", "page_info",
                    "translation_map", "page_map"}
    /\ call.data \in Seq(Item)
    /\ call.op \in {"read_raw", "read_cstr"} => Len(call.data) = 1

TodoInv ==
    /\ \A c \in todo : PieceOf(call.data, c) /\ InPage(c)
    /\ todo # {} => \A p \in Page : <<p, table[p]>> \in seen

TranslationInv ==
    \A n \in 1..Len(translation) : PlacedOf(call.data, seen, translation[n])

(* What is not there is zeroed and makes the result a partial one.         *)
Zeroed(op, data, held, partial, maps, i, a) ==
    /\ partial /\ <<page(a), None>> \in maps
    /\ Reading(op) => held[i][a - data[i].addr + 1] = 0

Missing(i, a) == Zeroed(call.op, call.data, buffer, partial_read, seen, i, a)

BufferInv ==
    Reading(call.op) =>
        /\ DOMAIN buffer = DOMAIN call.data
        /\ \A i \in DOMAIN call.data : DOMAIN buffer[i] = 1..call.data[i].len
        /\ \A i \in DOMAIN call.data : \A a \in Bytes(call.data[i]) :
              Missing(i, a) \/ buffer[i][a - call.data[i].addr + 1] = Untouched

(* Every byte is still to be translated, was translated or is missing.     *)
CoverInv ==
    ~Mapping(call.op) =>
        \A i \in DOMAIN call.data : \A a \in Bytes(call.data[i]) :
            \/ \E c \in todo : Has(c, i, a)
            \/ \E n \in 1..Len(translation) : Has(translation[n], i, a)
            \/ Missing(i, a)

UnderWay == CallInv /\ TodoInv /\ TranslationInv /\ BufferInv /\ CoverInv /\ before = mem

Answers == [item : Nat, addr : Nat, len : Nat, paddr : PAddress]

VirtInv ==
    /\ TypeOK /\ translation \in Seq(Answers)
    /\ pc = "translating" => UnderWay
    /\ ReadIsTrue /\ WriteIsTrue

(* The pieces of the items, for a call that starts. *)
LEMMA StartPieces ==
    ASSUME NEW data \in Seq(Item), \A i \in DOMAIN data : Bytes(data[i]) \subseteq Address
    PROVE  /\ \A c \in Pieces(data) : PieceOf(data, c) /\ InPage(c)
           /\ \A i \in DOMAIN data : \A a \in Bytes(data[i]) :
                 \E c \in Pieces(data) : Has(c, i, a)
<1>1. \A i \in DOMAIN data : data[i].addr \in Nat /\ data[i].len \in Nat \ {0}
  <2>1. \A i \in DOMAIN data : data[i] \in Item
    OBVIOUS
  <2> QED BY <2>1 DEF Item
<1>2. ASSUME NEW i \in DOMAIN data, NEW x \in Bytes(data[i])
      PROVE  LET c == Piece(data, i, page(x)) IN
             /\ c \in Pieces(data)
             /\ c.item = i /\ c.addr \in Nat /\ c.len \in Nat \ {0} /\ c.addr \in Bytes(c)
             /\ Bytes(c) = {a \in Bytes(data[i]) : page(a) = page(x)}
  <2> DEFINE c == Piece(data, i, page(x))
  <2>1. c \in Pieces(data)
    BY DEF Pieces
  <2>2. /\ c.item = i /\ c.addr \in Nat /\ c.len \in Nat \ {0}
        /\ Bytes(c) = {a \in Bytes(data[i]) : page(a) = page(x)}
    BY <1>1, PieceBytes
  <2> HIDE DEF c
  <2>3. c.addr \in Bytes(c)
    BY <2>2 DEF Bytes
  <2> QED BY <2>1, <2>2, <2>3 DEF c
<1>3. ASSUME NEW c \in Pieces(data)
      PROVE  PieceOf(data, c) /\ InPage(c)
  <2>1. PICK i \in DOMAIN data : \E x \in Bytes(data[i]) : c = Piece(data, i, page(x))
    BY DEF Pieces
  <2> PICK x \in Bytes(data[i]) : c = Piece(data, i, page(x))
    BY <2>1
  <2>2. /\ c.item = i /\ c.addr \in Nat /\ c.len \in Nat \ {0} /\ c.addr \in Bytes(c)
        /\ Bytes(c) = {a \in Bytes(data[i]) : page(a) = page(x)}
    BY <1>2, <2>1
  <2>3. \A a \in Bytes(c) : a \in Address /\ page(a) = page(x)
    BY <2>2
  <2>4. \A a \in Bytes(c) : page(a) = page(c.addr) /\ page(a) \in Page
    BY <2>2, <2>3, AddressPage
  <2> QED BY <2>2, <2>4 DEF PieceOf, InPage
<1>4. ASSUME NEW i \in DOMAIN data, NEW a \in Bytes(data[i])
      PROVE  \E c \in Pieces(data) : Has(c, i, a)
  BY <1>2 DEF Has
<1> QED BY <1>3, <1>4

----------------------------------------------------------------------------
(* The steps of a call *)

(* A list is handed over: it has to be translated. *)
LEMMA BeginStep ==
    ASSUME VirtInv, NEW op, NEW data \in Seq(Item), NEW gap, Begin(op, data, gap),
           \A i \in DOMAIN data : Bytes(data[i]) \subseteq Address,
           op \in {"read_list", "read_raw", "read_cstr", "write_list", "page_info",
                  "translation_map", "page_map"}
    PROVE  VirtInv'
<1>1. /\ pc' = "translating" /\ call'.op = op /\ call'.data = data
      /\ todo' = Pieces(data) /\ translation' = <<>> /\ partial_read' = FALSE
      /\ buffer' = IF Reading(op)
                   THEN [i \in DOMAIN data |-> [k \in 1..data[i].len |-> Untouched]]
                   ELSE <<>>
      /\ seen' = { <<p, table[p]>> : p \in Page } /\ before' = mem
      /\ UNCHANGED <<table, mem, answer>>
  BY DEF Begin, guest
<1>2. CallInv'
  <2>1. op \in {"read_raw", "read_cstr"} => Len(data) = 1
    BY DEF Begin
  <2> QED BY <1>1, <2>1 DEF CallInv
<1>3. TodoInv'
  BY <1>1, StartPieces DEF TodoInv
<1>4. TranslationInv'
  BY <1>1 DEF TranslationInv
<1>5. \A i \in DOMAIN data : data[i].addr \in Nat /\ data[i].len \in Nat \ {0}
  <2>1. \A i \in DOMAIN data : data[i] \in Item
    OBVIOUS
  <2> QED BY <2>1 DEF Item
<1>6. BufferInv'
  <2> SUFFICES ASSUME Reading(op) PROVE BufferInv'
    BY <1>1 DEF BufferInv
  <2>1. \A i \in DOMAIN data : \A a \in Bytes(data[i]) : a - data[i].addr + 1 \in 1..data[i].len
    BY <1>5 DEF Bytes
  <2> QED BY <1>1, <2>1 DEF BufferInv
<1>7. CoverInv'
  BY <1>1, StartPieces DEF CoverInv
<1>8. (translation \in Seq(Answers))'
  BY <1>1
<1>9. TypeOK'
  <2>1. DOMAIN translation' = {}
    BY <1>1
  <2>2. TypeOK
    BY DEF VirtInv
  <2> QED BY <1>1, <2>1, <2>2 DEF TypeOK
<1>10. ReadIsTrue' /\ WriteIsTrue'
  BY <1>1 DEF ReadIsTrue, WriteIsTrue
<1> QED BY <1>1, <1>2, <1>3, <1>4, <1>6, <1>7, <1>8, <1>9, <1>10 DEF VirtInv, UnderWay

(* A piece that is translated *)
LEMMA TranslatedStep ==
    ASSUME VirtInv, Translated
    PROVE  VirtInv'
<1>1. PICK c \in todo :
          /\ pc = "translating" /\ table[page(c.addr)] # None
          /\ todo' = todo \ {c}
          /\ translation' = Append(translation,
                [item |-> c.item, addr |-> c.addr, len |-> c.len,
                 paddr |-> Physical(table[page(c.addr)], c.addr)])
          /\ UNCHANGED <<table, mem, pc, call, partial_read, buffer, answer, seen, before>>
  BY DEF Translated, guest
<1> DEFINE f == table[page(c.addr)]
           e == [item |-> c.item, addr |-> c.addr, len |-> c.len, paddr |-> Physical(f, c.addr)]
           N == Len(translation)
<1>2. UnderWay
  BY <1>1 DEF VirtInv
<1>3. PieceOf(call.data, c) /\ InPage(c) /\ \A p \in Page : <<p, table[p]>> \in seen
  BY <1>1, <1>2 DEF UnderWay, TodoInv
<1>4. c.addr \in Bytes(c) /\ c.addr \in Nat /\ c.len \in Nat
  BY <1>3 DEF PieceOf, Bytes
<1>5. f \in Frame /\ <<page(c.addr), f>> \in seen
  BY <1>1, <1>3, <1>4 DEF VirtInv, TypeOK, InPage
<1>6. Physical(f, c.addr) \in PAddress /\ Physical(f, c.addr) \in Nat
  BY <1>4, <1>5, PhysicalSplit
<1> HIDE DEF f
<1>7. /\ e.item = c.item /\ e.addr = c.addr /\ e.len = c.len /\ e.paddr = Physical(f, c.addr)
      /\ Bytes(e) = Bytes(c)
  BY DEF Bytes
<1>8. e \in Answers
  <2>1. c.item \in Nat
    BY <1>2, <1>3 DEF PieceOf, UnderWay, CallInv
  <2> QED BY <1>4, <1>6, <2>1 DEF Answers
<1>9. PlacedOf(call.data, seen, e)
  <2> SUFFICES ASSUME NEW a \in Bytes(c) PROVE Placed(seen, e, a)
    BY <1>3, <1>6, <1>7 DEF PlacedOf, PieceOf
  <2>1. a \in Nat /\ page(a) = page(c.addr)
    BY <1>3, <1>4 DEF Bytes, InPage
  <2>2. Physical(f, c.addr) + (a - c.addr) = Physical(f, a)
    BY <1>4, <1>5, <2>1, SamePage
  <2> HIDE DEF e
  <2> QED BY <1>5, <1>7, <2>1, <2>2 DEF Placed
<1>10. translation' = Append(translation, e) /\ translation \in Seq(Answers) /\ N \in Nat
  BY <1>1 DEF VirtInv, f
<1>11. \A i, a : Has(c, i, a) <=> Has(e, i, a)
  BY <1>7 DEF Has
<1> HIDE DEF e
<1>12. /\ translation' \in Seq(Answers) /\ Len(translation') = N + 1 /\ translation'[N + 1] = e
       /\ \A n \in 1..N : translation'[n] = translation[n]
  BY <1>8, <1>10
<1> HIDE DEF N
<1>13. TranslationInv'
  <2> SUFFICES ASSUME NEW n \in 1..(N + 1) PROVE PlacedOf(call.data, seen, translation'[n])
    BY <1>1, <1>12 DEF TranslationInv
  <2>1. CASE n = N + 1
    BY <1>9, <1>12, <2>1
  <2>2. CASE n \in 1..N
    <3>1. PlacedOf(call.data, seen, translation[n])
      BY <1>2, <2>2 DEF UnderWay, TranslationInv, N
    <3>2. translation'[n] = translation[n]
      BY <1>12, <2>2
    <3> QED BY <3>1, <3>2
  <2>3. n = N + 1 \/ n \in 1..N
    BY <1>10
  <2> QED BY <2>1, <2>2, <2>3
<1>14. TodoInv'
  BY <1>1, <1>2 DEF UnderWay, TodoInv
<1>15. CallInv' /\ BufferInv' /\ before' = mem'
  BY <1>1, <1>2 DEF UnderWay, CallInv, BufferInv, Missing
<1>16. CoverInv'
  <2> SUFFICES ASSUME ~Mapping(call.op), NEW i \in DOMAIN call.data, NEW a \in Bytes(call.data[i])
               PROVE  \/ \E d \in todo' : Has(d, i, a)
                      \/ \E n \in 1..(N + 1) : Has(translation'[n], i, a)
                      \/ Missing(i, a)
    BY <1>1, <1>12 DEF CoverInv, Missing
  <2>1. \/ \E d \in todo : Has(d, i, a)
        \/ \E n \in 1..N : Has(translation[n], i, a)
        \/ Missing(i, a)
    BY <1>2 DEF UnderWay, CoverInv, N
  <2>2. CASE Has(c, i, a)
    <3>1. N + 1 \in 1..(N + 1) /\ Has(translation'[N + 1], i, a)
      BY <1>10, <1>11, <1>12, <2>2
    <3> QED BY <3>1
  <2>3. CASE \E n \in 1..N : Has(translation[n], i, a)
    <3>1. PICK n \in 1..N : Has(translation[n], i, a)
      BY <2>3
    <3>2. n \in 1..(N + 1) /\ Has(translation'[n], i, a)
      BY <1>10, <1>12, <3>1
    <3> QED BY <3>2
  <2> QED BY <1>1, <2>1, <2>2, <2>3
<1>17. TypeOK'
  <2>1. \A n \in DOMAIN translation' : translation'[n].paddr \in PAddress
    <3>1. \A n \in DOMAIN translation' : translation'[n] \in Answers
      BY <1>12
    <3> QED BY <3>1 DEF Answers
  <2> QED BY <1>1, <2>1 DEF VirtInv, TypeOK
<1>18. ReadIsTrue' /\ WriteIsTrue'
  BY <1>1 DEF ReadIsTrue, WriteIsTrue
<1> QED BY <1>12, <1>13, <1>14, <1>15, <1>16, <1>17, <1>18 DEF VirtInv, UnderWay

(* A piece that is not mapped *)
LEMMA NotTranslatedStep ==
    ASSUME VirtInv, NotTranslated
    PROVE  VirtInv'
<1>1. PICK c \in todo :
          /\ pc = "translating" /\ table[page(c.addr)] = None
          /\ todo' = todo \ {c}
          /\ buffer' = IF Reading(call.op)
                       THEN Filled(buffer, call.data, c, [a \in Bytes(c) |-> 0]) ELSE buffer
          /\ partial_read' = (partial_read \/ ~Mapping(call.op))
          /\ UNCHANGED <<table, mem, pc, call, translation, answer, seen, before>>
  BY DEF NotTranslated, guest
<1>2. UnderWay
  BY <1>1 DEF VirtInv
<1>3. PieceOf(call.data, c) /\ InPage(c) /\ \A p \in Page : <<p, table[p]>> \in seen
  BY <1>1, <1>2 DEF UnderWay, TodoInv
<1>4. /\ c.addr \in Bytes(c) /\ c.addr \in Nat /\ c.len \in Nat /\ c.item \in DOMAIN call.data
      /\ Bytes(c) \subseteq Bytes(call.data[c.item])
  BY <1>3 DEF PieceOf, Bytes
<1>5. \A a \in Bytes(c) : <<page(a), None>> \in seen
  BY <1>1, <1>3, <1>4 DEF InPage
<1>6. Reading(call.op) => ~Mapping(call.op)
  BY DEF Reading, Mapping
<1>7. \A i \in DOMAIN call.data : call.data[i].addr \in Nat /\ call.data[i].len \in Nat
  <2>1. \A i \in DOMAIN call.data : call.data[i] \in Item
    BY <1>2 DEF UnderWay, CallInv
  <2> QED BY <2>1 DEF Item
<1>8. ASSUME Reading(call.op)
      PROVE  /\ DOMAIN buffer' = DOMAIN call.data
             /\ \A i \in DOMAIN call.data : DOMAIN buffer'[i] = 1..call.data[i].len
             /\ \A i \in DOMAIN call.data : \A a \in Bytes(call.data[i]) :
                   buffer'[i][a - call.data[i].addr + 1] =
                       IF Has(c, i, a) THEN 0 ELSE buffer[i][a - call.data[i].addr + 1]
  <2>1. /\ DOMAIN buffer = DOMAIN call.data
        /\ \A i \in DOMAIN call.data : DOMAIN buffer[i] = 1..call.data[i].len
    BY <1>2, <1>8 DEF UnderWay, BufferInv
  <2> DEFINE addr == call.data[c.item].addr
             row == [k \in DOMAIN buffer[c.item] |->
                        IF addr + k - 1 \in Bytes(c) THEN 0 ELSE buffer[c.item][k]]
  <2>2. buffer' = [buffer EXCEPT ![c.item] = row]
    BY <1>1, <1>8 DEF Filled
  <2>3. /\ DOMAIN row = 1..call.data[c.item].len
        /\ \A k \in 1..call.data[c.item].len :
              row[k] = IF addr + k - 1 \in Bytes(c) THEN 0 ELSE buffer[c.item][k]
    BY <1>4, <2>1
  <2> HIDE DEF row
  <2>4. /\ DOMAIN buffer' = DOMAIN call.data /\ buffer'[c.item] = row
        /\ \A i \in DOMAIN call.data : i # c.item => buffer'[i] = buffer[i]
    BY <1>4, <2>1, <2>2
  <2>5. ASSUME NEW i \in DOMAIN call.data, NEW a \in Bytes(call.data[i])
        PROVE  buffer'[i][a - call.data[i].addr + 1] =
                   IF Has(c, i, a) THEN 0 ELSE buffer[i][a - call.data[i].addr + 1]
    <3>1. CASE i = c.item
      <4> DEFINE k == a - addr + 1
      <4>1. k \in 1..call.data[c.item].len /\ addr + k - 1 = a
        BY <1>7, <3>1 DEF Bytes
      <4> HIDE DEF k
      <4>2. row[k] = IF a \in Bytes(c) THEN 0 ELSE buffer[c.item][k]
        BY <2>3, <4>1
      <4> QED BY <2>4, <3>1, <4>2 DEF k, Has
    <3>2. CASE i # c.item
      BY <2>4, <3>2 DEF Has
    <3> QED BY <3>1, <3>2
  <2> QED BY <2>1, <2>3, <2>4, <2>5
<1>9. ASSUME ~Mapping(call.op), NEW i \in DOMAIN call.data, NEW a \in Bytes(call.data[i]),
             Has(c, i, a) \/ Missing(i, a)
      PROVE  Missing(i, a)'
  BY <1>1, <1>5, <1>8, <1>9 DEF Missing, Zeroed, Has
<1>10. BufferInv'
  <2> SUFFICES ASSUME Reading(call.op) PROVE BufferInv'
    BY <1>1 DEF BufferInv
  <2>1. ASSUME NEW i \in DOMAIN call.data, NEW a \in Bytes(call.data[i])
        PROVE  Missing(i, a)' \/ buffer'[i][a - call.data[i].addr + 1] = Untouched
    BY <1>2, <1>6, <1>8, <1>9 DEF UnderWay, BufferInv
  <2> QED BY <1>1, <1>8, <2>1 DEF BufferInv
<1>11. CoverInv'
  <2> SUFFICES ASSUME ~Mapping(call.op), NEW i \in DOMAIN call.data, NEW a \in Bytes(call.data[i])
               PROVE  \/ \E d \in todo' : Has(d, i, a)
                      \/ \E n \in 1..Len(translation) : Has(translation[n], i, a)
                      \/ Missing(i, a)'
    BY <1>1 DEF CoverInv
  <2>1. \/ \E d \in todo : Has(d, i, a)
        \/ \E n \in 1..Len(translation) : Has(translation[n], i, a)
        \/ Missing(i, a)
    BY <1>2 DEF UnderWay, CoverInv
  <2> QED BY <1>1, <1>9, <2>1
<1>12. TodoInv' /\ TranslationInv' /\ CallInv' /\ before' = mem'
  BY <1>1, <1>2 DEF UnderWay, TodoInv, TranslationInv, CallInv
<1>13. TypeOK' /\ (translation \in Seq(Answers))'
  BY <1>1 DEF VirtInv, TypeOK
<1>14. ReadIsTrue' /\ WriteIsTrue'
  BY <1>1 DEF ReadIsTrue, WriteIsTrue
<1> QED BY <1>10, <1>11, <1>12, <1>13, <1>14 DEF VirtInv, UnderWay

(* The guest changes a mapping: it had the old one, and has the new one.   *)
LEMMA RemapStep ==
    ASSUME VirtInv, Remap
    PROVE  VirtInv'
<1>1. PICK p \in Page, f \in Frame \cup {None} :
          table' = [table EXCEPT ![p] = f] /\ seen' = seen \cup {<<p, f>>}
  BY DEF Remap
<1>2. /\ pc # "done"
      /\ UNCHANGED <<mem, pc, call, todo, translation, partial_read, buffer, answer, before>>
  BY DEF Remap
<1>3. table \in [Page -> Frame \cup {None}]
  BY DEF VirtInv, TypeOK
<1>4. TypeOK' /\ (translation \in Seq(Answers))'
  BY <1>1, <1>2, <1>3 DEF VirtInv, TypeOK
<1>5. ReadIsTrue' /\ WriteIsTrue'
  BY <1>2 DEF ReadIsTrue, WriteIsTrue
<1>6. ASSUME pc = "translating" PROVE UnderWay'
  <2>1. UnderWay
    BY <1>6 DEF VirtInv
  <2>2. TodoInv'
    <3>1. todo # {} => \A q \in Page : <<q, table'[q]>> \in seen'
      BY <1>1, <1>3, <2>1 DEF UnderWay, TodoInv
    <3> QED BY <1>2, <2>1, <3>1 DEF UnderWay, TodoInv
  <2>3. TranslationInv'
    <3>1. \A c : PlacedOf(call.data, seen, c) => PlacedOf(call.data, seen', c)
      BY <1>1 DEF PlacedOf, Placed
    <3> QED BY <1>2, <2>1, <3>1 DEF UnderWay, TranslationInv
  <2>4. \A i, a : Missing(i, a) => Missing(i, a)'
    BY <1>1, <1>2 DEF Missing, Zeroed
  <2>5. BufferInv' /\ CoverInv'
    BY <1>2, <2>1, <2>4 DEF UnderWay, BufferInv, CoverInv
  <2> QED BY <1>2, <2>1, <2>2, <2>3, <2>5 DEF UnderWay, CallInv
<1> QED BY <1>2, <1>4, <1>5, <1>6 DEF VirtInv

----------------------------------------------------------------------------
(* The answer of a call *)

(* The byte at a of a frame that held the page, or the zero for none. *)
ByteIn(maps, m, a, b) == \E f \in Frame : <<page(a), f>> \in maps /\ b = m[Physical(f, a)]
ZeroIn(maps, a, b)    == b = 0 /\ <<page(a), None>> \in maps

(* A byte of an item that was read is one of a frame that its page had. *)
LEMMA ReadByte ==
    ASSUME VirtInv, UnderWay, NEW n \in 0..Len(translation), NEW i, NEW a \in Nat,
           Reads(n, i, a) # {}
    PROVE  LET c == translation[latest(Reads(n, i, a))] IN ByteIn(seen, mem, a, mem[c.paddr + (a - c.addr)])
<1> DEFINE m == latest(Reads(n, i, a))
           c == translation[m]
<1>1. n \in Nat /\ Reads(n, i, a) \in SUBSET (1..n)
  BY DEF Reads, VirtInv
<1>2. m \in Reads(n, i, a)
  BY <1>1, LatestOf
<1> HIDE DEF m
<1>3. m \in 1..Len(translation) /\ a \in Bytes(c)
  BY <1>2 DEF Reads, VirtInv
<1>4. Placed(seen, c, a)
  BY <1>3 DEF UnderWay, TranslationInv, PlacedOf
<1>5. PICK f \in Frame : <<page(a), f>> \in seen /\ c.paddr + (a - c.addr) = Physical(f, a)
  BY <1>4 DEF Placed
<1> QED BY <1>5 DEF ByteIn, m

(* What the buffers hold when the first n pieces were read. *)
LEMMA ReadBuffer ==
    ASSUME VirtInv, UnderWay, todo = {}, Reading(call.op), NEW n \in 0..Len(translation),
           buffer' = ReadPieces(n)
    PROVE  /\ DOMAIN buffer' = DOMAIN call.data
           /\ \A i \in DOMAIN call.data : DOMAIN buffer'[i] = 1..call.data[i].len
           /\ \A i \in DOMAIN call.data : \A k \in 1..call.data[i].len :
                 LET a == call.data[i].addr + k - 1
                     b == buffer'[i][k]
                 IN  \/ ByteIn(seen, mem, a, b)
                     \/ ZeroIn(seen, a, b) /\ partial_read
                     \/ b = Untouched /\ n # Len(translation)
<1>1. /\ DOMAIN buffer = DOMAIN call.data
      /\ \A i \in DOMAIN call.data : DOMAIN buffer[i] = 1..call.data[i].len
  BY DEF UnderWay, BufferInv
<1>2. /\ DOMAIN buffer' = DOMAIN call.data
      /\ \A i \in DOMAIN call.data : DOMAIN buffer'[i] = 1..call.data[i].len
      /\ \A i \in DOMAIN call.data : \A k \in 1..call.data[i].len :
            LET a == call.data[i].addr + k - 1
                r == Reads(n, i, a)
                c == translation[latest(r)]
            IN  buffer'[i][k] = IF r = {} THEN buffer[i][k] ELSE mem[c.paddr + (a - c.addr)]
  BY <1>1 DEF ReadPieces
<1>3. \A i \in DOMAIN call.data : call.data[i].addr \in Nat /\ call.data[i].len \in Nat
  <2>1. \A i \in DOMAIN call.data : call.data[i] \in Item
    BY DEF UnderWay, CallInv
  <2> QED BY <2>1 DEF Item
<1>4. ~Mapping(call.op)
  BY DEF Reading, Mapping
<1>5. ASSUME NEW i \in DOMAIN call.data, NEW k \in 1..call.data[i].len
      PROVE  LET a == call.data[i].addr + k - 1
                 b == buffer'[i][k]
             IN  \/ ByteIn(seen, mem, a, b)
                 \/ ZeroIn(seen, a, b) /\ partial_read
                 \/ b = Untouched /\ n # Len(translation)
  <2> DEFINE a == call.data[i].addr + k - 1
             r == Reads(n, i, a)
             c == translation[latest(r)]
  <2>1. a \in Nat /\ a \in Bytes(call.data[i]) /\ a - call.data[i].addr + 1 = k
    BY <1>3 DEF Bytes
  <2>2. buffer'[i][k] = IF r = {} THEN buffer[i][k] ELSE mem[c.paddr + (a - c.addr)]
    BY <1>2
  <2> HIDE DEF a
  <2>3. CASE r # {}
    BY <2>1, <2>2, <2>3, ReadByte DEF a
  <2>4. CASE r = {}
    <3>1. CASE Missing(i, a)
      <4>1. buffer[i][k] = 0 /\ <<page(a), None>> \in seen /\ partial_read
        BY <2>1, <3>1 DEF Missing, Zeroed
      <4> QED BY <2>2, <2>4, <4>1 DEF ZeroIn, a
    <3>2. CASE ~Missing(i, a)
      <4>1. buffer[i][k] = Untouched
        BY <2>1, <3>2 DEF UnderWay, BufferInv
      <4>2. \E m \in 1..Len(translation) : Has(translation[m], i, a)
        BY <1>4, <2>1, <3>2 DEF UnderWay, CoverInv
      <4>3. n # Len(translation)
        BY <2>4, <4>2 DEF Reads, Has
      <4> QED BY <2>2, <2>4, <4>1, <4>3 DEF a
    <3> QED BY <3>1, <3>2
  <2> QED BY <2>3, <2>4
<1> QED BY <1>2, <1>5

(* A string ends before its first zero. *)
LEMMA TruncatedAt ==
    ASSUME NEW len \in Nat, NEW b, DOMAIN b = 1..len, b = [k \in 1..len |-> b[k]]
    PROVE  /\ Len(truncated(b)) \in 0..len /\ DOMAIN truncated(b) = 1..Len(truncated(b))
           /\ \A k \in 1..Len(truncated(b)) : truncated(b)[k] = b[k] /\ b[k] # 0
           /\ Len(truncated(b)) < len => b[Len(truncated(b)) + 1] = 0
<1> DEFINE zeros == {k \in DOMAIN b : b[k] = 0}
           z == CHOOSE k \in zeros : \A m \in zeros : k <= m
           s == truncated(b)
<1>0. b \in Seq({b[k] : k \in 1..len}) /\ Len(b) = len
  OBVIOUS
<1>1. CASE zeros = {}
  <2>1. truncated(b) = b
    BY <1>1 DEF truncated
  <2>2. \A k \in 1..len : b[k] # 0
    BY <1>1
  <2>3. Len(s) = len /\ DOMAIN s = 1..len /\ \A k \in 1..len : s[k] = b[k]
    BY <1>0, <2>1
  <2> HIDE DEF zeros, z, s
  <2>4. /\ Len(s) \in 0..len /\ DOMAIN s = 1..Len(s)
        /\ \A k \in 1..Len(s) : s[k] = b[k] /\ b[k] # 0
        /\ ~(Len(s) < len)
    BY <2>2, <2>3
  <2> QED BY <2>4 DEF s
<1>2. CASE zeros # {}
  <2>1. zeros \in SUBSET Nat
    OBVIOUS
  <2>2. z \in zeros /\ \A m \in zeros : z <= m
    BY <1>2, <2>1, LeastOf
  <2>3. s = SubSeq(b, 1, z - 1)
    BY <1>2 DEF truncated
  <2> HIDE DEF z, s
  <2>4. z \in 1..len /\ b[z] = 0
    BY <2>2
  <2> DEFINE y == z - 1
  <2>5. y \in 0..len /\ y < len /\ y + 1 = z /\ s = SubSeq(b, 1, y)
    BY <2>3, <2>4
  <2>6. \A k \in 1..y : k \notin zeros
    BY <2>2, <2>4
  <2> HIDE DEF y
  <2>7. Len(s) = y /\ DOMAIN s = 1..y /\ \A k \in 1..y : s[k] = b[k] /\ k \in DOMAIN b
    BY <1>0, <2>5
  <2>8. \A k \in 1..y : b[k] # 0
    BY <2>6, <2>7
  <2> HIDE DEF zeros
  <2>9. /\ Len(s) \in 0..len /\ DOMAIN s = 1..Len(s)
        /\ \A k \in 1..Len(s) : s[k] = b[k] /\ b[k] # 0
    BY <2>5, <2>7, <2>8
  <2>10. b[Len(s) + 1] = 0
    BY <2>4, <2>5, <2>7
  <2> QED BY <2>9, <2>10 DEF s
<1> QED BY <1>1, <1>2

(* The whole list is read, or a part of it and an error. *)
LEMMA ReadAnswer ==
    ASSUME VirtInv, UnderWay, todo = {}, Reading(call.op), NEW n \in 0..Len(translation),
           buffer' = ReadPieces(n), NEW r, r.kind \in {"ok", "partial", "error"},
           n = Len(translation) => r = ListResult, n # Len(translation) => r = Error,
           answer' = Returned(call.op, r, buffer'), pc' = "done",
           UNCHANGED <<mem, call, translation, seen>>
    PROVE  ReadIsTrue' /\ answer'.kind \in {"ok", "partial", "error"}
<1>1. /\ DOMAIN buffer' = DOMAIN call.data
      /\ \A i \in DOMAIN call.data : DOMAIN buffer'[i] = 1..call.data[i].len
      /\ \A i \in DOMAIN call.data : \A k \in 1..call.data[i].len :
            LET a == call.data[i].addr + k - 1
                b == buffer'[i][k]
            IN  \/ ByteIn(seen, mem, a, b)
                \/ ZeroIn(seen, a, b) /\ partial_read
                \/ b = Untouched /\ n # Len(translation)
  BY ReadBuffer
<1> DEFINE String == LET s == answer'.value
                         a == call.data[1].addr
                     IN  /\ \A k \in DOMAIN s : s[k] # 0 /\ ByteIn(seen, mem, a + k - 1, s[k])
                         /\ Len(s) < call.data[1].len =>
                               \/ ByteIn(seen, mem, a + Len(s), 0)
                               \/ ZeroIn(seen, a + Len(s), 0)
<1>2. /\ answer'.kind \in {"ok", "partial", "error"}
      /\ call.op = "read_list" /\ partial_read => answer'.kind # "ok"
      /\ n # Len(translation) => answer'.kind = "error"
  <2>1. CASE call.op = "read_list"
    <3>1. answer' = r
      BY <2>1 DEF Returned
    <3> QED BY <3>1 DEF ListResult, Partial, Error
  <2>2. CASE call.op = "read_raw"
    <3>1. answer' = map_data(r, buffer'[1])
      BY <2>2 DEF Returned, virt_read_raw
    <3> QED BY <2>2, <3>1 DEF map_data, Ok, Error
  <2>3. CASE call.op = "read_cstr"
    <3>1. answer' = data_part(r, truncated(buffer'[1]))
      BY <2>3 DEF Returned, virt_read_cstr
    <3> QED BY <2>3, <3>1 DEF data_part, Ok, Error
  <2> QED BY <2>1, <2>2, <2>3 DEF Reading
<1>3. ASSUME call.op = "read_cstr", answer'.kind = "ok" PROVE String
  <2> DEFINE b   == buffer'[1]
             len == call.data[1].len
             a0  == call.data[1].addr
             t   == truncated(b)
  <2>1. r.kind # "error" /\ answer'.value = t
    BY <1>3 DEF Returned, virt_read_cstr, data_part, Ok, Error
  <2>2. n = Len(translation)
    BY <2>1 DEF Error
  <2>3. 1 \in DOMAIN call.data /\ a0 \in Nat /\ len \in Nat
    <3>1. call.data \in Seq(Item) /\ Len(call.data) = 1
      BY <1>3 DEF UnderWay, CallInv
    <3>2. call.data[1] \in Item
      BY <3>1
    <3> QED BY <3>1, <3>2 DEF Item
  <2>4. DOMAIN b = 1..len /\ b = [k \in 1..len |-> b[k]]
    BY <1>1, <2>3 DEF ReadPieces
  <2>5. \A k \in 1..len : ByteIn(seen, mem, a0 + k - 1, b[k]) \/ ZeroIn(seen, a0 + k - 1, b[k])
    BY <1>1, <2>2, <2>3
  <2>6. /\ Len(t) \in 0..len /\ DOMAIN t = 1..Len(t)
        /\ \A k \in 1..Len(t) : t[k] = b[k] /\ b[k] # 0
        /\ Len(t) < len => b[Len(t) + 1] = 0
    BY <2>3, <2>4, TruncatedAt
  <2> HIDE DEF t, b, len, a0
  <2>7. \A k \in DOMAIN t : t[k] # 0 /\ ByteIn(seen, mem, a0 + k - 1, t[k])
    <3> SUFFICES ASSUME NEW k \in DOMAIN t
                 PROVE  t[k] # 0 /\ ByteIn(seen, mem, a0 + k - 1, t[k])
      OBVIOUS
    <3>1. k \in 1..len /\ t[k] = b[k] /\ b[k] # 0
      BY <2>3, <2>6
    <3>2. ~ZeroIn(seen, a0 + k - 1, b[k])
      BY <3>1 DEF ZeroIn
    <3>3. ByteIn(seen, mem, a0 + k - 1, b[k])
      BY <2>5, <3>1, <3>2
    <3> QED BY <3>1, <3>3
  <2>8. ASSUME Len(t) < len
        PROVE  ByteIn(seen, mem, a0 + Len(t), 0) \/ ZeroIn(seen, a0 + Len(t), 0)
    <3>1. Len(t) + 1 \in 1..len /\ b[Len(t) + 1] = 0 /\ a0 + (Len(t) + 1) - 1 = a0 + Len(t)
      BY <2>3, <2>6, <2>8
    <3> QED BY <2>5, <3>1
  <2> QED BY <2>1, <2>7, <2>8 DEF t, b, len, a0
<1> HIDE DEF String
<1>4. \A i \in DOMAIN buffer' : \A k \in DOMAIN buffer'[i] :
          LET a == call.data[i].addr + k - 1
              b == buffer'[i][k]
          IN  \/ ByteIn(seen, mem, a, b)
              \/ ZeroIn(seen, a, b) /\ ~(call.op = "read_list" /\ answer'.kind = "ok")
              \/ b = Untouched /\ answer'.kind = "error"
  BY <1>1, <1>2
<1>5. ReadIsTrue'
  BY <1>3, <1>4 DEF ReadIsTrue, ByteOf, ZeroFor, ByteIn, ZeroIn, String
<1> QED BY <1>2, <1>5

LEMMA PhysReadStep ==
    ASSUME VirtInv, PhysRead \/ PhysReadFails
    PROVE  VirtInv'
<1>1. /\ pc = "translating" /\ todo = {} /\ Reading(call.op) /\ pc' = "done" /\ UnderWay
      /\ UNCHANGED <<table, mem, call, translation, partial_read, seen, before>>
  BY DEF PhysRead, PhysReadFails, VirtInv, guest
<1>2. PICK n \in 0..Len(translation) :
          /\ buffer' = ReadPieces(n)
          /\ answer' = Returned(call.op, IF n = Len(translation) THEN ListResult ELSE Error, buffer')
  <2>0. Len(translation) \in Nat
    BY DEF VirtInv
  <2>1. CASE PhysRead
    BY <2>0, <2>1 DEF PhysRead
  <2>2. CASE PhysReadFails
    <3>1. PICK n \in 0..(Len(translation) - 1) : buffer' = ReadPieces(n)
      BY <2>2 DEF PhysReadFails
    <3>2. n \in 0..Len(translation) /\ n # Len(translation)
      BY <2>0
    <3> QED BY <2>2, <3>1, <3>2 DEF PhysReadFails
  <2> QED BY <2>1, <2>2
<1> DEFINE r == IF n = Len(translation) THEN ListResult ELSE Error
<1>3. r.kind \in {"ok", "partial", "error"}
  BY DEF ListResult, Ok, Partial, Error
<1>4. (n = Len(translation) => r = ListResult) /\ (n # Len(translation) => r = Error)
  OBVIOUS
<1> HIDE DEF r
<1>5. ReadIsTrue' /\ answer'.kind \in {"ok", "partial", "error"}
  BY <1>1, <1>2, <1>3, <1>4, ReadAnswer DEF r
<1>6. TypeOK' /\ (translation \in Seq(Answers))'
  BY <1>1, <1>5 DEF VirtInv, TypeOK
<1>7. WriteIsTrue'
  BY <1>1 DEF WriteIsTrue, Reading
<1> QED BY <1>1, <1>5, <1>6, <1>7 DEF VirtInv

LEMMA Distance ==
    ASSUME NEW p \in Nat, NEW q \in Nat, NEW l \in Nat, NEW x \in p..(p + l - 1)
    PROVE  /\ q + (x - p) \in q..(q + l - 1) /\ q + (x - p) \in Nat
           /\ p + ((q + (x - p)) - q) = x
OBVIOUS

(* A byte of the memory that was written is one of an item. *)
LEMMA WrittenByte ==
    ASSUME VirtInv, UnderWay, NEW n \in 0..Len(translation), NEW x \in PAddress, Writes(n, x) # {}
    PROVE  LET c == translation[latest(Writes(n, x))] IN
           /\ c.item \in DOMAIN call.data
           /\ \E a \in Bytes(call.data[c.item]) :
                 <<page(a), page(x)>> \in seen /\ offset(a) = offset(x)
<1> DEFINE m == latest(Writes(n, x))
           c == translation[m]
<1>1. n \in Nat /\ Writes(n, x) \in SUBSET (1..n)
  BY DEF Writes, VirtInv
<1>2. m \in Writes(n, x)
  BY <1>1, LatestOf
<1> HIDE DEF m
<1>3. m \in 1..Len(translation) /\ x \in PBytes(c)
  BY <1>2 DEF Writes, VirtInv
<1>4. PlacedOf(call.data, seen, c)
  BY <1>3 DEF UnderWay, TranslationInv
<1> HIDE DEF c
<1>5. c.paddr \in Nat /\ c.addr \in Nat /\ c.len \in Nat
  BY <1>4 DEF PlacedOf, PieceOf
<1> DEFINE a == c.addr + (x - c.paddr)
<1>6. a \in Bytes(c) /\ a \in Nat /\ c.paddr + (a - c.addr) = x
  <2>1. x \in c.paddr..(c.paddr + c.len - 1)
    BY <1>3 DEF PBytes
  <2>2. /\ a \in c.addr..(c.addr + c.len - 1) /\ a \in Nat
        /\ c.paddr + (a - c.addr) = x
    BY <1>5, <2>1, Distance
  <2> QED BY <2>2 DEF Bytes
<1> HIDE DEF a
<1>7. PICK f \in Frame : <<page(a), f>> \in seen /\ x = Physical(f, a)
  BY <1>4, <1>6 DEF PlacedOf, Placed
<1>8. page(x) = f /\ offset(x) = offset(a)
  BY <1>6, <1>7, PhysicalSplit
<1>9. c.item \in DOMAIN call.data /\ a \in Bytes(call.data[c.item])
  BY <1>4, <1>6 DEF PlacedOf, PieceOf
<1> QED BY <1>7, <1>8, <1>9 DEF c, m

LEMMA PhysWriteStep ==
    ASSUME VirtInv, PhysWrite \/ PhysWriteFails
    PROVE  VirtInv'
<1>1. /\ pc = "translating" /\ todo = {} /\ call.op = "write_list" /\ pc' = "done" /\ UnderWay
      /\ UNCHANGED <<table, call, translation, partial_read, buffer, seen, before>>
  BY DEF PhysWrite, PhysWriteFails, Walked, VirtInv, guest
<1>2. PICK n \in 0..Len(translation) :
          /\ mem' = WritePieces(n)
          /\ answer' = IF n = Len(translation) THEN ListResult ELSE Error
  <2>0. Len(translation) \in Nat
    BY DEF VirtInv
  <2>1. CASE PhysWrite
    BY <2>0, <2>1 DEF PhysWrite
  <2>2. CASE PhysWriteFails
    <3>1. PICK n \in 0..(Len(translation) - 1) : mem' = WritePieces(n)
      BY <2>2 DEF PhysWriteFails
    <3>2. n \in 0..Len(translation) /\ n # Len(translation)
      BY <2>0
    <3> QED BY <2>2, <3>1, <3>2 DEF PhysWriteFails
  <2> QED BY <2>1, <2>2
<1>3. /\ answer'.kind \in {"ok", "partial", "error"}
      /\ answer'.kind = "ok" => n = Len(translation) /\ ~partial_read
  BY <1>2 DEF ListResult, Ok, Partial, Error
<1>4. \A x \in PAddress : mem'[x] = IF Writes(n, x) = {} THEN mem[x]
                                   ELSE 100 + translation[latest(Writes(n, x))].item
  BY <1>2 DEF WritePieces
<1>5. \A x \in PAddress : Writes(n, x) # {} =>
          \E i \in DOMAIN call.data :
              /\ mem'[x] = 100 + i
              /\ \E a \in Bytes(call.data[i]) :
                     <<page(a), page(x)>> \in seen /\ offset(a) = offset(x)
  BY <1>1, <1>4, WrittenByte
<1>6. call.data \in Seq(Item) /\ DOMAIN call.data \subseteq Nat
  BY <1>1 DEF UnderWay, CallInv
<1>7. mem' \in [PAddress -> Nat]
  <2>1. \A x \in PAddress : mem'[x] \in Nat
    BY <1>4, <1>5, <1>6 DEF VirtInv, TypeOK
  <2> QED BY <1>2, <2>1 DEF WritePieces
<1>8. TypeOK' /\ (translation \in Seq(Answers))'
  BY <1>1, <1>3, <1>7 DEF VirtInv, TypeOK
<1>9. ReadIsTrue'
  BY <1>1 DEF ReadIsTrue, Reading
<1>10. \A x \in PAddress : mem'[x] # before[x] =>
           \E i \in DOMAIN call.data : \E a \in Bytes(call.data[i]) :
               /\ <<page(a), page(x)>> \in seen /\ offset(a) = offset(x)
               /\ mem'[x] = 100 + i
  <2>1. before = mem
    BY <1>1 DEF UnderWay
  <2> QED BY <1>4, <1>5, <2>1
<1>11. ASSUME answer'.kind = "ok", NEW i \in DOMAIN call.data, NEW a \in Bytes(call.data[i])
       PROVE  \E j \in DOMAIN call.data : \E f \in Frame :
                  <<page(a), f>> \in seen /\ 100 + j = mem'[Physical(f, a)]
  <2>1. PICK m \in 1..Len(translation) : Has(translation[m], i, a)
    BY <1>1, <1>3, <1>11 DEF UnderWay, CoverInv, Missing, Zeroed, Mapping
  <2> DEFINE c == translation[m]
  <2>2. PlacedOf(call.data, seen, c) /\ a \in Bytes(c)
    BY <1>1, <2>1 DEF UnderWay, TranslationInv, Has
  <2> HIDE DEF c
  <2>3. PICK f \in Frame : <<page(a), f>> \in seen /\ c.paddr + (a - c.addr) = Physical(f, a)
    BY <2>2 DEF PlacedOf, Placed
  <2>4. c.paddr \in Nat /\ c.addr \in Nat /\ c.len \in Nat /\ a \in Nat
    BY <2>2 DEF PlacedOf, PieceOf, Bytes
  <2>5. Physical(f, a) \in PAddress /\ Physical(f, a) \in PBytes(c)
    <3>1. Physical(f, a) \in PAddress
      BY <2>4, PhysicalSplit
    <3>2. c.paddr + (a - c.addr) \in PBytes(c)
      <4>1. a \in c.addr..(c.addr + c.len - 1)
        BY <2>2 DEF Bytes
      <4>2. c.paddr + (a - c.addr) \in c.paddr..(c.paddr + c.len - 1)
        BY <2>4, <4>1, Distance
      <4> QED BY <4>2 DEF PBytes
    <3> QED BY <2>3, <3>1, <3>2
  <2>6. Writes(n, Physical(f, a)) # {}
    BY <1>3, <1>11, <2>5 DEF Writes, c
  <2> QED BY <1>5, <2>3, <2>5, <2>6
<1>12. WriteIsTrue'
  <2>1. call' = call /\ seen' = seen /\ before' = before
    BY <1>1
  <2>2. answer'.kind = "ok" =>
            \A i \in DOMAIN call.data : \A a \in Bytes(call.data[i]) :
                \E j \in DOMAIN call.data : ByteOf(a, 100 + j)'
    BY <1>11, <2>1 DEF ByteOf
  <2> DEFINE Told == \A i \in DOMAIN call.data : \A a \in Bytes(call.data[i]) :
                        \E j \in DOMAIN call.data : ByteOf(a, 100 + j)
             Changed == \A x \in PAddress : mem[x] # before[x] =>
                           \E i \in DOMAIN call.data : \E a \in Bytes(call.data[i]) :
                               /\ <<page(a), page(x)>> \in seen /\ offset(a) = offset(x)
                               /\ mem[x] = 100 + i
  <2>3. Changed'
    BY <1>10, <2>1
  <2>4. answer'.kind = "ok" => Told'
    BY <2>1, <2>2
  <2>5. WriteIsTrue' <=> (pc' = "done" /\ call'.op = "write_list" =>
                             Changed' /\ (answer'.kind = "ok" => Told'))
    BY DEF WriteIsTrue
  <2> HIDE DEF Told, Changed
  <2> QED BY <2>3, <2>4, <2>5
<1> QED BY <1>1, <1>8, <1>9, <1>12 DEF VirtInv

(* The maps and the info of a page leave memory and buffers alone. *)
LEMMA MapStep ==
    ASSUME VirtInv, MapRange \/ PageInfo
    PROVE  VirtInv'
<1>1. /\ ~Reading(call.op) /\ call.op # "write_list" /\ pc' = "done" /\ answer'.kind \in {"ok", "error"}
      /\ UNCHANGED <<table, mem, call, translation, partial_read>>
  BY DEF MapRange, PageInfo, Walked, Mapping, Reading, Ok, Error, guest
<1>2. TypeOK' /\ (translation \in Seq(Answers))'
  BY <1>1 DEF VirtInv, TypeOK
<1>3. ReadIsTrue' /\ WriteIsTrue'
  BY <1>1 DEF ReadIsTrue, WriteIsTrue
<1> QED BY <1>1, <1>2, <1>3 DEF VirtInv

LEMMA VirtStep ==
    ASSUME VirtInv, Step
    PROVE  VirtInv'
BY TranslatedStep, NotTranslatedStep, PhysReadStep, PhysWriteStep, MapStep, RemapStep DEF Step

----------------------------------------------------------------------------
(* The session *)

(* The items of the program lie in the virtual and the physical space. *)
ItemsInv ==
    /\ items \in Seq(Item)
    /\ \A i \in 1..Len(items) : Bytes(items[i]) \subseteq Address \cap PAddress
    /\ read_list \subseteq 1..Len(items) /\ write_list \subseteq 1..Len(items)

SessionInv ==
    /\ VirtInv /\ DummyInv /\ ItemsInv
    /\ ~opened => pc = "idle" /\ stage = "none"
    /\ opened \in BOOLEAN /\ asked \in BOOLEAN /\ over \in {"virt", "phys"}

(* The entries of a list of the batcher are items. *)
LEMMA EntriesAreItems ==
    ASSUME ItemsInv, NEW list, list \subseteq 1..Len(items)
    PROVE  /\ Entries(list) \in Seq(Item)
           /\ \A i \in DOMAIN Entries(list) : Bytes(Entries(list)[i]) \subseteq Address \cap PAddress
<1> DEFINE c == Cardinality(list)
           o == InOrder(list)
           e == Entries(list)
<1>1. Len(items) \in Nat
  BY DEF ItemsInv
<1>2. o \in [1..c -> list] /\ c \in Nat
  BY <1>1, OrderOf
<1>3. e = [n \in 1..c |-> items[o[n]]]
  BY DEF Entries
<1> HIDE DEF c, o, e
<1>4. \A n \in 1..c : o[n] \in 1..Len(items) /\ items[o[n]] \in Item
  <2>1. \A n \in 1..c : o[n] \in 1..Len(items)
    BY <1>2
  <2>2. \A i \in 1..Len(items) : items[i] \in Item
    BY DEF ItemsInv
  <2> QED BY <2>1, <2>2
<1>5. e \in Seq(Item) /\ DOMAIN e = 1..c
  <2>1. e \in [1..c -> Item]
    BY <1>3, <1>4
  <2> QED BY <1>2, <2>1
<1>6. \A i \in DOMAIN e : Bytes(e[i]) \subseteq Address \cap PAddress
  BY <1>3, <1>4, <1>5 DEF ItemsInv
<1> QED BY <1>5, <1>6 DEF e

(* A physical list is its own translation. *)
LEMMA BeginPhysicalStep ==
    ASSUME VirtInv, NEW op \in {"read_list", "write_list"}, NEW data \in Seq(Item),
           BeginPhysical(op, data),
           \A i \in DOMAIN data : Bytes(data[i]) \subseteq Address \cap PAddress
    PROVE  VirtInv'
<1>1. /\ pc' = "translating" /\ call'.op = op /\ call'.data = data
      /\ todo' = {} /\ partial_read' = FALSE
      /\ translation' = [i \in DOMAIN data |->
                            [item |-> i, addr |-> data[i].addr, len |-> data[i].len,
                             paddr |-> data[i].addr]]
      /\ buffer' = IF op = "read_list"
                   THEN [i \in DOMAIN data |-> [k \in 1..data[i].len |-> Untouched]]
                   ELSE <<>>
      /\ seen' = { <<p, p>> : p \in Page } /\ before' = mem
      /\ UNCHANGED <<table, mem, answer>>
  BY DEF BeginPhysical, guest
<1>2. /\ \A i \in DOMAIN data : data[i].addr \in Nat /\ data[i].len \in Nat \ {0}
      /\ DOMAIN data = 1..Len(data) /\ Len(data) \in Nat
  <2>1. \A i \in DOMAIN data : data[i] \in Item
    OBVIOUS
  <2> QED BY <2>1 DEF Item
<1>3. \A i \in DOMAIN data : data[i].addr \in PAddress
  <2>1. \A i \in DOMAIN data : data[i].addr \in Bytes(data[i])
    BY <1>2 DEF Bytes
  <2> QED BY <2>1
<1>4. ASSUME NEW i \in DOMAIN data
      PROVE  /\ translation'[i] \in Answers /\ PlacedOf(data, seen', translation'[i])
             /\ \A a : Has(translation'[i], i, a) <=> a \in Bytes(data[i])
  <2> DEFINE c == translation'[i]
  <2>1. c = [item |-> i, addr |-> data[i].addr, len |-> data[i].len, paddr |-> data[i].addr]
    BY <1>1
  <2>2. c \in Answers
    BY <1>2, <1>3, <2>1 DEF Answers
  <2>3. Bytes(c) = Bytes(data[i])
    BY <2>1 DEF Bytes
  <2>4. PieceOf(data, c) /\ c.paddr \in Nat
    BY <1>2, <2>1, <2>3 DEF PieceOf
  <2>5. ASSUME NEW a \in Bytes(c) PROVE Placed(seen', c, a)
    <3>1. a \in Address /\ a \in PAddress
      BY <2>3
    <3>2. page(a) \in Page /\ page(a) \in Frame /\ Physical(page(a), a) = a /\ a \in Nat
      BY <3>1, AddressPage, PAddressPage
    <3>3. <<page(a), page(a)>> \in seen'
      BY <1>1, <3>2
    <3>4. c.paddr + (a - c.addr) = Physical(page(a), a)
      BY <1>2, <2>1, <3>2
    <3> HIDE DEF c
    <3> QED BY <3>2, <3>3, <3>4 DEF Placed
  <2> HIDE DEF c
  <2>6. \A a : Has(c, i, a) <=> a \in Bytes(data[i])
    BY <2>1, <2>3 DEF Has
  <2> QED BY <2>2, <2>4, <2>5, <2>6 DEF PlacedOf, c
<1>5. DOMAIN translation' = 1..Len(data) /\ translation' \in Seq(Answers) /\ Len(translation') = Len(data)
  <2>1. DOMAIN translation' = 1..Len(data)
    BY <1>1, <1>2
  <2>2. translation' = [i \in 1..Len(data) |-> translation'[i]]
    BY <1>1, <1>2
  <2> QED BY <1>2, <1>4, <2>1, <2>2
<1>6. TranslationInv'
  BY <1>1, <1>2, <1>4, <1>5 DEF TranslationInv
<1>7. CoverInv'
  <2>1. \A i \in DOMAIN data : \A a \in Bytes(data[i]) :
            \E n \in 1..Len(translation') : Has(translation'[n], i, a)
    BY <1>2, <1>4, <1>5
  <2> QED BY <1>1, <2>1 DEF CoverInv
<1>8. BufferInv'
  <2> SUFFICES ASSUME Reading(op) PROVE BufferInv'
    BY <1>1 DEF BufferInv
  <2>1. \A i \in DOMAIN data : \A a \in Bytes(data[i]) : a - data[i].addr + 1 \in 1..data[i].len
    BY <1>2 DEF Bytes
  <2>2. op = "read_list"
    BY DEF Reading
  <2> QED BY <1>1, <2>1, <2>2 DEF BufferInv
<1>9. TodoInv' /\ CallInv' /\ before' = mem'
  BY <1>1 DEF TodoInv, CallInv
<1>10. TypeOK'
  <2>1. \A i \in DOMAIN translation' : translation'[i].paddr \in PAddress
    BY <1>2, <1>4, <1>5 DEF Answers
  <2> QED BY <1>1, <2>1 DEF VirtInv, TypeOK
<1>11. ReadIsTrue' /\ WriteIsTrue'
  BY <1>1 DEF ReadIsTrue, WriteIsTrue
<1> QED BY <1>5, <1>6, <1>7, <1>8, <1>9, <1>10, <1>11 DEF VirtInv, UnderWay

LEMMA SessionStart == ASSUME SessionInit PROVE SessionInv
<1>1. DummyInv
  BY DummyStart DEF SessionInit
<1>2. \A x \in PAddress : mem[x] = 0
  BY DEF SessionInit
<1>3. TypeOK /\ translation \in Seq(Answers)
  <2>1. table \in [Page -> Frame \cup {None}] /\ mem \in [PAddress -> Nat]
    BY DEF SessionInit
  <2>2. pc = "idle" /\ partial_read = FALSE /\ translation = <<>> /\ answer.kind = "ok"
    BY DEF SessionInit, Init, Ok
  <2>3. translation \in Seq(Answers) /\ \A i \in DOMAIN translation : translation[i].paddr \in PAddress
    BY <2>2
  <2>4. partial_read \in BOOLEAN /\ answer.kind \in {"ok", "partial", "error"}
    BY <2>2
  <2>5. pc \in {"idle", "translating", "done"}
    BY <2>2
  <2> QED BY <2>1, <2>3, <2>4, <2>5 DEF TypeOK
<1>4. VirtInv
  BY <1>3 DEF SessionInit, Init, VirtInv, ReadIsTrue, WriteIsTrue
<1>5. ItemsInv
  BY DEF SessionInit, BatcherInit, ItemsInv
<1> QED BY <1>1, <1>4, <1>5 DEF SessionInit, SessionInv, Init, BatcherInit

LEMMA DummySame == ASSUME DummyInv, UNCHANGED dummy PROVE DummyInv'
BY DEF DummyInv, dummy, Frames

LEMMA ItemsSame == ASSUME ItemsInv, UNCHANGED <<items, read_list, write_list>> PROVE ItemsInv'
BY DEF ItemsInv

LEMMA VirtSame == ASSUME VirtInv, UNCHANGED vars PROVE VirtInv'
<1>1. UNCHANGED <<table, mem, pc, call, todo, translation, partial_read, buffer, answer, seen, before>>
  BY DEF vars, guest
<1>2. UnderWay => UnderWay'
  BY <1>1 DEF UnderWay, CallInv, TodoInv, TranslationInv, BufferInv, CoverInv, Missing
<1>3. TypeOK' /\ (translation \in Seq(Answers))'
  BY <1>1 DEF VirtInv, TypeOK
<1>4. ReadIsTrue'
  BY <1>1 DEF VirtInv, ReadIsTrue, ByteOf, ZeroFor
<1>5. WriteIsTrue'
  <2>1. \A a, b : ByteOf(a, b) => ByteOf(a, b)'
    BY <1>1 DEF ByteOf
  <2> SUFFICES ASSUME pc' = "done", call'.op = "write_list"
               PROVE  WriteIsTrue'
    BY DEF WriteIsTrue
  <2>2. WriteIsTrue /\ pc = "done" /\ call.op = "write_list"
    BY <1>1 DEF VirtInv
  <2>3. answer'.kind = "ok" =>
            \A i \in DOMAIN call'.data : \A a \in Bytes(call'.data[i]) :
                \E j \in DOMAIN call'.data : ByteOf(a, 100 + j)'
    BY <1>1, <2>1, <2>2 DEF WriteIsTrue
  <2>4. \A x \in PAddress : mem'[x] # before'[x] =>
            \E i \in DOMAIN call'.data : \E a \in Bytes(call'.data[i]) :
                <<page(a), page(x)>> \in seen' /\ offset(a) = offset(x) /\ mem'[x] = 100 + i
    BY <1>1, <2>2 DEF WriteIsTrue
  <2> QED BY <2>3, <2>4 DEF WriteIsTrue
<1> QED BY <1>1, <1>2, <1>3, <1>4, <1>5 DEF VirtInv

LEMMA CallStep ==
    ASSUME SessionInv, Call
    PROVE  SessionInv'
<1>1. UNCHANGED <<dummy, bvars, opened, over, items, asked>> /\ opened
  BY DEF Call, Free
<1>2. VirtInv'
  <2>1. ASSUME NEW l \in Lists, NEW op \in {"read_list", "write_list", "read_raw", "read_cstr"},
               Begin(op, l, 0)
        PROVE  VirtInv'
    <3>1. l \in Seq(Item) /\ \A i \in DOMAIN l : Bytes(l[i]) \subseteq Address
      BY ListsAssumption DEF Item
    <3> QED BY <2>1, <3>1, BeginStep DEF SessionInv
  <2>2. ASSUME NEW op, NEW item \in Item, NEW g, Begin(op, <<item>>, g), Bytes(item) \subseteq Address,
               op \in {"page_info", "translation_map", "page_map"}
        PROVE  VirtInv'
    <3>1. <<item>> \in Seq(Item) /\ \A i \in DOMAIN <<item>> : Bytes(<<item>>[i]) \subseteq Address
      BY <2>2
    <3> QED BY <2>2, <3>1, BeginStep DEF SessionInv
  <2>3. ASSUME NEW a \in Address, Begin("page_info", <<[addr |-> a, len |-> 1]>>, 0)
        PROVE  VirtInv'
    <3> DEFINE item == [addr |-> a, len |-> 1]
    <3>1. a \in Nat
      BY AddressPage
    <3>2. item \in Item /\ Bytes(item) \subseteq Address
      BY <3>1 DEF Item, Bytes
    <3> HIDE DEF item
    <3> QED BY <2>2, <2>3, <3>2 DEF item
  <2>4. ASSUME NEW g, NEW op \in {"translation_map", "page_map"}, Begin(op, <<WholeSpace>>, g)
        PROVE  VirtInv'
    <3>1. WholeSpace \in Item /\ Bytes(WholeSpace) \subseteq Address
      BY PageSizeAssumption DEF WholeSpace, Item, Bytes, Address
    <3> QED BY <2>2, <2>4, <3>1
  <2> QED BY <2>1, <2>3, <2>4 DEF Call
<1>3. DummyInv' /\ ItemsInv'
  BY <1>1, DummySame, ItemsSame DEF SessionInv, bvars
<1> QED BY <1>1, <1>2, <1>3 DEF SessionInv

LEMMA AskStep ==
    ASSUME SessionInv, Ask
    PROVE  SessionInv'
<1>1. UNCHANGED <<dummy, bvars, opened, over, items>> /\ asked' = TRUE /\ stage \in {"reading", "writing"}
  BY DEF Ask
<1> DEFINE op   == IF stage = "reading" THEN "read_list" ELSE "write_list"
           list == IF stage = "reading" THEN read_list ELSE write_list
           data == Entries(list)
<1>2. data \in Seq(Item) /\ \A i \in DOMAIN data : Bytes(data[i]) \subseteq Address \cap PAddress
  <2>1. list \subseteq 1..Len(items) /\ ItemsInv
    BY DEF SessionInv, ItemsInv
  <2> HIDE DEF list
  <2> QED BY <2>1, EntriesAreItems
<1>3. Begin(op, data, 0) \/ BeginPhysical(op, data)
  BY DEF Ask
<1>4. op \in {"read_list", "write_list"}
  OBVIOUS
<1> HIDE DEF op, list, data
<1>5. VirtInv'
  <2>1. CASE Begin(op, data, 0)
    <3>1. \A i \in DOMAIN data : Bytes(data[i]) \subseteq Address
      BY <1>2
    <3> QED BY <1>2, <1>4, <2>1, <3>1, BeginStep DEF SessionInv
  <2>2. CASE BeginPhysical(op, data)
    BY <1>2, <1>4, <2>2, BeginPhysicalStep DEF SessionInv
  <2> QED BY <1>3, <2>1, <2>2
<1>6. DummyInv' /\ ItemsInv'
  BY <1>1, DummySame, ItemsSame DEF SessionInv, bvars
<1> QED BY <1>1, <1>5, <1>6 DEF SessionInv, bvars

LEMMA QueueStep ==
    ASSUME SessionInv, Queue
    PROVE  SessionInv'
<1>1. UNCHANGED <<dummy, vars, opened, over, asked>>
  BY DEF Queue
<1>2. PICK l \in Lists : items' = Append(items, l[1])
                        /\ (QueueRead(Len(items) + 1) \/ QueueWrite(Len(items) + 1))
  BY DEF Queue
<1>3. l[1] \in Item /\ Bytes(l[1]) \subseteq Address \cap PAddress
  <2>1. l \in Seq(Item) /\ l # <<>> /\ \A i \in DOMAIN l : Bytes(l[i]) \subseteq Address \cap PAddress
    BY ListsAssumption DEF Item
  <2>2. 1 \in DOMAIN l
    BY <2>1
  <2> QED BY <2>1, <2>2
<1> DEFINE n == Len(items)
<1>4. items \in Seq(Item) /\ n \in Nat
  BY DEF SessionInv, ItemsInv
<1>5. /\ items' \in Seq(Item) /\ Len(items') = n + 1 /\ items'[n + 1] = l[1]
      /\ \A i \in 1..n : items'[i] = items[i]
  <2> HIDE DEF n
  <2>1. items' = Append(items, l[1])
    BY <1>2, Zenon
  <2>2. items \in Seq(Item) /\ Len(items) = n /\ l[1] \in Item
    BY <1>3, <1>4 DEF n
  <2> QED BY <2>1, <2>2
<1>6. /\ read_list' \subseteq read_list \cup {n + 1} /\ write_list' \subseteq write_list \cup {n + 1}
      /\ stage' = stage
  BY <1>2 DEF QueueRead, QueueWrite
<1>7. /\ read_list \subseteq 1..n /\ write_list \subseteq 1..n
      /\ \A i \in 1..n : Bytes(items[i]) \subseteq Address \cap PAddress
  BY DEF SessionInv, ItemsInv
<1> HIDE DEF n
<1>8. \A i \in 1..(n + 1) : i \in 1..n \/ i = n + 1
  BY <1>4
<1>9. ItemsInv'
  <2>1. read_list' \subseteq 1..(n + 1) /\ write_list' \subseteq 1..(n + 1)
    BY <1>4, <1>6, <1>7
  <2>2. \A i \in 1..(n + 1) : Bytes(items'[i]) \subseteq Address \cap PAddress
    BY <1>3, <1>5, <1>7, <1>8
  <2> QED BY <1>5, <2>1, <2>2 DEF ItemsInv
<1>10. DummyInv' /\ VirtInv'
  BY <1>1, DummySame, VirtSame DEF SessionInv
<1> QED BY <1>1, <1>6, <1>9, <1>10 DEF SessionInv, vars

LEMMA OpenStep ==
    ASSUME SessionInv, NewVirt
    PROVE  SessionInv'
<1>1. /\ pc = "idle" /\ opened' = TRUE
      /\ UNCHANGED <<size, phase, buf, job, cur_len, new_page, cur_table, level, processes,
                     pc, translation, answer, partial_read, bvars, over, items, asked>>
  BY DEF NewVirt, SessionInv
<1>2. TypeOK' /\ (translation \in Seq(Answers))'
  BY <1>1, OpenedMemory DEF SessionInv, VirtInv, TypeOK
<1>3. VirtInv'
  BY <1>1, <1>2 DEF VirtInv, ReadIsTrue, WriteIsTrue
<1>4. DummyInv'
  BY <1>1 DEF SessionInv, DummyInv, Frames
<1>5. ItemsInv'
  BY <1>1, ItemsSame DEF SessionInv, bvars
<1> QED BY <1>1, <1>3, <1>4, <1>5 DEF SessionInv

LEMMA SessionStep ==
    ASSUME SessionInv, [SessionNext]_allvars
    PROVE  SessionInv'
<1>1. CASE Build
  <2>1. DummyInv'
    BY <1>1, DummyStep DEF Build, SessionInv
  <2>2. VirtInv' /\ ItemsInv'
    BY <1>1, VirtSame, ItemsSame DEF Build, SessionInv, bvars, session
  <2> QED BY <1>1, <2>1, <2>2 DEF Build, SessionInv, vars, bvars, session
<1>2. CASE NewBatcher
  <2>1. DummyInv' /\ VirtInv'
    BY <1>2, DummySame, VirtSame DEF NewBatcher, SessionInv
  <2>2. ItemsInv'
    BY <1>2 DEF NewBatcher, New, ItemsInv
  <2> QED BY <1>2, <2>1, <2>2 DEF NewBatcher, Free, SessionInv, vars
<1>3. CASE CommitOrDrop \/ Tell
  <2>1. DummyInv' /\ VirtInv' /\ UNCHANGED <<opened, over, items, pc>>
    BY <1>3, DummySame, VirtSame DEF CommitOrDrop, Tell, SessionInv, vars
  <2>2. read_list' \subseteq read_list /\ write_list' \subseteq write_list
    BY <1>3 DEF CommitOrDrop, Commit, Drop, Tell, ReadsServed, WritesServed, ReadsFailed, WritesFailed
  <2>3. ItemsInv'
    BY <2>1, <2>2 DEF SessionInv, ItemsInv
  <2>4. stage # "none"
    BY <1>3 DEF CommitOrDrop, Commit, Drop, Tell, ReadsServed, WritesServed, ReadsFailed, WritesFailed
  <2>5. asked' \in BOOLEAN
    BY <1>3 DEF CommitOrDrop, Tell, SessionInv
  <2> QED BY <2>1, <2>3, <2>4, <2>5 DEF SessionInv
<1>4. CASE Memory
  <2>1. VirtInv' /\ UNCHANGED <<dummy, bvars, session>> /\ opened
    BY <1>4, VirtStep DEF Memory, SessionInv
  <2>2. DummyInv' /\ ItemsInv'
    BY <2>1, DummySame, ItemsSame DEF SessionInv, bvars, session
  <2> QED BY <2>1, <2>2 DEF SessionInv, session
<1>5. CASE UNCHANGED allvars
  <2>1. UNCHANGED <<dummy, vars, bvars, session>>
    BY <1>5 DEF allvars
  <2>2. DummyInv' /\ VirtInv' /\ ItemsInv'
    BY <2>1, DummySame, VirtSame, ItemsSame DEF SessionInv, bvars, session
  <2> QED BY <2>1, <2>2 DEF SessionInv, session, vars, bvars
<1> QED BY <1>1, <1>2, <1>3, <1>4, <1>5, CallStep, AskStep, QueueStep, OpenStep DEF SessionNext

(* Every step of a session is one of its batcher, or none. *)
LEMMA BatcherStep ==
    ASSUME SessionInv, BatcherTypeOK, [SessionNext]_allvars
    PROVE  [BatcherNext]_bvars
<1>1. CASE Queue
  <2>1. Len(items) + 1 \in Id
    <3>1. Len(items) \in Nat /\ Len(items) < MaxQueued
      BY <1>1 DEF Queue, SessionInv, ItemsInv
    <3> QED BY <3>1, MaxQueuedAssumption DEF Id
  <2> QED BY <1>1, <2>1 DEF Queue, BatcherNext
<1>2. CASE NewBatcher \/ CommitOrDrop \/ Tell
  BY <1>2 DEF NewBatcher, CommitOrDrop, Tell, BatcherNext
<1>3. CASE Build \/ NewVirt \/ Call \/ Ask \/ Memory \/ UNCHANGED allvars
  BY <1>3 DEF Build, NewVirt, Call, Ask, Memory, allvars
<1> QED BY <1>1, <1>2, <1>3 DEF SessionNext

LEMMA AllvarsParts == UNCHANGED allvars => UNCHANGED bvars
BY DEF allvars

(* The two inductive invariants together. *)
LEMMA BothStep ==
    SessionInv /\ BIInv /\ [SessionNext]_allvars => SessionInv' /\ BIInv'
<1> SUFFICES ASSUME SessionInv, BIInv, [SessionNext]_allvars PROVE SessionInv' /\ BIInv'
  OBVIOUS
<1>1. SessionInv'
  BY SessionStep
<1>2. [BatcherNext]_bvars
  BY BatcherStep DEF BIInv
<1> QED BY <1>1, <1>2, NextInv

LEMMA BothStart == SessionInit => SessionInv /\ BIInv /\ BatcherInit
BY SessionStart, InitInv DEF SessionInit

----------------------------------------------------------------------------
(* The maps of the address space *)

(* What holds at 0 and is carried from each number to the next one up to   *)
(* N holds up to N.                                                        *)
LEMMA UpTo ==
    ASSUME NEW N \in Nat, NEW S, 0 \in S, \A k \in 1..N : k - 1 \in S => k \in S
    PROVE  \A k \in 0..N : k \in S
<1> DEFINE Out == {k \in 0..N : k \notin S}
<1> SUFFICES ASSUME Out # {} PROVE FALSE
  OBVIOUS
<1>1. PICK k \in Out : \A y \in Out : k <= y
  <2>1. Out \in SUBSET Nat
    OBVIOUS
  <2> HIDE DEF Out
  <2> QED BY <2>1, LeastOf
<1>2. k \in 1..N /\ k - 1 \in 0..N /\ ~(k <= k - 1)
  BY <1>1
<1>3. k - 1 \in S
  BY <1>1, <1>2
<1> QED BY <1>1, <1>2, <1>3

Ranges == [item : Nat, addr : Nat, len : Nat \ {0}, paddr : Nat]

Ends(e) == e.addr + e.len

(* Distinct addresses are sorted into an increasing sequence. *)
LEMMA SortedFacts ==
    ASSUME NEW s \in Seq(Ranges), \A i, j \in 1..Len(s) : s[i].addr = s[j].addr => i = j
    PROVE  /\ Sorted(s) \in Seq(Ranges) /\ Len(Sorted(s)) = Len(s)
           /\ \A n \in 1..Len(s) : \E i \in 1..Len(s) : Sorted(s)[n] = s[i]
           /\ \A i \in 1..Len(s) : \E n \in 1..Len(s) : Sorted(s)[n] = s[i]
           /\ \A m, n \in 1..Len(s) : m < n => Sorted(s)[m].addr < Sorted(s)[n].addr
<1> DEFINE N == Len(s)
           Under(i) == { j \in DOMAIN s : \/ s[j].addr < s[i].addr
                                          \/ s[j].addr = s[i].addr /\ j <= i }
           rank == [i \in 1..N |-> Rank(s, i)]
<1>1. N \in Nat /\ DOMAIN s = 1..N /\ \A i \in 1..N : s[i] \in Ranges /\ s[i].addr \in Nat
  <2>1. N \in Nat /\ DOMAIN s = 1..N /\ \A i \in 1..N : s[i] \in Ranges
    OBVIOUS
  <2> QED BY <2>1 DEF Ranges
<1>2. IsFiniteSet(1..N) /\ Cardinality(1..N) = N
  <2>1. IsFiniteSet(1..N) /\ Cardinality(1..N) = IF 1 > N THEN 0 ELSE N - 1 + 1
    BY <1>1, FS_Interval
  <2> QED BY <1>1, <2>1
<1>3. \A i \in 1..N : /\ IsFiniteSet(Under(i)) /\ rank[i] = Cardinality(Under(i)) /\ rank[i] \in 1..N
  <2> SUFFICES ASSUME NEW i \in 1..N
               PROVE  IsFiniteSet(Under(i)) /\ rank[i] = Cardinality(Under(i)) /\ rank[i] \in 1..N
    OBVIOUS
  <2>1. Under(i) \subseteq 1..N /\ i \in Under(i)
    BY <1>1
  <2>2. rank[i] = Cardinality(Under(i))
    BY DEF Rank
  <2> DEFINE U == Under(i)
  <2> HIDE DEF U
  <2>3. IsFiniteSet(U) /\ Cardinality(U) <= N /\ Cardinality(U) \in Nat
    BY <1>2, <2>1, FS_Subset, FS_CardinalityType DEF U
  <2>4. Cardinality(U) # 0
    BY <2>1, <2>3, FS_EmptySet DEF U
  <2> QED BY <1>1, <2>2, <2>3, <2>4 DEF U
<1>5. rank \in [1..N -> 1..N]
  BY <1>3
<1> HIDE DEF rank
<1>4. \A i, j \in 1..N : s[i].addr < s[j].addr => rank[i] < rank[j]
  <2> SUFFICES ASSUME NEW i \in 1..N, NEW j \in 1..N, s[i].addr < s[j].addr
               PROVE  rank[i] < rank[j]
    OBVIOUS
  <2>1. Under(i) \subseteq Under(j) /\ j \in Under(j) /\ j \notin Under(i)
    BY <1>1
  <2> DEFINE U == Under(i)
             W == Under(j)
  <2>2. U \subseteq W /\ U # W
    BY <2>1
  <2>3. IsFiniteSet(W) /\ rank[i] = Cardinality(U) /\ rank[j] = Cardinality(W)
    BY <1>3
  <2> HIDE DEF U, W
  <2>4. Cardinality(U) <= Cardinality(W) /\ (Cardinality(U) = Cardinality(W) => U = W)
    BY <2>2, <2>3, FS_Subset
  <2>5. rank[i] \in Nat /\ rank[j] \in Nat
    <3>1. rank[i] \in 1..N /\ rank[j] \in 1..N
      BY <1>5
    <3> QED BY <3>1
  <2> QED BY <2>2, <2>3, <2>4, <2>5
<1>6. \A i, j \in 1..N : rank[i] = rank[j] => i = j
  <2> SUFFICES ASSUME NEW i \in 1..N, NEW j \in 1..N, i # j PROVE rank[i] # rank[j]
    OBVIOUS
  <2>1. s[i].addr < s[j].addr \/ s[j].addr < s[i].addr
    BY <1>1
  <2>2. rank[i] \in Nat /\ rank[j] \in Nat
    <3>1. rank[i] \in 1..N /\ rank[j] \in 1..N
      BY <1>5
    <3> QED BY <3>1
  <2>3. rank[i] < rank[j] \/ rank[j] < rank[i]
    BY <1>4, <2>1
  <2> QED BY <2>2, <2>3
<1>7. \A n \in 1..N : \E i \in 1..N : rank[i] = n
  <2>1. rank \in Injection(1..N, 1..N)
    BY <1>5, <1>6 DEF Injection, IsInjective
  <2>2. rank \in Surjection(1..N, 1..N)
    BY <1>2, <2>1, FS_Injection
  <2> QED BY <2>2 DEF Surjection
<1> DEFINE at(n) == CHOOSE i \in DOMAIN s : Rank(s, i) = n
<1>8. \A n \in 1..N : at(n) \in 1..N /\ rank[at(n)] = n
  <2> SUFFICES ASSUME NEW n \in 1..N PROVE at(n) \in 1..N /\ rank[at(n)] = n
    OBVIOUS
  <2>1. \E i \in DOMAIN s : Rank(s, i) = n
    BY <1>1, <1>7 DEF rank
  <2> QED BY <1>1, <2>1 DEF rank
<1>9. Sorted(s) = [n \in 1..N |-> s[at(n)]]
  BY <1>1 DEF Sorted
<1> HIDE DEF at
<1>10. Sorted(s) \in Seq(Ranges) /\ Len(Sorted(s)) = N
  <2>1. Sorted(s) \in [1..N -> Ranges]
    BY <1>1, <1>8, <1>9
  <2> HIDE DEF N
  <2> QED BY <1>1, <2>1
<1>11. \A i \in 1..N : \E n \in 1..N : Sorted(s)[n] = s[i]
  <2> SUFFICES ASSUME NEW i \in 1..N PROVE \E n \in 1..N : Sorted(s)[n] = s[i]
    OBVIOUS
  <2>1. rank[i] \in 1..N /\ at(rank[i]) = i
    BY <1>5, <1>6, <1>8
  <2> QED BY <1>9, <2>1
<1>12. \A m, n \in 1..N : m < n => Sorted(s)[m].addr < Sorted(s)[n].addr
  <2> SUFFICES ASSUME NEW m \in 1..N, NEW n \in 1..N, m < n PROVE s[at(m)].addr < s[at(n)].addr
    BY <1>9
  <2> DEFINE x == at(m)
             y == at(n)
  <2>1. x \in 1..N /\ y \in 1..N /\ rank[x] = m /\ rank[y] = n
    BY <1>8
  <2>2. x # y /\ s[x].addr \in Nat /\ s[y].addr \in Nat
    BY <1>1, <2>1
  <2>3. ~(s[y].addr < s[x].addr)
    BY <1>4, <2>1
  <2>4. s[x].addr # s[y].addr
    BY <2>1, <2>2
  <2> HIDE DEF x, y
  <2>5. s[x].addr < s[y].addr
    BY <2>2, <2>3, <2>4
  <2> QED BY <2>5 DEF x, y
<1>13. \A n \in 1..N : \E i \in 1..N : Sorted(s)[n] = s[i]
  BY <1>8, <1>9
<1> HIDE DEF N
<1> QED BY <1>10, <1>11, <1>12, <1>13 DEF N

(* The last entry of a sequence is replaced. *)
LEMMA LastReplaced ==
    ASSUME NEW s \in Seq(Ranges), s # <<>>, NEW x \in Ranges
    PROVE  LET r == Append(Front(s), x) IN
           /\ r \in Seq(Ranges) /\ Len(r) = Len(s) /\ r[Len(s)] = x
           /\ \A i \in 1..(Len(s) - 1) : r[i] = s[i]
<1>1. Len(s) \in Nat /\ Len(s) # 0
  OBVIOUS
<1> DEFINE f == Front(s)
<1>2. f \in Seq(Ranges) /\ Len(f) = Len(s) - 1 /\ \A i \in 1..(Len(s) - 1) : f[i] = s[i]
  <2>1. f = SubSeq(s, 1, Len(s) - 1)
    BY DEF Front
  <2> DEFINE n == Len(s) - 1
  <2>2. n \in Nat /\ n < Len(s) /\ f = SubSeq(s, 1, n)
    BY <1>1, <2>1
  <2> HIDE DEF n, f
  <2>3. Len(f) = n /\ \A i \in 1..n : f[i] = s[i] /\ i \in 1..Len(s)
    BY <2>2
  <2>4. f \in Seq(Ranges)
    BY <2>2
  <2> QED BY <2>3, <2>4 DEF n
<1> HIDE DEF f
<1> QED BY <1>1, <1>2 DEF f

LEMMA EntryAdded ==
    ASSUME NEW s \in Seq(Ranges), NEW x \in Ranges
    PROVE  LET r == Append(s, x) IN
           /\ r \in Seq(Ranges) /\ Len(r) = Len(s) + 1 /\ r[Len(s) + 1] = x
           /\ \A i \in 1..Len(s) : r[i] = s[i]
OBVIOUS

(* One step of coalesce: b is joined with the last entry, or put behind.   *)
Coalesced(acc, b, op, gap_length) ==
    IF acc # <<>> /\ (IF op = "translation_map" THEN adjacent(Last(acc), b)
                                                ELSE near(Last(acc), b, gap_length))
    THEN Append(Front(acc), Joined(Last(acc), b))
    ELSE Append(acc, b)

LEMMA JoinedRange ==
    ASSUME NEW a \in Ranges, NEW b \in Ranges, Ends(a) <= b.addr
    PROVE  /\ Joined(a, b) \in Ranges /\ Joined(a, b).addr = a.addr /\ Joined(a, b).paddr = a.paddr
           /\ Ends(Joined(a, b)) = Ends(b)
<1>1. /\ a.item \in Nat /\ a.addr \in Nat /\ a.len \in Nat \ {0} /\ a.paddr \in Nat
      /\ b.addr \in Nat /\ b.len \in Nat \ {0}
      /\ a = [item |-> a.item, addr |-> a.addr, len |-> a.len, paddr |-> a.paddr]
  BY DEF Ranges
<1> DEFINE l == b.addr + b.len - a.addr
<1>2. l \in Nat \ {0}
  BY <1>1 DEF Ends
<1>3. Joined(a, b) = [item |-> a.item, addr |-> a.addr, len |-> l, paddr |-> a.paddr]
  BY <1>1 DEF Joined
<1>4. a.addr + l = b.addr + b.len
  BY <1>1
<1> HIDE DEF l
<1> QED BY <1>1, <1>2, <1>3, <1>4 DEF Ranges, Ends

(* Entries one behind the other, with or without a gap. *)
Chain(s) == \A n \in 1..(Len(s) - 1) : Ends(s[n]) <= s[n + 1].addr

(* u[n] is what coalesce has made of the first n entries. *)
CoalescedBy(u, s, op, gap_length) ==
    /\ u \in [0..Len(s) -> Seq(Ranges)]
    /\ coalesce(s, op, gap_length) = u[Len(s)] /\ u[0] = <<>>
    /\ \A n \in 1..Len(s) : /\ u[n] = Coalesced(u[n - 1], s[n], op, gap_length)
                            /\ u[n] # <<>> /\ Ends(Last(u[n])) = Ends(s[n])

(* coalesce takes the entries one after the other. *)
LEMMA CoalesceSteps ==
    ASSUME NEW s \in Seq(Ranges), NEW op, NEW gap_length, Chain(s)
    PROVE  \E u : CoalescedBy(u, s, op, gap_length)
<1> DEFINE N == Len(s)
           G(g, k) == g[k] = IF k = 0 THEN <<>> ELSE Coalesced(g[k - 1], s[k], op, gap_length)
           Good(n, g) == \A k \in 0..n : G(g, k)
           Able == {n \in 0..N : \E g \in [0..n -> Seq(Ranges)] : Good(n, g)}
<1>1. N \in Nat /\ \A n \in 1..N : s[n] \in Ranges
  OBVIOUS
<1> DEFINE Follows(n, acc) == /\ acc \in Seq(Ranges)
                              /\ n # 0 => acc # <<>> /\ Ends(Last(acc)) = Ends(s[n])
                              /\ n = 0 => acc = <<>>
<1>2. ASSUME NEW n \in 1..N, NEW acc, Follows(n - 1, acc)
      PROVE  Follows(n, Coalesced(acc, s[n], op, gap_length))
  <2> DEFINE b == s[n]
  <2>1. b \in Ranges /\ n # 0
    BY <1>1
  <2>2. CASE Coalesced(acc, b, op, gap_length) = Append(acc, b)
    <3> DEFINE r == Append(acc, b)
    <3>1. acc \in Seq(Ranges)
      BY <1>2
    <3>2. r \in Seq(Ranges) /\ Len(r) = Len(acc) + 1 /\ r[Len(acc) + 1] = b
      BY <2>1, <3>1, EntryAdded
    <3>3. r # <<>> /\ Last(r) = b
      <4> HIDE DEF r
      <4> QED BY <3>1, <3>2 DEF Last
    <3> QED BY <2>1, <2>2, <3>2, <3>3
  <2>3. CASE acc # <<>> /\ Coalesced(acc, b, op, gap_length) = Append(Front(acc), Joined(Last(acc), b))
    <3> DEFINE x == Joined(Last(acc), b)
               r == Append(Front(acc), x)
    <3>1. acc \in Seq(Ranges) /\ n - 1 # 0 /\ Ends(Last(acc)) = Ends(s[n - 1])
      BY <1>2, <2>3
    <3>2. n - 1 \in 1..(N - 1) /\ n - 1 + 1 = n
      BY <3>1
    <3>3. Ends(s[n - 1]) <= b.addr
      BY <3>2 DEF Chain
    <3>4. Last(acc) \in Ranges
      BY <2>3, <3>1 DEF Last
    <3>5. x \in Ranges /\ Ends(x) = Ends(b)
      BY <2>1, <3>1, <3>3, <3>4, JoinedRange
    <3> HIDE DEF x
    <3>6. r \in Seq(Ranges) /\ Len(r) = Len(acc) /\ r[Len(acc)] = x /\ Len(acc) # 0
      BY <2>3, <3>1, <3>5, LastReplaced
    <3>7. r # <<>> /\ Last(r) = x
      <4> HIDE DEF r
      <4> QED BY <3>1, <3>6 DEF Last
    <3> QED BY <2>1, <2>3, <3>5, <3>6, <3>7 DEF x
  <2> HIDE DEF Follows
  <2> QED BY <2>2, <2>3 DEF Coalesced
<1> HIDE DEF Follows
<1>3. ASSUME NEW n \in 0..N, NEW g, Good(n, g)
      PROVE  \A k \in 0..n : Follows(k, g[k])
  <2> DEFINE S == {k \in 0..n : Follows(k, g[k])}
  <2>0. n \in Nat /\ 0 \in 0..n
    BY <1>1
  <2>1. 0 \in S
    <3>1. g[0] = <<>>
      BY <1>3, <2>0
    <3>2. <<>> \in Seq(Ranges)
      OBVIOUS
    <3> QED BY <2>0, <3>1, <3>2 DEF Follows
  <2>2. \A k \in 1..n : k - 1 \in S => k \in S
    <3> SUFFICES ASSUME NEW k \in 1..n, k - 1 \in S PROVE k \in S
      OBVIOUS
    <3>1. k \in 1..N /\ k \in 0..n /\ k # 0
      BY <1>1
    <3>2. g[k] = Coalesced(g[k - 1], s[k], op, gap_length)
      BY <1>3, <3>1
    <3> QED BY <1>2, <3>1, <3>2
  <2> HIDE DEF S
  <2>3. \A k \in 0..n : k \in S
    BY <2>0, <2>1, <2>2, UpTo
  <2> QED BY <2>3 DEF S
<1>4. \A n \in 0..N : n \in Able
  <2>1. 0 \in Able
    <3> DEFINE g == [k \in 0..0 |-> <<>>]
    <3>1. g \in [0..0 -> Seq(Ranges)] /\ Good(0, g)
      OBVIOUS
    <3>2. 0 \in 0..N
      BY <1>1
    <3> HIDE DEF g, Good
    <3> QED BY <3>1, <3>2
  <2>2. ASSUME NEW n \in 1..N, n - 1 \in Able PROVE n \in Able
    <3>1. PICK g \in [0..(n - 1) -> Seq(Ranges)] : Good(n - 1, g)
      BY <2>2
    <3> DEFINE x == Coalesced(g[n - 1], s[n], op, gap_length)
               h == [k \in 0..n |-> IF k = n THEN x ELSE g[k]]
    <3>2. n - 1 \in 0..N /\ n - 1 \in 0..(n - 1)
      BY <1>1
    <3>3. Follows(n - 1, g[n - 1])
      BY <1>3, <3>1, <3>2
    <3>4. x \in Seq(Ranges)
      BY <1>2, <3>3 DEF Follows
    <3> HIDE DEF x
    <3>5. h \in [0..n -> Seq(Ranges)]
      BY <3>1, <3>4
    <3>6. \A k \in 0..n : G(h, k)
      <4> SUFFICES ASSUME NEW k \in 0..n PROVE G(h, k)
        OBVIOUS
      <4>1. CASE k = n
        <5>1. h[k] = x /\ h[k - 1] = g[n - 1] /\ k # 0
          BY <4>1
        <5> QED BY <4>1, <5>1 DEF x
      <4>2. CASE k \in 1..(n - 1)
        <5>1. h[k] = g[k] /\ h[k - 1] = g[k - 1] /\ k \in 0..(n - 1)
          BY <4>2
        <5>2. G(g, k)
          BY <3>1, <5>1
        <5> HIDE DEF h
        <5> QED BY <5>1, <5>2
      <4>3. CASE k = 0
        <5>1. h[k] = g[k] /\ k \in 0..(n - 1)
          BY <4>3
        <5>2. G(g, k)
          BY <3>1, <5>1
        <5> QED BY <4>3, <5>1, <5>2
      <4> QED BY <4>1, <4>2, <4>3
    <3> HIDE DEF h, G
    <3>7. n \in 0..N
      OBVIOUS
    <3> QED BY <3>5, <3>6, <3>7
  <2> HIDE DEF Able
  <2> QED BY <1>1, <2>1, <2>2, UpTo
<1>5. PICK u \in [0..N -> Seq(Ranges)] : Good(N, u)
  <2>1. N \in Able
    <3>1. N \in 0..N
      BY <1>1
    <3> HIDE DEF Able
    <3> QED BY <1>4, <3>1
  <2> HIDE DEF Good
  <2> QED BY <2>1
<1> DEFINE Body(at, n) == IF n = 0 THEN <<>> ELSE Coalesced(at[n - 1], s[n], op, gap_length)
           at == CHOOSE at : at = [n \in 0..N |-> Body(at, n)]
<1>6. coalesce(s, op, gap_length) = at[N]
  BY DEF coalesce, Coalesced
<1>7. u = [n \in 0..N |-> Body(u, n)]
  BY <1>5
<1>8. at = [n \in 0..N |-> Body(at, n)]
  BY <1>7
<1> HIDE DEF at
<1>9. at \in [0..N -> Seq(Ranges)] /\ Good(N, at)
  <2>1. Good(N, at)
    BY <1>8
  <2>2. \A k \in 0..N : Follows(k, at[k])
    <3>1. N \in 0..N
      BY <1>1
    <3> HIDE DEF Good
    <3> QED BY <1>3, <2>1, <3>1
  <2>3. \A k \in 0..N : at[k] \in Seq(Ranges)
    BY <2>2 DEF Follows
  <2>4. at = [n \in 0..N |-> at[n]]
    BY <1>8
  <2> QED BY <2>1, <2>3, <2>4
<1>10. \A k \in 0..N : Follows(k, at[k])
  <2>1. N \in 0..N
    BY <1>1
  <2> HIDE DEF Good
  <2> QED BY <1>3, <1>9, <2>1
<1>11. \A n \in 1..N : n \in 0..N /\ n # 0
  OBVIOUS
<1>12. at[0] = <<>>
  BY <1>1, <1>9
<1>13. \A n \in 1..N : at[n] = Coalesced(at[n - 1], s[n], op, gap_length)
  BY <1>9, <1>11
<1> HIDE DEF G
<1> QED BY <1>6, <1>9, <1>10, <1>11, <1>12, <1>13 DEF Follows, CoalescedBy

----------------------------------------------------------------------------
(* The byte a of an entry is the physical byte x. *)
Maps(e, a, x) == a \in Bytes(e) /\ x = e.paddr + (a - e.addr)

LEMMA RangeFields ==
    ASSUME NEW e \in Ranges
    PROVE  /\ e.addr \in Nat /\ e.len \in Nat \ {0} /\ e.paddr \in Nat /\ Ends(e) \in Nat
           /\ Ends(e) = e.addr + e.len
           /\ \A a : a \in Bytes(e) <=> a \in Int /\ e.addr <= a /\ a < Ends(e)
<1>1. e.addr \in Nat /\ e.len \in Nat \ {0} /\ e.paddr \in Nat
  BY DEF Ranges
<1> QED BY <1>1 DEF Bytes, Ends

(* r holds what acc and b do, and no entry could be joined with the next.  *)
Unjoined(s) == \A i \in 1..(Len(s) - 1) : ~adjacent(s[i], s[i + 1])

MapsBoth(r, acc, b) ==
    \A a, x : (\E i \in 1..Len(r) : Maps(r[i], a, x)) <=>
                 (\E i \in 1..Len(acc) : Maps(acc[i], a, x)) \/ Maps(b, a, x)

Apart(s, gap_length) == \A i \in 1..(Len(s) - 1) : Ends(s[i]) + gap_length < s[i + 1].addr

CoversBoth(r, acc, b, gap_length) ==
    \A a : (\E i \in 1..Len(r) : a \in Bytes(r[i])) <=>
              \/ \E i \in 1..Len(acc) : a \in Bytes(acc[i])
              \/ a \in Bytes(b)
              \/ /\ acc # <<>> /\ b.addr - Ends(Last(acc)) <= gap_length
                 /\ a \in Ends(Last(acc))..(b.addr - 1)

LEMMA Shifted ==
    ASSUME NEW p \in Nat, NEW q \in Nat, NEW l \in Nat, NEW a \in Int
    PROVE  p + (a - q) = (p + l) + (a - (q + l))
OBVIOUS

(* What a step of coalesce does to the translation: nothing. *)
LEMMA TranslationJoined ==
    ASSUME NEW acc \in Seq(Ranges), NEW b \in Ranges, acc # <<>> => Ends(Last(acc)) <= b.addr,
           Unjoined(acc), NEW gap_length
    PROVE  /\ MapsBoth(Coalesced(acc, b, "translation_map", gap_length), acc, b)
           /\ Unjoined(Coalesced(acc, b, "translation_map", gap_length))
<1> DEFINE r == Coalesced(acc, b, "translation_map", gap_length)
           N == Len(acc)
           last == Last(acc)
<1>0. N \in Nat /\ (acc # <<>> <=> N # 0)
  OBVIOUS
<1>1. CASE acc # <<>> /\ adjacent(last, b)
  <2> DEFINE x == Joined(last, b)
  <2>1. last \in Ranges /\ last = acc[N] /\ N \in Nat \ {0}
    BY <1>1 DEF Last
  <2>2. x \in Ranges /\ x.addr = last.addr /\ x.paddr = last.paddr /\ Ends(x) = Ends(b)
    BY <1>1, <2>1, JoinedRange
  <2>3. b.addr = Ends(last) /\ b.paddr = last.paddr + last.len
    BY <1>1 DEF adjacent, Ends
  <2>4. r = Append(Front(acc), x)
    BY <1>1 DEF Coalesced
  <2> HIDE DEF x, r, last, N
  <2>5. /\ r \in Seq(Ranges) /\ Len(r) = N /\ r[N] = x
        /\ \A i \in 1..(N - 1) : r[i] = acc[i]
    BY <1>1, <2>2, <2>4, LastReplaced DEF N
  <2>6. \A a, y : Maps(x, a, y) <=> Maps(last, a, y) \/ Maps(b, a, y)
    <3>1. /\ \A a : a \in Bytes(x) <=> a \in Int /\ x.addr <= a /\ a < Ends(x)
          /\ \A a : a \in Bytes(last) <=> a \in Int /\ last.addr <= a /\ a < Ends(last)
          /\ \A a : a \in Bytes(b) <=> a \in Int /\ b.addr <= a /\ a < Ends(b)
          /\ last.addr \in Nat /\ last.len \in Nat \ {0} /\ last.paddr \in Nat
          /\ b.addr \in Nat /\ b.len \in Nat \ {0} /\ b.paddr \in Nat
          /\ Ends(last) = last.addr + last.len /\ Ends(b) = b.addr + b.len
      BY <2>1, <2>2, RangeFields
    <3> SUFFICES ASSUME NEW a, NEW y PROVE Maps(x, a, y) <=> Maps(last, a, y) \/ Maps(b, a, y)
      OBVIOUS
    <3>2. a \in Bytes(x) <=> a \in Bytes(last) \/ a \in Bytes(b)
      BY <2>2, <2>3, <3>1
    <3>3. ASSUME a \in Int PROVE last.paddr + (a - last.addr) = b.paddr + (a - b.addr)
      <4>1. last.paddr + (a - last.addr) = (last.paddr + last.len) + (a - (last.addr + last.len))
        BY <3>1, <3>3, Shifted
      <4> QED BY <2>3, <3>1, <4>1
    <3> QED BY <2>2, <3>1, <3>2, <3>3 DEF Maps
  <2>7. \A i \in 1..N : i \in 1..(N - 1) \/ i = N
    BY <2>1
  <2>8. \A i \in 1..(N - 1) : i \in 1..N
    BY <2>1
  <2>9. N \in 1..N
    BY <2>1
  <2>10. \A a, y : (\E i \in 1..N : Maps(r[i], a, y)) <=>
                       (\E i \in 1..(N - 1) : Maps(acc[i], a, y)) \/ Maps(x, a, y)
    BY <2>5, <2>7, <2>8, <2>9
  <2>11. \A a, y : (\E i \in 1..N : Maps(acc[i], a, y)) <=>
                       (\E i \in 1..(N - 1) : Maps(acc[i], a, y)) \/ Maps(last, a, y)
    BY <2>1, <2>7, <2>8, <2>9
  <2>12. \A i \in 1..(N - 1) : ~adjacent(r[i], r[i + 1])
    <3> SUFFICES ASSUME NEW i \in 1..(N - 1) PROVE ~adjacent(r[i], r[i + 1])
      OBVIOUS
    <3>1. ~adjacent(acc[i], acc[i + 1]) /\ r[i] = acc[i]
      BY <2>5 DEF N, Unjoined
    <3>2. r[i + 1] = acc[i + 1] \/ (i + 1 = N /\ r[i + 1] = x)
      <4>1. i + 1 = N \/ i + 1 \in 1..(N - 1)
        BY <2>1
      <4> QED BY <2>5, <4>1
    <3> QED BY <2>1, <2>2, <3>1, <3>2 DEF adjacent
  <2> QED BY <2>5, <2>6, <2>10, <2>11, <2>12 DEF r, N, MapsBoth, Unjoined
<1>2. CASE ~(acc # <<>> /\ adjacent(last, b))
  <2>1. r = Append(acc, b)
    BY <1>2 DEF Coalesced
  <2> HIDE DEF r
  <2>2. /\ r \in Seq(Ranges) /\ Len(r) = N + 1 /\ r[N + 1] = b
        /\ \A i \in 1..N : r[i] = acc[i]
    BY <2>1, EntryAdded
  <2> HIDE DEF N
  <2>3. \A i \in 1..(N + 1) : i \in 1..N \/ i = N + 1
    BY <1>0
  <2>4. N + 1 \in 1..(N + 1) /\ \A i \in 1..N : i \in 1..(N + 1)
    BY <1>0
  <2>5. \A a, y : (\E i \in 1..(N + 1) : Maps(r[i], a, y)) <=>
                       (\E i \in 1..N : Maps(acc[i], a, y)) \/ Maps(b, a, y)
    BY <2>2, <2>3, <2>4
  <2>6. \A i \in 1..N : ~adjacent(r[i], r[i + 1])
    <3> SUFFICES ASSUME NEW i \in 1..N PROVE ~adjacent(r[i], r[i + 1])
      OBVIOUS
    <3>1. CASE i = N
      <4>1. acc # <<>> /\ last = acc[N]
        BY <1>0 DEF Last, N
      <4> QED BY <1>2, <2>2, <3>1, <4>1
    <3>2. CASE i \in 1..(N - 1)
      <4>1. i + 1 \in 1..N /\ ~adjacent(acc[i], acc[i + 1])
        BY <1>0, <3>2 DEF N, Unjoined
      <4> QED BY <2>2, <4>1
    <3> QED BY <1>0, <3>1, <3>2
  <2>7. Len(r) - 1 = N
    BY <1>0, <2>2
  <2> QED BY <2>2, <2>5, <2>6, <2>7 DEF r, N, MapsBoth, Unjoined
<1> QED BY <1>1, <1>2

(* A translation map maps what the entries do, and no two of its entries   *)
(* could be one.                                                           *)
LEMMA TranslationMapFacts ==
    ASSUME NEW s \in Seq(Ranges), Chain(s),
           NEW gap_length
    PROVE  LET e == coalesce(s, "translation_map", gap_length) IN
           /\ e \in Seq(Ranges)
           /\ \A a, x : (\E i \in 1..Len(e) : Maps(e[i], a, x)) <=>
                           \E i \in 1..Len(s) : Maps(s[i], a, x)
           /\ Unjoined(e)
<1> DEFINE N == Len(s)
           op == "translation_map"
<1>0. PICK u : CoalescedBy(u, s, op, gap_length)
  <2> HIDE DEF op
  <2> QED BY CoalesceSteps
<1>1. /\ u \in [0..N -> Seq(Ranges)]
      /\ coalesce(s, op, gap_length) = u[N] /\ u[0] = <<>>
      /\ \A n \in 1..N : /\ u[n] = Coalesced(u[n - 1], s[n], op, gap_length)
                         /\ u[n] # <<>> /\ Ends(Last(u[n])) = Ends(s[n])
  BY <1>0 DEF CoalescedBy
<1>2. N \in Nat /\ \A n \in 1..N : s[n] \in Ranges
  OBVIOUS
<1> DEFINE Good(n) ==
              /\ \A a, x : (\E i \in 1..Len(u[n]) : Maps(u[n][i], a, x)) <=>
                              \E i \in 1..n : Maps(s[i], a, x)
              /\ Unjoined(u[n])
           S == {n \in 0..N : Good(n)}
<1>3. 0 \in S
  BY <1>1, <1>2 DEF Unjoined
<1>4. ASSUME NEW n \in 1..N, n - 1 \in S PROVE n \in S
  <2> DEFINE acc == u[n - 1]
             b == s[n]
  <2>1. acc \in Seq(Ranges) /\ b \in Ranges /\ n - 1 \in 0..N /\ n \in 0..N
    <3>1. n - 1 \in 0..N /\ n \in 0..N
      BY <1>2
    <3> QED BY <1>1, <1>2, <3>1
  <2>2. acc # <<>> => Ends(Last(acc)) <= b.addr
    <3> SUFFICES ASSUME acc # <<>> PROVE Ends(Last(acc)) <= b.addr
      OBVIOUS
    <3>1. n - 1 # 0
      BY <1>1
    <3>2. n - 1 \in 1..(N - 1) /\ n - 1 \in 1..N /\ n - 1 + 1 = n
      BY <1>2, <3>1
    <3> QED BY <1>1, <3>2 DEF Chain
  <2>3. u[n] = Coalesced(acc, b, "translation_map", gap_length)
    BY <1>1
  <2>4. /\ \A a, x : (\E i \in 1..Len(acc) : Maps(acc[i], a, x)) <=>
                              \E i \in 1..(n - 1) : Maps(s[i], a, x)
        /\ Unjoined(acc)
    BY <1>4
  <2> HIDE DEF acc, S
  <2>5. MapsBoth(u[n], acc, b) /\ Unjoined(u[n])
    <3> HIDE DEF b
    <3> QED BY <2>1, <2>2, <2>3, <2>4, TranslationJoined
  <2>6. /\ \A i \in 1..n : i \in 1..(n - 1) \/ i = n
        /\ \A i \in 1..(n - 1) : i \in 1..n
        /\ n \in 1..n
    OBVIOUS
  <2>7. \A a, x : (\E i \in 1..n : Maps(s[i], a, x)) <=>
                     (\E i \in 1..(n - 1) : Maps(s[i], a, x)) \/ Maps(b, a, x)
    BY <2>6
  <2> QED BY <2>1, <2>4, <2>5, <2>7 DEF S, MapsBoth
<1> HIDE DEF S
<1>5. N \in S
  <2>1. N \in 0..N
    BY <1>2
  <2> QED BY <1>2, <1>3, <1>4, <2>1, UpTo
<1>6. Good(N) /\ u[N] \in Seq(Ranges)
  BY <1>1, <1>2, <1>5 DEF S
<1> QED BY <1>1, <1>6

(* What a step of coalesce does to the pages: it fills a gap that is near. *)
LEMMA PagesJoined ==
    ASSUME NEW acc \in Seq(Ranges), NEW b \in Ranges, acc # <<>> => Ends(Last(acc)) <= b.addr,
           NEW gap_length \in Nat,
           Apart(acc, gap_length)
    PROVE  /\ CoversBoth(Coalesced(acc, b, "page_map", gap_length), acc, b, gap_length)
           /\ Apart(Coalesced(acc, b, "page_map", gap_length), gap_length)
<1> DEFINE r == Coalesced(acc, b, "page_map", gap_length)
           N == Len(acc)
           last == Last(acc)
           Near == b.addr - Ends(last) <= gap_length
<1>0. N \in Nat /\ (acc # <<>> <=> N # 0)
  OBVIOUS
<1>1. near(last, b, gap_length) <=> Near
  BY DEF near, Ends
<1>2. CASE acc # <<>> /\ Near
  <2> DEFINE x == Joined(last, b)
  <2>1. last \in Ranges /\ last = acc[N] /\ N \in Nat \ {0}
    BY <1>2 DEF Last
  <2>2. x \in Ranges /\ x.addr = last.addr /\ Ends(x) = Ends(b)
    BY <1>2, <2>1, JoinedRange
  <2>3. Near /\ Ends(last) <= b.addr
    BY <1>2
  <2>4. r = Append(Front(acc), x)
    BY <1>1, <1>2 DEF Coalesced
  <2> HIDE DEF x, r, last, N
  <2>5. /\ r \in Seq(Ranges) /\ Len(r) = N /\ r[N] = x
        /\ \A i \in 1..(N - 1) : r[i] = acc[i]
    BY <1>2, <2>2, <2>4, LastReplaced DEF N
  <2>6. \A a : a \in Bytes(x) <=> a \in Bytes(last) \/ a \in Bytes(b) \/ a \in Ends(last)..(b.addr - 1)
    <3>1. /\ \A a : a \in Bytes(x) <=> a \in Int /\ x.addr <= a /\ a < Ends(x)
          /\ \A a : a \in Bytes(last) <=> a \in Int /\ last.addr <= a /\ a < Ends(last)
          /\ \A a : a \in Bytes(b) <=> a \in Int /\ b.addr <= a /\ a < Ends(b)
          /\ last.addr \in Nat /\ last.len \in Nat \ {0}
          /\ b.addr \in Nat /\ b.len \in Nat \ {0} /\ Ends(last) \in Nat
          /\ Ends(last) = last.addr + last.len /\ Ends(b) = b.addr + b.len
      BY <2>1, <2>2, RangeFields
    <3>2. x.addr = last.addr /\ Ends(x) = Ends(b) /\ Ends(last) <= b.addr
      BY <2>2, <2>3
    <3> HIDE DEF Near
    <3> SUFFICES ASSUME NEW a
                 PROVE  a \in Bytes(x) <=> a \in Bytes(last) \/ a \in Bytes(b) \/ a \in Ends(last)..(b.addr - 1)
      OBVIOUS
    <3> DEFINE p == Ends(last)
               q == b.addr
    <3>3. p \in Nat /\ q \in Nat /\ p <= q /\ last.addr <= p
      BY <3>1, <3>2
    <3>4. a \in Bytes(x) <=> a \in Int /\ last.addr <= a /\ a < Ends(b)
      BY <3>1, <3>2
    <3>5. a \in Bytes(last) <=> a \in Int /\ last.addr <= a /\ a < p
      BY <3>1
    <3>6. a \in Bytes(b) <=> a \in Int /\ q <= a /\ a < Ends(b)
      BY <3>1
    <3>7. last.addr \in Nat /\ Ends(b) \in Nat /\ q < Ends(b)
      BY <3>1
    <3> HIDE DEF p, q
    <3>8. a \in p..(q - 1) <=> a \in Int /\ p <= a /\ a < q
      BY <3>3
    <3>9. a \in Bytes(x) <=> a \in Bytes(last) \/ a \in Bytes(b) \/ a \in p..(q - 1)
      BY <3>3, <3>4, <3>5, <3>6, <3>7, <3>8
    <3> QED BY <3>9 DEF p, q
  <2>7. \A i \in 1..N : i \in 1..(N - 1) \/ i = N
    BY <2>1
  <2>8. N \in 1..N /\ \A i \in 1..(N - 1) : i \in 1..N
    BY <2>1
  <2>9. \A a : (\E i \in 1..N : a \in Bytes(r[i])) <=>
                       (\E i \in 1..(N - 1) : a \in Bytes(acc[i])) \/ a \in Bytes(x)
    BY <2>5, <2>7, <2>8
  <2>10. \A a : (\E i \in 1..N : a \in Bytes(acc[i])) <=>
                       (\E i \in 1..(N - 1) : a \in Bytes(acc[i])) \/ a \in Bytes(last)
    BY <2>1, <2>7, <2>8
  <2>11. \A i \in 1..(N - 1) : Ends(r[i]) + gap_length < r[i + 1].addr
    <3> SUFFICES ASSUME NEW i \in 1..(N - 1) PROVE Ends(r[i]) + gap_length < r[i + 1].addr
      OBVIOUS
    <3>1. Ends(acc[i]) + gap_length < acc[i + 1].addr /\ r[i] = acc[i]
      BY <2>5 DEF N, Apart
    <3>2. r[i + 1] = acc[i + 1] \/ (i + 1 = N /\ r[i + 1] = x)
      <4>1. i + 1 = N \/ i + 1 \in 1..(N - 1)
        BY <2>1
      <4> QED BY <2>5, <4>1
    <3> QED BY <2>1, <2>2, <3>1, <3>2
  <2>12. CoversBoth(r, acc, b, gap_length)
    BY <1>2, <2>5, <2>6, <2>9, <2>10 DEF N, last, CoversBoth
  <2> QED BY <2>5, <2>11, <2>12 DEF r, Apart
<1>3. CASE ~(acc # <<>> /\ Near)
  <2>1. r = Append(acc, b)
    BY <1>1, <1>3 DEF Coalesced
  <2> HIDE DEF r
  <2>2. /\ r \in Seq(Ranges) /\ Len(r) = N + 1 /\ r[N + 1] = b
        /\ \A i \in 1..N : r[i] = acc[i]
    BY <2>1, EntryAdded
  <2> HIDE DEF N
  <2>3. \A i \in 1..(N + 1) : i \in 1..N \/ i = N + 1
    BY <1>0
  <2>4. N + 1 \in 1..(N + 1) /\ \A i \in 1..N : i \in 1..(N + 1)
    BY <1>0
  <2>5. \A a : (\E i \in 1..(N + 1) : a \in Bytes(r[i])) <=>
                       (\E i \in 1..N : a \in Bytes(acc[i])) \/ a \in Bytes(b)
    BY <2>2, <2>3, <2>4
  <2>6. \A i \in 1..N : Ends(r[i]) + gap_length < r[i + 1].addr
    <3> SUFFICES ASSUME NEW i \in 1..N PROVE Ends(r[i]) + gap_length < r[i + 1].addr
      OBVIOUS
    <3>1. CASE i = N
      <4>1. acc # <<>> /\ last = acc[N] /\ N \in 1..N
        BY <1>0, <3>1 DEF Last, N
      <4>2. last \in Ranges
        BY <4>1 DEF N
      <4> HIDE DEF last
      <4>3. ~Near /\ Ends(last) \in Nat /\ b.addr \in Nat
        BY <1>3, <4>1, <4>2, RangeFields
      <4>4. Ends(last) + gap_length < b.addr
        BY <4>3
      <4> QED BY <2>2, <3>1, <4>1, <4>4
    <3>2. CASE i \in 1..(N - 1)
      <4>1. i + 1 \in 1..N /\ Ends(acc[i]) + gap_length < acc[i + 1].addr
        BY <1>0, <3>2 DEF N, Apart
      <4> QED BY <2>2, <4>1
    <3> QED BY <1>0, <3>1, <3>2
  <2>7. Len(r) - 1 = N
    BY <1>0, <2>2
  <2>8. CoversBoth(r, acc, b, gap_length)
    BY <1>3, <2>2, <2>5 DEF N, last, CoversBoth
  <2> QED BY <2>2, <2>6, <2>7, <2>8 DEF r, Apart
<1> QED BY <1>2, <1>3

(* A page map covers the entries and the gaps between neighbours that are  *)
(* near, and its entries are further apart.                                *)
LEMMA PageMapFacts ==
    ASSUME NEW s \in Seq(Ranges), Chain(s),
           NEW gap_length \in Nat
    PROVE  LET e == coalesce(s, "page_map", gap_length) IN
           /\ e \in Seq(Ranges)
           /\ \A a : (\E i \in 1..Len(e) : a \in Bytes(e[i])) <=>
                        \/ \E i \in 1..Len(s) : a \in Bytes(s[i])
                        \/ \E i \in 1..(Len(s) - 1) :
                              /\ s[i + 1].addr - Ends(s[i]) <= gap_length
                              /\ a \in Ends(s[i])..(s[i + 1].addr - 1)
           /\ Apart(e, gap_length)
<1> DEFINE N == Len(s)
           op == "page_map"
           Between(i, a) == /\ s[i + 1].addr - Ends(s[i]) <= gap_length
                            /\ a \in Ends(s[i])..(s[i + 1].addr - 1)
<1>0. PICK u : CoalescedBy(u, s, op, gap_length)
  <2> HIDE DEF op
  <2> QED BY CoalesceSteps
<1>1. /\ u \in [0..N -> Seq(Ranges)]
      /\ coalesce(s, op, gap_length) = u[N] /\ u[0] = <<>>
      /\ \A n \in 1..N : /\ u[n] = Coalesced(u[n - 1], s[n], op, gap_length)
                         /\ u[n] # <<>> /\ Ends(Last(u[n])) = Ends(s[n])
  BY <1>0 DEF CoalescedBy
<1>2. N \in Nat /\ \A n \in 1..N : s[n] \in Ranges
  OBVIOUS
<1> DEFINE Good(n) ==
              /\ \A a : (\E i \in 1..Len(u[n]) : a \in Bytes(u[n][i])) <=>
                           (\E i \in 1..n : a \in Bytes(s[i])) \/ \E i \in 1..(n - 1) : Between(i, a)
              /\ Apart(u[n], gap_length)
           S == {n \in 0..N : Good(n)}
<1>3. 0 \in S
  <2> HIDE DEF Between
  <2> QED BY <1>1, <1>2 DEF Apart
<1>4. ASSUME NEW n \in 1..N, n - 1 \in S PROVE n \in S
  <2> DEFINE acc == u[n - 1]
             b == s[n]
  <2>1. acc \in Seq(Ranges) /\ b \in Ranges /\ n - 1 \in 0..N /\ n \in 0..N
    <3>1. n - 1 \in 0..N /\ n \in 0..N
      BY <1>2
    <3> QED BY <1>1, <1>2, <3>1
  <2>2. acc # <<>> => /\ n - 1 \in 1..(N - 1) /\ n - 1 \in 1..N /\ n - 1 + 1 = n
                      /\ Ends(Last(acc)) = Ends(s[n - 1]) /\ Ends(s[n - 1]) <= b.addr
    <3> SUFFICES ASSUME acc # <<>>
                 PROVE  /\ n - 1 \in 1..(N - 1) /\ n - 1 \in 1..N /\ n - 1 + 1 = n
                        /\ Ends(Last(acc)) = Ends(s[n - 1]) /\ Ends(s[n - 1]) <= b.addr
      OBVIOUS
    <3>1. n - 1 # 0
      BY <1>1
    <3>2. n - 1 \in 1..(N - 1) /\ n - 1 \in 1..N /\ n - 1 + 1 = n
      BY <1>2, <3>1
    <3> QED BY <1>1, <3>2 DEF Chain
  <2>3. acc = <<>> => n - 1 = 0
    <3> SUFFICES ASSUME n - 1 # 0 PROVE acc # <<>>
      OBVIOUS
    <3>1. n - 1 \in 1..N
      BY <1>2
    <3> QED BY <1>1, <3>1
  <2>4. u[n] = Coalesced(acc, b, "page_map", gap_length)
    BY <1>1
  <2>5. /\ \A a : (\E i \in 1..Len(acc) : a \in Bytes(acc[i])) <=>
                     (\E i \in 1..(n - 1) : a \in Bytes(s[i])) \/ \E i \in 1..(n - 1 - 1) : Between(i, a)
        /\ Apart(acc, gap_length)
    BY <1>4
  <2> HIDE DEF acc, S
  <2>6. CoversBoth(u[n], acc, b, gap_length) /\ Apart(u[n], gap_length)
    <3>1. acc # <<>> => Ends(Last(acc)) <= b.addr
      BY <2>2
    <3> HIDE DEF b
    <3> QED BY <2>1, <2>4, <2>5, <3>1, PagesJoined
  <2>7. \A a : (acc # <<>> /\ b.addr - Ends(Last(acc)) <= gap_length
                /\ a \in Ends(Last(acc))..(b.addr - 1)) <=> (n - 1 # 0 /\ Between(n - 1, a))
    <3>1. CASE acc = <<>>
      <4>1. n - 1 = 0
        BY <2>3, <3>1
      <4> HIDE DEF Between
      <4> QED BY <3>1, <4>1
    <3>2. CASE acc # <<>>
      BY <2>2, <3>2
    <3> QED BY <3>1, <3>2
  <2>8. /\ \A i \in 1..n : i \in 1..(n - 1) \/ i = n
        /\ \A i \in 1..(n - 1) : i \in 1..n
        /\ n \in 1..n
        /\ \A i \in 1..(n - 1) : i \in 1..(n - 1 - 1) \/ (n - 1 # 0 /\ i = n - 1)
        /\ \A i \in 1..(n - 1 - 1) : i \in 1..(n - 1)
        /\ n - 1 # 0 => n - 1 \in 1..(n - 1)
    OBVIOUS
  <2> HIDE DEF Between
  <2>9. \A a : (\E i \in 1..n : a \in Bytes(s[i])) <=>
                   (\E i \in 1..(n - 1) : a \in Bytes(s[i])) \/ a \in Bytes(b)
    BY <2>8
  <2>10. \A a : (\E i \in 1..(n - 1) : Between(i, a)) <=>
                    (\E i \in 1..(n - 1 - 1) : Between(i, a)) \/ (n - 1 # 0 /\ Between(n - 1, a))
    BY <2>8
  <2>11. \A a : (\E i \in 1..Len(u[n]) : a \in Bytes(u[n][i])) <=>
                   (\E i \in 1..n : a \in Bytes(s[i])) \/ \E i \in 1..(n - 1) : Between(i, a)
    BY <2>5, <2>6, <2>7, <2>9, <2>10 DEF CoversBoth
  <2> QED BY <2>1, <2>6, <2>11 DEF S
<1> HIDE DEF S
<1>5. N \in S
  <2>1. N \in 0..N
    BY <1>2
  <2> QED BY <1>2, <1>3, <1>4, <2>1, UpTo
<1>6. Good(N) /\ u[N] \in Seq(Ranges)
  <2> HIDE DEF Between
  <2> QED BY <1>1, <1>2, <1>5 DEF S
<1> QED BY <1>1, <1>6

----------------------------------------------------------------------------
(* The piece of page p, and its translation to frame f. *)
Whole(p)      == [item |-> 1, addr |-> p * PageSize, len |-> PageSize]
WholeIn(p, f) == [item |-> 1, addr |-> p * PageSize, len |-> PageSize, paddr |-> f * PageSize]

MapPairs == { <<p, table[p]>> : p \in Page }

(* While a map is made every page is to be translated, is translated once  *)
(* or was not mapped.                                                      *)
MapInv ==
    /\ IsFiniteSet(seen) /\ MapPairs \subseteq seen /\ call.gap \in Nat
    /\ todo \subseteq { Whole(p) : p \in Page }
    /\ \A n \in 1..Len(translation) : \E p \in Page, f \in Frame :
          /\ translation[n] = WholeIn(p, f)
          /\ <<p, f>> \in seen /\ f # None /\ Whole(p) \notin todo
    /\ \A m, n \in 1..Len(translation) : translation[m].addr = translation[n].addr => m = n
    /\ \A p \in Page : \/ Whole(p) \in todo
                       \/ \E n \in 1..Len(translation) : translation[n].addr = p * PageSize
                       \/ <<p, None>> \in seen

MapsInv ==
    /\ pc = "translating" /\ Mapping(call.op) => MapInv
    /\ MapsAreExact

----------------------------------------------------------------------------
LEMMA PagePlace ==
    ASSUME NEW p \in Page
    PROVE  /\ p \in Nat /\ p * PageSize \in Nat
           /\ \A a : a \in p * PageSize..(p * PageSize + PageSize - 1) <=> a \in Address /\ page(a) = p
           /\ \A a \in p * PageSize..(p * PageSize + PageSize - 1) : offset(a) = a - p * PageSize
<1>1. p \in Nat /\ p + 1 <= NPages /\ NPages \in Nat /\ PageSize \in Nat \ {0}
  BY PageSizeAssumption DEF Page
<1>2. p * PageSize \in Nat /\ (p + 1) * PageSize = p * PageSize + PageSize
      /\ (p + 1) * PageSize <= NPages * PageSize
  BY <1>1
<1>3. ASSUME NEW a \in p * PageSize..(p * PageSize + PageSize - 1)
      PROVE  a \in Address /\ page(a) = p /\ offset(a) = a - p * PageSize
  <2>1. a \in Address
    BY <1>1, <1>2 DEF Address
  <2> DEFINE o == a - p * PageSize
  <2>2. o \in 0..(PageSize - 1) /\ a = p * PageSize + o
    <3> DEFINE P == p * PageSize
    <3>1. P \in Nat /\ a \in P..(P + PageSize - 1)
      BY <1>2
    <3> HIDE DEF P
    <3>2. a - P \in 0..(PageSize - 1) /\ a = P + (a - P)
      BY <1>1, <3>1
    <3> QED BY <3>2 DEF P
  <2> HIDE DEF o
  <2>3. a \div PageSize = p /\ a % PageSize = o
    BY <1>1, <2>2
  <2> QED BY <2>1, <2>3 DEF page, offset, o
<1>4. ASSUME NEW a \in Address, page(a) = p PROVE a \in p * PageSize..(p * PageSize + PageSize - 1)
  <2>1. a \in Nat
    BY AddressPage
  <2>2. offset(a) \in 0..(PageSize - 1) /\ a = p * PageSize + offset(a)
    BY <1>4, <2>1, PageSplit
  <2> QED BY <1>1, <1>2, <2>1, <2>2
<1> QED BY <1>1, <1>2, <1>3, <1>4

LEMMA PagesApart ==
    ASSUME NEW p \in Page, NEW q \in Page
    PROVE  /\ p * PageSize = q * PageSize => p = q
           /\ p < q <=> p * PageSize < q * PageSize
           /\ p < q => p * PageSize + PageSize <= q * PageSize
<1>1. p \in Nat /\ q \in Nat /\ PageSize \in Nat \ {0}
  BY PageSizeAssumption DEF Page
<1>2. ASSUME NEW a \in Nat, NEW b \in Nat, a < b PROVE a * PageSize + PageSize <= b * PageSize
  <2>1. (a + 1) * PageSize <= b * PageSize /\ (a + 1) * PageSize = a * PageSize + PageSize
    BY <1>1, <1>2
  <2> QED BY <2>1
<1>3. p * PageSize \in Nat /\ q * PageSize \in Nat
  BY <1>1
<1>4. p < q => p * PageSize + PageSize <= q * PageSize
  BY <1>1, <1>2
<1>5. q < p => q * PageSize + PageSize <= p * PageSize
  BY <1>1, <1>2
<1> QED BY <1>1, <1>3, <1>4, <1>5

(* The address space is cut into its pages. *)
LEMMA WholePieces == Pieces(<<WholeSpace>>) = { Whole(p) : p \in Page }
<1> DEFINE data == <<WholeSpace>>
<1>1. /\ DOMAIN data = {1} /\ data[1] = WholeSpace
      /\ WholeSpace.addr = 0 /\ WholeSpace.len = NPages * PageSize
      /\ WholeSpace.addr \in Nat /\ WholeSpace.len \in Nat \ {0}
      /\ Bytes(data[1]) = Address
  BY PageSizeAssumption DEF WholeSpace, Bytes, Address
<1>2. ASSUME NEW x \in Address
      PROVE  Piece(data, 1, page(x)) = Whole(page(x)) /\ page(x) \in Page
  <2> DEFINE c == Piece(data, 1, page(x))
             p == page(x)
  <2>1. /\ c.item = 1 /\ c.addr \in Nat /\ c.len \in Nat \ {0}
        /\ Bytes(c) = {a \in Address : page(a) = p}
    BY <1>1, PieceBytes
  <2>2. p \in Page
    BY AddressPage
  <2>3. c = [item |-> c.item, len |-> c.len, addr |-> c.addr]
    BY DEF Piece
  <2> HIDE DEF c, p
  <2>4. \A a : a \in Bytes(c) <=> a \in p * PageSize..(p * PageSize + PageSize - 1)
    BY <2>1, <2>2, PagePlace
  <2> DEFINE P == p * PageSize
  <2>5. P \in Nat
    BY <2>2, PagePlace
  <2>6. \A a : a \in c.addr..(c.addr + c.len - 1) <=> a \in P..(P + PageSize - 1)
    BY <2>4 DEF Bytes
  <2>7. c.addr = P /\ c.len = PageSize
    <3> DEFINE l == c.addr
               w == c.len
    <3>1. l \in Nat /\ w \in Nat \ {0} /\ PageSize \in Nat \ {0}
      BY <2>1, PageSizeAssumption
    <3>2. \A a : a \in l..(l + w - 1) <=> a \in P..(P + PageSize - 1)
      BY <2>6
    <3> HIDE DEF l, w, P
    <3>3. l \in l..(l + w - 1) /\ l + w - 1 \in l..(l + w - 1)
          /\ P \in P..(P + PageSize - 1) /\ P + PageSize - 1 \in P..(P + PageSize - 1)
      BY <2>5, <3>1
    <3>4. l \in P..(P + PageSize - 1) /\ l + w - 1 \in P..(P + PageSize - 1)
          /\ P \in l..(l + w - 1) /\ P + PageSize - 1 \in l..(l + w - 1)
      BY <3>2, <3>3
    <3>5. l = P /\ w = PageSize
      BY <2>5, <3>1, <3>4
    <3> QED BY <3>5 DEF l, w
  <2> QED BY <2>1, <2>2, <2>3, <2>7 DEF Whole, c, p
<1>3. \A c : c \in Pieces(data) <=> \E x \in Address : c = Piece(data, 1, page(x))
  BY <1>1 DEF Pieces
<1>4. \A p \in Page : \E x \in Address : page(x) = p
  <2> SUFFICES ASSUME NEW p \in Page PROVE \E x \in Address : page(x) = p
    OBVIOUS
  <2>1. p * PageSize \in p * PageSize..(p * PageSize + PageSize - 1)
    BY PagePlace, PageSizeAssumption
  <2> QED BY <2>1, PagePlace
<1>5. \A c : c \in Pieces(data) <=> \E p \in Page : c = Whole(p)
  BY <1>2, <1>3, <1>4
<1> QED BY <1>5

LEMMA PairsCounted == IsFiniteSet(MapPairs) /\ Cardinality(MapPairs) = NPages
<1>1. IsFiniteSet(Page) /\ Cardinality(Page) = NPages
  <2>1. IsFiniteSet(0..(NPages - 1))
        /\ Cardinality(0..(NPages - 1)) = IF 0 > NPages - 1 THEN 0 ELSE NPages - 1 - 0 + 1
    BY FS_Interval, PageSizeAssumption
  <2> QED BY <2>1, PageSizeAssumption DEF Page
<1> DEFINE g == [p \in Page |-> <<p, table[p]>>]
<1>2. g \in Surjection(Page, MapPairs) /\ g \in Injection(Page, MapPairs)
  <2>1. g \in [Page -> MapPairs]
    BY DEF MapPairs
  <2>2. \A x \in MapPairs : \E p \in Page : g[p] = x
    BY DEF MapPairs
  <2>3. \A p, q \in Page : g[p] = g[q] => p = q
    OBVIOUS
  <2> HIDE DEF g
  <2> QED BY <2>1, <2>2, <2>3 DEF Surjection, Injection, IsInjective
<1> HIDE DEF g
<1> QED BY <1>1, <1>2, FS_Surjection

(* A map is asked for. *)
LEMMA MapBegins ==
    ASSUME NEW op, NEW g \in Nat, Begin(op, <<WholeSpace>>, g)
    PROVE  MapInv'
<1>1. /\ todo' = Pieces(<<WholeSpace>>) /\ translation' = <<>> /\ table' = table
      /\ seen' = MapPairs /\ call'.gap = g
  BY DEF Begin, guest, MapPairs
<1>2. MapPairs' = MapPairs
  BY <1>1 DEF MapPairs
<1>3. Len(translation') = 0
  BY <1>1
<1> QED BY <1>1, <1>2, <1>3, PairsCounted, WholePieces DEF MapInv

LEMMA WholeFields ==
    ASSUME NEW p \in Page, NEW f \in Frame
    PROVE  /\ Whole(p).item = 1 /\ Whole(p).addr = p * PageSize /\ Whole(p).len = PageSize
           /\ page(p * PageSize) = p /\ Physical(f, p * PageSize) = f * PageSize
           /\ WholeIn(p, f).addr = p * PageSize /\ WholeIn(p, f) \in Ranges
           /\ Ends(WholeIn(p, f)) = p * PageSize + PageSize
           /\ \A a : a \in Bytes(WholeIn(p, f)) <=> a \in Address /\ page(a) = p
<1>1. p \in Nat /\ f \in Nat /\ PageSize \in Nat \ {0} /\ p * PageSize \in Nat /\ f * PageSize \in Nat
  BY PageSizeAssumption DEF Page, Frame
<1>2. p * PageSize \in p * PageSize..(p * PageSize + PageSize - 1)
  BY <1>1
<1>3. page(p * PageSize) = p /\ offset(p * PageSize) = 0
  BY <1>1, <1>2, PagePlace
<1>4. Physical(f, p * PageSize) = f * PageSize
  BY <1>1, <1>3 DEF Physical
<1>5. WholeIn(p, f) \in Ranges
  BY <1>1 DEF WholeIn, Ranges
<1>6. \A a : a \in Bytes(WholeIn(p, f)) <=> a \in Address /\ page(a) = p
  BY PagePlace DEF WholeIn, Bytes
<1> QED BY <1>3, <1>4, <1>5, <1>6 DEF Whole, WholeIn, Ends

LEMMA MapTranslated ==
    ASSUME MapInv, TypeOK, translation \in Seq(Answers), Translated
    PROVE  MapInv'
<1>1. PICK c \in todo :
          /\ table[page(c.addr)] # None
          /\ todo' = todo \ {c}
          /\ translation' = Append(translation,
                [item |-> c.item, addr |-> c.addr, len |-> c.len,
                 paddr |-> Physical(table[page(c.addr)], c.addr)])
          /\ UNCHANGED <<table, seen, call>>
  BY DEF Translated, guest
<1>2. PICK p \in Page : c = Whole(p)
  BY <1>1 DEF MapInv
<1> DEFINE f == table[p]
           N == Len(translation)
           e == WholeIn(p, f)
<1>3. f \in Frame \cup {None}
  BY DEF TypeOK
<1>4. c.addr = p * PageSize /\ c.item = 1 /\ c.len = PageSize
  BY <1>2 DEF Whole
<1>5. page(c.addr) = p
  <2>1. p * PageSize \in p * PageSize..(p * PageSize + PageSize - 1)
    BY PagePlace, PageSizeAssumption
  <2> QED BY <1>4, <2>1, PagePlace
<1>6. f \in Frame /\ f # None
  BY <1>1, <1>3, <1>5
<1>7. translation' = Append(translation, e) /\ e.addr = p * PageSize
  BY <1>1, <1>4, <1>5, <1>6, WholeFields DEF WholeIn
<1>8. N \in Nat /\ Len(translation') = N + 1 /\ translation'[N + 1] = e
      /\ \A n \in 1..N : translation'[n] = translation[n]
  <2> HIDE DEF e
  <2> QED BY <1>7
<1>9. <<p, f>> \in seen
  BY DEF MapInv, MapPairs
<1>10. c \notin todo' /\ todo' \subseteq todo
  BY <1>1
<1> HIDE DEF N, e
<1>11. \A n \in 1..(N + 1) : n \in 1..N \/ n = N + 1
  BY <1>8
<1>12. \A n \in 1..(N + 1) : \E q \in Page, g \in Frame :
          translation'[n] = WholeIn(q, g) /\ <<q, g>> \in seen /\ g # None /\ Whole(q) \notin todo'
  <2> SUFFICES ASSUME NEW n \in 1..(N + 1)
               PROVE  \E q \in Page, g \in Frame :
                         translation'[n] = WholeIn(q, g) /\ <<q, g>> \in seen /\ g # None /\ Whole(q) \notin todo'
    OBVIOUS
  <2>1. CASE n \in 1..N
    BY <1>8, <1>10, <2>1 DEF MapInv, N
  <2>2. CASE n = N + 1
    BY <1>2, <1>6, <1>8, <1>9, <1>10, <2>2 DEF e
  <2> QED BY <1>11, <2>1, <2>2
<1>13. \A n \in 1..N : translation[n].addr # e.addr
  <2> SUFFICES ASSUME NEW n \in 1..N, translation[n].addr = e.addr PROVE FALSE
    OBVIOUS
  <2>1. PICK q \in Page, g \in Frame : translation[n] = WholeIn(q, g) /\ Whole(q) \notin todo
    BY DEF MapInv, N
  <2>2. q * PageSize = p * PageSize
    BY <1>7, <2>1 DEF WholeIn
  <2>3. q = p
    BY <2>2, PagesApart
  <2> QED BY <1>1, <1>2, <2>1, <2>3
<1>14. \A m, n \in 1..(N + 1) : translation'[m].addr = translation'[n].addr => m = n
  <2> SUFFICES ASSUME NEW m \in 1..(N + 1), NEW n \in 1..(N + 1), translation'[m].addr = translation'[n].addr
               PROVE  m = n
    OBVIOUS
  <2>1. CASE m \in 1..N /\ n \in 1..N
    BY <1>8, <2>1 DEF MapInv, N
  <2>2. CASE m \in 1..N /\ n = N + 1
    BY <1>8, <1>13, <2>2
  <2>3. CASE n \in 1..N /\ m = N + 1
    BY <1>8, <1>13, <2>3
  <2> QED BY <1>11, <2>1, <2>2, <2>3
<1>15. \A q \in Page : \/ Whole(q) \in todo'
                       \/ \E n \in 1..(N + 1) : translation'[n].addr = q * PageSize
                       \/ <<q, None>> \in seen
  <2> SUFFICES ASSUME NEW q \in Page
               PROVE  \/ Whole(q) \in todo'
                      \/ \E n \in 1..(N + 1) : translation'[n].addr = q * PageSize
                      \/ <<q, None>> \in seen
    OBVIOUS
  <2>1. CASE q = p
    <3>1. N + 1 \in 1..(N + 1)
      BY <1>8
    <3> QED BY <1>7, <1>8, <2>1, <3>1
  <2>2. CASE \E n \in 1..N : translation[n].addr = q * PageSize
    <3>1. \A n \in 1..N : n \in 1..(N + 1)
      BY <1>8
    <3> QED BY <1>8, <2>2, <3>1
  <2>3. CASE Whole(q) \in todo /\ q # p
    <3>1. Whole(q) # c
      <4>1. Whole(q).addr = q * PageSize
        BY DEF Whole
      <4> QED BY <1>4, <2>3, <4>1, PagesApart
    <3> QED BY <1>1, <2>3, <3>1
  <2> QED BY <2>1, <2>2, <2>3 DEF MapInv, N
<1>16. MapPairs' = MapPairs
  BY <1>1 DEF MapPairs
<1> QED BY <1>1, <1>8, <1>10, <1>12, <1>14, <1>15, <1>16 DEF MapInv

LEMMA MapNotTranslated ==
    ASSUME MapInv, NotTranslated
    PROVE  MapInv'
<1>1. PICK c \in todo :
          /\ table[page(c.addr)] = None /\ todo' = todo \ {c}
          /\ UNCHANGED <<table, seen, call, translation>>
  BY DEF NotTranslated, guest
<1>2. PICK p \in Page : c = Whole(p)
  BY <1>1 DEF MapInv
<1>3. c.addr = p * PageSize
  BY <1>2 DEF Whole
<1>4. page(c.addr) = p
  <2>1. p * PageSize \in p * PageSize..(p * PageSize + PageSize - 1)
    BY PagePlace, PageSizeAssumption
  <2> QED BY <1>3, <2>1, PagePlace
<1>5. <<p, None>> \in seen
  BY <1>1, <1>4 DEF MapInv, MapPairs
<1>6. ASSUME NEW q \in Page, Whole(q) \in todo, q # p PROVE Whole(q) \in todo'
  <2>1. Whole(q).addr = q * PageSize
    BY DEF Whole
  <2> QED BY <1>1, <1>3, <1>6, <2>1, PagesApart
<1>7. \A q \in Page : \/ Whole(q) \in todo'
                      \/ \E n \in 1..Len(translation) : translation[n].addr = q * PageSize
                      \/ <<q, None>> \in seen
  BY <1>5, <1>6 DEF MapInv
<1>8. MapPairs' = MapPairs
  BY <1>1 DEF MapPairs
<1> QED BY <1>1, <1>7, <1>8 DEF MapInv

LEMMA MapRemap ==
    ASSUME MapInv, TypeOK, Remap
    PROVE  MapInv'
<1>1. PICK p \in Page, f \in Frame \cup {None} :
          table' = [table EXCEPT ![p] = f] /\ seen' = seen \cup {<<p, f>>}
  BY DEF Remap
<1>2. UNCHANGED <<call, todo, translation>>
  BY DEF Remap
<1>3. IsFiniteSet(seen')
  BY <1>1, FS_AddElement DEF MapInv
<1>4. MapPairs' \subseteq seen'
  <2> SUFFICES ASSUME NEW q \in Page PROVE <<q, table'[q]>> \in seen'
    BY DEF MapPairs
  <2>1. CASE q = p
    BY <1>1, <2>1 DEF TypeOK
  <2>2. CASE q # p
    BY <1>1, <2>2 DEF TypeOK, MapInv, MapPairs
  <2> QED BY <2>1, <2>2
<1>5. seen \subseteq seen'
  BY <1>1
<1> QED BY <1>2, <1>3, <1>4, <1>5 DEF MapInv

----------------------------------------------------------------------------
Present(p) == table[p] # None

(* The pages that are mapped, in order: what the sorted answers are. *)
Listed(s) ==
    /\ s \in Seq(Ranges) /\ Chain(s)
    /\ \A n \in 1..Len(s) : \E p \in Page : Present(p) /\ s[n] = WholeIn(p, table[p])
    /\ \A p \in Page : Present(p) => \E n \in 1..Len(s) : s[n] = WholeIn(p, table[p])
    /\ \A m, n \in 1..Len(s) : m < n => s[m].addr < s[n].addr

(* Without a change the answers are those of the table. *)
LEMMA ListedPages ==
    ASSUME MapInv, TypeOK, translation \in Seq(Answers), todo = {}, Cardinality(seen) = NPages
    PROVE  Listed(Sorted(translation))
<1> DEFINE N == Len(translation)
           s == Sorted(translation)
<1>1. seen = MapPairs
  BY PairsCounted, FS_Subset DEF MapInv
<1>2. \A p, f : <<p, f>> \in MapPairs => f = table[p]
  BY DEF MapPairs
<1>3. \A n \in 1..N : \E p \in Page : Present(p) /\ table[p] \in Frame /\ translation[n] = WholeIn(p, table[p])
  <2> SUFFICES ASSUME NEW n \in 1..N
               PROVE  \E p \in Page : Present(p) /\ table[p] \in Frame /\ translation[n] = WholeIn(p, table[p])
    OBVIOUS
  <2>1. PICK p \in Page, f \in Frame : translation[n] = WholeIn(p, f) /\ <<p, f>> \in seen /\ f # None
    BY DEF MapInv
  <2>2. f = table[p]
    BY <1>1, <1>2, <2>1
  <2> QED BY <2>1, <2>2 DEF Present
<1>4. \A p \in Page : Present(p) => \E n \in 1..N : translation[n].addr = p * PageSize
  BY <1>1, <1>2 DEF MapInv, Present
<1>5. \A n \in 1..N : translation[n] \in Ranges
  BY <1>3, WholeFields
<1>6. translation \in Seq(Ranges)
  <2>1. N \in Nat /\ translation = [n \in 1..N |-> translation[n]]
    OBVIOUS
  <2> HIDE DEF N
  <2>2. translation \in [1..N -> Ranges]
    BY <1>5, <2>1
  <2> QED BY <2>1, <2>2
<1>7. \A m, n \in 1..N : translation[m].addr = translation[n].addr => m = n
  BY DEF MapInv
<1>8. /\ s \in Seq(Ranges) /\ Len(s) = N
      /\ \A n \in 1..N : \E i \in 1..N : s[n] = translation[i]
      /\ \A i \in 1..N : \E n \in 1..N : s[n] = translation[i]
      /\ \A m, n \in 1..N : m < n => s[m].addr < s[n].addr
  BY <1>6, <1>7, SortedFacts
<1> HIDE DEF s, N
<1>9. \A n \in 1..N : \E p \in Page : Present(p) /\ table[p] \in Frame /\ s[n] = WholeIn(p, table[p])
  <2> SUFFICES ASSUME NEW n \in 1..N
               PROVE  \E p \in Page : Present(p) /\ table[p] \in Frame /\ s[n] = WholeIn(p, table[p])
    OBVIOUS
  <2>1. PICK i \in 1..N : s[n] = translation[i]
    BY <1>8
  <2>2. PICK p \in Page : Present(p) /\ table[p] \in Frame /\ translation[i] = WholeIn(p, table[p])
    BY <1>3
  <2> QED BY <2>1, <2>2
<1>10. ASSUME NEW p \in Page, Present(p)
       PROVE  \E n \in 1..N : s[n] = WholeIn(p, table[p])
  <2>1. PICK i \in 1..N : translation[i].addr = p * PageSize
    BY <1>4, <1>10
  <2>2. PICK q \in Page : translation[i] = WholeIn(q, table[q])
    BY <1>3
  <2>3. q * PageSize = p * PageSize
    BY <2>1, <2>2 DEF WholeIn
  <2>4. q = p
    BY <2>3, PagesApart
  <2> QED BY <1>8, <2>2, <2>4
<1>11. Chain(s)
  <2> SUFFICES ASSUME NEW n \in 1..(N - 1) PROVE Ends(s[n]) <= s[n + 1].addr
    BY <1>8 DEF Chain
  <2>1. N \in Nat
    BY DEF N
  <2>2. n \in 1..N /\ n + 1 \in 1..N /\ n < n + 1
    BY <2>1
  <2>3. s[n].addr < s[n + 1].addr
    BY <1>8, <2>2
  <2>4. PICK p \in Page : table[p] \in Frame /\ s[n] = WholeIn(p, table[p])
    BY <1>9, <2>2
  <2>5. PICK q \in Page : table[q] \in Frame /\ s[n + 1] = WholeIn(q, table[q])
    BY <1>9, <2>2
  <2>6. s[n].addr = p * PageSize /\ s[n + 1].addr = q * PageSize /\ Ends(s[n]) = p * PageSize + PageSize
    BY <2>4, <2>5, WholeFields
  <2>7. p < q
    BY <2>3, <2>6, PagesApart
  <2> QED BY <2>6, <2>7, PagesApart
<1> QED BY <1>8, <1>9, <1>10, <1>11 DEF Listed, s

LEMMA ListedMaps ==
    ASSUME NEW s, Listed(s), TypeOK
    PROVE  \A a, x : (\E n \in 1..Len(s) : Maps(s[n], a, x)) <=>
                        a \in Address /\ Present(page(a)) /\ x = Physical(table[page(a)], a)
<1>1. ASSUME NEW p \in Page, Present(p), NEW a, NEW x
      PROVE  Maps(WholeIn(p, table[p]), a, x) <=>
                a \in Address /\ page(a) = p /\ x = Physical(table[p], a)
  <2>1. table[p] \in Frame
    BY <1>1 DEF TypeOK, Present
  <2> DEFINE f == table[p]
             P == p * PageSize
             F == f * PageSize
  <2> HIDE DEF f
  <2>2. /\ \A b : b \in Bytes(WholeIn(p, f)) <=> b \in Address /\ page(b) = p
        /\ WholeIn(p, f).addr = P /\ WholeIn(p, f).paddr = F
    BY <2>1, WholeFields DEF f, WholeIn
  <2>3. ASSUME a \in Address, page(a) = p PROVE F + (a - P) = Physical(f, a)
    <3>1. a \in P..(P + PageSize - 1)
      BY <2>3, PagePlace
    <3>2. offset(a) = a - P
      BY <3>1, PagePlace
    <3> QED BY <3>2 DEF Physical
  <2> HIDE DEF P, F
  <2> QED BY <2>2, <2>3 DEF Maps, f
<1>2. \A a \in Address : page(a) \in Page
  BY AddressPage
<1> SUFFICES ASSUME NEW a, NEW x
             PROVE  (\E n \in 1..Len(s) : Maps(s[n], a, x)) <=>
                        a \in Address /\ Present(page(a)) /\ x = Physical(table[page(a)], a)
  OBVIOUS
<1>3. ASSUME NEW n \in 1..Len(s), Maps(s[n], a, x)
      PROVE  a \in Address /\ Present(page(a)) /\ x = Physical(table[page(a)], a)
  <2>1. PICK p \in Page : Present(p) /\ s[n] = WholeIn(p, table[p])
    BY DEF Listed
  <2>2. Maps(WholeIn(p, table[p]), a, x)
    BY <1>3, <2>1
  <2>3. a \in Address /\ page(a) = p /\ x = Physical(table[p], a)
    BY <1>1, <2>1, <2>2
  <2> QED BY <2>1, <2>3
<1>4. ASSUME a \in Address, Present(page(a)), x = Physical(table[page(a)], a)
      PROVE  \E n \in 1..Len(s) : Maps(s[n], a, x)
  <2>1. PICK n \in 1..Len(s) : s[n] = WholeIn(page(a), table[page(a)])
    BY <1>2, <1>4 DEF Listed
  <2>2. Maps(s[n], a, x)
    BY <1>1, <1>2, <1>4, <2>1
  <2> QED BY <2>2
<1> QED BY <1>3, <1>4

LEMMA ListedBytes ==
    ASSUME NEW s, Listed(s), TypeOK
    PROVE  \A a : (\E n \in 1..Len(s) : a \in Bytes(s[n])) <=> a \in Address /\ Present(page(a))
<1>1. \A n \in 1..Len(s) : \A a : a \in Bytes(s[n]) <=> Maps(s[n], a, s[n].paddr + (a - s[n].addr))
  BY DEF Maps
<1>2. \A n \in 1..Len(s) : \A a, x : Maps(s[n], a, x) => a \in Bytes(s[n])
  BY DEF Maps
<1>3. \A a, x : (\E n \in 1..Len(s) : Maps(s[n], a, x)) <=>
                        a \in Address /\ Present(page(a)) /\ x = Physical(table[page(a)], a)
  BY ListedMaps
<1> QED BY <1>1, <1>2, <1>3

LEMMA ListedOrder ==
    ASSUME NEW s, Listed(s), NEW m \in 1..Len(s), NEW n \in 1..Len(s), m <= n
    PROVE  s[m].addr <= s[n].addr
<1>1. s[m].addr \in Nat /\ s[n].addr \in Nat
  <2>1. s[m] \in Ranges /\ s[n] \in Ranges
    BY DEF Listed
  <2> QED BY <2>1 DEF Ranges
<1>2. m = n \/ m < n
  BY DEF Listed
<1>3. CASE m = n
  BY <1>1, <1>3
<1>4. CASE m < n
  <2>1. s[m].addr < s[n].addr
    BY <1>4 DEF Listed
  <2> QED BY <1>1, <2>1
<1> QED BY <1>2, <1>3, <1>4

LEMMA AddressBelow ==
    ASSUME NEW a \in Nat, NEW b \in Address, a < b
    PROVE  a \in Address
<1> DEFINE T == NPages * PageSize
<1>1. T \in Nat /\ b \in 0..(T - 1)
  BY PageSizeAssumption DEF Address
<1> HIDE DEF T
<1>2. a \in 0..(T - 1)
  BY <1>1
<1> QED BY <1>2 DEF Address, T

(* Between neighbours nothing is mapped, and a gap lies between neighbours. *)
LEMMA ListedGaps ==
    ASSUME NEW s, Listed(s), TypeOK, NEW g \in Nat, NEW a
    PROVE  (\E n \in 1..(Len(s) - 1) : /\ s[n + 1].addr - Ends(s[n]) <= g
                                       /\ a \in Ends(s[n])..(s[n + 1].addr - 1))
           <=> (\E lo, hi \in { b \in Address : Present(page(b)) } :
                   /\ a \in Address /\ lo < a /\ a < hi /\ hi - lo - 1 <= g
                   /\ \A b \in (lo + 1)..(hi - 1) : ~Present(page(b)))
<1> DEFINE Mapped == { b \in Address : Present(page(b)) }
           N == Len(s)
<1>1. N \in Nat /\ \A b \in Address : b \in Nat /\ page(b) \in Page
  BY AddressPage DEF Listed
<1>2. ASSUME NEW n \in 1..(N - 1), s[n + 1].addr - Ends(s[n]) <= g, a \in Ends(s[n])..(s[n + 1].addr - 1)
      PROVE  \E lo, hi \in Mapped :
                /\ a \in Address /\ lo < a /\ a < hi /\ hi - lo - 1 <= g
                /\ \A b \in (lo + 1)..(hi - 1) : ~Present(page(b))
  <2>1. n \in 1..N /\ n + 1 \in 1..N
    BY <1>1
  <2>2. PICK p \in Page : Present(p) /\ s[n] = WholeIn(p, table[p])
    BY <2>1 DEF Listed
  <2>3. PICK q \in Page : Present(q) /\ s[n + 1] = WholeIn(q, table[q])
    BY <2>1 DEF Listed
  <2> DEFINE P == p * PageSize
             Q == q * PageSize
             E == P + PageSize
  <2>4. /\ s[n].addr = P /\ Ends(s[n]) = E /\ s[n + 1].addr = Q /\ P \in Nat /\ Q \in Nat
        /\ PageSize \in Nat \ {0}
    BY <2>2, <2>3, PagePlace, PageSizeAssumption DEF WholeIn, Ends
  <2>5. E - 1 \in Mapped /\ Q \in Mapped
    <3>1. E - 1 \in P..(P + PageSize - 1) /\ Q \in Q..(Q + PageSize - 1)
      BY <2>4
    <3>2. E - 1 \in Address /\ page(E - 1) = p /\ Q \in Address /\ page(Q) = q
      BY <3>1, PagePlace
    <3> QED BY <2>2, <2>3, <3>2
  <2> HIDE DEF P, Q
  <2>6. a \in Int /\ E <= a /\ a < Q /\ Q - E <= g /\ E \in Nat
    BY <1>2, <2>4
  <2> HIDE DEF E
  <2>7. \A b \in ((E - 1) + 1)..(Q - 1) : ~Present(page(b))
    <3> SUFFICES ASSUME NEW b \in ((E - 1) + 1)..(Q - 1), Present(page(b)) PROVE FALSE
      OBVIOUS
    <3>1. b \in Nat /\ E <= b /\ b < Q
      BY <2>4, <2>6
    <3>2. b \in Address
      <4>1. Q \in Address
        BY <2>5
      <4> QED BY <3>1, <4>1, AddressBelow
    <3>3. PICK m \in 1..N : b \in Bytes(s[m])
      BY <3>2, ListedBytes
    <3>4. s[m] \in Ranges /\ s[n] \in Ranges /\ s[n + 1] \in Ranges
      <4>1. \A i \in 1..N : s[i] \in Ranges
        BY DEF Listed
      <4> QED BY <2>1, <4>1
    <3>5. s[m].addr \in Nat /\ s[m].addr <= b /\ b < Ends(s[m]) /\ Ends(s[m]) \in Nat
      BY <3>3, <3>4, RangeFields
    <3>6. CASE m <= n
      <4>1. m = n \/ m < n
        BY <3>6
      <4>2. s[m].addr <= s[n].addr
        BY <2>1, <3>6, ListedOrder
      <4>3. PICK r \in Page : s[m] = WholeIn(r, table[r]) /\ Present(r)
        BY DEF Listed
      <4>4. Ends(s[m]) = r * PageSize + PageSize /\ s[m].addr = r * PageSize
        BY <4>3 DEF WholeIn, Ends
      <4>5. Ends(s[m]) <= E
        BY <2>4, <3>5, <4>2, <4>4 DEF E
      <4> QED BY <2>6, <3>1, <3>5, <4>5
    <3>7. CASE m > n
      <4>1. m = n + 1 \/ n + 1 < m
        BY <1>1, <3>7
      <4>2. s[n + 1].addr <= s[m].addr
        BY <2>1, <3>7, <4>1, ListedOrder
      <4> QED BY <2>4, <3>1, <3>5, <4>2
    <3> QED BY <1>1, <3>6, <3>7
  <2>8. a \in Address
    <3>1. Q \in Address
      BY <2>5
    <3>2. a \in Nat
      BY <2>6
    <3> QED BY <2>6, <3>1, <3>2, AddressBelow
  <2>9. E - 1 < a /\ a < Q /\ Q - (E - 1) - 1 <= g
    BY <2>4, <2>6
  <2> QED BY <2>5, <2>7, <2>8, <2>9
<1>3. ASSUME NEW lo \in Mapped, NEW hi \in Mapped, a \in Address, lo < a, a < hi, hi - lo - 1 <= g,
             \A b \in (lo + 1)..(hi - 1) : ~Present(page(b))
      PROVE  \E n \in 1..(N - 1) : s[n + 1].addr - Ends(s[n]) <= g /\ a \in Ends(s[n])..(s[n + 1].addr - 1)
  <2>1. lo \in Nat /\ hi \in Nat /\ a \in Nat /\ lo \in Address /\ hi \in Address
    BY <1>1, <1>3
  <2>2. PICK n \in 1..N : lo \in Bytes(s[n])
    BY ListedBytes
  <2>3. PICK m \in 1..N : hi \in Bytes(s[m])
    BY ListedBytes
  <2>4. \A k \in 1..N : /\ s[k].addr \in Nat /\ Ends(s[k]) \in Nat /\ s[k].addr < Ends(s[k])
                        /\ \A b : b \in Bytes(s[k]) <=> b \in Int /\ s[k].addr <= b /\ b < Ends(s[k])
    <3>1. \A k \in 1..N : s[k] \in Ranges
      BY DEF Listed
    <3>2. \A k \in 1..N : s[k].addr < Ends(s[k])
      BY <3>1, RangeFields
    <3> QED BY <3>1, <3>2, RangeFields
  <2>5. ASSUME NEW k \in 1..N, NEW b \in Int, s[k].addr <= b, b < Ends(s[k])
        PROVE  b \notin (lo + 1)..(hi - 1)
    <3>1. b \in Bytes(s[k])
      BY <2>4, <2>5
    <3>2. Present(page(b))
      BY <3>1, ListedBytes
    <3> QED BY <1>3, <3>2
  <2>6. Ends(s[n]) = lo + 1
    <3>1. s[n].addr <= lo /\ lo < Ends(s[n]) /\ Ends(s[n]) \in Nat /\ s[n].addr \in Nat
      BY <2>2, <2>4
    <3>2. ASSUME lo + 1 < Ends(s[n]) PROVE FALSE
      <4>1. lo + 1 \notin (lo + 1)..(hi - 1)
        BY <2>1, <2>5, <3>1, <3>2
      <4> QED BY <1>3, <2>1, <4>1
    <3> QED BY <2>1, <3>1, <3>2
  <2>7. s[m].addr = hi
    <3>1. s[m].addr <= hi /\ hi < Ends(s[m]) /\ Ends(s[m]) \in Nat /\ s[m].addr \in Nat
      BY <2>3, <2>4
    <3>2. ASSUME s[m].addr < hi PROVE FALSE
      <4>1. hi - 1 \notin (lo + 1)..(hi - 1)
        <5>1. hi - 1 \in Int /\ s[m].addr <= hi - 1 /\ hi - 1 < Ends(s[m])
          BY <2>1, <3>1, <3>2
        <5> QED BY <2>5, <5>1
      <4> QED BY <1>3, <2>1, <4>1
    <3> QED BY <2>1, <3>1, <3>2
  <2>8. n < m
    <3>1. s[n].addr < s[m].addr
      BY <1>3, <2>1, <2>4, <2>6, <2>7
    <3>2. n = m \/ m < n \/ n < m
      BY <1>1
    <3>3. s[n].addr \in Nat /\ s[m].addr \in Nat
      BY <2>4
    <3>4. m < n => s[m].addr < s[n].addr
      BY DEF Listed
    <3> QED BY <3>1, <3>2, <3>3, <3>4
  <2>9. n \in 1..(N - 1) /\ n + 1 \in 1..N /\ n < n + 1
    BY <1>1, <2>8
  <2>10. s[n + 1].addr = hi
    <3>1. s[n].addr < s[n + 1].addr
      BY <2>9 DEF Listed
    <3>2. n + 1 = m \/ n + 1 < m
      BY <2>8, <2>9
    <3>3. s[n + 1].addr <= hi
      <4>1. n + 1 <= m
        BY <1>1, <2>9, <3>2
      <4> QED BY <2>7, <2>9, <4>1, ListedOrder
    <3>4. Ends(s[n]) <= s[n + 1].addr
      BY <2>9 DEF Listed, Chain
    <3>5. s[n + 1].addr \in Nat /\ s[n + 1].addr < Ends(s[n + 1])
      BY <2>4, <2>9
    <3>6. s[n + 1].addr \notin (lo + 1)..(hi - 1)
      BY <2>5, <2>4, <2>9, <3>5
    <3> QED BY <2>1, <2>6, <3>3, <3>4, <3>5, <3>6
  <2>11. s[n + 1].addr - Ends(s[n]) <= g /\ a \in Ends(s[n])..(s[n + 1].addr - 1)
    BY <1>3, <2>1, <2>6, <2>10
  <2> QED BY <2>9, <2>11
<1> QED BY <1>2, <1>3

----------------------------------------------------------------------------
(* The map that is returned *)
LEMMA MapAnswer ==
    ASSUME MapInv, TypeOK, translation \in Seq(Answers), MapRange
    PROVE  MapsAreExact'
<1>1. /\ todo = {} /\ Mapping(call.op) /\ pc' = "done"
      /\ answer' = Ok(IF call.op = "translation_map"
                      THEN virt_translation_map_range(translation)
                      ELSE virt_page_map_range(translation, call.gap))
      /\ UNCHANGED <<table, call, seen>>
  BY DEF MapRange, guest
<1> DEFINE Mapped == { b \in Address : Present(page(b)) }
           s == Sorted(translation)
           gap == call.gap
<1> SUFFICES ASSUME Cardinality(seen) = NPages PROVE MapsAreExact'
  BY <1>1 DEF MapsAreExact
<1>2. Listed(s) /\ gap \in Nat
  BY <1>1, ListedPages DEF MapInv
<1>3. s \in Seq(Ranges) /\ Chain(s)
  BY <1>2 DEF Listed
<1>4. \A b \in Address : b \in Nat /\ page(b) \in Page
  BY AddressPage
<1>5. \A b \in Mapped : table[page(b)] \in Frame /\ b \in Nat
  BY <1>4 DEF TypeOK, Present
<1> HIDE DEF s
<1>6. CASE call.op = "translation_map"
  <2> DEFINE e == coalesce(s, "translation_map", 0)
  <2>1. answer'.value = e
    BY <1>1, <1>6 DEF Ok, virt_translation_map_range, s
  <2>2. /\ e \in Seq(Ranges) /\ Unjoined(e)
        /\ \A a, x : (\E i \in 1..Len(e) : Maps(e[i], a, x)) <=> \E i \in 1..Len(s) : Maps(s[i], a, x)
    BY <1>3, TranslationMapFacts
  <2>3. \A a, x : (\E i \in 1..Len(s) : Maps(s[i], a, x)) <=>
                     a \in Address /\ Present(page(a)) /\ x = Physical(table[page(a)], a)
    BY <1>2, ListedMaps
  <2> HIDE DEF e
  <2>4. \A i \in 1..Len(e) : e[i].addr \in Nat /\ e[i].len \in Nat /\ e[i].paddr \in Nat
    <3>1. \A i \in 1..Len(e) : e[i] \in Ranges
      BY <2>2
    <3> QED BY <3>1 DEF Ranges
  <2>5. \A i \in 1..Len(e) : \A a, x : Maps(e[i], a, x) <=> a \in Bytes(e[i]) /\ x = e[i].paddr + a - e[i].addr
    <3> SUFFICES ASSUME NEW i \in 1..Len(e), NEW a, NEW x
                 PROVE  Maps(e[i], a, x) <=> a \in Bytes(e[i]) /\ x = e[i].paddr + a - e[i].addr
      OBVIOUS
    <3> DEFINE p == e[i].paddr
               q == e[i].addr
    <3>1. p \in Nat /\ q \in Nat /\ (a \in Bytes(e[i]) => a \in Int)
      BY <2>4 DEF Bytes
    <3> HIDE DEF p, q
    <3>2. a \in Int => p + (a - q) = p + a - q
      BY <3>1
    <3> QED BY <3>1, <3>2 DEF Maps, p, q
  <2>6. DOMAIN e = 1..Len(e)
    BY <2>2
  <2>7. \A a \in Mapped : Physical(table[page(a)], a) \in PAddress
    BY <1>5, PhysicalSplit
  <2> DEFINE Left == { m \in Address \X PAddress : \E i \in DOMAIN e :
                          m[1] \in Bytes(e[i]) /\ m[2] = e[i].paddr + m[1] - e[i].addr }
             Right == { <<a, Physical(table[page(a)], a)>> : a \in Mapped }
  <2>8. Left = Right
    <3>1. ASSUME NEW m \in Left PROVE m \in Right
      <4>1. PICK i \in DOMAIN e : m[1] \in Bytes(e[i]) /\ m[2] = e[i].paddr + m[1] - e[i].addr
        OBVIOUS
      <4>2. Maps(e[i], m[1], m[2])
        BY <2>5, <2>6, <4>1
      <4>3. m[1] \in Mapped /\ m[2] = Physical(table[page(m[1])], m[1])
        BY <2>2, <2>3, <2>6, <4>2
      <4>4. m = <<m[1], m[2]>>
        OBVIOUS
      <4> QED BY <4>3, <4>4
    <3>2. ASSUME NEW m \in Right PROVE m \in Left
      <4>1. PICK a \in Mapped : m = <<a, Physical(table[page(a)], a)>>
        OBVIOUS
      <4>2. PICK i \in 1..Len(e) : Maps(e[i], a, Physical(table[page(a)], a))
        BY <2>2, <2>3
      <4>3. a \in Bytes(e[i]) /\ Physical(table[page(a)], a) = e[i].paddr + a - e[i].addr
        BY <2>5, <4>2
      <4> DEFINE x == Physical(table[page(a)], a)
      <4>4. x \in PAddress /\ m = <<a, x>> /\ a \in Address
        BY <2>7, <4>1
      <4> HIDE DEF x
      <4>5. m \in Address \X PAddress /\ m[1] = a /\ m[2] = x
        BY <4>4
      <4> QED BY <2>6, <4>3, <4>5 DEF x
    <3> HIDE DEF Left, Right
    <3> QED BY <3>1, <3>2
  <2>9. \A i \in 1..(Len(e) - 1) : ~adjacent(e[i], e[i + 1])
    BY <2>2 DEF Unjoined
  <2>10. call'.op # "page_map"
    BY <1>1, <1>6
  <2> QED BY <1>1, <1>6, <2>1, <2>8, <2>9, <2>10 DEF MapsAreExact, Present
<1>7. CASE call.op # "translation_map"
  <2> DEFINE e == coalesce(s, "page_map", gap)
             Wanted == Mapped \cup { a \in Address : \E lo, hi \in Mapped :
                          lo < a /\ a < hi /\ hi - lo - 1 <= gap /\ Gap(lo + 1, hi - 1) }
  <2>1. answer'.value = e
    BY <1>1, <1>7 DEF Ok, virt_page_map_range, s
  <2>2. /\ e \in Seq(Ranges) /\ Apart(e, gap)
        /\ \A a : (\E i \in 1..Len(e) : a \in Bytes(e[i])) <=>
                        \/ \E i \in 1..Len(s) : a \in Bytes(s[i])
                        \/ \E i \in 1..(Len(s) - 1) : /\ s[i + 1].addr - Ends(s[i]) <= gap
                                                      /\ a \in Ends(s[i])..(s[i + 1].addr - 1)
    <3> HIDE DEF gap
    <3> QED BY <1>2, <1>3, PageMapFacts
  <2>3. \A a : (\E i \in 1..Len(s) : a \in Bytes(s[i])) <=> a \in Mapped
    BY <1>2, ListedBytes
  <2>4. \A a : (\E i \in 1..(Len(s) - 1) : /\ s[i + 1].addr - Ends(s[i]) <= gap
                                           /\ a \in Ends(s[i])..(s[i + 1].addr - 1))
               <=> (\E lo, hi \in Mapped :
                      /\ a \in Address /\ lo < a /\ a < hi /\ hi - lo - 1 <= gap
                      /\ \A b \in (lo + 1)..(hi - 1) : ~Present(page(b)))
    <3> HIDE DEF gap
    <3> QED BY <1>2, ListedGaps
  <2>5. \A lo, hi : Gap(lo, hi) <=> \A b \in lo..hi : ~Present(page(b))
    BY DEF Gap, Present
  <2> HIDE DEF e, gap
  <2>6. DOMAIN e = 1..Len(e)
    BY <2>2
  <2>7. UNION { Bytes(e[i]) : i \in DOMAIN e } = Wanted
    <3>1. \A a : a \in UNION { Bytes(e[i]) : i \in DOMAIN e } <=> \E i \in 1..Len(e) : a \in Bytes(e[i])
      BY <2>6
    <3>2. \A a : a \in Wanted <=> \/ a \in Mapped
                                  \/ \E lo, hi \in Mapped :
                                        /\ a \in Address /\ lo < a /\ a < hi /\ hi - lo - 1 <= gap
                                        /\ \A b \in (lo + 1)..(hi - 1) : ~Present(page(b))
      BY <2>5
    <3> HIDE DEF Wanted, Mapped
    <3>3. \A a : a \in UNION { Bytes(e[i]) : i \in DOMAIN e } <=> a \in Wanted
      BY <2>2, <2>3, <2>4, <3>1, <3>2
    <3> QED BY <3>3
  <2>8. \A i \in 1..(Len(e) - 1) : e[i].addr + e[i].len + gap < e[i + 1].addr
    BY <2>2 DEF Apart, Ends
  <2>9. (\A a \in Address : Present(page(a)) <=> table[page(a)] # None) /\ call'.gap = gap
        /\ call'.op # "translation_map"
    BY <1>1, <1>7 DEF Present, gap
  <2>10. \A lo, hi : Gap(lo, hi)' <=> Gap(lo, hi)
    BY <1>1 DEF Gap
  <2>11. Mapped = { a \in Address : table'[page(a)] # None }
    BY <1>1 DEF Present
  <2> HIDE DEF Mapped
  <2> QED BY <1>1, <2>1, <2>7, <2>8, <2>9, <2>10, <2>11 DEF MapsAreExact
<1> QED BY <1>6, <1>7

----------------------------------------------------------------------------
LEMMA MapsKept ==
    ASSUME MapsInv, UNCHANGED vars
    PROVE  MapsInv'
<1>1. UNCHANGED <<table, pc, call, todo, translation, answer, seen>>
  BY DEF vars, guest
<1>2. MapInv => MapInv'
  BY <1>1 DEF MapInv, MapPairs
<1>3. MapsAreExact'
  BY <1>1 DEF MapsInv, MapsAreExact, Gap
<1> QED BY <1>1, <1>2, <1>3 DEF MapsInv

LEMMA MapsStart == ASSUME SessionInit PROVE MapsInv
BY DEF SessionInit, Init, MapsInv, MapsAreExact

LEMMA MapsSession ==
    ASSUME SessionInv, MapsInv, [SessionNext]_allvars
    PROVE  MapsInv'
<1>1. TypeOK /\ translation \in Seq(Answers)
  BY DEF SessionInv, VirtInv
<1>2. ASSUME NEW op, NEW data, NEW g, Begin(op, data, g), ~Mapping(op)
      PROVE  MapsInv'
  <2>1. pc' = "translating" /\ call'.op = op
    BY <1>2 DEF Begin
  <2> QED BY <1>2, <2>1 DEF MapsInv, MapsAreExact
<1>3. CASE Call
  <2>1. ASSUME NEW g \in Nat, NEW op, Begin(op, <<WholeSpace>>, g) PROVE MapsInv'
    <3>1. MapInv' /\ pc' = "translating"
      BY <2>1, MapBegins DEF Begin
    <3> QED BY <3>1 DEF MapsInv, MapsAreExact
  <2> QED BY <1>2, <1>3, <2>1, GapsAssumption DEF Call, Mapping
<1>4. CASE Ask
  <2>1. ASSUME NEW op \in {"read_list", "write_list"}, NEW data, BeginPhysical(op, data)
        PROVE  MapsInv'
    <3>1. pc' = "translating" /\ call'.op = op
      BY <2>1 DEF BeginPhysical
    <3> QED BY <3>1 DEF MapsInv, MapsAreExact, Mapping
  <2> DEFINE op   == IF stage = "reading" THEN "read_list" ELSE "write_list"
             data == Entries(IF stage = "reading" THEN read_list ELSE write_list)
  <2>2. Begin(op, data, 0) \/ BeginPhysical(op, data)
    BY <1>4 DEF Ask
  <2>3. op \in {"read_list", "write_list"} /\ ~Mapping(op)
    BY DEF Mapping
  <2> HIDE DEF op, data
  <2> QED BY <1>2, <2>1, <2>2, <2>3
<1>5. CASE Memory
  <2>1. CASE Translated
    <3>1. pc = "translating" /\ pc' = pc /\ call' = call
      BY <2>1 DEF Translated
    <3>2. MapInv => MapInv'
      BY <1>1, <2>1, MapTranslated
    <3> QED BY <3>1, <3>2 DEF MapsInv, MapsAreExact
  <2>2. CASE NotTranslated
    <3>1. pc = "translating" /\ pc' = pc /\ call' = call
      BY <2>2 DEF NotTranslated
    <3>2. MapInv => MapInv'
      BY <2>2, MapNotTranslated
    <3> QED BY <3>1, <3>2 DEF MapsInv, MapsAreExact
  <2>3. CASE PhysRead \/ PhysReadFails \/ PhysWrite \/ PhysWriteFails \/ PageInfo
    <3>1. pc' = "done" /\ call' = call /\ ~Mapping(call.op)
      BY <2>3 DEF PhysRead, PhysReadFails, PhysWrite, PhysWriteFails, PageInfo, Walked, Reading, Mapping
    <3> QED BY <3>1 DEF MapsInv, MapsAreExact
  <2>4. CASE MapRange
    <3>1. MapInv /\ pc' = "done"
      BY <2>4 DEF MapRange, MapsInv
    <3>2. MapsAreExact'
      BY <1>1, <2>4, <3>1, MapAnswer
    <3> QED BY <3>1, <3>2 DEF MapsInv
  <2>5. CASE Remap
    <3>1. pc # "done" /\ pc' = pc /\ call' = call
      BY <2>5 DEF Remap
    <3>2. MapInv => MapInv'
      BY <1>1, <2>5, MapRemap
    <3> QED BY <3>1, <3>2 DEF MapsInv, MapsAreExact
  <2> QED BY <1>5, <2>1, <2>2, <2>3, <2>4, <2>5 DEF Memory, Step
<1>6. CASE NewVirt
  <2>1. pc' = "idle"
    BY <1>6 DEF NewVirt, SessionInv
  <2> QED BY <2>1 DEF MapsInv, MapsAreExact
<1>7. CASE UNCHANGED vars
  BY <1>7, MapsKept
<1>8. Build \/ NewBatcher \/ Queue \/ CommitOrDrop \/ Tell \/ UNCHANGED allvars => UNCHANGED vars
  BY DEF Build, NewBatcher, Queue, CommitOrDrop, Tell, allvars
<1> QED BY <1>3, <1>4, <1>5, <1>6, <1>7, <1>8 DEF SessionNext

----------------------------------------------------------------------------
(* The levels of a walk *)

(* What of v has been used to get to a table of level l. *)
Prefix(v, l) == v \div Fan ^ (Levels - l)

LEMMA Quotient ==
    ASSUME NEW u \in Nat \ {0}, NEW d \in Nat, NEW x \in 0..(u - 1)
    PROVE  (u * d + x) \div u = d
<1> DEFINE a == u * d + x
           q == a \div u
<1>1. a \in Nat
  OBVIOUS
<1> HIDE DEF a
<1>2. q \in Nat /\ a = u * q + (a % u) /\ a % u \in 0..(u - 1)
  BY <1>1
<1> DEFINE r == a % u
<1> HIDE DEF q, r
<1>3. u * q + r = u * d + x /\ r \in 0..(u - 1)
  BY <1>2 DEF a, r
<1>4. ASSUME NEW y \in Nat, NEW z \in Nat, y < z PROVE u * y + u <= u * z
  <2>1. z - y >= 1
    BY <1>4
  <2>2. u * (z - y) >= u
    BY <2>1, <1>4
  <2> QED BY <2>2
<1>5. ~(q < d) /\ ~(d < q)
  BY <1>2, <1>3, <1>4
<1>6. q = d
  BY <1>2, <1>5
<1> QED BY <1>6 DEF q, a

LEMMA PrefixFacts ==
    ASSUME NEW v \in VPage
    PROVE  /\ v \in Nat /\ Prefix(v, 0) = 0 /\ Prefix(v, Levels) = v
           /\ \A l \in 0..Levels : Prefix(v, l) \in Nat
           /\ \A l \in 0..(Levels - 1) : /\ index(v, l) \in VIndex
                                         /\ Prefix(v, l + 1) = Fan * Prefix(v, l) + index(v, l)
<1>1. Levels \in Nat \ {0} /\ Fan \in Nat \ {0}
  BY LayoutAssumption
<1>2. \A l \in 0..Levels : Levels - l \in 0..Levels /\ Fan ^ (Levels - l) \in Nat \ {0}
  BY <1>1, PowersAssumption
<1>3. v \in Nat /\ v < Fan ^ Levels /\ Fan ^ Levels \in Nat \ {0}
  BY <1>1, PowersAssumption DEF VPage
<1>4. Prefix(v, 0) = 0
  <2> DEFINE w == Fan ^ Levels
  <2>1. Prefix(v, 0) = v \div w
    BY <1>1 DEF Prefix
  <2>2. v < w /\ w \in Nat \ {0}
    BY <1>3
  <2> HIDE DEF w
  <2> QED BY <1>3, <2>1, <2>2
<1>5. Prefix(v, Levels) = v
  <2>1. Levels - Levels = 0
    BY <1>1
  <2> QED BY <1>3, <2>1, PowersAssumption DEF Prefix
<1>6. ASSUME NEW l \in 0..Levels PROVE Prefix(v, l) \in Nat
  <2> DEFINE w == Fan ^ (Levels - l)
  <2>1. w \in Nat \ {0} /\ Prefix(v, l) = v \div w
    BY <1>2 DEF Prefix
  <2> HIDE DEF w
  <2> QED BY <1>3, <2>1
<1>7. ASSUME NEW l \in 0..(Levels - 1)
      PROVE  /\ index(v, l) \in VIndex
             /\ Prefix(v, l + 1) = Fan * Prefix(v, l) + index(v, l)
  <2> DEFINE w == Fan ^ (Levels - 1 - l)
             u == Fan ^ (Levels - l)
             q == v \div w
  <2>1. Levels - 1 - l \in 0..(Levels - 1) /\ Levels - 1 - l + 1 = Levels - l
        /\ Levels - (l + 1) = Levels - 1 - l /\ Levels - 1 - l \in 0..Levels
    BY <1>1
  <2>2. w \in Nat \ {0} /\ u = Fan * w
    BY <2>1, PowersAssumption
  <2>3. Prefix(v, l + 1) = q /\ Prefix(v, l) = v \div u /\ index(v, l) = q % Fan
    BY <2>1 DEF Prefix, index
  <2>4. index(v, l) \in VIndex
    BY <1>3, IndexInTable
  <2> HIDE DEF w, u, q
  <2>5. q \in Nat /\ v = w * q + (v % w) /\ v % w \in 0..(w - 1)
    BY <1>3, <2>2 DEF q
  <2> DEFINE d == q \div Fan
             r == q % Fan
  <2>6. d \in Nat /\ r \in 0..(Fan - 1) /\ q = Fan * d + r
    BY <1>1, <2>5
  <2> HIDE DEF d
  <2> DEFINE t == v % w
  <2> HIDE DEF t
  <2> HIDE DEF r
  <2>7. v = w * q + t /\ t \in 0..(w - 1)
    BY <2>5 DEF t
  <2>8. w * r + t \in 0..(u - 1) /\ w * q = u * d + w * r
    <3>1. w * r <= w * (Fan - 1) /\ w * r \in Nat
      BY <1>1, <2>2, <2>6
    <3>2. w * (Fan - 1) = u - w
      BY <1>1, <2>2
    <3>3. w * q = w * (Fan * d) + w * r
      BY <1>1, <2>2, <2>6
    <3>4. w * (Fan * d) = u * d
      BY <1>1, <2>2, <2>6
    <3> QED BY <1>1, <2>2, <2>7, <3>1, <3>2, <3>3, <3>4
  <2>9. v = u * d + (w * r + t) /\ u \in Nat \ {0}
    BY <1>1, <2>2, <2>6, <2>7, <2>8
  <2>10. v \div u = d
    <3> DEFINE x == w * r + t
    <3> HIDE DEF x
    <3>1. v = u * d + x /\ x \in 0..(u - 1)
      BY <2>8, <2>9 DEF x
    <3> QED BY <2>6, <2>9, <3>1, Quotient
  <2> QED BY <2>3, <2>4, <2>6, <2>10 DEF r
<1> QED BY <1>3, <1>4, <1>5, <1>6, <1>7

----------------------------------------------------------------------------
(* The frames that are left *)

FramePages == [addr : Nat, size : 0..2]
PFrames(p) == p.addr..(p.addr + to_size(p.size) - 1)

(* The first m pages of the list are all of the memory that was not handed *)
(* out; those behind them are handed out a second time.                    *)
Left(m) ==
    /\ m \in 0..Len(page_list)
    /\ \A i, j \in 1..m : i # j => PFrames(page_list[i]) \cap PFrames(page_list[j]) = {}
    /\ \A i, j \in 1..Len(pt_pages) : i # j => pt_pages[i].addr # pt_pages[j].addr
    /\ \A i \in 1..m : \A j \in 1..Len(pt_pages) : pt_pages[j].addr \notin PFrames(page_list[i])
    /\ \A n \in 1..Len(handed) :
          /\ \A i \in 1..m : handed[n] \notin PFrames(page_list[i])
          /\ \A j \in 1..Len(pt_pages) : handed[n] # pt_pages[j].addr
    /\ m < Len(page_list) \/ phase = "shuffling" => \A f \in Frame :
          \/ \E i \in 1..m : f \in PFrames(page_list[i])
          \/ \E j \in 1..Len(pt_pages) : f = pt_pages[j].addr
          \/ \E n \in 1..Len(handed) : f = handed[n]

(* In the first round every frame is in one page, of either list.          *)
FirstRound ==
    /\ \A i, j \in 1..Len(page_list) :
          i # j => PFrames(page_list[i]) \cap PFrames(page_list[j]) = {}
    /\ \A p, q \in page_prelist : p # q => PFrames(p) \cap PFrames(q) = {}
    /\ \A p \in page_prelist : \A i \in 1..Len(page_list) :
          PFrames(p) \cap PFrames(page_list[i]) = {}
    /\ \A f \in Frame : \/ \E p \in page_prelist : f \in PFrames(p)
                        \/ \E i \in 1..Len(page_list) : f \in PFrames(page_list[i])

FramesInv ==
    /\ size = NFrames /\ page_list \in Seq(FramePages) /\ pt_pages \in Seq(FramePages)
    /\ handed \in Seq(Frame) /\ round \in {0, 1}
    /\ phase = "shuffling" =>
          /\ page_prelist \subseteq FramePages /\ pt_pages = <<>> /\ handed = <<>>
          /\ DOMAIN split = 0..2 /\ split[0] = 2
    /\ IF phase = "shuffling" /\ round = 0 THEN FirstRound
       ELSE Len(handed) <= size => \E m \in 0..Len(page_list) : Left(m)

LEMMA SizeFacts ==
    /\ to_size(0) = 1 /\ to_size(1) = S2m /\ to_size(2) = S1g
    /\ \A s \in 0..2 : to_size(s) \in Nat \ {0}
BY LayoutAssumption DEF to_size

LEMMA PageFrames ==
    ASSUME NEW p \in FramePages
    PROVE  LET s == split_to_size(p, 0) IN
           /\ s \in Seq(FramePages) /\ Len(s) = to_size(p.size) /\ Len(s) \in Nat \ {0}
           /\ \A o \in 1..Len(s) : s[o].addr = p.addr + o - 1
           /\ PFrames(p) = { s[o].addr : o \in 1..Len(s) }
<1> DEFINE n == to_size(p.size)
           s == split_to_size(p, 0)
<1>1. n \in Nat \ {0} /\ p.addr \in Nat /\ n \div to_size(0) = n /\ to_size(0) = 1
  BY SizeFacts DEF FramePages
<1>2. s = [o \in 1..n |-> [addr |-> p.addr + 1 * (o - 1), size |-> 0]]
  BY <1>1 DEF split_to_size
<1>3. PFrames(p) = p.addr..(p.addr + n - 1)
  BY DEF PFrames
<1> HIDE DEF n, s
<1>4. \A o \in 1..n : s[o] = [addr |-> p.addr + o - 1, size |-> 0] /\ s[o] \in FramePages
  BY <1>1, <1>2 DEF FramePages
<1>5. s \in Seq(FramePages) /\ Len(s) = n
  <2>1. s \in [1..n -> FramePages]
    BY <1>2, <1>4
  <2> QED BY <1>1, <2>1
<1>6. ASSUME NEW f \in PFrames(p) PROVE \E o \in 1..n : f = s[o].addr
  <2>1. f - p.addr + 1 \in 1..n /\ p.addr + (f - p.addr + 1) - 1 = f
    BY <1>1, <1>3, <1>6
  <2>2. s[f - p.addr + 1].addr = f
    <3> DEFINE o == f - p.addr + 1
    <3>1. o \in 1..n /\ s[o] = [addr |-> p.addr + o - 1, size |-> 0]
      BY <1>4, <2>1
    <3>2. p.addr + o - 1 = f
      BY <2>1
    <3> HIDE DEF o
    <3>3. s[o].addr = f
      BY <3>1, <3>2
    <3> QED BY <3>3 DEF o
  <2> QED BY <2>1, <2>2
<1>7. ASSUME NEW o \in 1..n PROVE s[o].addr \in PFrames(p) /\ s[o].addr = p.addr + o - 1
  <2>1. s[o] = [addr |-> p.addr + o - 1, size |-> 0]
    BY <1>4
  <2>2. s[o].addr = p.addr + o - 1
    BY <2>1
  <2> QED BY <1>1, <1>3, <2>2
<1>8. PFrames(p) = { s[o].addr : o \in 1..n }
  BY <1>6, <1>7
<1> QED BY <1>1, <1>5, <1>7, <1>8 DEF n, s

LEMMA FrontFacts ==
    ASSUME NEW S, NEW s \in Seq(S), s # <<>>
    PROVE  /\ Front(s) \in Seq(S) /\ Len(Front(s)) = Len(s) - 1 /\ Len(s) \in Nat \ {0}
           /\ \A i \in 1..(Len(s) - 1) : Front(s)[i] = s[i]
           /\ Last(s) = s[Len(s)]
<1>1. Len(s) \in Nat \ {0} /\ s \in [1..Len(s) -> S]
  OBVIOUS
<1>2. Front(s) = [i \in 1..(Len(s) - 1) |-> s[i]]
  BY <1>1 DEF Front
<1>3. \A i \in 1..(Len(s) - 1) : i \in 1..Len(s)
  BY <1>1
<1>4. Front(s) \in Seq(S) /\ Len(Front(s)) = Len(s) - 1
  BY <1>1, <1>2, <1>3
<1> QED BY <1>1, <1>2, <1>4 DEF Last

LEMMA TailFacts ==
    ASSUME NEW S, NEW s \in Seq(S), s # <<>>
    PROVE  /\ Tail(s) \in Seq(S) /\ Len(Tail(s)) = Len(s) - 1 /\ Len(s) \in Nat \ {0}
           /\ \A i \in 1..(Len(s) - 1) : Tail(s)[i] = s[i + 1]
           /\ Head(s) = s[1] /\ s[1] \in S
OBVIOUS

(* The memory has no frame left when all that are in it were handed out. *)
LEMMA AllHanded ==
    ASSUME NEW s \in Seq(Frame), \A f \in Frame : \E n \in 1..Len(s) : f = s[n]
    PROVE  Len(s) >= NFrames
<1>1. Len(s) \in Nat /\ NFrames \in Nat /\ s \in [1..Len(s) -> Frame]
  BY PageSizeAssumption
<1>2. IsFiniteSet(1..Len(s)) /\ Cardinality(1..Len(s)) = Len(s)
  BY <1>1, FS_Interval
<1>3. IsFiniteSet(Frame) /\ Cardinality(Frame) = NFrames
  BY <1>1, FS_Interval DEF Frame
<1>4. s \in Surjection(1..Len(s), Frame)
  BY <1>1 DEF Surjection
<1>5. Cardinality(Frame) <= Cardinality(1..Len(s))
  BY <1>2, <1>4, FS_Surjection
<1> QED BY <1>1, <1>2, <1>3, <1>5

(* What alloc_pt_page hands out was not handed out before, as long as      *)
(* there is a frame that was not.                                          *)
LEMMA FromPages ==
    ASSUME FramesInv, phase # "shuffling", phase' # "shuffling",
           NEW f \in Frame, Alloc(f), pt_pages # <<>>,
           NEW m \in 0..Len(page_list), Left(m)
    PROVE  /\ page_list' \in Seq(FramePages) /\ pt_pages' \in Seq(FramePages)
           /\ Left(m)' /\ m \in 0..Len(page_list')
           /\ \A n \in 1..Len(handed) : handed[n] # f
<1> DEFINE k == Len(pt_pages)
<1>1. /\ f = Last(pt_pages).addr /\ pt_pages' = Front(pt_pages) /\ page_list' = page_list
      /\ handed' = Append(handed, f)
  BY DEF Alloc, Pop
<1>2. /\ pt_pages' \in Seq(FramePages) /\ Len(pt_pages') = k - 1 /\ k \in Nat \ {0}
      /\ \A i \in 1..(k - 1) : pt_pages'[i] = pt_pages[i]
      /\ f = pt_pages[k].addr
  BY <1>1, FrontFacts DEF FramesInv
<1>3. /\ Len(handed) \in Nat /\ Len(handed') = Len(handed) + 1 /\ handed'[Len(handed) + 1] = f
      /\ \A n \in 1..Len(handed) : handed'[n] = handed[n]
  BY <1>1 DEF FramesInv
<1>4. \A n \in 1..Len(handed) : handed[n] # f
  <2>1. k \in 1..k
    BY <1>2
  <2>2. \A n \in 1..Len(handed) : \A j \in 1..k : handed[n] # pt_pages[j].addr
    BY DEF Left
  <2> HIDE DEF k
  <2> QED BY <1>2, <2>1, <2>2
<1>5. /\ m \in 0..Len(page_list')
      /\ \A i, j \in 1..m : i # j => PFrames(page_list'[i]) \cap PFrames(page_list'[j]) = {}
  BY <1>1 DEF Left
<1>6. \A i, j \in 1..Len(pt_pages') : i # j => pt_pages'[i].addr # pt_pages'[j].addr
  <2>1. \A i \in 1..(k - 1) : i \in 1..k
    BY <1>2
  <2> QED BY <1>2, <2>1 DEF Left
<1>7. \A i \in 1..m : \A j \in 1..Len(pt_pages') : pt_pages'[j].addr \notin PFrames(page_list'[i])
  <2>1. \A i \in 1..(k - 1) : i \in 1..k
    BY <1>2
  <2> QED BY <1>1, <1>2, <2>1 DEF Left
<1>8. ASSUME NEW n \in 1..Len(handed')
      PROVE  /\ \A i \in 1..m : handed'[n] \notin PFrames(page_list'[i])
             /\ \A j \in 1..Len(pt_pages') : handed'[n] # pt_pages'[j].addr
  <2>1. \A i \in 1..(k - 1) : i \in 1..k /\ i # k
    BY <1>2
  <2>2. k \in 1..k
    BY <1>2
  <2>3. CASE n \in 1..Len(handed)
    <3>1. handed'[n] = handed[n]
      BY <1>3, <2>3
    <3>2. /\ \A i \in 1..m : handed[n] \notin PFrames(page_list[i])
          /\ \A j \in 1..k : handed[n] # pt_pages[j].addr
      BY <2>3 DEF Left
    <3> HIDE DEF k
    <3> QED BY <1>1, <1>2, <2>1, <3>1, <3>2
  <2>4. CASE n = Len(handed) + 1
    <3>1. handed'[n] = pt_pages[k].addr
      BY <1>2, <1>3, <2>4
    <3>2. \A i \in 1..m : pt_pages[k].addr \notin PFrames(page_list[i])
      BY <2>2 DEF Left
    <3>3. \A j \in 1..(k - 1) : pt_pages[k].addr # pt_pages[j].addr
      BY <2>1, <2>2 DEF Left
    <3> QED BY <1>1, <1>2, <3>1, <3>2, <3>3
  <2> QED BY <1>3, <2>3, <2>4
<1>9. ASSUME m < Len(page_list'), NEW g \in Frame
      PROVE  \/ \E i \in 1..m : g \in PFrames(page_list'[i])
             \/ \E j \in 1..Len(pt_pages') : g = pt_pages'[j].addr
             \/ \E n \in 1..Len(handed') : g = handed'[n]
  <2>1. \/ \E i \in 1..m : g \in PFrames(page_list[i])
        \/ \E j \in 1..k : g = pt_pages[j].addr
        \/ \E n \in 1..Len(handed) : g = handed[n]
    BY <1>1, <1>9 DEF Left
  <2>2. Len(handed) + 1 \in 1..Len(handed') /\ \A n \in 1..Len(handed) : n \in 1..Len(handed')
    BY <1>3
  <2>3. ASSUME NEW j \in 1..k, g = pt_pages[j].addr
        PROVE  \/ \E i \in 1..Len(pt_pages') : g = pt_pages'[i].addr
               \/ \E n \in 1..Len(handed') : g = handed'[n]
    <3>1. CASE j = k
      BY <1>2, <1>3, <2>2, <2>3, <3>1
    <3>2. CASE j \in 1..(k - 1)
      BY <1>2, <2>3, <3>2
    <3> QED BY <1>2, <3>1, <3>2
  <2> QED BY <1>1, <1>3, <2>1, <2>2, <2>3
<1>10. Left(m)'
  <2> HIDE DEF k
  <2> QED BY <1>5, <1>6, <1>7, <1>8, <1>9 DEF Left
<1> QED BY <1>1, <1>2, <1>4, <1>5, <1>10 DEF FramesInv

LEMMA FromList ==
    ASSUME FramesInv, phase # "shuffling", phase' # "shuffling",
           NEW f \in Frame, Alloc(f), pt_pages = <<>>, Len(handed) < size,
           NEW m \in 0..Len(page_list), Left(m)
    PROVE  /\ page_list' \in Seq(FramePages) /\ pt_pages' \in Seq(FramePages)
           /\ m - 1 \in 0..Len(page_list') /\ Left(m - 1)'
           /\ \A n \in 1..Len(handed) : handed[n] # f
<1> DEFINE p == Head(page_list)
           s == split_to_size(p, 0)
           k == Len(s)
           L == Len(page_list)
<1>1. /\ f = Last(s).addr /\ pt_pages' = Front(s) /\ page_list' = Tail(page_list)
      /\ handed' = Append(handed, f) /\ page_list # <<>>
  BY DEF Alloc, Pop
<1>2. /\ page_list' \in Seq(FramePages) /\ Len(page_list') = L - 1 /\ L \in Nat \ {0}
      /\ \A i \in 1..(L - 1) : page_list'[i] = page_list[i + 1]
      /\ p = page_list[1] /\ p \in FramePages
  BY <1>1, TailFacts DEF FramesInv
<1>3. /\ s \in Seq(FramePages) /\ k \in Nat \ {0}
      /\ \A o \in 1..k : s[o].addr = p.addr + o - 1
      /\ PFrames(p) = { s[o].addr : o \in 1..k }
  BY <1>2, PageFrames
<1>4. p.addr \in Nat
  BY <1>2 DEF FramePages
<1> HIDE DEF p, s
<1>5. /\ pt_pages' \in Seq(FramePages) /\ Len(pt_pages') = k - 1
      /\ \A i \in 1..(k - 1) : pt_pages'[i] = s[i]
      /\ f = s[k].addr
  <2>1. s # <<>>
    BY <1>3
  <2> QED BY <1>1, <1>3, <2>1, FrontFacts
<1> HIDE DEF k
<1>6. /\ Len(handed) \in Nat /\ Len(handed') = Len(handed) + 1 /\ handed'[Len(handed) + 1] = f
      /\ \A n \in 1..Len(handed) : handed'[n] = handed[n]
  BY <1>1 DEF FramesInv
<1>7. m # 0
  <2> SUFFICES ASSUME m = 0 PROVE FALSE
    OBVIOUS
  <2>1. \A g \in Frame : \E n \in 1..Len(handed) : g = handed[n]
    BY <1>2 DEF Left
  <2>2. Len(handed) >= NFrames
    BY <2>1, AllHanded DEF FramesInv
  <2> QED BY <1>6, <2>2, PageSizeAssumption DEF FramesInv
<1>8. /\ m - 1 \in 0..(L - 1) /\ 1 \in 1..m /\ m \in Nat \ {0}
      /\ \A i \in 1..(m - 1) : i \in 1..(L - 1) /\ i + 1 \in 1..m /\ i + 1 # 1
  BY <1>2, <1>7
<1>9. \A i \in 1..(m - 1) : page_list'[i] = page_list[i + 1]
  BY <1>2, <1>8
<1>10. \A o \in 1..k : s[o].addr \in PFrames(p)
  BY <1>3
<1>11. \A n \in 1..Len(handed) : handed[n] \notin PFrames(p)
  BY <1>2, <1>8 DEF Left
<1>12. \A n \in 1..Len(handed) : handed[n] # f
  BY <1>3, <1>5, <1>10, <1>11
<1>13. \A i, j \in 1..(m - 1) : i # j => PFrames(page_list'[i]) \cap PFrames(page_list'[j]) = {}
  <2> SUFFICES ASSUME NEW i \in 1..(m - 1), NEW j \in 1..(m - 1), i # j
               PROVE  PFrames(page_list'[i]) \cap PFrames(page_list'[j]) = {}
    OBVIOUS
  <2>1. i + 1 \in 1..m /\ j + 1 \in 1..m /\ i + 1 # j + 1
    BY <1>8
  <2>2. PFrames(page_list[i + 1]) \cap PFrames(page_list[j + 1]) = {}
    BY <2>1 DEF Left
  <2> QED BY <1>9, <2>2
<1>14. \A i, j \in 1..Len(pt_pages') : i # j => pt_pages'[i].addr # pt_pages'[j].addr
  <2> SUFFICES ASSUME NEW i \in 1..(k - 1), NEW j \in 1..(k - 1), i # j
               PROVE  pt_pages'[i].addr # pt_pages'[j].addr
    BY <1>5
  <2>1. s[i].addr = p.addr + i - 1 /\ s[j].addr = p.addr + j - 1
    BY <1>3
  <2> QED BY <1>4, <1>5, <2>1
<1>15. \A i \in 1..(m - 1) : PFrames(p) \cap PFrames(page_list'[i]) = {}
  BY <1>2, <1>8, <1>9 DEF Left
<1>16. \A j \in 1..Len(pt_pages') : pt_pages'[j].addr \in PFrames(p)
  <2>1. \A j \in 1..(k - 1) : j \in 1..k
    BY <1>3
  <2> QED BY <1>5, <1>10, <2>1
<1>17. \A i \in 1..(m - 1) : \A j \in 1..Len(pt_pages') :
          pt_pages'[j].addr \notin PFrames(page_list'[i])
  BY <1>15, <1>16
<1>18. f \in PFrames(p) /\ \A j \in 1..Len(pt_pages') : f # pt_pages'[j].addr
  <2>1. f \in PFrames(p) /\ f = p.addr + k - 1
    BY <1>3, <1>5, <1>10
  <2>2. ASSUME NEW j \in 1..(k - 1) PROVE f # pt_pages'[j].addr
    <3>1. pt_pages'[j] = s[j] /\ j \in 1..k
      BY <1>3, <1>5
    <3>2. s[j].addr = p.addr + j - 1
      BY <1>3, <3>1
    <3>3. p.addr + j - 1 # p.addr + k - 1
      BY <1>3, <1>4
    <3> QED BY <2>1, <3>1, <3>2, <3>3
  <2> QED BY <1>5, <2>1, <2>2
<1>19. ASSUME NEW n \in 1..Len(handed')
       PROVE  /\ \A i \in 1..(m - 1) : handed'[n] \notin PFrames(page_list'[i])
              /\ \A j \in 1..Len(pt_pages') : handed'[n] # pt_pages'[j].addr
  <2>1. CASE n \in 1..Len(handed)
    <3>1. handed'[n] = handed[n] /\ handed[n] \notin PFrames(p)
      BY <1>6, <1>11, <2>1
    <3>2. \A i \in 1..m : handed[n] \notin PFrames(page_list[i])
      BY <2>1 DEF Left
    <3>3. \A i \in 1..(m - 1) : handed[n] \notin PFrames(page_list'[i])
      BY <1>8, <1>9, <3>2
    <3> QED BY <1>16, <3>1, <3>3
  <2>2. CASE n = Len(handed) + 1
    BY <1>6, <1>15, <1>18, <2>2
  <2> QED BY <1>6, <2>1, <2>2
<1>20. ASSUME m - 1 < Len(page_list'), NEW g \in Frame
       PROVE  \/ \E i \in 1..(m - 1) : g \in PFrames(page_list'[i])
              \/ \E j \in 1..Len(pt_pages') : g = pt_pages'[j].addr
              \/ \E n \in 1..Len(handed') : g = handed'[n]
  <2>1. m < L
    BY <1>2, <1>8, <1>20
  <2>2. \/ \E i \in 1..m : g \in PFrames(page_list[i])
        \/ \E n \in 1..Len(handed) : g = handed[n]
    BY <2>1 DEF Left
  <2>3. Len(handed) + 1 \in 1..Len(handed') /\ \A n \in 1..Len(handed) : n \in 1..Len(handed')
    BY <1>6
  <2>4. ASSUME NEW i \in 1..m, g \in PFrames(page_list[i])
        PROVE  \/ \E o \in 1..(m - 1) : g \in PFrames(page_list'[o])
               \/ \E j \in 1..Len(pt_pages') : g = pt_pages'[j].addr
               \/ \E n \in 1..Len(handed') : g = handed'[n]
    <3>1. CASE i # 1
      <4>1. i - 1 \in 1..(m - 1) /\ i - 1 + 1 = i
        BY <1>8, <3>1
      <4>2. page_list'[i - 1] = page_list[i]
        BY <1>9, <4>1
      <4> QED BY <2>4, <4>1, <4>2
    <3>2. CASE i = 1
      <4>1. PICK o \in 1..k : g = s[o].addr
        BY <1>2, <1>3, <2>4, <3>2
      <4>2. CASE o = k
        BY <1>5, <1>6, <2>3, <4>1, <4>2
      <4>3. CASE o \in 1..(k - 1)
        BY <1>5, <4>1, <4>3
      <4> QED BY <1>3, <4>2, <4>3
    <3> QED BY <3>1, <3>2
  <2> QED BY <1>6, <2>2, <2>3, <2>4
<1>21. m - 1 \in 0..Len(page_list')
  BY <1>2, <1>8
<1>22. Left(m - 1)'
  BY <1>13, <1>14, <1>17, <1>19, <1>20, <1>21 DEF Left
<1> QED BY <1>2, <1>5, <1>12, <1>21, <1>22

----------------------------------------------------------------------------
LEMMA PopTypes ==
    ASSUME FramesInv, NEW f, Alloc(f)
    PROVE  page_list' \in Seq(FramePages) /\ pt_pages' \in Seq(FramePages)
<1>1. CASE pt_pages # <<>>
  <2>1. Front(pt_pages) \in Seq(FramePages)
    BY <1>1, FrontFacts DEF FramesInv
  <2> QED BY <1>1, <2>1 DEF Alloc, Pop, FramesInv
<1>2. CASE pt_pages = <<>>
  <2> DEFINE s == split_to_size(Head(page_list), 0)
  <2>1. pt_pages' = Front(s) /\ page_list' = Tail(page_list) /\ page_list # <<>>
    BY <1>2 DEF Alloc, Pop
  <2>2. Head(page_list) \in FramePages /\ Tail(page_list) \in Seq(FramePages)
    BY <2>1 DEF FramesInv
  <2>3. s \in Seq(FramePages) /\ s # <<>>
    BY <2>2, PageFrames
  <2> HIDE DEF s
  <2> QED BY <2>1, <2>2, <2>3, FrontFacts
<1> QED BY <1>1, <1>2

LEMMA AllocFacts ==
    ASSUME FramesInv, phase # "shuffling", phase' # "shuffling", UNCHANGED <<size, round>>,
           NEW f \in Frame, Alloc(f)
    PROVE  /\ FramesInv'
           /\ Len(handed) \in Nat /\ Len(handed') = Len(handed) + 1
           /\ \A n \in 1..Len(handed) : handed'[n] = handed[n]
           /\ handed'[Len(handed')] = f
           /\ Len(handed') <= size => \A n \in 1..Len(handed) : handed[n] # f
<1>1. handed' = Append(handed, f)
  BY DEF Alloc, Pop
<1>2. /\ Len(handed) \in Nat /\ Len(handed') = Len(handed) + 1 /\ handed' \in Seq(Frame)
      /\ handed'[Len(handed')] = f
      /\ \A n \in 1..Len(handed) : handed'[n] = handed[n]
  BY <1>1 DEF FramesInv
<1>3. page_list' \in Seq(FramePages) /\ pt_pages' \in Seq(FramePages)
  BY PopTypes
<1>4. size \in Nat
  BY PageSizeAssumption DEF FramesInv
<1>5. ASSUME Len(handed') <= size
      PROVE  /\ \E m \in 0..Len(page_list') : Left(m)'
             /\ \A n \in 1..Len(handed) : handed[n] # f
  <2>1. Len(handed) < size
    BY <1>2, <1>4, <1>5
  <2>2. PICK m \in 0..Len(page_list) : Left(m)
    BY <1>2, <1>4, <2>1 DEF FramesInv
  <2>3. CASE pt_pages = <<>>
    BY <2>1, <2>2, <2>3, FromList
  <2>4. CASE pt_pages # <<>>
    BY <2>2, <2>4, FromPages
  <2> QED BY <2>3, <2>4
<1> QED BY <1>2, <1>3, <1>5 DEF FramesInv

(* split_down and the shuffle of its parts. *)
LEMMA SplitFacts ==
    ASSUME NEW p \in FramePages, p.size \in {1, 2},
           NEW list \in SetToSeqs(ToSet(split_down(p)))
    PROVE  /\ list \in Seq(FramePages)
           /\ \A i, j \in 1..Len(list) : i # j => PFrames(list[i]) \cap PFrames(list[j]) = {}
           /\ PFrames(p) = UNION { PFrames(list[i]) : i \in 1..Len(list) }
<1> DEFINE t == to_size(p.size)
           w == to_size(p.size - 1)
           q == t \div w
           d == split_down(p)
           S == ToSet(d)
<1>1. p.size \in 0..2 /\ p.size - 1 \in 0..2 /\ p.addr \in Nat
  BY DEF FramePages
<1>2. t \in Nat \ {0} /\ w \in Nat \ {0} /\ t % w = 0
  <2>1. t \in Nat \ {0} /\ w \in Nat \ {0}
    BY <1>1, SizeFacts
  <2>2. CASE p.size = 1
    <3>1. t = S2m /\ w = 1
      BY <2>2, SizeFacts
    <3> QED BY <3>1, LayoutAssumption
  <2>3. CASE p.size = 2
    <3>1. t = S1g /\ w = S2m
      BY <2>3, SizeFacts
    <3> QED BY <2>1, <3>1, LayoutAssumption
  <2> QED BY <2>1, <2>2, <2>3
<1>3. d = [o \in 1..q |-> [addr |-> p.addr + w * (o - 1), size |-> p.size - 1]]
  BY DEF split_down, split_to_size
<1>4. PFrames(p) = p.addr..(p.addr + t - 1)
  BY DEF PFrames
<1> HIDE DEF t
<1>5. \A x : x.size = p.size - 1 => PFrames(x) = x.addr..(x.addr + w - 1)
  BY DEF PFrames
<1> HIDE DEF w
<1>6. q \in Nat /\ t = w * q
  BY <1>2
<1> HIDE DEF q, d
<1> DEFINE a(o) == p.addr + w * (o - 1)
<1>7. ASSUME NEW o \in 1..q
      PROVE  /\ d[o] \in FramePages /\ d[o].addr = a(o)
             /\ PFrames(d[o]) = a(o)..(a(o) + w - 1) /\ a(o) \in Nat
  <2>1. o - 1 \in Nat
    BY <1>6
  <2>2. w * (o - 1) \in Nat
    BY <1>2, <2>1
  <2>3. a(o) \in Nat
    BY <1>1, <2>2
  <2>4. d[o] = [addr |-> a(o), size |-> p.size - 1]
    BY <1>3
  <2> HIDE DEF a
  <2>5. d[o] \in FramePages /\ d[o].addr = a(o) /\ d[o].size = p.size - 1
    BY <1>1, <2>3, <2>4 DEF FramePages
  <2> QED BY <1>5, <2>3, <2>5
<1>8. ASSUME NEW o \in 1..q, NEW u \in 1..q, o < u
      PROVE  PFrames(d[o]) \cap PFrames(d[u]) = {} /\ d[o] # d[u]
  <2>1. u - o >= 1 /\ w * (u - o) >= w
    <3>1. u - o \in Nat \ {0}
      BY <1>6, <1>8
    <3> DEFINE z == u - o
    <3> HIDE DEF z
    <3>2. z \in Nat \ {0}
      BY <3>1 DEF z
    <3>3. w * z >= w
      BY <1>2, <3>2
    <3> QED BY <3>1, <3>3 DEF z
  <2>2. a(u) = a(o) + w * (u - o)
    BY <1>1, <1>2, <1>6
  <2> HIDE DEF a
  <2>3. a(o) + w <= a(u)
    <3> DEFINE z == w * (u - o)
    <3>1. z \in Int
      BY <1>2, <1>6
    <3>2. z >= w /\ a(u) = a(o) + z
      BY <2>1, <2>2
    <3> HIDE DEF z
    <3> QED BY <1>2, <1>7, <3>1, <3>2
  <2> QED BY <1>2, <1>7, <2>3
<1>9. \A o, u \in 1..q : o # u => PFrames(d[o]) \cap PFrames(d[u]) = {} /\ d[o] # d[u]
  <2> SUFFICES ASSUME NEW o \in 1..q, NEW u \in 1..q, o # u
               PROVE  PFrames(d[o]) \cap PFrames(d[u]) = {} /\ d[o] # d[u]
    OBVIOUS
  <2>1. o < u \/ u < o
    BY <1>6
  <2> QED BY <1>8, <2>1
<1>10. ASSUME NEW f \in PFrames(p) PROVE \E o \in 1..q : f \in PFrames(d[o])
  <2> DEFINE x == f - p.addr
             o == x \div w
  <2>1. x \in 0..(t - 1)
    BY <1>1, <1>2, <1>4, <1>10
  <2> HIDE DEF x
  <2>2. o \in Nat /\ x = w * o + (x % w) /\ x % w \in 0..(w - 1)
    BY <1>2, <2>1
  <2> DEFINE r == x % w
  <2> HIDE DEF r, o
  <2>3. x = w * o + r /\ r \in 0..(w - 1)
    BY <2>2 DEF r
  <2>4. o < q
    <3> SUFFICES ASSUME o >= q PROVE FALSE
      BY <1>6, <2>2
    <3>1. w * o >= w * q
      BY <1>2, <1>6, <2>2
    <3>2. w * o \in Nat
      BY <1>2, <2>2
    <3> QED BY <1>6, <2>1, <2>3, <3>1, <3>2
  <2>5. o + 1 \in 1..q /\ a(o + 1) = p.addr + w * o
    BY <1>1, <1>2, <1>6, <2>2, <2>4
  <2>6. w * o \in Nat
    BY <1>2, <2>2
  <2>7. f = a(o + 1) + r
    BY <1>1, <1>4, <2>3, <2>5, <2>6 DEF x
  <2> HIDE DEF a
  <2> QED BY <1>2, <1>7, <2>3, <2>5, <2>7
<1>11. ASSUME NEW o \in 1..q PROVE PFrames(d[o]) \subseteq PFrames(p)
  <2>1. o - 1 \in Nat /\ w * (o - 1) \in Nat
    <3>1. o - 1 \in Nat
      BY <1>6
    <3> QED BY <1>2, <3>1
  <2>2. w * o <= t
    BY <1>2, <1>6
  <2>3. a(o) + w = p.addr + w * o /\ a(o) >= p.addr
    BY <1>1, <1>2, <1>6, <2>1
  <2>4. w * o \in Nat
    BY <1>2, <1>6
  <2> HIDE DEF a
  <2>5. a(o) \in Nat /\ PFrames(d[o]) = a(o)..(a(o) + w - 1)
    BY <1>7
  <2> QED BY <1>1, <1>2, <1>4, <2>2, <2>3, <2>4, <2>5
<1>12. S = { d[o] : o \in 1..q }
  BY <1>3 DEF ToSet
<1>13. d \in Injection(1..q, S) /\ d \in Surjection(1..q, S)
  <2>1. d \in [1..q -> S] /\ DOMAIN d = 1..q
    BY <1>3, <1>12
  <2>2. \A o, u \in 1..q : d[o] = d[u] => o = u
    BY <1>9
  <2> QED BY <1>12, <2>1, <2>2 DEF Injection, Surjection, IsInjective
<1>14. IsFiniteSet(S) /\ Cardinality(S) = q /\ IsFiniteSet(1..q) /\ Cardinality(1..q) = q
  <2>1. IsFiniteSet(1..q) /\ Cardinality(1..q) = q
    BY <1>6, FS_Interval
  <2> HIDE DEF S
  <2> QED BY <1>13, <2>1, FS_Surjection
<1>15. list \in [1..q -> S] /\ \A i, j \in 1..q : i # j => list[i] # list[j]
  BY <1>14 DEF SetToSeqs, d
<1> HIDE DEF S
<1>16. \A i \in 1..q : list[i] \in S /\ list[i] \in FramePages
  BY <1>7, <1>12, <1>15
<1>17. list \in Seq(FramePages) /\ Len(list) = q
  <2>1. list \in [1..q -> FramePages]
    BY <1>15, <1>16
  <2> QED BY <1>6, <2>1
<1>18. \A i, j \in 1..q : i # j => PFrames(list[i]) \cap PFrames(list[j]) = {}
  <2> SUFFICES ASSUME NEW i \in 1..q, NEW j \in 1..q, i # j
               PROVE  PFrames(list[i]) \cap PFrames(list[j]) = {}
    OBVIOUS
  <2>1. PICK o \in 1..q, u \in 1..q : list[i] = d[o] /\ list[j] = d[u]
    BY <1>12, <1>16
  <2>2. o # u
    BY <1>15, <2>1
  <2> QED BY <1>9, <2>1, <2>2
<1>19. \A y \in S : \E i \in 1..q : list[i] = y
  <2>1. list \in Injection(1..q, S)
    BY <1>15 DEF Injection, IsInjective
  <2>2. list \in Surjection(1..q, S)
    BY <1>14, <2>1, FS_Injection
  <2> QED BY <2>2 DEF Surjection
<1>20. PFrames(p) = UNION { PFrames(list[i]) : i \in 1..q }
  <2>1. ASSUME NEW f \in PFrames(p) PROVE \E i \in 1..q : f \in PFrames(list[i])
    <3>1. PICK o \in 1..q : f \in PFrames(d[o])
      BY <1>10
    <3>2. d[o] \in S
      BY <1>12
    <3> QED BY <1>19, <3>1, <3>2
  <2>2. ASSUME NEW i \in 1..q PROVE PFrames(list[i]) \subseteq PFrames(p)
    BY <1>11, <1>12, <1>16
  <2> QED BY <2>1, <2>2
<1> QED BY <1>17, <1>18, <1>20

----------------------------------------------------------------------------
(* The size of the page that is cut at i from a buffer of n frames. *)
Fit(n, i) == LET fits == { s \in 0..2 : to_size(s) <= n - i } IN
             CHOOSE t \in fits : \A u \in fits : u <= t

LEMMA FitFacts ==
    ASSUME NEW n \in Nat, NEW i \in 0..(n - 1)
    PROVE  /\ Fit(n, i) \in 0..2 /\ to_size(Fit(n, i)) \in Nat \ {0}
           /\ i + to_size(Fit(n, i)) \in (i + 1)..n
<1> DEFINE fits == { s \in 0..2 : to_size(s) <= n - i }
<1>1. 0 \in fits
  BY SizeFacts
<1>2. \E t \in fits : \A u \in fits : u <= t
  <2>1. CASE 2 \in fits
    <3>1. \A u \in fits : u <= 2
      OBVIOUS
    <3> QED BY <2>1, <3>1
  <2>2. CASE 2 \notin fits /\ 1 \in fits
    <3>1. \A u \in fits : u <= 1
      BY <2>2
    <3> QED BY <2>2, <3>1
  <2>3. CASE 2 \notin fits /\ 1 \notin fits
    <3>1. \A u \in fits : u <= 0
      BY <2>3
    <3> QED BY <1>1, <3>1
  <2> QED BY <2>1, <2>2, <2>3
<1>3. Fit(n, i) \in fits
  BY <1>2 DEF Fit
<1>4. Fit(n, i) \in 0..2 /\ to_size(Fit(n, i)) <= n - i
  BY <1>3
<1>5. to_size(Fit(n, i)) \in Nat \ {0}
  BY <1>4, SizeFacts
<1> QED BY <1>4, <1>5

(* The cut is one page and what is cut behind it. *)
LEMMA PrelistUnfolds ==
    ASSUME NEW n \in Nat
    PROVE  \E g : /\ prelist(n) = g[0] /\ g[n] = {}
                  /\ \A i \in 0..(n - 1) :
                        g[i] = {[addr |-> i, size |-> Fit(n, i)]} \cup g[i + to_size(Fit(n, i))]
<1> DEFINE Page1(i) == {[addr |-> i, size |-> Fit(n, i)]}
           Next1(i) == i + to_size(Fit(n, i))
           Body(g, i) == IF i = n THEN {} ELSE Page1(i) \cup g[Next1(i)]
           Good(m) == \E g : \A i \in (n - m)..n : g[i] = Body(g, i)
           Bad == {m \in 0..n : ~Good(m)}
<1>1. Good(0)
  <2> DEFINE g == [i \in n..n |-> {}]
  <2>1. \A i \in (n - 0)..n : g[i] = Body(g, i)
    OBVIOUS
  <2> HIDE DEF g
  <2> QED BY <2>1
<1>2. ASSUME NEW m \in Nat, m < n, Good(m) PROVE Good(m + 1)
  <2>1. PICK g : \A i \in (n - m)..n : g[i] = Body(g, i)
    BY <1>2
  <2> DEFINE j == n - m - 1
             x == Page1(j) \cup g[Next1(j)]
             h == [i \in j..n |-> IF i = j THEN x ELSE g[i]]
  <2>2. j \in 0..(n - 1) /\ n - (m + 1) = j /\ \A i \in j..n : i = j \/ i \in (n - m)..n
    BY <1>2
  <2>3. \A i \in j..(n - 1) : Next1(i) \in (i + 1)..n /\ Next1(i) \in j..n /\ Next1(i) # j
    <3> SUFFICES ASSUME NEW i \in j..(n - 1)
                 PROVE  Next1(i) \in (i + 1)..n /\ Next1(i) \in j..n /\ Next1(i) # j
      OBVIOUS
    <3>1. i \in 0..(n - 1)
      BY <2>2
    <3>2. Next1(i) \in (i + 1)..n
      BY <3>1, FitFacts
    <3> HIDE DEF Next1
    <3> QED BY <2>2, <3>2
  <2> HIDE DEF Next1, Page1
  <2>4. ASSUME NEW i \in j..n PROVE h[i] = Body(h, i)
    <3>1. CASE i = n
      <4>1. h[i] = g[i] /\ i \in (n - m)..n
        BY <1>2, <2>2, <3>1
      <4> QED BY <2>1, <3>1, <4>1
    <3>2. CASE i # n
      <4>1. i \in j..(n - 1) /\ i # n
        BY <2>2, <3>2
      <4>2. h[Next1(i)] = g[Next1(i)]
        BY <2>3, <4>1
      <4>3. h[i] = Page1(i) \cup g[Next1(i)]
        <5>1. CASE i = j
          BY <2>2, <5>1
        <5>2. CASE i # j
          <6>1. i \in (n - m)..n /\ h[i] = g[i]
            BY <2>2, <5>2
          <6> QED BY <2>1, <4>1, <6>1
        <5> QED BY <5>1, <5>2
      <4> HIDE DEF h
      <4> QED BY <4>1, <4>2, <4>3
    <3> QED BY <3>1, <3>2
  <2> HIDE DEF h
  <2> QED BY <2>2, <2>4
<1>3. Good(n)
  <2> SUFFICES ASSUME ~Good(n) PROVE FALSE
    OBVIOUS
  <2> HIDE DEF Good
  <2>1. n \in Bad /\ Bad \in SUBSET Nat
    OBVIOUS
  <2>2. PICK b \in Bad : \A y \in Bad : b <= y
    BY <2>1, LeastOf
  <2>3. b \in 0..n /\ b # 0 /\ ~Good(b)
    BY <1>1, <2>2
  <2>4. b - 1 \in Nat /\ b - 1 < n /\ b - 1 \in 0..n /\ ~(b <= b - 1) /\ b - 1 + 1 = b
    BY <2>3
  <2>5. Good(b - 1)
    BY <2>2, <2>4
  <2> QED BY <1>2, <2>3, <2>4, <2>5
<1> DEFINE from == CHOOSE g : g = [i \in 0..n |-> Body(g, i)]
<1>4. prelist(n) = from[0]
  BY DEF prelist, Fit
<1>5. PICK g : \A i \in 0..n : g[i] = Body(g, i)
  <2>1. PICK g : \A i \in (n - n)..n : g[i] = Body(g, i)
    BY <1>3
  <2>2. n - n = 0
    OBVIOUS
  <2> HIDE DEF Body
  <2> QED BY <2>1, <2>2
<1> DEFINE f == [i \in 0..n |-> g[i]]
<1>6. f = [i \in 0..n |-> Body(f, i)]
  <2>1. ASSUME NEW i \in 0..n PROVE f[i] = Body(f, i)
    <3>1. CASE i = n
      <4>1. g[i] = {} /\ f[i] = g[i]
        BY <1>5, <3>1
      <4> HIDE DEF f
      <4> QED BY <3>1, <4>1
    <3>2. CASE i # n
      <4>1. i \in 0..(n - 1)
        BY <3>2
      <4>2. Next1(i) \in 0..n
        BY <4>1, FitFacts
      <4> HIDE DEF Next1, Page1
      <4>3. f[Next1(i)] = g[Next1(i)] /\ f[i] = g[i]
        BY <4>2
      <4>4. g[i] = Page1(i) \cup g[Next1(i)]
        BY <1>5, <3>2
      <4> HIDE DEF f
      <4> QED BY <3>2, <4>3, <4>4
    <3> QED BY <3>1, <3>2
  <2> HIDE DEF Next1, Page1
  <2>2. f = [i \in 0..n |-> f[i]]
    OBVIOUS
  <2> HIDE DEF f
  <2> QED BY <2>1, <2>2
<1>7. from = [i \in 0..n |-> Body(from, i)]
  <2> HIDE DEF Next1, Page1, f
  <2> QED BY <1>6
<1> HIDE DEF from
<1>8. \A i \in 0..n : from[i] = Body(from, i)
  <2> HIDE DEF Next1, Page1
  <2> QED BY <1>7
<1>9. n \in 0..n /\ \A i \in 0..(n - 1) : i \in 0..n /\ i # n
  OBVIOUS
<1>10. from[n] = {} /\ \A i \in 0..(n - 1) : from[i] = Page1(i) \cup from[Next1(i)]
  BY <1>8, <1>9
<1> QED BY <1>4, <1>10

(* The pages of the cut are a partition of the buffer. *)
LEMMA PrelistFacts ==
    ASSUME NEW n \in Nat
    PROVE  /\ prelist(n) \subseteq FramePages
           /\ \A p, q \in prelist(n) : p # q => PFrames(p) \cap PFrames(q) = {}
           /\ \A f \in 0..(n - 1) : \E p \in prelist(n) : f \in PFrames(p)
<1>1. PICK g : /\ prelist(n) = g[0] /\ g[n] = {}
               /\ \A i \in 0..(n - 1) :
                     g[i] = {[addr |-> i, size |-> Fit(n, i)]} \cup g[i + to_size(Fit(n, i))]
  BY PrelistUnfolds
<1> DEFINE Good(i) == /\ g[i] \subseteq FramePages
                      /\ \A p \in g[i] : \A x \in PFrames(p) : i <= x
                      /\ \A p, q \in g[i] : p # q => PFrames(p) \cap PFrames(q) = {}
                      /\ \A f \in i..(n - 1) : \E p \in g[i] : f \in PFrames(p)
           Bad == {m \in 0..n : ~Good(n - m)}
<1>2. Good(n)
  <2>1. n..(n - 1) = {}
    OBVIOUS
  <2> QED BY <1>1, <2>1
<1>3. ASSUME NEW i \in 0..(n - 1), \A j \in (i + 1)..n : Good(j) PROVE Good(i)
  <2> DEFINE s == Fit(n, i)
             w == to_size(s)
             p == [addr |-> i, size |-> s]
             j == i + w
  <2>1. s \in 0..2 /\ w \in Nat \ {0} /\ j \in (i + 1)..n
    BY FitFacts
  <2>2. g[i] = {p} \cup g[j]
    BY <1>1
  <2>3. p \in FramePages /\ PFrames(p) = i..(j - 1)
    <3>1. p.addr = i /\ p.size = s
      OBVIOUS
    <3>2. PFrames(p) = i..(i + w - 1)
      BY <3>1 DEF PFrames
    <3> QED BY <2>1, <3>2 DEF FramePages
  <2> HIDE DEF s, w, j
  <2> HIDE DEF p
  <2>4. Good(j)
    BY <1>3, <2>1
  <2>5. g[i] \subseteq FramePages
    BY <2>2, <2>3, <2>4
  <2>6. \A q \in g[j] : \A x \in PFrames(q) : j <= x /\ x \in Int
    <3>1. \A q \in g[j] : \A x \in PFrames(q) : j <= x
      BY <2>4
    <3>2. \A q \in g[j] : \A x \in PFrames(q) : x \in Int
      BY DEF PFrames
    <3> QED BY <3>1, <3>2
  <2>7. \A q \in g[i] : \A x \in PFrames(q) : i <= x
    BY <2>1, <2>2, <2>3, <2>6
  <2>8. \A q \in g[j] : PFrames(p) \cap PFrames(q) = {}
    BY <2>1, <2>3, <2>6
  <2>9. \A q, r \in g[i] : q # r => PFrames(q) \cap PFrames(r) = {}
    BY <2>2, <2>4, <2>8
  <2>10. ASSUME NEW f \in i..(n - 1) PROVE \E q \in g[i] : f \in PFrames(q)
    <3>1. CASE f \in i..(j - 1)
      BY <2>2, <2>3, <3>1
    <3>2. CASE f \in j..(n - 1)
      BY <2>2, <2>4, <3>2
    <3> QED BY <2>1, <3>1, <3>2
  <2> QED BY <2>5, <2>7, <2>9, <2>10
<1>4. Bad = {}
  <2> HIDE DEF Good
  <2> SUFFICES ASSUME Bad # {} PROVE FALSE
    OBVIOUS
  <2>1. PICK b \in Bad : \A y \in Bad : b <= y
    <3>1. Bad \in SUBSET Nat
      OBVIOUS
    <3> QED BY <3>1, LeastOf
  <2>2. b \in 0..n /\ ~Good(n - b) /\ n - 0 = n
    BY <2>1
  <2>3. b # 0
    BY <1>2, <2>2
  <2>4. n - b \in 0..(n - 1)
    BY <2>2, <2>3
  <2>5. ASSUME NEW j \in (n - b + 1)..n PROVE Good(j)
    <3>1. n - j \in 0..n /\ ~(b <= n - j) /\ n - (n - j) = j
      BY <2>2, <2>5
    <3> QED BY <2>1, <3>1
  <2> QED BY <1>3, <2>2, <2>4, <2>5
<1>5. Good(0)
  <2> HIDE DEF Good
  <2>1. n \in 0..n /\ n - n = 0
    OBVIOUS
  <2> QED BY <1>4, <2>1
<1> QED BY <1>1, <1>5

----------------------------------------------------------------------------
(* The two rounds of the shuffle *)

(* The list grows by the parts of a page, or by the page itself. *)
LEMMA ShuffledPage ==
    ASSUME FramesInv, Shuffle
    PROVE  \E p \in page_prelist, G \in Seq(FramePages) :
              /\ page_prelist' = page_prelist \ {p} /\ page_list' = page_list \o G
              /\ \A i, j \in 1..Len(G) : i # j => PFrames(G[i]) \cap PFrames(G[j]) = {}
              /\ PFrames(p) = UNION { PFrames(G[i]) : i \in 1..Len(G) }
              /\ DOMAIN split' = 0..2 /\ split'[0] = 2
<1>1. phase = "shuffling"
  BY DEF Shuffle
<1>2. /\ page_prelist \subseteq FramePages /\ page_list \in Seq(FramePages)
      /\ DOMAIN split = 0..2 /\ split[0] = 2
  BY <1>1 DEF FramesInv
<1>3. PICK p \in page_prelist :
        /\ page_prelist' = page_prelist \ {p}
        /\ \/ /\ split[p.size] # 2
              /\ split' = [split EXCEPT ![p.size] = 1]
              /\ \E list \in SetToSeqs(ToSet(split_down(p))) :
                    page_list' = page_list \o list
           \/ /\ split[p.size] # 0
              /\ split' = split
              /\ page_list' = Append(page_list, p)
  BY DEF Shuffle
<1>4. p \in FramePages /\ p.size \in 0..2
  BY <1>2 DEF FramePages
<1> DEFINE Grows(G) ==
      /\ G \in Seq(FramePages) /\ page_list' = page_list \o G
      /\ \A i, j \in 1..Len(G) : i # j => PFrames(G[i]) \cap PFrames(G[j]) = {}
      /\ PFrames(p) = UNION { PFrames(G[i]) : i \in 1..Len(G) }
      /\ DOMAIN split' = 0..2 /\ split'[0] = 2
<1>5. ASSUME split[p.size] # 2, split' = [split EXCEPT ![p.size] = 1],
             NEW G \in SetToSeqs(ToSet(split_down(p))), page_list' = page_list \o G
      PROVE  Grows(G)
  <2>1. p.size \in {1, 2}
    BY <1>2, <1>4, <1>5
  <2>2. DOMAIN split' = 0..2 /\ split'[0] = 2
    BY <1>2, <1>5, <2>1
  <2> QED BY <1>4, <1>5, <2>1, <2>2, SplitFacts
<1>6. ASSUME split' = split, page_list' = Append(page_list, p)
      PROVE  Grows(<<p>>)
  <2> DEFINE G == <<p>>
  <2>1. G \in Seq(FramePages) /\ Len(G) = 1 /\ G[1] = p
    BY <1>4
  <2>2. page_list' = page_list \o G
    BY <1>2, <1>4, <1>6
  <2> HIDE DEF G
  <2>3. \A i, j \in 1..Len(G) : i = j
    BY <2>1
  <2>4. 1..Len(G) = {1}
    BY <2>1
  <2>5. PFrames(p) = UNION { PFrames(G[i]) : i \in 1..Len(G) }
    BY <2>1, <2>4
  <2>6. Grows(G)
    BY <1>2, <1>6, <2>1, <2>2, <2>3, <2>5
  <2> QED BY <2>6 DEF G
<1>7. \E G : Grows(G)
  <2> HIDE DEF Grows
  <2> QED BY <1>3, <1>5, <1>6
<1> QED BY <1>3, <1>7

LEMMA Joins ==
    ASSUME NEW L \in Seq(FramePages), NEW G \in Seq(FramePages)
    PROVE  /\ L \o G \in Seq(FramePages) /\ Len(L \o G) = Len(L) + Len(G)
           /\ Len(L) \in Nat /\ Len(G) \in Nat
           /\ \A i \in 1..Len(L) : (L \o G)[i] = L[i]
           /\ \A i \in 1..Len(G) : (L \o G)[Len(L) + i] = G[i]
           /\ \A i \in 1..Len(L \o G) : \/ i \in 1..Len(L)
                                        \/ \E j \in 1..Len(G) : i = Len(L) + j
<1>1. /\ L \o G \in Seq(FramePages) /\ Len(L \o G) = Len(L) + Len(G)
      /\ Len(L) \in Nat /\ Len(G) \in Nat
      /\ \A i \in 1..Len(L) : (L \o G)[i] = L[i]
      /\ \A i \in 1..Len(G) : (L \o G)[Len(L) + i] = G[i]
  OBVIOUS
<1>2. ASSUME NEW i \in 1..Len(L \o G), i \notin 1..Len(L) PROVE \E j \in 1..Len(G) : i = Len(L) + j
  <2>1. i - Len(L) \in 1..Len(G) /\ i = Len(L) + (i - Len(L))
    BY <1>1, <1>2
  <2> QED BY <2>1
<1> QED BY <1>1, <1>2

LEMMA FirstRoundStep ==
    ASSUME FramesInv, Shuffle, round = 0
    PROVE  FirstRound'
<1>1. PICK p \in page_prelist, G \in Seq(FramePages) :
              /\ page_prelist' = page_prelist \ {p} /\ page_list' = page_list \o G
              /\ \A i, j \in 1..Len(G) : i # j => PFrames(G[i]) \cap PFrames(G[j]) = {}
              /\ PFrames(p) = UNION { PFrames(G[i]) : i \in 1..Len(G) }
  BY ShuffledPage
<1>2. FirstRound /\ page_list \in Seq(FramePages)
  BY DEF FramesInv, Shuffle
<1> DEFINE k == Len(page_list)
<1>3. /\ Len(page_list') = k + Len(G) /\ k \in Nat /\ Len(G) \in Nat
      /\ \A i \in 1..k : page_list'[i] = page_list[i]
      /\ \A i \in 1..Len(G) : page_list'[k + i] = G[i]
      /\ \A i \in 1..Len(page_list') : i \in 1..k \/ \E j \in 1..Len(G) : i = k + j
  BY <1>1, <1>2, Joins
<1> HIDE DEF k
<1>4. \A i \in 1..Len(G) : PFrames(G[i]) \subseteq PFrames(p)
  BY <1>1
<1>5. \A i, j \in 1..k : i # j => PFrames(page_list[i]) \cap PFrames(page_list[j]) = {}
  BY <1>2 DEF FirstRound, k
<1>6. \A i \in 1..k : PFrames(p) \cap PFrames(page_list[i]) = {}
  BY <1>2 DEF FirstRound, k
<1>7. \A i, j \in 1..Len(page_list') :
          i # j => PFrames(page_list'[i]) \cap PFrames(page_list'[j]) = {}
  <2> SUFFICES ASSUME NEW i \in 1..Len(page_list'), NEW j \in 1..Len(page_list'), i # j
               PROVE  PFrames(page_list'[i]) \cap PFrames(page_list'[j]) = {}
    OBVIOUS
  <2>1. CASE i \in 1..k /\ j \in 1..k
    BY <1>3, <1>5, <2>1
  <2>2. ASSUME NEW u \in 1..k, NEW w \in 1..Len(G)
        PROVE  PFrames(page_list'[u]) \cap PFrames(page_list'[k + w]) = {}
    <3>1. page_list'[u] = page_list[u] /\ page_list'[k + w] = G[w]
      BY <1>3
    <3> QED BY <1>4, <1>6, <3>1
  <2>3. ASSUME NEW u \in 1..Len(G), NEW w \in 1..Len(G), i = k + u, j = k + w
        PROVE  PFrames(page_list'[i]) \cap PFrames(page_list'[j]) = {}
    <3>1. page_list'[i] = G[u] /\ page_list'[j] = G[w] /\ u # w
      BY <1>3, <2>3
    <3> QED BY <1>1, <3>1
  <2>4. \A u \in 1..Len(page_list') : u \in 1..k \/ \E w \in 1..Len(G) : u = k + w
    BY <1>3
  <2>5. CASE i \in 1..k /\ ~(j \in 1..k)
    <3>1. PICK w \in 1..Len(G) : j = k + w
      BY <2>4, <2>5
    <3> QED BY <2>2, <2>5, <3>1
  <2>6. CASE ~(i \in 1..k) /\ j \in 1..k
    <3>1. PICK w \in 1..Len(G) : i = k + w
      BY <2>4, <2>6
    <3>2. PFrames(page_list'[j]) \cap PFrames(page_list'[i]) = {}
      BY <2>2, <2>6, <3>1
    <3> QED BY <3>2
  <2>7. CASE ~(i \in 1..k) /\ ~(j \in 1..k)
    <3>1. PICK u \in 1..Len(G), w \in 1..Len(G) : i = k + u /\ j = k + w
      BY <2>4, <2>7
    <3> QED BY <2>3, <3>1
  <2> QED BY <2>1, <2>5, <2>6, <2>7
<1>8. \A q, r \in page_prelist' : q # r => PFrames(q) \cap PFrames(r) = {}
  BY <1>1, <1>2 DEF FirstRound
<1>9. ASSUME NEW q \in page_prelist', NEW i \in 1..Len(page_list')
      PROVE  PFrames(q) \cap PFrames(page_list'[i]) = {}
  <2>1. q \in page_prelist /\ q # p /\ PFrames(q) \cap PFrames(p) = {}
    BY <1>1, <1>2 DEF FirstRound
  <2>2. CASE i \in 1..k
    BY <1>2, <1>3, <2>1, <2>2 DEF FirstRound, k
  <2>3. ASSUME NEW j \in 1..Len(G), i = k + j
        PROVE  PFrames(q) \cap PFrames(page_list'[i]) = {}
    <3>1. page_list'[i] = G[j]
      BY <1>3, <2>3
    <3> QED BY <1>4, <2>1, <3>1
  <2> QED BY <1>3, <2>2, <2>3
<1>10. ASSUME NEW f \in Frame
       PROVE  \/ \E q \in page_prelist' : f \in PFrames(q)
              \/ \E i \in 1..Len(page_list') : f \in PFrames(page_list'[i])
  <2>1. \A i \in 1..k : i \in 1..Len(page_list')
    BY <1>3
  <2>2. CASE \E i \in 1..k : f \in PFrames(page_list[i])
    BY <1>3, <2>1, <2>2
  <2>3. CASE f \in PFrames(p)
    <3>1. PICK i \in 1..Len(G) : f \in PFrames(G[i])
      BY <1>1, <2>3
    <3>2. k + i \in 1..Len(page_list') /\ page_list'[k + i] = G[i]
      BY <1>3
    <3> QED BY <3>1, <3>2
  <2>4. CASE \E q \in page_prelist \ {p} : f \in PFrames(q)
    BY <1>1, <2>4
  <2> QED BY <1>2, <2>2, <2>3, <2>4 DEF FirstRound, k
<1> QED BY <1>7, <1>8, <1>9, <1>10 DEF FirstRound

LEMMA ShuffleFrames ==
    ASSUME FramesInv, Shuffle
    PROVE  FramesInv'
<1>1. PICK p \in page_prelist, G \in Seq(FramePages) :
              /\ page_prelist' = page_prelist \ {p} /\ page_list' = page_list \o G
              /\ DOMAIN split' = 0..2 /\ split'[0] = 2
  BY ShuffledPage
<1>2. /\ phase = "shuffling" /\ phase' = phase
      /\ UNCHANGED <<size, round, pt_pages, handed>>
  BY DEF Shuffle
<1>3. page_prelist \subseteq FramePages /\ pt_pages = <<>> /\ handed = <<>> /\ page_list \in Seq(FramePages)
  BY <1>2 DEF FramesInv
<1>4. /\ page_list' \in Seq(FramePages) /\ Len(page_list') >= Len(page_list)
      /\ Len(page_list) \in Nat /\ Len(page_list') \in Nat
      /\ \A i \in 1..Len(page_list) : page_list'[i] = page_list[i]
  BY <1>1, <1>3, Joins
<1>5. CASE round = 0
  BY <1>1, <1>2, <1>3, <1>4, <1>5, FirstRoundStep DEF FramesInv
<1>6. CASE round # 0
  <2>1. Len(handed) = 0 /\ size \in Nat
    BY <1>3, PageSizeAssumption DEF FramesInv
  <2>2. PICK m \in 0..Len(page_list) : Left(m)
    BY <1>6, <2>1 DEF FramesInv
  <2>3. m \in 0..Len(page_list') /\ \A i \in 1..m : i \in 1..Len(page_list)
    BY <1>4
  <2>4. \A i \in 1..m : page_list'[i] = page_list[i]
    BY <1>4, <2>3
  <2>5. Left(m)'
    BY <1>2, <2>2, <2>3, <2>4 DEF Left
  <2>6. \E i \in 0..Len(page_list') : Left(i)'
    BY <2>3, <2>5
  <2>7. page_prelist' \subseteq FramePages
    BY <1>1, <1>3
  <2>8. /\ size' = NFrames /\ page_list' \in Seq(FramePages) /\ pt_pages' = <<>> /\ handed' = <<>>
        /\ pt_pages' \in Seq(FramePages) /\ handed' \in Seq(Frame) /\ round' = 1
    BY <1>2, <1>3, <1>4, <1>6 DEF FramesInv
  <2> QED BY <1>1, <1>2, <2>6, <2>7, <2>8 DEF FramesInv
<1> QED BY <1>5, <1>6

LEMMA NextRoundFrames ==
    ASSUME FramesInv, NextRound
    PROVE  FramesInv'
<1>1. /\ phase = "shuffling" /\ page_prelist = {}
      /\ UNCHANGED <<size, split, page_list, pt_pages, handed>>
  BY DEF NextRound
<1>2. pt_pages = <<>> /\ handed = <<>> /\ page_list \in Seq(FramePages) /\ size = NFrames
  BY <1>1 DEF FramesInv
<1>3. CASE round = 0
  <2>1. round' = 1 /\ page_prelist' = ToSet(page_list) /\ phase' = phase
    BY <1>3 DEF NextRound
  <2>2. page_prelist' \subseteq FramePages
    BY <1>2, <2>1 DEF ToSet
  <2>3. PICK m \in 0..Len(page_list) : m = Len(page_list)
    <3>1. Len(page_list) \in 0..Len(page_list)
      BY <1>2
    <3> QED BY <3>1
  <2>4. FirstRound
    BY <1>1, <1>3 DEF FramesInv
  <2>5. Len(handed) = 0 /\ Len(pt_pages) = 0 /\ 1..0 = {}
    BY <1>2
  <2>6. Left(m)'
    BY <1>1, <2>1, <2>3, <2>4, <2>5 DEF Left, FirstRound
  <2>7. /\ size' = NFrames /\ page_list' \in Seq(FramePages) /\ pt_pages' = <<>> /\ handed' = <<>>
        /\ pt_pages' \in Seq(FramePages) /\ handed' \in Seq(Frame) /\ round' = 1
        /\ DOMAIN split' = 0..2 /\ split'[0] = 2
    BY <1>1, <1>2, <2>1 DEF FramesInv
  <2>8. m \in 0..Len(page_list')
    BY <1>1, <2>3
  <2>9. \E k \in 0..Len(page_list') : Left(k)'
    BY <2>6, <2>8
  <2> QED BY <2>2, <2>7, <2>9 DEF FramesInv
<1>4. CASE round # 0
  <2>1. phase' = "ready" /\ round' = round
    BY <1>4 DEF NextRound
  <2>2. ASSUME NEW m \in 0..Len(page_list), Left(m) PROVE Left(m)'
    BY <1>1, <2>1, <2>2 DEF Left
  <2> QED BY <1>1, <1>2, <1>4, <2>1, <2>2 DEF FramesInv
<1> QED BY <1>3, <1>4

(* Without a page left there is none to hand out twice. *)
LEMMA NoneLeft ==
    ASSUME FramesInv, phase # "shuffling", phase' # "shuffling",
           UNCHANGED <<size, round, handed>>, page_list' = <<>>, pt_pages' = <<>>
    PROVE  FramesInv'
<1>1. handed \in Seq(Frame) /\ Len(page_list') = 0 /\ Len(pt_pages') = 0 /\ 1..0 = {} /\ 0 \in 0..0
  BY DEF FramesInv
<1>2. Left(0)'
  BY <1>1 DEF Left
<1>3. \E m \in 0..Len(page_list') : Left(m)'
  BY <1>1, <1>2
<1> QED BY <1>1, <1>3 DEF FramesInv

LEMMA FramesStart == ASSUME DummyInit PROVE FramesInv
<1>1. /\ size = NFrames /\ NFrames \in Nat /\ page_prelist = prelist(NFrames)
      /\ page_list = <<>> /\ pt_pages = <<>> /\ handed = <<>> /\ phase = "shuffling" /\ round = 0
      /\ split = [s \in 0..2 |-> IF s = 0 THEN 2 ELSE 0]
  BY MemoryAssumption, PageSizeAssumption DEF DummyInit
<1>2. DOMAIN split = 0..2 /\ split[0] = 2
  BY <1>1
<1>3. FirstRound
  <2>1. Len(page_list) = 0 /\ 1..0 = {}
    BY <1>1
  <2> QED BY <1>1, <2>1, PrelistFacts DEF FirstRound, Frame
<1> QED BY <1>1, <1>2, <1>3, PrelistFacts DEF FramesInv

LEMMA SameFrames ==
    ASSUME FramesInv, phase # "shuffling", phase' # "shuffling",
           UNCHANGED <<size, round, handed, page_list, pt_pages>>
    PROVE  FramesInv'
<1>1. ASSUME NEW m \in 0..Len(page_list), Left(m) PROVE Left(m)'
  BY <1>1 DEF Left
<1> QED BY <1>1 DEF FramesInv

----------------------------------------------------------------------------
(* The processes that are built *)

Jobs == IF phase \in {"page", "mapping"} THEN Append(processes, job) ELSE processes

(* The pages of a process that are mapped. *)
MappedSoFar(i) == IF i \in DOMAIN processes THEN processes[i].size ELSE cur_len

(* What a frame is for: process, level and the way to it; a page is at     *)
(* level Levels, and behind it what is not mapped yet.                     *)
Role(i, l, q) == [process |-> i, level |-> l, prefix |-> q]

Roles == [process : Nat, level : 0..(Levels + 1), prefix : Nat]

InUse(rl, f) == rl[f].process # 0

(* The way from the dtb to the level n, through the content b. *)
Way(b, rl, dtb, i, v, n, g) ==
    /\ g \in [0..n -> Frame] /\ g[0] = dtb
    /\ \A l \in 0..n : rl[g[l]] = Role(i, l, Prefix(v, l))
    /\ \A l \in 0..(n - 1) : b[g[l]].entries[index(v, l)] = g[l + 1]

Path(rl, dtb, i, v, n, g) == Way(buf, rl, dtb, i, v, n, g)

(* A frame in use was handed out; a table has entries of the next level,   *)
(* along its own prefix; a page has what it was given.                     *)
RolesFit(rl) ==
    /\ rl \in [Frame -> Roles]
    /\ \A f \in Frame : InUse(rl, f) => \E n \in 1..Len(handed) : handed[n] = f
    /\ phase # "panicked" => \A f \in Frame : rl[f].process <= Len(Jobs)
    /\ \A f \in Frame : InUse(rl, f) /\ rl[f].level < Levels =>
          /\ buf[f].kind = "table"
          /\ \A i \in VIndex : LET e == buf[f].entries[i] IN
                \/ e = NoFrame
                \/ /\ e \in Frame
                   /\ rl[e] = Role(rl[f].process, rl[f].level + 1, Fan * rl[f].prefix + i)
    /\ \A f \in Frame : \A i \in DOMAIN Jobs : \A k \in Nat :
          rl[f] = Role(i, Levels, Jobs[i].base + k) /\ k < Jobs[i].test => buf[f] = Data(i, k)

(* Every page mapped so far has its way from the dtb. *)
PathsFit(rl) ==
    \A i \in DOMAIN Jobs :
        /\ rl[Jobs[i].dtb] = Role(i, 0, 0)
        /\ \A k \in Nat : k < MappedSoFar(i) =>
              \E g : Path(rl, Jobs[i].dtb, i, Jobs[i].base + k, Levels, g)

(* The process under construction. *)
JobFits(rl) ==
    phase \in {"page", "mapping"} =>
        /\ job.base + job.size <= Fan ^ Levels /\ cur_len <= job.size
        /\ \A f \in Frame : rl[f].process = Len(processes) + 1 /\ rl[f].level = Levels
              => rl[f].prefix < job.base + cur_len
        /\ phase = "mapping" =>
              /\ cur_len < job.size
              /\ rl[new_page] = Role(Len(processes) + 1, Levels + 1, 0)
              /\ cur_len < job.test => buf[new_page] = Data(Len(processes) + 1, cur_len)
              /\ \E g : /\ Path(rl, job.dtb, Len(processes) + 1, job.base + cur_len, level, g)
                        /\ g[level] = cur_table

JobsFit == \A i \in DOMAIN Jobs : Jobs[i].base + Jobs[i].size <= Fan ^ Levels

TreeInv ==
    /\ JobsFit
    /\ Len(handed) <= size =>
          \E rl : RolesFit(rl) /\ PathsFit(rl) /\ JobFits(rl)

(* What building a memory keeps: the frames left, and what the others hold. *)
BuildInv == DummyInv /\ FramesInv /\ TreeInv

----------------------------------------------------------------------------
(* A frame gets a role: it had none or was still to be mapped.  Of the     *)
(* other frames in use only tables change, where they get an entry for it. *)
GetsRole(rl, f, r) ==
    /\ f \in Frame /\ r \in Roles /\ r.process # 0
    /\ InUse(rl, f) => rl[f].level = Levels + 1
    /\ r.level < Levels => buf'[f] = NewTable
    /\ \A g \in Frame : InUse(rl, g) /\ g # f =>
          \/ buf'[g] = buf[g]
          \/ /\ rl[g].level < Levels /\ buf'[g].kind = "table"
             /\ \A i \in VIndex :
                   \/ buf'[g].entries[i] = buf[g].entries[i]
                   \/ /\ buf[g].entries[i] = NoFrame /\ buf'[g].entries[i] = f
                      /\ r = Role(rl[g].process, rl[g].level + 1, Fan * rl[g].prefix + i)

With(rl, f, r) == [rl EXCEPT ![f] = r]

LEMMA WithFacts ==
    ASSUME NEW rl \in [Frame -> Roles], NEW f \in Frame, NEW r \in Roles
    PROVE  /\ With(rl, f, r) \in [Frame -> Roles] /\ With(rl, f, r)[f] = r
           /\ \A g \in Frame : g # f => With(rl, f, r)[g] = rl[g]
BY DEF With

(* Who is on a way stays on it. *)
LEMMA PathKept ==
    ASSUME NEW rl \in [Frame -> Roles], NEW f, NEW r, GetsRole(rl, f, r), NoFrame \notin Nat,
           NEW v \in VPage, NEW i \in Nat \ {0}, NEW n \in 0..Levels, NEW dtb, NEW g,
           Path(rl, dtb, i, v, n, g)
    PROVE  Path(With(rl, f, r), dtb, i, v, n, g)' /\ \A l \in 0..n : g[l] # f
<1>1. f \in Frame /\ r \in Roles /\ Levels \in Nat
  BY LayoutAssumption DEF GetsRole
<1>2. /\ g \in [0..n -> Frame] /\ g[0] = dtb
      /\ \A l \in 0..n : rl[g[l]] = Role(i, l, Prefix(v, l))
      /\ \A l \in 0..(n - 1) : buf[g[l]].entries[index(v, l)] = g[l + 1]
  BY DEF Path, Way
<1>3. ASSUME NEW l \in 0..n
      PROVE  g[l] \in Frame /\ InUse(rl, g[l]) /\ rl[g[l]].level = l /\ g[l] # f
  <2>1. g[l] \in Frame /\ rl[g[l]] = Role(i, l, Prefix(v, l))
    BY <1>2
  <2>2. rl[g[l]].process = i /\ rl[g[l]].level = l
    BY <2>1 DEF Role
  <2>3. l # Levels + 1
    BY <1>1
  <2> QED BY <1>1, <2>1, <2>2, <2>3 DEF InUse, GetsRole
<1>4. \A l \in 0..n : With(rl, f, r)[g[l]] = Role(i, l, Prefix(v, l))
  <2> SUFFICES ASSUME NEW l \in 0..n
               PROVE  With(rl, f, r)[g[l]] = Role(i, l, Prefix(v, l))
    OBVIOUS
  <2>1. g[l] \in Frame /\ g[l] # f /\ rl[g[l]] = Role(i, l, Prefix(v, l))
    BY <1>2, <1>3
  <2>2. With(rl, f, r)[g[l]] = rl[g[l]]
    BY <1>1, <2>1, WithFacts
  <2> QED BY <2>1, <2>2
<1>5. ASSUME NEW l \in 0..(n - 1) PROVE buf'[g[l]].entries[index(v, l)] = g[l + 1]
  <2>1. l \in 0..n /\ l + 1 \in 0..n /\ l \in 0..(Levels - 1)
    BY <1>1
  <2>2. g[l + 1] # NoFrame
    BY <1>3, <2>1 DEF Frame
  <2>3. index(v, l) \in VIndex
    BY <2>1, PrefixFacts
  <2>4. buf[g[l]].entries[index(v, l)] = g[l + 1]
    BY <1>2
  <2> QED BY <1>3, <2>1, <2>2, <2>3, <2>4 DEF GetsRole
<1> QED BY <1>2, <1>3, <1>4, <1>5 DEF Path, Way

LEMMA RolesKept ==
    ASSUME NEW rl, RolesFit(rl), NEW f, NEW r, GetsRole(rl, f, r),
           phase # "panicked", Jobs \in Seq(Job), Jobs' \in Seq(Job),
           Len(Jobs) <= Len(Jobs'), \A i \in DOMAIN Jobs : Jobs'[i] = Jobs[i],
           r.process <= Len(Jobs'),
           \E n \in 1..Len(handed') : handed'[n] = f,
           \A n \in 1..Len(handed) : n \in 1..Len(handed') /\ handed'[n] = handed[n],
           \A i \in DOMAIN Jobs' : \A k \in Nat :
              r = Role(i, Levels, Jobs'[i].base + k) /\ k < Jobs'[i].test => buf'[f] = Data(i, k)
    PROVE  RolesFit(With(rl, f, r))'
<1> DEFINE rn == With(rl, f, r)
<1>1. f \in Frame /\ r \in Roles /\ r.process # 0 /\ rl \in [Frame -> Roles] /\ Levels \in Nat
  BY LayoutAssumption DEF GetsRole, RolesFit
<1>2. rn \in [Frame -> Roles] /\ rn[f] = r /\ \A g \in Frame : g # f => rn[g] = rl[g]
  BY <1>1, WithFacts
<1> HIDE DEF rn
<1>3. ASSUME NEW g \in Frame, InUse(rn, g)
      PROVE  \E n \in 1..Len(handed') : handed'[n] = g
  <2>1. CASE g # f
    <3>1. InUse(rl, g)
      BY <1>2, <1>3, <2>1 DEF InUse
    <3> QED BY <3>1 DEF RolesFit
  <2> QED BY <2>1
<1>4. ASSUME NEW g \in Frame PROVE rn[g].process <= Len(Jobs')
  <2>1. rl[g].process <= Len(Jobs) /\ rl[g].process \in Nat
    BY <1>1 DEF RolesFit, Roles
  <2>2. Len(Jobs) \in Nat /\ Len(Jobs') \in Nat
    OBVIOUS
  <2> QED BY <1>2, <2>1, <2>2
<1>5. ASSUME NEW g \in Frame, InUse(rn, g), rn[g].level < Levels
      PROVE  /\ buf'[g].kind = "table"
             /\ \A i \in VIndex : LET e == buf'[g].entries[i] IN
                   \/ e = NoFrame
                   \/ /\ e \in Frame
                      /\ rn[e] = Role(rn[g].process, rn[g].level + 1, Fan * rn[g].prefix + i)
  <2>1. CASE g = f
    <3>1. buf'[g] = NewTable
      BY <1>2, <1>5, <2>1 DEF GetsRole
    <3> QED BY <3>1 DEF NewTable
  <2>2. CASE g # f
    <3>1. rn[g] = rl[g] /\ InUse(rl, g) /\ rl[g].level < Levels /\ rl[g].level \in Nat
      BY <1>1, <1>2, <1>5, <2>2 DEF InUse, Roles
    <3>2. /\ buf[g].kind = "table"
          /\ \A i \in VIndex : LET e == buf[g].entries[i] IN
                \/ e = NoFrame
                \/ /\ e \in Frame
                   /\ rl[e] = Role(rl[g].process, rl[g].level + 1, Fan * rl[g].prefix + i)
      BY <3>1 DEF RolesFit
    <3>3. buf'[g].kind = "table"
      BY <2>2, <3>1, <3>2 DEF GetsRole
    <3>4. ASSUME NEW i \in VIndex, buf'[g].entries[i] # NoFrame
          PROVE  LET e == buf'[g].entries[i] IN
                   /\ e \in Frame
                   /\ rn[e] = Role(rn[g].process, rn[g].level + 1, Fan * rn[g].prefix + i)
      <4> DEFINE e == buf'[g].entries[i]
      <4>1. CASE e = f /\ r = Role(rl[g].process, rl[g].level + 1, Fan * rl[g].prefix + i)
        BY <1>1, <1>2, <3>1, <4>1
      <4>2. CASE e = buf[g].entries[i]
        <5>1. e \in Frame /\ rl[e] = Role(rl[g].process, rl[g].level + 1, Fan * rl[g].prefix + i)
          BY <3>2, <3>4, <4>2
        <5>2. rl[e].process = rl[g].process /\ rl[e].level = rl[g].level + 1
          BY <5>1 DEF Role
        <5>3. rl[e].level # Levels + 1 /\ InUse(rl, e)
          BY <1>1, <3>1, <5>2 DEF InUse
        <5>4. e # f
          BY <5>3 DEF GetsRole
        <5> QED BY <1>2, <3>1, <5>1, <5>4
      <4>3. \/ e = f /\ r = Role(rl[g].process, rl[g].level + 1, Fan * rl[g].prefix + i)
            \/ e = buf[g].entries[i]
        BY <2>2, <3>1 DEF GetsRole
      <4> HIDE DEF e
      <4> QED BY <4>1, <4>2, <4>3 DEF e
    <3> QED BY <3>3, <3>4
  <2> QED BY <2>1, <2>2
<1>6. ASSUME NEW g \in Frame, NEW i \in DOMAIN Jobs', NEW k \in Nat,
             rn[g] = Role(i, Levels, Jobs'[i].base + k), k < Jobs'[i].test
      PROVE  buf'[g] = Data(i, k)
  <2>1. CASE g = f
    BY <1>2, <1>6, <2>1
  <2>2. CASE g # f
    <3>1. rl[g] = Role(i, Levels, Jobs'[i].base + k)
      BY <1>2, <1>6, <2>2
    <3>2. rl[g].process = i /\ rl[g].level = Levels
      BY <3>1 DEF Role
    <3>3. i \in DOMAIN Jobs
      <4>1. i <= Len(Jobs) /\ i \in 1..Len(Jobs') /\ Len(Jobs) \in Nat
        BY <3>2 DEF RolesFit
      <4> QED BY <4>1
    <3>4. Jobs'[i] = Jobs[i] /\ i # 0
      BY <3>3
    <3>5. buf[g] = Data(i, k)
      BY <1>6, <3>1, <3>3, <3>4 DEF RolesFit
    <3>6. ~(rl[g].level < Levels) /\ InUse(rl, g)
      BY <1>1, <3>2, <3>4 DEF InUse
    <3> QED BY <2>2, <3>5, <3>6 DEF GetsRole
  <2> QED BY <2>1, <2>2
<1>7. RolesFit(rn)'
  <2>1. \A g \in Frame : InUse(rn, g) => \E n \in 1..Len(handed') : handed'[n] = g
    BY <1>3
  <2>2. \A g \in Frame : rn[g].process <= Len(Jobs')
    BY <1>4
  <2> QED BY <1>2, <1>5, <1>6, <2>1, <2>2 DEF RolesFit, InUse
<1> QED BY <1>7 DEF rn

----------------------------------------------------------------------------
(* What is mapped stays mapped. *)

LEMMA JobsType ==
    ASSUME DummyInv
    PROVE  /\ processes \in Seq(Job) /\ Jobs \in Seq(Job) /\ Len(processes) \in Nat
           /\ phase \in {"page", "mapping"} =>
                /\ Len(Jobs) = Len(processes) + 1 /\ Jobs[Len(processes) + 1] = job
                /\ \A i \in DOMAIN processes : Jobs[i] = processes[i]
           /\ phase \notin {"page", "mapping"} => Jobs = processes
           /\ \A j \in Job : j.dtb \in Frame /\ j.base \in Nat /\ j.size \in Nat /\ j.test \in Nat
<1>1. processes \in Seq(Job) /\ (phase \in {"page", "mapping"} => job \in Job)
  BY DEF DummyInv
<1>2. \A j \in Job : j.dtb \in Frame /\ j.base \in Nat /\ j.size \in Nat /\ j.test \in Nat
  <2> SUFFICES ASSUME NEW j \in Job
               PROVE  j.dtb \in Frame /\ j.base \in Nat /\ j.size \in Nat /\ j.test \in Nat
    OBVIOUS
  <2>1. j.dtb \in Frame /\ j.base \in Nat /\ j.size \in MapSizes /\ j.test \in MapSizes \cup {0}
    BY DEF Job
  <2>2. MapSizes \subseteq Nat /\ MapSizes \cup {0} \subseteq Nat
    BY LayoutAssumption
  <2>3. j.size \in Nat /\ j.test \in Nat
    BY <2>1, <2>2, Zenon
  <2> QED BY <2>1, <2>3
<1>3. CASE phase \in {"page", "mapping"}
  <2>1. Jobs = Append(processes, job)
    BY <1>3 DEF Jobs
  <2> QED BY <1>1, <1>2, <1>3, <2>1
<1>4. CASE phase \notin {"page", "mapping"}
  BY <1>1, <1>2, <1>4 DEF Jobs
<1> QED BY <1>3, <1>4

LEMMA MappedPages ==
    ASSUME BuildInv, NEW rl, JobFits(rl), NEW i \in DOMAIN Jobs, NEW k \in Nat, k < MappedSoFar(i)
    PROVE  Jobs[i].base + k \in VPage
<1>1. /\ processes \in Seq(Job) /\ Jobs \in Seq(Job) /\ Len(processes) \in Nat
      /\ \A j \in Job : j.base \in Nat /\ j.size \in Nat
  BY JobsType DEF BuildInv
<1>2. CASE i \in DOMAIN processes
  <2>1. Jobs[i] = processes[i] /\ processes[i] \in Job
    BY <1>1, <1>2, JobsType DEF BuildInv
  <2>2. processes[i].base + processes[i].size <= Fan ^ Levels /\ k < processes[i].size
    BY <1>2, <2>1 DEF BuildInv, TreeInv, JobsFit, MappedSoFar
  <2> DEFINE w == Fan ^ Levels
  <2>3. w \in Nat
    BY LayoutAssumption, PowersAssumption
  <2>4. processes[i].base \in Nat /\ processes[i].size \in Nat /\ processes[i].base + processes[i].size <= w
    BY <1>1, <2>1, <2>2
  <2>5. VPage = 0..(w - 1)
    BY DEF VPage
  <2> HIDE DEF w
  <2> QED BY <2>1, <2>2, <2>3, <2>4, <2>5
<1>3. CASE i \notin DOMAIN processes
  <2>1. phase \in {"page", "mapping"}
    BY <1>3, JobsType DEF BuildInv
  <2>2. Jobs[i] = job /\ job \in Job /\ cur_len \in Nat
    <3>1. Len(Jobs) = Len(processes) + 1 /\ Jobs[Len(processes) + 1] = job /\ job \in Job
      BY <2>1, JobsType DEF BuildInv, DummyInv
    <3>2. i = Len(processes) + 1
      BY <1>1, <1>3, <3>1
    <3> QED BY <2>1, <3>1, <3>2 DEF BuildInv, DummyInv
  <2>3. job.base + job.size <= Fan ^ Levels /\ cur_len <= job.size /\ k < cur_len
    BY <1>3, <2>1 DEF JobFits, MappedSoFar
  <2>4. Fan ^ Levels \in Nat
    BY LayoutAssumption, PowersAssumption
  <2> QED BY <1>1, <2>2, <2>3, <2>4 DEF VPage
<1> QED BY <1>2, <1>3

LEMMA PathsKept ==
    ASSUME BuildInv, NEW rl, RolesFit(rl), PathsFit(rl), JobFits(rl),
           NEW f, NEW r, GetsRole(rl, f, r),
           \A i \in DOMAIN Jobs : Jobs'[i] = Jobs[i]
    PROVE  \A i \in DOMAIN Jobs :
              /\ With(rl, f, r)[Jobs'[i].dtb] = Role(i, 0, 0)
              /\ \A k \in Nat : k < MappedSoFar(i) =>
                    \E g : Path(With(rl, f, r), Jobs[i].dtb, i, Jobs[i].base + k, Levels, g)'
<1>1. /\ rl \in [Frame -> Roles] /\ f \in Frame /\ r \in Roles
      /\ Levels \in Nat /\ Levels \in 0..Levels /\ NoFrame \notin Nat
  BY LayoutAssumption DEF RolesFit, GetsRole
<1>2. Jobs \in Seq(Job) /\ \A j \in Job : j.dtb \in Frame
  BY JobsType DEF BuildInv
<1> SUFFICES ASSUME NEW i \in DOMAIN Jobs
             PROVE  /\ With(rl, f, r)[Jobs'[i].dtb] = Role(i, 0, 0)
                    /\ \A k \in Nat : k < MappedSoFar(i) =>
                         \E g : Path(With(rl, f, r), Jobs[i].dtb, i, Jobs[i].base + k, Levels, g)'
  OBVIOUS
<1>3. i \in Nat \ {0} /\ Jobs[i] \in Job /\ Jobs[i].dtb \in Frame /\ Jobs'[i] = Jobs[i]
  BY <1>2
<1>4. With(rl, f, r)[Jobs'[i].dtb] = Role(i, 0, 0)
  <2>1. rl[Jobs[i].dtb] = Role(i, 0, 0)
    BY DEF PathsFit
  <2>2. InUse(rl, Jobs[i].dtb) /\ rl[Jobs[i].dtb].level = 0
    BY <1>3, <2>1 DEF InUse, Role
  <2>3. Jobs[i].dtb # f
    BY <1>1, <2>2 DEF GetsRole
  <2> QED BY <1>1, <1>3, <2>1, <2>3, WithFacts
<1>5. ASSUME NEW k \in Nat, k < MappedSoFar(i)
      PROVE  \E g : Path(With(rl, f, r), Jobs[i].dtb, i, Jobs[i].base + k, Levels, g)'
  <2>1. PICK g : Path(rl, Jobs[i].dtb, i, Jobs[i].base + k, Levels, g)
    BY <1>5 DEF PathsFit
  <2>2. PICK d, v : d = Jobs[i].dtb /\ v = Jobs[i].base + k
    OBVIOUS
  <2>3. v \in VPage /\ Path(rl, d, i, v, Levels, g)
    BY <1>5, <2>1, <2>2, MappedPages
  <2>4. Path(With(rl, f, r), d, i, v, Levels, g)'
    BY <1>1, <1>3, <2>3, PathKept
  <2>5. d = Jobs'[i].dtb /\ v = Jobs'[i].base + k
    BY <1>3, <2>2
  <2> QED BY <2>4, <2>5
<1> QED BY <1>4, <1>5

(* A frame that was not handed out has no role. *)
LEMMA FreshFrame ==
    ASSUME NEW rl, RolesFit(rl), NEW f \in Frame, \A n \in 1..Len(handed) : handed[n] # f
    PROVE  ~InUse(rl, f)
BY DEF RolesFit

----------------------------------------------------------------------------
(* A process is begun with a new dtb. *)
LEMMA AllocDtbTree ==
    ASSUME BuildInv, AllocDtb
    PROVE  TreeInv'
<1>1. PICK base \in VPage, n \in MapSizes, t \in MapSizes \cup {0}, f \in Frames :
        /\ base + n <= Fan ^ Levels /\ t <= n
        /\ Alloc(f)
        /\ buf' = [buf EXCEPT ![f] = NewTable]
        /\ job' = [dtb |-> f, base |-> base, size |-> n, test |-> t]
  BY DEF AllocDtb
<1>2. /\ phase = "ready" /\ phase' = "page" /\ cur_len' = 0
      /\ UNCHANGED <<size, round, processes>>
  BY DEF AllocDtb
<1>3. /\ f \in Frame /\ DOMAIN buf = Frame /\ size \in Nat
      /\ base \in Nat /\ n \in Nat /\ Levels \in Nat \ {0}
  BY <1>1, LayoutAssumption, PageSizeAssumption DEF BuildInv, DummyInv, FramesInv, VPage
<1>4. /\ Len(handed) \in Nat /\ Len(handed') = Len(handed) + 1
      /\ \A m \in 1..Len(handed) : handed'[m] = handed[m]
      /\ handed'[Len(handed')] = f
      /\ Len(handed') <= size => \A m \in 1..Len(handed) : handed[m] # f
  BY <1>1, <1>2, <1>3, AllocFacts DEF BuildInv
<1>5. JobsFit'
  <2>1. /\ Jobs = processes /\ processes \in Seq(Job) /\ Len(processes) \in Nat
        /\ Jobs' = Append(processes, job')
    BY <1>2, JobsType DEF BuildInv, Jobs
  <2>2. job'.base = base /\ job'.size = n
    BY <1>1
  <2>3. \A i \in DOMAIN Jobs' :
           \/ i \in DOMAIN Jobs /\ Jobs'[i] = Jobs[i]
           \/ Jobs'[i] = job'
    BY <2>1
  <2> QED BY <1>1, <2>2, <2>3 DEF BuildInv, TreeInv, JobsFit
<1> SUFFICES ASSUME Len(handed') <= size
             PROVE  \E rl : RolesFit(rl)' /\ PathsFit(rl)' /\ JobFits(rl)'
  BY <1>2, <1>5 DEF TreeInv
<1>6. PICK rl : RolesFit(rl) /\ PathsFit(rl) /\ JobFits(rl)
  BY <1>3, <1>4 DEF BuildInv, TreeInv
<1>20. PICK k : k = Len(processes) + 1
  OBVIOUS
<1> DEFINE r == Role(k, 0, 0)
           rn == With(rl, f, r)
<1>7. /\ Jobs = processes /\ processes \in Seq(Job) /\ Len(processes) \in Nat
      /\ Jobs' = Append(processes, job')
  BY <1>2, JobsType DEF BuildInv, Jobs
<1>8. job' \in Job
  BY <1>1, <1>3 DEF Job
<1>9. /\ Jobs' \in Seq(Job) /\ Len(Jobs') = k /\ Jobs'[k] = job' /\ k \in Nat \ {0}
      /\ \A i \in DOMAIN Jobs : Jobs'[i] = Jobs[i]
      /\ \A i \in DOMAIN Jobs' : i \in DOMAIN Jobs \/ i = k
      /\ k \notin DOMAIN Jobs
  BY <1>7, <1>8, <1>20
<1>10. r \in Roles /\ r.process = k /\ r.level = 0 /\ r.prefix = 0
  BY <1>3, <1>9 DEF Role, Roles
<1>11. rl \in [Frame -> Roles] /\ rn[f] = r /\ \A g \in Frame : g # f => rn[g] = rl[g]
  BY <1>3, <1>6, <1>10, WithFacts DEF RolesFit
<1> HIDE DEF r, rn
<1>12. GetsRole(rl, f, r)
  <2>1. ~InUse(rl, f)
    BY <1>3, <1>4, <1>6, FreshFrame
  <2>2. buf'[f] = NewTable /\ \A g \in Frame : g # f => buf'[g] = buf[g]
    BY <1>1, <1>3
  <2> QED BY <1>3, <1>9, <1>10, <2>1, <2>2 DEF GetsRole
<1>13. RolesFit(rn)'
  <2>1. \E m \in 1..Len(handed') : handed'[m] = f
    BY <1>4
  <2>2. \A m \in 1..Len(handed) : m \in 1..Len(handed') /\ handed'[m] = handed[m]
    BY <1>4
  <2>3. \A i, q : r # Role(i, Levels, q)
    BY <1>3, <1>10 DEF Role
  <2>4. Len(Jobs) <= Len(Jobs') /\ Jobs \in Seq(Job) /\ r.process <= Len(Jobs')
    BY <1>7, <1>9, <1>10, <1>20
  <2> QED BY <1>2, <1>6, <1>9, <1>12, <2>1, <2>2, <2>3, <2>4, RolesKept DEF rn
<1>14. PathsFit(rn)'
  <2>1. \A i \in DOMAIN Jobs :
              /\ rn[Jobs'[i].dtb] = Role(i, 0, 0)
              /\ \A m \in Nat : m < MappedSoFar(i) =>
                    \E g : Path(rn, Jobs[i].dtb, i, Jobs[i].base + m, Levels, g)'
    BY <1>6, <1>9, <1>12, PathsKept DEF rn
  <2>2. \A i \in DOMAIN Jobs : MappedSoFar(i)' = MappedSoFar(i)
    BY <1>2, <1>7 DEF MappedSoFar
  <2>3. rn[Jobs'[k].dtb] = Role(k, 0, 0) /\ MappedSoFar(k)' = 0
    BY <1>1, <1>2, <1>7, <1>9, <1>11 DEF r, MappedSoFar
  <2>4. \A m \in Nat : ~(m < 0)
    OBVIOUS
  <2> QED BY <1>9, <2>1, <2>2, <2>3, <2>4 DEF PathsFit
<1>15. JobFits(rn)'
  <2>1. job'.base = base /\ job'.size = n
    BY <1>1
  <2>2. ASSUME NEW g \in Frame, rn[g].process = k, rn[g].level = Levels PROVE FALSE
    <3>1. g # f
      BY <1>3, <1>10, <1>11, <2>2
    <3>2. rl[g].process <= Len(Jobs)
      BY <1>2, <1>6 DEF RolesFit
    <3> QED BY <1>7, <1>11, <2>2, <3>1, <3>2, <1>20
  <2>3. phase' # "mapping" /\ cur_len' <= job'.size /\ job'.base + job'.size <= Fan ^ Levels
    BY <1>1, <1>2, <1>3, <2>1
  <2> QED BY <1>2, <2>2, <2>3, <1>20 DEF JobFits
<1> QED BY <1>13, <1>14, <1>15

(* The frame of the next page. *)
LEMMA NextPageTree ==
    ASSUME BuildInv, NextPage
    PROVE  TreeInv'
<1>1. PICK f \in Frames :
        /\ Alloc(f) /\ new_page' = f
        /\ buf' = IF cur_len < job.test
                  THEN [buf EXCEPT ![f] = Data(Len(processes) + 1, cur_len)] ELSE buf
  BY DEF NextPage
<1>2. /\ phase = "page" /\ phase' = "mapping" /\ cur_len < job.size
      /\ cur_table' = job.dtb /\ level' = 0
      /\ UNCHANGED <<size, round, processes, job, cur_len>>
  BY DEF NextPage
<1>3. /\ f \in Frame /\ DOMAIN buf = Frame /\ size \in Nat /\ job \in Job /\ cur_len \in Nat
      /\ Levels \in Nat \ {0}
  BY <1>1, <1>2, LayoutAssumption, PageSizeAssumption DEF BuildInv, DummyInv, FramesInv
<1>4. /\ Len(handed) \in Nat /\ Len(handed') = Len(handed) + 1
      /\ \A m \in 1..Len(handed) : handed'[m] = handed[m]
      /\ handed'[Len(handed')] = f
      /\ Len(handed') <= size => \A m \in 1..Len(handed) : handed[m] # f
  BY <1>1, <1>2, <1>3, AllocFacts DEF BuildInv
<1>5. JobsFit'
  BY <1>2 DEF BuildInv, TreeInv, JobsFit, Jobs
<1> SUFFICES ASSUME Len(handed') <= size
             PROVE  \E rl : RolesFit(rl)' /\ PathsFit(rl)' /\ JobFits(rl)'
  BY <1>2, <1>5 DEF TreeInv
<1>6. PICK rl : RolesFit(rl) /\ PathsFit(rl) /\ JobFits(rl)
  BY <1>3, <1>4 DEF BuildInv, TreeInv
<1>20. PICK k : k = Len(processes) + 1
  OBVIOUS
<1> DEFINE r == Role(k, Levels + 1, 0)
           rn == With(rl, f, r)
<1>7. /\ Jobs' = Jobs /\ Jobs \in Seq(Job) /\ Len(Jobs) = k /\ Jobs[k] = job
      /\ Len(processes) \in Nat /\ k \in Nat \ {0} /\ k \in DOMAIN Jobs
  BY <1>2, <1>20, JobsType DEF BuildInv, Jobs
<1>8. r \in Roles /\ r.process = k /\ r.level = Levels + 1 /\ r.prefix = 0
  BY <1>3, <1>7 DEF Role, Roles
<1>9. rl \in [Frame -> Roles] /\ rn[f] = r /\ \A g \in Frame : g # f => rn[g] = rl[g]
  BY <1>3, <1>6, <1>8, WithFacts DEF RolesFit
<1> HIDE DEF r, rn
<1>10. \A g \in Frame : g # f => buf'[g] = buf[g]
  BY <1>1, <1>3
<1>11. GetsRole(rl, f, r)
  <2>1. ~InUse(rl, f)
    BY <1>3, <1>4, <1>6, FreshFrame
  <2>2. ~(r.level < Levels) /\ r.process # 0
    BY <1>3, <1>7, <1>8
  <2> QED BY <1>3, <1>8, <1>10, <2>1, <2>2 DEF GetsRole
<1>12. RolesFit(rn)'
  <2>1. \E m \in 1..Len(handed') : handed'[m] = f
    BY <1>4
  <2>2. \A m \in 1..Len(handed) : m \in 1..Len(handed') /\ handed'[m] = handed[m]
    BY <1>4
  <2>3. \A i, q : r # Role(i, Levels, q)
    BY <1>3, <1>8 DEF Role
  <2>4. Len(Jobs) <= Len(Jobs') /\ r.process <= Len(Jobs') /\ \A i \in DOMAIN Jobs : Jobs'[i] = Jobs[i]
    BY <1>7, <1>8
  <2> QED BY <1>2, <1>6, <1>7, <1>11, <2>1, <2>2, <2>3, <2>4, RolesKept DEF rn
<1>13. PathsFit(rn)'
  <2>1. \A i \in DOMAIN Jobs :
              /\ rn[Jobs'[i].dtb] = Role(i, 0, 0)
              /\ \A m \in Nat : m < MappedSoFar(i) =>
                    \E g : Path(rn, Jobs[i].dtb, i, Jobs[i].base + m, Levels, g)'
    BY <1>6, <1>7, <1>11, PathsKept DEF rn
  <2>2. \A i \in DOMAIN Jobs : MappedSoFar(i)' = MappedSoFar(i)
    BY <1>2 DEF MappedSoFar
  <2> QED BY <1>7, <2>1, <2>2 DEF PathsFit
<1>14. JobFits(rn)'
  <2>1. /\ job.base + job.size <= Fan ^ Levels /\ cur_len <= job.size
        /\ \A g \in Frame : rl[g].process = k /\ rl[g].level = Levels
              => rl[g].prefix < job.base + cur_len
    BY <1>2, <1>6, <1>20 DEF JobFits
  <2>2. \A g \in Frame : rn[g].process = k /\ rn[g].level = Levels
              => rn[g].prefix < job.base + cur_len
    <3>1. Levels # Levels + 1
      BY <1>3
    <3> QED BY <1>8, <1>9, <2>1, <3>1
  <2>3. rn[new_page'] = Role(k, Levels + 1, 0)
    BY <1>1, <1>9 DEF r
  <2>4. cur_len < job.test => buf'[new_page'] = Data(k, cur_len)
    BY <1>1, <1>3, <1>20
  <2>5. \E g : Path(rn, job.dtb, k, job.base + cur_len, level, g)' /\ g[level'] = cur_table'
    <3>1. job.dtb \in Frame /\ job.base \in Nat /\ job.size \in Nat
      BY <1>3, JobsType DEF BuildInv
    <3>2. PICK d, v : d = job.dtb /\ v = job.base + cur_len
      OBVIOUS
    <3>3. v \in VPage
      BY <1>2, <1>3, <2>1, <3>1, <3>2, LayoutAssumption, PowersAssumption DEF VPage
    <3>4. Prefix(v, 0) = 0
      BY <3>3, PrefixFacts
    <3>5. rn[d] = Role(k, 0, 0)
      BY <1>2, <1>7, <1>13, <3>2 DEF PathsFit
    <3> DEFINE g == [l \in 0..0 |-> d]
    <3>6. g \in [0..0 -> Frame] /\ g[0] = d /\ (\A l \in 0..0 : l = 0) /\ 0..(0 - 1) = {}
      BY <3>1, <3>2
    <3> HIDE DEF g
    <3>7. Path(rn, d, k, v, 0, g)'
      BY <3>4, <3>5, <3>6 DEF Path, Way
    <3> QED BY <1>2, <3>2, <3>6, <3>7
  <2>6. k = Len(processes') + 1
    BY <1>2, <1>20
  <2> QED BY <1>2, <2>1, <2>2, <2>3, <2>4, <2>5, <2>6 DEF JobFits
<1> QED BY <1>12, <1>13, <1>14

----------------------------------------------------------------------------
(* A way goes one table further. *)
LEMMA WayGrows ==
    ASSUME NEW b, NEW rl, NEW d, NEW i, NEW v, NEW n \in Nat, NEW g, NEW e \in Frame,
           Way(b, rl, d, i, v, n, g),
           b[g[n]].entries[index(v, n)] = e, rl[e] = Role(i, n + 1, Prefix(v, n + 1))
    PROVE  \E h : Way(b, rl, d, i, v, n + 1, h) /\ h[n + 1] = e
<1>0. /\ g \in [0..n -> Frame] /\ g[0] = d
      /\ \A l \in 0..n : rl[g[l]] = Role(i, l, Prefix(v, l))
      /\ \A l \in 0..(n - 1) : b[g[l]].entries[index(v, l)] = g[l + 1]
  BY DEF Way
<1> DEFINE h == [l \in 0..(n + 1) |-> IF l = n + 1 THEN e ELSE g[l]]
<1>1. \A l \in 0..n : l \in 0..(n + 1) /\ l # n + 1
  OBVIOUS
<1>2. \A l \in 0..(n + 1) : l = n + 1 \/ l \in 0..n
  OBVIOUS
<1>3. h \in [0..(n + 1) -> Frame] /\ h[n + 1] = e /\ \A l \in 0..n : h[l] = g[l]
  BY <1>0, <1>1, <1>2
<1> HIDE DEF h
<1>4. h[0] = d
  BY <1>0, <1>3
<1>5. \A l \in 0..(n + 1) : rl[h[l]] = Role(i, l, Prefix(v, l))
  BY <1>0, <1>2, <1>3
<1>6. ASSUME NEW l \in 0..(n + 1 - 1) PROVE b[h[l]].entries[index(v, l)] = h[l + 1]
  <2>1. CASE l = n
    BY <1>0, <1>3, <2>1
  <2>2. CASE l # n
    <3>1. l \in 0..(n - 1) /\ l \in 0..n /\ l + 1 \in 0..n
      BY <2>2
    <3> QED BY <1>0, <1>3, <3>1
  <2> QED BY <2>1, <2>2
<1> QED BY <1>3, <1>4, <1>5, <1>6 DEF Way

(* The table that map_to has reached. *)
LEMMA TableReached ==
    ASSUME BuildInv, phase = "mapping", NEW rl, RolesFit(rl), JobFits(rl)
    PROVE  \E d, k, v, p :
              /\ k = Len(processes) + 1 /\ v = job.base + cur_len /\ d = job.dtb
              /\ p = Prefix(v, level) /\ p \in Nat /\ v \in VPage /\ k \in Nat \ {0}
              /\ level \in 0..(Levels - 1) /\ Slot(level) \in VIndex /\ Slot(level) = index(v, level)
              /\ Prefix(v, level + 1) = Fan * p + Slot(level) /\ Prefix(v, level + 1) \in Nat
              /\ cur_table \in Frame /\ new_page \in Frame /\ new_page # cur_table
              /\ rl[cur_table] = Role(k, level, p) /\ InUse(rl, cur_table)
              /\ rl[cur_table].level = level /\ rl[cur_table].process = k /\ rl[cur_table].prefix = p
              /\ buf[cur_table].kind = "table"
              /\ \A i \in VIndex : Entry(cur_table, i) = buf[cur_table].entries[i]
              /\ rl[new_page] = Role(k, Levels + 1, 0)
              /\ job \in Job /\ Jobs \in Seq(Job) /\ Len(Jobs) = k /\ Jobs[k] = job
              /\ cur_len \in Nat /\ Len(processes) \in Nat
              /\ \E g : Path(rl, d, k, v, level, g) /\ g[level] = cur_table
<1>1. PICK d, k, v, p : /\ k = Len(processes) + 1 /\ v = job.base + cur_len /\ d = job.dtb
                        /\ p = Prefix(v, level)
  OBVIOUS
<1>2. /\ job \in Job /\ cur_len \in Nat /\ level \in 0..(Levels - 1)
      /\ cur_table \in Frame /\ new_page \in Frame
  BY DEF BuildInv, DummyInv
<1>3. Jobs \in Seq(Job) /\ Len(Jobs) = k /\ Jobs[k] = job /\ k \in Nat \ {0} /\ Len(processes) \in Nat
  BY <1>1, JobsType DEF BuildInv
<1>4. job.base \in Nat /\ job.size \in Nat
  BY <1>2, JobsType DEF BuildInv
<1>5. job.base + job.size <= Fan ^ Levels /\ cur_len < job.size
  BY DEF JobFits
<1>6. v \in VPage
  BY <1>1, <1>2, <1>4, <1>5, LayoutAssumption, PowersAssumption DEF VPage
<1>7. level \in 0..Levels /\ level + 1 \in 0..Levels /\ Levels \in Nat
  BY <1>2, LayoutAssumption
<1>8. /\ p \in Nat /\ Prefix(v, level + 1) \in Nat
      /\ index(v, level) \in VIndex /\ Prefix(v, level + 1) = Fan * p + index(v, level)
  BY <1>1, <1>2, <1>6, <1>7, PrefixFacts
<1>9. Slot(level) = index(v, level)
  BY <1>1 DEF Slot
<1>10. PICK g : Path(rl, d, k, v, level, g) /\ g[level] = cur_table
  BY <1>1 DEF JobFits
<1>11. rl[cur_table] = Role(k, level, p)
  <2>1. level \in 0..level
    BY <1>7
  <2> QED BY <1>1, <1>10, <2>1 DEF Path, Way
<1>12. /\ rl[cur_table].level = level /\ rl[cur_table].process = k /\ rl[cur_table].prefix = p
       /\ InUse(rl, cur_table)
  BY <1>3, <1>11 DEF Role, InUse
<1>13. buf[cur_table].kind = "table"
  BY <1>2, <1>7, <1>12 DEF RolesFit
<1>14. \A i \in VIndex : Entry(cur_table, i) = buf[cur_table].entries[i]
  BY <1>13 DEF Entry
<1>15. rl[new_page] = Role(k, Levels + 1, 0)
  BY <1>1 DEF JobFits
<1>16. new_page # cur_table
  <2>1. rl[new_page].level = Levels + 1 /\ level # Levels + 1
    BY <1>2, <1>7, <1>15 DEF Role
  <2> QED BY <1>12, <2>1
<1> QED BY <1>1, <1>2, <1>3, <1>6, <1>8, <1>9, <1>10, <1>11, <1>12, <1>13, <1>14, <1>15, <1>16

(* Nothing changes but how far the page under way is. *)
LEMMA RolesStay ==
    ASSUME NEW rl, RolesFit(rl), UNCHANGED <<buf, handed>>,
           phase' # "panicked" => phase # "panicked" /\ Jobs' = Jobs,
           \A i \in DOMAIN Jobs' : i \in DOMAIN Jobs /\ Jobs'[i] = Jobs[i]
    PROVE  RolesFit(rl)'
BY DEF RolesFit, InUse

LEMMA PathsStay ==
    ASSUME NEW rl, PathsFit(rl), UNCHANGED buf,
           \A i \in DOMAIN Jobs' : i \in DOMAIN Jobs /\ Jobs'[i] = Jobs[i] /\ MappedSoFar(i)' = MappedSoFar(i)
    PROVE  PathsFit(rl)'
<1> SUFFICES ASSUME NEW i \in DOMAIN Jobs'
             PROVE  /\ rl[Jobs'[i].dtb] = Role(i, 0, 0)
                    /\ \A k \in Nat : k < MappedSoFar(i)' =>
                          \E g : Path(rl, Jobs[i].dtb, i, Jobs[i].base + k, Levels, g)'
  BY DEF PathsFit
<1>1. /\ rl[Jobs[i].dtb] = Role(i, 0, 0)
      /\ \A k \in Nat : k < MappedSoFar(i) =>
            \E g : Path(rl, Jobs[i].dtb, i, Jobs[i].base + k, Levels, g)
  BY DEF PathsFit
<1>2. Jobs'[i] = Jobs[i] /\ MappedSoFar(i)' = MappedSoFar(i)
  OBVIOUS
<1> QED BY <1>1, <1>2 DEF Path

LEMMA DescendTree ==
    ASSUME BuildInv, Descend
    PROVE  TreeInv'
<1>1. /\ phase = "mapping" /\ level < Levels - 1 /\ NextTable(level) # NoFrame
      /\ cur_table' = NextTable(level) /\ level' = level + 1
      /\ UNCHANGED <<size, phase, buf, job, cur_len, new_page, processes, handed>>
  BY DEF Descend
<1> SUFFICES ASSUME Len(handed) <= size
             PROVE  \E rl : RolesFit(rl)' /\ PathsFit(rl)' /\ JobFits(rl)'
  BY <1>1 DEF BuildInv, TreeInv, JobsFit, Jobs
<1>2. PICK rl : RolesFit(rl) /\ PathsFit(rl) /\ JobFits(rl)
  BY DEF BuildInv, TreeInv
<1>3. PICK d, k, v, p :
              /\ k = Len(processes) + 1 /\ v = job.base + cur_len /\ d = job.dtb
              /\ p = Prefix(v, level) /\ p \in Nat /\ v \in VPage /\ k \in Nat \ {0}
              /\ level \in 0..(Levels - 1) /\ Slot(level) \in VIndex /\ Slot(level) = index(v, level)
              /\ Prefix(v, level + 1) = Fan * p + Slot(level)
              /\ cur_table \in Frame
              /\ rl[cur_table] = Role(k, level, p) /\ InUse(rl, cur_table)
              /\ rl[cur_table].level = level /\ rl[cur_table].process = k /\ rl[cur_table].prefix = p
              /\ \A i \in VIndex : Entry(cur_table, i) = buf[cur_table].entries[i]
              /\ \E g : Path(rl, d, k, v, level, g) /\ g[level] = cur_table
  BY <1>1, <1>2, TableReached
<1>4. Jobs' = Jobs /\ \A i : MappedSoFar(i)' = MappedSoFar(i)
  BY <1>1 DEF Jobs, MappedSoFar
<1>5. RolesFit(rl)' /\ PathsFit(rl)'
  BY <1>1, <1>2, <1>4, RolesStay, PathsStay
<1>6. /\ cur_table' \in Frame /\ cur_table' = buf[cur_table].entries[index(v, level)]
      /\ rl[cur_table'] = Role(k, level + 1, Prefix(v, level + 1))
  <2>1. cur_table' = buf[cur_table].entries[Slot(level)]
    BY <1>1, <1>3 DEF NextTable
  <2>2. level < Levels
    BY <1>3, LayoutAssumption
  <2> QED BY <1>1, <1>2, <1>3, <2>1, <2>2 DEF RolesFit
<1>7. PICK g : Path(rl, d, k, v, level, g) /\ g[level] = cur_table
  BY <1>3
<1>8. \E h : Path(rl, d, k, v, level + 1, h) /\ h[level + 1] = cur_table'
  <2>1. PICK n, e : n = level /\ e = cur_table'
    OBVIOUS
  <2>2. n \in Nat /\ e \in Frame
    BY <1>3, <1>6, <2>1
  <2>3. Way(buf, rl, d, k, v, n, g)
    BY <1>7, <2>1 DEF Path
  <2>4. buf[g[n]].entries[index(v, n)] = e /\ rl[e] = Role(k, n + 1, Prefix(v, n + 1))
    BY <1>6, <1>7, <2>1
  <2>5. \E h : Way(buf, rl, d, k, v, n + 1, h) /\ h[n + 1] = e
    BY <2>2, <2>3, <2>4, WayGrows
  <2> QED BY <2>1, <2>5 DEF Path
<1>9. \E h : Path(rl, d, k, v, level, h)' /\ h[level'] = cur_table'
  BY <1>1, <1>8 DEF Path
<1>10. JobFits(rl)'
  <2>1. /\ job.base + job.size <= Fan ^ Levels /\ cur_len <= job.size
        /\ \A f \in Frame : rl[f].process = Len(processes) + 1 /\ rl[f].level = Levels
              => rl[f].prefix < job.base + cur_len
        /\ cur_len < job.size
        /\ rl[new_page] = Role(Len(processes) + 1, Levels + 1, 0)
        /\ cur_len < job.test => buf[new_page] = Data(Len(processes) + 1, cur_len)
    BY <1>1, <1>2 DEF JobFits
  <2> QED BY <1>1, <1>3, <1>9, <2>1 DEF JobFits
<1> QED BY <1>5, <1>10

----------------------------------------------------------------------------
(* The current table after an entry for e. *)
LEMMA LinkedFacts ==
    ASSUME DummyInv, phase = "mapping", NEW e
    PROVE  /\ cur_table \in Frame /\ DOMAIN Linked(e) = Frame
           /\ Linked(e)[cur_table].kind = "table"
           /\ \A i \in VIndex : Linked(e)[cur_table].entries[i] =
                                   IF i = Slot(level) THEN e ELSE Entry(cur_table, i)
           /\ \A g \in Frame : g # cur_table => Linked(e)[g] = buf[g]
<1>1. cur_table \in Frame /\ DOMAIN buf = Frame
  BY DEF DummyInv
<1> QED BY <1>1 DEF Linked

(* The table gets an entry for a frame that gets its role by it. *)
LEMMA EntryGiven ==
    ASSUME BuildInv, phase = "mapping", NEW rl, RolesFit(rl), JobFits(rl),
           NEW f \in Frame, NEW r \in Roles, NextTable(level) = NoFrame,
           InUse(rl, f) => rl[f].level = Levels + 1,
           r = Role(Len(processes) + 1, level + 1, Prefix(job.base + cur_len, level + 1)),
           r.level < Levels => buf'[f] = NewTable,
           buf'[cur_table] = Linked(f)[cur_table],
           \A g \in Frame : g # f /\ g # cur_table => buf'[g] = buf[g]
    PROVE  /\ GetsRole(rl, f, r)
           /\ \E d, k, v, n :
                 /\ d = job.dtb /\ k = Len(processes) + 1 /\ v = job.base + cur_len /\ n = level + 1
                 /\ \E h : Path(With(rl, f, r), d, k, v, n, h)' /\ h[n] = f
<1>1. PICK d, k, v, p :
              /\ k = Len(processes) + 1 /\ v = job.base + cur_len /\ d = job.dtb
              /\ p = Prefix(v, level) /\ p \in Nat /\ v \in VPage /\ k \in Nat \ {0}
              /\ level \in 0..(Levels - 1) /\ Slot(level) \in VIndex /\ Slot(level) = index(v, level)
              /\ Prefix(v, level + 1) = Fan * p + Slot(level) /\ Prefix(v, level + 1) \in Nat
              /\ cur_table \in Frame /\ new_page \in Frame /\ new_page # cur_table
              /\ rl[cur_table] = Role(k, level, p) /\ InUse(rl, cur_table)
              /\ rl[cur_table].level = level /\ rl[cur_table].process = k /\ rl[cur_table].prefix = p
              /\ buf[cur_table].kind = "table"
              /\ \A i \in VIndex : Entry(cur_table, i) = buf[cur_table].entries[i]
              /\ \E g : Path(rl, d, k, v, level, g) /\ g[level] = cur_table
  BY TableReached
<1>2. PICK n, c, s : n = level /\ c = cur_table /\ s = Slot(level)
  OBVIOUS
<1>3. r = Role(k, n + 1, Prefix(v, n + 1)) /\ r = Role(k, n + 1, Fan * p + s) /\ r.process = k
  BY <1>1, <1>2 DEF Role
<1>4. /\ n \in Nat /\ n < Levels /\ Levels \in Nat /\ c \in Frame /\ f # c
      /\ rl \in [Frame -> Roles] /\ NoFrame \notin Nat /\ n \in 0..Levels
  <2>1. n \in Nat /\ n < Levels /\ Levels \in Nat
    BY <1>1, <1>2, LayoutAssumption
  <2> QED BY <1>1, <1>2, <2>1, LayoutAssumption DEF RolesFit
<1>5. /\ buf'[c].kind = "table"
      /\ \A i \in VIndex : buf'[c].entries[i] = IF i = s THEN f ELSE buf[c].entries[i]
      /\ buf[c].entries[s] = NoFrame
  BY <1>1, <1>2, LinkedFacts DEF BuildInv, NextTable
<1>6. GetsRole(rl, f, r)
  <2>1. ASSUME NEW g \in Frame, InUse(rl, g), g # f
        PROVE  \/ buf'[g] = buf[g]
               \/ /\ rl[g].level < Levels /\ buf'[g].kind = "table"
                  /\ \A i \in VIndex :
                        \/ buf'[g].entries[i] = buf[g].entries[i]
                        \/ /\ buf[g].entries[i] = NoFrame /\ buf'[g].entries[i] = f
                           /\ r = Role(rl[g].process, rl[g].level + 1, Fan * rl[g].prefix + i)
    <3>1. CASE g = c
      BY <1>1, <1>2, <1>3, <1>4, <1>5, <3>1
    <3>2. CASE g # c
      BY <1>2, <2>1, <3>2
    <3> QED BY <3>1, <3>2
  <2> QED BY <1>1, <1>3, <2>1 DEF GetsRole
<1> DEFINE rn == With(rl, f, r)
<1>7. rn[f] = r
  BY <1>4, WithFacts
<1>8. PICK g : Path(rl, d, k, v, n, g) /\ g[n] = c
  BY <1>1, <1>2
<1>9. Path(rn, d, k, v, n, g)'
  BY <1>1, <1>4, <1>6, <1>8, PathKept
<1> HIDE DEF rn
<1>10. Way(buf', rn, d, k, v, n, g)
  BY <1>9 DEF Path
<1>11. PICK b : b = buf'
  OBVIOUS
<1>12. b[g[n]].entries[index(v, n)] = f
  BY <1>1, <1>2, <1>5, <1>8, <1>11
<1>13. rn[f] = Role(k, n + 1, Prefix(v, n + 1))
  BY <1>3, <1>7
<1>14. \E h : Way(b, rn, d, k, v, n + 1, h) /\ h[n + 1] = f
  BY <1>4, <1>10, <1>11, <1>12, <1>13, WayGrows
<1>15. PICK m : m = n + 1
  OBVIOUS
<1>16. \E h : Path(rn, d, k, v, m, h)' /\ h[m] = f
  BY <1>11, <1>14, <1>15 DEF Path
<1>17. \E h : Path(With(rl, f, r), d, k, v, m, h)' /\ h[m] = f
  BY <1>16 DEF rn
<1> QED BY <1>1, <1>2, <1>6, <1>15, <1>17

(* A table that was missing. *)
LEMMA CreateTableTree ==
    ASSUME BuildInv, CreateTable
    PROVE  TreeInv'
<1>1. PICK f \in Frames :
        /\ Alloc(f) /\ cur_table' = f
        /\ buf' = [Linked(f) EXCEPT ![f] = NewTable]
  BY DEF CreateTable
<1>2. /\ phase = "mapping" /\ level < Levels - 1 /\ NextTable(level) = NoFrame
      /\ level' = level + 1
      /\ UNCHANGED <<size, phase, round, processes, job, cur_len, new_page>>
  BY DEF CreateTable, NeedsTable
<1>3. f \in Frame /\ size \in Nat /\ Levels \in Nat \ {0}
  BY <1>1, LayoutAssumption, PageSizeAssumption DEF BuildInv, DummyInv, FramesInv
<1>4. /\ Len(handed) \in Nat /\ Len(handed') = Len(handed) + 1
      /\ \A m \in 1..Len(handed) : handed'[m] = handed[m]
      /\ handed'[Len(handed')] = f
      /\ Len(handed') <= size => \A m \in 1..Len(handed) : handed[m] # f
  BY <1>1, <1>2, <1>3, AllocFacts DEF BuildInv
<1>5. JobsFit' /\ Jobs' = Jobs /\ \A i : MappedSoFar(i)' = MappedSoFar(i)
  BY <1>2 DEF BuildInv, TreeInv, JobsFit, Jobs, MappedSoFar
<1> SUFFICES ASSUME Len(handed') <= size
             PROVE  \E rl : RolesFit(rl)' /\ PathsFit(rl)' /\ JobFits(rl)'
  BY <1>2, <1>5 DEF TreeInv
<1>6. PICK rl : RolesFit(rl) /\ PathsFit(rl) /\ JobFits(rl)
  BY <1>3, <1>4 DEF BuildInv, TreeInv
<1>7. PICK d, k, v, p :
              /\ k = Len(processes) + 1 /\ v = job.base + cur_len /\ d = job.dtb
              /\ k \in Nat \ {0} /\ level \in 0..(Levels - 1) /\ Prefix(v, level + 1) \in Nat
              /\ cur_table \in Frame /\ new_page \in Frame /\ new_page # cur_table
              /\ rl[new_page] = Role(k, Levels + 1, 0)
              /\ Jobs \in Seq(Job) /\ Len(Jobs) = k
  BY <1>2, <1>6, TableReached
<1>8. PICK r : r = Role(k, level + 1, Prefix(v, level + 1))
  OBVIOUS
<1>9. r \in Roles /\ r.process = k /\ r.level = level + 1 /\ r.level < Levels
  <2>1. level + 1 \in 0..(Levels + 1) /\ level + 1 < Levels
    BY <1>2, <1>3, <1>7
  <2> QED BY <1>7, <1>8, <2>1 DEF Role, Roles
<1>10. ~InUse(rl, f) /\ InUse(rl, new_page)
  <2>1. InUse(rl, new_page)
    BY <1>7 DEF InUse, Role
  <2> QED BY <1>3, <1>4, <1>6, <2>1, FreshFrame
<1>11. /\ DOMAIN Linked(f) = Frame
       /\ \A g \in Frame : g # cur_table => Linked(f)[g] = buf[g]
  BY <1>2, LinkedFacts DEF BuildInv
<1>12. f # cur_table
  <2>1. InUse(rl, cur_table)
    BY <1>2, <1>6, TableReached
  <2> QED BY <1>10, <2>1
<1>13. /\ buf'[f] = NewTable /\ buf'[cur_table] = Linked(f)[cur_table]
       /\ \A g \in Frame : g # f /\ g # cur_table => buf'[g] = buf[g]
  BY <1>1, <1>3, <1>7, <1>11, <1>12
<1>14. r = Role(Len(processes) + 1, level + 1, Prefix(job.base + cur_len, level + 1))
  BY <1>7, <1>8
<1>15. /\ GetsRole(rl, f, r)
       /\ \E d1, k1, v1, n1 :
             /\ d1 = job.dtb /\ k1 = Len(processes) + 1 /\ v1 = job.base + cur_len /\ n1 = level + 1
             /\ \E h : Path(With(rl, f, r), d1, k1, v1, n1, h)' /\ h[n1] = f
  BY <1>2, <1>3, <1>6, <1>9, <1>10, <1>13, <1>14, EntryGiven
<1> DEFINE rn == With(rl, f, r)
<1>16. rn[f] = r /\ \A g \in Frame : g # f => rn[g] = rl[g]
  BY <1>3, <1>6, <1>9, WithFacts DEF RolesFit
<1>17. RolesFit(rn)'
  <2>1. \E m \in 1..Len(handed') : handed'[m] = f
    BY <1>4
  <2>2. \A m \in 1..Len(handed) : m \in 1..Len(handed') /\ handed'[m] = handed[m]
    BY <1>4
  <2>3. \A i, q : r # Role(i, Levels, q)
    BY <1>3, <1>7, <1>9 DEF Role
  <2>4. Len(Jobs) <= Len(Jobs') /\ r.process <= Len(Jobs') /\ \A i \in DOMAIN Jobs : Jobs'[i] = Jobs[i]
    BY <1>5, <1>7, <1>9
  <2> QED BY <1>2, <1>5, <1>6, <1>7, <1>15, <2>1, <2>2, <2>3, <2>4, RolesKept
<1>18. PathsFit(rn)'
  <2>1. \A i \in DOMAIN Jobs :
              /\ rn[Jobs'[i].dtb] = Role(i, 0, 0)
              /\ \A m \in Nat : m < MappedSoFar(i) =>
                    \E g : Path(rn, Jobs[i].dtb, i, Jobs[i].base + m, Levels, g)'
    BY <1>5, <1>6, <1>15, PathsKept
  <2> HIDE DEF rn
  <2> QED BY <1>5, <2>1 DEF PathsFit
<1>19. \E h : Path(rn, job.dtb, k, job.base + cur_len, level, h)' /\ h[level'] = cur_table'
  <2> HIDE DEF rn
  <2>1. PICK d1, k1, v1, n1 :
             /\ d1 = job.dtb /\ k1 = Len(processes) + 1 /\ v1 = job.base + cur_len /\ n1 = level + 1
             /\ \E h : Path(rn, d1, k1, v1, n1, h)' /\ h[n1] = f
    BY <1>15 DEF rn
  <2>2. d1 = job'.dtb /\ k1 = k /\ v1 = job'.base + cur_len' /\ n1 = level' /\ f = cur_table'
    BY <1>1, <1>2, <1>7, <2>1
  <2> QED BY <2>1, <2>2
<1> HIDE DEF rn
<1>20. JobFits(rn)'
  <2>1. /\ job.base + job.size <= Fan ^ Levels /\ cur_len < job.size /\ cur_len <= job.size
        /\ \A g \in Frame : rl[g].process = k /\ rl[g].level = Levels
              => rl[g].prefix < job.base + cur_len
        /\ cur_len < job.test => buf[new_page] = Data(k, cur_len)
    BY <1>2, <1>6, <1>7 DEF JobFits
  <2>2. \A g \in Frame : rn[g].process = k /\ rn[g].level = Levels
              => rn[g].prefix < job.base + cur_len
    <3>1. r.level # Levels
      BY <1>3, <1>7, <1>9
    <3> QED BY <1>16, <2>1, <3>1
  <2>3. new_page # f
    BY <1>10
  <2>4. rn[new_page] = Role(k, Levels + 1, 0)
    BY <1>7, <1>16, <2>3
  <2>5. cur_len < job.test => buf'[new_page] = Data(k, cur_len)
    BY <1>7, <1>13, <2>1, <2>3
  <2>6. k = Len(processes') + 1
    BY <1>2, <1>7
  <2> QED BY <1>2, <1>19, <2>1, <2>2, <2>4, <2>5, <2>6 DEF JobFits
<1> QED BY <1>17, <1>18, <1>20

(* The page gets its entry; it was not mapped before. *)
LEMMA MapPageTree ==
    ASSUME BuildInv, MapPage
    PROVE  TreeInv'
<1>1. /\ phase = "mapping" /\ level = Levels - 1
      /\ buf' = IF NextTable(level) = NoFrame THEN Linked(new_page) ELSE buf
      /\ cur_len' = cur_len + 1 /\ phase' = "page"
      /\ UNCHANGED <<size, processes, job, handed>>
  BY DEF MapPage
<1>2. Jobs' = Jobs /\ JobsFit'
  BY <1>1 DEF BuildInv, TreeInv, JobsFit, Jobs
<1> SUFFICES ASSUME Len(handed) <= size
             PROVE  \E rl : RolesFit(rl)' /\ PathsFit(rl)' /\ JobFits(rl)'
  BY <1>1, <1>2 DEF TreeInv
<1>3. PICK rl : RolesFit(rl) /\ PathsFit(rl) /\ JobFits(rl)
  BY DEF BuildInv, TreeInv
<1>4. PICK d, k, v, p, f :
              /\ k = Len(processes) + 1 /\ v = job.base + cur_len /\ d = job.dtb /\ f = new_page
              /\ p = Prefix(v, level) /\ p \in Nat /\ v \in VPage /\ k \in Nat \ {0}
              /\ level \in 0..(Levels - 1) /\ Slot(level) \in VIndex
              /\ Prefix(v, level + 1) = Fan * p + Slot(level) /\ Prefix(v, level + 1) \in Nat
              /\ cur_table \in Frame /\ f \in Frame /\ f # cur_table
              /\ InUse(rl, cur_table)
              /\ rl[cur_table].level = level /\ rl[cur_table].process = k /\ rl[cur_table].prefix = p
              /\ \A i \in VIndex : Entry(cur_table, i) = buf[cur_table].entries[i]
              /\ rl[f] = Role(k, Levels + 1, 0)
              /\ job \in Job /\ Jobs \in Seq(Job) /\ Len(Jobs) = k /\ Jobs[k] = job
              /\ cur_len \in Nat /\ Len(processes) \in Nat
  BY <1>1, <1>3, TableReached
<1>5. Levels \in Nat \ {0} /\ level + 1 = Levels /\ Prefix(v, level + 1) = v /\ v \in Nat
  <2>1. Levels \in Nat \ {0}
    BY LayoutAssumption
  <2>2. level + 1 = Levels
    BY <1>1, <2>1
  <2> QED BY <1>4, <2>1, <2>2, PrefixFacts
<1>6. job.base \in Nat /\ job.size \in Nat
  BY <1>4, JobsType DEF BuildInv
<1>7. /\ job.base + job.size <= Fan ^ Levels /\ cur_len < job.size
      /\ \A g \in Frame : rl[g].process = k /\ rl[g].level = Levels => rl[g].prefix < v
      /\ cur_len < job.test => buf[f] = Data(k, cur_len)
  BY <1>1, <1>3, <1>4 DEF JobFits
<1>8. NextTable(level) = NoFrame
  <2> DEFINE e == buf[cur_table].entries[Slot(level)]
  <2>1. NextTable(level) = e
    BY <1>4 DEF NextTable
  <2>2. level < Levels
    BY <1>4, <1>5
  <2>3. \/ e = NoFrame
        \/ e \in Frame /\ rl[e] = Role(k, Levels, v)
    <3>1. cur_table \in Frame /\ InUse(rl, cur_table) /\ rl[cur_table].level < Levels
      BY <1>4, <2>2
    <3>2. \A i \in VIndex : LET x == buf[cur_table].entries[i] IN
                \/ x = NoFrame
                \/ /\ x \in Frame
                   /\ rl[x] = Role(rl[cur_table].process, rl[cur_table].level + 1,
                                   Fan * rl[cur_table].prefix + i)
      BY <1>3, <3>1 DEF RolesFit
    <3>3. Slot(level) \in VIndex
      BY <1>4
    <3>4. \/ e = NoFrame
          \/ /\ e \in Frame
             /\ rl[e] = Role(rl[cur_table].process, rl[cur_table].level + 1,
                             Fan * rl[cur_table].prefix + Slot(level))
      BY <3>2, <3>3
    <3> HIDE DEF e
    <3> QED BY <1>4, <1>5, <3>4
  <2> HIDE DEF e
  <2>4. ASSUME e \in Frame, rl[e] = Role(k, Levels, v) PROVE FALSE
    <3>1. rl[e].process = k /\ rl[e].level = Levels /\ rl[e].prefix = v
      BY <2>4 DEF Role
    <3> QED BY <1>5, <1>7, <2>4, <3>1
  <2> QED BY <2>1, <2>3, <2>4
<1>9. /\ buf'[cur_table] = Linked(f)[cur_table]
      /\ \A g \in Frame : g # cur_table => buf'[g] = buf[g]
  BY <1>1, <1>4, <1>8, LinkedFacts DEF BuildInv
<1>10. PICK r : r = Role(k, level + 1, Prefix(v, level + 1))
  OBVIOUS
<1>11. r = Role(k, Levels, v) /\ r \in Roles /\ r.process = k /\ r.level = Levels /\ r.prefix = v
  BY <1>4, <1>5, <1>10 DEF Role, Roles
<1>12. rl[f].level = Levels + 1 /\ InUse(rl, f)
  BY <1>4 DEF Role, InUse
<1>13. r = Role(Len(processes) + 1, level + 1, Prefix(job.base + cur_len, level + 1))
  BY <1>4, <1>10
<1>14. /\ GetsRole(rl, f, r)
       /\ \E d1, k1, v1, n1 :
             /\ d1 = job.dtb /\ k1 = Len(processes) + 1 /\ v1 = job.base + cur_len /\ n1 = level + 1
             /\ \E h : Path(With(rl, f, r), d1, k1, v1, n1, h)' /\ h[n1] = f
  <2>1. ~(r.level < Levels)
    BY <1>5, <1>11
  <2> QED BY <1>1, <1>3, <1>4, <1>8, <1>9, <1>11, <1>12, <1>13, <2>1, EntryGiven
<1> DEFINE rn == With(rl, f, r)
<1>15. rn[f] = r /\ \A g \in Frame : g # f => rn[g] = rl[g]
  BY <1>3, <1>4, <1>11, WithFacts DEF RolesFit
<1>16. RolesFit(rn)'
  <2>1. handed' = handed /\ \E m \in 1..Len(handed) : handed[m] = f
    BY <1>1, <1>3, <1>4, <1>12 DEF RolesFit
  <2>2. ASSUME NEW i \in DOMAIN Jobs', NEW m \in Nat,
               r = Role(i, Levels, Jobs'[i].base + m), m < Jobs'[i].test
        PROVE  buf'[f] = Data(i, m)
    <3>1. i = k
      BY <1>11, <2>2 DEF Role
    <3>2. Jobs'[i] = job
      BY <1>2, <1>4, <3>1
    <3>3. v = job.base + m
      BY <1>11, <2>2, <3>2 DEF Role
    <3>4. m = cur_len
      BY <1>4, <1>6, <3>3
    <3> QED BY <1>4, <1>7, <1>9, <2>2, <3>1, <3>2, <3>4
  <2>3. Len(Jobs) <= Len(Jobs') /\ r.process <= Len(Jobs') /\ \A i \in DOMAIN Jobs : Jobs'[i] = Jobs[i]
    BY <1>2, <1>4, <1>11
  <2> QED BY <1>1, <1>2, <1>3, <1>4, <1>14, <2>1, <2>2, <2>3, RolesKept
<1>17. \E h : Path(rn, d, k, v, Levels, h)'
  <2> HIDE DEF rn
  <2>1. PICK d1, k1, v1, n1 :
             /\ d1 = job.dtb /\ k1 = Len(processes) + 1 /\ v1 = job.base + cur_len /\ n1 = level + 1
             /\ \E h : Path(rn, d1, k1, v1, n1, h)' /\ h[n1] = f
    BY <1>14 DEF rn
  <2>2. n1 = Levels /\ k1 = k /\ d1 = d /\ v1 = v
    BY <1>4, <1>5, <2>1
  <2> QED BY <2>1, <2>2
<1>18. PathsFit(rn)'
  <2>1. \A i \in DOMAIN Jobs :
              /\ rn[Jobs'[i].dtb] = Role(i, 0, 0)
              /\ \A m \in Nat : m < MappedSoFar(i) =>
                    \E g : Path(rn, Jobs[i].dtb, i, Jobs[i].base + m, Levels, g)'
    BY <1>2, <1>3, <1>14, PathsKept
  <2> HIDE DEF rn
  <2>2. \A i \in DOMAIN Jobs :
              \/ i \in DOMAIN processes /\ MappedSoFar(i)' = MappedSoFar(i)
              \/ i = k
    BY <1>1, <1>4, JobsType DEF BuildInv, MappedSoFar
  <2>3. MappedSoFar(k)' = MappedSoFar(k) + 1 /\ MappedSoFar(k) = cur_len
    BY <1>1, <1>4, JobsType DEF BuildInv, MappedSoFar
  <2>4. \A m \in Nat : m < cur_len + 1 => m < cur_len \/ m = cur_len
    BY <1>4
  <2>5. Jobs[k].dtb = d /\ Jobs[k].base + cur_len = v
    BY <1>4
  <2>6. ASSUME NEW i \in DOMAIN Jobs, NEW m \in Nat, m < MappedSoFar(i)'
        PROVE  \E g : Path(rn, Jobs[i].dtb, i, Jobs[i].base + m, Levels, g)'
    <3>1. CASE m < MappedSoFar(i)
      BY <2>1, <3>1
    <3>2. CASE i = k /\ m = cur_len
      <4>1. d = Jobs'[i].dtb /\ v = Jobs'[i].base + m
        BY <1>2, <2>5, <3>2
      <4> QED BY <1>17, <3>2, <4>1
    <3> QED BY <2>2, <2>3, <2>4, <2>6, <3>1, <3>2
  <2> QED BY <1>2, <2>1, <2>6 DEF PathsFit
<1> HIDE DEF rn
<1>19. JobFits(rn)'
  <2>1. k = Len(processes') + 1
    BY <1>1, <1>4
  <2>2. \A g \in Frame : rn[g].process = k /\ rn[g].level = Levels => rn[g].prefix < v + 1
    <3>1. \A g \in Frame : g # f /\ rn[g].process = k /\ rn[g].level = Levels => rn[g].prefix < v
      BY <1>7, <1>15
    <3>2. \A g \in Frame : rl[g].prefix \in Nat
      BY <1>3 DEF RolesFit, Roles
    <3> QED BY <1>5, <1>11, <1>15, <3>1, <3>2
  <2>3. job.base + (cur_len + 1) = v + 1 /\ cur_len + 1 <= job.size
    <3>1. cur_len < job.size
      BY <1>7
    <3>2. v = job.base + cur_len /\ cur_len \in Nat
      BY <1>4
    <3> QED BY <1>6, <3>1, <3>2
  <2>4. phase' # "mapping"
    BY <1>1
  <2> QED BY <1>1, <1>7, <2>1, <2>2, <2>3, <2>4 DEF JobFits
<1> QED BY <1>16, <1>18, <1>19

----------------------------------------------------------------------------
(* Every step of the building *)

(* Nothing of a process changes, and none is under construction then. *)
LEMMA TreeStays ==
    ASSUME BuildInv, UNCHANGED <<size, buf, handed>>, phase' \notin {"page", "mapping"},
           phase' # "panicked" => phase # "panicked" /\ Jobs' = Jobs,
           \A i \in DOMAIN Jobs' : i \in DOMAIN Jobs /\ Jobs'[i] = Jobs[i] /\ MappedSoFar(i)' = MappedSoFar(i)
    PROVE  TreeInv'
<1>1. JobsFit'
  BY DEF BuildInv, TreeInv, JobsFit
<1>2. ASSUME NEW rl, RolesFit(rl), PathsFit(rl), JobFits(rl)
      PROVE  RolesFit(rl)' /\ PathsFit(rl)' /\ JobFits(rl)'
  <2>1. RolesFit(rl)' /\ PathsFit(rl)'
    BY <1>2, RolesStay, PathsStay
  <2> QED BY <2>1 DEF JobFits
<1> QED BY <1>1, <1>2 DEF BuildInv, TreeInv

(* A process is done when all of its pages are mapped. *)
LEMMA EndProcessTree ==
    ASSUME BuildInv, EndProcess
    PROVE  TreeInv'
<1>1. /\ phase = "page" /\ cur_len = job.size /\ processes' = Append(processes, job)
      /\ phase' = "ready" /\ UNCHANGED <<size, buf, handed>>
  BY DEF EndProcess
<1>2. /\ processes \in Seq(Job) /\ job \in Job /\ Len(processes) \in Nat
      /\ Jobs = Append(processes, job)
  BY <1>1, JobsType DEF BuildInv, DummyInv, Jobs
<1>3. Jobs' = Jobs /\ processes' = Jobs
  BY <1>1, <1>2 DEF Jobs
<1>4. \A i \in DOMAIN Jobs : MappedSoFar(i)' = MappedSoFar(i)
  <2> SUFFICES ASSUME NEW i \in DOMAIN Jobs PROVE MappedSoFar(i)' = MappedSoFar(i)
    OBVIOUS
  <2>1. MappedSoFar(i)' = Jobs[i].size
    BY <1>3 DEF MappedSoFar
  <2>2. CASE i \in DOMAIN processes
    BY <1>2, <2>1, <2>2 DEF MappedSoFar
  <2>3. CASE i \notin DOMAIN processes
    <3>1. Jobs[i] = job
      BY <1>2, <2>3
    <3> QED BY <1>1, <2>1, <2>3, <3>1 DEF MappedSoFar
  <2> QED BY <2>2, <2>3
<1> QED BY <1>1, <1>3, <1>4, TreeStays

LEMMA PanicTree ==
    ASSUME BuildInv, Panic
    PROVE  TreeInv'
<1>1. phase' = "panicked" /\ UNCHANGED <<size, buf, handed, processes, job, cur_len>>
  BY DEF Panic
<1>2. Jobs' = processes /\ \A i : MappedSoFar(i)' = MappedSoFar(i)
  BY <1>1 DEF Jobs, MappedSoFar
<1>3. \A i \in DOMAIN processes : i \in DOMAIN Jobs /\ Jobs[i] = processes[i]
  BY JobsType DEF BuildInv
<1> QED BY <1>1, <1>2, <1>3, TreeStays

LEMMA QuietTree ==
    ASSUME BuildInv, Shuffle \/ NextRound \/ UseClone
    PROVE  TreeInv'
<1>1. /\ phase \in {"shuffling", "ready"} /\ phase' \in {"shuffling", "ready"}
      /\ UNCHANGED <<size, buf, handed, processes, job, cur_len>>
  BY DEF Shuffle, NextRound, UseClone
<1>2. Jobs' = Jobs /\ \A i : MappedSoFar(i)' = MappedSoFar(i)
  BY <1>1 DEF Jobs, MappedSoFar
<1> QED BY <1>1, <1>2, TreeStays

LEMMA FramesStep ==
    ASSUME DummyInv, FramesInv, DummyNext
    PROVE  FramesInv'
<1>1. CASE AllocDtb
  <2>1. PICK f \in Frames : Alloc(f)
    BY <1>1 DEF AllocDtb
  <2>2. phase = "ready" /\ phase' = "page" /\ UNCHANGED <<size, round>> /\ f \in Frame
    BY <1>1 DEF AllocDtb, DummyInv
  <2> QED BY <2>1, <2>2, AllocFacts
<1>2. CASE NextPage
  <2>1. PICK f \in Frames : Alloc(f)
    BY <1>2 DEF NextPage
  <2>2. phase = "page" /\ phase' = "mapping" /\ UNCHANGED <<size, round>> /\ f \in Frame
    BY <1>2 DEF NextPage, DummyInv
  <2> QED BY <2>1, <2>2, AllocFacts
<1>3. CASE CreateTable
  <2>1. PICK f \in Frames : Alloc(f)
    BY <1>3 DEF CreateTable
  <2>2. phase = "mapping" /\ phase' = phase /\ UNCHANGED <<size, round>> /\ f \in Frame
    BY <1>3 DEF CreateTable, NeedsTable, DummyInv
  <2> QED BY <2>1, <2>2, AllocFacts
<1>4. CASE Descend \/ MapPage \/ EndProcess \/ Panic
  <2>1. phase # "shuffling" /\ phase' # "shuffling"
    BY <1>4 DEF Descend, MapPage, EndProcess, Panic, NeedsTable
  <2>2. UNCHANGED <<size, round, handed, page_list, pt_pages>>
    BY <1>4 DEF Descend, MapPage, EndProcess, Panic
  <2> QED BY <2>1, <2>2, SameFrames
<1>5. CASE UseClone
  <2>1. /\ phase # "shuffling" /\ phase' # "shuffling"
        /\ UNCHANGED <<size, round, handed>> /\ page_list' = <<>> /\ pt_pages' = <<>>
    BY <1>5 DEF UseClone
  <2> QED BY <2>1, NoneLeft
<1> QED BY <1>1, <1>2, <1>3, <1>4, <1>5, ShuffleFrames, NextRoundFrames DEF DummyNext

LEMMA BuildStep ==
    ASSUME BuildInv, DummyNext
    PROVE  BuildInv'
<1>1. DummyInv' /\ FramesInv'
  BY DummyStep, FramesStep DEF BuildInv
<1>2. TreeInv'
  BY QuietTree, AllocDtbTree, NextPageTree, DescendTree, CreateTableTree, MapPageTree,
     EndProcessTree, PanicTree DEF DummyNext
<1> QED BY <1>1, <1>2 DEF BuildInv

LEMMA BuildStart == ASSUME DummyInit PROVE BuildInv
<1>1. DummyInv /\ FramesInv
  BY DummyStart, FramesStart
<1>2. phase = "shuffling" /\ processes = <<>> /\ handed = <<>>
  BY DEF DummyInit
<1>3. Jobs = <<>> /\ DOMAIN Jobs = {} /\ Len(Jobs) = 0
  BY <1>2 DEF Jobs
<1> DEFINE rl == [f \in Frame |-> Role(0, 0, 0)]
<1>4. rl \in [Frame -> Roles] /\ \A f \in Frame : rl[f].process = 0
  BY LayoutAssumption DEF Role, Roles
<1> HIDE DEF rl
<1>5. RolesFit(rl)
  BY <1>2, <1>3, <1>4 DEF RolesFit, InUse
<1>6. PathsFit(rl) /\ JobFits(rl) /\ JobsFit
  BY <1>2, <1>3 DEF PathsFit, JobFits, JobsFit
<1> QED BY <1>1, <1>5, <1>6 DEF BuildInv, TreeInv

LEMMA BuildSame == ASSUME BuildInv, UNCHANGED dummy PROVE BuildInv'
<1>1. DummyInv'
  BY DummySame DEF BuildInv
<1>2. UNCHANGED <<size, phase, page_prelist, round, split, page_list, pt_pages, buf,
           job, cur_len, new_page, cur_table, level, processes, handed>>
  BY DEF dummy
<1>3. FramesInv'
  <2>1. \A m : Left(m)' = Left(m)
    BY <1>2 DEF Left
  <2>2. FirstRound' = FirstRound
    BY <1>2 DEF FirstRound
  <2> QED BY <1>2, <2>1, <2>2 DEF BuildInv, FramesInv
<1>4. TreeInv'
  <2>1. Jobs' = Jobs /\ \A i : MappedSoFar(i)' = MappedSoFar(i)
    BY <1>2 DEF Jobs, MappedSoFar
  <2>2. \A rl : RolesFit(rl) => RolesFit(rl)'
    BY <1>2, <2>1 DEF RolesFit, InUse
  <2>3. \A rl : PathsFit(rl) => PathsFit(rl)'
    BY <1>2, <2>1, PathsStay
  <2>4. \A rl : JobFits(rl) => JobFits(rl)'
    BY <1>2 DEF JobFits, Path
  <2> QED BY <1>2, <2>1, <2>2, <2>3, <2>4 DEF BuildInv, TreeInv, JobsFit
<1> QED BY <1>1, <1>3, <1>4 DEF BuildInv

LEMMA NewVirtBuilds ==
    ASSUME BuildInv, NewVirt
    PROVE  BuildInv'
<1>1. /\ phase = "ready" /\ page_list' = <<>> /\ pt_pages' = <<>>
      /\ UNCHANGED <<size, phase, round, buf, job, cur_len, processes, handed, cur_table, new_page, level>>
  BY DEF NewVirt
<1>2. FramesInv'
  BY <1>1, NoneLeft DEF BuildInv
<1>3. TreeInv'
  <2>1. Jobs' = Jobs /\ \A i : MappedSoFar(i)' = MappedSoFar(i)
    BY <1>1 DEF Jobs, MappedSoFar
  <2> QED BY <1>1, <2>1, TreeStays
<1>4. DummyInv'
  BY <1>1 DEF BuildInv, DummyInv, Frames
<1> QED BY <1>2, <1>3, <1>4 DEF BuildInv

LEMMA SessionBuilds ==
    ASSUME BuildInv, [SessionNext]_allvars
    PROVE  BuildInv'
<1>1. CASE Build
  BY <1>1, BuildStep DEF Build
<1>2. CASE NewVirt
  BY <1>2, NewVirtBuilds
<1>3. CASE ~Build /\ ~NewVirt
  <2>1. UNCHANGED dummy
    BY <1>3 DEF SessionNext, Call, NewBatcher, Queue, CommitOrDrop, Ask, Tell, Memory, allvars
  <2> QED BY <2>1, BuildSame
<1> QED BY <1>1, <1>2, <1>3

(* The walk of virt_to_phys goes the way that map_to has built. *)
LEMMA WalkArrives ==
    ASSUME BuildInv, NEW rl, RolesFit(rl), NEW d \in Frame, NEW i \in Nat \ {0}, NEW v \in VPage,
           NEW g, Path(rl, d, i, v, Levels, g)
    PROVE  vtop(d, v) = g[Levels]
<1>1. Levels \in Nat \ {0} /\ NoFrame \notin Nat /\ v \in Nat
  BY LayoutAssumption, PrefixFacts
<1>2. PICK at \in [0..Levels -> Frame \cup {NoFrame}] :
              /\ vtop(d, v) = at[Levels]
              /\ \A l \in 0..Levels :
                    at[l] = IF l = 0 THEN d
                            ELSE IF at[l - 1] = NoFrame THEN NoFrame
                            ELSE Entry(at[l - 1], index(v, l - 1))
  BY <1>1, WalkUnfolds DEF BuildInv
<1>3. /\ g \in [0..Levels -> Frame] /\ g[0] = d
      /\ \A l \in 0..Levels : rl[g[l]] = Role(i, l, Prefix(v, l))
      /\ \A l \in 0..(Levels - 1) : buf[g[l]].entries[index(v, l)] = g[l + 1]
  BY DEF Path, Way
<1> DEFINE Bad == {l \in 0..Levels : at[l] # g[l]}
<1>4. Bad = {}
  <2> SUFFICES ASSUME Bad # {} PROVE FALSE
    OBVIOUS
  <2> DEFINE S == Bad
  <2>10. S \subseteq Nat /\ S # {}
    BY <1>1
  <2> HIDE DEF S
  <2>11. \E x \in S : \A y \in S : x <= y
    BY <2>10, LeastOf
  <2>1. PICK m \in Bad : \A l \in Bad : m <= l
    BY <2>11 DEF S
  <2>2. m \in 0..Levels /\ at[m] # g[m]
    OBVIOUS
  <2>3. m # 0
    BY <1>1, <1>2, <1>3, <2>2
  <2>4. m - 1 \in 0..(Levels - 1) /\ m - 1 \in 0..Levels /\ m - 1 + 1 = m /\ m - 1 < Levels
    BY <1>1, <2>2, <2>3
  <2>5. at[m - 1] = g[m - 1]
    <3>1. m - 1 \notin Bad
      BY <2>1, <2>2, <2>4
    <3> QED BY <2>4, <3>1
  <2>6. g[m - 1] \in Frame /\ g[m - 1] # NoFrame
    BY <1>1, <1>3, <2>4 DEF Frame
  <2>7. at[m] = Entry(g[m - 1], index(v, m - 1))
    BY <1>2, <2>2, <2>3, <2>5, <2>6
  <2>8. buf[g[m - 1]].kind = "table"
    <3>1. rl[g[m - 1]] = Role(i, m - 1, Prefix(v, m - 1))
      BY <1>3, <2>4
    <3>2. InUse(rl, g[m - 1]) /\ rl[g[m - 1]].level < Levels
      BY <2>4, <3>1 DEF Role, InUse
    <3> QED BY <2>6, <3>2 DEF RolesFit
  <2>9. at[m] = g[m]
    BY <1>3, <2>4, <2>7, <2>8 DEF Entry
  <2> QED BY <2>2, <2>9
<1> QED BY <1>1, <1>2, <1>4

LEMMA BuiltRight == ASSUME BuildInv PROVE ProcessesAreRight
<1> SUFFICES ASSUME Len(handed) <= size, NEW i \in DOMAIN processes,
                    NEW k \in 0..(processes[i].size - 1)
             PROVE  LET f == vtop(processes[i].dtb, processes[i].base + k) IN
                    /\ f # NoFrame
                    /\ k < processes[i].test => buf[f] = Data(i, k)
  BY DEF ProcessesAreRight
<1>1. PICK rl : RolesFit(rl) /\ PathsFit(rl) /\ JobFits(rl)
  BY DEF BuildInv, TreeInv
<1>2. /\ processes \in Seq(Job) /\ Jobs \in Seq(Job)
      /\ \A j \in Job : j.dtb \in Frame /\ j.base \in Nat /\ j.size \in Nat /\ j.test \in Nat
      /\ i \in DOMAIN Jobs /\ Jobs[i] = processes[i]
  BY JobsType DEF BuildInv
<1>3. PICK d, v : d = processes[i].dtb /\ v = processes[i].base + k
  OBVIOUS
<1>4. /\ k \in Nat /\ k < MappedSoFar(i) /\ i \in Nat \ {0} /\ d \in Frame
      /\ Levels \in Nat /\ NoFrame \notin Nat
  BY <1>2, <1>3, LayoutAssumption DEF MappedSoFar
<1>5. v \in VPage
  BY <1>1, <1>2, <1>3, <1>4, MappedPages
<1>6. PICK g : Path(rl, d, i, v, Levels, g)
  BY <1>1, <1>2, <1>3, <1>4 DEF PathsFit
<1>7. vtop(d, v) = g[Levels]
  BY <1>1, <1>4, <1>5, <1>6, WalkArrives
<1>8. g[Levels] \in Frame /\ rl[g[Levels]] = Role(i, Levels, v)
  BY <1>4, <1>5, <1>6, PrefixFacts DEF Path, Way
<1>9. k < processes[i].test => buf[g[Levels]] = Data(i, k)
  BY <1>1, <1>2, <1>3, <1>4, <1>8 DEF RolesFit
<1>10. g[Levels] # NoFrame
  BY <1>4, <1>8 DEF Frame
<1> QED BY <1>3, <1>7, <1>9, <1>10

----------------------------------------------------------------------------
(* The theorems *)

(* The inductive invariant of Batcher holds in every reachable state, for  *)
(* every bound on the entries.                                             *)
THEOREM Invariance == BatcherSpec => []BIInv
BY InitInv, NextInv, PTL DEF BatcherSpec

(* Nothing queued gets lost while the batcher lives: it was served, or is  *)
(* still in its list for the next commit (phys_mem_batcher.rs:31-43).      *)
THEOREM NothingIsLost == BatcherSpec => []QueuedOrServed
<1>1. BIInv => QueuedOrServed
  BY DEF BIInv
<1> QED BY <1>1, Invariance, PTL

(* Ok means that both lists have been served, also in the commit of Drop   *)
(* (phys_mem_batcher.rs:31-43, 89-93).                                     *)
THEOREM OkIsComplete == BatcherSpec => []OkMeansServed
<1>1. BIInv => OkMeansServed
  BY DEF BIInv
<1> QED BY <1>1, Invariance, PTL

(* Writes go out only after every read of the batch was answered           *)
(* (phys_mem_batcher.rs:32-40).                                            *)
THEOREM WritesWait == BatcherSpec => []ReadsBeforeWrites
<1>1. BIInv => ReadsBeforeWrites
  BY DEF BIInv, ListsInv, QueuedOrServed, ReadsBeforeWrites
<1> QED BY <1>1, Invariance, PTL

(* A write goes out again only after the memory has refused its list       *)
(* (phys_mem_batcher.rs:37-40, 91).                                        *)
THEOREM RepeatsAreErrors == BatcherSpec => []RepeatedForErrors
<1>1. BIInv => RepeatedForErrors
  <2> SUFFICES ASSUME BIInv, NEW i \in Id
               PROVE  attempts[i] <= write_errors +
                          (IF i \in served \/ stage = "writing" THEN 1 ELSE 0)
    BY DEF RepeatedForErrors
  <2> QED BY DEF BIInv, AttemptsInv, BatcherTypeOK
<1> QED BY <1>1, Invariance, PTL

(* In every reachable state of a session the invariants of its memory and  *)
(* of its batcher hold.                                                    *)
THEOREM SessionInvariance == SessionSpec => [](SessionInv /\ BIInv)
BY BothStart, BothStep, PTL DEF SessionSpec

(* The types of a session: the physical addresses the translation hands    *)
(* out lie in the memory, and a batcher's lists hold only entries that     *)
(* were queued (virt_mem.rs:186-193, phys_mem_batcher.rs:14-29).           *)
THEOREM SessionTyped == SessionSpec => []SessionTypeOK
<1>1. SessionInv /\ BIInv => SessionTypeOK
  <2> SUFFICES ASSUME SessionInv, BIInv PROVE SessionTypeOK
    OBVIOUS
  <2>1. TypeOK /\ BatcherTypeOK
    BY DEF SessionInv, VirtInv, BIInv
  <2>2. read_list \cup write_list \subseteq DOMAIN items
    BY DEF SessionInv, ItemsInv
  <2> QED BY <2>1, <2>2 DEF SessionInv, SessionTypeOK
<1> QED BY <1>1, SessionInvariance, PTL

(* What a read has put in its buffers when it returns is what memory held  *)
(* in a frame that was mapped there during the call, or zero where nothing *)
(* was; bytes are left alone only by an error (virtual_dma.rs:162-191).    *)
THEOREM ReadsAreTrue == SessionSpec => []ReadIsTrue
<1>1. SessionInv => ReadIsTrue
  BY DEF SessionInv, VirtInv
<1> QED BY <1>1, SessionInvariance, PTL

(* A write changes only bytes of frames that its pages were mapped to, to  *)
(* what one of its items says, and one told as complete has written every  *)
(* byte (virtual_dma.rs:193-216).                                          *)
THEOREM WritesAreTrue == SessionSpec => []WriteIsTrue
<1>1. SessionInv => WriteIsTrue
  BY DEF SessionInv, VirtInv
<1> QED BY <1>1, SessionInvariance, PTL

(* The batcher of a session, over the virtual memory or the physical one,  *)
(* does what Batcher says of one (phys_mem_batcher.rs:31-43).              *)
THEOREM SessionBatches == SessionSpec => BatcherSpec
<1>1. SessionInv /\ BIInv /\ [SessionNext]_allvars => [BatcherNext]_bvars
  BY BatcherStep DEF BIInv
<1> QED BY <1>1, BothStart, SessionInvariance, PTL DEF SessionSpec, BatcherSpec

(* When a map of the address space is returned and no mapping changed in   *)
(* between, a translation map says for every byte that is mapped where it  *)
(* is and no two of its entries could be one; a page map covers what is    *)
(* mapped and the gaps up to the length asked for, and its entries are     *)
(* further apart (virtual_dma.rs:219-278).                                 *)
THEOREM MapsHold == SessionSpec => []MapsAreExact
<1>1. SessionInit => MapsInv
  BY MapsStart
<1>2. SessionInv /\ BIInv /\ MapsInv /\ [SessionNext]_allvars => MapsInv'
  BY MapsSession
<1>3. MapsInv => MapsAreExact
  BY DEF MapsInv
<1> QED BY <1>1, <1>2, <1>3, SessionInvariance, PTL DEF SessionSpec

(* Every page of a process that DummyMemory has built is reached through   *)
(* the tables of that process, and those of its test buffer hold their own *)
(* part of it, however the pages were split and shuffled, as long as not   *)
(* more frames were handed out than there are (dummy.rs:374-457).          *)
THEOREM ProcessesBuilt == SessionSpec => []ProcessesAreRight
<1>1. SessionInit => BuildInv
  BY BuildStart DEF SessionInit
<1>2. BuildInv /\ [SessionNext]_allvars => BuildInv'
  BY SessionBuilds
<1>3. BuildInv => ProcessesAreRight
  BY BuiltRight
<1> QED BY <1>1, <1>2, <1>3, PTL DEF SessionSpec
=============================================================================
