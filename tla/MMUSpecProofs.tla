---------------------------- MODULE MMUSpecProofs ----------------------------
(***************************************************************************)
(* The page chunks of every buffer, for every page size and every address  *)
(* space that is made of pages, whatever cuts the caller refuses: they     *)
(* are a partition of the buffer, along pages.                             *)
(*                                                                         *)
(* And the walk over many ranges at once, for every architecture the model *)
(* takes: whatever the guest does to its tables between two reads, every   *)
(* byte asked for is answered once.  The invariant of the walk, WalkInv,   *)
(* says where the bytes are that have not been answered: with the pieces   *)
(* still to be cut, in the list of the level, or in the list of the next.  *)
(*                                                                         *)
(* The answers are those of a walk for one byte alone: RightInv says at    *)
(* which entry of that walk the bytes of every chunk stand, and that a     *)
(* chunk has all that is walked on its page.                               *)
(***************************************************************************)
EXTENDS MCMMUSpec, NaturalsInduction, WellFoundedInduction, TLAPS

PSize == page_size

----------------------------------------------------------------------------
(* Division with remainder *)

LEMMA Euclid ==
    ASSUME NEW p \in Nat \ {0}, NEW x \in Int
    PROVE  x = p * (x \div p) + (x % p) /\ x % p \in 0..(p - 1) /\ x \div p \in Int
OBVIOUS

LEMMA Multiples ==
    ASSUME NEW p \in Nat \ {0}, NEW q \in Int, NEW s \in Int, q < s
    PROVE  p * q + p <= p * s
<1>1. s - q >= 1
  OBVIOUS
<1>2. p * (s - q) >= p
  BY <1>1
<1> QED BY <1>2

LEMMA Unique ==
    ASSUME NEW p \in Nat \ {0}, NEW q \in Int, NEW s \in Int,
           NEW r \in 0..(p - 1), NEW t \in 0..(p - 1), p * q + r = p * s + t
    PROVE  q = s /\ r = t
<1>1. ~(q < s)
  BY Multiples
<1>2. ~(s < q)
  BY Multiples
<1> QED BY <1>1, <1>2

(* x has quotient q and remainder r; y is k times p away from x.           *)
Splits(x, p, q, r) ==
    p \in Nat \ {0} /\ x \in Int /\ q \in Int /\ r \in 0..(p - 1) /\ x = p * q + r

Moves(x, y, p, k) ==
    p \in Nat \ {0} /\ x \in Int /\ y \in Int /\ k \in Int /\ y = x + p * k

LEMMA DivMod ==
    ASSUME NEW x, NEW p, NEW q, NEW r, Splits(x, p, q, r)
    PROVE  x % p = r /\ x \div p = q
BY Euclid, Unique DEF Splits

LEMMA Shift ==
    ASSUME NEW x, NEW y, NEW p, NEW k, Moves(x, y, p, k)
    PROVE  y % p = x % p /\ y \div p = (x \div p) + k
<1> DEFINE q == x \div p
           r == x % p
           s == q + k
<1>1. x = p * q + r /\ r \in 0..(p - 1) /\ q \in Int
  BY Euclid DEF Moves
<1> HIDE DEF q, r
<1>2. y = p * (q + k) + r /\ q + k \in Int
  BY <1>1 DEF Moves
<1>3. Splits(y, p, s, r)
  BY <1>1, <1>2 DEF Splits, Moves
<1> HIDE DEF s
<1>4. y % p = r /\ y \div p = s
  BY <1>3, DivMod
<1> QED BY <1>4 DEF q, r, s

LEMMA SmallDiv ==
    ASSUME NEW p \in Nat \ {0}, NEW x \in 0..(p - 1)
    PROVE  x % p = x /\ x \div p = 0
<1>1. Splits(x, p, 0, x)
  BY DEF Splits
<1> QED BY <1>1, DivMod

(* A sum may be wrapped at any point of it.                                *)
LEMMA WrapSum ==
    ASSUME NEW p \in Nat \ {0}, NEW x \in Int, NEW y \in Int
    PROVE  ((x % p) + y) % p = (x + y) % p
<1> DEFINE q == x \div p
           r == x % p
<1>1. x = p * q + r /\ r \in Int /\ q \in Int
  BY Euclid
<1> HIDE DEF q, r
<1>2. Moves(x + y, r + y, p, -q)
  BY <1>1 DEF Moves
<1>3. (r + y) % p = (x + y) % p
  BY <1>2, Shift
<1> QED BY <1>3 DEF r

----------------------------------------------------------------------------
(* Pages and the address space *)

LEMMA Consts ==
    /\ PSize \in Nat \ {0} /\ Space \in Nat \ {0} /\ PSize < Space
    /\ Space \div PSize \in Int /\ Space = PSize * (Space \div PSize)
<1>1. PSize \in Nat \ {0} /\ Space \in Nat \ {0} /\ PSize < Space /\ Space % PSize = 0
  BY PageSizeAssumption, SpaceAssumption DEF PSize
<1>2. Space = PSize * (Space \div PSize) + (Space % PSize) /\ Space \div PSize \in Int
  BY <1>1, Euclid
<1> QED BY <1>1, <1>2

(* Wrapping at the end of the space does not change the place in the page. *)
LEMMA WrapKeepsPage ==
    ASSUME NEW x \in Int
    PROVE  (x % Space) % PSize = x % PSize
<1> DEFINE c == Space \div PSize
           q == x \div Space
           r == x % Space
<1>1. PSize \in Nat \ {0} /\ Space = PSize * c /\ c \in Int /\ Space \in Nat \ {0}
  BY Consts
<1>2. x = Space * q + r /\ r \in Int /\ q \in Int
  BY <1>1, Euclid
<1> HIDE DEF c, q, r
<1>3. Moves(x, r, PSize, c * (-q))
  BY <1>1, <1>2 DEF Moves
<1>4. r % PSize = x % PSize
  BY <1>3, Shift
<1> QED BY <1>4 DEF r

LEMMA EndLenType ==
    ASSUME NEW a \in Address, NEW off \in Nat
    PROVE  end_len(a, off) \in Nat /\ end_len(a, off) < Space
<1> DEFINE y == (a + page_size) % Space
           x == as_page_aligned(y) - a - 1 + off
<1>1. Space \in Nat \ {0} /\ page_size \in Nat \ {0} /\ a \in Int
  BY Consts DEF PSize, Address
<1>2. y \in Int
  BY <1>1, Euclid
<1> HIDE DEF y
<1>3. x \in Int
  BY <1>1, <1>2, Euclid DEF as_page_aligned
<1>4. end_len(a, off) = x % Space
  BY DEF end_len, y
<1> HIDE DEF x
<1>5. x % Space \in 0..(Space - 1)
  BY <1>1, <1>3, Euclid
<1> QED BY <1>1, <1>4, <1>5

(* Without a refused cut the chunk ends with its page.                     *)
LEMMA EndOfPage ==
    ASSUME NEW a \in Address
    PROVE  end_len(a, 0) = PSize - 1 - (a % PSize) /\ a % PSize \in 0..(PSize - 1)
<1> DEFINE c == Space \div PSize
           q == a \div PSize
           r == a % PSize
           y == (a + PSize) % Space
<1>1. PSize \in Nat \ {0} /\ Space = PSize * c /\ c \in Int /\ Space \in Nat \ {0} /\ PSize < Space
  BY Consts
<1>2. a \in Nat /\ a < Space
  BY <1>1 DEF Address
<1>3. a = PSize * q + r /\ r \in 0..(PSize - 1) /\ q \in Int
  BY <1>1, <1>2, Euclid
<1>4. end_len(a, 0) = ((y - (y % PSize)) - a - 1 + 0) % Space
  BY DEF end_len, as_page_aligned, PSize
<1> HIDE DEF c, q, r
<1>5. y % PSize = r
  <2> DEFINE s == a + PSize
  <2>1. Splits(s, PSize, q + 1, r)
    BY <1>1, <1>2, <1>3 DEF Splits
  <2>2. y = s % Space /\ s \in Int
    BY <1>1, <1>2
  <2> HIDE DEF s, y
  <2>3. y % PSize = s % PSize
    BY <2>2, WrapKeepsPage
  <2>4. s % PSize = r
    BY <2>1, DivMod
  <2> QED BY <2>3, <2>4
<1>6. CASE a + PSize < Space
  <2>1. y = a + PSize
    <3>1. a + PSize \in 0..(Space - 1)
      BY <1>1, <1>2, <1>6
    <3> QED BY <1>1, <3>1, SmallDiv
  <2> HIDE DEF y
  <2>2. (y - (y % PSize)) - a - 1 + 0 = PSize - 1 - r
    BY <1>1, <1>2, <1>3, <1>5, <2>1
  <2>3. PSize - 1 - r \in 0..(Space - 1)
    BY <1>1, <1>3
  <2>4. (PSize - 1 - r) % Space = PSize - 1 - r
    BY <1>1, <2>3, SmallDiv
  <2> QED BY <1>3, <1>4, <2>2, <2>4 DEF r
<1>7. CASE a + PSize >= Space
  <2>1. q = c - 1
    <3>1. ~(q < c - 1)
      <4> SUFFICES ASSUME q < c - 1 PROVE FALSE
        OBVIOUS
      <4>1. PSize * q + PSize <= PSize * (c - 1)
        BY <1>1, <1>3, Multiples
      <4>2. PSize * (c - 1) = PSize * c - PSize
        BY <1>1
      <4> QED BY <1>1, <1>3, <1>7, <4>1, <4>2
    <3>2. ~(c - 1 < q)
      <4> SUFFICES ASSUME c - 1 < q PROVE FALSE
        OBVIOUS
      <4>1. PSize * (c - 1) + PSize <= PSize * q
        BY <1>1, <1>3, Multiples
      <4>2. PSize * (c - 1) = PSize * c - PSize
        BY <1>1
      <4> QED BY <1>1, <1>2, <1>3, <4>1, <4>2
    <3> QED BY <1>1, <1>3, <3>1, <3>2
  <2>2. a = Space - PSize + r
    <3>1. PSize * (c - 1) = PSize * c - PSize
      BY <1>1
    <3> QED BY <1>1, <1>3, <2>1, <3>1
  <2>3. y = r
    <3>1. Splits(a + PSize, Space, 1, r)
      BY <1>1, <1>2, <1>3, <2>2 DEF Splits
    <3> QED BY <3>1, DivMod
  <2> HIDE DEF y
  <2>4. (y - (y % PSize)) - a - 1 + 0 = -(a + 1)
    BY <1>2, <1>3, <1>5, <2>3
  <2> DEFINE s == -(a + 1)
             t == PSize - 1 - r
  <2>5. Splits(s, Space, -1, t)
    BY <1>1, <1>2, <1>3, <2>2 DEF Splits
  <2>6. end_len(a, 0) = s % Space
    BY <1>4, <2>4
  <2> HIDE DEF s, t
  <2>7. end_len(a, 0) = t
    BY <2>5, <2>6, DivMod
  <2> QED BY <1>3, <2>7 DEF r, t
<1> QED BY <1>1, <1>2, <1>6, <1>7

(* size_hint counts pages from the first byte's to the last one's.         *)
LEMMA HintCounts ==
    ASSUME NEW a \in Nat, NEW n \in Nat
    PROVE  size_hint(a, n) = ((a + n - 1) \div PSize) - (a \div PSize) + 1
<1> DEFINE z == a + n - 1
           q == z \div PSize
           s == a \div PSize
           d == (z - (z % PSize)) - (a - (a % PSize))
<1>1. PSize \in Nat \ {0}
  BY Consts
<1>2. z \in Int
  OBVIOUS
<1>3. size_hint(a, n) = (d \div PSize) + 1
  BY DEF size_hint, as_page_aligned, PSize
<1> HIDE DEF z
<1>4. z = PSize * q + (z % PSize) /\ q \in Int /\ z % PSize \in Int
  BY <1>1, <1>2, Euclid
<1>5. a = PSize * s + (a % PSize) /\ s \in Int /\ a % PSize \in Int
  BY <1>1, Euclid
<1> HIDE DEF q, s
<1>6. d = PSize * q - PSize * s
  BY <1>1, <1>2, <1>4, <1>5
<1> HIDE DEF d
<1>7. Splits(d, PSize, q - s, 0)
  BY <1>1, <1>4, <1>5, <1>6 DEF Splits
<1>8. d \div PSize = q - s
  BY <1>7, DivMod
<1> QED BY <1>3, <1>8 DEF q, s, z

----------------------------------------------------------------------------
(* The inductive invariant *)

CutPart == [addr : Address, len : Nat]

ChunkTypes ==
    /\ v \in Nat \cup {NoBuf} /\ cur_address \in Address /\ cur_off \in Nat
    /\ start \in Address /\ total \in Nat /\ done \in Nat
    /\ merged \in BOOLEAN /\ chunks \in Seq(CutPart)
    /\ hint = size_hint(start, total)

(* Every chunk begins where the one before it ended; the next one would    *)
(* begin at AfterLast.                                                     *)
Linked(s, first) ==
    \A j \in 1..Len(s) :
        s[j].addr = IF j = 1 THEN first ELSE (s[j - 1].addr + s[j - 1].len) % Space

AfterLast(s, first) ==
    IF Len(s) = 0 THEN first ELSE (s[Len(s)].addr + s[Len(s)].len) % Space

PartInv ==
    /\ v # NoBuf => /\ done + v = total
                    /\ cur_address = AddressAfter(done)
                    /\ cur_address = AfterLast(chunks, start)
                    /\ v = 0 => total = 0
    /\ v = NoBuf => done = total
    /\ Linked(chunks, start)

(* Without a refused cut every chunk lies in a page, and all but the last  *)
(* end with it, so that every chunk is the next page.                      *)
InPages(s, open) ==
    \A j \in 1..Len(s) :
        /\ (s[j].addr % PSize) + s[j].len <= PSize
        /\ j > 1 => s[j].addr % PSize = 0
        /\ j < Len(s) \/ open => (s[j].addr % PSize) + s[j].len = PSize

PagesInv ==
    ~merged =>
        /\ v # NoBuf => cur_off = 0
        /\ v # NoBuf /\ Len(chunks) > 0 => cur_address % PSize = 0
        /\ Len(chunks) = 0 => v # NoBuf
        /\ InPages(chunks, v # NoBuf)
        /\ start + total <= Space /\ total > 0 =>
              /\ v # NoBuf => (start + done) \div PSize = (start \div PSize) + Len(chunks)
              /\ v = NoBuf => ((start + total - 1) \div PSize) + 1 = (start \div PSize) + Len(chunks)

ChunksInv == ChunkTypes /\ PartInv /\ PagesInv

LEMMA InitChunks == ChunksInit => ChunksInv
<1> SUFFICES ASSUME ChunksInit PROVE ChunksInv
  OBVIOUS
<1>1. /\ start \in Address /\ total \in 0..MaxLen
      /\ v = total /\ cur_address = start /\ cur_off = 0
      /\ done = 0 /\ merged = FALSE /\ chunks = <<>>
      /\ hint = size_hint(start, total)
  BY DEF ChunksInit
<1>2. total \in Nat /\ start \in Nat /\ v # NoBuf
  BY <1>1, MaxLenAssumption, NoBufAssumption, SpaceAssumption DEF Address
<1>3. ChunkTypes
  <2>1. chunks \in Seq(CutPart)
    BY <1>1
  <2>2. v \in Nat \cup {NoBuf} /\ cur_address \in Address /\ cur_off \in Nat /\ done \in Nat
        /\ merged \in BOOLEAN
    BY <1>1, <1>2
  <2> QED BY <1>1, <1>2, <2>1, <2>2, Zenon DEF ChunkTypes
<1>4. AddressAfter(done) = start
  <2>1. start % Space = start
    BY <1>1, Consts, SmallDiv DEF Address
  <2> QED BY <1>1, <1>2, <2>1 DEF AddressAfter
<1>5. PartInv
  BY <1>1, <1>2, <1>4 DEF PartInv, Linked, AfterLast
<1>6. PagesInv
  <2>1. (start + done) \div PSize = (start \div PSize) + Len(chunks)
    <3>1. PSize \in Nat \ {0} /\ start \div PSize \in Int
      BY <1>2, Consts, Euclid
    <3>2. start + done = start /\ Len(chunks) = 0
      BY <1>1, <1>2
    <3> QED BY <3>1, <3>2
  <2> QED BY <1>1, <1>2, <2>1 DEF PagesInv, InPages
<1> QED BY <1>3, <1>5, <1>6 DEF ChunksInv

----------------------------------------------------------------------------
(* The steps *)

LEMMA MergeStep ==
    ASSUME ChunksInv, Merge
    PROVE  ChunksInv'
<1>1. /\ v' = v /\ cur_address' = cur_address /\ start' = start /\ total' = total
      /\ done' = done /\ hint' = hint /\ chunks' = chunks /\ merged' = TRUE
      /\ cur_off' = end_len(cur_address, cur_off) + 1
  BY DEF Merge
<1>2. end_len(cur_address, cur_off) \in Nat
  BY EndLenType DEF ChunksInv, ChunkTypes
<1>3. ChunkTypes'
  BY <1>1, <1>2 DEF ChunksInv, ChunkTypes, size_hint
<1>4. PartInv'
  BY <1>1 DEF ChunksInv, PartInv, AddressAfter
<1>5. PagesInv'
  BY <1>1 DEF PagesInv
<1> QED BY <1>3, <1>4, <1>5 DEF ChunksInv

(* What the arithmetic of a step comes to.                                 *)
LEMMA YieldFacts ==
    ASSUME ChunksInv, Yield
    PROVE  \E n \in Nat :
              /\ v \in Nat /\ n <= v /\ v # NoBuf
              /\ chunks' = Append(chunks, [addr |-> cur_address, len |-> n])
              /\ [addr |-> cur_address, len |-> n] \in CutPart
              /\ cur_address' \in Address /\ cur_off' = 0 /\ done' = done + n
              /\ \/ n < v /\ v' = v - n /\ cur_address' = (cur_address + n) % Space
                 \/ n = v /\ v' = NoBuf
              /\ cur_off = 0 =>
                    /\ (cur_address % PSize) + n <= PSize
                    /\ n < v => (cur_address % PSize) + n = PSize
<1> DEFINE e == end_len(cur_address, cur_off)
           n == head(v, e)
<1>1. /\ v # NoBuf /\ v \in Nat /\ cur_address \in Address /\ cur_off \in Nat
      /\ cur_address \in Nat
  BY SpaceAssumption DEF Yield, ChunksInv, ChunkTypes, Address
<1>2. e \in Nat
  BY <1>1, EndLenType
<1>3. /\ chunks' = Append(chunks, [addr |-> cur_address, len |-> n])
      /\ v' = (IF n < v THEN v - n ELSE NoBuf)
      /\ cur_address' = (cur_address + e + 1) % Space
      /\ cur_off' = 0 /\ done' = done + n
  BY DEF Yield, next_address
<1>4. cur_off = 0 => e = PSize - 1 - (cur_address % PSize) /\ cur_address % PSize \in 0..(PSize - 1)
  BY <1>1, EndOfPage
<1>5. PSize \in Nat /\ Space \in Nat \ {0}
  BY Consts
<1> HIDE DEF e
<1>6. n = (IF e + 1 < v THEN e + 1 ELSE v)
  BY DEF head
<1> HIDE DEF n
<1>7. n \in Nat /\ n <= v /\ (n < v => n = e + 1) /\ (~(n < v) => n = v) /\ n <= e + 1
  BY <1>1, <1>2, <1>6
<1>8. cur_address' \in Address
  <2> DEFINE x == cur_address + e + 1
  <2>1. x \in Int
    BY <1>1, <1>2
  <2> HIDE DEF x
  <2>2. x % Space \in 0..(Space - 1)
    BY <1>5, <2>1, Euclid
  <2> QED BY <1>3, <2>2 DEF x, Address
<1>9. n < v => cur_address' = (cur_address + n) % Space
  <2> SUFFICES ASSUME n < v PROVE cur_address' = (cur_address + n) % Space
    OBVIOUS
  <2>1. cur_address + e + 1 = cur_address + n
    BY <1>1, <1>2, <1>7
  <2> QED BY <1>3, <2>1
<1>10. cur_off = 0 => (cur_address % PSize) + n <= PSize /\ (n < v => (cur_address % PSize) + n = PSize)
  BY <1>4, <1>5, <1>7
<1>11. [addr |-> cur_address, len |-> n] \in CutPart
  BY <1>1, <1>7 DEF CutPart
<1> QED BY <1>1, <1>3, <1>7, <1>8, <1>9, <1>10, <1>11

LEMMA AppendFacts ==
    ASSUME NEW s \in Seq(CutPart), NEW c \in CutPart
    PROVE  /\ Append(s, c) \in Seq(CutPart) /\ Len(Append(s, c)) = Len(s) + 1
           /\ Len(s) \in Nat
           /\ \A j \in 1..Len(s) : Append(s, c)[j] = s[j]
           /\ Append(s, c)[Len(s) + 1] = c
OBVIOUS

LEMMA YieldStep ==
    ASSUME ChunksInv, Yield
    PROVE  ChunksInv'
<1>1. PICK n \in Nat :
              /\ v \in Nat /\ n <= v /\ v # NoBuf
              /\ chunks' = Append(chunks, [addr |-> cur_address, len |-> n])
              /\ [addr |-> cur_address, len |-> n] \in CutPart
              /\ cur_address' \in Address /\ cur_off' = 0 /\ done' = done + n
              /\ \/ n < v /\ v' = v - n /\ cur_address' = (cur_address + n) % Space
                 \/ n = v /\ v' = NoBuf
              /\ cur_off = 0 =>
                    /\ (cur_address % PSize) + n <= PSize
                    /\ n < v => (cur_address % PSize) + n = PSize
  BY YieldFacts
<1> DEFINE c == [addr |-> cur_address, len |-> n]
           s == chunks
           t == Append(s, c)
           many == Len(s)
<1>2. start' = start /\ total' = total /\ merged' = merged /\ hint' = hint
  BY DEF Yield
<1>3. /\ start \in Nat /\ start < Space /\ total \in Nat /\ done \in Nat /\ Space \in Nat \ {0}
      /\ cur_address \in Nat /\ cur_address < Space /\ s \in Seq(CutPart) /\ PSize \in Nat \ {0}
      /\ merged \in BOOLEAN
  BY SpaceAssumption, Consts DEF ChunksInv, ChunkTypes, Address
<1>4. /\ done + v = total /\ cur_address = (start + done) % Space
      /\ cur_address = AfterLast(s, start) /\ (v = 0 => total = 0)
      /\ Linked(s, start)
  BY <1>1 DEF ChunksInv, PartInv, AddressAfter
<1>5. /\ t \in Seq(CutPart) /\ Len(t) = many + 1 /\ many \in Nat
      /\ \A j \in 1..many : t[j] = s[j]
      /\ t[many + 1] = c /\ chunks' = t
  BY <1>1, <1>3, AppendFacts
<1>6. c.addr = cur_address /\ c.len = n
  OBVIOUS
<1>7. v' # NoBuf => n < v /\ v' = v - n /\ v' \in Nat /\ v' > 0
                    /\ cur_address' = (cur_address + n) % Space
  BY <1>1
<1>8. v' = NoBuf => n = v
  BY <1>1, NoBufAssumption
<1> HIDE DEF c, s, t, many
<1>9. ChunkTypes'
  <2>1. v' \in Nat \cup {NoBuf} /\ cur_off' \in Nat /\ done' \in Nat
    BY <1>1, <1>3, <1>7
  <2>2. hint' = size_hint(start', total')
    BY <1>2 DEF ChunksInv, ChunkTypes
  <2> QED BY <1>1, <1>2, <1>5, <2>1, <2>2 DEF ChunksInv, ChunkTypes
<1>10. PartInv'
  <2>1. Linked(t, start)
    <3> SUFFICES ASSUME NEW j \in 1..Len(t)
                 PROVE  t[j].addr = IF j = 1 THEN start
                                    ELSE (t[j - 1].addr + t[j - 1].len) % Space
      BY DEF Linked
    <3>1. CASE j \in 1..many
      <4>1. j # 1 => j - 1 \in 1..many
        BY <1>5, <3>1
      <4>2. t[j] = s[j] /\ (j # 1 => t[j - 1] = s[j - 1])
        BY <1>5, <3>1, <4>1
      <4> QED BY <1>4, <3>1, <4>2 DEF Linked, many
    <3>2. CASE j = many + 1
      <4>1. t[j].addr = AfterLast(s, start)
        BY <1>4, <1>5, <1>6, <3>2
      <4>2. j # 1 => many \in 1..many /\ j - 1 = many /\ t[j - 1] = s[many]
        BY <1>5, <3>2
      <4>3. j = 1 <=> many = 0
        BY <1>5, <3>2
      <4> QED BY <4>1, <4>2, <4>3 DEF AfterLast, many
    <3> QED BY <1>5, <3>1, <3>2
  <2>2. ASSUME v' # NoBuf
        PROVE  /\ done' + v' = total /\ cur_address' = (start + (done + n)) % Space
               /\ cur_address' = AfterLast(t, start) /\ v' # 0
    <3>1. (((start + done) % Space) + n) % Space = ((start + done) + n) % Space
      <4>1. start + done \in Int /\ n \in Int
        BY <1>3
      <4> QED BY <1>3, <4>1, WrapSum
    <3>2. (start + done) + n = start + (done + n)
      BY <1>3
    <3>3. cur_address' = (start + (done + n)) % Space
      BY <1>4, <1>7, <2>2, <3>1, <3>2
    <3>4. AfterLast(t, start) = (cur_address + n) % Space
      BY <1>5, <1>6 DEF AfterLast
    <3>5. done' + v' = total
      <4>1. done' + v' = (done + n) + (v - n)
        BY <1>1, <1>7, <2>2
      <4> QED BY <1>1, <1>3, <1>4, <4>1
    <3> QED BY <1>7, <2>2, <3>3, <3>4, <3>5
  <2>3. ASSUME v' = NoBuf
        PROVE  done' = total
    BY <1>1, <1>4, <1>8, <2>3
  <2> QED BY <1>1, <1>2, <1>5, <2>1, <2>2, <2>3 DEF PartInv, AddressAfter
<1>11. PagesInv'
  <2> SUFFICES ASSUME ~merged PROVE PagesInv'
    BY <1>2 DEF PagesInv
  <2>1. /\ cur_off = 0 /\ (many > 0 => cur_address % PSize = 0)
        /\ InPages(s, TRUE)
        /\ start + total <= Space /\ total > 0 =>
              (start + done) \div PSize = (start \div PSize) + many
    BY <1>1 DEF ChunksInv, PagesInv, InPages, s, many
  <2>2. /\ (cur_address % PSize) + n <= PSize
        /\ n < v => (cur_address % PSize) + n = PSize
    BY <1>1, <2>1
  <2>3. cur_address = PSize * (cur_address \div PSize) + (cur_address % PSize)
        /\ cur_address % PSize \in 0..(PSize - 1) /\ cur_address \div PSize \in Int
    BY <1>3, Euclid
  <2>4. InPages(t, v' # NoBuf)
    <3> SUFFICES ASSUME NEW j \in 1..Len(t)
                 PROVE  /\ (t[j].addr % PSize) + t[j].len <= PSize
                        /\ j > 1 => t[j].addr % PSize = 0
                        /\ j < Len(t) \/ v' # NoBuf => (t[j].addr % PSize) + t[j].len = PSize
      BY DEF InPages
    <3>1. CASE j \in 1..many
      BY <1>5, <2>1, <3>1 DEF InPages, many
    <3>2. CASE j = many + 1
      <4>1. t[j].addr = cur_address /\ t[j].len = n
        BY <1>5, <1>6, <3>2
      <4>2. j > 1 => many > 0
        BY <1>5, <3>2
      <4>3. ~(j < Len(t))
        BY <1>5, <3>2
      <4> QED BY <1>7, <2>1, <2>2, <4>1, <4>2, <4>3
    <3> QED BY <1>5, <3>1, <3>2
  <2>5. ASSUME v' # NoBuf
        PROVE  /\ cur_address' % PSize = 0
               /\ Splits(cur_address + n, PSize, (cur_address \div PSize) + 1, 0)
    <3>1. Splits(cur_address + n, PSize, (cur_address \div PSize) + 1, 0)
      BY <1>3, <1>7, <2>2, <2>3, <2>5 DEF Splits
    <3>2. (cur_address + n) % PSize = 0
      BY <3>1, DivMod
    <3>3. ((cur_address + n) % Space) % PSize = (cur_address + n) % PSize
      <4>1. cur_address + n \in Int
        BY <1>3
      <4> QED BY <4>1, WrapKeepsPage
    <3> QED BY <1>7, <2>5, <3>1, <3>2, <3>3
  <2>6. ASSUME start + total <= Space, total > 0
        PROVE  /\ v' # NoBuf => (start + (done + n)) \div PSize = (start \div PSize) + (many + 1)
               /\ v' = NoBuf => ((start + total - 1) \div PSize) + 1 = (start \div PSize) + (many + 1)
    <3>1. v > 0 /\ start + done \in 0..(Space - 1)
      BY <1>1, <1>3, <1>4, <2>6
    <3>2. cur_address = start + done
      BY <1>3, <1>4, <3>1, SmallDiv
    <3>3. cur_address \div PSize = (start \div PSize) + many /\ start \div PSize \in Int
      BY <1>3, <2>1, <2>6, <3>2, Euclid
    <3>4. ASSUME v' # NoBuf
          PROVE  (start + (done + n)) \div PSize = (start \div PSize) + (many + 1)
      <4>1. (cur_address + n) \div PSize = (cur_address \div PSize) + 1
        BY <2>5, <3>4, DivMod
      <4>2. cur_address + n = start + (done + n)
        BY <1>3, <3>2
      <4> QED BY <1>5, <3>3, <4>1, <4>2
    <3>5. ASSUME v' = NoBuf
          PROVE  ((start + total - 1) \div PSize) + 1 = (start \div PSize) + (many + 1)
      <4> DEFINE z == start + total - 1
      <4>1. z = cur_address + (n - 1)
        BY <1>1, <1>3, <1>4, <1>8, <3>2, <3>5
      <4>2. Splits(z, PSize, cur_address \div PSize, (cur_address % PSize) + (n - 1))
        <5> DEFINE q == cur_address \div PSize
                   r == cur_address % PSize
        <5>1. cur_address = PSize * q + r /\ q \in Int /\ r \in 0..(PSize - 1) /\ r + n <= PSize
          BY <2>2, <2>3
        <5>2. n > 0 /\ n \in Nat /\ PSize \in Nat \ {0}
          BY <1>1, <1>3, <1>8, <3>1, <3>5
        <5> HIDE DEF q, r, z
        <5>3. z = PSize * q + (r + (n - 1)) /\ z \in Int
          BY <4>1, <5>1, <5>2
        <5>4. r + (n - 1) \in 0..(PSize - 1)
          BY <5>1, <5>2
        <5>5. Splits(z, PSize, q, r + (n - 1))
          BY <5>1, <5>2, <5>3, <5>4 DEF Splits
        <5> QED BY <5>5 DEF q, r
      <4> HIDE DEF z
      <4>3. z \div PSize = cur_address \div PSize
        BY <4>2, DivMod
      <4> QED BY <1>5, <3>3, <4>3 DEF z
    <3> QED BY <3>4, <3>5
  <2>7. Len(t) # 0
    BY <1>5
  <2> QED BY <1>1, <1>2, <1>5, <2>4, <2>5, <2>6, <2>7 DEF PagesInv
<1> QED BY <1>9, <1>10, <1>11 DEF ChunksInv

LEMMA ChunksInvariance == ChunksSpec => []ChunksInv
<1>1. ChunksInv /\ [ChunksNext]_chunk_vars => ChunksInv'
  <2> SUFFICES ASSUME ChunksInv, [ChunksNext]_chunk_vars PROVE ChunksInv'
    OBVIOUS
  <2>1. CASE UNCHANGED chunk_vars
    BY <2>1 DEF chunk_vars, ChunksInv, ChunkTypes, PartInv, PagesInv, AddressAfter
  <2> QED BY <2>1, MergeStep, YieldStep DEF ChunksNext
<1> QED BY <1>1, InitChunks, PTL DEF ChunksSpec

----------------------------------------------------------------------------
(* Theorems *)

(* The chunks are the buffer, every byte once and at its own address, for  *)
(* every start and length, across the end of the address space, and        *)
(* whatever cuts the caller refuses (page_chunks.rs:194-228).              *)
THEOREM ChunksPartition == ChunksSpec => []Partition
<1>1. ChunksInv => Partition
  <2> SUFFICES ASSUME ChunksInv PROVE Partition
    OBVIOUS
  <2>1. done = total <=> v = NoBuf \/ (v = 0 /\ total = 0)
    BY DEF ChunksInv, ChunkTypes, PartInv
  <2> QED BY <2>1 DEF ChunksInv, PartInv, Linked, Partition
<1> QED BY <1>1, ChunksInvariance, PTL

(* Without refused cuts no chunk crosses a page, all between the first and *)
(* the last are whole pages, and size_hint told their number               *)
(* (page_chunks.rs:198-241).                                               *)
THEOREM ChunksInPages == ChunksSpec => []OnePage
<1>1. ChunksInv => OnePage
  <2> SUFFICES ASSUME ChunksInv, ~merged, NEW j \in 1..Len(chunks)
               PROVE  /\ (chunks[j].addr % page_size) + chunks[j].len <= page_size
                      /\ j \in 2..(Len(chunks) - 1) => chunks[j].len = page_size
                      /\ v = NoBuf /\ total > 0 /\ start + total <= Space => hint = Len(chunks)
    BY DEF OnePage
  <2>1. chunks \in Seq(CutPart) /\ Len(chunks) \in Nat /\ start \in Nat /\ total \in Nat
        /\ chunks[j].len \in Nat /\ PSize \in Nat \ {0}
    <3>1. chunks[j] \in CutPart
      BY DEF ChunksInv, ChunkTypes
    <3> QED BY <3>1, SpaceAssumption, Consts DEF ChunksInv, ChunkTypes, CutPart, Address
  <2>2. InPages(chunks, v # NoBuf)
    BY DEF ChunksInv, PagesInv
  <2>3. j \in 2..(Len(chunks) - 1) => chunks[j].len = PSize
    BY <2>1, <2>2 DEF InPages
  <2>4. v = NoBuf /\ total > 0 /\ start + total <= Space => hint = Len(chunks)
    <3> SUFFICES ASSUME v = NoBuf, total > 0, start + total <= Space
                 PROVE  hint = Len(chunks)
      OBVIOUS
    <3> DEFINE a == (start + total - 1) \div PSize
               b == start \div PSize
    <3>1. hint = a - b + 1
      BY <2>1, HintCounts DEF ChunksInv, ChunkTypes
    <3>2. a + 1 = b + Len(chunks)
      BY DEF ChunksInv, PagesInv
    <3>3. a \in Int /\ b \in Int
      <4>1. start + total - 1 \in Int
        BY <2>1
      <4> QED BY <2>1, <4>1, Euclid
    <3> HIDE DEF a, b
    <3> QED BY <2>1, <3>1, <3>2, <3>3
  <2> QED BY <2>2, <2>3, <2>4 DEF InPages, PSize
<1> QED BY <1>1, ChunksInvariance, PTL

----------------------------------------------------------------------------
(* Recursive functions over an interval *)

LEMMA LessThan == \A x, y \in Nat : <<y, x>> \in OpToRel(<, Nat) <=> y < x
BY DEF OpToRel

LEMMA Smallest ==
    ASSUME NEW S \in SUBSET Nat, S # {}
    PROVE  \E x \in S : \A y \in S : x <= y
<1>1. PICK x \in S : \A y \in S : ~ (<<y, x>> \in OpToRel(<, Nat))
  BY NatLessThanWellFounded, WFMin, Zenon
<1>2. \A y \in S : x <= y
  <2> SUFFICES ASSUME NEW y \in S PROVE x <= y
    OBVIOUS
  <2>1. ~(y < x)
    BY <1>1, LessThan
  <2> QED BY <2>1
<1> QED BY <1>2

(* What holds at 0 and is carried from each number to the next one up to   *)
(* N holds up to N: a set that contains 0 and the successors contains all. *)
LEMMA UpTo ==
    ASSUME NEW N \in Nat, NEW S, 0 \in S, \A k \in 1..N : k - 1 \in S => k \in S
    PROVE  \A k \in 0..N : k \in S
<1> DEFINE Out == {k \in 0..N : k \notin S}
<1> SUFFICES ASSUME Out # {} PROVE FALSE
  OBVIOUS
<1>1. PICK k \in Out : \A y \in Out : k <= y
  <2>1. Out \in SUBSET Nat
    OBVIOUS
  <2> HIDE DEF Out
  <2> QED BY <2>1, Smallest
<1>2. k \in 1..N /\ k - 1 \in 0..N /\ ~(k <= k - 1)
  BY <1>1
<1>3. k - 1 \in S
  BY <1>1, <1>2
<1> QED BY <1>1, <1>2, <1>3

(* The recursion that starts with s and takes the step g[k] to k has a     *)
(* solution in every set that is closed under the steps.                   *)
Recursion(S, s, N, g) == s \in S /\ N \in Nat /\ g \in [1..N -> [S -> S]]

Solution(f, S, s, N, g) ==
    f \in [0..N -> S] /\ f[0] = s /\ \A k \in 1..N : f[k] = g[k][f[k - 1]]

LEMMA Iterates ==
    ASSUME NEW S, NEW s, NEW N, NEW g, Recursion(S, s, N, g)
    PROVE  \E f : Solution(f, S, s, N, g)
<1> s \in S /\ N \in Nat /\ g \in [1..N -> [S -> S]]
  BY DEF Recursion
<1> DEFINE Solves(n, f) == f[0] = s /\ \A k \in 1..n : f[k] = g[k][f[k - 1]]
           Done == {n \in 0..N : \E f \in [0..n -> S] : Solves(n, f)}
<1>1. 0 \in Done
  <2> DEFINE f == [k \in 0..0 |-> s]
  <2>1. f \in [0..0 -> S] /\ Solves(0, f)
    OBVIOUS
  <2>2. 0 \in 0..N
    OBVIOUS
  <2> HIDE DEF Solves, f
  <2> QED BY <2>1, <2>2
<1>2. ASSUME NEW n \in 1..N, n - 1 \in Done PROVE n \in Done
  <2>1. PICK f \in [0..(n - 1) -> S] : Solves(n - 1, f)
    BY <1>2
  <2> DEFINE a == g[n][f[n - 1]]
             h == [k \in 0..n |-> IF k = n THEN a ELSE f[k]]
  <2>2. n - 1 \in 0..(n - 1) /\ f[n - 1] \in S
    OBVIOUS
  <2>3. a \in S
    BY <2>2
  <2>4. \A k \in 0..n : k # n => k \in 0..(n - 1)
    OBVIOUS
  <2>5. h \in [0..n -> S]
    <3> HIDE DEF a
    <3> QED BY <2>3, <2>4
  <2>6. h[n] = a /\ \A k \in 0..(n - 1) : h[k] = f[k]
    <3> HIDE DEF a
    <3> QED OBVIOUS
  <2> HIDE DEF h
  <2>7. h[0] = s
    BY <2>1, <2>6
  <2>8. ASSUME NEW k \in 1..n PROVE h[k] = g[k][h[k - 1]]
    <3>1. k - 1 \in 0..(n - 1) /\ h[k - 1] = f[k - 1]
      BY <2>6
    <3>2. CASE k = n
      BY <2>6, <3>1, <3>2
    <3>3. CASE k # n
      <4>1. k \in 1..(n - 1) /\ k \in 0..(n - 1)
        BY <3>3
      <4>2. f[k] = g[k][f[k - 1]]
        BY <2>1, <4>1
      <4> QED BY <2>6, <3>1, <4>1, <4>2
    <3> QED BY <3>2, <3>3
  <2>9. Solves(n, h) /\ n \in 0..N
    BY <2>7, <2>8
  <2> HIDE DEF Solves
  <2> QED BY <2>5, <2>9
<1> HIDE DEF Done
<1>3. \A k \in 0..N : k \in Done
  BY <1>1, <1>2, UpTo
<1>4. N \in Done
  BY <1>3
<1>5. PICK f \in [0..N -> S] : Solves(N, f)
  <2>1. \E f \in [0..N -> S] : Solves(N, f)
    <3> HIDE DEF Solves
    <3> QED BY <1>4 DEF Done
  <2> QED BY <2>1
<1>6. Solution(f, S, s, N, g)
  BY <1>5 DEF Solution
<1> QED BY <1>6

(* Every solution stays in that set. *)
LEMMA IteratesStay ==
    ASSUME NEW S, NEW N \in Nat, NEW f, f[0] \in S,
           \A k \in 1..N : f[k - 1] \in S => f[k] \in S
    PROVE  \A k \in 0..N : f[k] \in S
<1> DEFINE In == {k \in 0..N : f[k] \in S}
<1>1. 0 \in In
  OBVIOUS
<1>2. \A k \in 1..N : k - 1 \in In => k \in In
  OBVIOUS
<1> HIDE DEF In
<1>3. \A k \in 0..N : k \in In
  BY <1>1, <1>2, UpTo
<1> QED BY <1>3 DEF In


----------------------------------------------------------------------------
(* Powers of two *)

Doubles(f, n) ==
    f \in [0..n -> Nat \ {0}] /\ f[0] = 1 /\ \A k \in 1..n : f[k] = 2 * f[k - 1]

LEMMA DoublesExist == ASSUME NEW n \in Nat PROVE \E f : Doubles(f, n)
<1> DEFINE S == Nat \ {0}
           g == [k \in 1..n |-> [x \in S |-> 2 * x]]
<1>1. g \in [1..n -> [S -> S]]
  <2>1. \A x \in S : 2 * x \in S
    OBVIOUS
  <2> QED BY <2>1
<1>2. Recursion(S, 1, n, g)
  BY <1>1 DEF Recursion
<1>3. PICK f : Solution(f, S, 1, n, g)
  <2> HIDE DEF S, g
  <2> QED BY <1>2, Iterates
<1>4. f \in [0..n -> S] /\ f[0] = 1
  BY <1>3 DEF Solution
<1>5. ASSUME NEW k \in 1..n PROVE f[k] = 2 * f[k - 1]
  <2>1. f[k] = g[k][f[k - 1]]
    BY <1>3 DEF Solution
  <2>2. k - 1 \in 0..n
    OBVIOUS
  <2>3. f[k - 1] \in S
    BY <1>4, <2>2
  <2> QED BY <2>1, <2>3
<1> QED BY <1>4, <1>5 DEF Doubles

LEMMA DoublesAgree ==
    ASSUME NEW n \in Nat, NEW m \in Nat, n <= m, NEW f, NEW h, Doubles(f, n), Doubles(h, m)
    PROVE  \A k \in 0..n : f[k] = h[k]
<1> DEFINE S == {k \in 0..n : f[k] = h[k]}
<1>1. 0 \in S
  BY DEF Doubles
<1>2. \A k \in 1..n : k - 1 \in S => k \in S
  BY DEF Doubles
<1> HIDE DEF S
<1>3. \A k \in 0..n : k \in S
  BY <1>1, <1>2, UpTo
<1> QED BY <1>3 DEF S

LEMMA PowFunction ==
    /\ pow2 \in [Nat -> Nat \ {0}] /\ pow2[0] = 1
    /\ \A n \in Nat : pow2[n + 1] = 2 * pow2[n]
<1> DEFINE f(n) == CHOOSE f : Doubles(f, n)
           h == [n \in Nat |-> f(n)[n]]
<1>1. \A n \in Nat : Doubles(f(n), n)
  BY DoublesExist
<1> HIDE DEF f
<1>2. h \in [Nat -> Nat \ {0}]
  BY <1>1 DEF Doubles
<1>3. h[0] = 1
  BY <1>1 DEF Doubles
<1>4. ASSUME NEW n \in Nat PROVE h[n + 1] = 2 * h[n]
  <2>1. f(n + 1)[n + 1] = 2 * f(n + 1)[n]
    <3>1. n + 1 \in 1..(n + 1) /\ n + 1 - 1 = n
      OBVIOUS
    <3>2. Doubles(f(n + 1), n + 1)
      BY <1>1
    <3> QED BY <3>1, <3>2 DEF Doubles
  <2>2. f(n + 1)[n] = f(n)[n]
    <3>1. n \in 0..n /\ n + 1 \in Nat /\ n <= n + 1
      OBVIOUS
    <3> QED BY <1>1, <3>1, DoublesAgree
  <2>3. n + 1 \in Nat
    OBVIOUS
  <2> QED BY <2>1, <2>2, <2>3
<1>5. h = [n \in Nat |-> IF n = 0 THEN 1 ELSE 2 * h[n - 1]]
  <2>1. ASSUME NEW n \in Nat PROVE h[n] = IF n = 0 THEN 1 ELSE 2 * h[n - 1]
    <3>1. CASE n = 0
      BY <1>3, <3>1
    <3>2. CASE n # 0
      <4>1. n - 1 \in Nat /\ n - 1 + 1 = n
        BY <3>2
      <4> HIDE DEF h
      <4>2. h[n - 1 + 1] = 2 * h[n - 1]
        BY <1>4, <4>1
      <4> QED BY <3>2, <4>1, <4>2
    <3> QED BY <3>1, <3>2
  <2> DEFINE t == [n \in Nat |-> IF n = 0 THEN 1 ELSE 2 * h[n - 1]]
  <2>2. h = [n \in Nat |-> h[n]]
    BY <1>2
  <2>3. \A n \in Nat : h[n] = t[n]
    BY <2>1
  <2>4. t = [n \in Nat |-> t[n]]
    OBVIOUS
  <2>5. h = t
    <3> HIDE DEF h, t
    <3> QED BY <2>2, <2>3, <2>4
  <2> QED BY <2>5
<1> HIDE DEF h
<1>6. pow2 = [n \in Nat |-> IF n = 0 THEN 1 ELSE 2 * pow2[n - 1]]
  BY <1>5 DEF pow2
<1>7. pow2[0] = 1
  BY <1>6
<1>8. ASSUME NEW n \in Nat PROVE pow2[n + 1] = 2 * pow2[n]
  <2>1. n + 1 \in Nat /\ n + 1 # 0 /\ n + 1 - 1 = n
    OBVIOUS
  <2> QED BY <1>6, <2>1
<1>9. ASSUME NEW n \in Nat PROVE pow2[n] \in Nat \ {0}
  <2> DEFINE S == {k \in 0..n : pow2[k] \in Nat \ {0}}
  <2>1. 0 \in S
    BY <1>7
  <2>2. ASSUME NEW k \in 1..n, k - 1 \in S PROVE k \in S
    <3>1. k - 1 \in Nat /\ k - 1 + 1 = k
      OBVIOUS
    <3>2. pow2[k] = 2 * pow2[k - 1]
      BY <1>8, <3>1
    <3> QED BY <2>2, <3>2
  <2> HIDE DEF S
  <2>3. n \in S
    <3>1. \A k \in 0..n : k \in S
      BY <2>1, <2>2, UpTo
    <3> QED BY <3>1
  <2> QED BY <2>3 DEF S
<1>10. pow2 \in [Nat -> Nat \ {0}]
  <2>1. \A n \in Nat : pow2[n] \in Nat \ {0}
    BY <1>9
  <2>2. DOMAIN pow2 = Nat /\ pow2 = [n \in Nat |-> pow2[n]]
    BY <1>6
  <2> QED BY <2>1, <2>2
<1> QED BY <1>7, <1>8, <1>10

(* Shifting by n and then by m is shifting by their sum. *)
LEMMA PowSum ==
    ASSUME NEW m \in Nat, NEW n \in Nat
    PROVE  pow2[m + n] = pow2[m] * pow2[n]
<1> DEFINE S == {k \in 0..n : pow2[m + k] = pow2[m] * pow2[k]}
<1>1. 0 \in S
  BY PowFunction
<1>2. ASSUME NEW k \in 1..n, k - 1 \in S PROVE k \in S
  <2>1. k - 1 \in Nat /\ k - 1 + 1 = k /\ m + (k - 1) \in Nat /\ m + (k - 1) + 1 = m + k
    OBVIOUS
  <2> DEFINE x == pow2[m]
             y == pow2[k - 1]
  <2>2. x \in Nat /\ y \in Nat
    BY <2>1, PowFunction
  <2>3. pow2[k] = 2 * y
    BY <2>1, PowFunction
  <2>4. pow2[m + k] = 2 * pow2[m + (k - 1)]
    BY <2>1, PowFunction
  <2>5. pow2[m + (k - 1)] = x * y
    BY <1>2
  <2> HIDE DEF x, y
  <2>6. 2 * (x * y) = x * (2 * y)
    BY <2>2
  <2>7. pow2[m + k] = pow2[m] * pow2[k]
    BY <2>3, <2>4, <2>5, <2>6 DEF x
  <2> QED BY <2>7
<1> HIDE DEF S
<1>3. \A k \in 0..n : k \in S
  BY <1>1, <1>2, UpTo
<1>4. n \in S
  BY <1>3
<1> QED BY <1>4 DEF S

LEMMA PowMonotone ==
    ASSUME NEW m \in Nat, NEW n \in Nat, m <= n
    PROVE  /\ pow2[m] \in Nat \ {0} /\ pow2[n] \in Nat \ {0}
           /\ pow2[n - m] \in Nat \ {0} /\ pow2[n] = pow2[m] * pow2[n - m]
           /\ pow2[m] <= pow2[n]
<1>1. n - m \in Nat /\ m + (n - m) = n
  OBVIOUS
<1>2. pow2[n] = pow2[m] * pow2[n - m]
  BY <1>1, PowSum
<1>3. pow2[m] \in Nat \ {0} /\ pow2[n] \in Nat \ {0} /\ pow2[n - m] \in Nat \ {0}
  BY <1>1, PowFunction
<1>4. \A x, y \in Nat \ {0} : x <= x * y
  OBVIOUS
<1>5. pow2[m] <= pow2[m] * pow2[n - m]
  BY <1>3, <1>4
<1> QED BY <1>2, <1>3, <1>5

----------------------------------------------------------------------------
(* The sums of the splits *)

LEMMA IndexBits ==
    ASSUME NEW a, a.splits \in Seq(Nat \ {0})
    PROVE  LET n == Len(a.splits) IN
           /\ index_bits(a, n) = 0
           /\ \A s \in 0..n : index_bits(a, s) \in Nat
           /\ \A s \in 0..(n - 1) : index_bits(a, s) = a.splits[s + 1] + index_bits(a, s + 1)
<1> DEFINE n == Len(a.splits)
           g == [t \in 1..n |-> [x \in Nat |-> x + a.splits[n - t + 1]]]
           F(f) == [t \in 0..n |-> IF t = 0 THEN 0 ELSE f[t - 1] + a.splits[n - t + 1]]
           c == CHOOSE f : f = F(f)
<1>1. n \in Nat /\ \A t \in 1..n : n - t + 1 \in 1..n /\ a.splits[n - t + 1] \in Nat
  OBVIOUS
<1>2. g \in [1..n -> [Nat -> Nat]]
  <2>1. ASSUME NEW t \in 1..n PROVE [x \in Nat |-> x + a.splits[n - t + 1]] \in [Nat -> Nat]
    <3>1. a.splits[n - t + 1] \in Nat
      BY <1>1
    <3> QED BY <3>1
  <2> QED BY <2>1
<1>3. PICK f : Solution(f, Nat, 0, n, g)
  <2>1. Recursion(Nat, 0, n, g)
    BY <1>1, <1>2 DEF Recursion
  <2> HIDE DEF g
  <2> QED BY <2>1, Iterates
<1>4. f \in [0..n -> Nat] /\ f[0] = 0 /\ \A t \in 1..n : f[t] = f[t - 1] + a.splits[n - t + 1]
  <2>1. f \in [0..n -> Nat] /\ f[0] = 0 /\ \A t \in 1..n : f[t] = g[t][f[t - 1]]
    BY <1>3 DEF Solution
  <2>2. ASSUME NEW t \in 1..n PROVE g[t][f[t - 1]] = f[t - 1] + a.splits[n - t + 1]
    <3>1. t - 1 \in 0..n
      BY <1>1
    <3>2. f[t - 1] \in Nat
      BY <2>1, <3>1
    <3> QED BY <3>2
  <2> QED BY <2>1, <2>2
<1>5. f = F(f)
  <2>1. \A t \in 0..n : f[t] = F(f)[t]
    BY <1>1, <1>4
  <2> QED BY <1>4, <2>1
<1>6. c = F(c)
  <2> HIDE DEF F
  <2> QED BY <1>5
<1> HIDE DEF c
<1>7. c[0] = 0 /\ \A t \in 1..n : c[t] = c[t - 1] + a.splits[n - t + 1]
  <2>1. 0 \in 0..n /\ \A t \in 1..n : t \in 0..n /\ t # 0
    BY <1>1
  <2> QED BY <1>6, <2>1
<1>8. \A t \in 0..n : c[t] \in Nat
  <2>1. ASSUME NEW t \in 1..n, c[t - 1] \in Nat PROVE c[t] \in Nat
    <3>1. c[t] = c[t - 1] + a.splits[n - t + 1] /\ a.splits[n - t + 1] \in Nat
      BY <1>1, <1>7
    <3> QED BY <2>1, <3>1
  <2>2. c[0] \in Nat
    BY <1>7
  <2> HIDE DEF n
  <2> QED BY <1>1, <2>1, <2>2, IteratesStay
<1>9. \A s : index_bits(a, s) = c[n - s]
  BY DEF index_bits, c
<1>10. \A s \in 0..n : n - s \in 0..n
  BY <1>1
<1>11. ASSUME NEW s \in 0..(n - 1)
       PROVE  index_bits(a, s) = a.splits[s + 1] + index_bits(a, s + 1)
  <2>1. n - s \in 1..n /\ n - s - 1 = n - (s + 1) /\ n - (n - s) + 1 = s + 1
        /\ n - (s + 1) \in 0..n /\ s + 1 \in 1..n
    BY <1>1
  <2>2. c[n - s] = c[n - (s + 1)] + a.splits[s + 1]
    BY <1>7, <2>1
  <2>3. c[n - (s + 1)] \in Nat /\ a.splits[s + 1] \in Nat
    BY <1>8, <2>1
  <2>4. index_bits(a, s) = c[n - s] /\ index_bits(a, s + 1) = c[n - (s + 1)]
    BY <1>9
  <2> QED BY <2>2, <2>3, <2>4
<1>12. index_bits(a, n) = 0
  <2>1. n - n = 0
    BY <1>1
  <2> QED BY <1>7, <1>9, <2>1
<1>13. \A s \in 0..n : index_bits(a, s) \in Nat
  BY <1>8, <1>9, <1>10
<1> HIDE DEF n
<1>14. /\ index_bits(a, n) = 0
       /\ \A s \in 0..n : index_bits(a, s) \in Nat
       /\ \A s \in 0..(n - 1) : index_bits(a, s) = a.splits[s + 1] + index_bits(a, s + 1)
  BY <1>11, <1>12, <1>13
<1> QED BY <1>14 DEF n

----------------------------------------------------------------------------
(* What a translation starts on *)

Entry   == 0..(pow2[arch.entry_bits] - 1)
Addr    == 0..(Word - 1)
Request == [addr : Addr, len : Addr]

InputInv ==
    /\ WellFormed(arch) /\ dtb \in Nat /\ req \in Seq(Request)
    /\ \A w \in GuestWrites : w[2] \in Entry
    /\ DOMAIN mem \subseteq Nat /\ mem \in [DOMAIN mem -> Entry]

LEMMA ArchFacts ==
    ASSUME WellFormed(arch)
    PROVE  /\ Last \in Nat /\ Last > 0 /\ split_count = Last + 1
           /\ \A s \in 0..Last : split(s) \in Nat \ {0}
           /\ \A s \in 0..(Last + 1) : max_index_bits(s) \in Nat
           /\ \A s \in 0..Last : /\ max_index_bits(s) = split(s) + max_index_bits(s + 1)
                                 /\ min_index_bits(s) = max_index_bits(s + 1)
           /\ max_index_bits(Last + 1) = 0
           /\ Word \in Nat \ {0}
           /\ \A s \in 0..(Last + 1) : page_size_step(s) \in Nat \ {0}
           /\ {arch.pte_bits, arch.space_bits, arch.addr_bits, arch.word_bits,
               arch.entry_bits, arch.present_bit, arch.large_page_bit} \subseteq Nat
<1> DEFINE n == Len(arch.splits)
<1>1. /\ arch.splits \in Seq(Nat \ {0}) /\ arch.splits # <<>>
      /\ arch.final_steps \subseteq 1..(n - 1) /\ (n - 1) \in arch.final_steps
      /\ {arch.pte_bits, arch.space_bits, arch.addr_bits, arch.word_bits, arch.entry_bits}
            \subseteq Nat
      /\ {arch.present_bit, arch.large_page_bit} \subseteq 0..(arch.splits[n] - 1)
  <2>1. n - 1 + 1 = n
    BY DEF WellFormed
  <2> QED BY <2>1 DEF WellFormed
<1>2. n \in Nat /\ n > 1
  BY <1>1
<1>3. Last = n - 1 /\ split_count = n /\ Last \in Nat /\ Last > 0 /\ Last + 1 = n
  BY <1>2 DEF Last, split_count
<1>4. \A s \in 0..Last : split(s) \in Nat \ {0} /\ split(s) = arch.splits[s + 1]
  <2>1. \A s \in 0..Last : s + 1 \in 1..n
    BY <1>2, <1>3
  <2> QED BY <1>1, <2>1 DEF split
<1>5. /\ max_index_bits(n) = 0
      /\ \A s \in 0..n : max_index_bits(s) \in Nat
      /\ \A s \in 0..(n - 1) : max_index_bits(s) = arch.splits[s + 1] + max_index_bits(s + 1)
  BY <1>1, IndexBits DEF max_index_bits
<1>6. \A s \in 0..Last : /\ max_index_bits(s) = split(s) + max_index_bits(s + 1)
                         /\ min_index_bits(s) = max_index_bits(s + 1)
  <2> TAKE s \in 0..Last
  <2>1. s \in 0..(n - 1) /\ s + 1 \in 0..n
    BY <1>2, <1>3
  <2>2. max_index_bits(s + 1) \in Nat /\ split(s) \in Nat
    BY <1>4, <1>5, <2>1
  <2>3. max_index_bits(s) = split(s) + max_index_bits(s + 1)
    BY <1>4, <1>5, <2>1
  <2> QED BY <2>2, <2>3 DEF min_index_bits
<1>7. Word \in Nat \ {0} /\ \A s \in 0..(Last + 1) : page_size_step(s) \in Nat \ {0}
  BY <1>1, <1>3, <1>5, PowFunction DEF Word, page_size_step
<1>8. arch.present_bit \in Nat /\ arch.large_page_bit \in Nat
  <2>1. arch.splits[n] \in Nat
    BY <1>1, <1>2
  <2> QED BY <1>1, <2>1
<1> QED BY <1>1, <1>3, <1>4, <1>5, <1>6, <1>7, <1>8

LEMMA RequestFacts ==
    ASSUME InputInv
    PROVE  /\ Word \in Nat \ {0} /\ Len(req) \in Nat /\ DOMAIN req = 1..Len(req)
           /\ \A id \in DOMAIN req : req[id].addr \in 0..(Word - 1) /\ req[id].len \in 0..(Word - 1)
<1>1. Word \in Nat \ {0} /\ req \in Seq(Request)
  BY ArchFacts DEF InputInv
<1>2. \A id \in DOMAIN req : req[id] \in Request
  BY <1>1
<1> QED BY <1>1, <1>2 DEF Request, Addr

LEMMA InitInput == ASSUME Init PROVE InputInv
<1>1. PICK u \in Setups : arch = u.arch /\ dtb = u.dtb /\ mem = u.mem /\ req = u.req
  BY DEF Init
<1>2. WellFormed(u.arch)
  BY ArchAssumption
<1>3. /\ u.dtb \in Nat /\ DOMAIN u.mem \subseteq Nat
      /\ u.mem \in [DOMAIN u.mem -> 0..(pow2[u.arch.entry_bits] - 1)]
      /\ u.req \in Seq([addr : 0..(pow2[u.arch.word_bits] - 1),
                        len : 0..(pow2[u.arch.word_bits] - 1)])
      /\ \A w \in GuestWrites : w[2] \in 0..(pow2[u.arch.entry_bits] - 1)
  BY SetupsAssumption
<1> QED BY <1>1, <1>2, <1>3 DEF InputInv, Entry, Addr, Request, Word

LEMMA InputStep == ASSUME InputInv, [Next]_vars PROVE InputInv'
<1>1. /\ WellFormed(arch) /\ dtb \in Nat /\ req \in Seq(Request)
      /\ \A w \in GuestWrites : w[2] \in Entry
      /\ DOMAIN mem \subseteq Nat /\ mem \in [DOMAIN mem -> Entry]
  BY DEF InputInv
<1>2. UNCHANGED input
  BY DEF Next, Walk, Filter, FilterPanic, StartWalk, NotPresent, Translated, Descend,
     NextPart, EndLevel, ReadEntries, ReadError, Follow, Reject, NextLevel, GuestWrite,
     Unchecked, Uncompared, vars, input
<1>3. arch' = arch /\ dtb' = dtb /\ req' = req
  BY <1>2 DEF input
<1>4. Entry' = Entry /\ Request' = Request /\ WellFormed(arch)'
  BY <1>1, <1>3 DEF Entry, Request, Addr, Word, WellFormed, index_bits
<1>5. DOMAIN mem' \subseteq Nat /\ mem' \in [DOMAIN mem' -> Entry]
  <2>1. CASE mem' = mem
    BY <1>1, <2>1
  <2>2. CASE GuestWrite
    <3>1. PICK w \in GuestWrites : mem' = [mem EXCEPT ![w[1]] = w[2]]
      BY <2>2 DEF GuestWrite
    <3> QED BY <1>1, <3>1
  <2>3. mem' = mem \/ GuestWrite
    BY DEF Next, Walk, Filter, FilterPanic, StartWalk, NotPresent, Translated, Descend,
       NextPart, EndLevel, ReadEntries, ReadError, Follow, Reject, NextLevel,
       Unchecked, Uncompared, vars
  <2> QED BY <2>1, <2>2, <2>3
<1> QED BY <1>1, <1>3, <1>4, <1>5 DEF InputInv

----------------------------------------------------------------------------
(* Where the ranges are: 0 stands for what is being cut, numbers from 1 on *)
(* for the chunks, negative ones for where ranges end.                     *)
PlaceMap(chunk_list, cutting, translated, failed, dropped) ==
    [p \in (-3)..Len(chunk_list) |->
        CASE p = 0  -> cutting
          [] p = -1 -> translated
          [] p = -2 -> failed
          [] p = -3 -> dropped
          [] OTHER  -> chunk_list[p].vec]

BeingCut == IF rest = <<>> THEN {} ELSE rest[1].v.vec
places   == PlaceMap(work, BeingCut, TranslatedRanges, out_fail, lost)

(* Parts of one buffer that do not overlap. *)
Beside(r, q) ==
    r.id # q.id \/ r.off + r.len <= q.off \/ q.off + q.len <= r.off

Apart(f) ==
    \A p, q \in DOMAIN f : \A r \in f[p], t \in f[q] : (p = q /\ r = t) \/ Beside(r, t)

(* The ranges that are a part of a request. *)
Asking ==
    { r \in [id : DOMAIN req, off : Nat, addr : Addr, len : Nat \ {0}] :
        r.off + r.len <= req[r.id].len /\ r.addr = (req[r.id].addr + r.off) % Word }

At(r, id, o) == r.id = id /\ r.off <= o /\ o < r.off + r.len

Covers(f, D) ==
    \A id \in D : \A o \in 0..(req[id].len - 1) :
        \E p \in DOMAIN f : \E r \in f[p] : At(r, id, o)

(* All of the requests in D, each byte once, and nothing else. *)
Placed(f, D) ==
    /\ Apart(f) /\ Covers(f, D)
    /\ \A p \in DOMAIN f : f[p] \subseteq {r \in Asking : r.id \in D}

(* Ranges that only change their place. *)
LEMMA Moved ==
    ASSUME NEW f, NEW D, Placed(f, D), NEW g, NEW m \in [DOMAIN f -> DOMAIN g],
           \A p \in DOMAIN f : f[p] \subseteq g[m[p]],
           \A q \in DOMAIN g : \A r \in g[q] : \E p \in DOMAIN f : m[p] = q /\ r \in f[p]
    PROVE  Placed(g, D)
<1>1. Apart(g)
  BY DEF Placed, Apart
<1>2. Covers(g, D)
  BY DEF Placed, Covers
<1>3. \A p \in DOMAIN g : g[p] \subseteq {r \in Asking : r.id \in D}
  BY DEF Placed
<1> QED BY <1>1, <1>2, <1>3 DEF Placed

(* f with the ranges c cut into a and b. *)
IsCut(c, a, b) ==
    /\ a \subseteq Asking /\ b \subseteq Asking
    /\ \A r \in a \cup b : \E t \in c :
          r.id = t.id /\ t.off <= r.off /\ r.off + r.len <= t.off + t.len
    /\ \A r, t \in a : r = t \/ Beside(r, t)
    /\ \A r, t \in b : r = t \/ Beside(r, t)
    /\ \A r \in a, t \in b : Beside(r, t)
    /\ \A t \in c : \A o \in t.off..(t.off + t.len - 1) :
          \E r \in a \cup b : At(r, t.id, o)

LEMMA CutPlaces ==
    ASSUME NEW f, NEW D, Placed(f, D), NEW g, NEW p \in DOMAIN f, NEW q,
           DOMAIN g = DOMAIN f \cup {q}, q \notin DOMAIN f,
           \A x \in DOMAIN f \ {p} : g[x] = f[x],
           IsCut(f[p], g[q], g[p]), InputInv
    PROVE  Placed(g, D)
<1>0. \A x \in DOMAIN f : \A r \in f[x] :
         r.id \in D /\ r \in Asking /\ r.off \in Nat /\ r.len \in Nat
  BY DEF Placed, Asking
<1>1. \A r \in g[q] \cup g[p] :
         /\ r \in Asking /\ r.off \in Nat /\ r.len \in Nat
         /\ \E t \in f[p] :
               r.id = t.id /\ t.off <= r.off /\ r.off + r.len <= t.off + t.len
  BY DEF IsCut, Asking
<1>2. \A y \in DOMAIN g : \A r \in g[y] : y \notin {p, q} => y \in DOMAIN f /\ r \in f[y]
  OBVIOUS
<1>3. Apart(g)
  <2> SUFFICES ASSUME NEW y \in DOMAIN g, NEW z \in DOMAIN g, NEW r \in g[y], NEW t \in g[z],
                      ~(y = z /\ r = t)
               PROVE  Beside(r, t)
    BY DEF Apart
  <2>1. CASE y \in {p, q} /\ z \in {p, q}
    <3>1. Beside(r, t) \/ Beside(t, r)
      BY <2>1 DEF IsCut
    <3> QED BY <3>1 DEF Beside
  <2>2. CASE y \notin {p, q} /\ z \notin {p, q}
    BY <1>2, <2>2 DEF Placed, Apart
  <2>3. CASE y \in {p, q} /\ z \notin {p, q}
    <3>1. PICK s \in f[p] : r.id = s.id /\ s.off <= r.off /\ r.off + r.len <= s.off + s.len
      BY <1>1, <2>3
    <3>2. t \in f[z] /\ z \in DOMAIN f /\ z # p
      BY <1>2, <2>3
    <3>3. Beside(s, t)
      BY <3>1, <3>2 DEF Placed, Apart
    <3>4. r.off \in Nat /\ r.len \in Nat /\ s.off \in Nat /\ s.len \in Nat /\ t.off \in Nat
          /\ t.len \in Nat
      BY <1>0, <1>1, <2>3, <3>1, <3>2
    <3> QED BY <3>1, <3>3, <3>4 DEF Beside
  <2>4. CASE y \notin {p, q} /\ z \in {p, q}
    <3>1. PICK s \in f[p] : t.id = s.id /\ s.off <= t.off /\ t.off + t.len <= s.off + s.len
      BY <1>1, <2>4
    <3>2. r \in f[y] /\ y \in DOMAIN f /\ y # p
      BY <1>2, <2>4
    <3>3. Beside(r, s)
      BY <3>1, <3>2 DEF Placed, Apart
    <3>4. r.off \in Nat /\ r.len \in Nat /\ s.off \in Nat /\ s.len \in Nat /\ t.off \in Nat
          /\ t.len \in Nat
      BY <1>0, <1>1, <2>4, <3>1, <3>2
    <3> QED BY <3>1, <3>3, <3>4 DEF Beside
  <2> QED BY <2>1, <2>2, <2>3, <2>4
<1>4. Covers(g, D)
  <2> SUFFICES ASSUME NEW id \in D, NEW o \in 0..(req[id].len - 1)
               PROVE  \E y \in DOMAIN g : \E r \in g[y] : At(r, id, o)
    BY DEF Covers
  <2>1. PICK x \in DOMAIN f : \E r \in f[x] : At(r, id, o)
    BY DEF Placed, Covers
  <2>2. PICK t \in f[x] : At(t, id, o)
    BY <2>1
  <2>3. CASE x # p
    BY <2>2, <2>3
  <2>4. CASE x = p
    <3>0. t.off \in Nat /\ t.len \in Nat /\ t.off <= o /\ o < t.off + t.len /\ t.id = id
      BY <1>0, <2>2, <2>4 DEF At
    <3>00. o \in Int
      <4>1. id \in DOMAIN req
        BY <1>0, <2>2, <3>0 DEF Asking
      <4>2. req[id].len \in Int
        BY <4>1, RequestFacts
      <4> QED BY <4>2
    <3>1. o \in t.off..(t.off + t.len - 1)
      BY <3>0, <3>00
    <3>2. \E r \in g[q] \cup g[p] : At(r, t.id, o)
      BY <2>4, <3>1 DEF IsCut
    <3> QED BY <3>0, <3>2
  <2> QED BY <2>3, <2>4
<1>5. \A y \in DOMAIN g : g[y] \subseteq {r \in Asking : r.id \in D}
  <2> SUFFICES ASSUME NEW y \in DOMAIN g, NEW r \in g[y] PROVE r \in Asking /\ r.id \in D
    OBVIOUS
  <2> QED BY <1>0, <1>1, <1>2
<1> QED BY <1>3, <1>4, <1>5 DEF Placed

----------------------------------------------------------------------------
(* The least and the largest of a set, and of two numbers *)

LEMMA Largest ==
    ASSUME NEW n \in Nat, NEW S, \A x \in S : x \in 0..n, S # {}
    PROVE  \E x \in S : \A y \in S : y <= x
<1> DEFINE T == {n - x : x \in S}
<1>1. T \in SUBSET Nat /\ T # {}
  OBVIOUS
<1>2. PICK t \in T : \A u \in T : t <= u
  <2> HIDE DEF T
  <2> QED BY <1>1, Smallest
<1>3. PICK x \in S : t = n - x
  OBVIOUS
<1>4. \A y \in S : n - x <= n - y
  BY <1>2, <1>3
<1> QED BY <1>4

LEMMA MinIs ==
    ASSUME NEW S, NEW x \in S, S \subseteq Int, \A y \in S : x <= y
    PROVE  Min(S) = x
<1>1. Min(S) \in S /\ \A y \in S : Min(S) <= y
  <2>1. \E z \in S : \A y \in S : z <= y
    OBVIOUS
  <2> QED BY <2>1 DEF Min
<1>2. Min(S) \in Int /\ x \in Int
  BY <1>1
<1>3. x <= Min(S) /\ Min(S) <= x
  BY <1>1
<1> QED BY <1>2, <1>3

LEMMA MaxIs ==
    ASSUME NEW S, NEW x \in S, S \subseteq Int, \A y \in S : y <= x
    PROVE  Max(S) = x
<1>1. Max(S) \in S /\ \A y \in S : y <= Max(S)
  <2>1. \E z \in S : \A y \in S : z >= y
    OBVIOUS
  <2> QED BY <2>1 DEF Max
<1>2. Max(S) \in Int /\ x \in Int
  BY <1>1
<1>3. x <= Max(S) /\ Max(S) <= x
  BY <1>1
<1> QED BY <1>2, <1>3

LEMMA MinOfTwo ==
    ASSUME NEW x \in Int, NEW y \in Int
    PROVE  Min({x, y}) = IF x <= y THEN x ELSE y
<1>1. CASE x <= y
  BY <1>1, MinIs
<1>2. CASE ~(x <= y)
  BY <1>2, MinIs
<1> QED BY <1>1, <1>2

(* The bounds of the ranges of a chunk. *)
LEMMA Bounds ==
    ASSUME Word \in Nat \ {0}, NEW vec, \A r \in vec : r.addr \in Addr /\ r.len \in Nat
    PROVE  /\ MinAddr(vec) \in Addr /\ MaxAddr(vec) \in Addr
           /\ \A r \in vec : /\ MinAddr(vec) <= r.addr
                             /\ RangeEnd(r) \in Addr /\ RangeEnd(r) <= MaxAddr(vec)
           /\ vec # {} => \E r \in vec : r.addr = MinAddr(vec)
           /\ MaxAddr(vec) # 0 => \E r \in vec : RangeEnd(r) = MaxAddr(vec)
           /\ vec = {} => MinAddr(vec) = Word - 1 /\ MaxAddr(vec) = 0
<1> DEFINE S == {Word - 1} \cup {r.addr : r \in vec}
           T == {0} \cup {RangeEnd(r) : r \in vec}
<1>1. S \subseteq Addr /\ S # {}
  BY DEF Addr
<1>2. \A r \in vec : RangeEnd(r) \in Addr
  <2> TAKE r \in vec
  <2>1. r.addr + r.len \in Int
    BY DEF Addr
  <2> QED BY <2>1, Euclid DEF RangeEnd, Addr
<1>3. T \subseteq Addr /\ T # {}
  BY <1>2 DEF Addr
<1>4. PICK x \in S : \A y \in S : x <= y
  <2>1. S \in SUBSET Nat
    BY <1>1 DEF Addr
  <2> HIDE DEF S
  <2> QED BY <1>1, <2>1, Smallest
<1>5. MinAddr(vec) = x
  <2>1. S \subseteq Int
    BY <1>1 DEF Addr
  <2>2. Min(S) = x
    <3> HIDE DEF S
    <3> QED BY <1>4, <2>1, MinIs
  <2> QED BY <2>2 DEF MinAddr
<1>6. PICK z \in T : \A y \in T : y <= z
  <2>1. \A y \in T : y \in 0..(Word - 1)
    BY <1>3 DEF Addr
  <2>2. Word - 1 \in Nat
    OBVIOUS
  <2> HIDE DEF T
  <2> QED BY <1>3, <2>1, <2>2, Largest
<1>7. MaxAddr(vec) = z
  <2>1. T \subseteq Int
    BY <1>3 DEF Addr
  <2>2. Max(T) = z
    <3> HIDE DEF T
    <3> QED BY <1>6, <2>1, MaxIs
  <2> QED BY <2>2 DEF MaxAddr
<1>8. vec # {} => \E r \in vec : r.addr = x
  <2> SUFFICES ASSUME NEW r \in vec, \A y \in vec : y.addr # x PROVE FALSE
    OBVIOUS
  <2>1. x = Word - 1
    BY <1>4
  <2>2. r.addr \in S /\ r.addr \in Addr
    OBVIOUS
  <2>3. x <= r.addr
    BY <1>4, <2>2
  <2>4. r.addr = Word - 1
    BY <2>1, <2>2, <2>3 DEF Addr
  <2> QED BY <2>1, <2>4
<1>9. \A r \in vec : x <= r.addr /\ RangeEnd(r) <= z
  BY <1>4, <1>6
<1>10. vec = {} => x = Word - 1 /\ z = 0
  BY <1>4, <1>6
<1>11. z # 0 => \E r \in vec : RangeEnd(r) = z
  BY <1>6
<1> QED BY <1>1, <1>2, <1>3, <1>4, <1>5, <1>6, <1>7, <1>8, <1>9, <1>10, <1>11

----------------------------------------------------------------------------
(* Cutting ranges *)

LEMMA HeadFacts ==
    ASSUME InputInv, NEW r \in Asking, NEW e \in Addr, r.addr <= e
    PROVE  LET h == HeadOf(r, e) IN
           /\ h \in Asking /\ h.id = r.id /\ h.off = r.off /\ h.addr = r.addr
           /\ h.len = IF r.len <= e - r.addr + 1 THEN r.len ELSE e - r.addr + 1
<1> DEFINE m == IF r.len <= e - r.addr + 1 THEN r.len ELSE e - r.addr + 1
<1>1. Word \in Nat \ {0} /\ r.id \in DOMAIN req /\ req[r.id].len \in Nat
  BY RequestFacts DEF Asking
<1>2. /\ r.off \in Nat /\ r.addr \in Addr /\ r.len \in Nat \ {0}
      /\ r.off + r.len <= req[r.id].len /\ r.addr = (req[r.id].addr + r.off) % Word
  BY DEF Asking
<1>3. r.addr \in 0..(Word - 1) /\ e \in 0..(Word - 1)
  BY <1>2 DEF Addr
<1>4. Min({r.len, e - r.addr + 1}) = m
  BY <1>2, <1>3, MinOfTwo
<1>5. r.addr % Word = r.addr
  BY <1>1, <1>3, SmallDiv
<1>6. HeadOf(r, e) = [id |-> r.id, off |-> r.off, addr |-> r.addr, len |-> m]
  BY <1>4, <1>5 DEF HeadOf, Piece
<1>7. m \in Nat \ {0} /\ m <= r.len
  BY <1>2, <1>3
<1>8. r.off + m <= req[r.id].len
  BY <1>1, <1>2, <1>7
<1> HIDE DEF m
<1>9. HeadOf(r, e) \in Asking
  BY <1>1, <1>2, <1>6, <1>7, <1>8 DEF Asking
<1> QED BY <1>6, <1>9 DEF m

LEMMA TailFacts ==
    ASSUME InputInv, NEW r \in Asking, NEW e \in Addr, r.addr <= e, r.len > e - r.addr + 1
    PROVE  LET t == TailOf(r, e)  cut == e - r.addr + 1 IN
           /\ t \in Asking /\ t.id = r.id /\ t.off = r.off + cut /\ cut \in Nat \ {0}
           /\ t.addr = (e + 1) % Word /\ t.len = r.len - cut
<1> DEFINE cut == e - r.addr + 1
           x == req[r.id].addr + r.off
<1>1. /\ Word \in Nat \ {0} /\ r.id \in DOMAIN req /\ req[r.id].len \in Nat
      /\ req[r.id].addr \in Nat
  BY RequestFacts DEF Asking
<1>2. /\ r.off \in Nat /\ r.addr \in Addr /\ r.len \in Nat \ {0}
      /\ r.off + r.len <= req[r.id].len /\ r.addr = x % Word
  BY DEF Asking
<1>3. r.addr \in 0..(Word - 1) /\ e \in 0..(Word - 1)
  BY <1>2 DEF Addr
<1>4. cut \in Nat \ {0} /\ e + 1 = r.addr + cut /\ r.len - cut \in Nat \ {0}
  BY <1>2, <1>3
<1>5. x \in Int /\ req[r.id].addr + (r.off + cut) = x + cut
  BY <1>1, <1>2, <1>4
<1> HIDE DEF x, cut
<1>6. (e + 1) % Word = (x + cut) % Word
  <2>1. ((x % Word) + cut) % Word = (x + cut) % Word
    <3>1. cut \in Int
      BY <1>4
    <3> QED BY <1>1, <1>5, <3>1, WrapSum
  <2>2. e + 1 = (x % Word) + cut
    BY <1>2, <1>4 DEF x
  <2> QED BY <2>1, <2>2
<1>7. (e + 1) % Word \in Addr
  <2>1. e + 1 \in Int
    BY <1>3
  <2> QED BY <1>1, <2>1, Euclid DEF Addr
<1>8. TailOf(r, e) = [id |-> r.id, off |-> r.off + cut, addr |-> (e + 1) % Word,
                      len |-> r.len - cut]
  BY DEF TailOf, Piece, cut
<1>9. r.off + cut \in Nat /\ (r.off + cut) + (r.len - cut) <= req[r.id].len
  BY <1>1, <1>2, <1>4
<1>10. TailOf(r, e) \in Asking
  BY <1>1, <1>4, <1>5, <1>6, <1>7, <1>8, <1>9 DEF Asking
<1> QED BY <1>4, <1>8, <1>10 DEF cut

LEMMA CutRanges ==
    ASSUME InputInv, NEW V \in SUBSET Asking, NEW e \in Addr,
           \A r, t \in V : r = t \/ Beside(r, t)
    PROVE  IsCut(V, LeftOf(V, e), RightOf(V, e))
<1> DEFINE A == LeftOf(V, e)
           B == RightOf(V, e)
<1>1. \A r \in V : /\ r \in Asking /\ r.off \in Nat /\ r.len \in Nat \ {0}
                   /\ r.addr \in Nat /\ r.id \in DOMAIN req
  BY RequestFacts DEF Asking, Addr
<1>2. e \in Nat
  BY RequestFacts DEF Addr
<1>3. ASSUME NEW h \in A
      PROVE  \E r \in V : /\ r.addr <= e /\ h = HeadOf(r, e) /\ h \in Asking
                          /\ h.id = r.id /\ h.off = r.off
                          /\ h.len = IF r.len <= e - r.addr + 1 THEN r.len ELSE e - r.addr + 1
  <2>1. PICK r \in V : r.addr <= e /\ h = HeadOf(r, e)
    BY DEF LeftOf
  <2> QED BY <2>1, HeadFacts
<1>4. ASSUME NEW h \in B
      PROVE  \E r \in V : /\ h \in Asking /\ h.id = r.id
                          /\ \/ r.addr > e /\ h = r
                             \/ /\ r.addr <= e /\ r.len > e - r.addr + 1
                                /\ h = TailOf(r, e)
                                /\ h.off = r.off + (e - r.addr + 1)
                                /\ h.len = r.len - (e - r.addr + 1)
  <2>1. CASE h \in {r \in V : r.addr > e}
    BY <1>1, <2>1
  <2>2. CASE h \notin {r \in V : r.addr > e}
    <3>1. PICK r \in V : r.addr <= e /\ r.len > e - r.addr + 1 /\ h = TailOf(r, e)
      BY <2>2 DEF RightOf
    <3> QED BY <3>1, TailFacts
  <2> QED BY <2>1, <2>2
<1>5. A \subseteq Asking /\ B \subseteq Asking
  BY <1>3, <1>4
<1>6. ASSUME NEW h \in A \cup B
      PROVE  \E t \in V : h.id = t.id /\ t.off <= h.off /\ h.off + h.len <= t.off + t.len
  <2>1. CASE h \in A
    <3>1. PICK r \in V : /\ r.addr <= e /\ h.id = r.id /\ h.off = r.off
                         /\ h.len = IF r.len <= e - r.addr + 1 THEN r.len ELSE e - r.addr + 1
      BY <1>3, <2>1
    <3>2. r.off <= h.off /\ h.off + h.len <= r.off + r.len
      BY <1>1, <1>2, <3>1
    <3> QED BY <3>1, <3>2
  <2>2. CASE h \in B
    <3>1. PICK r \in V : /\ h.id = r.id
                         /\ \/ r.addr > e /\ h = r
                            \/ /\ r.addr <= e /\ r.len > e - r.addr + 1
                               /\ h.off = r.off + (e - r.addr + 1)
                               /\ h.len = r.len - (e - r.addr + 1)
      BY <1>4, <2>2
    <3>2. r.off <= h.off /\ h.off + h.len <= r.off + r.len
      BY <1>1, <1>2, <3>1
    <3> QED BY <3>1, <3>2
  <2> QED BY <2>1, <2>2
<1>7. ASSUME NEW g \in A, NEW h \in A PROVE g = h \/ Beside(g, h)
  <2>1. PICK r \in V : /\ r.addr <= e /\ g = HeadOf(r, e) /\ g.id = r.id /\ g.off = r.off
                       /\ g.len = IF r.len <= e - r.addr + 1 THEN r.len ELSE e - r.addr + 1
    BY <1>3
  <2>2. PICK t \in V : /\ t.addr <= e /\ h = HeadOf(t, e) /\ h.id = t.id /\ h.off = t.off
                       /\ h.len = IF t.len <= e - t.addr + 1 THEN t.len ELSE e - t.addr + 1
    BY <1>3
  <2>3. r = t \/ Beside(r, t)
    OBVIOUS
  <2>4. g.len <= r.len /\ h.len <= t.len /\ g.len \in Int /\ h.len \in Int
    BY <1>1, <1>2, <2>1, <2>2
  <2>5. ASSUME Beside(r, t) PROVE Beside(g, h)
    BY <1>1, <2>1, <2>2, <2>4, <2>5 DEF Beside
  <2> QED BY <2>1, <2>2, <2>3, <2>5
<1>8. ASSUME NEW g \in B, NEW h \in B PROVE g = h \/ Beside(g, h)
  <2>1. PICK r \in V : /\ g.id = r.id
                       /\ \/ r.addr > e /\ g = r
                          \/ /\ r.addr <= e /\ r.len > e - r.addr + 1 /\ g = TailOf(r, e)
                             /\ g.off = r.off + (e - r.addr + 1)
                             /\ g.len = r.len - (e - r.addr + 1)
    BY <1>4
  <2>2. PICK t \in V : /\ h.id = t.id
                       /\ \/ t.addr > e /\ h = t
                          \/ /\ t.addr <= e /\ t.len > e - t.addr + 1 /\ h = TailOf(t, e)
                             /\ h.off = t.off + (e - t.addr + 1)
                             /\ h.len = t.len - (e - t.addr + 1)
    BY <1>4
  <2>3. CASE r = t
    BY <1>1, <1>2, <2>1, <2>2, <2>3
  <2>4. CASE Beside(r, t)
    <3>1. /\ g.off + g.len = r.off + r.len /\ h.off + h.len = t.off + t.len
          /\ r.off <= g.off /\ t.off <= h.off
          /\ g.off \in Int /\ g.len \in Int /\ h.off \in Int /\ h.len \in Int
      BY <1>1, <1>2, <2>1, <2>2
    <3> QED BY <1>1, <2>1, <2>2, <2>4, <3>1 DEF Beside
  <2> QED BY <2>3, <2>4
<1>9. ASSUME NEW g \in A, NEW h \in B PROVE Beside(g, h)
  <2>1. PICK r \in V : /\ r.addr <= e /\ g = HeadOf(r, e) /\ g.id = r.id /\ g.off = r.off
                       /\ g.len = IF r.len <= e - r.addr + 1 THEN r.len ELSE e - r.addr + 1
    BY <1>3
  <2>2. PICK t \in V : /\ h.id = t.id
                       /\ \/ t.addr > e /\ h = t
                          \/ /\ t.addr <= e /\ t.len > e - t.addr + 1 /\ h = TailOf(t, e)
                             /\ h.off = t.off + (e - t.addr + 1)
                             /\ h.len = t.len - (e - t.addr + 1)
    BY <1>4
  <2>3. CASE r = t
    BY <1>1, <1>2, <2>1, <2>2, <2>3 DEF Beside
  <2>4. CASE Beside(r, t)
    <3>1. /\ g.len <= r.len /\ h.off + h.len = t.off + t.len /\ t.off <= h.off
          /\ g.len \in Int /\ h.off \in Int /\ h.len \in Int
      BY <1>1, <1>2, <2>1, <2>2
    <3> QED BY <1>1, <2>1, <2>2, <2>4, <3>1 DEF Beside
  <2> QED BY <2>3, <2>4
<1>10. ASSUME NEW t \in V, NEW o \in t.off..(t.off + t.len - 1)
       PROVE  \E r \in A \cup B : At(r, t.id, o)
  <2>0. o \in Int /\ t.off <= o /\ o < t.off + t.len
    BY <1>1
  <2>1. CASE t.addr > e
    <3>1. t \in B
      BY <2>1 DEF RightOf
    <3> QED BY <2>0, <3>1 DEF At
  <2>2. CASE t.addr <= e /\ o < t.off + (e - t.addr + 1)
    <3>1. HeadOf(t, e) \in A
      BY <2>2 DEF LeftOf
    <3>2. At(HeadOf(t, e), t.id, o)
      BY <1>1, <1>2, <2>0, <2>2, HeadFacts DEF At
    <3> QED BY <3>1, <3>2
  <2>3. CASE t.addr <= e /\ o >= t.off + (e - t.addr + 1)
    <3>1. t.len > e - t.addr + 1
      BY <1>1, <1>2, <2>0, <2>3
    <3>2. TailOf(t, e) \in B
      BY <2>3, <3>1 DEF RightOf
    <3>3. At(TailOf(t, e), t.id, o)
      BY <1>1, <1>2, <2>0, <2>3, <3>1, TailFacts DEF At
    <3> QED BY <3>2, <3>3
  <2>4. t.addr \in Int
    BY <1>1
  <2> QED BY <1>1, <1>2, <2>0, <2>1, <2>2, <2>3, <2>4
<1> HIDE DEF A, B
<1>11. /\ \A r \in A \cup B : \E t \in V :
             r.id = t.id /\ t.off <= r.off /\ r.off + r.len <= t.off + t.len
       /\ \A r, t \in A : r = t \/ Beside(r, t)
       /\ \A r, t \in B : r = t \/ Beside(r, t)
       /\ \A r \in A, t \in B : Beside(r, t)
       /\ \A t \in V : \A o \in t.off..(t.off + t.len - 1) :
             \E r \in A \cup B : At(r, t.id, o)
  BY <1>6, <1>7, <1>8, <1>9, <1>10
<1>12. IsCut(V, A, B)
  BY <1>5, <1>11 DEF IsCut
<1> QED BY <1>12 DEF A, B

----------------------------------------------------------------------------
(* Types of the operators *)

LEMMA DivOrder ==
    ASSUME NEW p \in Nat \ {0}, NEW x \in Int, NEW y \in Int, x <= y
    PROVE  x \div p <= y \div p
<1> DEFINE q == x \div p
           s == y \div p
<1>1. x = p * q + (x % p) /\ x % p \in 0..(p - 1) /\ q \in Int
  BY Euclid
<1>2. y = p * s + (y % p) /\ y % p \in 0..(p - 1) /\ s \in Int
  BY Euclid
<1> HIDE DEF q, s
<1>3. SUFFICES ASSUME s < q PROVE FALSE
  BY <1>1, <1>2 DEF q, s
<1>4. p * s + p <= p * q
  BY <1>1, <1>2, <1>3, Multiples
<1>5. p * s \in Int /\ p * q \in Int
  BY <1>1, <1>2
<1> QED BY <1>1, <1>2, <1>4, <1>5

LEMMA DivNat == ASSUME NEW p \in Nat \ {0}, NEW x \in Nat PROVE x \div p \in Nat
<1>1. 0 \div p <= x \div p
  BY DivOrder
<1>2. 0 \div p = 0
  <2>1. 0 \in 0..(p - 1)
    OBVIOUS
  <2> QED BY <2>1, SmallDiv
<1>3. x \div p \in Int
  BY Euclid
<1> QED BY <1>1, <1>2, <1>3

LEMMA BitsType ==
    ASSUME NEW x \in Nat, NEW m \in Nat, NEW n \in Nat
    PROVE  bits(x, m, n) \in Nat /\ bits(x, m, n) < pow2[n + 1]
<1> DEFINE p == pow2[m]
           q == pow2[n + 1]
           d == x \div p
<1>1. p \in Nat \ {0} /\ q \in Nat \ {0}
  BY PowFunction
<1>2. d \in Nat
  BY <1>1, DivNat
<1> HIDE DEF d, p, q
<1>3. d * p \in Int
  BY <1>1, <1>2
<1>4. (d * p) % q \in 0..(q - 1)
  BY <1>1, <1>3, Euclid
<1>5. bits(x, m, n) = (d * p) % q
  BY DEF bits, d, p, q
<1> QED BY <1>1, <1>4, <1>5 DEF q

LEMMA StepType ==
    ASSUME WellFormed(arch), NEW x \in Nat, NEW y \in Nat, NEW s \in 0..(Last - 1)
    PROVE  vtop_step(x, y, s) \in Nat
<1>1. /\ Last \in Nat /\ Last > 0 /\ split(s) \in Nat \ {0} /\ min_index_bits(s) \in Nat
      /\ arch.pte_bits \in Nat /\ arch.space_bits \in Nat \ {0}
  <2>1. s \in 0..Last /\ s + 1 \in 0..(Last + 1) /\ Last \in Nat /\ Last > 0
    BY ArchFacts
  <2>2. arch.splits[Len(arch.splits) - 1 + 1] <= arch.space_bits
    BY DEF WellFormed
  <2>3. split(Last) \in Nat \ {0} /\ split(Last) <= arch.space_bits
    <3>1. split(Last) = arch.splits[Len(arch.splits) - 1 + 1]
      BY DEF split, Last, split_count
    <3>2. Last \in 0..Last
      BY <2>1
    <3> QED BY <2>2, <3>1, <3>2, ArchFacts
  <2> QED BY <2>1, <2>3, ArchFacts
<1>2. pte_addr_mask(x, s) \in Nat
  <2>1. arch.space_bits - 1 \in Nat /\ s # Last /\ split(s) + arch.pte_bits \in Nat
    BY <1>1
  <2> QED BY <2>1, BitsType DEF pte_addr_mask
<1>3. virt_addr_to_pte_offset(y, s) \in Nat
  <2> DEFINE p == pow2[min_index_bits(s)]
             q == pow2[arch.pte_bits]
             b == bits(y \div p, 0, split(s) - 1)
  <2>1. p \in Nat \ {0} /\ q \in Nat \ {0}
    BY <1>1, PowFunction
  <2>2. y \div p \in Nat
    BY <2>1, DivNat
  <2>3. b \in Nat
    <3>1. split(s) - 1 \in Nat /\ 0 \in Nat
      BY <1>1
    <3> HIDE DEF p
    <3> QED BY <2>2, <3>1, BitsType
  <2> HIDE DEF b, p, q
  <2>4. b * q \in Nat
    BY <2>1, <2>3
  <2> QED BY <2>4 DEF virt_addr_to_pte_offset, b, p, q
<1> QED BY <1>2, <1>3 DEF vtop_step

(* A read has the entry at its address and perhaps the one behind it.      *)
LEMMA ReadFacts ==
    ASSUME InputInv, NEW x \in Nat, Readable(x)
    PROVE  /\ Slot(x) \in DOMAIN mem /\ mem[Slot(x)] \in Entry
           /\ \E n \in Nat : EntryAt(x) = mem[Slot(x)] + n * pow2[arch.entry_bits]
           /\ EntryAt(x) \in Nat
<1> DEFINE p == pow2[arch.pte_bits]
           q == pow2[arch.entry_bits]
           t == Slot(x)
           z == x + arch.read_size - 1
<1>1. /\ p \in Nat \ {0} /\ q \in Nat \ {0} /\ arch.read_size \in {p, 2 * p}
      /\ mem \in [DOMAIN mem -> Entry]
  <2>1. arch.pte_bits \in Nat /\ arch.entry_bits \in Nat
    BY DEF InputInv, WellFormed
  <2>2. arch.read_size \in {p, 2 * p}
    BY DEF InputInv, WellFormed
  <2> QED BY <2>1, <2>2, PowFunction DEF InputInv
<1>2. t = x \div p /\ t \in Nat
  BY <1>1, DivNat DEF Slot
<1>3. Slots(x) = t..(z \div p) /\ z \in Nat /\ z \div p \in Int
  <2>1. z \in Nat
    BY <1>1
  <2> QED BY <1>1, <1>2, <2>1, Euclid DEF Slots
<1>4. t <= z \div p
  <2>1. x <= z
    BY <1>1
  <2> QED BY <1>1, <1>2, <1>3, <2>1, DivOrder
<1>5. t \in DOMAIN mem
  <2>1. t \in Slots(x)
    BY <1>2, <1>3, <1>4
  <2> QED BY <2>1 DEF Readable
<1>6. arch.read_size # p => t + 1 \in DOMAIN mem
  <2> SUFFICES ASSUME arch.read_size = 2 * p PROVE t + 1 \in DOMAIN mem
    BY <1>1
  <2>1. x + p <= z /\ x + p \in Int
    BY <1>1, <1>3
  <2>2. (x + p) \div p = t + 1
    <3>1. Moves(x, x + p, p, 1)
      BY <1>1 DEF Moves
    <3> QED BY <1>2, <3>1, Shift
  <2>3. t + 1 <= z \div p
    BY <1>1, <1>3, <2>1, <2>2, DivOrder
  <2>4. t + 1 \in Slots(x)
    BY <1>2, <1>3, <2>3
  <2> QED BY <2>4 DEF Readable
<1>7. \A y \in DOMAIN mem : mem[y] \in Nat
  BY <1>1 DEF Entry
<1> HIDE DEF t, z
<1>8. mem[t] \in Entry /\ mem[t] \in Nat
  BY <1>1, <1>5, <1>7
<1> HIDE DEF q
<1>9. CASE arch.read_size = p
  <2>1. EntryAt(x) = mem[t] + 0 * q
    BY <1>1, <1>8, <1>9 DEF EntryAt, t, q
  <2>2. 0 \in Nat /\ mem[t] + 0 * q \in Nat
    BY <1>1, <1>8
  <2> QED BY <1>5, <1>8, <2>1, <2>2 DEF t, q
<1>10. CASE arch.read_size # p
  <2>1. mem[t + 1] \in Nat
    BY <1>6, <1>7, <1>10
  <2>2. EntryAt(x) = mem[t] + mem[t + 1] * q
    BY <1>10 DEF EntryAt, t, q
  <2>3. mem[t] + mem[t + 1] * q \in Nat
    BY <1>1, <1>8, <2>1
  <2> QED BY <1>5, <1>8, <2>1, <2>2, <2>3 DEF t, q
<1> QED BY <1>9, <1>10

----------------------------------------------------------------------------
(* Chunks *)

ChunkRec ==
    {c \in [pt_addr : Nat, vec : SUBSET Asking, min : Addr, max : Addr] :
        c.min = MinAddr(c.vec) /\ c.max = MaxAddr(c.vec)}

LEMMA ChunkType ==
    ASSUME InputInv, NEW V \in SUBSET Asking, NEW x \in Nat
    PROVE  Chunk(x, V) \in ChunkRec
<1>1. \A r \in V : r.addr \in Addr /\ r.len \in Nat
  BY DEF Asking
<1>2. MinAddr(V) \in Addr /\ MaxAddr(V) \in Addr
  BY <1>1, RequestFacts, Bounds
<1> QED BY <1>2 DEF Chunk, ChunkRec

Fits(V) == \A r \in V : r.addr + r.len <= Word

LEMMA SplitFacts ==
    ASSUME InputInv, NEW c \in ChunkRec, NEW idx \in Nat,
           \A r, t \in c.vec : r = t \/ Beside(r, t)
    PROVE  LET parts == split_at_inclusive(c, idx)
               right == IF Len(parts) = 1 THEN {} ELSE parts[2].vec
           IN  /\ Len(parts) \in {1, 2} /\ parts[1] \in ChunkRec
               /\ parts[1].pt_addr = c.pt_addr
               /\ Len(parts) # 1 => /\ parts[2] \in ChunkRec /\ parts[2].vec # {}
                                    /\ parts[2].pt_addr = c.pt_addr
               /\ IsCut(c.vec, parts[1].vec, right)
               /\ c.vec # {} /\ Fits(c.vec) => parts[1].vec # {}
<1> DEFINE parts == split_at_inclusive(c, idx)
           right == IF Len(parts) = 1 THEN {} ELSE parts[2].vec
           len == (c.max - c.min) % Word
           m == IF len - 1 <= idx THEN len - 1 ELSE idx
           e == (c.min + m) % Word
           A == LeftOf(c.vec, e)
           B == RightOf(c.vec, e)
<1>1. /\ c.vec \in SUBSET Asking /\ c.pt_addr \in Nat /\ c.min \in Addr /\ c.max \in Addr
      /\ c.min = MinAddr(c.vec) /\ c.max = MaxAddr(c.vec)
  BY DEF ChunkRec
<1>2. Word \in Nat \ {0} /\ len \in 0..(Word - 1) /\ c.min \in 0..(Word - 1) /\ c.max \in 0..(Word - 1)
  <2>1. Word \in Nat \ {0} /\ c.min \in 0..(Word - 1) /\ c.max \in 0..(Word - 1)
    BY <1>1, RequestFacts DEF Addr
  <2> QED BY <2>1, Euclid
<1>3. m \in Int
  BY <1>2
<1>4. e \in Addr
  <2>1. c.min + m \in Int
    BY <1>2, <1>3
  <2> QED BY <1>2, <2>1, Euclid DEF Addr
<1>5. parts = IF len <= idx THEN <<c>>
              ELSE <<Chunk(c.pt_addr, A)>> \o
                   (IF B = {} THEN <<>> ELSE <<Chunk(c.pt_addr, B)>>)
  <2>1. Min({len - 1, idx}) = m
    BY <1>2, MinOfTwo
  <2> QED BY <2>1 DEF split_at_inclusive
<1> HIDE DEF e, m
<1>6. IsCut(c.vec, A, B)
  BY <1>1, <1>4, CutRanges
<1>7. A \in SUBSET Asking /\ B \in SUBSET Asking
  BY <1>6 DEF IsCut
<1>8. /\ Chunk(c.pt_addr, A) \in ChunkRec /\ Chunk(c.pt_addr, A).vec = A
      /\ Chunk(c.pt_addr, B) \in ChunkRec /\ Chunk(c.pt_addr, B).vec = B
      /\ Chunk(c.pt_addr, A).pt_addr = c.pt_addr /\ Chunk(c.pt_addr, B).pt_addr = c.pt_addr
  BY <1>1, <1>7, ChunkType DEF Chunk
<1>9. CASE len <= idx
  <2>1. parts = <<c>>
    BY <1>5, <1>9
  <2> HIDE DEF parts
  <2>2. Len(parts) = 1 /\ parts[1] = c
    BY <2>1
  <2>3. IsCut(c.vec, c.vec, {})
    <3>1. \A t \in c.vec : \A o \in t.off..(t.off + t.len - 1) : At(t, t.id, o)
      <4> TAKE t \in c.vec
      <4>1. t.off \in Nat /\ t.len \in Nat
        BY <1>1 DEF Asking
      <4> QED BY <4>1 DEF At
    <3>2. \A t \in c.vec : t.off \in Nat /\ t.len \in Nat
      BY <1>1 DEF Asking
    <3>3. \A r \in c.vec : \E t \in c.vec :
            r.id = t.id /\ t.off <= r.off /\ r.off + r.len <= t.off + t.len
      BY <3>2
    <3> QED BY <1>1, <3>1, <3>3 DEF IsCut
  <2> QED BY <2>2, <2>3 DEF parts
<1>10. CASE ~(len <= idx)
  <2>1. parts = IF B = {} THEN <<Chunk(c.pt_addr, A)>>
                ELSE <<Chunk(c.pt_addr, A), Chunk(c.pt_addr, B)>>
    BY <1>5, <1>10
  <2> HIDE DEF parts
  <2>2. /\ Len(parts) = IF B = {} THEN 1 ELSE 2
        /\ parts[1] = Chunk(c.pt_addr, A) /\ (B # {} => parts[2] = Chunk(c.pt_addr, B))
    BY <2>1
  <2>3. right = B
    BY <1>8, <2>2
  <2>4. ASSUME c.vec # {}, Fits(c.vec) PROVE A # {}
    <3>0. \A r \in c.vec : r.addr \in Addr /\ r.len \in Nat
      BY <1>1 DEF Asking
    <3>1. PICK r \in c.vec : r.addr = c.min
      BY <1>1, <1>2, <2>4, <3>0, Bounds
    <3>2. r.len \in Nat \ {0} /\ r.addr + r.len <= Word /\ RangeEnd(r) <= c.max
      BY <1>1, <1>2, <2>4, <3>0, Bounds DEF Fits, Asking
    <3>3. r.addr + r.len = Word \/ r.addr + r.len \in 0..(Word - 1)
      BY <1>2, <3>1, <3>2
    <3>4. c.min <= c.max \/ c.max = 0
      <4>1. CASE r.addr + r.len = Word
        <5> SUFFICES ASSUME c.max # 0 PROVE c.min <= c.max
          OBVIOUS
        <5>1. PICK t \in c.vec : RangeEnd(t) = c.max
          BY <1>1, <1>2, <3>0, Bounds
        <5>2. t.addr \in 0..(Word - 1) /\ t.len \in Nat /\ t.addr + t.len <= Word /\ c.min <= t.addr
          BY <1>1, <1>2, <2>4, <3>0, Bounds DEF Fits, Addr
        <5>3. t.addr + t.len # Word
          <6> SUFFICES ASSUME t.addr + t.len = Word PROVE FALSE
            OBVIOUS
          <6>1. Word % Word = 0
            BY <1>2
          <6> QED BY <5>1, <6>1 DEF RangeEnd
        <5>4. t.addr + t.len \in 0..(Word - 1)
          BY <1>2, <5>2, <5>3
        <5>5. RangeEnd(t) = t.addr + t.len
          BY <1>2, <5>4, SmallDiv DEF RangeEnd
        <5> QED BY <1>2, <5>1, <5>2, <5>5
      <4>2. CASE r.addr + r.len \in 0..(Word - 1)
        <5>1. RangeEnd(r) = r.addr + r.len
          BY <1>2, <4>2, SmallDiv DEF RangeEnd
        <5> QED BY <1>2, <3>1, <3>2, <5>1
      <4> QED BY <3>3, <4>1, <4>2
    <3>5. len = IF c.min <= c.max THEN c.max - c.min ELSE Word - c.min
      <4>1. CASE c.min <= c.max
        <5>1. c.max - c.min \in 0..(Word - 1)
          BY <1>2, <4>1
        <5> QED BY <1>2, <4>1, <5>1, SmallDiv
      <4>2. CASE ~(c.min <= c.max)
        <5>1. c.max = 0 /\ Word - c.min \in 0..(Word - 1) /\ 0 - c.min \in Int
          BY <1>2, <3>4, <4>2
        <5>2. Moves(Word - c.min, 0 - c.min, Word, -1)
          BY <1>2, <5>1 DEF Moves
        <5>3. (0 - c.min) % Word = (Word - c.min) % Word
          BY <5>2, Shift
        <5>4. (Word - c.min) % Word = Word - c.min
          BY <1>2, <5>1, SmallDiv
        <5> QED BY <4>2, <5>1, <5>3, <5>4
      <4> QED BY <4>1, <4>2
    <3>6. c.min + m \in 0..(Word - 1) /\ c.min <= c.min + m
      BY <1>2, <1>10, <3>5 DEF m
    <3>7. e = c.min + m
      BY <1>2, <3>6, SmallDiv DEF e
    <3>8. r.addr <= e
      BY <3>1, <3>6, <3>7
    <3> QED BY <3>8 DEF LeftOf
  <2>5. parts[1] = Chunk(c.pt_addr, A) /\ Len(parts) \in {1, 2} /\ (Len(parts) # 1 => B # {})
    BY <2>2
  <2> HIDE DEF A, B
  <2> QED BY <1>6, <1>8, <2>2, <2>3, <2>4, <2>5 DEF parts
<1> QED BY <1>9, <1>10

----------------------------------------------------------------------------
(* The invariant of the walk *)

RestRec == [v : ChunkRec, cur_address : Addr]

(* The requests that virt_addr_filter is done with. *)
Taken == IF pc \in {"filter", "panic"} THEN 1..(i - 1) ELSE DOMAIN req

WorkTypes ==
    /\ pc \in {"filter", "check", "read", "compare", "done", "panic"}
    /\ step \in 0..Last /\ i \in Nat
    /\ work \in Seq(ChunkRec) /\ rest \in Seq(RestRec) /\ Len(rest) <= 1
    /\ pc # "check" => rest = <<>>
    /\ pc \in {"filter", "panic"} => i <= Len(req) + 1 /\ i > 0 /\ Len(work) = 1
    /\ pc \in {"check", "compare"} => i <= Len(work)
    /\ pc \in {"read", "done"} => i = 0
    /\ pc \in {"read", "compare"} => step < Last
    /\ pc = "compare" => \A k \in 1..i : k \in DOMAIN pt_read /\ pt_read[k] \in Nat
    /\ pc = "check" /\ step = Last => i = Len(work) /\ rest = <<>>

(* No request goes on at the start of the address space. *)
Within == \A j \in DOMAIN req : req[j].addr + req[j].len <= Word

(* The sets of ranges in work; either all are empty or none is. *)
Vecs == {work[k].vec : k \in DOMAIN work} \cup {rest[k].v.vec : k \in DOMAIN rest}
FullChunks == Within => InWork = {} \/ {} \notin Vecs

WalkInv == InputInv /\ WorkTypes /\ Placed(places, Taken) /\ FullChunks

----------------------------------------------------------------------------
(* Moves of whole chunks *)

LEMMA SwapFacts ==
    ASSUME NEW S, NEW s \in Seq(S), NEW k \in 1..Len(s)
    PROVE  /\ swap_remove(s, k) \in Seq(S) /\ Len(swap_remove(s, k)) = Len(s) - 1
           /\ \A j \in 1..(Len(s) - 1) :
                 swap_remove(s, k)[j] = IF j = k THEN s[Len(s)] ELSE s[j]
<1> DEFINE n == Len(s) - 1
           u == [j \in 1..n |-> IF j = k THEN s[Len(s)] ELSE s[j]]
<1>1. n \in Nat /\ Len(s) \in 1..Len(s) /\ \A j \in 1..n : j \in 1..Len(s)
  OBVIOUS
<1>2. u \in [1..n -> S]
  <2>1. \A j \in 1..n : (IF j = k THEN s[Len(s)] ELSE s[j]) \in S
    BY <1>1
  <2> QED BY <2>1
<1>3. swap_remove(s, k) = u
  BY DEF swap_remove
<1>4. u \in Seq(S) /\ Len(u) = n
  <2> HIDE DEF u, n
  <2>1. u \in Seq(S)
    BY <1>1, <1>2
  <2>2. DOMAIN u = 1..n /\ DOMAIN u = 1..Len(u) /\ Len(u) \in Nat
    BY <1>2, <2>1
  <2> QED BY <1>1, <2>1, <2>2
<1> QED BY <1>3, <1>4

(* Chunk k of n is moved to t, and the last chunk takes its number. *)
LEMMA RemovePlace ==
    ASSUME NEW f, NEW D, Placed(f, D), NEW n \in Nat, DOMAIN f = (-3)..n,
           NEW k \in 1..n, NEW t \in (-3)..0, NEW g, DOMAIN g = (-3)..(n - 1),
           g[t] = f[t] \cup f[k],
           \A q \in (-3)..0 : q # t => g[q] = f[q],
           \A q \in 1..(n - 1) : g[q] = IF q = k THEN f[n] ELSE f[q]
    PROVE  Placed(g, D)
<1> DEFINE m == [p \in (-3)..n |-> IF p = k THEN t ELSE IF p = n THEN k ELSE p]
<1>1. m \in [DOMAIN f -> DOMAIN g]
  OBVIOUS
<1>2. \A p \in DOMAIN f : f[p] \subseteq g[m[p]]
  <2> TAKE p \in DOMAIN f
  <2>1. CASE p = k
    BY <2>1
  <2>2. CASE p # k /\ p = n
    BY <2>2
  <2>3. CASE p # k /\ p # n
    <3>1. CASE p \in 1..(n - 1)
      BY <2>3, <3>1
    <3>2. CASE p \in (-3)..0
      BY <2>3, <3>2
    <3> QED BY <2>3, <3>1, <3>2
  <2> QED BY <2>1, <2>2, <2>3
<1>3. ASSUME NEW q \in DOMAIN g, NEW r \in g[q] PROVE \E p \in DOMAIN f : m[p] = q /\ r \in f[p]
  <2>1. CASE q = t
    <3>1. r \in f[t] \/ r \in f[k]
      BY <2>1
    <3>2. t \in DOMAIN f /\ k \in DOMAIN f /\ m[t] = t /\ m[k] = t
      OBVIOUS
    <3> QED BY <2>1, <3>1, <3>2
  <2>2. CASE q \in (-3)..0 /\ q # t
    <3>1. r \in f[q] /\ q \in DOMAIN f /\ m[q] = q
      BY <2>2
    <3> QED BY <3>1
  <2>3. CASE q \in 1..(n - 1) /\ q = k
    <3>1. r \in f[n] /\ n \in DOMAIN f /\ m[n] = q
      BY <2>3
    <3> QED BY <3>1
  <2>4. CASE q \in 1..(n - 1) /\ q # k
    <3>1. r \in f[q] /\ q \in DOMAIN f /\ m[q] = q
      BY <2>4
    <3> QED BY <3>1
  <2> QED BY <2>1, <2>2, <2>3, <2>4
<1>4. Placed(f, D)
  OBVIOUS
<1> HIDE DEF m
<1> QED BY ONLY <1>1, <1>2, <1>3, <1>4, Moved

(* Chunk k of n becomes the last one, which takes its number. *)
LEMMA ExchangePlaces ==
    ASSUME NEW f, NEW D, Placed(f, D), NEW n \in Nat, DOMAIN f = (-3)..n,
           NEW k \in 1..n, NEW g, DOMAIN g = (-3)..n, g[n] = f[k],
           \A q \in (-3)..0 : g[q] = f[q],
           \A q \in 1..(n - 1) : g[q] = IF q = k THEN f[n] ELSE f[q]
    PROVE  Placed(g, D)
<1> DEFINE m == [p \in (-3)..n |-> IF p = k THEN n ELSE IF p = n THEN k ELSE p]
<1>1. m \in [DOMAIN f -> DOMAIN g]
  OBVIOUS
<1>2. \A p \in DOMAIN f : f[p] \subseteq g[m[p]]
  <2> TAKE p \in DOMAIN f
  <2>1. CASE p = k
    BY <2>1
  <2>2. CASE p # k /\ p = n
    BY <2>2
  <2>3. CASE p # k /\ p # n
    <3>1. CASE p \in 1..(n - 1)
      BY <2>3, <3>1
    <3>2. CASE p \in (-3)..0
      BY <2>3, <3>2
    <3> QED BY <2>3, <3>1, <3>2
  <2> QED BY <2>1, <2>2, <2>3
<1>3. ASSUME NEW q \in DOMAIN g, NEW r \in g[q] PROVE \E p \in DOMAIN f : m[p] = q /\ r \in f[p]
  <2>1. CASE q = n
    <3>1. r \in f[k] /\ k \in DOMAIN f /\ m[k] = q
      BY <2>1
    <3> QED BY <3>1
  <2>2. CASE q \in (-3)..0
    <3>1. r \in f[q] /\ q \in DOMAIN f /\ m[q] = q
      BY <2>2
    <3> QED BY <3>1
  <2>3. CASE q \in 1..(n - 1) /\ q = k
    <3>1. r \in f[n] /\ n \in DOMAIN f /\ m[n] = q
      BY <2>3
    <3> QED BY <3>1
  <2>4. CASE q \in 1..(n - 1) /\ q # k
    <3>1. r \in f[q] /\ q \in DOMAIN f /\ m[q] = q
      BY <2>4
    <3> QED BY <3>1
  <2> QED BY <2>1, <2>2, <2>3, <2>4
<1>4. Placed(f, D)
  OBVIOUS
<1> HIDE DEF m
<1> QED BY ONLY <1>1, <1>2, <1>3, <1>4, Moved

(* All chunks are moved to t. *)
LEMMA EmptyPlaces ==
    ASSUME NEW f, NEW D, Placed(f, D), NEW n \in Nat, DOMAIN f = (-3)..n,
           NEW t \in (-3)..0, NEW g, DOMAIN g = (-3)..0,
           g[t] = f[t] \cup UNION {f[k] : k \in 1..n},
           \A q \in (-3)..0 : q # t => g[q] = f[q]
    PROVE  Placed(g, D)
<1> DEFINE m == [p \in (-3)..n |-> IF p > 0 THEN t ELSE p]
<1>1. m \in [DOMAIN f -> DOMAIN g]
  OBVIOUS
<1>2. \A p \in DOMAIN f : f[p] \subseteq g[m[p]]
  <2> TAKE p \in DOMAIN f
  <2>1. CASE p \in 1..n
    BY <2>1
  <2>2. CASE p \in (-3)..0
    BY <2>2
  <2> QED BY <2>1, <2>2
<1>3. ASSUME NEW q \in DOMAIN g, NEW r \in g[q] PROVE \E p \in DOMAIN f : m[p] = q /\ r \in f[p]
  <2>1. CASE r \in f[q]
    BY <2>1
  <2>2. CASE r \notin f[q]
    <3>1. q = t /\ \E k \in 1..n : r \in f[k]
      BY <2>2
    <3> QED BY <3>1
  <2> QED BY <2>1, <2>2
<1>4. Placed(f, D)
  OBVIOUS
<1> HIDE DEF m
<1> QED BY ONLY <1>1, <1>2, <1>3, <1>4, Moved

(* One more request: the parts h of it go beside what is there. *)
LEMMA AddPlaces ==
    ASSUME InputInv, NEW f, NEW D, Placed(f, D), NEW id, id \notin D, NEW h,
           DOMAIN h = DOMAIN f, Placed(h, {id}), NEW g, DOMAIN g = DOMAIN f,
           \A p \in DOMAIN f : g[p] = f[p] \cup h[p]
    PROVE  Placed(g, D \cup {id})
<1>1. Apart(g)
  <2> SUFFICES ASSUME NEW p \in DOMAIN f, NEW q \in DOMAIN f, NEW r \in g[p], NEW t \in g[q],
                      ~(p = q /\ r = t)
               PROVE  Beside(r, t)
    BY DEF Apart
  <2>1. CASE r \in f[p] /\ t \in f[q]
    BY <2>1 DEF Placed, Apart
  <2>2. CASE r \in h[p] /\ t \in h[q]
    BY <2>2 DEF Placed, Apart
  <2>3. CASE (r \in f[p] /\ t \in h[q]) \/ (r \in h[p] /\ t \in f[q])
    <3>1. r.id # t.id
      BY <2>3 DEF Placed
    <3> QED BY <3>1 DEF Beside
  <2> QED BY <2>1, <2>2, <2>3
<1>2. Covers(g, D \cup {id})
  BY DEF Placed, Covers
<1>3. \A p \in DOMAIN g : g[p] \subseteq {r \in Asking : r.id \in D \cup {id}}
  BY DEF Placed
<1> QED BY <1>1, <1>2, <1>3 DEF Placed

----------------------------------------------------------------------------
(* What the steps have in common *)

LEMMA PlaceValues ==
    ASSUME NEW w, Len(w) \in Nat, NEW x, NEW y, NEW z, NEW u
    PROVE  LET f == PlaceMap(w, x, y, z, u) IN
           /\ DOMAIN f = (-3)..Len(w)
           /\ f[0] = x /\ f[-1] = y /\ f[-2] = z /\ f[-3] = u
           /\ \A k \in 1..Len(w) : f[k] = w[k].vec
<1> DEFINE f == PlaceMap(w, x, y, z, u)
<1>1. DOMAIN f = (-3)..Len(w)
  BY DEF PlaceMap
<1>2. 0 \in (-3)..Len(w) /\ -1 \in (-3)..Len(w) /\ -2 \in (-3)..Len(w) /\ -3 \in (-3)..Len(w)
  OBVIOUS
<1>3. f[0] = x /\ f[-1] = y /\ f[-2] = z /\ f[-3] = u
  BY <1>2 DEF PlaceMap
<1>4. ASSUME NEW k \in 1..Len(w) PROVE f[k] = w[k].vec
  <2>1. k \in (-3)..Len(w) /\ k # 0 /\ k # -1 /\ k # -2 /\ k # -3
    OBVIOUS
  <2> QED BY <2>1 DEF PlaceMap
<1> QED BY <1>1, <1>3, <1>4

LEMMA TypesPrime ==
    ASSUME InputInv, UNCHANGED input
    PROVE  /\ ChunkRec' = ChunkRec /\ RestRec' = RestRec /\ Addr' = Addr /\ Word' = Word
           /\ Last' = Last /\ Last \in Nat /\ Within' = Within /\ req' = req /\ arch' = arch
<1>1. arch' = arch /\ req' = req
  BY DEF input
<1>2. Word' = Word /\ Addr' = Addr
  BY <1>1 DEF Word, Addr
<1>3. Asking' = Asking
  BY <1>1, <1>2 DEF Asking
<1>4. ChunkRec' = ChunkRec
  BY <1>2, <1>3 DEF ChunkRec, MinAddr, MaxAddr, RangeEnd
<1>5. Last' = Last /\ Last \in Nat
  BY <1>1, ArchFacts DEF Last, split_count, InputInv
<1> QED BY <1>1, <1>2, <1>4, <1>5 DEF RestRec, Within

LEMMA PlacedPrime ==
    ASSUME UNCHANGED input, Placed(places', Taken')
    PROVE  Placed(places, Taken)'
<1>1. arch' = arch /\ req' = req
  BY DEF input
<1>2. Word' = Word /\ Addr' = Addr
  BY <1>1 DEF Word, Addr
<1>3. Asking' = Asking
  BY <1>1, <1>2 DEF Asking
<1> DEFINE f == places'
           D == Taken'
<1> HIDE DEF f, D
<1>4. Placed(f, D)
  BY DEF f, D
<1>5. Apart(f) /\ Covers(f, D) /\ \A p \in DOMAIN f : f[p] \subseteq {r \in Asking : r.id \in D}
  BY <1>4 DEF Placed
<1> QED BY <1>1, <1>3, <1>5 DEF f, D, Placed, Apart, Covers

LEMMA FewerVecs ==
    ASSUME InputInv, FullChunks, UNCHANGED input, Vecs' \subseteq Vecs
    PROVE  FullChunks'
<1>1. InWork = UNION Vecs /\ InWork' = UNION Vecs'
  BY DEF InWork, Vecs
<1>2. Within' = Within
  BY TypesPrime
<1> QED BY <1>1, <1>2 DEF FullChunks

(* The steps that leave all ranges where they are. *)
LEMMA StayStep ==
    ASSUME WalkInv, UNCHANGED <<input, work, rest, out, out_fail, lost>>, Taken' = Taken
    PROVE  Placed(places', Taken') /\ FullChunks'
<1>1. work' = work /\ rest' = rest /\ out' = out /\ out_fail' = out_fail /\ lost' = lost
      /\ UNCHANGED input
  OBVIOUS
<1>2. places' = places
  BY <1>1 DEF places, PlaceMap, BeingCut, TranslatedRanges
<1>3. Vecs' = Vecs
  BY <1>1 DEF Vecs
<1>4. FullChunks'
  BY <1>1, <1>3, FewerVecs DEF WalkInv
<1> QED BY <1>2, <1>4 DEF WalkInv

----------------------------------------------------------------------------
(* The steps keep the types and the places *)

KeepsWork == WorkTypes' /\ Placed(places', Taken') /\ FullChunks'

LEMMA OneElement ==
    ASSUME NEW S, NEW s \in Seq(S), s # <<>>, Len(s) <= 1
    PROVE  Len(s) = 1 /\ DOMAIN s = {1} /\ s[1] \in S
<1>1. Len(s) \in Nat /\ DOMAIN s = 1..Len(s) /\ \A j \in 1..Len(s) : s[j] \in S
  OBVIOUS
<1>2. Len(s) # 0
  OBVIOUS
<1>3. Len(s) = 1
  BY <1>1, <1>2
<1> QED BY <1>1, <1>3

LEMMA WorkFacts ==
    ASSUME WalkInv
    PROVE  /\ Len(work) \in Nat /\ DOMAIN work = 1..Len(work) /\ Len(req) \in Nat
           /\ DOMAIN req = 1..Len(req)
           /\ \A k \in 1..Len(work) : work[k] \in ChunkRec /\ work[k].pt_addr \in Nat
           /\ rest = <<>> => BeingCut = {}
           /\ rest # <<>> => /\ Len(rest) = 1 /\ 1 \in DOMAIN rest /\ DOMAIN rest = {1}
                             /\ rest[1].v \in ChunkRec /\ rest[1].cur_address \in Addr
                             /\ BeingCut = rest[1].v.vec
<1>1. work \in Seq(ChunkRec) /\ rest \in Seq(RestRec) /\ Len(rest) <= 1
  BY DEF WalkInv, WorkTypes
<1>2. Len(req) \in Nat /\ DOMAIN req = 1..Len(req)
  BY RequestFacts DEF WalkInv
<1>3. \A k \in 1..Len(work) : work[k] \in ChunkRec /\ work[k].pt_addr \in Nat
  BY <1>1 DEF ChunkRec
<1>4. ASSUME rest # <<>>
      PROVE  /\ Len(rest) = 1 /\ 1 \in DOMAIN rest /\ DOMAIN rest = {1}
             /\ rest[1].v \in ChunkRec /\ rest[1].cur_address \in Addr
  <2>1. Len(rest) = 1 /\ DOMAIN rest = {1} /\ rest[1] \in RestRec
    BY <1>1, <1>4, OneElement
  <2> QED BY <2>1 DEF RestRec
<1> QED BY <1>1, <1>2, <1>3, <1>4 DEF BeingCut

LEMMA FilterPanicStep == ASSUME WalkInv, FilterPanic PROVE KeepsWork
<1>1. /\ pc = "filter" /\ pc' = "panic" /\ UNCHANGED input /\ i' = i /\ work' = work
      /\ rest' = rest /\ out' = out /\ out_fail' = out_fail /\ lost' = lost /\ step' = step
  BY DEF FilterPanic, input, results, history
<1>2. Taken' = Taken
  BY <1>1 DEF Taken
<1>3. WorkTypes'
  BY <1>1, TypesPrime DEF WorkTypes, WalkInv
<1> QED BY <1>1, <1>2, <1>3, StayStep DEF KeepsWork

LEMMA StartWalkStep == ASSUME WalkInv, StartWalk PROVE KeepsWork
<1>1. /\ pc = "filter" /\ pc' = "check" /\ UNCHANGED input /\ i' = Len(work) /\ work' = work
      /\ rest' = rest /\ out' = out /\ out_fail' = out_fail /\ lost' = lost /\ step' = step
      /\ i > Len(req)
  BY DEF StartWalk, input, results, history
<1>2. Taken' = Taken
  <2>1. i - 1 = Len(req) /\ DOMAIN req = 1..Len(req)
    BY <1>1, WorkFacts DEF WalkInv, WorkTypes
  <2> QED BY <1>1, <2>1, TypesPrime DEF Taken, WalkInv
<1>3. WorkTypes'
  <2>1. rest = <<>> /\ Len(work) \in Nat
    BY <1>1, WorkFacts DEF WalkInv, WorkTypes
  <2> QED BY <1>1, <2>1, TypesPrime DEF WorkTypes, WalkInv
<1> QED BY <1>1, <1>2, <1>3, StayStep DEF KeepsWork

LEMMA EndLevelStep == ASSUME WalkInv, EndLevel PROVE KeepsWork
<1>1. /\ pc = "check" /\ pc' = IF work = <<>> THEN "done" ELSE "read"
      /\ UNCHANGED input /\ i' = i /\ work' = work /\ i = 0
      /\ rest' = rest /\ out' = out /\ out_fail' = out_fail /\ lost' = lost /\ step' = step
      /\ rest = <<>>
  BY DEF EndLevel, input, results, history
<1>2. Taken' = Taken
  BY <1>1, TypesPrime DEF Taken, WalkInv
<1>3. WorkTypes'
  <2>1. step = Last => work = <<>>
    BY <1>1 DEF WorkTypes, WalkInv
  <2>2. pc' = "read" => step < Last
    BY <1>1, <2>1, TypesPrime DEF WorkTypes, WalkInv
  <2> QED BY <1>1, <2>2, TypesPrime DEF WorkTypes, WalkInv
<1> QED BY <1>1, <1>2, <1>3, StayStep DEF KeepsWork

LEMMA ReadEntriesStep == ASSUME WalkInv, ReadEntries PROVE KeepsWork
<1>1. /\ pc = "read" /\ pc' = "compare" /\ UNCHANGED input /\ i' = Len(work) /\ work' = work
      /\ rest' = rest /\ out' = out /\ out_fail' = out_fail /\ lost' = lost /\ step' = step
      /\ \A k \in DOMAIN work : Readable(work[k].pt_addr)
      /\ pt_read' = [k \in DOMAIN work |-> EntryAt(work[k].pt_addr)]
  BY DEF ReadEntries, input, results, history
<1>2. Taken' = Taken
  BY <1>1, TypesPrime DEF Taken, WalkInv
<1>3. WorkTypes'
  <2>1. rest = <<>> /\ Len(work) \in Nat /\ step < Last
    BY <1>1, WorkFacts DEF WalkInv, WorkTypes
  <2>2. \A k \in 1..Len(work) : k \in DOMAIN work /\ EntryAt(work[k].pt_addr) \in Nat
    BY <1>1, WorkFacts, ReadFacts DEF WalkInv
  <2>3. \A k \in 1..i' : k \in DOMAIN pt_read' /\ pt_read'[k] \in Nat
    BY <1>1, <2>2
  <2>4. (\A k \in 1..i : k \in DOMAIN pt_read /\ pt_read[k] \in Nat)'
    BY <2>3
  <2>5. ChunkRec' = ChunkRec /\ RestRec' = RestRec /\ Last' = Last
    BY <1>1, TypesPrime DEF WalkInv
  <2>6. /\ step \in 0..Last /\ work \in Seq(ChunkRec) /\ rest \in Seq(RestRec)
        /\ Len(rest) <= 1
    BY DEF WorkTypes, WalkInv
  <2>7. (step \in 0..Last)' /\ (i \in Nat)' /\ (step < Last)' /\ (i <= Len(work))'
    BY <1>1, <2>1, <2>5, <2>6
  <2>8. (work \in Seq(ChunkRec))' /\ (rest \in Seq(RestRec))' /\ (Len(rest) <= 1)' /\ rest' = <<>>
    BY <1>1, <2>1, <2>5, <2>6
  <2> QED BY <1>1, <2>4, <2>7, <2>8 DEF WorkTypes
<1> QED BY <1>1, <1>2, <1>3, StayStep DEF KeepsWork

LEMMA NextLevelStep == ASSUME WalkInv, NextLevel PROVE KeepsWork
<1>1. /\ pc = "compare" /\ pc' = "check" /\ UNCHANGED input /\ i' = Len(work) /\ work' = work
      /\ rest' = rest /\ out' = out /\ out_fail' = out_fail /\ lost' = lost /\ step' = step + 1
  BY DEF NextLevel, input, results, history
<1>2. Taken' = Taken
  BY <1>1, TypesPrime DEF Taken, WalkInv
<1>3. WorkTypes'
  <2>1. rest = <<>> /\ Len(work) \in Nat /\ step < Last /\ step \in 0..Last
    BY <1>1, WorkFacts DEF WalkInv, WorkTypes
  <2>2. step + 1 \in 0..Last
    BY <2>1, TypesPrime, <1>1 DEF WalkInv
  <2> QED BY <1>1, <2>1, <2>2, TypesPrime DEF WorkTypes, WalkInv
<1> QED BY <1>1, <1>2, <1>3, StayStep DEF KeepsWork

LEMMA GuestWriteStep == ASSUME WalkInv, GuestWrite \/ UNCHANGED vars PROVE KeepsWork
<1>1. /\ UNCHANGED input /\ i' = i /\ work' = work /\ pc' = pc /\ pt_read' = pt_read
      /\ rest' = rest /\ out' = out /\ out_fail' = out_fail /\ lost' = lost /\ step' = step
  BY DEF GuestWrite, input, results, loops, vars
<1>2. Taken' = Taken
  BY <1>1, TypesPrime DEF Taken, WalkInv
<1>3. WorkTypes'
  BY <1>1, TypesPrime DEF WorkTypes, WalkInv
<1> QED BY <1>1, <1>2, <1>3, StayStep DEF KeepsWork

----------------------------------------------------------------------------
(* A chunk is removed: its ranges are gone to out, to out_fail or to be cut *)

LEMMA RemoveStep ==
    ASSUME WalkInv, UNCHANGED input, NEW k \in 1..Len(work), work' = swap_remove(work, k),
           NEW t \in {-2, -1, 0}, lost' = lost, rest = <<>>, pc \in {"check", "compare"},
           pc' = pc,
           TranslatedRanges' = IF t = -1 THEN TranslatedRanges \cup work[k].vec
                               ELSE TranslatedRanges,
           out_fail' = IF t = -2 THEN out_fail \cup work[k].vec ELSE out_fail,
           BeingCut' = IF t = 0 THEN work[k].vec ELSE {},
           rest' = <<>> \/ (rest' = <<[v |-> work[k], cur_address |-> work[k].min]>>)
    PROVE  /\ Placed(places', Taken') /\ FullChunks'
           /\ work' \in Seq(ChunkRec) /\ Len(work') = Len(work) - 1 /\ Len(work') \in Nat
           /\ rest' \in Seq(RestRec) /\ Len(rest') <= 1
<1> DEFINE n == Len(work)
           w == swap_remove(work, k)
<1>1. /\ n \in Nat /\ work \in Seq(ChunkRec) /\ BeingCut = {} /\ DOMAIN work = 1..n
      /\ work[k] \in ChunkRec
  BY WorkFacts DEF WalkInv, WorkTypes
<1>2. /\ w \in Seq(ChunkRec) /\ Len(w) = n - 1
      /\ \A j \in 1..(n - 1) : w[j] = IF j = k THEN work[n] ELSE work[j]
  BY <1>1, SwapFacts
<1>3. n - 1 \in Nat
  BY <1>1
<1> HIDE DEF w, n
<1>4. work' = w
  BY DEF w
<1> DEFINE f == places
           g == PlaceMap(w, BeingCut', TranslatedRanges', out_fail', lost')
<1>5. g = places'
  BY <1>4 DEF places
<1>6. /\ DOMAIN f = (-3)..n
      /\ f[0] = {} /\ f[-1] = TranslatedRanges /\ f[-2] = out_fail /\ f[-3] = lost
      /\ \A j \in 1..n : f[j] = work[j].vec
  BY <1>1, PlaceValues DEF places, n
<1>7. /\ DOMAIN g = (-3)..(n - 1)
      /\ g[0] = BeingCut' /\ g[-1] = TranslatedRanges' /\ g[-2] = out_fail' /\ g[-3] = lost'
      /\ \A j \in 1..(n - 1) : g[j] = w[j].vec
  <2>1. Len(w) \in Nat
    BY <1>2, <1>3
  <2> QED BY <1>2, <2>1, PlaceValues
<1>8. Placed(f, Taken) /\ k \in 1..n
  BY DEF WalkInv, n
<1> HIDE DEF f, g
<1>9. g[t] = f[t] \cup f[k]
  BY <1>6, <1>7, <1>8
<1>10. \A q \in (-3)..0 : q # t => g[q] = f[q]
  <2>1. \A q \in (-3)..0 : q = 0 \/ q = -1 \/ q = -2 \/ q = -3
    OBVIOUS
  <2> QED BY <1>6, <1>7, <2>1
<1>11. \A q \in 1..(n - 1) : g[q] = IF q = k THEN f[n] ELSE f[q]
  <2> TAKE q \in 1..(n - 1)
  <2>1. n \in 1..n /\ q \in 1..n
    BY <1>1
  <2> QED BY <1>2, <1>6, <1>7, <2>1
<1>12. Placed(g, Taken)
  <2>1. t \in (-3)..0
    OBVIOUS
  <2> QED BY ONLY <1>1, <1>6, <1>7, <1>8, <1>9, <1>10, <1>11, <2>1, RemovePlace
<1>13. Taken' = Taken
  BY TypesPrime DEF Taken, WalkInv
<1>14. rest' \in Seq(RestRec) /\ Len(rest') <= 1
  <2>1. [v |-> work[k], cur_address |-> work[k].min] \in RestRec
    BY <1>1 DEF RestRec, ChunkRec
  <2> DEFINE x == [v |-> work[k], cur_address |-> work[k].min]
  <2> HIDE DEF x
  <2>2. <<x>> \in Seq(RestRec) /\ Len(<<x>>) = 1
    BY <2>1 DEF x
  <2>3. rest' = <<>> \/ rest' = <<x>>
    BY DEF x
  <2>4. <<>> \in Seq(RestRec) /\ Len(<<>>) = 0
    OBVIOUS
  <2>5. CASE rest' = <<>>
    BY ONLY <2>4, <2>5
  <2>6. CASE rest' = <<x>>
    BY ONLY <2>2, <2>6
  <2> QED BY ONLY <2>3, <2>5, <2>6
<1>15. Vecs' \subseteq Vecs
  <2> SUFFICES ASSUME NEW c \in Vecs' PROVE \E j \in DOMAIN work : c = work[j].vec
    BY DEF Vecs
  <2>1. CASE \E j \in DOMAIN w : c = w[j].vec
    <3>1. PICK j \in DOMAIN w : c = w[j].vec
      BY <2>1
    <3>2. j \in 1..(n - 1) /\ n \in 1..n /\ j \in 1..n
      BY <1>1, <1>2, <1>3
    <3> QED BY <1>1, <1>2, <3>1, <3>2
  <2>2. CASE \E j \in DOMAIN rest' : c = rest'[j].v.vec
    <3>1. PICK j \in DOMAIN rest' : c = rest'[j].v.vec
      BY <2>2
    <3>2. rest' = <<[v |-> work[k], cur_address |-> work[k].min]>> /\ j = 1
      BY <3>1
    <3>3. c = work[k].vec
      BY <3>1, <3>2
    <3> QED BY <1>1, <1>8, <3>3
  <2> QED BY <1>4, <2>1, <2>2 DEF Vecs
<1>16. FullChunks'
  BY <1>15, FewerVecs DEF WalkInv
<1> QED BY <1>2, <1>3, <1>4, <1>5, <1>12, <1>13, <1>14, <1>16 DEF n

LEMMA NotPresentStep == ASSUME WalkInv, NotPresent PROVE KeepsWork
<1>1. /\ pc = "check" /\ pc' = pc /\ UNCHANGED input /\ i' = i - 1 /\ i > 0
      /\ work' = swap_remove(work, i) /\ out_fail' = out_fail \cup work[i].vec
      /\ rest = <<>> /\ rest' = rest /\ out' = out /\ lost' = lost /\ step' = step
  BY DEF NotPresent, Checking, Unchecked, input, history
<1>2. i \in 1..Len(work) /\ i' \in Nat /\ i' <= Len(work) - 1
  BY <1>1, WorkFacts DEF WalkInv, WorkTypes
<1>3. TranslatedRanges' = TranslatedRanges /\ BeingCut' = {}
  BY <1>1 DEF TranslatedRanges, BeingCut
<1>4. /\ Placed(places', Taken') /\ FullChunks'
      /\ work' \in Seq(ChunkRec) /\ Len(work') = Len(work) - 1 /\ Len(work') \in Nat
      /\ rest' \in Seq(RestRec) /\ Len(rest') <= 1
  BY <1>1, <1>2, <1>3, RemoveStep
<1>5. WorkTypes'
  BY <1>1, <1>2, <1>4, TypesPrime DEF WorkTypes, WalkInv
<1> QED BY <1>4, <1>5 DEF KeepsWork

LEMMA TranslatedStep == ASSUME WalkInv, Translated PROVE KeepsWork
<1>1. /\ pc = "check" /\ pc' = pc /\ UNCHANGED input /\ i' = i - 1 /\ i > 0
      /\ work' = swap_remove(work, i) /\ out_fail' = out_fail
      /\ out' = out \cup {[range |-> r, page |-> get_phys_page(work[i].pt_addr, r.addr, step)] :
                            r \in work[i].vec}
      /\ rest = <<>> /\ rest' = rest /\ lost' = lost /\ step' = step
  BY DEF Translated, Checking, Unchecked, input, history
<1>2. i \in 1..Len(work) /\ i' \in Nat /\ i' <= Len(work) - 1
  BY <1>1, WorkFacts DEF WalkInv, WorkTypes
<1>3. BeingCut' = {}
  BY <1>1 DEF BeingCut
<1>4. TranslatedRanges' = TranslatedRanges \cup work[i].vec
  <2> DEFINE pg(r) == get_phys_page(work[i].pt_addr, r.addr, step)
  <2> HIDE DEF pg
  <2>1. out' = out \cup {[range |-> r, page |-> pg(r)] : r \in work[i].vec}
    BY <1>1 DEF pg
  <2>2. \A r \in work[i].vec : [range |-> r, page |-> pg(r)].range = r
    OBVIOUS
  <2>3. \A o \in out' : o \in out \/ o.range \in work[i].vec
    BY <2>1, <2>2
  <2>4. \A r \in work[i].vec : \E o \in out' : o.range = r
    <3> TAKE r \in work[i].vec
    <3>1. [range |-> r, page |-> pg(r)] \in out'
      BY <2>1
    <3> QED BY <2>2, <3>1
  <2>5. out \subseteq out'
    BY <2>1
  <2> QED BY <2>3, <2>4, <2>5 DEF TranslatedRanges
<1>5. /\ Placed(places', Taken') /\ FullChunks'
      /\ work' \in Seq(ChunkRec) /\ Len(work') = Len(work) - 1 /\ Len(work') \in Nat
      /\ rest' \in Seq(RestRec) /\ Len(rest') <= 1
  BY <1>1, <1>2, <1>3, <1>4, RemoveStep
<1>6. WorkTypes'
  BY <1>1, <1>2, <1>5, TypesPrime DEF WorkTypes, WalkInv
<1> QED BY <1>5, <1>6 DEF KeepsWork

LEMMA DescendStep == ASSUME WalkInv, Descend PROVE KeepsWork
<1>1. /\ pc = "check" /\ pc' = pc /\ UNCHANGED input /\ i' = i - 1 /\ i > 0
      /\ work' = swap_remove(work, i) /\ out_fail' = out_fail /\ out' = out
      /\ rest = <<>> /\ rest' = <<[v |-> work[i], cur_address |-> work[i].min]>>
      /\ lost' = lost /\ step' = step /\ step # Last
  BY DEF Descend, Checking, input, results, history, is_final_mapping
<1>2. i \in 1..Len(work) /\ i' \in Nat /\ i' <= Len(work) - 1
  BY <1>1, WorkFacts DEF WalkInv, WorkTypes
<1>3. TranslatedRanges' = TranslatedRanges
  BY <1>1 DEF TranslatedRanges
<1>4. BeingCut' = work[i].vec
  <2> DEFINE x == [v |-> work[i], cur_address |-> work[i].min]
  <2>1. x.v = work[i]
    OBVIOUS
  <2> HIDE DEF x
  <2>2. rest' = <<x>> /\ <<x>> # <<>> /\ <<x>>[1] = x
    BY <1>1 DEF x
  <2> QED BY <2>1, <2>2 DEF BeingCut
<1>5. /\ Placed(places', Taken') /\ FullChunks'
      /\ work' \in Seq(ChunkRec) /\ Len(work') = Len(work) - 1 /\ Len(work') \in Nat
      /\ rest' \in Seq(RestRec) /\ Len(rest') <= 1
  BY <1>1, <1>2, <1>3, <1>4, RemoveStep
<1>6. WorkTypes'
  <2>1. step' # Last'
    BY <1>1, TypesPrime DEF WalkInv
  <2> QED BY <1>1, <1>2, <1>5, <2>1, TypesPrime DEF WorkTypes, WalkInv
<1> QED BY <1>5, <1>6 DEF KeepsWork

LEMMA RejectStep == ASSUME WalkInv, Reject PROVE KeepsWork
<1>1. /\ pc = "compare" /\ pc' = pc /\ UNCHANGED input /\ i' = i - 1 /\ i > 0
      /\ work' = swap_remove(work, i) /\ out_fail' = out_fail \cup work[i].vec
      /\ rest' = rest /\ out' = out /\ lost' = lost /\ step' = step /\ pt_read' = pt_read
  BY DEF Reject, Comparing, Uncompared, input, history
<1>2. i \in 1..Len(work) /\ i' \in Nat /\ i' <= Len(work) - 1 /\ rest = <<>>
  BY <1>1, WorkFacts DEF WalkInv, WorkTypes
<1>3. TranslatedRanges' = TranslatedRanges /\ BeingCut' = {}
  BY <1>1, <1>2 DEF TranslatedRanges, BeingCut
<1>4. /\ Placed(places', Taken') /\ FullChunks'
      /\ work' \in Seq(ChunkRec) /\ Len(work') = Len(work) - 1 /\ Len(work') \in Nat
      /\ rest' \in Seq(RestRec) /\ Len(rest') <= 1
  BY <1>1, <1>2, <1>3, RemoveStep
<1>5. WorkTypes'
  <2>1. \A k \in 1..i : k \in DOMAIN pt_read /\ pt_read[k] \in Nat
    BY <1>1 DEF WalkInv, WorkTypes
  <2>2. (\A k \in 1..i : k \in DOMAIN pt_read /\ pt_read[k] \in Nat)'
    BY <1>1, <1>2, <2>1
  <2>3. step < Last
    BY <1>1 DEF WalkInv, WorkTypes
  <2>4. (step \in 0..Last)' /\ (step < Last)'
    BY <1>1, <2>3, TypesPrime DEF WalkInv, WorkTypes
  <2>5. (work \in Seq(ChunkRec))' /\ (rest \in Seq(RestRec))'
    BY <1>1, <1>4, TypesPrime DEF WalkInv
  <2> QED BY <1>1, <1>2, <1>4, <2>2, <2>4, <2>5 DEF WorkTypes
<1> QED BY <1>4, <1>5 DEF KeepsWork

(* A followed chunk becomes the last one. *)
LEMMA FollowStep == ASSUME WalkInv, Follow PROVE KeepsWork
<1> DEFINE n == Len(work)
           u == swap_remove(work, i)
           c == [work[i] EXCEPT !.pt_addr = pt_read[i]]
           w == Append(u, c)
           f == places
           g == PlaceMap(w, BeingCut, TranslatedRanges, out_fail, lost)
<1>1. /\ pc = "compare" /\ pc' = pc /\ UNCHANGED input /\ i' = i - 1 /\ i > 0
      /\ work' = w /\ out_fail' = out_fail
      /\ rest' = rest /\ out' = out /\ lost' = lost /\ step' = step /\ pt_read' = pt_read
  BY DEF Follow, Comparing, Uncompared, input, history
<1>2. /\ i \in 1..n /\ i' \in Nat /\ i' <= n - 1 /\ rest = <<>> /\ n \in Nat
      /\ work \in Seq(ChunkRec) /\ pt_read[i] \in Nat /\ DOMAIN work = 1..n
      /\ \A k \in 1..n : work[k] \in ChunkRec
      /\ \A k \in 1..i : k \in DOMAIN pt_read /\ pt_read[k] \in Nat
  BY <1>1, WorkFacts DEF WalkInv, WorkTypes
<1>3. c \in ChunkRec /\ c.vec = work[i].vec
  <2>1. work[i] \in ChunkRec
    BY <1>2
  <2> QED BY <1>2, <2>1 DEF ChunkRec
<1>4. /\ u \in Seq(ChunkRec) /\ Len(u) = n - 1
      /\ \A j \in 1..(n - 1) : u[j] = IF j = i THEN work[n] ELSE work[j]
  BY <1>2, SwapFacts
<1> HIDE DEF u, c, n, f
<1>5. /\ w \in Seq(ChunkRec) /\ Len(w) = n /\ w[n] = c
      /\ \A j \in 1..(n - 1) : w[j] = IF j = i THEN work[n] ELSE work[j]
  BY <1>2, <1>3, <1>4
<1> HIDE DEF w
<1>6. g = places'
  BY <1>1 DEF places, BeingCut, TranslatedRanges
<1>7. /\ DOMAIN f = (-3)..n
      /\ f[0] = BeingCut /\ f[-1] = TranslatedRanges /\ f[-2] = out_fail /\ f[-3] = lost
      /\ \A j \in 1..n : f[j] = work[j].vec
  <2> HIDE DEF g
  <2>1. Len(work) \in Nat /\ f = PlaceMap(work, BeingCut, TranslatedRanges, out_fail, lost)
    BY <1>2 DEF f, places, n
  <2> QED BY <2>1, PlaceValues DEF n
<1>8. /\ DOMAIN g = (-3)..n
      /\ g[0] = BeingCut /\ g[-1] = TranslatedRanges /\ g[-2] = out_fail /\ g[-3] = lost
      /\ \A j \in 1..n : g[j] = w[j].vec
  <2>1. Len(w) \in Nat
    BY <1>2, <1>5
  <2> QED BY <1>5, <2>1, PlaceValues
<1> HIDE DEF g
<1>9. Placed(g, Taken)
  <2>1. \A q \in (-3)..0 : q = 0 \/ q = -1 \/ q = -2 \/ q = -3
    OBVIOUS
  <2>2. \A q \in (-3)..0 : g[q] = f[q]
    BY <1>7, <1>8, <2>1
  <2>3. g[n] = f[i]
    <3>1. n \in 1..n
      BY <1>2
    <3> QED BY <1>2, <1>3, <1>5, <1>7, <1>8, <3>1
  <2>4. \A q \in 1..(n - 1) : g[q] = IF q = i THEN f[n] ELSE f[q]
    <3> TAKE q \in 1..(n - 1)
    <3>1. n \in 1..n /\ q \in 1..n
      BY <1>2
    <3> QED BY <1>5, <1>7, <1>8, <3>1
  <2>5. Placed(f, Taken)
    BY DEF WalkInv, f
  <2> QED BY ONLY <1>2, <1>7, <1>8, <2>2, <2>3, <2>4, <2>5, ExchangePlaces
<1>10. Taken' = Taken
  BY <1>1, TypesPrime DEF Taken, WalkInv
<1>11. Vecs' \subseteq Vecs
  <2> SUFFICES ASSUME NEW x \in Vecs' PROVE \E j \in DOMAIN work : x = work[j].vec
    BY DEF Vecs
  <2>1. PICK j \in DOMAIN w : x = w[j].vec
    BY <1>1, <1>2 DEF Vecs
  <2>2. j \in 1..n /\ n \in 1..n
    BY <1>2, <1>5, <2>1
  <2>3. j = n \/ j \in 1..(n - 1)
    BY <1>2, <2>2
  <2> QED BY <1>2, <1>3, <1>5, <2>1, <2>2, <2>3
<1>12. FullChunks'
  BY <1>1, <1>11, FewerVecs DEF WalkInv
<1>13. WorkTypes'
  <2>2. (\A k \in 1..i : k \in DOMAIN pt_read /\ pt_read[k] \in Nat)'
    BY <1>1, <1>2
  <2>3. step < Last
    BY <1>1 DEF WalkInv, WorkTypes
  <2>4. (step \in 0..Last)' /\ (step < Last)'
    BY <1>1, <2>3, TypesPrime DEF WalkInv, WorkTypes
  <2>5. (work \in Seq(ChunkRec))' /\ (rest \in Seq(RestRec))' /\ Len(rest)' <= 1
    BY <1>1, <1>5, TypesPrime DEF WalkInv, WorkTypes
  <2>6. i' <= Len(work')
    BY <1>1, <1>2, <1>5
  <2> QED BY <1>1, <1>2, <2>2, <2>4, <2>5, <2>6 DEF WorkTypes
<1> QED BY <1>6, <1>9, <1>10, <1>12, <1>13 DEF KeepsWork

LEMMA ReadErrorStep == ASSUME WalkInv, ReadError PROVE KeepsWork
<1> DEFINE n == Len(work)
           left == UNION {work[k].vec : k \in DOMAIN work}
           f == places
           g == PlaceMap(<<>>, BeingCut, TranslatedRanges, out_fail \cup left, lost)
<1>1. /\ pc = "read" /\ pc' = "done" /\ UNCHANGED input /\ i' = i
      /\ work' = <<>> /\ out_fail' = out_fail \cup left
      /\ rest' = rest /\ out' = out /\ lost' = lost /\ step' = step
  BY DEF ReadError, input
<1>2. /\ n \in Nat /\ DOMAIN work = 1..n /\ i = 0 /\ rest = <<>> /\ step \in 0..Last
  BY <1>1, WorkFacts DEF WalkInv, WorkTypes
<1>3. Len(<<>>) = 0 /\ 0 \in Nat /\ <<>> \in Seq(ChunkRec) /\ <<>> \in Seq(RestRec)
  OBVIOUS
<1>4. g = places'
  BY <1>1 DEF places, BeingCut, TranslatedRanges
<1> HIDE DEF n, f
<1>5. /\ DOMAIN f = (-3)..n
      /\ f[0] = BeingCut /\ f[-1] = TranslatedRanges /\ f[-2] = out_fail /\ f[-3] = lost
      /\ \A j \in 1..n : f[j] = work[j].vec
  BY <1>2, PlaceValues DEF f, places, n
<1> HIDE DEF left
<1>6. /\ DOMAIN g = (-3)..0
      /\ g[0] = BeingCut /\ g[-1] = TranslatedRanges /\ g[-2] = out_fail \cup left /\ g[-3] = lost
  BY <1>3, PlaceValues
<1> HIDE DEF g
<1>7. g[-2] = f[-2] \cup UNION {f[k] : k \in 1..n}
  <2>1. left = UNION {f[k] : k \in 1..n}
    BY <1>2, <1>5 DEF left
  <2> QED BY <1>5, <1>6, <2>1
<1>8. \A q \in (-3)..0 : q # -2 => g[q] = f[q]
  <2>1. \A q \in (-3)..0 : q = 0 \/ q = -1 \/ q = -2 \/ q = -3
    OBVIOUS
  <2> QED BY <1>5, <1>6, <2>1
<1>9. Placed(g, Taken)
  <2>1. Placed(f, Taken) /\ -2 \in (-3)..0
    BY DEF WalkInv, f
  <2> QED BY ONLY <1>2, <1>5, <1>6, <1>7, <1>8, <2>1, EmptyPlaces
<1>10. Taken' = Taken
  BY <1>1, TypesPrime DEF Taken, WalkInv
<1>11. Vecs' \subseteq Vecs
  BY <1>1, <1>2 DEF Vecs
<1>12. FullChunks'
  BY <1>1, <1>11, FewerVecs DEF WalkInv
<1>13. WorkTypes'
  BY <1>1, <1>2, <1>3, TypesPrime DEF WorkTypes, WalkInv
<1> QED BY <1>4, <1>9, <1>10, <1>12, <1>13 DEF KeepsWork

----------------------------------------------------------------------------
(* page_chunks: the next part becomes a chunk of its own *)

LEMMA AskingFits == ASSUME InputInv, Within PROVE Fits(Asking)
<1> SUFFICES ASSUME NEW r \in Asking PROVE r.addr + r.len <= Word
  BY DEF Fits
<1>1. /\ r.id \in DOMAIN req /\ r.off \in Nat /\ r.len \in Nat \ {0}
      /\ r.off + r.len <= req[r.id].len /\ r.addr = (req[r.id].addr + r.off) % Word
  BY DEF Asking
<1>2. /\ Word \in Nat \ {0} /\ req[r.id].addr \in 0..(Word - 1) /\ req[r.id].len \in Nat
      /\ req[r.id].addr + req[r.id].len <= Word
  BY <1>1, RequestFacts DEF Within
<1>3. req[r.id].addr + r.off \in 0..(Word - 1)
  <2> DEFINE x == req[r.id].addr
             y == req[r.id].len
  <2>1. x \in Nat /\ y \in Nat /\ x + y <= Word /\ r.off + r.len <= y
    BY <1>1, <1>2
  <2> HIDE DEF x, y
  <2>2. x + r.off \in 0..(Word - 1)
    BY <1>1, <1>2, <2>1
  <2> QED BY <2>2 DEF x
<1>4. r.addr = req[r.id].addr + r.off
  BY <1>1, <1>2, <1>3, SmallDiv
<1> QED BY <1>1, <1>2, <1>4

EndLen == LET cur == rest[1].cur_address
              size == page_size_step(step + 1)
              next_page == (cur + size) % Word
          IN ((next_page - (next_page % size)) - cur - 1) % Word
Parts == split_at_inclusive(rest[1].v, EndLen)
RightRanges == IF Len(Parts) = 1 THEN {} ELSE Parts[2].vec
NewChunk == [Parts[1] EXCEPT !.pt_addr = vtop_step(Parts[1].pt_addr, Parts[1].min, step)]

LEMMA NextPartIs ==
    ASSUME NextPart
    PROVE  /\ pc = "check" /\ rest # <<>> /\ work' = Append(work, NewChunk)
           /\ rest' = IF Len(Parts) = 1 THEN <<>>
                      ELSE <<[v |-> Parts[2],
                              cur_address |-> (rest[1].cur_address + EndLen + 1) % Word]>>
           /\ UNCHANGED <<input, mem, pc, step, i, loops, results, history>>
BY DEF NextPart, NewChunk, Parts, EndLen

LEMMA PartsFacts ==
    ASSUME WalkInv, rest # <<>>
    PROVE  /\ EndLen \in Nat /\ step \in 0..(Last - 1) /\ pc = "check"
           /\ Len(Parts) \in {1, 2} /\ Parts[1] \in ChunkRec
           /\ Parts[1].pt_addr = rest[1].v.pt_addr
           /\ NewChunk \in ChunkRec /\ NewChunk.vec = Parts[1].vec
           /\ Len(Parts) # 1 => /\ Parts[2] \in ChunkRec /\ Parts[2].vec # {}
                                /\ Parts[2].pt_addr = rest[1].v.pt_addr
           /\ IsCut(rest[1].v.vec, Parts[1].vec, RightRanges)
           /\ rest[1].v.vec # {} /\ Fits(rest[1].v.vec) => Parts[1].vec # {}
<1>1. rest[1].v \in ChunkRec /\ rest[1].cur_address \in Addr /\ BeingCut = rest[1].v.vec
  BY WorkFacts
<1>2. Word \in Nat \ {0} /\ Last \in Nat
  BY ArchFacts DEF WalkInv, InputInv
<1>3. pc = "check" /\ step \in 0..(Last - 1) /\ step + 1 \in 0..(Last + 1)
  BY <1>2 DEF WalkInv, WorkTypes
<1>4. EndLen \in Nat
  <2> DEFINE cur == rest[1].cur_address
             size == page_size_step(step + 1)
             next_page == (cur + size) % Word
             x == (next_page - (next_page % size)) - cur - 1
  <2>1. cur \in Int /\ size \in Nat \ {0}
    <3>1. WellFormed(arch)
      BY DEF WalkInv, InputInv
    <3>2. size \in Nat \ {0}
      BY <1>3, <3>1, ArchFacts
    <3>3. cur \in Int
      BY <1>1, <1>2 DEF Addr
    <3> QED BY <3>2, <3>3
  <2> HIDE DEF cur, size
  <2>2. next_page \in Int
    <3>1. cur + size \in Int
      BY <2>1
    <3> QED BY <1>2, <3>1, Euclid
  <2> HIDE DEF next_page
  <2>3. x \in Int
    <3>1. next_page % size \in Int
      BY <2>1, <2>2, Euclid
    <3> QED BY <2>1, <2>2, <3>1
  <2> HIDE DEF x
  <2>4. x % Word \in Nat
    BY <1>2, <2>3, Euclid
  <2> QED BY <2>4 DEF EndLen, x, next_page, size, cur
<1>5. \A r, t \in rest[1].v.vec : r = t \/ Beside(r, t)
  <2>1. places[0] = rest[1].v.vec /\ 0 \in DOMAIN places
    <3>1. Len(work) \in Nat
      BY WorkFacts
    <3> QED BY <1>1, <3>1, PlaceValues DEF places
  <2> QED BY <2>1 DEF WalkInv, Placed, Apart
<1> DEFINE c == rest[1].v
<1>6. /\ Len(Parts) \in {1, 2} /\ Parts[1] \in ChunkRec
      /\ Parts[1].pt_addr = c.pt_addr
      /\ Len(Parts) # 1 => /\ Parts[2] \in ChunkRec /\ Parts[2].vec # {}
                           /\ Parts[2].pt_addr = c.pt_addr
      /\ IsCut(c.vec, Parts[1].vec, RightRanges)
      /\ c.vec # {} /\ Fits(c.vec) => Parts[1].vec # {}
  <2>1. c \in ChunkRec /\ \A r, t \in c.vec : r = t \/ Beside(r, t)
    BY <1>1, <1>5
  <2> HIDE DEF c
  <2>2. InputInv
    BY DEF WalkInv
  <2> DEFINE e == EndLen
             parts == split_at_inclusive(c, e)
             right == IF Len(parts) = 1 THEN {} ELSE parts[2].vec
  <2>3. e \in Nat
    BY <1>4
  <2> HIDE DEF e
  <2>4. /\ Len(parts) \in {1, 2} /\ parts[1] \in ChunkRec
        /\ parts[1].pt_addr = c.pt_addr
        /\ Len(parts) # 1 => /\ parts[2] \in ChunkRec /\ parts[2].vec # {}
                             /\ parts[2].pt_addr = c.pt_addr
        /\ IsCut(c.vec, parts[1].vec, right)
        /\ c.vec # {} /\ Fits(c.vec) => parts[1].vec # {}
    BY ONLY <2>1, <2>2, <2>3, SplitFacts
  <2>5. parts = Parts /\ right = RightRanges
    BY DEF Parts, RightRanges, c, e
  <2> HIDE DEF parts, right
  <2> QED BY <2>4, <2>5
<1> HIDE DEF c
<1>7. vtop_step(Parts[1].pt_addr, Parts[1].min, step) \in Nat
  <2>1. Parts[1].pt_addr \in Nat /\ Parts[1].min \in Nat
    BY <1>2, <1>6 DEF ChunkRec, Addr
  <2> QED BY <1>3, <2>1, StepType DEF WalkInv, InputInv
<1>8. NewChunk \in ChunkRec /\ NewChunk.vec = Parts[1].vec
  BY <1>6, <1>7 DEF NewChunk, ChunkRec
<1> QED BY <1>3, <1>4, <1>6, <1>8 DEF c

LEMMA NextPartStep == ASSUME WalkInv, NextPart PROVE KeepsWork
<1> DEFINE n == Len(work)
           f == places
           g == PlaceMap(work', BeingCut', TranslatedRanges', out_fail', lost')
<1>1. /\ pc = "check" /\ rest # <<>> /\ work' = Append(work, NewChunk)
      /\ rest' = IF Len(Parts) = 1 THEN <<>>
                 ELSE <<[v |-> Parts[2],
                         cur_address |-> (rest[1].cur_address + EndLen + 1) % Word]>>
      /\ UNCHANGED input /\ pc' = pc /\ step' = step /\ i' = i /\ out' = out
      /\ out_fail' = out_fail /\ lost' = lost /\ pt_read' = pt_read
  BY NextPartIs DEF input, loops, results, history
<1>2. /\ EndLen \in Nat /\ step \in 0..(Last - 1)
      /\ Len(Parts) \in {1, 2} /\ Parts[1] \in ChunkRec
      /\ NewChunk \in ChunkRec /\ NewChunk.vec = Parts[1].vec
      /\ Len(Parts) # 1 => Parts[2] \in ChunkRec /\ Parts[2].vec # {}
      /\ IsCut(rest[1].v.vec, Parts[1].vec, RightRanges)
      /\ rest[1].v.vec # {} /\ Fits(rest[1].v.vec) => Parts[1].vec # {}
  BY <1>1, PartsFacts
<1>3. /\ n \in Nat /\ work \in Seq(ChunkRec) /\ DOMAIN work = 1..n /\ i \in Nat /\ i <= n
      /\ BeingCut = rest[1].v.vec /\ rest[1].v \in ChunkRec /\ DOMAIN rest = {1}
      /\ rest[1].cur_address \in Addr
  BY <1>1, WorkFacts DEF WalkInv, WorkTypes
<1>4. /\ work' \in Seq(ChunkRec) /\ Len(work') = n + 1 /\ work'[n + 1] = NewChunk
      /\ \A k \in 1..n : work'[k] = work[k]
  BY <1>1, <1>2, <1>3
<1>5. /\ (rest \in Seq(RestRec))' /\ (Len(rest) <= 1)' /\ BeingCut' = RightRanges
      /\ {rest[k].v.vec : k \in DOMAIN rest}' = IF Len(Parts) = 1 THEN {} ELSE {Parts[2].vec}
  <2>1. CASE Len(Parts) = 1
    <3>1. rest' = <<>>
      BY <1>1, <2>1
    <3>2. <<>> \in Seq(RestRec') /\ Len(<<>>) = 0 /\ DOMAIN <<>> = {}
      OBVIOUS
    <3> QED BY <2>1, <3>1, <3>2 DEF BeingCut, RightRanges
  <2>2. CASE Len(Parts) # 1
    <3> DEFINE cur == (rest[1].cur_address + EndLen + 1) % Word
               x == [v |-> Parts[2], cur_address |-> cur]
    <3>1. cur \in Addr
      <4>1. Word \in Nat \ {0} /\ rest[1].cur_address \in Int
        BY <1>3, RequestFacts DEF WalkInv, Addr
      <4>2. rest[1].cur_address + EndLen + 1 \in Int
        BY <1>2, <4>1
      <4> QED BY <4>1, <4>2, Euclid DEF Addr
    <3> HIDE DEF cur
    <3>2. x \in RestRec /\ x.v = Parts[2]
      BY <1>2, <2>2, <3>1 DEF RestRec
    <3>3. rest' = <<x>>
      BY <1>1, <2>2 DEF cur
    <3> HIDE DEF x
    <3>4. x \in RestRec'
      BY <1>1, <3>2, TypesPrime DEF WalkInv
    <3>5. <<x>> \in Seq(RestRec') /\ Len(<<x>>) = 1 /\ <<x>> # <<>> /\ <<x>>[1] = x
          /\ DOMAIN <<x>> = {1}
      BY ONLY <3>4
    <3>6. (rest \in Seq(RestRec))' /\ (Len(rest) <= 1)' /\ rest'[1] = x /\ DOMAIN rest' = {1}
          /\ rest' # <<>>
      BY ONLY <3>3, <3>5
    <3>7. BeingCut' = RightRanges
      BY <2>2, <3>2, <3>6 DEF BeingCut, RightRanges
    <3>8. {rest[k].v.vec : k \in DOMAIN rest}' = {Parts[2].vec}
      BY <3>2, <3>6
    <3> QED BY <2>2, <3>6, <3>7, <3>8
  <2> QED BY <2>1, <2>2
<1>6. g = places'
  BY DEF places
<1>7. TranslatedRanges' = TranslatedRanges
  BY <1>1 DEF TranslatedRanges
<1>8. Placed(g, Taken)
  <2>1. /\ DOMAIN f = (-3)..n
        /\ f[0] = BeingCut /\ f[-1] = TranslatedRanges /\ f[-2] = out_fail /\ f[-3] = lost
        /\ \A j \in 1..n : f[j] = work[j].vec
    <3> HIDE DEF g
    <3>1. Len(work) \in Nat /\ f = PlaceMap(work, BeingCut, TranslatedRanges, out_fail, lost)
      BY <1>3 DEF places
    <3> QED BY <3>1, PlaceValues
  <2>2. /\ DOMAIN g = (-3)..(n + 1)
        /\ g[0] = RightRanges /\ g[-1] = TranslatedRanges /\ g[-2] = out_fail /\ g[-3] = lost
        /\ \A j \in 1..(n + 1) : g[j] = work'[j].vec
    <3> HIDE DEF f
    <3>1. Len(work') \in Nat
      BY <1>3, <1>4
    <3> DEFINE w == work'
               x == BeingCut'
               y == TranslatedRanges'
               z == out_fail'
               u == lost'
    <3>2. w = work' /\ x = RightRanges /\ y = TranslatedRanges /\ z = out_fail /\ u = lost
      BY <1>1, <1>5, <1>7
    <3> HIDE DEF n, w, x, y, z, u
    <3>3. Len(w) \in Nat /\ g = PlaceMap(w, x, y, z, u)
      BY <3>1, <3>2 DEF w, x, y, z, u
    <3>4. /\ DOMAIN g = (-3)..Len(w)
          /\ g[0] = x /\ g[-1] = y /\ g[-2] = z /\ g[-3] = u
          /\ \A j \in 1..Len(w) : g[j] = w[j].vec
      BY ONLY <3>3, PlaceValues
    <3> QED BY <1>4, <3>2, <3>4
  <2> HIDE DEF f, g, n
  <2> DEFINE q == n + 1
             p == 0
  <2>3. DOMAIN g = DOMAIN f \cup {q} /\ q \notin DOMAIN f /\ p \in DOMAIN f
    BY <1>3, <2>1, <2>2
  <2>4. \A x \in DOMAIN f \ {p} : g[x] = f[x]
    <3> TAKE x \in DOMAIN f \ {p}
    <3>1. x \in 1..n \/ x = -1 \/ x = -2 \/ x = -3
      BY <1>3, <2>1
    <3> QED BY <1>3, <1>4, <2>1, <2>2, <3>1
  <2>5. g[q] = Parts[1].vec /\ g[p] = RightRanges /\ f[p] = rest[1].v.vec
    <3>1. n + 1 \in 1..(n + 1)
      BY <1>3
    <3> QED BY <1>2, <1>3, <1>4, <2>1, <2>2, <3>1
  <2>6. IsCut(f[p], g[q], g[p])
    BY <1>2, <2>5
  <2>7. Placed(f, Taken) /\ InputInv
    BY DEF WalkInv, f
  <2> HIDE DEF q, p
  <2> QED BY ONLY <2>3, <2>4, <2>6, <2>7, CutPlaces
<1>9. Taken' = Taken
  BY <1>1, TypesPrime DEF Taken, WalkInv
<1>10. FullChunks'
  <2>1. /\ rest[1].v.vec \in Vecs
        /\ Vecs' \subseteq Vecs \cup {Parts[1].vec}
                     \cup (IF Len(Parts) = 1 THEN {} ELSE {Parts[2].vec})
    <3>1. rest[1].v.vec \in Vecs
      BY <1>3 DEF Vecs
    <3>2. \A k \in DOMAIN work' : work'[k].vec \in Vecs \cup {Parts[1].vec}
      <4> TAKE k \in DOMAIN work'
      <4>1. k \in 1..n \/ k = n + 1
        BY <1>3, <1>4
      <4> QED BY <1>2, <1>3, <1>4, <4>1 DEF Vecs
    <3> QED BY <1>5, <3>1, <3>2 DEF Vecs
  <2>2. InWork = UNION Vecs /\ InWork' = UNION Vecs' /\ Within' = Within
    BY <1>1, TypesPrime DEF InWork, Vecs, WalkInv
  <2>3. CASE Within /\ InWork = {}
    <3>1. rest[1].v.vec = {}
      BY <2>1, <2>2, <2>3
    <3>2. Parts[1].vec = {} /\ RightRanges = {}
      BY <1>2, <3>1 DEF IsCut
    <3>3. Len(Parts) # 1 => Parts[2].vec = {}
      BY <3>2 DEF RightRanges
    <3> QED BY <2>1, <2>2, <2>3, <3>2, <3>3 DEF FullChunks
  <2>4. CASE Within /\ {} \notin Vecs
    <3>1. Fits(rest[1].v.vec)
      BY <1>3, <2>4, AskingFits DEF ChunkRec, Fits, WalkInv
    <3>2. Parts[1].vec # {} /\ (Len(Parts) # 1 => Parts[2].vec # {})
      BY <1>2, <2>1, <2>4, <3>1
    <3> QED BY <2>1, <2>2, <2>4, <3>2 DEF FullChunks
  <2> QED BY <2>2, <2>3, <2>4 DEF FullChunks, WalkInv
<1>11. WorkTypes'
  <2>1. step' # Last' /\ step' \in 0..Last'
    BY <1>1, <1>2, TypesPrime DEF WalkInv
  <2>2. (work \in Seq(ChunkRec))' /\ i' <= Len(work') /\ i' \in Nat
    BY <1>1, <1>3, <1>4, TypesPrime DEF WalkInv
  <2> QED BY <1>1, <1>5, <2>1, <2>2 DEF WorkTypes
<1> QED BY <1>6, <1>8, <1>9, <1>10, <1>11 DEF KeepsWork

----------------------------------------------------------------------------
(* virt_addr_filter: the parts of a request *)

(* S is the n bytes of request id from o on, or empty if there are none. *)
Cell(S, id, o, n) ==
    /\ \A q \in S : q \in Asking /\ q.id = id /\ q.off = o /\ q.len = n
    /\ \A q, t \in S : q = t
    /\ \A x \in o..(o + n - 1) : \E q \in S : At(q, id, x)

LEMMA PartCell ==
    ASSUME InputInv, NEW id \in DOMAIN req, NEW o \in Nat, NEW n \in Nat,
           o + n <= req[id].len
    PROVE  LET S == NonEmpty({Part(id, req[id], o, n)}) IN
           /\ Cell(S, id, o, n)
           /\ n > 0 => S = {Part(id, req[id], o, n)}
<1> DEFINE x == Part(id, req[id], o, n)
           S == NonEmpty({x})
<1>1. x = [id |-> id, off |-> o, addr |-> (req[id].addr + o) % Word, len |-> n]
  BY DEF Part, Piece
<1>2. (req[id].addr + o) % Word \in Addr
  <2>1. Word \in Nat \ {0} /\ req[id].addr + o \in Int
    BY RequestFacts
  <2> QED BY <2>1, Euclid DEF Addr
<1>3. x.id = id /\ x.off = o /\ x.len = n
  BY <1>1
<1>4. n > 0 => x \in Asking
  <2> SUFFICES ASSUME n > 0 PROVE x \in Asking
    OBVIOUS
  <2>1. n \in Nat \ {0}
    OBVIOUS
  <2> QED BY <1>1, <1>2, <2>1 DEF Asking
<1> HIDE DEF x
<1>5. S = IF n > 0 THEN {x} ELSE {}
  BY <1>3 DEF NonEmpty
<1> HIDE DEF S
<1>6. ASSUME NEW y \in o..(o + n - 1) PROVE \E q \in S : At(q, id, y)
  <2>1. n > 0 /\ o <= y /\ y < o + n
    OBVIOUS
  <2> QED BY <1>3, <1>5, <2>1 DEF At
<1>7. Cell(S, id, o, n)
  BY <1>3, <1>4, <1>5, <1>6 DEF Cell
<1> QED BY <1>5, <1>7 DEF S, x

LEMMA NoCell == ASSUME NEW id, NEW o \in Nat PROVE Cell({}, id, o, 0)
BY DEF Cell

LEMMA CellsBeside ==
    ASSUME NEW S, NEW T, NEW id, NEW o \in Nat, NEW n \in Nat, NEW u \in Nat, NEW l \in Nat,
           Cell(S, id, o, n), Cell(T, id, u, l), o + n <= u, NEW r \in S, NEW t \in T
    PROVE  Beside(r, t) /\ Beside(t, r) /\ r # t
<1>1. r.off = o /\ r.len = n /\ t.off = u /\ t.len = l /\ r.len \in Nat \ {0}
  BY DEF Cell, Asking
<1> QED BY <1>1 DEF Beside

Four(m1, S1, m2, S2, m3, S3, m4, S4) ==
    [p \in (-3)..1 |->
        (IF p = m1 THEN S1 ELSE {}) \cup (IF p = m2 THEN S2 ELSE {}) \cup
        (IF p = m3 THEN S3 ELSE {}) \cup (IF p = m4 THEN S4 ELSE {})]

LEMMA FourCells ==
    ASSUME InputInv, NEW id \in DOMAIN req, NEW a \in Nat, NEW b \in Nat, NEW c \in Nat,
           NEW e \in Nat, a + b + c + e = req[id].len,
           NEW S1, NEW S2, NEW S3, NEW S4,
           Cell(S1, id, 0, a), Cell(S2, id, a, b), Cell(S3, id, a + b, c),
           Cell(S4, id, a + b + c, e),
           NEW m1 \in (-3)..1, NEW m2 \in (-3)..1, NEW m3 \in (-3)..1, NEW m4 \in (-3)..1
    PROVE  Placed(Four(m1, S1, m2, S2, m3, S3, m4, S4), {id})
<1> DEFINE h == Four(m1, S1, m2, S2, m3, S3, m4, S4)
<1>1. DOMAIN h = (-3)..1
  BY DEF Four
<1>2. ASSUME NEW p \in DOMAIN h, NEW r \in h[p]
      PROVE  (r \in S1 /\ p = m1) \/ (r \in S2 /\ p = m2) \/ (r \in S3 /\ p = m3)
               \/ (r \in S4 /\ p = m4)
  BY DEF Four
<1>3. S1 \subseteq h[m1] /\ S2 \subseteq h[m2] /\ S3 \subseteq h[m3] /\ S4 \subseteq h[m4]
  BY DEF Four
<1> HIDE DEF h
<1>4. /\ \A r \in S1, t \in S2 : Beside(r, t) /\ Beside(t, r)
      /\ \A r \in S1, t \in S3 : Beside(r, t) /\ Beside(t, r)
      /\ \A r \in S1, t \in S4 : Beside(r, t) /\ Beside(t, r)
      /\ \A r \in S2, t \in S3 : Beside(r, t) /\ Beside(t, r)
      /\ \A r \in S2, t \in S4 : Beside(r, t) /\ Beside(t, r)
      /\ \A r \in S3, t \in S4 : Beside(r, t) /\ Beside(t, r)
  <2> DEFINE u == a + b
             w == a + b + c
  <2>1. u \in Nat /\ w \in Nat /\ 0 + a <= a /\ 0 + a <= u /\ 0 + a <= w /\ a + b <= u
        /\ a + b <= w /\ u + c <= w /\ 0 \in Nat
    OBVIOUS
  <2>2. Cell(S3, id, u, c) /\ Cell(S4, id, w, e)
    OBVIOUS
  <2> HIDE DEF u, w
  <2>3. \A r \in S1, t \in S2 : Beside(r, t) /\ Beside(t, r)
    BY <2>1, CellsBeside
  <2>4. \A r \in S1, t \in S3 : Beside(r, t) /\ Beside(t, r)
    BY <2>1, <2>2, CellsBeside
  <2>5. \A r \in S1, t \in S4 : Beside(r, t) /\ Beside(t, r)
    BY <2>1, <2>2, CellsBeside
  <2>6. \A r \in S2, t \in S3 : Beside(r, t) /\ Beside(t, r)
    BY <2>1, <2>2, CellsBeside
  <2>7. \A r \in S2, t \in S4 : Beside(r, t) /\ Beside(t, r)
    BY <2>1, <2>2, CellsBeside
  <2>8. \A r \in S3, t \in S4 : Beside(r, t) /\ Beside(t, r)
    BY <2>1, <2>2, CellsBeside
  <2> QED BY <2>3, <2>4, <2>5, <2>6, <2>7, <2>8
<1>5. /\ \A r, t \in S1 : r = t
      /\ \A r, t \in S2 : r = t
      /\ \A r, t \in S3 : r = t
      /\ \A r, t \in S4 : r = t
  BY DEF Cell
<1>6. Apart(h)
  <2> SUFFICES ASSUME NEW p \in DOMAIN h, NEW q \in DOMAIN h, NEW r \in h[p], NEW t \in h[q]
               PROVE  (p = q /\ r = t) \/ Beside(r, t)
    BY DEF Apart
  <2>1. /\ (r \in S1 /\ p = m1) \/ (r \in S2 /\ p = m2) \/ (r \in S3 /\ p = m3)
               \/ (r \in S4 /\ p = m4)
        /\ (t \in S1 /\ q = m1) \/ (t \in S2 /\ q = m2) \/ (t \in S3 /\ q = m3)
               \/ (t \in S4 /\ q = m4)
    BY <1>2
  <2> QED BY ONLY <1>4, <1>5, <2>1
<1>7. Covers(h, {id})
  <2> SUFFICES ASSUME NEW o \in 0..(req[id].len - 1)
               PROVE  \E p \in DOMAIN h : \E r \in h[p] : At(r, id, o)
    BY DEF Covers
  <2>1. \/ o \in 0..(0 + a - 1) \/ o \in a..(a + b - 1) \/ o \in (a + b)..(a + b + c - 1)
        \/ o \in (a + b + c)..(a + b + c + e - 1)
    OBVIOUS
  <2>2. \/ \E r \in S1 : At(r, id, o)
        \/ \E r \in S2 : At(r, id, o)
        \/ \E r \in S3 : At(r, id, o)
        \/ \E r \in S4 : At(r, id, o)
    BY <2>1 DEF Cell
  <2> QED BY <1>1, <1>3, <2>2
<1>8. \A p \in DOMAIN h : h[p] \subseteq {r \in Asking : r.id \in {id}}
  BY <1>2 DEF Cell
<1>9. Placed(h, {id})
  BY <1>6, <1>7, <1>8 DEF Placed
<1> QED BY <1>9 DEF h

(* How long the parts are. *)
LEMMA FilterLengths ==
    ASSUME InputInv, NEW len \in Nat, ~TooShort(len)
    PROVE  /\ virt_range \in Nat \ {0}
           /\ InSpace(len) \in Nat /\ InSpace(len) <= len
           /\ LowerLen(len) \in Nat /\ HigherLen(len) \in Nat
           /\ LowerLen(len) + HigherLen(len) = InSpace(len)
           /\ HigherLen(len) > 0 =>
                 /\ GapLen(len) \in Nat \ {0}
                 /\ LowerLen(len) + GapLen(len) + (virt_range - 1) = InSpace(len)
<1>1. virt_range \in Nat \ {0} /\ pow2[arch.addr_bits] \in Nat
  <2>1. max_index_bits(0) - 1 \in Nat /\ arch.addr_bits \in Nat
    <3>1. WellFormed(arch)
      BY DEF InputInv
    <3>2. 0 \in 0..Last /\ 0 + 1 \in 0..(Last + 1)
      BY <3>1, ArchFacts
    <3>3. max_index_bits(0) = split(0) + max_index_bits(0 + 1)
      BY <3>1, <3>2, ArchFacts
    <3>4. split(0) \in Nat \ {0} /\ max_index_bits(0 + 1) \in Nat
      BY <3>1, <3>2, ArchFacts
    <3>5. max_index_bits(0) - 1 \in Nat
      BY <3>3, <3>4
    <3> QED BY <3>1, <3>5, ArchFacts
  <2> QED BY <2>1, PowFunction DEF virt_range
<1> DEFINE p == pow2[arch.addr_bits]
<1>2. InSpace(len) = IF len <= p THEN len ELSE p
  BY <1>1, MinOfTwo DEF InSpace
<1>3. InSpace(len) \in Nat /\ InSpace(len) <= len
  BY <1>1, <1>2
<1>4. LowerLen(len) = IF InSpace(len) <= virt_range THEN InSpace(len) ELSE virt_range
  BY <1>1, <1>3, MinOfTwo DEF LowerLen
<1>5. /\ LowerLen(len) \in Nat /\ HigherLen(len) \in Nat
      /\ LowerLen(len) + HigherLen(len) = InSpace(len)
  BY <1>1, <1>3, <1>4 DEF HigherLen
<1>6. HigherLen(len) > 0 => HigherLen(len) >= virt_range
  BY <1>1, <1>5 DEF TooShort
<1>7. HigherLen(len) > 0 =>
                 /\ GapLen(len) \in Nat \ {0}
                 /\ LowerLen(len) + GapLen(len) + (virt_range - 1) = InSpace(len)
  BY <1>1, <1>5, <1>6 DEF GapLen
<1> QED BY <1>1, <1>3, <1>5, <1>7

(* The parts of request id, with the places that they get. *)
LEMMA RequestParts ==
    ASSUME InputInv, NEW id \in DOMAIN req, ~TooShort(req[id].len)
    PROVE  LET r == req[id] IN
           /\ Lower(id, r) \subseteq Asking
           /\ HigherLen(r.len) = 0 =>
                 Placed(Four(1, Lower(id, r), -3, {}, -3, {}, -2, Rejected(id, r)), {id})
           /\ HigherLen(r.len) > 0 =>
                 /\ NonEmpty({Higher(id, r)}) \subseteq Asking
                 /\ Placed(Four(1, Lower(id, r), -2, {Gap(id, r)}, 1, NonEmpty({Higher(id, r)}),
                                -2, Rejected(id, r)), {id})
                 /\ Placed(Four(1, Lower(id, r), -3, {Gap(id, r)}, -3, NonEmpty({Higher(id, r)}),
                                -2, Rejected(id, r)), {id})
                 /\ NonEmpty({Gap(id, r), Higher(id, r)}) =
                       {Gap(id, r)} \cup NonEmpty({Higher(id, r)})
<1> DEFINE r == req[id]
           a == LowerLen(r.len)
           g == GapLen(r.len)
           k == virt_range - 1
           c == InSpace(r.len)
           S1 == Lower(id, r)
           S2 == NonEmpty({Gap(id, r)})
           S3 == NonEmpty({Higher(id, r)})
           S4 == Rejected(id, r)
<1>1. r.len \in Nat
  BY RequestFacts
<1>2. /\ a \in Nat /\ k \in Nat /\ c \in Nat /\ c <= r.len /\ a + HigherLen(r.len) = c
      /\ HigherLen(r.len) > 0 => g \in Nat \ {0} /\ a + g + k = c
  BY <1>1, FilterLengths
<1>3. HigherLen(r.len) \in Nat
  BY <1>1, FilterLengths
<1>4. Cell(S1, id, 0, a)
  <2>1. S1 = NonEmpty({Part(id, req[id], 0, a)})
    BY DEF Lower
  <2>2. 0 + a <= req[id].len
    BY <1>1, <1>2, <1>3
  <2> HIDE DEF a
  <2> QED BY <1>2, <2>1, <2>2, PartCell
<1>5. Cell(S4, id, c, r.len - c)
  <2> DEFINE e == req[id].len - c
  <2>1. S4 = NonEmpty({Part(id, req[id], c, e)}) /\ e \in Nat /\ c + e <= req[id].len
    BY <1>1, <1>2 DEF Rejected
  <2> HIDE DEF c, e
  <2>2. Cell(S4, id, c, e)
    BY <1>2, <2>1, PartCell
  <2> QED BY <2>2 DEF e
<1>6. ASSUME HigherLen(r.len) > 0
      PROVE  Cell(S2, id, a, g) /\ S2 = {Gap(id, r)} /\ Cell(S3, id, a + g, k)
  <2>1. g \in Nat \ {0} /\ a + g + k = c /\ a + g \in Nat
    BY <1>2, <1>6
  <2>2. Gap(id, r) = Part(id, req[id], a, g)
    BY DEF Gap
  <2>3. Higher(id, r) = Part(id, req[id], a + g, k)
    BY DEF Higher
  <2>4. a + g <= req[id].len /\ (a + g) + k <= req[id].len /\ g > 0
    BY <1>1, <1>2, <2>1
  <2> DEFINE o == a + g
  <2> HIDE DEF a, g, k
  <2>5. Cell(S2, id, a, g) /\ S2 = {Part(id, req[id], a, g)}
    BY <1>2, <2>1, <2>2, <2>4, PartCell
  <2>6. o \in Nat /\ o + k <= req[id].len /\ Higher(id, r) = Part(id, req[id], o, k)
    BY <2>1, <2>3, <2>4
  <2> HIDE DEF o
  <2>7. Cell(S3, id, o, k)
    BY <1>2, <2>6, PartCell
  <2> QED BY <2>2, <2>5, <2>7 DEF o
<1>7. S1 \subseteq Asking
  BY <1>4 DEF Cell
<1> DEFINE e == r.len - c
<1>8. e \in Nat /\ c + e = req[id].len
  BY <1>1, <1>2
<1> HIDE DEF S1, S4
<1>9. ASSUME HigherLen(r.len) = 0
      PROVE  Placed(Four(1, S1, -3, {}, -3, {}, -2, S4), {id})
  <2>1. a = c
    BY <1>2, <1>9
  <2>2. Cell({}, id, a, 0) /\ Cell({}, id, a + 0, 0) /\ a + 0 = a /\ a + 0 + 0 = a
    BY <1>2, NoCell
  <2>3. Cell(S4, id, a + 0 + 0, e) /\ a + 0 + 0 + e = req[id].len
    BY <1>5, <1>8, <2>1, <2>2
  <2>4. 0 \in Nat /\ 1 \in (-3)..1 /\ -3 \in (-3)..1 /\ -2 \in (-3)..1
    OBVIOUS
  <2>5. a \in Nat /\ e \in Nat
    BY <1>2, <1>8
  <2> HIDE DEF a, e
  <2> QED BY <1>4, <2>2, <2>3, <2>4, <2>5, FourCells
<1>10. ASSUME HigherLen(r.len) > 0
       PROVE  /\ S3 \subseteq Asking
              /\ Placed(Four(1, S1, -2, S2, 1, S3, -2, S4), {id})
              /\ Placed(Four(1, S1, -3, S2, -3, S3, -2, S4), {id})
  <2>1. Cell(S2, id, a, g) /\ Cell(S3, id, a + g, k)
    BY <1>6, <1>10
  <2>2. a + g + k = c /\ g \in Nat
    BY <1>2, <1>10
  <2>3. Cell(S4, id, a + g + k, e) /\ a + g + k + e = req[id].len
    BY <1>5, <1>8, <2>2
  <2>4. 1 \in (-3)..1 /\ -3 \in (-3)..1 /\ -2 \in (-3)..1
    OBVIOUS
  <2>5. a \in Nat /\ e \in Nat /\ k \in Nat /\ g \in Nat
    BY <1>2, <1>8, <2>2
  <2> HIDE DEF S2, S3, a, e, g, k
  <2>6. S3 \subseteq Asking
    BY <2>1 DEF Cell
  <2> QED BY <1>4, <2>1, <2>3, <2>4, <2>5, <2>6, FourCells
<1>11. NonEmpty({Gap(id, r), Higher(id, r)}) = S2 \cup S3
  BY DEF NonEmpty
<1> QED BY <1>6, <1>7, <1>9, <1>10, <1>11 DEF S1, S4

(* The parts h of request i are added to what there is. *)
LEMMA FilterWith ==
    ASSUME WalkInv, pc = "filter", pc' = pc, UNCHANGED input, i \in 1..Len(req), i' = i + 1,
           step' = step, rest' = rest, out' = out,
           NEW h, DOMAIN h = (-3)..1, Placed(h, {i}), h[0] = {}, h[-1] = {},
           work' = <<Chunk(dtb, work[1].vec \cup h[1])>>,
           out_fail' = out_fail \cup h[-2], lost' = lost \cup h[-3]
    PROVE  KeepsWork
<1> DEFINE f == places
           x == BeingCut'
           y == TranslatedRanges'
           z == out_fail'
           u == lost'
           c == Chunk(dtb, work[1].vec \cup h[1])
           g == PlaceMap(<<c>>, x, y, z, u)
<1>1. /\ rest = <<>> /\ Len(work) = 1 /\ work[1] \in ChunkRec /\ BeingCut = {}
      /\ step \in 0..Last
  BY WorkFacts DEF WalkInv, WorkTypes
<1>2. h[1] \subseteq Asking
  BY DEF Placed
<1>3. c \in ChunkRec /\ c.vec = work[1].vec \cup h[1]
  <2> DEFINE V == work[1].vec \cup h[1]
  <2>1. V \in SUBSET Asking /\ dtb \in Nat /\ InputInv
    BY <1>1, <1>2 DEF ChunkRec, WalkInv, InputInv
  <2> HIDE DEF V
  <2>2. Chunk(dtb, V) \in ChunkRec /\ Chunk(dtb, V).vec = V
    BY <2>1, ChunkType DEF Chunk
  <2> QED BY <2>2 DEF V
<1> HIDE DEF c
<1>4. /\ work' = <<c>> /\ <<c>> \in Seq(ChunkRec) /\ Len(<<c>>) = 1 /\ <<c>>[1] = c
      /\ DOMAIN <<c>> = {1}
  BY <1>3 DEF c
<1>5. x = {} /\ y = TranslatedRanges /\ z = out_fail \cup h[-2] /\ u = lost \cup h[-3]
  BY <1>1 DEF BeingCut, TranslatedRanges
<1>6. g = places'
  BY <1>4 DEF places
<1> HIDE DEF x, y, z, u
<1>7. /\ DOMAIN g = (-3)..1 /\ g[0] = x /\ g[-1] = y /\ g[-2] = z /\ g[-3] = u
      /\ g[1] = c.vec
  <2> DEFINE w == <<c>>
  <2>1. Len(w) = 1 /\ w[1] = c /\ g = PlaceMap(w, x, y, z, u) /\ Len(w) \in Nat
    BY <1>4
  <2> HIDE DEF g, w
  <2>2. /\ DOMAIN g = (-3)..Len(w) /\ g[0] = x /\ g[-1] = y /\ g[-2] = z /\ g[-3] = u
        /\ \A k \in 1..Len(w) : g[k] = w[k].vec
    BY ONLY <2>1, PlaceValues
  <2> QED BY <2>1, <2>2
<1> HIDE DEF g, f
<1>8. /\ DOMAIN f = (-3)..1
      /\ f[0] = {} /\ f[-1] = TranslatedRanges /\ f[-2] = out_fail /\ f[-3] = lost
      /\ f[1] = work[1].vec
  <2>1. Len(work) \in Nat /\ 1 \in 1..Len(work)
        /\ f = PlaceMap(work, BeingCut, TranslatedRanges, out_fail, lost)
    BY <1>1 DEF f, places
  <2>2. /\ DOMAIN f = (-3)..Len(work)
        /\ f[0] = BeingCut /\ f[-1] = TranslatedRanges /\ f[-2] = out_fail /\ f[-3] = lost
        /\ \A k \in 1..Len(work) : f[k] = work[k].vec
    BY ONLY <2>1, PlaceValues
  <2> QED BY <1>1, <2>1, <2>2
<1>9. \A p \in DOMAIN f : g[p] = f[p] \cup h[p]
  <2> TAKE p \in DOMAIN f
  <2>1. p = 1 \/ p = 0 \/ p = -1 \/ p = -2 \/ p = -3
    BY <1>8
  <2> QED BY <1>3, <1>5, <1>7, <1>8, <2>1
<1>10. Placed(g, Taken \cup {i})
  <2>1. Placed(f, Taken) /\ InputInv
    BY DEF f, WalkInv
  <2>2. i \notin Taken
    BY DEF Taken
  <2>3. DOMAIN h = DOMAIN f /\ DOMAIN g = DOMAIN f /\ Placed(h, {i})
    BY <1>7, <1>8
  <2> QED BY ONLY <1>9, <2>1, <2>2, <2>3, AddPlaces
<1>11. Taken' = Taken \cup {i}
  BY DEF Taken
<1>12. FullChunks'
  <2>1. rest' = <<>> /\ DOMAIN <<>> = {}
    BY <1>1
  <2>2. Vecs' = {c.vec}
    BY <1>4, <2>1 DEF Vecs
  <2>3. InWork' = UNION Vecs'
    BY DEF InWork, Vecs
  <2> QED BY <2>2, <2>3 DEF FullChunks
<1>13. WorkTypes'
  <2>1. Len(req') = Len(req) /\ i' <= Len(req) + 1 /\ i' > 0 /\ i' \in Nat /\ Len(req) \in Nat
    BY TypesPrime, RequestFacts DEF WalkInv
  <2>2. (work \in Seq(ChunkRec))' /\ Len(work') = 1
    BY <1>4, TypesPrime DEF WalkInv
  <2>3. (rest \in Seq(RestRec))' /\ (Len(rest) <= 1)' /\ rest' = <<>>
    BY <1>1, TypesPrime DEF WalkInv, WorkTypes
  <2>4. (step \in 0..Last)'
    BY <1>1, TypesPrime DEF WalkInv
  <2> QED BY <2>1, <2>2, <2>3, <2>4 DEF WorkTypes
<1> QED BY <1>6, <1>10, <1>11, <1>12, <1>13 DEF KeepsWork

LEMMA FilterStep == ASSUME WalkInv, Filter PROVE KeepsWork
<1> DEFINE r == req[i]
           S1 == Lower(i, r)
           S2 == {Gap(i, r)}
           S3 == NonEmpty({Higher(i, r)})
           S4 == Rejected(i, r)
           V0 == work[1].vec
<1>1. /\ pc = "filter" /\ pc' = pc /\ UNCHANGED input /\ i <= Len(req) /\ i' = i + 1
      /\ step' = step /\ rest' = rest /\ out' = out /\ ~TooShort(r.len)
  BY DEF Filter, input, loops
<1>2. i \in 1..Len(req) /\ i \in DOMAIN req
  BY <1>1, RequestFacts DEF WalkInv, WorkTypes
<1>3. \/ /\ HigherLen(r.len) = 0
         /\ work' = <<Chunk(dtb, V0 \cup S1)>>
         /\ out_fail' = out_fail \cup S4 /\ lost' = lost
      \/ /\ HigherLen(r.len) > 0
         /\ work' = <<Chunk(dtb, V0 \cup (S1 \cup S3))>>
         /\ out_fail' = out_fail \cup S4 \cup S2 /\ lost' = lost
      \/ /\ HigherLen(r.len) > 0
         /\ work' = <<Chunk(dtb, V0 \cup S1)>>
         /\ out_fail' = out_fail \cup S4
         /\ lost' = lost \cup NonEmpty({Gap(i, r), Higher(i, r)})
  BY DEF Filter, Fill
<1>4. /\ HigherLen(r.len) = 0 => Placed(Four(1, S1, -3, {}, -3, {}, -2, S4), {i})
      /\ HigherLen(r.len) > 0 =>
                 /\ Placed(Four(1, S1, -2, S2, 1, S3, -2, S4), {i})
                 /\ Placed(Four(1, S1, -3, S2, -3, S3, -2, S4), {i})
                 /\ NonEmpty({Gap(i, r), Higher(i, r)}) = S2 \cup S3
  BY <1>1, <1>2, RequestParts DEF WalkInv
<1>5. /\ 1 \in (-3)..1 /\ -3 \in (-3)..1 /\ -2 \in (-3)..1 /\ -1 \in (-3)..1
      /\ 0 \in (-3)..1
  OBVIOUS
<1> HIDE DEF S1, S2, S3, S4, V0
<1>6. CASE /\ HigherLen(r.len) = 0
           /\ work' = <<Chunk(dtb, V0 \cup S1)>>
           /\ out_fail' = out_fail \cup S4 /\ lost' = lost
  <2> DEFINE h == Four(1, S1, -3, {}, -3, {}, -2, S4)
  <2>1. DOMAIN h = (-3)..1 /\ h[1] = S1 /\ h[0] = {} /\ h[-1] = {} /\ h[-2] = S4 /\ h[-3] = {}
    BY <1>5 DEF Four
  <2>2. Placed(h, {i})
    BY <1>4, <1>6
  <2> HIDE DEF h
  <2>3. work' = <<Chunk(dtb, work[1].vec \cup h[1])>>
    BY <1>6, <2>1 DEF V0
  <2>4. out_fail' = out_fail \cup h[-2] /\ lost' = lost \cup h[-3]
    BY <1>6, <2>1
  <2> QED BY <1>1, <1>2, <2>1, <2>2, <2>3, <2>4, FilterWith
<1>7. CASE /\ HigherLen(r.len) > 0
           /\ work' = <<Chunk(dtb, V0 \cup (S1 \cup S3))>>
           /\ out_fail' = out_fail \cup S4 \cup S2 /\ lost' = lost
  <2> DEFINE h == Four(1, S1, -2, S2, 1, S3, -2, S4)
  <2>1. DOMAIN h = (-3)..1 /\ h[1] = S1 \cup S3 /\ h[0] = {} /\ h[-1] = {}
        /\ h[-2] = S4 \cup S2 /\ h[-3] = {}
    BY <1>5 DEF Four
  <2>2. Placed(h, {i})
    BY <1>4, <1>7
  <2> HIDE DEF h
  <2>3. work' = <<Chunk(dtb, work[1].vec \cup h[1])>>
    BY <1>7, <2>1 DEF V0
  <2>4. out_fail' = out_fail \cup h[-2] /\ lost' = lost \cup h[-3]
    BY <1>7, <2>1
  <2> QED BY <1>1, <1>2, <2>1, <2>2, <2>3, <2>4, FilterWith
<1>8. CASE /\ HigherLen(r.len) > 0
           /\ work' = <<Chunk(dtb, V0 \cup S1)>>
           /\ out_fail' = out_fail \cup S4
           /\ lost' = lost \cup NonEmpty({Gap(i, r), Higher(i, r)})
  <2> DEFINE h == Four(1, S1, -3, S2, -3, S3, -2, S4)
  <2>1. DOMAIN h = (-3)..1 /\ h[1] = S1 /\ h[0] = {} /\ h[-1] = {}
        /\ h[-2] = S4 /\ h[-3] = S2 \cup S3
    BY <1>5 DEF Four
  <2>2. Placed(h, {i})
    BY <1>4, <1>8
  <2> HIDE DEF h
  <2>3. work' = <<Chunk(dtb, work[1].vec \cup h[1])>>
    BY <1>8, <2>1 DEF V0
  <2>4. out_fail' = out_fail \cup h[-2] /\ lost' = lost \cup h[-3]
    BY <1>4, <1>8, <2>1
  <2> QED BY <1>1, <1>2, <2>1, <2>2, <2>3, <2>4, FilterWith
<1> QED BY <1>3, <1>6, <1>7, <1>8

----------------------------------------------------------------------------
(* The walk in MCSpec, and the page chunks beside it *)

LEMMA InitWalk == ASSUME Init PROVE WalkInv
<1> DEFINE c == [pt_addr |-> dtb, vec |-> {}, min |-> Word - 1, max |-> 0]
<1>1. InputInv
  BY InitInput
<1>2. /\ pc = "filter" /\ step = 0 /\ i = 1 /\ work = <<c>> /\ rest = <<>>
      /\ out = {} /\ out_fail = {} /\ lost = {}
  BY DEF Init
<1>3. c \in ChunkRec
  <2>1. MinAddr({}) = Word - 1 /\ MaxAddr({}) = 0 /\ Word \in Nat \ {0}
    BY <1>1, RequestFacts, Bounds
  <2>2. dtb \in Nat
    BY <1>1 DEF InputInv
  <2> QED BY <2>1, <2>2 DEF ChunkRec, Addr
<1>4. c.vec = {}
  OBVIOUS
<1> HIDE DEF c
<1>5. <<c>> \in Seq(ChunkRec) /\ Len(<<c>>) = 1 /\ <<c>>[1] = c /\ DOMAIN <<c>> = {1}
      /\ <<>> \in Seq(RestRec) /\ Len(<<>>) = 0 /\ DOMAIN <<>> = {}
  BY <1>3
<1>6. WorkTypes
  <2>1. Last \in Nat /\ Len(req) \in Nat
    BY <1>1, ArchFacts, RequestFacts DEF InputInv
  <2> QED BY <1>2, <1>5, <2>1 DEF WorkTypes
<1>7. \A p \in DOMAIN places : places[p] = {}
  <2>1. BeingCut = {} /\ TranslatedRanges = {}
    BY <1>2 DEF BeingCut, TranslatedRanges
  <2> DEFINE w == work
             x == BeingCut
             y == TranslatedRanges
  <2>2. Len(w) = 1 /\ w[1].vec = {} /\ places = PlaceMap(w, x, y, out_fail, lost) /\ Len(w) \in Nat
    BY <1>2, <1>4, <1>5 DEF places
  <2> HIDE DEF w, x, y
  <2>3. LET f == places IN
        /\ DOMAIN f = (-3)..Len(w)
        /\ f[0] = x /\ f[-1] = y /\ f[-2] = out_fail /\ f[-3] = lost
        /\ \A k \in 1..Len(w) : f[k] = w[k].vec
    BY <2>2, PlaceValues
  <2>4. \A p \in (-3)..1 : p = 1 \/ p = 0 \/ p = -1 \/ p = -2 \/ p = -3
    OBVIOUS
  <2> QED BY <1>2, <2>1, <2>2, <2>3, <2>4 DEF x, y
<1>8. Taken = {}
  BY <1>2 DEF Taken
<1>9. Placed(places, Taken)
  BY <1>7, <1>8 DEF Placed, Apart, Covers
<1>10. InWork = {}
  BY <1>2, <1>4, <1>5 DEF InWork
<1> QED BY <1>1, <1>6, <1>9, <1>10 DEF WalkInv, FullChunks

LEMMA WalkStep == ASSUME WalkInv, [Next]_vars PROVE WalkInv'
<1>1. KeepsWork
  BY FilterStep, FilterPanicStep, StartWalkStep, NotPresentStep, TranslatedStep, DescendStep,
     NextPartStep, EndLevelStep, ReadEntriesStep, ReadErrorStep, FollowStep, RejectStep,
     NextLevelStep, GuestWriteStep DEF Next, Walk
<1>2. InputInv' /\ InputInv
  BY InputStep DEF WalkInv
<1>3. UNCHANGED input
  BY DEF Next, Walk, Filter, FilterPanic, StartWalk, NotPresent, Translated, Descend,
     NextPart, EndLevel, ReadEntries, ReadError, Follow, Reject, NextLevel, GuestWrite,
     Unchecked, Uncompared, vars, input
<1>4. Placed(places, Taken)'
  BY <1>1, <1>3, PlacedPrime DEF KeepsWork
<1> QED BY <1>1, <1>2, <1>4 DEF WalkInv, KeepsWork

LEMMA ChunkTypesStep ==
    ASSUME ChunksInv, ChunksTypeOK, [ChunksNext]_chunk_vars
    PROVE  ChunksTypeOK'
<1>1. /\ v \in 0..MaxLen \cup {NoBuf} /\ cur_address \in Address /\ start \in Address
      /\ cur_off \in 0..MaxLen /\ total \in 0..MaxLen /\ done \in 0..total
      /\ merged \in BOOLEAN /\ hint \in Int
      /\ chunks \in Seq([addr : Address, len : 0..MaxLen])
  BY DEF ChunksTypeOK
<1>2. MaxLen \in Nat
  BY MaxLenAssumption
<1> DEFINE e == end_len(cur_address, cur_off)
           n == head(v, e)
<1>3. e \in Nat
  <2>1. cur_off \in Nat
    BY <1>1, <1>2
  <2> QED BY <1>1, <2>1, EndLenType
<1>4. v # NoBuf => v \in 0..MaxLen /\ n \in 0..v
  BY <1>1, <1>2, <1>3 DEF head
<1>5. CASE UNCHANGED chunk_vars
  BY <1>1, <1>5 DEF chunk_vars, ChunksTypeOK
<1>6. CASE Merge
  <2>1. v # NoBuf /\ n < v /\ cur_off' = e + 1 /\ merged' = TRUE
        /\ UNCHANGED <<v, cur_address, start, total, done, hint, chunks>>
    BY <1>6 DEF Merge
  <2>2. e + 1 \in 0..MaxLen
    BY <1>2, <1>3, <1>4, <2>1 DEF head
  <2> QED BY <1>1, <2>1, <2>2 DEF ChunksTypeOK
<1>7. CASE Yield
  <2> HIDE DEF e
  <2>1. /\ v # NoBuf /\ chunks' = Append(chunks, [addr |-> cur_address, len |-> n])
        /\ v' = IF n < v THEN v - n ELSE NoBuf
        /\ cur_address' = next_address(cur_address, e)
        /\ cur_off' = 0 /\ done' = done + n
        /\ UNCHANGED <<start, total, merged, hint>>
    BY <1>7 DEF Yield, e
  <2> HIDE DEF n
  <2>2. done + v = total
    BY <2>1 DEF ChunksInv, PartInv
  <2>3. done' \in 0..total' /\ v' \in 0..MaxLen \cup {NoBuf} /\ 0 \in 0..MaxLen
    BY <1>1, <1>2, <1>4, <2>1, <2>2
  <2>4. cur_address' \in Address
    <3>1. cur_address + e + 1 \in Int /\ Space \in Nat \ {0}
      BY <1>1, <1>3, Consts DEF Address
    <3> QED BY <2>1, <3>1, Euclid DEF next_address, Address
  <2>5. chunks' \in Seq([addr : Address, len : 0..MaxLen])
    <3> DEFINE x == [addr |-> cur_address, len |-> n]
    <3>1. x \in [addr : Address, len : 0..MaxLen]
      BY <1>1, <1>2, <1>4, <2>1
    <3> HIDE DEF x
    <3> QED BY <1>1, <2>1, <3>1 DEF x
  <2> QED BY <1>1, <2>1, <2>3, <2>4, <2>5 DEF ChunksTypeOK
<1> QED BY <1>5, <1>6, <1>7 DEF ChunksNext

MCInv ==
    /\ WalkInv
    /\ \/ part = "walk" /\ NoChunks
       \/ part = "chunks" /\ ChunksInv /\ ChunksTypeOK

LEMMA InitMC == ASSUME MCInit PROVE MCInv
<1>1. WalkInv
  BY InitWalk DEF MCInit
<1>2. CASE part = "walk" /\ Init /\ NoChunks
  BY <1>1, <1>2 DEF MCInv
<1>3. CASE part = "chunks" /\ ChunksInit
  <2>1. ChunksInv
    BY <1>3, InitChunks
  <2>2. ChunksTypeOK
    <3>1. /\ start \in Address /\ total \in 0..MaxLen
          /\ v = total /\ cur_address = start /\ cur_off = 0
          /\ done = 0 /\ merged = FALSE /\ chunks = <<>>
          /\ hint = size_hint(start, total) /\ MaxLen \in Nat
      BY <1>3, MaxLenAssumption DEF ChunksInit
    <3>2. hint \in Int
      <4>1. start \in Int /\ total \in Int /\ page_size \in Nat \ {0}
        BY <3>1, PageSizeAssumption DEF Address
      <4>2. as_page_aligned(start) \in Int /\ as_page_aligned(start + total - 1) \in Int
        BY <4>1, Euclid DEF as_page_aligned
      <4>3. as_page_aligned(start + total - 1) - as_page_aligned(start) \in Int
        BY <4>2
      <4> HIDE DEF as_page_aligned
      <4>4. (as_page_aligned(start + total - 1) - as_page_aligned(start)) \div page_size \in Int
        BY <4>1, <4>3, Euclid
      <4> QED BY <3>1, <4>4 DEF size_hint
    <3>3. <<>> \in Seq([addr : Address, len : 0..MaxLen])
      OBVIOUS
    <3>4. /\ v \in 0..MaxLen \cup {NoBuf} /\ cur_address \in Address /\ cur_off \in 0..MaxLen
          /\ done \in 0..total /\ merged \in BOOLEAN
      <4>1. 0 \in 0..MaxLen /\ 0 \in 0..total
        BY <3>1
      <4>2. v \in 0..MaxLen \cup {NoBuf} /\ cur_off \in 0..MaxLen /\ done \in 0..total
        BY ONLY <3>1, <4>1
      <4>3. merged \in BOOLEAN
        BY ONLY <3>1, Zenon
      <4> QED BY <3>1, <4>2, <4>3
    <3>5. chunks \in Seq([addr : Address, len : 0..MaxLen])
      BY ONLY <3>1, <3>3
    <3> QED BY <3>1, <3>2, <3>4, <3>5 DEF ChunksTypeOK
  <2> QED BY <1>1, <1>3, <2>1, <2>2 DEF MCInv
<1> QED BY <1>2, <1>3 DEF MCInit

LEMMA MCStep == ASSUME MCInv, [MCNext]_<<vars, chunk_vars, part>> PROVE MCInv'
<1>1. [Next]_vars
  BY DEF MCNext
<1>2. WalkInv'
  BY <1>1, WalkStep DEF MCInv
<1>3. CASE part = "walk" /\ NoChunks
  <2>1. part' = part /\ UNCHANGED chunk_vars
    BY <1>3 DEF MCNext
  <2>2. NoChunks'
    BY <1>3, <2>1 DEF NoChunks, chunk_vars
  <2> QED BY <1>2, <1>3, <2>1, <2>2 DEF MCInv
<1>4. CASE part = "chunks" /\ ChunksInv /\ ChunksTypeOK
  <2>1. part' = part /\ [ChunksNext]_chunk_vars
    BY <1>4 DEF MCNext
  <2>2. ChunksInv'
    <3>1. CASE UNCHANGED chunk_vars
      BY <1>4, <3>1 DEF chunk_vars, ChunksInv, ChunkTypes, PartInv, PagesInv, AddressAfter
    <3> QED BY <1>4, <2>1, <3>1, MergeStep, YieldStep DEF ChunksNext
  <2>3. ChunksTypeOK'
    BY <1>4, <2>1, ChunkTypesStep
  <2> QED BY <1>2, <1>4, <2>1, <2>2, <2>3 DEF MCInv
<1> QED BY <1>3, <1>4 DEF MCInv

LEMMA MCInvariance == MCSpec => []MCInv
BY InitMC, MCStep, PTL DEF MCSpec

----------------------------------------------------------------------------
(* What the invariant says *)

LEMMA InvWork == ASSUME WalkInv PROVE TypeOK /\ ChunkBounds /\ AnsweredOnce
<1> DEFINE f == places
<1>1. /\ DOMAIN f = (-3)..Len(work)
      /\ f[0] = BeingCut /\ f[-1] = TranslatedRanges /\ f[-2] = out_fail /\ f[-3] = lost
      /\ \A k \in 1..Len(work) : f[k] = work[k].vec
  <2>1. Len(work) \in Nat
    BY WorkFacts
  <2> HIDE DEF f
  <2>2. f = PlaceMap(work, BeingCut, TranslatedRanges, out_fail, lost)
    BY DEF f, places
  <2> QED BY <2>1, <2>2, PlaceValues
<1>2. Apart(f) /\ Covers(f, Taken)
      /\ \A p \in DOMAIN f : \A r \in f[p] : r \in Asking /\ r.id \in Taken
  BY DEF WalkInv, Placed
<1> HIDE DEF f
<1>3. /\ Len(work) \in Nat /\ DOMAIN work = 1..Len(work) /\ Len(req) \in Nat
      /\ DOMAIN req = 1..Len(req)
      /\ \A k \in 1..Len(work) : work[k] \in ChunkRec
      /\ rest = <<>> => BeingCut = {} /\ DOMAIN rest = {}
      /\ rest # <<>> => DOMAIN rest = {1} /\ BeingCut = rest[1].v.vec
  BY WorkFacts
<1>4. /\ 0 \in DOMAIN f /\ -1 \in DOMAIN f /\ -2 \in DOMAIN f /\ -3 \in DOMAIN f
      /\ \A k \in 1..Len(work) : k \in DOMAIN f
  BY <1>1, <1>3
<1>5. InWork = BeingCut \cup UNION {work[k].vec : k \in DOMAIN work}
  BY <1>3 DEF InWork
<1>6. \A r : r \in InWork \cup Answered \cup lost <=> \E p \in DOMAIN f : r \in f[p]
  <2>1. ASSUME NEW p \in DOMAIN f, NEW r \in f[p] PROVE r \in InWork \cup Answered \cup lost
    <3>1. p \in 1..Len(work) \/ p = 0 \/ p = -1 \/ p = -2 \/ p = -3
      BY <1>1, <1>3
    <3> QED BY <1>1, <1>3, <1>5, <3>1 DEF Answered
  <2>2. ASSUME NEW r \in InWork \cup Answered \cup lost PROVE \E p \in DOMAIN f : r \in f[p]
    BY <1>1, <1>3, <1>4, <1>5 DEF Answered
  <2> QED BY <2>1, <2>2
<1>7. \A r \in InWork \cup Answered \cup lost : r \in Asking
  BY <1>2, <1>6
<1>8. \A r \in Asking : /\ Asked(r) /\ r.off \in Nat /\ r.len \in Nat \ {0}
                        /\ \A o : o \in Span(r) <=> o \in Int /\ At(r, r.id, o)
  <2> TAKE r \in Asking
  <2>1. /\ r.id \in DOMAIN req /\ r.off \in Nat /\ r.len \in Nat \ {0}
        /\ r.off + r.len <= req[r.id].len /\ r.addr = (req[r.id].addr + r.off) % Word
    BY DEF Asking
  <2>2. req[r.id].len \in Nat
    BY <2>1, RequestFacts DEF WalkInv
  <2>3. \A o : o \in Span(r) <=> o \in Int /\ At(r, r.id, o)
    BY <2>1 DEF Span, At
  <2>4. Span(r) \subseteq 0..(req[r.id].len - 1)
    BY <2>1, <2>2 DEF Span
  <2> QED BY <2>1, <2>3, <2>4 DEF Asked
<1>9. \A p, q \in DOMAIN f : p # q => f[p] \cap f[q] = {}
  <2> SUFFICES ASSUME NEW p \in DOMAIN f, NEW q \in DOMAIN f, p # q, NEW r \in f[p], r \in f[q]
               PROVE  FALSE
    OBVIOUS
  <2>1. Beside(r, r)
    BY <1>2 DEF Apart
  <2>2. r.off \in Nat /\ r.len \in Nat \ {0}
    BY <1>2, <1>8
  <2> QED BY <2>1, <2>2 DEF Beside
<1>10. TypeOK
  <2>1. /\ pc \in {"filter", "check", "read", "compare", "done", "panic"}
        /\ step \in 0..Last /\ i \in Nat
        /\ pc \in {"filter", "panic"} => i <= Len(req) + 1
        /\ pc \in {"check", "compare"} => i <= Len(work)
        /\ pc \in {"read", "done"} => i = 0
    BY DEF WalkInv, WorkTypes
  <2>2. i \in 0..(Len(work) + Len(req) + 1)
    BY <1>3, <2>1
  <2>3. \A k \in DOMAIN work : work[k].min \in 0..(Word - 1) /\ work[k].max \in 0..(Word - 1)
    BY <1>3 DEF ChunkRec, Addr
  <2> QED BY <1>7, <1>8, <2>1, <2>2, <2>3 DEF TypeOK
<1>11. ChunkBounds
  <2> SUFFICES ASSUME NEW k \in DOMAIN work
               PROVE  /\ work[k].min = MinAddr(work[k].vec) /\ work[k].max = MaxAddr(work[k].vec)
                      /\ Within /\ work[k].vec = {} => InWork = {}
    BY DEF ChunkBounds, Within
  <2>1. work[k] \in ChunkRec
    BY <1>3
  <2>2. work[k].vec \in Vecs
    BY DEF Vecs
  <2> QED BY <2>1, <2>2 DEF ChunkRec, WalkInv, FullChunks
<1>12. AnsweredOnce
  <2> DEFINE all == InWork \cup Answered \cup lost
  <2>1. ASSUME pc # "filter", pc # "panic",
               NEW id \in DOMAIN req, NEW o \in 0..(req[id].len - 1)
        PROVE  \E r \in all : r.id = id /\ o \in Span(r)
    <3>1. id \in Taken
      BY <2>1 DEF Taken
    <3>2. PICK p \in DOMAIN f : \E r \in f[p] : At(r, id, o)
      BY <1>2, <3>1 DEF Covers
    <3>3. PICK r \in f[p] : At(r, id, o)
      BY <3>2
    <3>4. r \in all /\ r \in Asking /\ r.id = id
      BY <1>2, <1>6, <3>3 DEF At
    <3>5. o \in Int
      <4>1. req[id].len \in Nat
        BY RequestFacts DEF WalkInv
      <4> QED BY <4>1
    <3> QED BY <1>8, <3>3, <3>4, <3>5
  <2>2. ASSUME NEW r \in all, NEW q \in all
        PROVE  r = q \/ r.id # q.id \/ Span(r) \cap Span(q) = {}
    <3>1. PICK x \in DOMAIN f : r \in f[x]
      BY <1>6
    <3>2. PICK y \in DOMAIN f : q \in f[y]
      BY <1>6
    <3>3. r = q \/ Beside(r, q)
      BY <1>2, <3>1, <3>2 DEF Apart
    <3>4. r \in Asking /\ q \in Asking
      BY <1>7
    <3>5. /\ r.off \in Nat /\ r.len \in Nat /\ q.off \in Nat /\ q.len \in Nat
          /\ \A o : o \in Span(r) <=> o \in Int /\ At(r, r.id, o)
          /\ \A o : o \in Span(q) <=> o \in Int /\ At(q, q.id, o)
      BY <1>8, <3>4
    <3>6. ASSUME Beside(r, q), r.id = q.id, NEW o, o \in Span(r), o \in Span(q) PROVE FALSE
      <4>1. o \in Int /\ At(r, r.id, o) /\ At(q, q.id, o)
        BY <3>5, <3>6
      <4> QED BY <3>5, <3>6, <4>1 DEF At, Beside
    <3> QED BY <3>3, <3>6
  <2>3. InWork \cap (Answered \cup lost) = {}
    <3> SUFFICES ASSUME NEW r \in InWork, r \in Answered \cup lost PROVE FALSE
      OBVIOUS
    <3>1. \E p \in 0..Len(work) : r \in f[p]
      BY <1>1, <1>3, <1>5
    <3>2. r \in f[-1] \/ r \in f[-2] \/ r \in f[-3]
      BY <1>1 DEF Answered
    <3>3. \A p \in 0..Len(work) : p \in DOMAIN f /\ p # -1 /\ p # -2 /\ p # -3
      BY <1>1, <1>3
    <3> QED BY <1>4, <1>9, <3>1, <3>2, <3>3
  <2>4. TranslatedRanges \cap out_fail = {} /\ Answered \cap lost = {}
    <3>1. f[-1] \cap f[-2] = {} /\ f[-1] \cap f[-3] = {} /\ f[-2] \cap f[-3] = {}
      BY <1>4, <1>9
    <3> QED BY <1>1, <3>1 DEF Answered
  <2>5. \A j, k \in DOMAIN work : j # k => work[j].vec \cap work[k].vec = {}
    <3> TAKE j, k \in DOMAIN work
    <3>1. j \in DOMAIN f /\ k \in DOMAIN f /\ f[j] = work[j].vec /\ f[k] = work[k].vec
      BY <1>1, <1>3, <1>4
    <3> QED BY <1>9, <3>1
  <2>6. rest # <<>> => \A k \in DOMAIN work : work[k].vec \cap rest[1].v.vec = {}
    <3> SUFFICES ASSUME rest # <<>>, NEW k \in DOMAIN work
                 PROVE  work[k].vec \cap rest[1].v.vec = {}
      OBVIOUS
    <3>1. k \in DOMAIN f /\ f[k] = work[k].vec /\ f[0] = rest[1].v.vec /\ k # 0
      BY <1>1, <1>3, <1>4
    <3> QED BY <1>4, <1>9, <3>1
  <2> QED BY <2>1, <2>2, <2>3, <2>4, <2>5, <2>6 DEF AnsweredOnce
<1> QED BY <1>10, <1>11, <1>12

(* Through any list of ranges, on any tables and whatever the guest        *)
(* writes, the walk loses no byte and has none twice, however it cuts,     *)
(* merges and moves its chunks; and no chunk's bounds are stale            *)
(* (mmu_spec.rs:363-439, translate_data.rs:97-212).                        *)
THEOREM WalkLosesNothing == MCSpec => []WorkInv
<1>1. MCInv => WorkInv
  <2> SUFFICES ASSUME MCInv PROVE WorkInv
    OBVIOUS
  <2>1. TypeOK /\ ChunkBounds /\ AnsweredOnce
    BY InvWork DEF MCInv
  <2>2. ChunksTypeOK
    <3>1. CASE NoChunks
      <4>1. 0 \in Address /\ 0 \in 0..MaxLen /\ 0 \in 0..0 /\ 0 \in Int
        BY Consts, MaxLenAssumption DEF Address
      <4>2. <<>> \in Seq([addr : Address, len : 0..MaxLen])
        OBVIOUS
      <4> QED BY <3>1, <4>1, <4>2 DEF NoChunks, ChunksTypeOK
    <3> QED BY <3>1 DEF MCInv
  <2> QED BY <2>1, <2>2 DEF WorkInv
<1> QED BY <1>1, MCInvariance, PTL

----------------------------------------------------------------------------
(* Entries and addresses in arithmetic *)

(* Dividing by a product is dividing by one factor and then by the other.  *)
LEMMA Nested ==
    ASSUME NEW a \in Nat \ {0}, NEW b \in Nat \ {0}, NEW x \in Int
    PROVE  /\ a * b \in Nat \ {0}
           /\ x \div (a * b) = (x \div a) \div b
           /\ x % (a * b) = a * ((x \div a) % b) + (x % a)
<1> DEFINE q == x \div a
           r == x % a
           d == q \div b
           m == q % b
<1>1. x = a * q + r /\ r \in 0..(a - 1) /\ q \in Int
  BY Euclid
<1>2. q = b * d + m /\ m \in 0..(b - 1) /\ d \in Int
  BY <1>1, Euclid
<1> HIDE DEF q, r, d, m
<1>3. a * b \in Nat \ {0}
  OBVIOUS
<1>4. a * m + a <= a * b /\ a * m \in Nat
  BY <1>2, Multiples
<1>5. a * m + r \in 0..(a * b - 1)
  BY <1>1, <1>3, <1>4
<1>6. a * q = (a * b) * d + a * m
  BY <1>1, <1>2
<1>7. Splits(x, a * b, d, a * m + r)
  BY <1>1, <1>2, <1>3, <1>4, <1>5, <1>6 DEF Splits
<1>8. x % (a * b) = a * m + r /\ x \div (a * b) = d
  BY <1>7, DivMod
<1> QED BY <1>3, <1>8 DEF q, r, d, m

(* The pages of a size that is a multiple of another one's.                *)
LEMMA Coarsen ==
    ASSUME NEW z \in Nat \ {0}, NEW q \in Nat \ {0}, NEW x \in Int, NEW y \in Int,
           x \div z <= y \div z
    PROVE  x \div (z * q) <= y \div (z * q)
<1>1. x \div z \in Int /\ y \div z \in Int
  BY Euclid
<1> QED BY <1>1, Nested, DivOrder

LEMMA CoarsenSame ==
    ASSUME NEW z \in Nat \ {0}, NEW q \in Nat \ {0}, NEW x \in Int, NEW y \in Int,
           x \div z = y \div z
    PROVE  x \div (z * q) = y \div (z * q)
<1>1. x \div (z * q) = (x \div z) \div q
  BY Nested
<1>2. y \div (z * q) = (y \div z) \div q
  BY Nested
<1> QED BY <1>1, <1>2

LEMMA ModOfMod ==
    ASSUME NEW a \in Nat \ {0}, NEW b \in Nat \ {0}, NEW x \in Int
    PROVE  (x % (a * b)) % a = x % a
<1> DEFINE m == (x \div a) % b
           r == x % a
           y == x % (a * b)
<1>1. m \in Int /\ r \in 0..(a - 1)
  <2>1. x \div a \in Int
    BY Euclid
  <2> QED BY <2>1, Euclid
<1>2. y = a * m + r
  BY Nested
<1> HIDE DEF m, r, y
<1>3. Splits(y, a, m, r)
  BY <1>1, <1>2 DEF Splits
<1> QED BY <1>3, DivMod DEF r, y

(* A mask keeps what the remainder by the upper bits has above the lower.  *)
LEMMA BitsAre ==
    ASSUME NEW x \in Nat, NEW m \in Nat, NEW n \in Nat, m <= n + 1
    PROVE  LET y == x % pow2[n + 1] IN
           /\ bits(x, m, n) = y - (y % pow2[m]) /\ y \in Nat
           /\ \E d \in Nat : bits(x, m, n) = pow2[m] * d
<1> DEFINE a == pow2[m]
           b == pow2[n + 1 - m]
           q == x \div a
           y == x % (a * b)
           d == q % b
<1>1. a \in Nat \ {0} /\ b \in Nat \ {0} /\ pow2[n + 1] = a * b
  <2>1. n + 1 \in Nat
    OBVIOUS
  <2> QED BY <2>1, PowMonotone
<1> HIDE DEF a, b
<1>2. q \in Nat /\ d \in 0..(b - 1) /\ d \in Nat
  <2>1. q \in Nat
    BY <1>1, DivNat
  <2> HIDE DEF q
  <2> QED BY <1>1, <2>1, Euclid
<1>3. y = a * d + (x % a) /\ x % a \in 0..(a - 1) /\ a * b \in Nat \ {0}
  <2>1. x \in Int
    OBVIOUS
  <2>2. x % (a * b) = a * ((x \div a) % b) + (x % a) /\ a * b \in Nat \ {0}
    BY <1>1, <2>1, Nested
  <2>3. x % a \in 0..(a - 1)
    BY <1>1, <2>1, Euclid
  <2> QED BY <2>2, <2>3
<1>4. y % a = x % a
  <2>1. x \in Int
    OBVIOUS
  <2> QED BY <1>1, <2>1, ModOfMod
<1>5. (q * a) % (a * b) = a * d
  <2>1. Splits(q * a, a, q, 0)
    <3> HIDE DEF q
    <3> QED BY <1>1, <1>2 DEF Splits
  <2>2. (q * a) \div a = q /\ (q * a) % a = 0 /\ q * a \in Int
    <3> HIDE DEF q
    <3> QED BY <2>1, DivMod DEF Splits
  <2>3. (q * a) % (a * b) = a * (((q * a) \div a) % b) + ((q * a) % a)
    <3> DEFINE u == q * a
    <3>1. u \in Int
      BY <2>2
    <3> HIDE DEF u
    <3>2. u % (a * b) = a * ((u \div a) % b) + (u % a)
      BY <1>1, <3>1, Nested
    <3> QED BY <3>2 DEF u
  <2>4. a * d \in Int
    <3> HIDE DEF d
    <3> QED BY <1>1, <1>2
  <2> HIDE DEF q
  <2> QED BY <2>2, <2>3, <2>4 DEF d
<1>6. bits(x, m, n) = (q * a) % (a * b)
  BY <1>1 DEF bits, a
<1>7. y \in Nat
  BY <1>3, Euclid
<1>8. bits(x, m, n) = y - (y % a) /\ a * d \in Nat
  <2> HIDE DEF y, d, q
  <2> QED BY <1>1, <1>2, <1>3, <1>4, <1>5, <1>6
<1>9. y = x % pow2[n + 1]
  BY <1>1
<1> HIDE DEF y, d, q
<1> QED BY <1>2, <1>5, <1>6, <1>7, <1>8, <1>9 DEF a

(* x is the entry e, with some of the next one above it.                   *)
EntryIn(x, e) ==
    /\ x \in Nat /\ e \in Nat
    /\ \E n \in Nat : x = e + n * pow2[arch.entry_bits]

LEMMA SameRest ==
    ASSUME WellFormed(arch), NEW x, NEW e, EntryIn(x, e), NEW b \in Nat, b <= arch.entry_bits
    PROVE  x % pow2[b] = e % pow2[b]
<1>1. PICK n \in Nat : x = e + n * pow2[arch.entry_bits]
  BY DEF EntryIn
<1>2. /\ x \in Nat /\ e \in Nat /\ arch.entry_bits \in Nat
      /\ pow2[b] \in Nat \ {0} /\ pow2[arch.entry_bits - b] \in Nat \ {0}
      /\ pow2[arch.entry_bits] = pow2[b] * pow2[arch.entry_bits - b]
  <2>1. arch.entry_bits \in Nat
    BY DEF WellFormed
  <2> QED BY <2>1, PowMonotone DEF EntryIn
<1> DEFINE p == pow2[b]
           k == n * pow2[arch.entry_bits - b]
<1>3. k \in Int /\ n * pow2[arch.entry_bits] = p * k
  BY <1>2
<1> HIDE DEF k
<1>4. Moves(e, x, p, k)
  BY <1>1, <1>2, <1>3 DEF Moves
<1> QED BY <1>4, Shift

LEMMA SameBit ==
    ASSUME WellFormed(arch), NEW x, NEW e, EntryIn(x, e), NEW b \in Nat, b < arch.entry_bits
    PROVE  bit_at(x, b) <=> bit_at(e, b)
<1>1. /\ x \in Nat /\ e \in Nat /\ pow2[b] \in Nat \ {0} /\ pow2[b + 1] = pow2[b] * 2
      /\ b + 1 \in Nat /\ b + 1 <= arch.entry_bits
  <2>1. arch.entry_bits \in Nat
    BY DEF WellFormed
  <2>2. pow2[b] \in Nat \ {0} /\ pow2[b + 1] = 2 * pow2[b]
    BY PowFunction
  <2> QED BY <2>1, <2>2 DEF EntryIn
<1> DEFINE p == pow2[b]
           dx == (x \div p) % 2
           de == (e \div p) % 2
<1>2. x % (p * 2) = e % (p * 2) /\ x % p = e % p
  <2>1. b <= arch.entry_bits
    BY DEF WellFormed
  <2>2. x % pow2[b + 1] = e % pow2[b + 1]
    BY <1>1, SameRest
  <2>3. x % pow2[b] = e % pow2[b]
    BY <2>1, SameRest
  <2> QED BY <1>1, <2>2, <2>3
<1>3. /\ x % (p * 2) = p * dx + (x % p) /\ e % (p * 2) = p * de + (e % p)
      /\ x % p \in Int /\ e % p \in Int /\ dx \in {0, 1} /\ de \in {0, 1}
  <2>1. p \in Nat \ {0} /\ x \in Int /\ e \in Int
    BY <1>1
  <2> HIDE DEF p
  <2>2. x % p \in Int /\ e % p \in Int /\ x \div p \in Int /\ e \div p \in Int
    BY <2>1, Euclid
  <2>3. dx \in 0..1 /\ de \in 0..1
    BY <2>2
  <2>4. dx \in {0, 1} /\ de \in {0, 1}
    <3> HIDE DEF dx, de
    <3> QED BY <2>3
  <2>5. x % (p * 2) = p * dx + (x % p) /\ e % (p * 2) = p * de + (e % p)
    <3>1. 2 \in Nat \ {0} /\ x \in Int /\ e \in Int
      BY <1>1
    <3> QED BY <2>1, <3>1, Nested
  <2> QED BY <2>2, <2>4, <2>5
<1>4. p * dx = p * de
  <2> HIDE DEF dx, de
  <2>1. p \in Nat \ {0}
    BY <1>1
  <2> HIDE DEF p
  <2>2. p * dx \in Int /\ p * de \in Int
    BY <1>3, <2>1
  <2> QED BY <1>2, <1>3, <2>2
<1>5. dx = de
  <2>1. p \in Nat \ {0} /\ (p * dx # 0 <=> dx = 1) /\ (p * de # 0 <=> de = 1)
    <3> HIDE DEF dx, de
    <3> QED BY <1>1, <1>3
  <2> HIDE DEF dx, de, p
  <2> QED BY <1>3, <1>4, <2>1
<1> QED BY <1>5 DEF bit_at

(* The mask of an entry is the address of the table that it leads to.      *)
LEMMA SplitBits ==
    ASSUME WellFormed(arch), NEW s \in 0..Last
    PROVE  /\ s # Last => split(s) + arch.pte_bits <= split(Last)
           /\ split(Last) <= arch.space_bits /\ arch.space_bits <= arch.entry_bits
           /\ {split(s), split(Last), arch.space_bits} \subseteq Nat \ {0}
           /\ {arch.pte_bits, arch.entry_bits} \subseteq Nat
<1>1. /\ Last \in Nat /\ Last > 0 /\ split(s) \in Nat \ {0} /\ split(Last) \in Nat \ {0}
      /\ {arch.pte_bits, arch.space_bits, arch.entry_bits} \subseteq Nat
  <2>1. Last \in Nat /\ Last > 0
    BY ArchFacts
  <2>2. Last \in 0..Last
    BY <2>1
  <2> QED BY <2>1, <2>2, ArchFacts
<1>2. Last = Len(arch.splits) - 1
  BY DEF Last, split_count
<1>3. /\ \A t \in 0..(Last - 1) : arch.splits[t + 1] + arch.pte_bits <= arch.splits[Last + 1]
      /\ arch.splits[Last + 1] <= arch.space_bits /\ arch.space_bits <= arch.entry_bits
  BY <1>2 DEF WellFormed
<1>4. split(Last) = arch.splits[Last + 1] /\ split(s) = arch.splits[s + 1]
  BY DEF split
<1>5. s # Last => s \in 0..(Last - 1)
  BY <1>1
<1> QED BY <1>1, <1>3, <1>4, <1>5

TableBits(s) == IF s = Last THEN split(s) ELSE split(s) + arch.pte_bits

LEMMA TableMask ==
    ASSUME WellFormed(arch), NEW x \in Nat, NEW s \in 0..Last
    PROVE  /\ pte_addr_mask(x, s) = TableAt(x, s) /\ TableAt(x, s) \in Nat
           /\ TableBits(s) \in Nat /\ TableBits(s) <= split(Last)
           /\ \E d \in Nat : TableAt(x, s) = pow2[TableBits(s)] * d
<1> DEFINE n == arch.space_bits - 1
           m == TableBits(s)
           y == x % pow2[n + 1]
<1>1. n \in Nat /\ n + 1 = arch.space_bits /\ m \in Nat /\ m <= n + 1 /\ m <= split(Last)
  BY SplitBits DEF TableBits
<1>2. bits(x, m, n) = y - (y % pow2[m]) /\ \E d \in Nat : bits(x, m, n) = pow2[m] * d
  <2> HIDE DEF m, n
  <2> QED BY <1>1, BitsAre
<1>3. bits(x, m, n) \in Nat
  <2> HIDE DEF m, n
  <2> QED BY <1>1, BitsType
<1>4. pte_addr_mask(x, s) = bits(x, m, n)
  <2>1. split(s) + (IF s = Last THEN 0 ELSE arch.pte_bits) = m
    BY SplitBits DEF TableBits
  <2> QED BY <2>1 DEF pte_addr_mask
<1>5. TableAt(x, s) = y - (y % pow2[m])
  BY <1>1 DEF TableAt, TableBits
<1> QED BY <1>1, <1>2, <1>3, <1>4, <1>5

(* What the walk tells from what it read is the entry's.                   *)
LEMMA EntryMeans ==
    ASSUME WellFormed(arch), NEW x, NEW e, EntryIn(x, e), NEW s \in 0..Last
    PROVE  /\ TableAt(x, s) = TableAt(e, s) /\ FrameAt(x, s) = FrameAt(e, s)
           /\ pte_addr_mask(x, s) = TableAt(e, s) /\ pte_addr_mask(e, s) = TableAt(e, s)
           /\ check_entry(x, s) <=> Present(e, s)
           /\ is_final_mapping(x, s) <=> s = Last \/ Large(e, s)
           /\ bit_at(x, arch.writeable_bit) <=> bit_at(e, arch.writeable_bit)
           /\ bit_at(x, arch.nx_bit) <=> bit_at(e, arch.nx_bit)
<1>1. x \in Nat /\ e \in Nat
  BY DEF EntryIn
<1>2. /\ arch.space_bits \in Nat /\ arch.space_bits <= arch.entry_bits
      /\ split(Last) \in Nat /\ split(Last) <= arch.entry_bits /\ arch.entry_bits \in Nat
  BY SplitBits
<1>3. x % pow2[arch.space_bits] = e % pow2[arch.space_bits]
  BY <1>2, SameRest
<1>4. TableAt(x, s) = TableAt(e, s) /\ FrameAt(x, s) = FrameAt(e, s)
  BY <1>3 DEF TableAt, FrameAt
<1>5. pte_addr_mask(x, s) = TableAt(e, s) /\ pte_addr_mask(e, s) = TableAt(e, s)
  BY <1>1, <1>4, TableMask
<1>6. /\ arch.present_bit \in Nat /\ arch.present_bit < arch.entry_bits
      /\ arch.large_page_bit \in Nat /\ arch.large_page_bit < arch.entry_bits
      /\ arch.writeable_bit \in Nat /\ arch.writeable_bit < arch.entry_bits
      /\ arch.nx_bit \in Nat /\ arch.nx_bit < arch.entry_bits
  <2>1. /\ {arch.present_bit, arch.large_page_bit} \subseteq 0..(split(Last) - 1)
        /\ {arch.writeable_bit, arch.nx_bit} \subseteq 0..(arch.entry_bits - 1)
    BY DEF WellFormed, split, Last, split_count
  <2> QED BY <1>2, <2>1
<1>7. /\ bit_at(x, arch.present_bit) <=> bit_at(e, arch.present_bit)
      /\ bit_at(x, arch.large_page_bit) <=> bit_at(e, arch.large_page_bit)
      /\ bit_at(x, arch.writeable_bit) <=> bit_at(e, arch.writeable_bit)
      /\ bit_at(x, arch.nx_bit) <=> bit_at(e, arch.nx_bit)
  BY <1>6, SameBit
<1>8. check_entry(x, s) <=> Present(e, s)
  BY <1>7 DEF check_entry, Present, bit_at
<1>9. is_final_mapping(x, s) <=> s = Last \/ Large(e, s)
  BY <1>7 DEF is_final_mapping, Large, bit_at
<1> QED BY <1>4, <1>5, <1>7, <1>8, <1>9

----------------------------------------------------------------------------
(* The page of a final entry *)

LEMMA OrWithNothing ==
    ASSUME NEW n \in Nat, NEW y \in 0..(pow2[n] - 1)
    PROVE  bit_or(0, y, n) = y
<1> DEFINE h(k) == IF bit_at(0, k - 1) \/ bit_at(y, k - 1) THEN pow2[k - 1] ELSE 0
           g == [k \in 1..n |-> [x \in Nat |-> x + h(k)]]
           F(f) == [k \in 0..n |-> IF k = 0 THEN 0 ELSE f[k - 1] + h(k)]
           c == CHOOSE f : f = F(f)
<1>1. \A k \in 1..n : h(k) \in Nat /\ k - 1 \in Nat /\ k - 1 \in 0..n /\ pow2[k - 1] \in Nat \ {0}
  BY PowFunction
<1>2. PICK f : Solution(f, Nat, 0, n, g)
  <2>1. ASSUME NEW k \in 1..n PROVE [x \in Nat |-> x + h(k)] \in [Nat -> Nat]
    <3>1. h(k) \in Nat
      BY <1>1
    <3> HIDE DEF h
    <3> QED BY <3>1
  <2> HIDE DEF h
  <2>2. g \in [1..n -> [Nat -> Nat]]
    BY <2>1
  <2>3. Recursion(Nat, 0, n, g)
    BY <2>2 DEF Recursion
  <2> HIDE DEF g
  <2> QED BY <2>3, Iterates
<1> HIDE DEF h
<1>3. f \in [0..n -> Nat] /\ f[0] = 0 /\ \A k \in 1..n : f[k] = f[k - 1] + h(k)
  <2>1. f \in [0..n -> Nat] /\ f[0] = 0 /\ \A k \in 1..n : f[k] = g[k][f[k - 1]]
    BY <1>2 DEF Solution
  <2>2. ASSUME NEW k \in 1..n PROVE g[k][f[k - 1]] = f[k - 1] + h(k)
    <3>1. f[k - 1] \in Nat
      BY <1>1, <2>1
    <3> QED BY <3>1
  <2> QED BY <2>1, <2>2
<1>4. f = F(f)
  <2>1. \A k \in 0..n : f[k] = F(f)[k]
    BY <1>3
  <2> QED BY <1>3, <2>1
<1>5. c = F(c)
  <2> HIDE DEF F
  <2> QED BY <1>4
<1> HIDE DEF c
<1>6. c[0] = 0 /\ \A k \in 1..n : c[k] = c[k - 1] + h(k)
  BY <1>5
<1>7. bit_or(0, y, n) = c[n]
  BY DEF bit_or, c, h
<1> DEFINE S == {k \in 0..n : c[k] = y % pow2[k]}
<1>8. 0 \in S
  <2>1. pow2[0] = 1 /\ y % 1 = 0
    <3>1. 0 \in 0..(1 - 1) /\ y \in Nat
      BY PowFunction
    <3>2. Splits(y, 1, y, 0)
      BY <3>1 DEF Splits
    <3> QED BY <3>2, DivMod, PowFunction
  <2> QED BY <1>6, <2>1
<1>9. ASSUME NEW k \in 1..n, k - 1 \in S PROVE k \in S
  <2> DEFINE a == pow2[k - 1]
             b == (y \div a) % 2
  <2>1. a \in Nat \ {0} /\ pow2[k] = a * 2 /\ y \in Int
    <3>1. k - 1 \in Nat /\ k - 1 + 1 = k
      OBVIOUS
    <3>2. pow2[k - 1 + 1] = 2 * pow2[k - 1]
      BY <3>1, PowFunction
    <3> QED BY <1>1, <3>1, <3>2, PowFunction
  <2>2. y % pow2[k] = a * b + (y % a) /\ y % a \in Int
    <3> HIDE DEF a
    <3>1. 2 \in Nat \ {0}
      OBVIOUS
    <3>2. y % (a * 2) = a * ((y \div a) % 2) + (y % a)
      BY <2>1, <3>1, Nested
    <3>3. y % a \in Int
      BY <2>1
    <3> QED BY <2>1, <3>2, <3>3
  <2>3. b \in {0, 1}
    <3> HIDE DEF a
    <3>1. y \div a \in Int
      BY <2>1, Euclid
    <3> QED BY <3>1
  <2>4. h(k) = a * b
    <3>1. ~bit_at(0, k - 1)
      <4>1. 0 \div a = 0 /\ 0 % 2 = 0
        <5>1. 0 \in 0..(a - 1)
          BY <2>1
        <5> HIDE DEF a
        <5> QED BY <2>1, <5>1, SmallDiv
      <4> QED BY <4>1 DEF bit_at
    <3>2. bit_at(y, k - 1) <=> b = 1
      BY DEF bit_at
    <3> HIDE DEF b
    <3> QED BY <2>1, <2>3, <3>1, <3>2 DEF h
  <2>5. c[k] = (y % a) + a * b
    BY <1>6, <1>9, <2>4
  <2>6. a * b \in Int
    <3> HIDE DEF b
    <3> QED BY <2>1, <2>3
  <2> HIDE DEF a, b
  <2>7. c[k] = y % pow2[k]
    BY <2>2, <2>5, <2>6
  <2> QED BY <2>7
<1> HIDE DEF S
<1>10. \A k \in 0..n : k \in S
  BY <1>8, <1>9, UpTo
<1>11. n \in S
  BY <1>10
<1>12. y % pow2[n] = y
  BY PowFunction, SmallDiv
<1> QED BY <1>7, <1>11, <1>12 DEF S

LEMMA StepSize ==
    ASSUME WellFormed(arch), NEW s \in 0..Last
    PROVE  /\ page_size_step(s) \in Nat \ {0} /\ page_size_step(s + 1) \in Nat \ {0}
           /\ page_size_step(s) = page_size_step(s + 1) * pow2[split(s)]
           /\ pow2[split(s)] \in Nat \ {0}
           /\ pow2[min_index_bits(s)] = page_size_step(s + 1)
           /\ max_index_bits(s) \in Nat /\ max_index_bits(s) > 0
<1>1. /\ Last \in Nat /\ split(s) \in Nat \ {0} /\ max_index_bits(s) \in Nat
      /\ max_index_bits(s + 1) \in Nat
      /\ max_index_bits(s) = split(s) + max_index_bits(s + 1)
      /\ min_index_bits(s) = max_index_bits(s + 1)
  <2>1. Last \in Nat
    BY ArchFacts
  <2>2. s + 1 \in 0..(Last + 1) /\ s \in 0..(Last + 1)
    BY <2>1
  <2> QED BY <2>1, <2>2, ArchFacts
<1>2. max_index_bits(s) = max_index_bits(s + 1) + split(s) /\ max_index_bits(s) > 0
  BY <1>1
<1>3. pow2[max_index_bits(s)] = pow2[max_index_bits(s + 1)] * pow2[split(s)]
  BY <1>1, <1>2, PowSum
<1> QED BY <1>1, <1>2, <1>3, PowFunction DEF page_size_step

(* Large pages are made of smaller ones, and the last of tables.           *)
LEMMA SizesNest ==
    ASSUME WellFormed(arch), NEW s \in 0..Last
    PROVE  max_index_bits(s) >= split(Last)
<1>1. Last \in Nat /\ Last > 0
  BY ArchFacts
<1> DEFINE S == {k \in 0..Last : max_index_bits(Last - k) >= split(Last)}
<1>2. \A t \in 0..Last : /\ max_index_bits(t) = split(t) + max_index_bits(t + 1)
                         /\ max_index_bits(t) \in Nat /\ max_index_bits(t + 1) \in Nat
                         /\ split(t) \in Nat
  <2> TAKE t \in 0..Last
  <2>1. t + 1 \in 0..(Last + 1) /\ t \in 0..(Last + 1)
    BY <1>1
  <2> QED BY <2>1, ArchFacts
<1>3. 0 \in S
  <2>1. Last \in 0..Last /\ Last - 0 = Last /\ 0 \in 0..Last
    BY <1>1
  <2>2. max_index_bits(Last) >= split(Last)
    BY <1>2, <2>1
  <2> QED BY <2>1, <2>2
<1>4. ASSUME NEW k \in 1..Last, k - 1 \in S PROVE k \in S
  <2>1. Last - k \in 0..Last /\ Last - k + 1 = Last - (k - 1) /\ k \in 0..Last
        /\ Last - (k - 1) \in 0..Last /\ Last \in 0..Last
    BY <1>1
  <2>2. max_index_bits(Last - k) = split(Last - k) + max_index_bits(Last - (k - 1))
    BY <1>2, <2>1
  <2>3. /\ max_index_bits(Last - (k - 1)) >= split(Last) /\ split(Last - k) \in Nat
        /\ max_index_bits(Last - (k - 1)) \in Nat /\ split(Last) \in Nat
    BY <1>2, <1>4, <2>1
  <2>4. max_index_bits(Last - k) >= split(Last)
    BY <2>2, <2>3
  <2> QED BY <2>1, <2>4
<1> HIDE DEF S
<1>5. \A k \in 0..Last : k \in S
  BY <1>1, <1>3, <1>4, UpTo
<1>6. Last - s \in 0..Last /\ Last - (Last - s) = s
  BY <1>1
<1>7. Last - s \in S
  BY <1>5, <1>6
<1> QED BY <1>6, <1>7 DEF S

(* The page is the frame of the entry and the offset in it, if the entry   *)
(* has no bits between the table's mask and the page.                      *)
LEMMA PageIs ==
    ASSUME WellFormed(arch), NEW x, NEW e, EntryIn(x, e), NEW s \in 0..Last, NEW a \in Nat,
           s # Last => pte_addr_mask(e, s) % page_size_step(s) = 0
    PROVE  /\ get_phys_page(x, a, s) = PageOf(a, s, e)
           /\ FrameAt(e, s) \in Nat
<1> DEFINE z == page_size_step(s)
           n == max_index_bits(s)
           m == pow2[TableBits(s)]
           y == e % pow2[arch.space_bits]
           t == TableAt(e, s)
<1>1. /\ z \in Nat \ {0} /\ n \in Nat /\ n > 0 /\ z = pow2[n] /\ e \in Nat
      /\ TableBits(s) \in Nat /\ TableBits(s) <= n
  <2>1. z \in Nat \ {0} /\ n \in Nat /\ n > 0 /\ n >= split(Last)
    BY StepSize, SizesNest
  <2>2. e \in Nat
    BY DEF EntryIn
  <2>3. TableBits(s) \in Nat /\ TableBits(s) <= split(Last) /\ split(Last) \in Nat
    BY <2>2, TableMask, SplitBits
  <2> QED BY <2>1, <2>2, <2>3 DEF page_size_step
<1>2. t = y - (y % m) /\ y \in Nat
  <2>1. t = y - (y % m)
    BY DEF TableAt, TableBits
  <2>2. pow2[arch.space_bits] \in Nat \ {0}
    BY SplitBits, PowFunction
  <2>3. y \in Nat
    BY <1>1, <2>2
  <2> QED BY <2>1, <2>3
<1>3. m \in Nat \ {0} /\ m <= z
  BY <1>1, PowMonotone
<1>4. t % z = 0 /\ t \in Nat
  <2>1. t \in Nat
    BY <1>1, TableMask
  <2>2. CASE s = Last
    <3>1. TableBits(s) = n
      <4>1. Last \in Nat /\ max_index_bits(Last + 1) = 0 /\ Last \in 0..Last
        BY ArchFacts
      <4>2. max_index_bits(Last) = split(Last) + max_index_bits(Last + 1) /\ split(Last) \in Nat
        BY <4>1, ArchFacts
      <4> QED BY <2>2, <4>1, <4>2 DEF TableBits
    <3>2. PICK d \in Nat : t = pow2[TableBits(s)] * d
      BY <1>1, TableMask
    <3>3. Splits(t, z, d, 0)
      <4> HIDE DEF t
      <4> QED BY <1>1, <2>1, <3>1, <3>2 DEF Splits
    <3> QED BY <2>1, <3>3, DivMod
  <2>3. CASE s # Last
    BY <1>1, <2>1, <2>3, TableMask
  <2> QED BY <2>1, <2>2, <2>3
<1>5. FrameAt(e, s) = t
  <2>1. y % m \in 0..(m - 1) /\ y % m \in Nat
    BY <1>2, <1>3, Euclid
  <2>2. y % z = y % m
    <3> DEFINE r == y % m
               d == t \div z
    <3>1. t = z * d + (t % z) /\ d \in Int
      <4>1. t \in Int /\ z \in Nat \ {0}
        BY <1>1, <1>4
      <4> HIDE DEF t, z
      <4> QED BY ONLY <4>1, Euclid
    <3>2. r \in 0..(z - 1)
      BY <1>1, <1>3, <2>1
    <3> HIDE DEF d, t, r
    <3>3. y = z * d + r
      <4>1. z * d \in Int
        BY <1>1, <3>1
      <4> QED BY <1>2, <1>4, <3>1, <3>2, <4>1 DEF r, t
    <3>4. Splits(y, z, d, r)
      BY <1>1, <1>2, <3>1, <3>2, <3>3 DEF Splits
    <3> QED BY <3>4, DivMod DEF r
  <2>3. FrameAt(e, s) = y - (y % z)
    BY DEF FrameAt
  <2> QED BY <1>2, <2>2, <2>3
<1> DEFINE o == virt_addr_to_page_offset(a, s)
           w == a % z
<1>6. o = w /\ w \in 0..(z - 1)
  <2>1. pow2[0] = 1 /\ n - 1 + 1 = n
    BY <1>1, PowFunction
  <2>2. a \div 1 = a /\ a * 1 = a
    <3>1. Splits(a, 1, a, 0)
      BY DEF Splits
    <3> QED BY <3>1, DivMod
  <2>3. bits(a, 0, n - 1) = a % z
    BY <1>1, <2>1, <2>2 DEF bits
  <2>4. w \in 0..(z - 1)
    <3> HIDE DEF z
    <3> QED BY <1>1
  <2> QED BY <2>3, <2>4 DEF virt_addr_to_page_offset
<1>7. bit_or(0, w, n) = w
  <2> HIDE DEF w, z, n
  <2> QED BY <1>1, <1>6, OrWithNothing
<1>8. /\ pte_addr_mask(x, s) = t
      /\ bit_at(x, arch.writeable_bit) <=> bit_at(e, arch.writeable_bit)
      /\ bit_at(x, arch.nx_bit) <=> bit_at(e, arch.nx_bit)
  BY EntryMeans
<1>9. get_phys_page(x, a, s).paddr = t + w
  <2>1. get_phys_page(x, a, s).paddr = t - (t % z) + bit_or(t % z, o, n)
    BY <1>8 DEF get_phys_page
  <2> HIDE DEF t, o, w, z, n
  <2> QED BY <1>4, <1>6, <1>7, <2>1
<1>10. get_phys_page(x, a, s) =
          [paddr |-> t + w, write |-> bit_at(x, arch.writeable_bit),
           noexec |-> bit_at(x, arch.nx_bit), page_size |-> z]
  <2> HIDE DEF t, w, z
  <2> QED BY <1>9 DEF get_phys_page, z
<1>11. PageOf(a, s, e) =
          [paddr |-> t + w, write |-> bit_at(e, arch.writeable_bit),
           noexec |-> bit_at(e, arch.nx_bit), page_size |-> z]
  <2>1. PageOf(a, s, e) =
          [paddr |-> FrameAt(e, s) + w, page_size |-> z,
           write |-> bit_at(e, arch.writeable_bit), noexec |-> bit_at(e, arch.nx_bit)]
    BY DEF PageOf, bit_at
  <2> HIDE DEF t, w, z
  <2> QED BY <1>5, <2>1
<1>12. get_phys_page(x, a, s) = PageOf(a, s, e)
  <2> DEFINE u == bit_at(x, arch.writeable_bit)
             u2 == bit_at(e, arch.writeable_bit)
             f == bit_at(x, arch.nx_bit)
             f2 == bit_at(e, arch.nx_bit)
  <2>1. u \in BOOLEAN /\ u2 \in BOOLEAN /\ f \in BOOLEAN /\ f2 \in BOOLEAN
    BY DEF bit_at
  <2>2. u = u2 /\ f = f2
    <3> HIDE DEF u, u2, f, f2
    <3> QED BY <1>8, <2>1 DEF u, u2, f, f2
  <2> HIDE DEF u, u2, f, f2, t, w, z
  <2> QED BY <1>10, <1>11, <2>2 DEF u, u2, f, f2
<1> QED BY <1>4, <1>5, <1>12

(* Within the page, an address is as far from the frame as from another.   *)
LEMMA SamePage ==
    ASSUME NEW z \in Nat \ {0}, NEW a \in Int, NEW b \in Int, a \div z = b \div z
    PROVE  b % z = (a % z) + (b - a)
<1>1. a = z * (a \div z) + (a % z) /\ b = z * (b \div z) + (b % z)
      /\ a % z \in Int /\ b % z \in Int /\ a \div z \in Int
  BY Euclid
<1> DEFINE k == z * (a \div z)
<1>2. k \in Int
  <2> DEFINE d == a \div z
  <2>1. d \in Int
    BY <1>1
  <2> HIDE DEF d
  <2>2. z * d \in Int
    BY <2>1
  <2> QED BY <2>2 DEF d
<1>3. a = k + (a % z) /\ b = k + (b % z)
  BY <1>1
<1> HIDE DEF k
<1> QED BY <1>1, <1>2, <1>3

----------------------------------------------------------------------------
(* The address of an entry *)

LEMMA EntryAddress ==
    ASSUME WellFormed(arch), NEW x, NEW e, EntryIn(x, e), NEW s \in 0..(Last - 1),
           NEW a \in Nat, NEW b \in Nat,
           a \div page_size_step(s + 1) = b \div page_size_step(s + 1)
    PROVE  /\ SlotOf(b, s, e) \in Nat
           /\ vtop_step(x, a, s) = SlotOf(b, s, e) * pow2[arch.pte_bits]
<1>1. s \in 0..Last /\ s # Last
  BY ArchFacts
<1> DEFINE p == pow2[arch.pte_bits]
           z == page_size_step(s + 1)
           t == TableAt(e, s)
           w == pow2[split(s)]
           j == (a \div z) % w
<1>2. /\ p \in Nat \ {0} /\ z \in Nat \ {0} /\ w \in Nat \ {0} /\ split(s) \in Nat \ {0}
      /\ pow2[min_index_bits(s)] = z /\ e \in Nat
  BY <1>1, StepSize, SplitBits, PowFunction DEF EntryIn
<1>3. j \in Nat /\ TableIndex(a, s) = j /\ TableIndex(b, s) = j
  <2>1. TableIndex(a, s) = j /\ TableIndex(b, s) = j
    BY <1>2 DEF TableIndex
  <2>2. a \div z \in Int
    <3> HIDE DEF z
    <3> QED BY <1>2
  <2>3. j \in Nat
    <3> DEFINE d == a \div z
    <3>1. d \in Int
      BY <2>2
    <3> HIDE DEF d, w
    <3> QED BY <1>2, <3>1
  <2> QED BY <2>1, <2>3
<1>4. virt_addr_to_pte_offset(a, s) = j * p
  <2> DEFINE q == a \div z
  <2>1. q \in Int
    <3> HIDE DEF z
    <3> QED BY <1>2
  <2>2. pow2[0] = 1 /\ split(s) - 1 + 1 = split(s)
    BY <1>2, PowFunction
  <2>3. q \div 1 = q /\ q * 1 = q
    <3> HIDE DEF q
    <3>1. Splits(q, 1, q, 0)
      BY <2>1 DEF Splits
    <3> QED BY <2>1, <3>1, DivMod
  <2> HIDE DEF q
  <2>4. bits(q, 0, split(s) - 1) = q % w
    BY <2>2, <2>3 DEF bits
  <2> QED BY <1>2, <2>4 DEF virt_addr_to_pte_offset, q
<1>5. PICK d \in Nat : t = pow2[TableBits(s)] * d
  BY <1>1, <1>2, TableMask
<1>6. \E c \in Nat : t = c * p
  <2>1. TableBits(s) = split(s) + arch.pte_bits /\ arch.pte_bits \in Nat
    BY <1>1, SplitBits DEF TableBits
  <2>2. pow2[TableBits(s)] = w * p
    BY <1>2, <2>1, PowSum
  <2>3. t = (w * d) * p /\ w * d \in Nat
    <3> HIDE DEF t, w, p
    <3> QED BY <1>2, <1>5, <2>2
  <2> QED BY <2>3
<1>7. PICK c \in Nat : t = c * p
  BY <1>6
<1>8. Slot(t) = c
  <2>1. Splits(t, p, c, 0)
    <3> HIDE DEF t, p
    <3> QED BY <1>2, <1>7 DEF Splits
  <2> QED BY <2>1, DivMod DEF Slot
<1>9. SlotOf(b, s, e) = c + j
  BY <1>3, <1>8 DEF SlotOf
<1>10. pte_addr_mask(x, s) = t
  BY <1>1, EntryMeans
<1>11. vtop_step(x, a, s) = c * p + j * p
  BY <1>4, <1>7, <1>10 DEF vtop_step
<1>12. c * p + j * p = (c + j) * p /\ c + j \in Nat
  <2> HIDE DEF j, p
  <2> QED BY <1>2, <1>3
<1> QED BY <1>9, <1>11, <1>12

LEMMA SlotAt ==
    ASSUME WellFormed(arch), NEW n \in Nat
    PROVE  Slot(n * pow2[arch.pte_bits]) = n /\ n * pow2[arch.pte_bits] \in Nat
<1> DEFINE p == pow2[arch.pte_bits]
<1>1. p \in Nat \ {0}
  BY PowFunction DEF WellFormed
<1>2. n * p \in Nat /\ Splits(n * p, p, n, 0)
  <2> HIDE DEF p
  <2> QED BY <1>1 DEF Splits
<1> QED BY <1>2, DivMod DEF Slot

----------------------------------------------------------------------------
(* The entries that a walk may come to *)

NextEntries(S, b, s) ==
    UNION {held[t] : t \in DOMAIN held \cap {SlotOf(b, s, e) : e \in {x \in S : IsTable(x, s)}}}

ReachIs ==
    WellFormed(arch) =>
        \A b : /\ Reach(b)[0] = {dtb}
               /\ \A s \in 0..(Last - 1) : Reach(b)[s + 1] = NextEntries(Reach(b)[s], b, s)

LEMMA ReachLaw == ReachIs
<1> SUFFICES ASSUME WellFormed(arch), NEW b
             PROVE  /\ Reach(b)[0] = {dtb}
                    /\ \A s \in 0..(Last - 1) : Reach(b)[s + 1] = NextEntries(Reach(b)[s], b, s)
  BY DEF ReachIs
<1> DEFINE All == {dtb} \cup UNION {held[t] : t \in DOMAIN held}
           S == SUBSET All
           h(k, X) == NextEntries(X, b, k - 1)
           g == [k \in 1..Last |-> [X \in S |-> h(k, X)]]
           F(f) == [s \in 0..Last |-> IF s = 0 THEN {dtb} ELSE h(s, f[s - 1])]
           c == CHOOSE f : f = F(f)
<1>1. Last \in Nat
  BY ArchFacts
<1>2. \A k, X : h(k, X) \in S
  BY DEF NextEntries
<1>3. PICK f : Solution(f, S, {dtb}, Last, g)
  <2>1. {dtb} \in S
    OBVIOUS
  <2> HIDE DEF h, S
  <2>2. \A k \in 1..Last : [X \in S |-> h(k, X)] \in [S -> S]
    BY <1>2
  <2>3. g \in [1..Last -> [S -> S]]
    BY <2>2
  <2>4. Recursion(S, {dtb}, Last, g)
    BY <1>1, <2>1, <2>3 DEF Recursion
  <2> HIDE DEF g
  <2> QED BY <2>4, Iterates
<1>4. f \in [0..Last -> S] /\ f[0] = {dtb} /\ \A k \in 1..Last : f[k] = h(k, f[k - 1])
  <2> HIDE DEF h, S
  <2>1. f \in [0..Last -> S] /\ f[0] = {dtb} /\ \A k \in 1..Last : f[k] = g[k][f[k - 1]]
    BY <1>3 DEF Solution
  <2>2. ASSUME NEW k \in 1..Last PROVE g[k][f[k - 1]] = h(k, f[k - 1])
    <3>1. k - 1 \in 0..Last
      BY <1>1
    <3>2. f[k - 1] \in S
      BY <2>1, <3>1
    <3> QED BY <3>2
  <2> QED BY <2>1, <2>2
<1>5. f = F(f)
  <2> HIDE DEF h, S
  <2>1. \A k \in 0..Last : f[k] = F(f)[k]
    BY <1>1, <1>4
  <2> QED BY <1>4, <2>1
<1>6. c = F(c)
  <2> HIDE DEF F
  <2> QED BY <1>5
<1>7. Reach(b) = c
  BY DEF Reach, c, h, NextEntries
<1> HIDE DEF c, h
<1>8. c[0] = {dtb} /\ \A k \in 1..Last : c[k] = h(k, c[k - 1])
  <2>1. 0 \in 0..Last /\ \A k \in 1..Last : k \in 0..Last /\ k # 0
    BY <1>1
  <2> QED BY <1>6, <2>1
<1>9. ASSUME NEW s \in 0..(Last - 1) PROVE c[s + 1] = NextEntries(c[s], b, s)
  <2>1. s + 1 \in 1..Last /\ s + 1 - 1 = s
    BY <1>1
  <2>2. c[s + 1] = h(s + 1, c[s])
    BY <1>8, <2>1
  <2> QED BY <2>1, <2>2 DEF h
<1> QED BY <1>7, <1>8, <1>9

LEMMA ReachSteps ==
    ASSUME WellFormed(arch), NEW b, NEW s \in 0..(Last - 1), NEW y
    PROVE  y \in Reach(b)[s + 1] <=>
              \E e \in Reach(b)[s] : /\ IsTable(e, s) /\ SlotOf(b, s, e) \in DOMAIN held
                                     /\ y \in held[SlotOf(b, s, e)]
<1>1. Reach(b)[s + 1] = NextEntries(Reach(b)[s], b, s)
  BY ReachLaw DEF ReachIs
<1> QED BY <1>1 DEF NextEntries

(* The operators on entries depend on the architecture alone. *)
LEMMA EntryPrimes ==
    ASSUME arch' = arch
    PROVE  /\ Last' = Last /\ Word' = Word
           /\ \A s : page_size_step(s)' = page_size_step(s)
           /\ \A e, s : IsTable(e, s)' = IsTable(e, s) /\ IsPage(e, s)' = IsPage(e, s)
                        /\ Present(e, s)' = Present(e, s) /\ Large(e, s)' = Large(e, s)
           /\ \A e, s : TableAt(e, s)' = TableAt(e, s) /\ pte_addr_mask(e, s)' = pte_addr_mask(e, s)
           /\ \A b, s, e : SlotOf(b, s, e)' = SlotOf(b, s, e) /\ PageOf(b, s, e)' = PageOf(b, s, e)
           /\ \A x, e : EntryIn(x, e)' = EntryIn(x, e)
           /\ \A x : Slot(x)' = Slot(x)
<1>1. Last' = Last /\ split_count' = split_count /\ Word' = Word
  BY DEF Last, split_count, Word
<1>2. \A s : /\ split(s)' = split(s) /\ max_index_bits(s)' = max_index_bits(s)
  BY DEF split, max_index_bits
<1>3. \A s : min_index_bits(s)' = min_index_bits(s) /\ page_size_step(s)' = page_size_step(s)
  BY <1>2 DEF min_index_bits, page_size_step
<1>4. \A e, s : Present(e, s)' = Present(e, s) /\ Large(e, s)' = Large(e, s)
  BY DEF Present, Large
<1>5. \A e, s : IsTable(e, s)' = IsTable(e, s) /\ IsPage(e, s)' = IsPage(e, s)
  BY <1>1, <1>4 DEF IsTable, IsPage
<1>6. \A e, s : TableAt(e, s)' = TableAt(e, s) /\ pte_addr_mask(e, s)' = pte_addr_mask(e, s)
  BY <1>1, <1>2 DEF TableAt, pte_addr_mask
<1>7. \A x : Slot(x)' = Slot(x)
  BY DEF Slot
<1>8. \A b, s : TableIndex(b, s)' = TableIndex(b, s)
  BY <1>2, <1>3 DEF TableIndex
<1>9. \A b, s, e : SlotOf(b, s, e)' = SlotOf(b, s, e)
  BY <1>6, <1>7, <1>8 DEF SlotOf
<1>10. \A e, s : FrameAt(e, s)' = FrameAt(e, s)
  BY <1>3 DEF FrameAt
<1>11. \A b, s, e : PageOf(b, s, e)' = PageOf(b, s, e)
  BY <1>3, <1>10 DEF PageOf
<1>12. \A x, e : EntryIn(x, e)' = EntryIn(x, e)
  BY DEF EntryIn
<1> QED BY <1>1, <1>3, <1>4, <1>5, <1>6, <1>7, <1>9, <1>11, <1>12

Grows == DOMAIN held = DOMAIN held' /\ \A t \in DOMAIN held : held[t] \subseteq held'[t]

(* More values of the entries, more ways to walk. *)
LEMMA ReachGrows ==
    ASSUME WellFormed(arch), arch' = arch, dtb' = dtb, Grows, NEW b
    PROVE  \A s \in 0..Last : Reach(b)[s] \subseteq Reach(b)'[s]
<1>1. Last \in Nat
  BY ArchFacts
<1>2. ReachIs'
  BY ReachLaw, PTL
<1>3. WellFormed(arch)' /\ Last' = Last
  BY EntryPrimes
<1>4. \A e, s : IsTable(e, s)' = IsTable(e, s) /\ SlotOf(b, s, e)' = SlotOf(b, s, e)
  BY EntryPrimes
<1>5. /\ Reach(b)'[0] = {dtb}
      /\ \A s \in 0..(Last - 1) : Reach(b)'[s + 1] = NextEntries(Reach(b)[s], b, s)'
  BY <1>2, <1>3 DEF ReachIs
<1>6. /\ Reach(b)[0] = {dtb}
      /\ \A s \in 0..(Last - 1) : Reach(b)[s + 1] = NextEntries(Reach(b)[s], b, s)
  BY ReachLaw DEF ReachIs
<1> DEFINE S == {s \in 0..Last : Reach(b)[s] \subseteq Reach(b)'[s]}
<1>7. 0 \in S
  BY <1>1, <1>5, <1>6
<1>8. ASSUME NEW s \in 1..Last, s - 1 \in S PROVE s \in S
  <2>1. s - 1 \in 0..(Last - 1) /\ s - 1 + 1 = s /\ s \in 0..Last
    BY <1>1
  <2>2. /\ Reach(b)[s] = NextEntries(Reach(b)[s - 1], b, s - 1)
        /\ Reach(b)'[s] = NextEntries(Reach(b)[s - 1], b, s - 1)'
    BY <1>5, <1>6, <2>1
  <2>3. Reach(b)[s - 1] \subseteq Reach(b)'[s - 1]
    BY <1>8
  <2>4. ASSUME NEW y \in NextEntries(Reach(b)[s - 1], b, s - 1)
        PROVE  y \in NextEntries(Reach(b)[s - 1], b, s - 1)'
    <3>1. PICK e \in Reach(b)[s - 1] :
             /\ IsTable(e, s - 1) /\ SlotOf(b, s - 1, e) \in DOMAIN held
             /\ y \in held[SlotOf(b, s - 1, e)]
      BY DEF NextEntries
    <3>2. /\ e \in Reach(b)'[s - 1] /\ IsTable(e, s - 1)'
          /\ SlotOf(b, s - 1, e)' = SlotOf(b, s - 1, e)
      BY <1>4, <2>3, <3>1
    <3>3. SlotOf(b, s - 1, e) \in DOMAIN held' /\ y \in held'[SlotOf(b, s - 1, e)]
      BY <3>1 DEF Grows
    <3> QED BY <3>2, <3>3 DEF NextEntries
  <2> QED BY <2>1, <2>2, <2>4
<1> HIDE DEF S
<1>9. \A s \in 0..Last : s \in S
  BY <1>1, <1>7, <1>8, UpTo
<1> QED BY <1>9 DEF S

(* Bytes of one page at the last level are walked alike. *)
LEMMA ReachOfPage ==
    ASSUME WellFormed(arch), NEW a \in Nat, NEW b \in Nat, NEW s \in 0..Last,
           a \div page_size_step(s) = b \div page_size_step(s)
    PROVE  Reach(a)[s] = Reach(b)[s]
<1>1. Last \in Nat
  BY ArchFacts
<1> DEFINE Q(k) == a \div page_size_step(k) = b \div page_size_step(k)
           S == {k \in 0..Last : Q(k) => Reach(a)[k] = Reach(b)[k]}
<1>2. 0 \in S
  <2>1. Reach(a)[0] = {dtb} /\ Reach(b)[0] = {dtb}
    BY ReachLaw DEF ReachIs
  <2> QED BY <1>1, <2>1
<1>3. ASSUME NEW k \in 1..Last, k - 1 \in S PROVE k \in S
  <2> SUFFICES ASSUME Q(k) PROVE Reach(a)[k] = Reach(b)[k]
    OBVIOUS
  <2>1. k - 1 \in 0..(Last - 1) /\ k - 1 + 1 = k /\ k - 1 \in 0..Last
    BY <1>1
  <2>2. /\ page_size_step(k - 1) = page_size_step(k) * pow2[split(k - 1)]
        /\ page_size_step(k) \in Nat \ {0} /\ pow2[split(k - 1)] \in Nat \ {0}
        /\ pow2[min_index_bits(k - 1)] = page_size_step(k)
    BY <2>1, StepSize
  <2>3. Q(k - 1)
    <3> DEFINE z == page_size_step(k)
               q == pow2[split(k - 1)]
    <3>1. z \in Nat \ {0} /\ q \in Nat \ {0} /\ a \in Int /\ b \in Int /\ a \div z = b \div z
      BY <2>2
    <3> HIDE DEF z, q
    <3>2. a \div (z * q) = b \div (z * q)
      BY ONLY <3>1, CoarsenSame
    <3> QED BY <2>2, <3>2 DEF z, q
  <2>4. Reach(a)[k - 1] = Reach(b)[k - 1]
    BY <1>3, <2>3
  <2>5. \A e : SlotOf(a, k - 1, e) = SlotOf(b, k - 1, e)
    BY <2>2 DEF SlotOf, TableIndex
  <2>6. /\ Reach(a)[k] = NextEntries(Reach(a)[k - 1], a, k - 1)
        /\ Reach(b)[k] = NextEntries(Reach(b)[k - 1], b, k - 1)
    BY <2>1, ReachLaw DEF ReachIs
  <2> QED BY <2>4, <2>5, <2>6 DEF NextEntries
<1> HIDE DEF S
<1>4. \A k \in 0..Last : k \in S
  BY <1>1, <1>2, <1>3, UpTo
<1>5. s \in S
  BY <1>4
<1> QED BY <1>5 DEF S

----------------------------------------------------------------------------
(* The bytes of a range *)

LEMMA BytesAre ==
    ASSUME InputInv, NEW r \in Asking
    PROVE  /\ Bytes(r) \subseteq Addr /\ r.addr \in Bytes(r) /\ r.addr \in Addr
           /\ r.len \in Nat \ {0} /\ r.off \in Nat
           /\ \A b : b \in Bytes(r) <=>
                 \E o \in Nat : At(r, r.id, o) /\ b = (req[r.id].addr + o) % Word
<1>1. /\ r.id \in DOMAIN req /\ r.off \in Nat /\ r.len \in Nat \ {0} /\ r.addr \in Addr
      /\ r.addr = (req[r.id].addr + r.off) % Word
  BY DEF Asking
<1>2. /\ Word \in Nat \ {0} /\ req[r.id].addr \in Nat
  BY <1>1, RequestFacts
<1> DEFINE A == req[r.id].addr
<1> HIDE DEF A
<1>3. A \in Nat /\ r.addr = (A + r.off) % Word
  BY <1>1, <1>2 DEF A
<1>4. \A k \in Nat : (r.addr + k) % Word = (A + (r.off + k)) % Word /\ ((r.addr + k) % Word) \in Addr
  <2> TAKE k \in Nat
  <2>1. A + r.off \in Int /\ k \in Int /\ A + (r.off + k) \in Int
        /\ (A + r.off) + k = A + (r.off + k)
    BY <1>1, <1>3
  <2>2. (((A + r.off) % Word) + k) % Word = ((A + r.off) + k) % Word
    BY <1>2, <2>1, WrapSum
  <2>3. ((A + (r.off + k)) % Word) \in Addr
    BY <1>2, <2>1, Euclid DEF Addr
  <2> QED BY <1>3, <2>1, <2>2, <2>3
<1>5. ASSUME NEW b, b \in Bytes(r)
      PROVE  b \in Addr /\ \E o \in Nat : At(r, r.id, o) /\ b = (A + o) % Word
  <2>1. PICK k \in 0..(r.len - 1) : b = (r.addr + k) % Word
    BY <1>5 DEF Bytes
  <2>2. k \in Nat /\ r.off + k \in Nat /\ At(r, r.id, r.off + k)
    BY <1>1, <2>1 DEF At
  <2> QED BY <1>4, <2>1, <2>2
<1>6. ASSUME NEW o \in Nat, At(r, r.id, o) PROVE ((A + o) % Word) \in Bytes(r)
  <2>1. o - r.off \in 0..(r.len - 1) /\ o - r.off \in Nat /\ r.off + (o - r.off) = o
    BY <1>1, <1>6 DEF At
  <2>2. (r.addr + (o - r.off)) % Word = (A + o) % Word
    BY <1>4, <2>1
  <2> QED BY <2>1, <2>2 DEF Bytes
<1>7. r.addr \in Bytes(r)
  <2>1. 0 \in 0..(r.len - 1) /\ (r.addr + 0) % Word = r.addr
    <3>1. r.addr \in 0..(Word - 1) /\ r.addr + 0 = r.addr
      BY <1>1 DEF Addr
    <3> QED BY <1>1, <1>2, <3>1, SmallDiv
  <2> QED BY <2>1 DEF Bytes
<1> QED BY <1>1, <1>5, <1>6, <1>7 DEF A

(* The two parts of a cut have the bytes of what was cut. *)
LEMMA CutBytes ==
    ASSUME InputInv, NEW c, NEW a, NEW d, c \subseteq Asking, IsCut(c, a, d)
    PROVE  /\ \A r \in a \cup d : \E t \in c : Bytes(r) \subseteq Bytes(t)
           /\ \A t \in c : \A b \in Bytes(t) : \E r \in a \cup d : b \in Bytes(r)
<1>1. ASSUME NEW r \in a \cup d PROVE \E t \in c : Bytes(r) \subseteq Bytes(t)
  <2>1. PICK t \in c : r.id = t.id /\ t.off <= r.off /\ r.off + r.len <= t.off + t.len
    BY DEF IsCut
  <2>2. r \in Asking /\ t \in Asking
    BY DEF IsCut
  <2>3. r.off \in Nat /\ r.len \in Nat /\ t.off \in Nat /\ t.len \in Nat
    BY <2>2, BytesAre
  <2>4. \A o \in Nat : At(r, r.id, o) => At(t, t.id, o)
    BY <2>1, <2>3 DEF At
  <2>5. ASSUME NEW b \in Bytes(r) PROVE b \in Bytes(t)
    <3>1. PICK o \in Nat : At(r, r.id, o) /\ b = (req[r.id].addr + o) % Word
      BY <2>2, BytesAre
    <3>2. At(t, t.id, o) /\ b = (req[t.id].addr + o) % Word
      BY <2>1, <2>4, <3>1
    <3> QED BY <2>2, <3>2, BytesAre
  <2> QED BY <2>5
<1>2. ASSUME NEW t \in c, NEW b \in Bytes(t) PROVE \E r \in a \cup d : b \in Bytes(r)
  <2>1. t \in Asking
    OBVIOUS
  <2>2. PICK o \in Nat : At(t, t.id, o) /\ b = (req[t.id].addr + o) % Word
    BY <2>1, BytesAre
  <2>3. o \in t.off..(t.off + t.len - 1)
    <3>1. t.off \in Nat /\ t.len \in Nat
      BY <2>1, BytesAre
    <3> QED BY <2>2, <3>1 DEF At
  <2>4. PICK r \in a \cup d : At(r, t.id, o)
    BY <2>3 DEF IsCut
  <2>5. r \in Asking /\ r.id = t.id /\ At(r, r.id, o)
    BY <2>4 DEF IsCut, At
  <2>6. b = (req[r.id].addr + o) % Word
    BY <2>2, <2>5
  <2>7. b \in Bytes(r)
    BY <2>5, <2>6, BytesAre
  <2> QED BY <2>7
<1> QED BY <1>1, <1>2

(* A range that does not reach the end of the address space. *)
LEMMA Straight ==
    ASSUME InputInv, NEW r \in Asking, Word - 1 \notin Bytes(r)
    PROVE  /\ r.addr + r.len <= Word - 1 /\ RangeEnd(r) = r.addr + r.len
           /\ \A b : b \in Bytes(r) <=> b \in r.addr..(r.addr + r.len - 1)
<1>1. Word \in Nat \ {0} /\ r.addr \in 0..(Word - 1) /\ r.len \in Nat \ {0}
  BY BytesAre, RequestFacts DEF Addr
<1>2. r.addr + r.len <= Word - 1
  <2> SUFFICES ASSUME r.addr + r.len > Word - 1 PROVE FALSE
    BY <1>1
  <2>1. Word - 1 - r.addr \in 0..(r.len - 1) /\ r.addr + (Word - 1 - r.addr) = Word - 1
        /\ Word - 1 \in 0..(Word - 1)
    BY <1>1
  <2>2. (Word - 1) % Word = Word - 1
    BY <1>1, <2>1, SmallDiv
  <2> QED BY <2>1, <2>2 DEF Bytes
<1>3. \A k \in 0..r.len : (r.addr + k) % Word = r.addr + k
  <2> TAKE k \in 0..r.len
  <2>1. r.addr + k \in 0..(Word - 1)
    BY <1>1, <1>2
  <2> QED BY <1>1, <2>1, SmallDiv
<1>4. RangeEnd(r) = r.addr + r.len
  <2>1. r.len \in 0..r.len
    BY <1>1
  <2> QED BY <1>3, <2>1 DEF RangeEnd
<1>5. ASSUME NEW b, b \in Bytes(r) PROVE b \in r.addr..(r.addr + r.len - 1)
  <2>1. PICK k \in 0..(r.len - 1) : b = (r.addr + k) % Word
    BY <1>5 DEF Bytes
  <2>2. k \in 0..r.len /\ r.addr + k \in r.addr..(r.addr + r.len - 1)
    BY <1>1
  <2> QED BY <1>3, <2>1, <2>2
<1>6. ASSUME NEW b, b \in r.addr..(r.addr + r.len - 1) PROVE b \in Bytes(r)
  <2>1. b - r.addr \in 0..(r.len - 1) /\ b - r.addr \in 0..r.len /\ r.addr + (b - r.addr) = b
    BY <1>1, <1>6
  <2>2. (r.addr + (b - r.addr)) % Word = b
    BY <1>3, <2>1
  <2> QED BY <2>1, <2>2 DEF Bytes
<1> QED BY <1>2, <1>4, <1>5, <1>6

----------------------------------------------------------------------------
(* The ranges that the filter took, where they are now *)

Live == InWork \cup (Answered \ rejected)

(* What a step keeps of the request and of the tables. *)
SideInv ==
    /\ held \in [DOMAIN mem -> SUBSET Entry] /\ \A t \in DOMAIN mem : mem[t] \in held[t]
    /\ rejected \subseteq out_fail
    /\ pc = "filter" => /\ out = {} /\ out_fail = rejected /\ step = 0
                        /\ work[1].pt_addr = dtb

LEMMA LiveFacts ==
    ASSUME WalkInv, rejected \subseteq out_fail
    PROVE  /\ Live \subseteq Asking /\ Live = (InWork \cup Answered) \ rejected
           /\ InWork \cap Answered = {} /\ InWork \subseteq Live
           /\ TranslatedRanges \subseteq Live /\ out_fail \ rejected \subseteq Live
           /\ \A k \in DOMAIN work : work[k].vec \subseteq InWork
           /\ rest # <<>> => rest[1].v.vec \subseteq InWork
           /\ Walked = UNION {Bytes(r) : r \in Live}
<1>1. InWork \cap Answered = {} /\ TranslatedRanges \cap out_fail = {}
  BY InvWork DEF AnsweredOnce
<1>2. InWork \subseteq Asking
  <2>1. \A k \in DOMAIN work : work[k].vec \subseteq Asking
    BY WorkFacts DEF ChunkRec
  <2>2. \A k \in DOMAIN rest : rest[k].v.vec \subseteq Asking
    <3>1. rest # <<>> => DOMAIN rest = {1} /\ rest[1].v.vec \subseteq Asking
      BY WorkFacts DEF ChunkRec
    <3> QED BY <3>1
  <2> QED BY <2>1, <2>2 DEF InWork
<1>3. Answered \subseteq Asking
  <2> DEFINE f == places
  <2>1. f[-1] = TranslatedRanges /\ f[-2] = out_fail /\ DOMAIN f = (-3)..Len(work)
        /\ Len(work) \in Nat
    <3>1. Len(work) \in Nat
      BY WorkFacts
    <3> HIDE DEF f
    <3>2. f = PlaceMap(work, BeingCut, TranslatedRanges, out_fail, lost)
      BY DEF f, places
    <3> QED BY <3>1, <3>2, PlaceValues
  <2>2. \A p \in DOMAIN f : f[p] \subseteq Asking
    BY DEF WalkInv, Placed
  <2> HIDE DEF f
  <2>3. -1 \in DOMAIN f /\ -2 \in DOMAIN f
    BY <2>1
  <2> QED BY <2>1, <2>2, <2>3 DEF Answered
<1>4. Walked = UNION {Bytes(r) : r \in Live}
  BY DEF Walked, Live
<1>5. rest # <<>> => 1 \in DOMAIN rest
  BY WorkFacts
<1> QED BY <1>1, <1>2, <1>3, <1>4, <1>5 DEF Live, Answered, InWork

----------------------------------------------------------------------------
(* Where the chunks of a level stand *)

(* The pages that the chunks of a level were cut along. *)
Outer(s) == IF s = 0 THEN Word ELSE page_size_step(s)

(* V lies on page p of size z, and no other range has a part of it. *)
Whole(V, p, z) ==
    /\ \A r \in V : \A b \in Bytes(r) : b \div z = p
    /\ \A r \in Live : \A b \in Bytes(r) : b \div z = p => r \in V

(* V lies on page p of size y, and from its own first page of size z on no *)
(* other range has a part of it.                                           *)
Remains(V, p, y, z) ==
    /\ \A r \in V : \A b \in Bytes(r) : b \div y = p
    /\ \A r \in Live : \A b \in Bytes(r) :
          b \div y = p /\ b \div z >= MinAddr(V) \div z => r \in V

(* Every byte of V comes to the entry e. *)
Comes(V, e, s) == \A r \in V : \A b \in Bytes(r) : e \in Reach(b)[s]

Standing == Nat \X (SUBSET Asking) \X (0..Last)

(* Chunks whose pt_addr is the entry of all their bytes.                   *)
AtEntry ==
    {c \in Standing :
        \E e, p, z \in Nat :
            /\ z = Outer(c[3]) /\ EntryIn(c[1], e)
            /\ Whole(c[2], p, z) /\ Comes(c[2], e, c[3])}

(* Chunks whose pt_addr is the address of the next entry of all of them.   *)
AtSlot ==
    {c \in Standing :
        \E e, p, z \in Nat :
            /\ c[3] # Last /\ z = page_size_step(c[3] + 1) /\ IsTable(e, c[3])
            /\ Whole(c[2], p, z) /\ Comes(c[2], e, c[3])
            /\ \A r \in c[2] : \A b \in Bytes(r) :
                  c[1] = SlotOf(b, c[3], e) * pow2[arch.pte_bits]}

(* What is left of a chunk that is being cut: all that lies on its page    *)
(* and does not lie before it.                                             *)
AtCut ==
    {c \in Standing :
        \E e, p, y, z \in Nat :
            /\ c[3] # Last /\ z = page_size_step(c[3] + 1) /\ y = Outer(c[3])
            /\ EntryIn(c[1], e) /\ IsTable(e, c[3]) /\ Comes(c[2], e, c[3])
            /\ Remains(c[2], p, y, z)}

----------------------------------------------------------------------------
(* The pages of bytes, and the failures of them *)

OnPages(o) == \A b \in Bytes(o.range) : [o.page EXCEPT !.paddr = @ + (b - o.range.addr)] \in Pages(b)

Copied(b) ==
    \E x \in Entries(b) :
        \/ TableAt(x.entry, x.step) = TableAt(x.slot * pow2[arch.pte_bits], x.step)
        \/ \E c \in Walked : \E y \in Entries(c) :
              y.step = x.step /\ y.page # x.page /\ y.entry = x.entry

(* The entries that the level has followed. *)
Followed == addr_map \cup ({prev_addr} \ {None})

FullVecs == {} \notin Vecs

CheckRight ==
    pc \in {"check", "read"} =>
        \A k \in DOMAIN work :
            /\ k <= i => <<work[k].pt_addr, work[k].vec, step>> \in AtEntry
            /\ k > i  => <<work[k].pt_addr, work[k].vec, step>> \in AtSlot

RestRight ==
    rest # <<>> =>
        /\ <<rest[1].v.pt_addr, rest[1].v.vec, step>> \in AtCut
        /\ rest[1].cur_address % page_size_step(step + 1) = rest[1].v.min % page_size_step(step + 1)

CompareRight ==
    pc = "compare" =>
        /\ \A k \in DOMAIN work :
              /\ k <= i => /\ <<work[k].pt_addr, work[k].vec, step>> \in AtSlot
                           /\ Slot(work[k].pt_addr) \in DOMAIN held
                           /\ \E e \in held[Slot(work[k].pt_addr)] : EntryIn(pt_read[k], e)
              /\ k > i => <<work[k].pt_addr, work[k].vec, step + 1>> \in AtEntry
        /\ \A x \in Followed : \E k \in DOMAIN work : k > i /\ work[k].pt_addr = x

LevelRight == FullVecs /\ CheckRight /\ RestRight /\ CompareRight

AnswersRight ==
    /\ Aligned => \A o \in out : OnPages(o)
    /\ \A r \in out_fail \ (rejected \cup unread) : \A b \in Bytes(r) : Unmapped(b) \/ Copied(b)

RightInv ==
    pc \notin {"filter", "panic"} /\ NoGaps /\ Walked # {} => LevelRight /\ AnswersRight

----------------------------------------------------------------------------
(* Steps that only add values of entries and only cut ranges *)

LEMMA MorePrimes ==
    ASSUME InputInv, UNCHANGED input
    PROVE  /\ \A r : Bytes(r)' = Bytes(r)
           /\ \A s : Outer(s)' = Outer(s)
           /\ Asking' = Asking /\ Standing' = Standing /\ Entry' = Entry
           /\ \A V : MinAddr(V)' = MinAddr(V)
           /\ arch' = arch /\ dtb' = dtb /\ req' = req /\ Word' = Word /\ Last' = Last
<1>1. arch' = arch /\ dtb' = dtb /\ req' = req
  BY DEF input
<1>2. /\ Word' = Word /\ Last' = Last
      /\ \A s : page_size_step(s)' = page_size_step(s)
  BY <1>1, EntryPrimes
<1>3. \A r : Bytes(r)' = Bytes(r)
  BY <1>2 DEF Bytes
<1>4. \A s : Outer(s)' = Outer(s)
  BY <1>2 DEF Outer
<1>5. Asking' = Asking
  BY <1>1, <1>2 DEF Asking, Addr
<1>6. \A V : MinAddr(V)' = MinAddr(V)
  BY <1>2 DEF MinAddr
<1>7. Entry' = Entry
  BY <1>1 DEF Entry
<1> QED BY <1>1, <1>2, <1>3, <1>4, <1>5, <1>6, <1>7 DEF Standing

Narrows(C) ==
    /\ UNCHANGED input /\ Grows
    /\ C \subseteq Live /\ \A r \in Live' : r \in Live \/ \E t \in C : Bytes(r) \subseteq Bytes(t)

LEMMA WholeStays ==
    ASSUME InputInv, NEW C, Narrows(C), NEW V, V \cap C = {}, NEW p, NEW z, Whole(V, p, z)
    PROVE  Whole(V, p, z)'
<1>1. \A r : Bytes(r)' = Bytes(r)
  BY MorePrimes DEF Narrows
<1>2. \A r \in V : \A b \in Bytes(r) : b \div z = p
  BY DEF Whole
<1>3. ASSUME NEW r \in Live', NEW b \in Bytes(r), b \div z = p PROVE r \in V
  <2>1. CASE r \in Live
    BY <1>3, <2>1 DEF Whole
  <2>2. ASSUME NEW t \in C, Bytes(r) \subseteq Bytes(t) PROVE FALSE
    <3>1. t \in Live /\ b \in Bytes(t)
      BY <2>2 DEF Narrows
    <3>2. t \in V
      BY <1>3, <3>1 DEF Whole
    <3> QED BY <3>2
  <2> QED BY <2>1, <2>2 DEF Narrows
<1> QED BY <1>1, <1>2, <1>3 DEF Whole

LEMMA ComesStays ==
    ASSUME InputInv, NEW C, Narrows(C), NEW V, NEW e, NEW s \in 0..Last, Comes(V, e, s)
    PROVE  Comes(V, e, s)'
<1>1. \A r : Bytes(r)' = Bytes(r)
  BY MorePrimes DEF Narrows
<1>2. \A b : \A k \in 0..Last : Reach(b)[k] \subseteq Reach(b)'[k]
  BY ReachGrows DEF Narrows, InputInv, input
<1> QED BY <1>1, <1>2 DEF Comes

LEMMA EntryStays ==
    ASSUME InputInv, NEW C, Narrows(C), NEW c, c[2] \cap C = {}, c \in AtEntry
    PROVE  c \in AtEntry'
<1>1. c \in Standing
  BY DEF AtEntry
<1>2. PICK e \in Nat, p \in Nat, z \in Nat :
         /\ z = Outer(c[3]) /\ EntryIn(c[1], e)
         /\ Whole(c[2], p, z) /\ Comes(c[2], e, c[3])
  BY DEF AtEntry
<1>3. c[3] \in 0..Last
  BY <1>1 DEF Standing
<1>4. Whole(c[2], p, z)' /\ Comes(c[2], e, c[3])'
  BY <1>2, <1>3, WholeStays, ComesStays
<1>5. c \in Standing' /\ z = Outer(c[3])' /\ EntryIn(c[1], e)'
  BY <1>1, <1>2, MorePrimes, EntryPrimes DEF Narrows
<1> QED BY <1>4, <1>5 DEF AtEntry

LEMMA SlotStays ==
    ASSUME InputInv, NEW C, Narrows(C), NEW c, c[2] \cap C = {}, c \in AtSlot
    PROVE  c \in AtSlot'
<1>1. c \in Standing
  BY DEF AtSlot
<1>2. PICK e \in Nat, p \in Nat, z \in Nat :
            /\ c[3] # Last /\ z = page_size_step(c[3] + 1) /\ IsTable(e, c[3])
            /\ Whole(c[2], p, z) /\ Comes(c[2], e, c[3])
            /\ \A r \in c[2] : \A b \in Bytes(r) :
                  c[1] = SlotOf(b, c[3], e) * pow2[arch.pte_bits]
  BY DEF AtSlot
<1>3. c[3] \in 0..Last
  BY <1>1 DEF Standing
<1>4. Whole(c[2], p, z)' /\ Comes(c[2], e, c[3])'
  BY <1>2, <1>3, WholeStays, ComesStays
<1>5. c \in Standing' /\ arch' = arch /\ \A r : Bytes(r)' = Bytes(r)
  BY <1>1, <1>2, MorePrimes DEF Narrows
<1>6. /\ Last' = Last /\ page_size_step(c[3] + 1)' = page_size_step(c[3] + 1)
      /\ IsTable(e, c[3])' = IsTable(e, c[3])
      /\ \A b : SlotOf(b, c[3], e)' = SlotOf(b, c[3], e)
  BY <1>5, EntryPrimes
<1>7. \A r \in c[2] : \A b \in Bytes(r)' :
         c[1] = SlotOf(b, c[3], e)' * pow2[arch'.pte_bits]
  BY <1>2, <1>5, <1>6
<1> QED BY <1>2, <1>4, <1>5, <1>6, <1>7 DEF AtSlot

LEMMA CutStays ==
    ASSUME InputInv, NEW C, Narrows(C), Live' = Live, NEW c, c \in AtCut
    PROVE  c \in AtCut'
<1>1. c \in Standing
  BY DEF AtCut
<1>2. PICK e \in Nat, p \in Nat, y \in Nat, z \in Nat :
            /\ c[3] # Last /\ z = page_size_step(c[3] + 1) /\ y = Outer(c[3])
            /\ EntryIn(c[1], e) /\ IsTable(e, c[3]) /\ Comes(c[2], e, c[3])
            /\ Remains(c[2], p, y, z)
  BY DEF AtCut
<1>3. c[3] \in 0..Last
  BY <1>1 DEF Standing
<1>4. Comes(c[2], e, c[3])'
  BY <1>2, <1>3, ComesStays
<1>5. c \in Standing' /\ arch' = arch /\ Outer(c[3])' = Outer(c[3])
      /\ (\A r : Bytes(r)' = Bytes(r)) /\ (\A V : MinAddr(V)' = MinAddr(V))
  BY <1>1, MorePrimes DEF Narrows
<1>6. /\ Last' = Last /\ page_size_step(c[3] + 1)' = page_size_step(c[3] + 1)
      /\ IsTable(e, c[3])' = IsTable(e, c[3]) /\ EntryIn(c[1], e)' = EntryIn(c[1], e)
  BY <1>5, EntryPrimes
<1>7. Remains(c[2], p, y, z)'
  BY <1>2, <1>5 DEF Remains
<1> QED BY <1>2, <1>4, <1>5, <1>6, <1>7 DEF AtCut

----------------------------------------------------------------------------
(* What is known of an answer stays true *)

PagesAre ==
    \A a, y : y \in Pages(a) <=>
                 \E s \in 0..Last : \E e \in Reach(a)[s] : IsPage(e, s) /\ y = PageOf(a, s, e)

LEMMA PagesLaw == PagesAre
BY DEF PagesAre, Pages

EntriesAre ==
    \A a, y : y \in Entries(a) <=>
                 \E s \in 0..(Last - 1) : \E e \in Reach(a)[s] :
                    /\ IsTable(e, s) /\ SlotOf(a, s, e) \in DOMAIN held
                    /\ \E x \in held[SlotOf(a, s, e)] :
                          y = [step |-> s, slot |-> SlotOf(a, s, e),
                               page |-> a \div page_size_step(s + 1), entry |-> x]

LEMMA EntriesLaw == EntriesAre
<1> SUFFICES ASSUME NEW a, NEW y
             PROVE  y \in Entries(a) <=>
                 \E s \in 0..(Last - 1) : \E e \in Reach(a)[s] :
                    /\ IsTable(e, s) /\ SlotOf(a, s, e) \in DOMAIN held
                    /\ \E x \in held[SlotOf(a, s, e)] :
                          y = [step |-> s, slot |-> SlotOf(a, s, e),
                               page |-> a \div page_size_step(s + 1), entry |-> x]
  BY DEF EntriesAre
<1> DEFINE rec(s, e, x) == [step |-> s, slot |-> SlotOf(a, s, e),
                            page |-> a \div page_size_step(s + 1), entry |-> x]
           reads(s, e) == IF SlotOf(a, s, e) \in DOMAIN held
                          THEN {rec(s, e, x) : x \in held[SlotOf(a, s, e)]} ELSE {}
           steps(s) == UNION {reads(s, e) : e \in {x \in Reach(a)[s] : IsTable(x, s)}}
<1>1. Entries(a) = UNION {steps(s) : s \in 0..(Last - 1)}
  BY DEF Entries
<1> HIDE DEF rec
<1>2. \A s, e : y \in reads(s, e) <=> /\ SlotOf(a, s, e) \in DOMAIN held
                                      /\ \E x \in held[SlotOf(a, s, e)] : y = rec(s, e, x)
  OBVIOUS
<1> HIDE DEF reads
<1>3. \A s : y \in steps(s) <=> \E e \in Reach(a)[s] : IsTable(e, s) /\ y \in reads(s, e)
  OBVIOUS
<1> HIDE DEF steps
<1>4. y \in Entries(a) <=> \E s \in 0..(Last - 1) : y \in steps(s)
  BY <1>1
<1> QED BY <1>2, <1>3, <1>4 DEF rec

LEMMA AnswersStay ==
    ASSUME InputInv, UNCHANGED input, Grows, Walked \subseteq Walked'
    PROVE  /\ Aligned' => Aligned
           /\ \A o : OnPages(o) => OnPages(o)'
           /\ \A b : Unmapped(b) => Unmapped(b)'
           /\ \A b : Copied(b) => Copied(b)'
<1>1. arch' = arch /\ dtb' = dtb /\ WellFormed(arch)
  BY DEF input, InputInv
<1>2. /\ Last' = Last /\ \A s : page_size_step(s)' = page_size_step(s)
      /\ \A e, s : IsTable(e, s)' = IsTable(e, s) /\ IsPage(e, s)' = IsPage(e, s)
                   /\ Present(e, s)' = Present(e, s) /\ Large(e, s)' = Large(e, s)
      /\ \A e, s : TableAt(e, s)' = TableAt(e, s) /\ pte_addr_mask(e, s)' = pte_addr_mask(e, s)
      /\ \A b, s, e : SlotOf(b, s, e)' = SlotOf(b, s, e) /\ PageOf(b, s, e)' = PageOf(b, s, e)
  BY <1>1, EntryPrimes
<1>3. \A b : \A s \in 0..Last : Reach(b)[s] \subseteq Reach(b)'[s]
  BY <1>1, ReachGrows
<1>4. \A r : Bytes(r)' = Bytes(r)
  BY MorePrimes
<1>5. Last \in Nat /\ \A s \in 0..(Last - 1) : s \in 0..Last
  BY <1>1, ArchFacts
<1>6. ASSUME Aligned' PROVE Aligned
  <2> SUFFICES ASSUME NEW t \in DOMAIN held, NEW e \in held[t], NEW s \in 1..(Last - 1), Large(e, s)
               PROVE  pte_addr_mask(e, s) % page_size_step(s) = 0
    BY DEF Aligned
  <2>1. t \in DOMAIN held' /\ e \in held'[t] /\ s \in 1..(Last' - 1) /\ Large(e, s)'
    BY <1>2 DEF Grows
  <2>2. pte_addr_mask(e, s)' % page_size_step(s)' = 0
    BY <1>6, <2>1 DEF Aligned
  <2> QED BY <1>2, <2>2
<1>7. \A a : Pages(a) \subseteq Pages(a)'
  <2> SUFFICES ASSUME NEW a, NEW y \in Pages(a) PROVE y \in Pages(a)'
    OBVIOUS
  <2>1. PICK s \in 0..Last : \E e \in Reach(a)[s] : IsPage(e, s) /\ y = PageOf(a, s, e)
    BY PagesLaw DEF PagesAre
  <2>2. s \in 0..Last' /\ \E e \in Reach(a)'[s] : IsPage(e, s)' /\ y = PageOf(a, s, e)'
    BY <1>2, <1>3, <2>1
  <2>3. PagesAre'
    BY PagesLaw, PTL
  <2> QED BY <2>2, <2>3 DEF PagesAre
<1>8. \A o : OnPages(o) => OnPages(o)'
  BY <1>4, <1>7 DEF OnPages
<1>9. \A b : Unmapped(b) => Unmapped(b)'
  BY <1>2, <1>3 DEF Unmapped
<1>10. \A a : Entries(a) \subseteq Entries(a)'
  <2> SUFFICES ASSUME NEW a, NEW y \in Entries(a) PROVE y \in Entries(a)'
    OBVIOUS
  <2> DEFINE rec(s, e, x) == [step |-> s, slot |-> SlotOf(a, s, e),
                              page |-> a \div page_size_step(s + 1), entry |-> x]
  <2>0. PICK s \in 0..(Last - 1) : \E e \in Reach(a)[s] :
           /\ IsTable(e, s) /\ SlotOf(a, s, e) \in DOMAIN held
           /\ \E x \in held[SlotOf(a, s, e)] : y = rec(s, e, x)
    BY EntriesLaw DEF EntriesAre
  <2>1. PICK e \in Reach(a)[s] :
           /\ IsTable(e, s) /\ SlotOf(a, s, e) \in DOMAIN held
           /\ \E x \in held[SlotOf(a, s, e)] : y = rec(s, e, x)
    BY <2>0
  <2>2. PICK x \in held[SlotOf(a, s, e)] : y = rec(s, e, x)
    BY <2>1
  <2>3. /\ s \in 0..(Last' - 1) /\ e \in Reach(a)'[s] /\ IsTable(e, s)'
        /\ SlotOf(a, s, e)' \in DOMAIN held' /\ x \in held'[SlotOf(a, s, e)']
        /\ y = [step |-> s, slot |-> SlotOf(a, s, e)',
                page |-> a \div page_size_step(s + 1)', entry |-> x]
    BY <1>2, <1>3, <1>5, <2>1, <2>2 DEF Grows
  <2>4. EntriesAre'
    BY EntriesLaw, PTL
  <2> QED BY <2>3, <2>4 DEF EntriesAre
<1>11. ASSUME NEW b, Copied(b) PROVE Copied(b)'
  <2>1. PICK x \in Entries(b) :
        \/ TableAt(x.entry, x.step) = TableAt(x.slot * pow2[arch.pte_bits], x.step)
        \/ \E c \in Walked : \E y \in Entries(c) :
              y.step = x.step /\ y.page # x.page /\ y.entry = x.entry
    BY <1>11 DEF Copied
  <2>2. x \in Entries(b)'
    BY <1>10
  <2>3. CASE TableAt(x.entry, x.step) = TableAt(x.slot * pow2[arch.pte_bits], x.step)
    <3>1. \A e, s : TableAt(e, s)' = TableAt(e, s)
      BY <1>2
    <3>2. (TableAt(x.entry, x.step) = TableAt(x.slot * pow2[arch.pte_bits], x.step))'
      BY <1>1, <2>3, <3>1 DEF TableAt, split, page_size_step, Last, split_count
    <3> QED BY <2>2, <3>2 DEF Copied
  <2>4. CASE \E c \in Walked : \E y \in Entries(c) :
              y.step = x.step /\ y.page # x.page /\ y.entry = x.entry
    <3>1. PICK c \in Walked : \E y \in Entries(c) :
              y.step = x.step /\ y.page # x.page /\ y.entry = x.entry
      BY <2>4
    <3>2. c \in Walked' /\ \E y \in Entries(c)' :
              y.step = x.step /\ y.page # x.page /\ y.entry = x.entry
      BY <1>10, <3>1
    <3> QED BY <2>2, <3>2 DEF Copied
  <2> QED BY <2>1, <2>3, <2>4
<1> QED BY <1>6, <1>8, <1>9, <1>11

----------------------------------------------------------------------------
(* Steps that move whole ranges *)

LiveIs ==
    WalkInv /\ rejected \subseteq out_fail =>
        Live = (InWork \cup Answered) \ rejected

LEMMA LiveLaw == LiveIs
BY LiveFacts DEF LiveIs

BothInv == WalkInv /\ SideInv

LEMMA SameLive ==
    ASSUME BothInv, BothInv', rejected' = rejected,
           InWork' \cup Answered' = InWork \cup Answered
    PROVE  Live' = Live
<1>1. LiveIs /\ LiveIs'
  BY LiveLaw, PTL
<1>2. (WalkInv /\ rejected \subseteq out_fail) /\ (WalkInv /\ rejected \subseteq out_fail)'
  BY DEF BothInv, SideInv
<1> QED BY <1>1, <1>2 DEF LiveIs

Steady == UNCHANGED input /\ Grows /\ Live' = Live

LEMMA Ready ==
    ASSUME InputInv, RightInv, Steady, pc \notin {"filter", "panic"}, NoGaps', Walked' # {}
    PROVE  /\ LevelRight /\ AnswersRight /\ Narrows({})
           /\ Walked' = Walked /\ NoGaps /\ Walked # {}
<1>1. \A r : Bytes(r)' = Bytes(r)
  BY MorePrimes DEF Steady
<1>2. Walked' = Walked
  BY <1>1 DEF Walked, Live, Steady
<1>3. NoGaps
  <2>1. Last' = Last /\ Word' = Word /\ \A s : page_size_step(s)' = page_size_step(s)
    BY EntryPrimes DEF Steady, input
  <2> QED BY <1>2, <2>1 DEF NoGaps
<1>4. Narrows({})
  BY DEF Narrows, Steady
<1> QED BY <1>2, <1>3, <1>4 DEF RightInv

LEMMA InitSide == ASSUME Init PROVE SideInv
<1>1. InputInv
  BY InitInput
<1>2. /\ held = [t \in DOMAIN mem |-> {mem[t]}] /\ rejected = {} /\ out_fail = {} /\ out = {}
      /\ step = 0 /\ work = <<[pt_addr |-> dtb, vec |-> {}, min |-> Word - 1, max |-> 0]>>
  BY DEF Init
<1>3. \A t \in DOMAIN mem : mem[t] \in Entry
  BY <1>1 DEF InputInv
<1>4. work[1].pt_addr = dtb
  BY <1>2
<1> QED BY <1>2, <1>3, <1>4 DEF SideInv

(* What every step keeps of the tables and of the rejected ranges.         *)
LEMMA StepFrame ==
    ASSUME BothInv, [Next]_vars
    PROVE  /\ UNCHANGED input /\ Grows
           /\ (held \in [DOMAIN mem -> SUBSET Entry])'
           /\ (\A t \in DOMAIN mem : mem[t] \in held[t])'
           /\ pc # "filter" => rejected' = rejected /\ out_fail \subseteq out_fail' /\ pc' # "filter"
<1>1. /\ InputInv /\ held \in [DOMAIN mem -> SUBSET Entry] /\ \A t \in DOMAIN mem : mem[t] \in held[t]
  BY DEF BothInv, WalkInv, SideInv
<1>2. UNCHANGED input
  BY DEF Next, Walk, vars, input, Filter, FilterPanic, StartWalk, NotPresent, Translated,
         Descend, NextPart, EndLevel, ReadEntries, ReadError, Follow, Reject, NextLevel,
         GuestWrite, Unchecked, Uncompared
<1>3. Entry' = Entry
  BY <1>1, <1>2, MorePrimes
<1>4. ASSUME mem' = mem /\ held' = held
      PROVE  /\ Grows /\ (held \in [DOMAIN mem -> SUBSET Entry])'
             /\ (\A t \in DOMAIN mem : mem[t] \in held[t])'
  BY <1>1, <1>3, <1>4 DEF Grows
<1>5. ASSUME GuestWrite
      PROVE  /\ Grows /\ (held \in [DOMAIN mem -> SUBSET Entry])'
             /\ (\A t \in DOMAIN mem : mem[t] \in held[t])'
  <2>1. PICK w \in GuestWrites :
          /\ w[1] \in DOMAIN mem
          /\ mem' = [mem EXCEPT ![w[1]] = w[2]]
          /\ held' = [held EXCEPT ![w[1]] = @ \cup {w[2]}]
    BY <1>5 DEF GuestWrite
  <2>2. w[2] \in Entry
    BY <1>1 DEF InputInv
  <2>3. DOMAIN mem' = DOMAIN mem /\ DOMAIN held' = DOMAIN held /\ DOMAIN held = DOMAIN mem
    BY <1>1, <2>1
  <2>4. \A t \in DOMAIN mem : /\ held[t] \subseteq held'[t] /\ held'[t] \subseteq Entry
                              /\ mem'[t] \in held'[t]
    BY <1>1, <2>1, <2>2
  <2>5. held' \in [DOMAIN mem' -> SUBSET Entry']
    <3>1. held' = [t \in DOMAIN mem |-> held'[t]]
      BY <1>1, <2>1
    <3> QED BY <1>3, <2>3, <2>4, <3>1
  <2> QED BY <2>3, <2>4, <2>5 DEF Grows
<1>6. (mem' = mem /\ held' = held) \/ GuestWrite
  BY DEF Next, Walk, vars, history, Filter, FilterPanic, StartWalk, NotPresent, Translated,
         Descend, NextPart, EndLevel, ReadEntries, ReadError, Follow, Reject, NextLevel,
         Unchecked, Uncompared
<1>7. pc # "filter" => rejected' = rejected /\ out_fail \subseteq out_fail' /\ pc' # "filter"
  BY DEF Next, Walk, vars, history, results, Filter, FilterPanic, StartWalk, NotPresent, Translated,
         Descend, NextPart, EndLevel, ReadEntries, ReadError, Follow, Reject, NextLevel,
         Unchecked, Uncompared, Checking, Comparing, GuestWrite
<1>8. /\ Grows /\ (held \in [DOMAIN mem -> SUBSET Entry])'
      /\ (\A t \in DOMAIN mem : mem[t] \in held[t])'
  BY <1>4, <1>5, <1>6
<1> QED BY <1>2, <1>7, <1>8

LEMMA SideStep == ASSUME BothInv, [Next]_vars PROVE SideInv'
<1>1. /\ (held \in [DOMAIN mem -> SUBSET Entry])' /\ (\A t \in DOMAIN mem : mem[t] \in held[t])'
      /\ UNCHANGED input
  BY StepFrame
<1>2. CASE pc # "filter"
  <2>1. rejected' = rejected /\ out_fail \subseteq out_fail' /\ pc' # "filter"
    BY <1>2, StepFrame
  <2> QED BY <1>1, <2>1 DEF SideInv, BothInv
<1>3. CASE pc = "filter"
  <2>1. Filter \/ FilterPanic \/ StartWalk \/ UNCHANGED vars
    BY <1>3 DEF Next, Walk, NotPresent, Translated, Descend, NextPart, EndLevel, ReadEntries,
                ReadError, Follow, Reject, NextLevel, GuestWrite, Checking, Comparing
  <2>2. out = {} /\ out_fail = rejected /\ step = 0 /\ work[1].pt_addr = dtb
    BY <1>3 DEF BothInv, SideInv
  <2>3. CASE Filter
    <3>1. out_fail' = rejected' /\ step' = step /\ out' = out
      BY <2>2, <2>3 DEF Filter
    <3>2. \E V : Fill(V)
      BY <2>3 DEF Filter
    <3>3. work'[1].pt_addr = dtb /\ dtb' = dtb
      BY <1>1, <3>2 DEF Fill, Chunk, input
    <3> QED BY <1>1, <2>2, <3>1, <3>3 DEF SideInv
  <2>4. CASE ~Filter
    <3>1. /\ out' = out /\ out_fail' = out_fail /\ rejected' = rejected /\ step' = step
          /\ work' = work /\ dtb' = dtb
      BY <2>1, <2>4 DEF vars, results, history, FilterPanic, StartWalk, input
    <3> QED BY <1>1, <2>2, <3>1 DEF SideInv
  <2> QED BY <2>3, <2>4
<1> QED BY <1>2, <1>3

LEMMA BothStep == ASSUME BothInv, [Next]_vars PROVE BothInv'
BY WalkStep, SideStep DEF BothInv

----------------------------------------------------------------------------
(* A chunk leaves the list *)

LEMMA SwapIs ==
    ASSUME WalkInv, NEW k \in 1..Len(work)
    PROVE  LET w == swap_remove(work, k) IN
           /\ DOMAIN w = 1..(Len(work) - 1)
           /\ \A j \in DOMAIN w : \E m \in DOMAIN work :
                 w[j] = work[m] /\ m # k /\ (j < k => m = j) /\ (j >= k => m > k)
           /\ \A m \in DOMAIN work : m # k => \E j \in DOMAIN w :
                 w[j] = work[m] /\ (m > k => j >= k)
<1> DEFINE n == Len(work)
           w == swap_remove(work, k)
<1>1. n \in Nat /\ DOMAIN work = 1..n /\ work \in Seq(ChunkRec)
  BY WorkFacts DEF WalkInv, WorkTypes
<1>2. /\ w \in Seq(ChunkRec) /\ Len(w) = n - 1
      /\ \A j \in 1..(n - 1) : w[j] = IF j = k THEN work[n] ELSE work[j]
  BY <1>1, SwapFacts
<1> HIDE DEF w
<1>3. DOMAIN w = 1..(n - 1)
  BY <1>2
<1> HIDE DEF n
<1>4. k \in 1..n
  BY DEF n
<1>5. ASSUME NEW j \in DOMAIN w
      PROVE  \E m \in DOMAIN work : w[j] = work[m] /\ m # k /\ (j < k => m = j) /\ (j >= k => m > k)
  <2>1. j \in 1..(n - 1) /\ j \in 1..n /\ n \in 1..n
    BY <1>1, <1>3
  <2>2. CASE j = k
    <3>1. w[j] = work[n] /\ n # k /\ n > k
      BY <1>2, <2>1, <2>2
    <3> QED BY <1>1, <2>1, <2>2, <3>1
  <2>3. CASE j # k
    <3>1. w[j] = work[j] /\ (j >= k => j > k)
      BY <1>2, <1>4, <2>1, <2>3
    <3> QED BY <1>1, <2>1, <2>3, <3>1
  <2> QED BY <2>2, <2>3
<1>6. ASSUME NEW m \in DOMAIN work, m # k
      PROVE  \E j \in DOMAIN w : w[j] = work[m] /\ (m > k => j >= k)
  <2>1. CASE m = n
    <3>1. k \in 1..(n - 1)
      BY <1>1, <1>4, <1>6, <2>1
    <3>2. w[k] = work[m] /\ k >= k
      BY <1>2, <1>4, <2>1, <3>1
    <3> QED BY <1>3, <3>1, <3>2
  <2>2. CASE m # n
    <3>1. m \in 1..(n - 1)
      BY <1>1, <2>2
    <3>2. w[m] = work[m] /\ (m > k => m >= k)
      BY <1>2, <1>4, <1>6, <3>1
    <3> QED BY <1>3, <3>1, <3>2
  <2> QED BY <2>1, <2>2
<1> QED BY <1>3, <1>5, <1>6 DEF w, n

(* The step removes chunk i. *)
Removes ==
    /\ i \in 1..Len(work) /\ rest = <<>> /\ pc \in {"check", "compare"}
    /\ pc' = pc /\ step' = step /\ i' = i - 1 /\ work' = swap_remove(work, i)
    /\ UNCHANGED <<input, mem, pt_read, addr_map, prev_addr, rejected, unread, held>>

LEMMA RemovedVecs ==
    ASSUME WalkInv, Removes
    PROVE  /\ Vecs' = {work'[j].vec : j \in DOMAIN work'} \cup {rest'[k].v.vec : k \in DOMAIN rest'}
           /\ Vecs = {work[j].vec : j \in DOMAIN work}
           /\ Vecs = {work'[j].vec : j \in DOMAIN work'} \cup {work[i].vec}
           /\ work[i].vec \subseteq InWork
<1>1. DOMAIN rest = {}
  BY DEF Removes
<1>2. Vecs = {work[j].vec : j \in DOMAIN work}
  BY <1>1 DEF Vecs
<1>3. i \in DOMAIN work
  BY WorkFacts DEF Removes
<1> DEFINE w == swap_remove(work, i)
<1>4. /\ \A j \in DOMAIN w : \E m \in DOMAIN work : w[j] = work[m]
      /\ \A m \in DOMAIN work : m # i => \E j \in DOMAIN w : w[j] = work[m]
  BY SwapIs DEF Removes
<1>5. work' = w
  BY DEF Removes
<1> HIDE DEF w
<1>6. {work[j].vec : j \in DOMAIN work} = {w[j].vec : j \in DOMAIN w} \cup {work[i].vec}
  <2>1. ASSUME NEW j \in DOMAIN w PROVE \E m \in DOMAIN work : w[j].vec = work[m].vec
    BY <1>4
  <2>2. ASSUME NEW m \in DOMAIN work, m # i PROVE \E j \in DOMAIN w : w[j].vec = work[m].vec
    BY <1>4, <2>2
  <2> QED BY <1>3, <2>1, <2>2
<1>7. work[i].vec \subseteq InWork
  BY <1>3 DEF InWork
<1> QED BY <1>2, <1>5, <1>6, <1>7 DEF Vecs

(* The rest of the level is as right as it was. *)
LEMMA RemovedRight ==
    ASSUME BothInv, RightInv, Steady, Removes, NoGaps', Walked' # {}
    PROVE  /\ CheckRight' /\ {} \notin {work'[j].vec : j \in DOMAIN work'} /\ work[i].vec # {}
           /\ pc = "compare" =>
                 \A k \in DOMAIN work' :
                    /\ k <= i' => /\ <<work'[k].pt_addr, work'[k].vec, step'>> \in AtSlot'
                                  /\ Slot(work'[k].pt_addr) \in DOMAIN held'
                                  /\ \E e \in held'[Slot(work'[k].pt_addr)] : EntryIn(pt_read'[k], e)
                    /\ k > i' => <<work'[k].pt_addr, work'[k].vec, step' + 1>> \in AtEntry'
           /\ pc = "compare" =>
                 \A x \in Followed : \E k \in DOMAIN work' : k > i' /\ work'[k].pt_addr = x
<1>1. /\ InputInv /\ LevelRight /\ Narrows({})
  <2>1. InputInv /\ pc \notin {"filter", "panic"}
    BY DEF BothInv, WalkInv, Removes
  <2> QED BY <2>1, Ready
<1>2. /\ \A c \in AtEntry : c \in AtEntry'
      /\ \A c \in AtSlot : c \in AtSlot'
  <2>1. \A c : c[2] \cap {} = {}
    OBVIOUS
  <2> QED BY <1>1, <2>1, EntryStays, SlotStays
<1> DEFINE w == swap_remove(work, i)
<1>3. /\ i \in Nat /\ i > 0 /\ i' = i - 1 /\ work' = w /\ step' = step /\ pc' = pc
      /\ held' = held /\ pt_read' = pt_read
      /\ DOMAIN w = 1..(Len(work) - 1) /\ Len(work) \in Nat
      /\ \A j \in DOMAIN w : \E m \in DOMAIN work :
            w[j] = work[m] /\ m # i /\ (j < i => m = j) /\ (j >= i => m > i)
      /\ \A m \in DOMAIN work : m # i => \E j \in DOMAIN w :
            w[j] = work[m] /\ (m > i => j >= i)
  BY SwapIs, WorkFacts DEF Removes, BothInv
<1>4. i \in DOMAIN work
  BY WorkFacts DEF Removes, BothInv
<1> HIDE DEF w
<1>5. work[i].vec # {} /\ {} \notin {work'[j].vec : j \in DOMAIN work'}
  <2>1. {} \notin Vecs
    BY <1>1 DEF LevelRight, FullVecs
  <2>2. Vecs = {work'[j].vec : j \in DOMAIN work'} \cup {work[i].vec}
    BY RemovedVecs DEF BothInv
  <2> QED BY <2>1, <2>2
<1>6. \A j \in DOMAIN w : /\ j <= i' <=> j < i
                          /\ j > i' <=> j >= i
  BY <1>3
<1>7. CheckRight'
  <2> SUFFICES ASSUME pc \in {"check", "read"}, NEW j \in DOMAIN w
               PROVE  /\ j <= i' => <<w[j].pt_addr, w[j].vec, step>> \in AtEntry'
                      /\ j > i'  => <<w[j].pt_addr, w[j].vec, step>> \in AtSlot'
    BY <1>3 DEF CheckRight
  <2>1. PICK m \in DOMAIN work :
            w[j] = work[m] /\ m # i /\ (j < i => m = j) /\ (j >= i => m > i)
    BY <1>3
  <2>4. j \in Nat /\ i \in Nat /\ (j < i \/ j >= i) /\ (m = j /\ j < i => m <= i)
    BY <1>3
  <2>2. /\ j <= i' => m <= i
        /\ j > i' => m > i
    BY <1>6, <2>1, <2>4
  <2>3. /\ m <= i => <<work[m].pt_addr, work[m].vec, step>> \in AtEntry
        /\ m > i  => <<work[m].pt_addr, work[m].vec, step>> \in AtSlot
    BY <1>1 DEF LevelRight, CheckRight
  <2> QED BY <1>2, <2>1, <2>2, <2>3
<1>8. ASSUME pc = "compare", NEW j \in DOMAIN w
      PROVE  /\ j <= i' => /\ <<w[j].pt_addr, w[j].vec, step>> \in AtSlot'
                           /\ Slot(w[j].pt_addr) \in DOMAIN held
                           /\ \E e \in held[Slot(w[j].pt_addr)] : EntryIn(pt_read[j], e)
             /\ j > i' => <<w[j].pt_addr, w[j].vec, step + 1>> \in AtEntry'
  <2>1. PICK m \in DOMAIN work :
            w[j] = work[m] /\ m # i /\ (j < i => m = j) /\ (j >= i => m > i)
    BY <1>3
  <2>4. j \in Nat /\ i \in Nat /\ (j < i \/ j >= i) /\ (m = j /\ j < i => m <= i)
    BY <1>3
  <2>2. /\ j <= i' => m = j /\ m <= i
        /\ j > i' => m > i
    BY <1>6, <2>1, <2>4
  <2>3. /\ m <= i => /\ <<work[m].pt_addr, work[m].vec, step>> \in AtSlot
                     /\ Slot(work[m].pt_addr) \in DOMAIN held
                     /\ \E e \in held[Slot(work[m].pt_addr)] : EntryIn(pt_read[m], e)
        /\ m > i => <<work[m].pt_addr, work[m].vec, step + 1>> \in AtEntry
    BY <1>1, <1>8 DEF LevelRight, CompareRight
  <2> QED BY <1>2, <2>1, <2>2, <2>3
<1>9. ASSUME pc = "compare", NEW x \in Followed
      PROVE  \E k \in DOMAIN w : k > i' /\ w[k].pt_addr = x
  <2>1. PICK m \in DOMAIN work : m > i /\ work[m].pt_addr = x
    BY <1>1, <1>9 DEF LevelRight, CompareRight
  <2>2. m # i
    BY <1>3, <2>1
  <2>3. PICK j \in DOMAIN w : w[j] = work[m] /\ (m > i => j >= i)
    BY <1>3, <2>2
  <2> QED BY <1>6, <2>1, <2>3
<1> QED BY <1>3, <1>5, <1>7, <1>8, <1>9

LEMMA EntryChunk ==
    ASSUME NEW x, NEW V, NEW s, <<x, V, s>> \in AtEntry
    PROVE  /\ x \in Nat /\ V \subseteq Asking /\ s \in 0..Last
           /\ \E e, p \in Nat : EntryIn(x, e) /\ Whole(V, p, Outer(s)) /\ Comes(V, e, s)
<1> DEFINE c == <<x, V, s>>
<1>1. c[1] = x /\ c[2] = V /\ c[3] = s
  OBVIOUS
<1>2. c \in Standing /\ \E e, p, z \in Nat :
            /\ z = Outer(c[3]) /\ EntryIn(c[1], e)
            /\ Whole(c[2], p, z) /\ Comes(c[2], e, c[3])
  BY DEF AtEntry
<1> HIDE DEF c
<1>3. \E e, p, z \in Nat :
            /\ z = Outer(s) /\ EntryIn(x, e)
            /\ Whole(V, p, z) /\ Comes(V, e, s)
  BY <1>1, <1>2
<1>4. x \in Nat /\ V \subseteq Asking /\ s \in 0..Last
  BY <1>1, <1>2 DEF Standing
<1> QED BY <1>3, <1>4

LEMMA SlotChunk ==
    ASSUME NEW x, NEW V, NEW s, <<x, V, s>> \in AtSlot
    PROVE  /\ x \in Nat /\ V \subseteq Asking /\ s \in 0..Last /\ s # Last
           /\ \E e, p \in Nat :
                 /\ IsTable(e, s) /\ Whole(V, p, page_size_step(s + 1)) /\ Comes(V, e, s)
                 /\ \A r \in V : \A b \in Bytes(r) : x = SlotOf(b, s, e) * pow2[arch.pte_bits]
<1> DEFINE c == <<x, V, s>>
<1>1. c[1] = x /\ c[2] = V /\ c[3] = s
  OBVIOUS
<1>2. c \in Standing /\ \E e, p, z \in Nat :
            /\ c[3] # Last /\ z = page_size_step(c[3] + 1) /\ IsTable(e, c[3])
            /\ Whole(c[2], p, z) /\ Comes(c[2], e, c[3])
            /\ \A r \in c[2] : \A b \in Bytes(r) :
                  c[1] = SlotOf(b, c[3], e) * pow2[arch.pte_bits]
  BY DEF AtSlot
<1> HIDE DEF c
<1>3. \E e, p, z \in Nat :
            /\ s # Last /\ z = page_size_step(s + 1) /\ IsTable(e, s)
            /\ Whole(V, p, z) /\ Comes(V, e, s)
            /\ \A r \in V : \A b \in Bytes(r) : x = SlotOf(b, s, e) * pow2[arch.pte_bits]
  BY <1>1, <1>2
<1>4. x \in Nat /\ V \subseteq Asking /\ s \in 0..Last
  BY <1>1, <1>2 DEF Standing
<1> QED BY <1>3, <1>4

----------------------------------------------------------------------------
(* Chunks that fail *)

Fails ==
    Removes /\ rest' = <<>> /\ out' = out /\ out_fail' = out_fail \cup work[i].vec

LEMMA NotPresentFails == ASSUME WalkInv, NotPresent PROVE Fails
<1>1. i \in 1..Len(work)
  BY DEF NotPresent, Checking, WalkInv, WorkTypes
<1> QED BY <1>1 DEF NotPresent, Checking, Unchecked, loops, history, Fails, Removes, input

LEMMA RejectFails == ASSUME WalkInv, Reject PROVE Fails
<1>1. i \in 1..Len(work) /\ rest = <<>>
  BY DEF Reject, Comparing, WalkInv, WorkTypes
<1> QED BY <1>1 DEF Reject, Comparing, Uncompared, history, Fails, Removes, input

LEMMA FailSteady == ASSUME BothInv, BothInv', Fails PROVE Steady
<1>1. UNCHANGED input /\ Grows /\ rejected' = rejected
  BY DEF Fails, Removes, Grows
<1>2. InWork = UNION Vecs /\ InWork' = UNION Vecs'
  BY DEF InWork, Vecs
<1>3. Vecs = Vecs' \cup {work[i].vec}
  <2>1. Vecs' = {work'[j].vec : j \in DOMAIN work'}
    BY DEF Fails, Vecs
  <2> QED BY <2>1, RemovedVecs DEF Fails, BothInv
<1>4. Answered' = Answered \cup work[i].vec
  BY DEF Fails, Answered, TranslatedRanges
<1>5. InWork' \cup Answered' = InWork \cup Answered
  BY <1>2, <1>3, <1>4
<1> QED BY <1>1, <1>5, SameLive DEF Steady

LEMMA FailRight ==
    ASSUME BothInv, BothInv', RightInv, Fails, NoGaps', Walked' # {},
           \A r \in work[i].vec : \A b \in Bytes(r) : Unmapped(b) \/ Copied(b)
    PROVE  LevelRight' /\ AnswersRight'
<1>1. Steady /\ InputInv /\ Removes /\ pc \notin {"filter", "panic"}
  BY FailSteady DEF BothInv, WalkInv, Fails, Removes
<1>2. AnswersRight /\ Walked' = Walked
  BY <1>1, Ready
<1>3. /\ CheckRight' /\ {} \notin {work'[j].vec : j \in DOMAIN work'}
      /\ pc = "compare" =>
                 \A k \in DOMAIN work' :
                    /\ k <= i' => /\ <<work'[k].pt_addr, work'[k].vec, step'>> \in AtSlot'
                                  /\ Slot(work'[k].pt_addr) \in DOMAIN held'
                                  /\ \E e \in held'[Slot(work'[k].pt_addr)] : EntryIn(pt_read'[k], e)
                    /\ k > i' => <<work'[k].pt_addr, work'[k].vec, step' + 1>> \in AtEntry'
      /\ pc = "compare" =>
                 \A x \in Followed : \E k \in DOMAIN work' : k > i' /\ work'[k].pt_addr = x
  BY <1>1, RemovedRight
<1>4. FullVecs' /\ RestRight'
  <2>1. rest' = <<>> /\ DOMAIN rest' = {}
    BY DEF Fails
  <2>2. Vecs' = {work'[j].vec : j \in DOMAIN work'}
    BY <2>1 DEF Vecs
  <2> QED BY <1>3, <2>1, <2>2 DEF FullVecs, RestRight
<1>5. CompareRight'
  <2>1. Followed' = Followed /\ pc' = pc /\ arch' = arch
    BY <1>1 DEF Followed, Removes, input
  <2>2. /\ \A x : Slot(x)' = Slot(x)
        /\ \A x, e : EntryIn(x, e)' = EntryIn(x, e)
    BY <2>1, EntryPrimes
  <2> QED BY <1>3, <2>1, <2>2 DEF CompareRight, Slot, EntryIn
<1>6. AnswersRight'
  <2>1. /\ Aligned' => Aligned
        /\ \A o : OnPages(o) => OnPages(o)'
        /\ \A b : Unmapped(b) => Unmapped(b)'
        /\ \A b : Copied(b) => Copied(b)'
    BY <1>1, <1>2, AnswersStay DEF Steady
  <2>2. \A r : Bytes(r)' = Bytes(r)
    BY <1>1, MorePrimes DEF Steady
  <2>3. /\ out' = out /\ out_fail' = out_fail \cup work[i].vec /\ rejected' = rejected
        /\ unread' = unread
    BY DEF Fails, Removes
  <2>4. Aligned' => \A o \in out' : OnPages(o)'
    BY <1>2, <2>1, <2>3 DEF AnswersRight
  <2>5. \A r \in out_fail' \ (rejected' \cup unread') : \A b \in Bytes(r)' : Unmapped(b)' \/ Copied(b)'
    BY <1>2, <2>1, <2>2, <2>3 DEF AnswersRight
  <2> QED BY <2>4, <2>5 DEF AnswersRight
<1> QED BY <1>3, <1>4, <1>5, <1>6 DEF LevelRight

LEMMA NotPresentRight ==
    ASSUME BothInv, BothInv', RightInv, NotPresent, NoGaps', Walked' # {}
    PROVE  LevelRight' /\ AnswersRight'
<1>1. Fails /\ Steady /\ InputInv
  BY NotPresentFails, FailSteady DEF BothInv, WalkInv
<1>2. LevelRight /\ pc = "check" /\ i > 0 /\ i \in DOMAIN work /\ i <= i
  <2>1. pc = "check" /\ i > 0
    BY DEF NotPresent, Checking
  <2>2. i \in DOMAIN work /\ i \in Nat
    BY <1>1, WorkFacts DEF Fails, Removes, BothInv
  <2> QED BY <1>1, <2>1, <2>2, Ready
<1>3. <<work[i].pt_addr, work[i].vec, step>> \in AtEntry
  BY <1>2 DEF LevelRight, CheckRight
<1> DEFINE x == work[i].pt_addr
           V == work[i].vec
<1>4. PICK e \in Nat : EntryIn(x, e) /\ Comes(V, e, step)
  BY <1>3, EntryChunk
<1>5. step \in 0..Last /\ WellFormed(arch)
  BY <1>3, EntryChunk DEF BothInv, WalkInv, InputInv
<1>6. ~Present(e, step)
  <2>1. ~check_entry(x, step)
    BY DEF NotPresent
  <2> HIDE DEF x
  <2> QED BY <1>4, <1>5, <2>1, EntryMeans
<1>7. \A r \in V : \A b \in Bytes(r) : Unmapped(b)
  BY <1>4, <1>5, <1>6 DEF Comes, Unmapped
<1> QED BY <1>1, <1>7, FailRight

(* An entry that is followed is the entry of another page, and one that    *)
(* leads to its own table is its copy.                                     *)
LEMMA HeldEntries ==
    ASSUME BothInv, NEW t \in DOMAIN held, NEW e \in held[t]
    PROVE  e \in 0..(pow2[arch.entry_bits] - 1) /\ e \in Nat /\ pow2[arch.entry_bits] \in Nat \ {0}
<1>1. held[t] \subseteq Entry
  BY DEF BothInv, SideInv
<1>2. pow2[arch.entry_bits] \in Nat \ {0}
  BY PowFunction DEF BothInv, WalkInv, InputInv, WellFormed
<1> QED BY <1>1, <1>2 DEF Entry

LEMMA SameEntry ==
    ASSUME BothInv, NEW t \in DOMAIN held, NEW e \in held[t], NEW u \in DOMAIN held,
           NEW f \in held[u], NEW x, EntryIn(x, e), EntryIn(x, f)
    PROVE  e = f
<1> DEFINE p == pow2[arch.entry_bits]
<1>1. p \in Nat \ {0} /\ e \in 0..(p - 1) /\ f \in 0..(p - 1)
  BY HeldEntries
<1>2. PICK n \in Nat : x = e + n * p
  BY DEF EntryIn
<1>3. PICK m \in Nat : x = f + m * p
  BY DEF EntryIn
<1> HIDE DEF p
<1>4. p * n + e = p * m + f /\ n \in Int /\ m \in Int
  BY <1>1, <1>2, <1>3
<1> QED BY <1>1, <1>4, Unique

LEMMA SlotRead ==
    ASSUME WellFormed(arch), NEW e \in Nat, NEW s \in 0..(Last - 1), NEW b \in Nat, NEW x,
           x = SlotOf(b, s, e) * pow2[arch.pte_bits]
    PROVE  Slot(x) = SlotOf(b, s, e) /\ x \in Nat /\ SlotOf(b, s, e) \in Nat
<1>1. EntryIn(e, e)
  <2>1. e = e + 0 * pow2[arch.entry_bits]
    <3>1. pow2[arch.entry_bits] \in Nat \ {0}
      BY PowFunction DEF WellFormed
    <3> QED BY <3>1
  <2> QED BY <2>1 DEF EntryIn
<1>2. SlotOf(b, s, e) \in Nat
  BY <1>1, EntryAddress
<1> QED BY <1>2, SlotAt

LEMMA RejectRight ==
    ASSUME BothInv, BothInv', RightInv, Reject, NoGaps', Walked' # {}
    PROVE  LevelRight' /\ AnswersRight'
<1>1. Fails /\ Steady /\ InputInv /\ WellFormed(arch)
  BY RejectFails, FailSteady DEF BothInv, WalkInv, InputInv
<1>2. LevelRight /\ pc = "compare" /\ i > 0 /\ i \in DOMAIN work /\ i <= i /\ pt_read[i] \in Nat
  <2>1. pc = "compare" /\ i > 0
    BY DEF Reject, Comparing
  <2>2. i \in DOMAIN work /\ i \in Nat
    BY <1>1, WorkFacts DEF Fails, Removes, BothInv
  <2>3. i \in 1..i
    BY <2>1, <2>2
  <2>4. pt_read[i] \in Nat
    BY <2>1, <2>3 DEF BothInv, WalkInv, WorkTypes
  <2> QED BY <1>1, <2>1, <2>2, <2>4, Ready
<1> DEFINE a == work[i].pt_addr
           V == work[i].vec
           x == pt_read[i]
           z == page_size_step(step + 1)
<1>3. <<a, V, step>> \in AtSlot /\ Slot(a) \in DOMAIN held
  BY <1>2 DEF LevelRight, CompareRight
<1>4. PICK y \in held[Slot(a)] : EntryIn(x, y)
  BY <1>2 DEF LevelRight, CompareRight
<1>5. a \in Nat /\ V \subseteq Asking /\ step \in 0..(Last - 1) /\ step \in 0..Last
  <2>1. Last \in Nat
    BY <1>1, ArchFacts
  <2> QED BY <1>3, <2>1, SlotChunk
<1>6. PICK e \in Nat, p \in Nat :
            /\ IsTable(e, step) /\ Whole(V, p, z) /\ Comes(V, e, step)
            /\ \A r \in V : \A b \in Bytes(r) : a = SlotOf(b, step, e) * pow2[arch.pte_bits]
  BY <1>3, SlotChunk
<1>7. {} \notin Vecs /\ \A x1 \in Followed : \E k \in DOMAIN work : k > i /\ work[k].pt_addr = x1
  BY <1>2 DEF LevelRight, FullVecs, CompareRight
<1>8. ~Accepted(x)
  BY DEF Reject
<1> HIDE DEF a, V, x, z
<1>9. ASSUME NEW r \in V, NEW b \in Bytes(r) PROVE Copied(b)
  <2>1. b \in Nat /\ r \in Live
    <3>1. b \in Addr
      BY <1>1, <1>5, BytesAre
    <3>2. Word \in Nat \ {0}
      BY <1>1, RequestFacts
    <3>3. V \subseteq InWork /\ InWork \subseteq Live
      BY <1>2, LiveFacts DEF BothInv, SideInv, V
    <3> QED BY <3>1, <3>2, <3>3 DEF Addr
  <2>2. a = SlotOf(b, step, e) * pow2[arch.pte_bits]
    BY <1>6
  <2>3. Slot(a) = SlotOf(b, step, e)
    BY <1>1, <1>5, <2>1, <2>2, SlotRead
  <2> DEFINE g == [step |-> step, slot |-> Slot(a), page |-> b \div z, entry |-> y]
  <2>4. g \in Entries(b)
    <3>1. e \in Reach(b)[step] /\ IsTable(e, step) /\ SlotOf(b, step, e) \in DOMAIN held
      BY <1>3, <1>6, <2>3 DEF Comes
    <3>2. g = [step |-> step, slot |-> SlotOf(b, step, e),
               page |-> b \div page_size_step(step + 1), entry |-> y]
      BY <2>3 DEF z
    <3>3. y \in held[SlotOf(b, step, e)]
      BY <2>3
    <3> HIDE DEF g
    <3> QED BY <1>5, <3>1, <3>2, <3>3, EntriesLaw DEF EntriesAre
  <2>5. g.step = step /\ g.slot = Slot(a) /\ g.page = b \div z /\ g.entry = y
    OBVIOUS
  <2> HIDE DEF g
  <2>6. CASE pte_addr_mask(a, step) = pte_addr_mask(x, step)
    <3>1. pte_addr_mask(x, step) = TableAt(y, step)
      BY <1>1, <1>4, <1>5, EntryMeans
    <3>2. pte_addr_mask(a, step) = TableAt(a, step)
      BY <1>1, <1>5, TableMask
    <3>3. a = Slot(a) * pow2[arch.pte_bits]
      BY <2>2, <2>3
    <3>4. TableAt(g.entry, g.step) = TableAt(g.slot * pow2[arch.pte_bits], g.step)
      BY <2>5, <2>6, <3>1, <3>2, <3>3
    <3> QED BY <2>4, <3>4 DEF Copied
  <2>7. CASE x \in Followed
    <3>1. PICK k \in DOMAIN work : k > i /\ work[k].pt_addr = x
      BY <1>7, <2>7
    <3> DEFINE U == work[k].vec
    <3>2. <<x, U, step + 1>> \in AtEntry
      BY <1>2, <3>1 DEF LevelRight, CompareRight
    <3>3. U # {}
      BY <1>7 DEF Vecs
    <3> HIDE DEF U
    <3>4. PICK f \in Nat, q \in Nat :
             EntryIn(x, f) /\ Whole(U, q, Outer(step + 1)) /\ Comes(U, f, step + 1)
      BY <3>2, EntryChunk
    <3>5. Outer(step + 1) = z
      BY <1>5 DEF Outer, z
    <3>6. PICK t \in U : TRUE
      BY <3>3
    <3>7. t \in Live /\ t \in Asking /\ t.addr \in Bytes(t)
      <4>1. U \subseteq InWork /\ InWork \subseteq Live
        BY LiveFacts DEF BothInv, SideInv, U
      <4>2. U \subseteq Asking
        BY <3>2, EntryChunk
      <4> QED BY <1>1, <3>6, <4>1, <4>2, BytesAre
    <3> DEFINE c == t.addr
    <3>8. c \in Walked
      BY <3>7 DEF Walked, Live
    <3>9. f \in Reach(c)[step + 1]
      BY <3>4, <3>6, <3>7 DEF Comes
    <3> HIDE DEF c
    <3>10. PICK d \in Reach(c)[step] : /\ IsTable(d, step) /\ SlotOf(c, step, d) \in DOMAIN held
                                       /\ f \in held[SlotOf(c, step, d)]
      BY <1>1, <1>5, <3>9, ReachSteps
    <3> DEFINE h == [step |-> step, slot |-> SlotOf(c, step, d),
                     page |-> c \div page_size_step(step + 1), entry |-> f]
    <3>11. h \in Entries(c)
      <4> HIDE DEF h
      <4>1. h = [step |-> step, slot |-> SlotOf(c, step, d),
                     page |-> c \div page_size_step(step + 1), entry |-> f]
        BY DEF h
      <4> QED BY <1>5, <3>10, <4>1, EntriesLaw DEF EntriesAre
    <3>12. h.step = step /\ h.page = c \div z /\ h.entry = f
      BY DEF z
    <3> HIDE DEF h
    <3>13. f = y
      BY <1>3, <1>4, <3>4, <3>10, SameEntry
    <3>14. b \div z # c \div z
      <4> SUFFICES ASSUME b \div z = c \div z PROVE FALSE
        OBVIOUS
      <4>1. b \div z = p
        BY <1>6 DEF Whole
      <4>2. t \in V
        BY <1>6, <3>7, <4>1 DEF Whole, c
      <4>3. V \cap U = {}
        <5>1. i # k
          BY <1>5, <3>1 DEF BothInv, WalkInv, WorkTypes
        <5> QED BY <1>2, <5>1, InvWork DEF AnsweredOnce, BothInv, V, U
      <4> QED BY <3>6, <4>2, <4>3
    <3>15. h.step = g.step /\ h.page # g.page /\ h.entry = g.entry
      BY <2>5, <3>12, <3>13, <3>14
    <3> QED BY <2>4, <3>8, <3>11, <3>15 DEF Copied
  <2>8. pte_addr_mask(a, step) = pte_addr_mask(x, step) \/ x \in Followed
    <3>1. x # None
      BY <1>2, NoneAssumption DEF x
    <3> QED BY <1>8, <3>1 DEF Accepted, Followed, a, x
  <2> QED BY <2>6, <2>7, <2>8
<1> QED BY <1>1, <1>9, FailRight DEF V

----------------------------------------------------------------------------
(* Chunks that are translated *)

LEMMA TranslatedRemoves ==
    ASSUME WalkInv, Translated
    PROVE  /\ Removes /\ rest' = <<>> /\ out_fail' = out_fail
           /\ TranslatedRanges' = TranslatedRanges \cup work[i].vec
<1>1. i \in 1..Len(work)
  BY DEF Translated, Checking, WalkInv, WorkTypes
<1>2. Removes /\ rest' = <<>> /\ out_fail' = out_fail
  BY <1>1 DEF Translated, Checking, Unchecked, loops, history, Removes, input
<1>3. out' = out \cup {[range |-> r, page |-> get_phys_page(work[i].pt_addr, r.addr, step)] :
                         r \in work[i].vec}
  BY DEF Translated
<1> DEFINE V == work[i].vec
           rec(r) == [range |-> r, page |-> get_phys_page(work[i].pt_addr, r.addr, step)]
<1>4. \A r : rec(r).range = r
  OBVIOUS
<1>5. out' = out \cup {rec(r) : r \in V}
  BY <1>3
<1> HIDE DEF rec, V
<1>6. TranslatedRanges' = TranslatedRanges \cup V
  <2>1. ASSUME NEW o \in out' PROVE o.range \in TranslatedRanges \cup V
    BY <1>4, <1>5 DEF TranslatedRanges
  <2>2. ASSUME NEW o \in out PROVE o.range \in TranslatedRanges'
    BY <1>5 DEF TranslatedRanges
  <2>3. ASSUME NEW r \in V PROVE r \in TranslatedRanges'
    <3>1. rec(r) \in out' /\ rec(r).range = r
      BY <1>4, <1>5
    <3> QED BY <3>1 DEF TranslatedRanges
  <2> QED BY <2>1, <2>2, <2>3 DEF TranslatedRanges
<1> QED BY <1>2, <1>6 DEF V

LEMMA TranslatedSteady == ASSUME BothInv, BothInv', Translated PROVE Steady
<1>0. /\ Removes /\ rest' = <<>> /\ out_fail' = out_fail
      /\ TranslatedRanges' = TranslatedRanges \cup work[i].vec
  BY TranslatedRemoves DEF BothInv
<1>1. UNCHANGED input /\ Grows /\ rejected' = rejected
  BY <1>0 DEF Removes, Grows
<1>2. InWork = UNION Vecs /\ InWork' = UNION Vecs'
  BY DEF InWork, Vecs
<1>3. Vecs = Vecs' \cup {work[i].vec}
  <2>1. Vecs' = {work'[j].vec : j \in DOMAIN work'}
    BY <1>0 DEF Vecs
  <2> QED BY <1>0, <2>1, RemovedVecs DEF BothInv
<1>4. Answered' = Answered \cup work[i].vec
  BY <1>0 DEF Answered
<1>5. InWork' \cup Answered' = InWork \cup Answered
  BY <1>2, <1>3, <1>4
<1> QED BY <1>1, <1>5, SameLive DEF Steady

(* The page of a final entry is right for every byte that comes to it.     *)
LEMMA RightPage ==
    ASSUME BothInv, NEW x, NEW V, NEW s, <<x, V, s>> \in AtEntry,
           check_entry(x, s), is_final_mapping(x, s), Aligned, NEW r \in V
    PROVE  OnPages([range |-> r, page |-> get_phys_page(x, r.addr, s)])
<1>1. InputInv /\ WellFormed(arch) /\ Last \in Nat /\ Last > 0
  BY ArchFacts DEF BothInv, WalkInv, InputInv
<1>2. x \in Nat /\ V \subseteq Asking /\ s \in 0..Last
  BY EntryChunk
<1>3. PICK e \in Nat, p \in Nat : EntryIn(x, e) /\ Whole(V, p, Outer(s)) /\ Comes(V, e, s)
  BY EntryChunk
<1>4. IsPage(e, s)
  BY <1>1, <1>2, <1>3, EntryMeans DEF IsPage
<1>5. s # 0
  <2> SUFFICES ASSUME s = 0 PROVE FALSE
    OBVIOUS
  <2>1. 0 \in arch.final_steps
    BY <1>1, <1>4 DEF IsPage, Large
  <2>2. arch.final_steps \subseteq 1..(Len(arch.splits) - 1)
    BY <1>1 DEF WellFormed
  <2> QED BY <2>1, <2>2
<1>6. s # Last => pte_addr_mask(e, s) % page_size_step(s) = 0
  <2> SUFFICES ASSUME s # Last PROVE pte_addr_mask(e, s) % page_size_step(s) = 0
    OBVIOUS
  <2>1. Large(e, s) /\ s \in 1..(Last - 1) /\ s - 1 \in 0..(Last - 1) /\ s - 1 + 1 = s
    BY <1>1, <1>2, <1>4, <1>5 DEF IsPage
  <2>2. e \in Reach(r.addr)[s]
    <3>1. r.addr \in Bytes(r)
      BY <1>1, <1>2, BytesAre
    <3> QED BY <1>3, <3>1 DEF Comes
  <2>3. PICK d : SlotOf(r.addr, s - 1, d) \in DOMAIN held /\ e \in held[SlotOf(r.addr, s - 1, d)]
    <3> DEFINE k == s - 1
    <3>1. k \in 0..(Last - 1) /\ e \in Reach(r.addr)[k + 1]
      BY <2>1, <2>2
    <3> HIDE DEF k
    <3>2. \E d \in Reach(r.addr)[k] : /\ IsTable(d, k) /\ SlotOf(r.addr, k, d) \in DOMAIN held
                                      /\ e \in held[SlotOf(r.addr, k, d)]
      BY <1>1, <3>1, ReachSteps
    <3> QED BY <3>2 DEF k
  <2> QED BY <2>1, <2>3 DEF Aligned
<1> DEFINE a == r.addr
           z == page_size_step(s)
           pg == get_phys_page(x, a, s)
<1>7. a \in Nat /\ a \in Bytes(r) /\ \A b \in Bytes(r) : b \in Nat
  <2>1. Bytes(r) \subseteq Addr /\ a \in Bytes(r)
    BY <1>1, <1>2, BytesAre
  <2>2. Word \in Nat \ {0}
    BY <1>1, RequestFacts
  <2> QED BY <2>1, <2>2 DEF Addr
<1>8. pg = PageOf(a, s, e) /\ FrameAt(e, s) \in Nat
  <2> HIDE DEF a
  <2>1. get_phys_page(x, a, s) = PageOf(a, s, e) /\ FrameAt(e, s) \in Nat
    BY <1>1, <1>2, <1>3, <1>6, <1>7, PageIs
  <2> QED BY <2>1
<1>9. z \in Nat \ {0} /\ Outer(s) = z
  BY <1>1, <1>2, <1>5, StepSize DEF Outer
<1> HIDE DEF z, pg, a
<1>10. ASSUME NEW b \in Bytes(r) PROVE [pg EXCEPT !.paddr = @ + (b - a)] \in Pages(b)
  <2>1. b \div z = a \div z /\ b \in Int /\ a \in Int
    BY <1>3, <1>7, <1>9 DEF Whole
  <2>2. b % z = (a % z) + (b - a)
    BY <1>9, <2>1, SamePage
  <2>3. a % z \in Int
    BY <1>9, <2>1, Euclid
  <2>4. [pg EXCEPT !.paddr = @ + (b - a)] = PageOf(b, s, e)
    <3>1. (FrameAt(e, s) + (a % z)) + (b - a) = FrameAt(e, s) + (b % z)
      BY <1>8, <2>1, <2>2, <2>3
    <3>2. /\ pg = [paddr |-> FrameAt(e, s) + (a % z), page_size |-> z,
                   write |-> PageOf(a, s, e).write, noexec |-> PageOf(a, s, e).noexec]
          /\ PageOf(b, s, e) = [paddr |-> FrameAt(e, s) + (b % z), page_size |-> z,
                   write |-> PageOf(a, s, e).write, noexec |-> PageOf(a, s, e).noexec]
      BY <1>8 DEF PageOf, z
    <3> QED BY <3>1, <3>2
  <2>5. e \in Reach(b)[s]
    BY <1>3 DEF Comes
  <2> QED BY <1>2, <1>4, <2>4, <2>5, PagesLaw DEF PagesAre
<1> QED BY <1>10 DEF OnPages, a, pg

LEMMA TranslatedStepRight ==
    ASSUME BothInv, BothInv', RightInv, Translated, NoGaps', Walked' # {}
    PROVE  LevelRight' /\ AnswersRight'
<1>1. /\ Removes /\ rest' = <<>> /\ out_fail' = out_fail /\ Steady /\ InputInv
      /\ pc = "check" /\ i > 0
  BY TranslatedRemoves, TranslatedSteady DEF BothInv, WalkInv, Translated, Checking
<1>2. LevelRight /\ AnswersRight /\ Walked' = Walked
  BY <1>1, Ready
<1>3. CheckRight' /\ {} \notin {work'[j].vec : j \in DOMAIN work'}
  BY <1>1, RemovedRight
<1>4. FullVecs' /\ RestRight' /\ CompareRight'
  <2>1. DOMAIN rest' = {} /\ pc' # "compare"
    BY <1>1 DEF Removes
  <2>2. Vecs' = {work'[j].vec : j \in DOMAIN work'}
    BY <1>1, <2>1 DEF Vecs
  <2> QED BY <1>1, <1>3, <2>1, <2>2 DEF FullVecs, RestRight, CompareRight
<1>5. /\ Aligned' => Aligned
      /\ \A o : OnPages(o) => OnPages(o)'
      /\ \A b : Unmapped(b) => Unmapped(b)'
      /\ \A b : Copied(b) => Copied(b)'
  BY <1>1, <1>2, AnswersStay DEF Steady
<1>6. \A r : Bytes(r)' = Bytes(r)
  BY <1>1, MorePrimes DEF Steady
<1>7. <<work[i].pt_addr, work[i].vec, step>> \in AtEntry
  <2>1. i \in DOMAIN work /\ i <= i
    BY <1>1, WorkFacts DEF Removes, BothInv
  <2> QED BY <1>1, <1>2, <2>1 DEF LevelRight, CheckRight
<1>8. \A r \in out_fail' \ (rejected' \cup unread') : \A b \in Bytes(r)' : Unmapped(b)' \/ Copied(b)'
  <2>1. rejected' = rejected /\ unread' = unread
    BY <1>1 DEF Removes
  <2> QED BY <1>1, <1>2, <1>5, <1>6, <2>1 DEF AnswersRight
<1>9. ASSUME Aligned', NEW o \in out' PROVE OnPages(o)'
  <2>1. CASE o \in out
    BY <1>2, <1>5, <1>9, <2>1 DEF AnswersRight
  <2>2. CASE \E r \in work[i].vec :
                o = [range |-> r, page |-> get_phys_page(work[i].pt_addr, r.addr, step)]
    <3>1. PICK r \in work[i].vec :
                o = [range |-> r, page |-> get_phys_page(work[i].pt_addr, r.addr, step)]
      BY <2>2
    <3>2. check_entry(work[i].pt_addr, step) /\ is_final_mapping(work[i].pt_addr, step)
      BY DEF Translated
    <3> DEFINE x == work[i].pt_addr
               V == work[i].vec
               s == step
    <3>3. /\ <<x, V, s>> \in AtEntry /\ r \in V /\ check_entry(x, s) /\ is_final_mapping(x, s)
          /\ Aligned
      BY <1>5, <1>7, <1>9, <3>1, <3>2
    <3> HIDE DEF x, V, s
    <3>4. OnPages([range |-> r, page |-> get_phys_page(x, r.addr, s)])
      BY <3>3, RightPage
    <3>5. o = [range |-> r, page |-> get_phys_page(x, r.addr, s)]
      BY <3>1 DEF x, s
    <3> QED BY <1>5, <3>4, <3>5
  <2> QED BY <2>1, <2>2 DEF Translated
<1> QED BY <1>3, <1>4, <1>8, <1>9 DEF LevelRight, AnswersRight

EntryRule ==
    \A x, V, s, e, p, z :
        /\ x \in Nat /\ V \subseteq Asking /\ s \in 0..Last /\ {e, p, z} \subseteq Nat
        /\ z = Outer(s) /\ EntryIn(x, e) /\ Whole(V, p, z) /\ Comes(V, e, s)
        => <<x, V, s>> \in AtEntry

LEMMA EntryChunks == EntryRule
<1> SUFFICES ASSUME NEW x \in Nat, NEW V \in SUBSET Asking, NEW s \in 0..Last,
                    NEW e \in Nat, NEW p \in Nat, NEW z \in Nat,
                    z = Outer(s), EntryIn(x, e), Whole(V, p, z), Comes(V, e, s)
             PROVE  <<x, V, s>> \in AtEntry
  BY DEF EntryRule
<1> DEFINE c == <<x, V, s>>
<1>1. c[1] = x /\ c[2] = V /\ c[3] = s /\ c \in Standing
  BY DEF Standing
<1> HIDE DEF c
<1>2. /\ z = Outer(c[3]) /\ EntryIn(c[1], e)
      /\ Whole(c[2], p, z) /\ Comes(c[2], e, c[3])
  BY <1>1
<1>3. c \in AtEntry
  BY <1>1, <1>2 DEF AtEntry
<1> QED BY <1>3 DEF c

----------------------------------------------------------------------------
(* Steps that leave all answers and all chunks                             *)

LEMMA ChunksStay ==
    ASSUME InputInv, Steady
    PROVE  /\ \A c \in AtEntry : c \in AtEntry'
           /\ \A c \in AtSlot : c \in AtSlot'
           /\ \A c \in AtCut : c \in AtCut'
<1>1. Narrows({})
  BY DEF Narrows, Steady
<1>2. \A c : c[2] \cap {} = {}
  OBVIOUS
<1> QED BY <1>1, <1>2, EntryStays, SlotStays, CutStays DEF Steady

LEMMA AnswersKept ==
    ASSUME InputInv, Steady, AnswersRight, Walked' = Walked, out' = out,
           out_fail' \ (rejected' \cup unread') \subseteq out_fail \ (rejected \cup unread)
    PROVE  AnswersRight'
<1>1. /\ Aligned' => Aligned
      /\ \A o : OnPages(o) => OnPages(o)'
      /\ \A b : Unmapped(b) => Unmapped(b)'
      /\ \A b : Copied(b) => Copied(b)'
  BY AnswersStay DEF Steady
<1>2. \A r : Bytes(r)' = Bytes(r)
  BY MorePrimes DEF Steady
<1>3. Aligned' => \A o \in out' : OnPages(o)'
  BY <1>1 DEF AnswersRight
<1>4. \A r \in out_fail' \ (rejected' \cup unread') : \A b \in Bytes(r)' : Unmapped(b)' \/ Copied(b)'
  BY <1>1, <1>2 DEF AnswersRight
<1> QED BY <1>3, <1>4 DEF AnswersRight

LEMMA StartWalkRight ==
    ASSUME BothInv, BothInv', StartWalk, NoGaps', Walked' # {}
    PROVE  LevelRight' /\ AnswersRight'
<1>1. /\ InputInv /\ pc = "filter" /\ pc' = "check" /\ i' = Len(work) /\ Len(work) = 1 /\ rest = <<>>
      /\ work' = work /\ rest' = rest /\ step' = step /\ step = 0 /\ out = {} /\ out_fail = rejected
      /\ work[1].pt_addr = dtb /\ out' = out /\ out_fail' = out_fail /\ rejected' = rejected
      /\ UNCHANGED input /\ held' = held
  BY DEF StartWalk, BothInv, WalkInv, WorkTypes, SideInv, results, history
<1>2. DOMAIN work = {1} /\ work[1].vec \subseteq Asking /\ DOMAIN rest = {} /\ dtb \in Nat
  BY <1>1, WorkFacts DEF BothInv, ChunkRec, WalkInv, InputInv
<1>3. Steady
  <2>1. InWork' \cup Answered' = InWork \cup Answered
    BY <1>1 DEF InWork, Answered, TranslatedRanges
  <2> QED BY <1>1, <2>1, SameLive DEF Steady, Grows
<1>4. Live = work[1].vec
  <2>1. InWork = work[1].vec
    BY <1>2 DEF InWork
  <2>2. Answered \ rejected = {}
    BY <1>1 DEF Answered, TranslatedRanges
  <2> QED BY <2>1, <2>2 DEF Live
<1> DEFINE V == work[1].vec
<1>5. <<dtb, V, 0>> \in AtEntry
  <2>1. \A r \in V : \A b \in Bytes(r) : b \div Word = 0 /\ dtb \in Reach(b)[0]
    <3> TAKE r \in V
    <3> TAKE b \in Bytes(r)
    <3>1. b \in 0..(Word - 1) /\ Word \in Nat \ {0}
      BY <1>1, <1>2, BytesAre, RequestFacts DEF Addr
    <3>2. Reach(b)[0] = {dtb}
      BY <1>1, ReachLaw DEF ReachIs, InputInv
    <3> QED BY <3>1, <3>2, SmallDiv
  <2>2. Whole(V, 0, Word) /\ Comes(V, dtb, 0)
    BY <1>4, <2>1 DEF Whole, Comes
  <2>3. EntryIn(dtb, dtb)
    <3>1. dtb = dtb + 0 * pow2[arch.entry_bits]
      <4>1. pow2[arch.entry_bits] \in Nat \ {0}
        BY <1>1, PowFunction DEF WellFormed, InputInv
      <4> QED BY <1>2, <4>1
    <3> QED BY <1>2, <3>1 DEF EntryIn
  <2>4. 0 \in 0..Last /\ Word \in Nat /\ Outer(0) = Word
    BY <1>1, ArchFacts DEF Outer, InputInv
  <2>5. V \subseteq Asking
    BY <1>2
  <2> HIDE DEF V
  <2>6. 0 \in Nat /\ {dtb, 0, Word} \subseteq Nat
    BY <1>2, <2>4
  <2> QED BY <1>2, <2>2, <2>3, <2>4, <2>5, <2>6, EntryChunks DEF EntryRule
<1>6. \A c \in AtEntry : c \in AtEntry'
  BY <1>1, <1>3, ChunksStay
<1>7. Walked' = UNION {Bytes(r)' : r \in V}
  BY <1>3, <1>4 DEF Walked, Live, Steady
<1>8. FullVecs'
  <2>1. V # {}
    BY <1>7
  <2>2. Vecs' = {V}
    BY <1>1, <1>2 DEF Vecs
  <2> QED BY <2>1, <2>2 DEF FullVecs
<1>9. CheckRight'
  <2>1. \A k \in DOMAIN work' : k <= i' /\ ~(k > i') /\ <<work'[k].pt_addr, work'[k].vec, step'>> \in AtEntry'
    BY <1>1, <1>2, <1>5, <1>6
  <2> QED BY <2>1 DEF CheckRight
<1>10. RestRight' /\ CompareRight' /\ AnswersRight'
  <2>1. out_fail' \ (rejected' \cup unread') = {} /\ out' = {}
    BY <1>1
  <2> QED BY <1>1, <2>1 DEF RestRight, CompareRight, AnswersRight
<1> QED BY <1>8, <1>9, <1>10 DEF LevelRight

(* Steps between the loops, and those of the guest                         *)
LEMMA QuietSteady ==
    ASSUME BothInv, BothInv', [Next]_vars, pc # "filter", work' = work, rest' = rest,
           out' = out, out_fail' = out_fail
    PROVE  Steady
<1>1. UNCHANGED input /\ Grows /\ rejected' = rejected
  BY StepFrame
<1>2. InWork' \cup Answered' = InWork \cup Answered
  BY DEF InWork, Answered, TranslatedRanges
<1> QED BY <1>1, <1>2, SameLive DEF Steady

LEMMA EndLevelRight ==
    ASSUME BothInv, BothInv', RightInv, EndLevel, NoGaps', Walked' # {}
    PROVE  LevelRight' /\ AnswersRight'
<1>1. /\ pc = "check" /\ i = 0 /\ rest = <<>> /\ work' = work /\ rest' = rest /\ out' = out
      /\ out_fail' = out_fail /\ i' = i /\ step' = step /\ pc' \in {"read", "done"}
      /\ rejected' = rejected /\ unread' = unread /\ InputInv
  BY DEF EndLevel, results, history, BothInv, WalkInv
<1>2. Steady
  BY <1>1, QuietSteady DEF Next, Walk
<1>3. LevelRight /\ AnswersRight /\ Walked' = Walked
  BY <1>1, <1>2, Ready
<1>4. \A c \in AtSlot : c \in AtSlot'
  BY <1>1, <1>2, ChunksStay
<1>5. CheckRight'
  <2>1. \A k \in DOMAIN work : k > i /\ ~(k <= i)
    BY <1>1, WorkFacts DEF BothInv
  <2>2. \A k \in DOMAIN work : <<work[k].pt_addr, work[k].vec, step>> \in AtSlot'
    BY <1>1, <1>3, <1>4, <2>1 DEF LevelRight, CheckRight
  <2> QED BY <1>1, <2>1, <2>2 DEF CheckRight
<1>6. FullVecs' /\ RestRight' /\ CompareRight'
  BY <1>1, <1>3 DEF LevelRight, FullVecs, Vecs, RestRight, CompareRight
<1>7. AnswersRight'
  BY <1>1, <1>2, <1>3, AnswersKept
<1> QED BY <1>5, <1>6, <1>7 DEF LevelRight

LEMMA ReadEntriesRight ==
    ASSUME BothInv, BothInv', RightInv, ReadEntries, NoGaps', Walked' # {}
    PROVE  LevelRight' /\ AnswersRight'
<1>1. /\ pc = "read" /\ work' = work /\ rest' = rest /\ out' = out
      /\ out_fail' = out_fail /\ i' = Len(work) /\ step' = step /\ pc' = "compare"
      /\ rejected' = rejected /\ unread' = unread /\ InputInv /\ rest = <<>> /\ i = 0
      /\ prev_addr' = None /\ addr_map' = {} /\ held' = held /\ arch' = arch
      /\ pt_read' = [k \in DOMAIN work |-> EntryAt(work[k].pt_addr)]
      /\ \A k \in DOMAIN work : Readable(work[k].pt_addr)
  BY DEF ReadEntries, results, history, BothInv, WalkInv, WorkTypes, input
<1>2. Steady
  BY <1>1, QuietSteady DEF Next, Walk
<1>3. LevelRight /\ AnswersRight /\ Walked' = Walked
  BY <1>1, <1>2, Ready
<1>4. \A c \in AtSlot : c \in AtSlot'
  BY <1>1, <1>2, ChunksStay
<1>5. \A k \in DOMAIN work : k > i /\ k <= i' /\ ~(k > i')
  BY <1>1, WorkFacts DEF BothInv
<1>6. /\ \A x : Slot(x)' = Slot(x)
      /\ \A x, e : EntryIn(x, e)' = EntryIn(x, e)
  BY <1>1, EntryPrimes
<1>7. ASSUME NEW k \in DOMAIN work
      PROVE  /\ <<work[k].pt_addr, work[k].vec, step>> \in AtSlot'
             /\ Slot(work[k].pt_addr) \in DOMAIN held
             /\ \E e \in held[Slot(work[k].pt_addr)] : EntryIn(pt_read'[k], e)
  <2>1. <<work[k].pt_addr, work[k].vec, step>> \in AtSlot'
    BY <1>1, <1>3, <1>4, <1>5 DEF LevelRight, CheckRight
  <2> DEFINE a == work[k].pt_addr
  <2>2. a \in Nat /\ Readable(a) /\ pt_read'[k] = EntryAt(a)
    BY <1>1, WorkFacts DEF BothInv
  <2> HIDE DEF a
  <2>3. /\ Slot(a) \in DOMAIN mem /\ mem[Slot(a)] \in Entry /\ EntryAt(a) \in Nat
        /\ \E n \in Nat : EntryAt(a) = mem[Slot(a)] + n * pow2[arch.entry_bits]
    BY <1>1, <2>2, ReadFacts
  <2>4. mem[Slot(a)] \in held[Slot(a)] /\ Slot(a) \in DOMAIN held
    BY <2>3 DEF BothInv, SideInv
  <2>5. mem[Slot(a)] \in Nat
    BY <2>4, HeldEntries
  <2>6. EntryIn(EntryAt(a), mem[Slot(a)])
    BY <2>3, <2>5 DEF EntryIn
  <2> QED BY <2>1, <2>2, <2>4, <2>6 DEF a
<1>8. CompareRight'
  <2>1. Followed' = {}
    BY <1>1 DEF Followed
  <2> QED BY <1>1, <1>5, <1>6, <1>7, <2>1 DEF CompareRight, Slot, EntryIn
<1>9. FullVecs' /\ RestRight' /\ CheckRight'
  BY <1>1, <1>3 DEF LevelRight, FullVecs, Vecs, RestRight, CheckRight
<1>10. AnswersRight'
  BY <1>1, <1>2, <1>3, AnswersKept
<1> QED BY <1>8, <1>9, <1>10 DEF LevelRight

LEMMA ReadErrorRight ==
    ASSUME BothInv, BothInv', RightInv, ReadError, NoGaps', Walked' # {}
    PROVE  LevelRight' /\ AnswersRight'
<1> DEFINE left == UNION {work[k].vec : k \in DOMAIN work}
<1>1. /\ pc = "read" /\ work' = <<>> /\ rest' = rest /\ out' = out /\ pc' = "done"
      /\ out_fail' = out_fail \cup left /\ unread' = unread \cup left
      /\ rejected' = rejected /\ InputInv /\ rest = <<>> /\ UNCHANGED input /\ held' = held
  BY DEF ReadError, BothInv, WalkInv, WorkTypes, input
<1>2. Steady
  <2>1. DOMAIN rest = {} /\ DOMAIN work' = {} /\ DOMAIN rest' = {}
    BY <1>1
  <2>2. InWork = left /\ InWork' = {}
    BY <2>1 DEF InWork
  <2>3. Answered' = Answered \cup left
    BY <1>1 DEF Answered, TranslatedRanges
  <2>4. InWork' \cup Answered' = InWork \cup Answered
    BY <2>2, <2>3
  <2> QED BY <1>1, <2>4, SameLive DEF Steady, Grows
<1>3. LevelRight /\ AnswersRight /\ Walked' = Walked
  BY <1>1, <1>2, Ready
<1>4. out_fail' \ (rejected' \cup unread') \subseteq out_fail \ (rejected \cup unread)
  BY <1>1
<1>5. AnswersRight'
  BY <1>1, <1>2, <1>3, <1>4, AnswersKept
<1>6. FullVecs' /\ RestRight' /\ CheckRight' /\ CompareRight'
  <2>1. DOMAIN work' = {} /\ DOMAIN rest' = {}
    BY <1>1
  <2> QED BY <1>1, <2>1 DEF FullVecs, Vecs, RestRight, CheckRight, CompareRight
<1> QED BY <1>5, <1>6 DEF LevelRight

LEMMA NextLevelRight ==
    ASSUME BothInv, BothInv', RightInv, NextLevel, NoGaps', Walked' # {}
    PROVE  LevelRight' /\ AnswersRight'
<1>1. /\ pc = "compare" /\ i = 0 /\ work' = work /\ rest' = rest /\ out' = out /\ rest = <<>>
      /\ out_fail' = out_fail /\ i' = Len(work) /\ step' = step + 1 /\ pc' = "check"
      /\ rejected' = rejected /\ unread' = unread /\ InputInv
  BY DEF NextLevel, results, history, BothInv, WalkInv, WorkTypes
<1>2. Steady
  BY <1>1, QuietSteady DEF Next, Walk
<1>3. LevelRight /\ AnswersRight /\ Walked' = Walked
  BY <1>1, <1>2, Ready
<1>4. \A c \in AtEntry : c \in AtEntry'
  BY <1>1, <1>2, ChunksStay
<1>5. CheckRight'
  <2>1. \A k \in DOMAIN work : k > i /\ k <= i' /\ ~(k > i')
    BY <1>1, WorkFacts DEF BothInv
  <2>2. \A k \in DOMAIN work : <<work[k].pt_addr, work[k].vec, step + 1>> \in AtEntry'
    BY <1>1, <1>3, <1>4, <2>1 DEF LevelRight, CompareRight
  <2> QED BY <1>1, <2>1, <2>2 DEF CheckRight
<1>6. FullVecs' /\ RestRight' /\ CompareRight'
  BY <1>1, <1>3 DEF LevelRight, FullVecs, Vecs, RestRight, CompareRight
<1>7. AnswersRight'
  BY <1>1, <1>2, <1>3, AnswersKept
<1> QED BY <1>5, <1>6, <1>7 DEF LevelRight

LEMMA IdleRight ==
    ASSUME BothInv, BothInv', RightInv, GuestWrite \/ UNCHANGED vars, NoGaps', Walked' # {},
           pc \notin {"filter", "panic"}
    PROVE  LevelRight' /\ AnswersRight'
<1>1. /\ work' = work /\ rest' = rest /\ out' = out /\ out_fail' = out_fail /\ i' = i
      /\ step' = step /\ pc' = pc /\ rejected' = rejected /\ unread' = unread /\ InputInv
      /\ pt_read' = pt_read /\ addr_map' = addr_map /\ prev_addr' = prev_addr
  BY DEF GuestWrite, vars, results, loops, BothInv, WalkInv
<1>2. Steady
  BY <1>1, QuietSteady DEF Next, Walk
<1>3. LevelRight /\ AnswersRight /\ Walked' = Walked
  BY <1>1, <1>2, Ready
<1>4. /\ \A c \in AtEntry : c \in AtEntry'
      /\ \A c \in AtSlot : c \in AtSlot'
      /\ \A c \in AtCut : c \in AtCut'
  BY <1>1, <1>2, ChunksStay
<1>5. /\ \A x : Slot(x)' = Slot(x)
      /\ \A x, e : EntryIn(x, e)' = EntryIn(x, e)
      /\ \A s : page_size_step(s)' = page_size_step(s)
      /\ arch' = arch
  BY <1>2, EntryPrimes DEF Steady, input
<1>6. FullVecs' /\ CheckRight'
  BY <1>1, <1>3, <1>4 DEF LevelRight, FullVecs, Vecs, CheckRight
<1>7. RestRight'
  <2>1. page_size_step(step + 1)' = page_size_step(step + 1)
    BY <1>1, <1>5 DEF page_size_step, max_index_bits
  <2> QED BY <1>1, <1>3, <1>4, <2>1 DEF LevelRight, RestRight
<1>8. CompareRight'
  <2>1. Followed' = Followed
    BY <1>1 DEF Followed
  <2>2. \A t \in DOMAIN held : t \in DOMAIN held' /\ held[t] \subseteq held'[t]
    BY <1>2 DEF Steady, Grows
  <2>3. pc = "compare" => \A k \in DOMAIN work :
              /\ k <= i => /\ <<work[k].pt_addr, work[k].vec, step>> \in AtSlot'
                           /\ Slot(work[k].pt_addr) \in DOMAIN held'
                           /\ \E e \in held'[Slot(work[k].pt_addr)] : EntryIn(pt_read[k], e)
              /\ k > i => <<work[k].pt_addr, work[k].vec, step + 1>> \in AtEntry'
    BY <1>3, <1>4, <2>2 DEF LevelRight, CompareRight
  <2>4. pc = "compare" => \A x \in Followed : \E k \in DOMAIN work : k > i /\ work[k].pt_addr = x
    BY <1>3 DEF LevelRight, CompareRight
  <2> QED BY <1>1, <1>5, <2>1, <2>3, <2>4 DEF CompareRight, Slot, EntryIn
<1>9. AnswersRight'
  BY <1>1, <1>2, <1>3, AnswersKept
<1> QED BY <1>6, <1>7, <1>8, <1>9 DEF LevelRight

----------------------------------------------------------------------------
(* Chunks that lead to tables *)

CutRule ==
    \A x, V, s, e, p, y, z :
        /\ x \in Nat /\ V \subseteq Asking /\ s \in 0..Last /\ {e, p, y, z} \subseteq Nat
        /\ s # Last /\ z = page_size_step(s + 1) /\ y = Outer(s)
        /\ EntryIn(x, e) /\ IsTable(e, s) /\ Comes(V, e, s) /\ Remains(V, p, y, z)
        => <<x, V, s>> \in AtCut

LEMMA CutChunks == CutRule
<1> SUFFICES ASSUME NEW x \in Nat, NEW V \in SUBSET Asking, NEW s \in 0..Last,
                    NEW e \in Nat, NEW p \in Nat, NEW y \in Nat, NEW z \in Nat,
                    s # Last, z = page_size_step(s + 1), y = Outer(s),
                    EntryIn(x, e), IsTable(e, s), Comes(V, e, s), Remains(V, p, y, z)
             PROVE  <<x, V, s>> \in AtCut
  BY DEF CutRule
<1> DEFINE c == <<x, V, s>>
<1>1. c[1] = x /\ c[2] = V /\ c[3] = s /\ c \in Standing
  BY DEF Standing
<1> HIDE DEF c
<1>2. /\ c[3] # Last /\ z = page_size_step(c[3] + 1) /\ y = Outer(c[3])
      /\ EntryIn(c[1], e) /\ IsTable(e, c[3]) /\ Comes(c[2], e, c[3])
      /\ Remains(c[2], p, y, z)
  BY <1>1
<1>3. c \in AtCut
  BY <1>1, <1>2 DEF AtCut
<1> QED BY <1>3 DEF c

LEMMA CutChunk ==
    ASSUME NEW x, NEW V, NEW s, <<x, V, s>> \in AtCut
    PROVE  /\ x \in Nat /\ V \subseteq Asking /\ s \in 0..Last /\ s # Last
           /\ \E e, p \in Nat :
                 /\ EntryIn(x, e) /\ IsTable(e, s) /\ Comes(V, e, s)
                 /\ Remains(V, p, Outer(s), page_size_step(s + 1))
<1> DEFINE c == <<x, V, s>>
<1>1. c[1] = x /\ c[2] = V /\ c[3] = s
  OBVIOUS
<1>2. c \in Standing /\ \E e, p, y, z \in Nat :
            /\ c[3] # Last /\ z = page_size_step(c[3] + 1) /\ y = Outer(c[3])
            /\ EntryIn(c[1], e) /\ IsTable(e, c[3]) /\ Comes(c[2], e, c[3])
            /\ Remains(c[2], p, y, z)
  BY DEF AtCut
<1> HIDE DEF c
<1>3. \E e, p, y, z \in Nat :
            /\ s # Last /\ z = page_size_step(s + 1) /\ y = Outer(s)
            /\ EntryIn(x, e) /\ IsTable(e, s) /\ Comes(V, e, s)
            /\ Remains(V, p, y, z)
  BY <1>1, <1>2
<1>4. x \in Nat /\ V \subseteq Asking /\ s \in 0..Last
  BY <1>1, <1>2 DEF Standing
<1> QED BY <1>3, <1>4

(* All of a chunk is to be cut. *)
LEMMA CutBegins ==
    ASSUME WellFormed(arch), NEW x, NEW V, NEW s, <<x, V, s>> \in AtEntry,
           check_entry(x, s), ~is_final_mapping(x, s)
    PROVE  <<x, V, s>> \in AtCut
<1>1. x \in Nat /\ V \subseteq Asking /\ s \in 0..Last
  BY EntryChunk
<1>2. PICK e \in Nat, p \in Nat : EntryIn(x, e) /\ Whole(V, p, Outer(s)) /\ Comes(V, e, s)
  BY EntryChunk
<1>3. IsTable(e, s) /\ s # Last
  BY <1>1, <1>2, EntryMeans DEF IsTable
<1>4. page_size_step(s + 1) \in Nat /\ Outer(s) \in Nat
  BY <1>1, ArchFacts, StepSize DEF Outer
<1> DEFINE y == Outer(s)
           z == page_size_step(s + 1)
<1>5. Remains(V, p, y, z)
  BY <1>2 DEF Remains, Whole
<1> QED BY <1>1, <1>2, <1>3, <1>4, <1>5, CutChunks DEF CutRule

LEMMA DescendRight ==
    ASSUME BothInv, BothInv', RightInv, Descend, NoGaps', Walked' # {}
    PROVE  LevelRight' /\ AnswersRight'
<1> DEFINE c == work[i]
<1>1. /\ pc = "check" /\ i > 0 /\ i \in 1..Len(work) /\ i \in DOMAIN work /\ rest = <<>>
      /\ out' = out /\ out_fail' = out_fail /\ unread' = unread /\ rejected' = rejected
      /\ held' = held /\ step' = step /\ InputInv /\ WellFormed(arch)
      /\ rest' = <<[v |-> c, cur_address |-> c.min]>>
      /\ check_entry(c.pt_addr, step) /\ ~is_final_mapping(c.pt_addr, step)
  <2>1. /\ pc = "check" /\ i > 0 /\ rest = <<>>
        /\ out' = out /\ out_fail' = out_fail /\ unread' = unread /\ rejected' = rejected
        /\ held' = held /\ step' = step /\ rest' = <<[v |-> c, cur_address |-> c.min]>>
        /\ check_entry(c.pt_addr, step) /\ ~is_final_mapping(c.pt_addr, step)
    BY DEF Descend, Checking, results, history
  <2>2. i \in 1..Len(work) /\ InputInv /\ WellFormed(arch)
    BY <2>1 DEF BothInv, WalkInv, WorkTypes, InputInv
  <2> QED BY <2>1, <2>2, WorkFacts DEF BothInv
<1>2. Removes
  BY <1>1 DEF Descend, Checking, Removes, loops, history, input
<1>3. DOMAIN rest' = {1} /\ rest'[1].v = c /\ rest'[1].cur_address = c.min /\ rest' # <<>>
  <2> HIDE DEF c
  <2> QED BY <1>1
<1>4. Vecs' = Vecs
  <2>1. Vecs = {work'[j].vec : j \in DOMAIN work'} \cup {c.vec}
    BY <1>2, RemovedVecs DEF BothInv
  <2>2. Vecs' = {work'[j].vec : j \in DOMAIN work'} \cup {rest'[k].v.vec : k \in DOMAIN rest'}
    BY DEF Vecs
  <2> HIDE DEF c
  <2> QED BY <1>3, <2>1, <2>2
<1>5. Steady
  <2>1. InWork = UNION Vecs /\ InWork' = UNION Vecs'
    BY DEF InWork, Vecs
  <2>2. Answered' = Answered
    BY <1>1 DEF Answered, TranslatedRanges
  <2>3. UNCHANGED input /\ Grows
    BY <1>1, <1>2 DEF Removes, Grows
  <2> QED BY <1>1, <1>4, <2>1, <2>2, <2>3, SameLive DEF Steady
<1>6. LevelRight /\ AnswersRight /\ Walked' = Walked
  BY <1>1, <1>5, Ready
<1>7. CheckRight'
  BY <1>2, <1>5, RemovedRight
<1>8. FullVecs'
  BY <1>4, <1>6 DEF LevelRight, FullVecs
<1>9. RestRight'
  <2>1. <<c.pt_addr, c.vec, step>> \in AtEntry
    <3>1. i <= i
      BY <1>1
    <3> QED BY <1>1, <1>6, <3>1 DEF LevelRight, CheckRight
  <2> HIDE DEF c
  <2>2. <<c.pt_addr, c.vec, step>> \in AtCut
    BY <1>1, <2>1, CutBegins
  <2>3. <<c.pt_addr, c.vec, step>> \in AtCut'
    BY <1>1, <1>5, <2>2, ChunksStay
  <2> QED BY <1>1, <1>3, <2>3 DEF RestRight
<1>10. CompareRight'
  BY <1>1, <1>2 DEF CompareRight, Removes
<1>11. AnswersRight'
  <2>1. out_fail' \ (rejected' \cup unread') \subseteq out_fail \ (rejected \cup unread)
    BY <1>1
  <2> QED BY <1>1, <1>5, <1>6, <2>1, AnswersKept
<1> QED BY <1>7, <1>8, <1>9, <1>10, <1>11 DEF LevelRight

(* An entry that was read is the entry of its chunk at the next level.     *)
LEMMA FollowsTo ==
    ASSUME InputInv, NEW a, NEW V, NEW s, <<a, V, s>> \in AtSlot, Slot(a) \in DOMAIN held,
           NEW y \in held[Slot(a)], NEW x, EntryIn(x, y)
    PROVE  <<x, V, s + 1>> \in AtEntry
<1>1. WellFormed(arch) /\ Last \in Nat
  BY ArchFacts DEF InputInv
<1>2. a \in Nat /\ V \subseteq Asking /\ s \in 0..(Last - 1) /\ s + 1 \in 0..Last /\ s + 1 # 0
  BY <1>1, SlotChunk
<1> DEFINE z == page_size_step(s + 1)
<1>3. PICK e \in Nat, p \in Nat :
            /\ IsTable(e, s) /\ Whole(V, p, z) /\ Comes(V, e, s)
            /\ \A r \in V : \A b \in Bytes(r) : a = SlotOf(b, s, e) * pow2[arch.pte_bits]
  BY SlotChunk
<1>4. Comes(V, y, s + 1)
  <2> SUFFICES ASSUME NEW r \in V, NEW b \in Bytes(r) PROVE y \in Reach(b)[s + 1]
    BY DEF Comes
  <2>1. b \in Nat
    <3>1. b \in Addr
      BY <1>2, BytesAre
    <3>2. Word \in Nat \ {0}
      BY RequestFacts
    <3> QED BY <3>1, <3>2 DEF Addr
  <2>2. Slot(a) = SlotOf(b, s, e)
    <3>1. a = SlotOf(b, s, e) * pow2[arch.pte_bits]
      BY <1>3
    <3> QED BY <1>1, <1>2, <1>3, <2>1, <3>1, SlotRead
  <2>3. e \in Reach(b)[s]
    BY <1>3 DEF Comes
  <2> QED BY <1>1, <1>2, <1>3, <2>2, <2>3, ReachSteps
<1>5. z \in Nat /\ z = Outer(s + 1)
  <2>1. z \in Nat
    BY <1>1, <1>2, StepSize
  <2> QED BY <1>2, <2>1 DEF Outer
<1>6. x \in Nat /\ y \in Nat
  BY DEF EntryIn
<1> QED BY <1>2, <1>3, <1>4, <1>5, <1>6, EntryChunks DEF EntryRule

LEMMA FollowRight ==
    ASSUME BothInv, BothInv', RightInv, Follow, NoGaps', Walked' # {}
    PROVE  LevelRight' /\ AnswersRight'
<1> DEFINE n == Len(work)
           w == swap_remove(work, i)
           x == pt_read[i]
           c == [work[i] EXCEPT !.pt_addr = x]
<1>1. /\ pc = "compare" /\ i > 0 /\ i \in 1..n /\ i \in DOMAIN work /\ rest = <<>> /\ rest' = rest
      /\ out' = out /\ out_fail' = out_fail /\ unread' = unread /\ rejected' = rejected
      /\ held' = held /\ step' = step /\ pc' = pc /\ i' = i - 1 /\ pt_read' = pt_read
      /\ InputInv /\ UNCHANGED input /\ x \in Nat /\ n \in Nat /\ i \in Nat
  <2>1. /\ pc = "compare" /\ i > 0
        /\ out' = out /\ out_fail' = out_fail /\ unread' = unread /\ rejected' = rejected
        /\ held' = held /\ step' = step /\ pc' = pc /\ i' = i - 1 /\ rest' = rest
        /\ pt_read' = pt_read /\ UNCHANGED input
    BY DEF Follow, Comparing, Uncompared, history, input
  <2>2. /\ i \in Nat /\ i <= n /\ InputInv /\ rest = <<>> /\ n \in Nat /\ DOMAIN work = 1..n
        /\ \A k \in 1..i : pt_read[k] \in Nat
    BY <2>1, WorkFacts DEF BothInv, WalkInv, WorkTypes
  <2>3. i \in 1..i /\ i \in 1..n
    BY <2>1, <2>2
  <2> HIDE DEF n
  <2> QED BY <2>1, <2>2, <2>3
<1>2. /\ DOMAIN w = 1..(n - 1)
      /\ \A j \in DOMAIN w : \E m \in DOMAIN work :
            w[j] = work[m] /\ m # i /\ (j < i => m = j) /\ (j >= i => m > i)
      /\ \A m \in DOMAIN work : m # i => \E j \in DOMAIN w :
            w[j] = work[m] /\ (m > i => j >= i)
  BY <1>1, SwapIs DEF BothInv
<1>3. w \in Seq(ChunkRec) /\ Len(w) = n - 1
  BY <1>1, SwapFacts DEF BothInv, WalkInv, WorkTypes
<1>4. work' = Append(w, c)
  BY DEF Follow
<1>5. c.vec = work[i].vec /\ c.pt_addr = x
  <2>1. work[i] \in ChunkRec
    BY <1>1, WorkFacts DEF BothInv
  <2> HIDE DEF x
  <2> QED BY <2>1 DEF ChunkRec
<1> HIDE DEF w, c, x, n
<1>6. /\ DOMAIN work' = 1..n /\ work'[n] = c /\ n \in 1..n
      /\ \A j \in 1..(n - 1) : work'[j] = w[j] /\ j \in DOMAIN w /\ j \in 1..n
      /\ \A j \in 1..n : j # n => j \in 1..(n - 1)
  BY <1>1, <1>2, <1>3, <1>4
<1>7. Vecs' = Vecs
  <2>1. DOMAIN rest = {}
    BY <1>1
  <2>2. \A j \in DOMAIN work' : \E m \in DOMAIN work : work'[j].vec = work[m].vec
    BY <1>1, <1>2, <1>5, <1>6
  <2>3. ASSUME NEW m \in DOMAIN work PROVE \E j \in DOMAIN work' : work'[j].vec = work[m].vec
    <3>1. CASE m = i
      BY <1>5, <1>6, <3>1
    <3>2. CASE m # i
      <4>1. PICK j \in DOMAIN w : w[j] = work[m]
        BY <1>2, <3>2
      <4> QED BY <1>2, <1>6, <4>1
    <3> QED BY <3>1, <3>2
  <2> QED BY <1>1, <2>1, <2>2, <2>3 DEF Vecs
<1>8. Steady
  <2>1. InWork = UNION Vecs /\ InWork' = UNION Vecs'
    BY DEF InWork, Vecs
  <2>2. Answered' = Answered
    BY <1>1 DEF Answered, TranslatedRanges
  <2> QED BY <1>1, <1>7, <2>1, <2>2, SameLive DEF Steady, Grows
<1>9. LevelRight /\ AnswersRight /\ Walked' = Walked
  BY <1>1, <1>8, Ready
<1>10. /\ \A t \in AtEntry : t \in AtEntry'
       /\ \A t \in AtSlot : t \in AtSlot'
  BY <1>1, <1>8, ChunksStay
<1>11. <<x, c.vec, step + 1>> \in AtEntry'
  <2> DEFINE a == work[i].pt_addr
  <2>1. i <= i
    BY <1>1
  <2>2. /\ <<a, c.vec, step>> \in AtSlot /\ Slot(a) \in DOMAIN held
        /\ \E e \in held[Slot(a)] : EntryIn(x, e)
    BY <1>1, <1>5, <1>9, <2>1 DEF LevelRight, CompareRight, x
  <2> HIDE DEF a
  <2>3. PICK e \in held[Slot(a)] : EntryIn(x, e)
    BY <2>2
  <2>4. <<x, c.vec, step + 1>> \in AtEntry
    BY <1>1, <2>2, <2>3, FollowsTo
  <2> QED BY <1>10, <2>4
<1>12. \A j \in 1..n : /\ j <= i' => j < i /\ j # n
                       /\ j > i' => j >= i
  BY <1>1
<1>13. ASSUME NEW j \in DOMAIN work'
       PROVE  /\ j <= i' => /\ <<work'[j].pt_addr, work'[j].vec, step>> \in AtSlot'
                            /\ Slot(work'[j].pt_addr) \in DOMAIN held
                            /\ \E e \in held[Slot(work'[j].pt_addr)] : EntryIn(pt_read[j], e)
              /\ j > i' => <<work'[j].pt_addr, work'[j].vec, step + 1>> \in AtEntry'
  <2>1. CASE j = n
    BY <1>5, <1>6, <1>11, <1>12, <2>1
  <2>2. CASE j # n
    <3>1. j \in DOMAIN w /\ work'[j] = w[j]
      BY <1>6, <2>2
    <3>2. PICK m \in DOMAIN work :
            w[j] = work[m] /\ m # i /\ (j < i => m = j) /\ (j >= i => m > i)
      BY <1>2, <3>1
    <3>3. /\ m <= i => /\ <<work[m].pt_addr, work[m].vec, step>> \in AtSlot
                       /\ Slot(work[m].pt_addr) \in DOMAIN held
                       /\ \E e \in held[Slot(work[m].pt_addr)] : EntryIn(pt_read[m], e)
          /\ m > i => <<work[m].pt_addr, work[m].vec, step + 1>> \in AtEntry
      BY <1>1, <1>9 DEF LevelRight, CompareRight
    <3>4. /\ j <= i' => m = j /\ m <= i
          /\ j > i' => m > i
      BY <1>1, <1>6, <1>12, <3>2
    <3> QED BY <1>10, <3>1, <3>2, <3>3, <3>4
  <2> QED BY <2>1, <2>2
<1>14. ASSUME NEW y \in Followed' PROVE \E k \in DOMAIN work' : k > i' /\ work'[k].pt_addr = y
  <2>1. CASE y = x
    <3>1. n > i'
      BY <1>1
    <3> QED BY <1>5, <1>6, <2>1, <3>1
  <2>2. CASE y # x
    <3>1. /\ addr_map' = IF prev_addr = None THEN addr_map ELSE addr_map \cup {prev_addr}
          /\ prev_addr' = x
      BY DEF Follow, x
    <3>2. y \in Followed
      BY <2>2, <3>1 DEF Followed
    <3>3. PICK m \in DOMAIN work : m > i /\ work[m].pt_addr = y
      BY <1>1, <1>9, <3>2 DEF LevelRight, CompareRight
    <3>4. m # i
      BY <1>1, <3>3
    <3>5. PICK j \in DOMAIN w : w[j] = work[m] /\ j >= i
      BY <1>2, <3>3, <3>4
    <3>6. j \in 1..(n - 1) /\ j \in DOMAIN work' /\ work'[j] = w[j] /\ j > i'
      BY <1>1, <1>2, <1>6, <3>5
    <3> QED BY <3>3, <3>5, <3>6
  <2> QED BY <2>1, <2>2
<1>15. CompareRight'
  <2>1. /\ \A t : Slot(t)' = Slot(t)
        /\ \A t, e : EntryIn(t, e)' = EntryIn(t, e)
        /\ arch' = arch
    BY <1>1, EntryPrimes DEF input
  <2> QED BY <1>1, <1>13, <1>14, <2>1 DEF CompareRight, Slot, EntryIn
<1>16. FullVecs' /\ CheckRight' /\ RestRight'
  BY <1>1, <1>7, <1>9 DEF LevelRight, FullVecs, CheckRight, RestRight
<1>17. AnswersRight'
  <2>1. out_fail' \ (rejected' \cup unread') \subseteq out_fail \ (rejected \cup unread)
    BY <1>1
  <2> QED BY <1>1, <1>8, <1>9, <2>1, AnswersKept
<1> QED BY <1>15, <1>16, <1>17 DEF LevelRight

----------------------------------------------------------------------------
(* Where a chunk is cut *)

(* The rest of the page of an address, counted as page_chunks counts it.   *)
EndsPage(x, z, w) ==
    LET next == (x + z) % w IN
    /\ ((next - (next % z)) - x - 1) % w = z - 1 - (x % z)
    /\ (x + (z - 1 - (x % z)) + 1) % z = 0

LEMMA PageEnd ==
    ASSUME NEW z \in Nat \ {0}, NEW x \in Int, NEW w, \E c \in Nat \ {0} : w = z * c
    PROVE  EndsPage(x, z, w)
<1>0. PICK c \in Nat \ {0} : w = z * c
  OBVIOUS
<1> DEFINE next == (x + z) % w
           q == (x + z) \div w
           r == x % z
           d == x \div z
<1>1. w \in Nat \ {0} /\ w = z * c /\ z <= w /\ z * (d + 1) = z * d + z
  <2>1. z * 1 <= z * c /\ z * c \in Nat \ {0}
    <3>1. 1 <= c
      OBVIOUS
    <3>2. CASE c = 1
      BY <3>2
    <3>3. CASE 1 < c
      <4>1. z * 1 + z <= z * c
        BY <3>3, Multiples
      <4> QED BY <4>1
    <3> QED BY <3>1, <3>2, <3>3
  <2>2. d \in Int
    BY Euclid
  <2> HIDE DEF d
  <2> QED BY <1>0, <2>1, <2>2
<1>2. x + z = w * q + next /\ next \in 0..(w - 1) /\ q \in Int
  <2> DEFINE u == x + z
  <2>1. u \in Int
    OBVIOUS
  <2> HIDE DEF u
  <2>2. u = w * (u \div w) + (u % w) /\ u % w \in 0..(w - 1) /\ u \div w \in Int
    BY <1>1, <2>1, Euclid
  <2> QED BY <2>2 DEF u
<1>3. x = z * d + r /\ r \in 0..(z - 1) /\ d \in Int
  BY Euclid
<1>4. next % z = r
  <2>1. x + z \in Int
    OBVIOUS
  <2>2. ((x + z) % (z * c)) % z = (x + z) % z
    BY <2>1, ModOfMod
  <2>3. Splits(x + z, z, d + 1, r)
    <3> HIDE DEF d, r
    <3> QED BY <1>1, <1>3 DEF Splits
  <2>4. (x + z) % z = r
    BY <2>3, DivMod
  <2> QED BY <1>0, <2>2, <2>4
<1> HIDE DEF next, q, r, d
<1>5. ((next - r) - x - 1) % w = z - 1 - r
  <2> DEFINE u == (next - r) - x - 1
             t == z - 1 - r
  <2>1. u = t + w * (-q) /\ u \in Int /\ t \in 0..(w - 1)
    <3>1. w * (-q) = -(w * q) /\ w * q \in Int
      BY <1>1, <1>2
    <3> QED BY <1>1, <1>2, <1>3, <3>1
  <2>2. Splits(u, w, -q, t)
    <3> HIDE DEF u, t
    <3> QED BY <1>1, <1>2, <2>1 DEF Splits
  <2> QED BY <2>2, DivMod
<1>6. (x + (z - 1 - r) + 1) % z = 0
  <2> DEFINE u == x + (z - 1 - r) + 1
  <2>1. u = z * (d + 1) /\ u \in Int
    <3>1. z * d \in Int
      BY <1>3
    <3> QED BY <1>1, <1>3, <3>1
  <2>2. Splits(u, z, d + 1, 0)
    <3> HIDE DEF u
    <3> QED BY <1>1, <1>3, <2>1 DEF Splits
  <2> QED BY <2>2, DivMod
<1> QED BY <1>4, <1>5, <1>6 DEF EndsPage, next, r

(* The last byte of a page parts what is on it from what comes after.      *)
LEMMA PageParts ==
    ASSUME NEW z \in Nat \ {0}, NEW x \in Nat, NEW b \in Nat
    PROVE  LET e == x + (z - 1 - (x % z)) IN
           /\ x <= b /\ b <= e => b \div z = x \div z
           /\ b > e => b \div z > x \div z
<1> DEFINE q == x \div z
           r == x % z
           d == b \div z
           m == b % z
<1>1. x = z * q + r /\ r \in 0..(z - 1) /\ q \in Int
  BY Euclid
<1>2. b = z * d + m /\ m \in 0..(z - 1) /\ d \in Int
  BY Euclid
<1> HIDE DEF q, r, d, m
<1>3. z * q \in Int /\ z * d \in Int
  BY <1>1, <1>2
<1>4. q < d => z * q + z <= z * d
  BY <1>1, <1>2, Multiples
<1>5. d < q => z * d + z <= z * q
  BY <1>1, <1>2, Multiples
<1>6. ASSUME x <= b, b <= x + (z - 1 - r) PROVE d = q
  <2>1. ~(q < d)
    BY <1>1, <1>2, <1>3, <1>4, <1>6
  <2>2. ~(d < q)
    BY <1>1, <1>2, <1>3, <1>5, <1>6
  <2> QED BY <1>1, <1>2, <2>1, <2>2
<1>7. ASSUME b > x + (z - 1 - r) PROVE d > q
  <2>1. q # d
    BY <1>1, <1>2, <1>3, <1>7
  <2>2. ~(d < q)
    BY <1>1, <1>2, <1>3, <1>5, <1>7
  <2> QED BY <1>1, <1>2, <2>1, <2>2
<1> QED BY <1>6, <1>7 DEF q, r, d

(* The sizes of pages divide those of larger ones and the address space.   *)
LEMMA StepsFit ==
    ASSUME WellFormed(arch), NEW s \in 0..Last
    PROVE  max_index_bits(s) <= arch.word_bits
<1>1. Last \in Nat /\ 0 \in 0..Last
  BY ArchFacts
<1> DEFINE S == {k \in 0..Last : max_index_bits(k) <= arch.word_bits}
<1>2. 0 \in S
  <2>1. /\ max_index_bits(0) <= arch.addr_bits /\ arch.addr_bits <= arch.word_bits
        /\ arch.addr_bits \in Nat /\ arch.word_bits \in Nat
    BY DEF WellFormed, max_index_bits
  <2>2. max_index_bits(0) \in Nat
    BY <1>1, StepSize
  <2> QED BY <1>1, <2>1, <2>2
<1>3. ASSUME NEW k \in 1..Last, k - 1 \in S PROVE k \in S
  <2>1. k - 1 \in 0..Last /\ k - 1 + 1 = k /\ k \in 0..Last /\ k - 1 \in 0..(Last + 1)
        /\ k \in 0..(Last + 1)
    BY <1>1
  <2>2. max_index_bits(k - 1) = split(k - 1) + max_index_bits(k - 1 + 1)
    BY <2>1, ArchFacts
  <2>3. max_index_bits(k - 1) <= arch.word_bits
    BY <1>3
  <2>4. /\ max_index_bits(k) \in Nat /\ max_index_bits(k - 1) \in Nat
        /\ split(k - 1) \in Nat /\ arch.word_bits \in Nat
    BY <2>1, ArchFacts
  <2> QED BY <2>1, <2>2, <2>3, <2>4
<1> HIDE DEF S
<1>4. s \in S
  <2>1. \A k \in 0..Last : k \in S
    BY <1>1, <1>2, <1>3, UpTo
  <2> QED BY <2>1
<1> QED BY <1>4 DEF S

LEMMA SizesDivide ==
    ASSUME WellFormed(arch), NEW s \in 0..(Last - 1)
    PROVE  LET z == page_size_step(s + 1) IN
           /\ z \in Nat \ {0} /\ Outer(s) \in Nat \ {0} /\ Word \in Nat \ {0}
           /\ \E c \in Nat \ {0} : Word = z * c
           /\ \E q \in Nat \ {0} : Outer(s) = z * q
<1>1. Last \in Nat /\ s \in 0..Last /\ s + 1 \in 0..Last
  BY ArchFacts
<1>2. /\ page_size_step(s + 1) \in Nat \ {0} /\ page_size_step(s) \in Nat \ {0}
      /\ page_size_step(s) = page_size_step(s + 1) * pow2[split(s)]
      /\ pow2[split(s)] \in Nat \ {0} /\ Word \in Nat \ {0}
      /\ max_index_bits(s + 1) \in Nat /\ max_index_bits(s + 1) <= arch.word_bits
      /\ arch.word_bits \in Nat
  BY <1>1, StepSize, StepsFit, ArchFacts
<1>3. /\ Word = page_size_step(s + 1) * pow2[arch.word_bits - max_index_bits(s + 1)]
      /\ pow2[arch.word_bits - max_index_bits(s + 1)] \in Nat \ {0}
  BY <1>2, PowMonotone DEF Word, page_size_step
<1> QED BY <1>2, <1>3 DEF Outer

(* Every byte left of the cut is before every byte right of it.            *)
LEMMA SplitOrder ==
    ASSUME InputInv, NEW c \in ChunkRec, NEW idx \in Nat, c.vec # {},
           \A r \in c.vec : Word - 1 \notin Bytes(r)
    PROVE  LET parts == split_at_inclusive(c, idx)
               right == IF Len(parts) = 1 THEN {} ELSE parts[2].vec
           IN  /\ \A r \in parts[1].vec : \A b \in Bytes(r) : b <= c.min + idx
               /\ \A r \in right : \A b \in Bytes(r) : b > c.min + idx
               /\ \A r \in c.vec : \A b \in Bytes(r) : c.min <= b
<1> DEFINE V == c.vec
           parts == split_at_inclusive(c, idx)
           right == IF Len(parts) = 1 THEN {} ELSE parts[2].vec
           len == (c.max - c.min) % Word
           e == (c.min + idx) % Word
           A == LeftOf(V, e)
           B == RightOf(V, e)
<1>1. /\ V \in SUBSET Asking /\ c.pt_addr \in Nat /\ c.min \in Addr /\ c.max \in Addr
      /\ c.min = MinAddr(V) /\ c.max = MaxAddr(V)
  BY DEF ChunkRec
<1>2. Word \in Nat \ {0} /\ c.min \in 0..(Word - 1) /\ c.max \in 0..(Word - 1)
  BY <1>1, RequestFacts DEF Addr
<1>3. \A r \in V : /\ r \in Asking /\ r.addr \in 0..(Word - 1) /\ r.len \in Nat \ {0}
                   /\ r.addr + r.len <= Word - 1 /\ RangeEnd(r) = r.addr + r.len
                   /\ \A b : b \in Bytes(r) <=> b \in r.addr..(r.addr + r.len - 1)
                   /\ c.min <= r.addr /\ r.addr + r.len <= c.max
  <2> TAKE r \in V
  <2>1. /\ r \in Asking /\ r.addr \in 0..(Word - 1) /\ r.len \in Nat \ {0}
    BY <1>1, BytesAre DEF Addr
  <2>2. /\ r.addr + r.len <= Word - 1 /\ RangeEnd(r) = r.addr + r.len
        /\ \A b : b \in Bytes(r) <=> b \in r.addr..(r.addr + r.len - 1)
    BY <2>1, Straight
  <2>3. \A t \in V : t.addr \in Addr /\ t.len \in Nat
    BY <1>1 DEF Asking
  <2>4. c.min <= r.addr /\ RangeEnd(r) <= c.max
    BY <1>1, <1>2, <2>3, Bounds
  <2> QED BY <2>1, <2>2, <2>4
<1>4. c.min < c.max /\ len = c.max - c.min
  <2>1. PICK r \in V : TRUE
    OBVIOUS
  <2>2. c.min < c.max
    BY <1>2, <1>3
  <2>3. c.max - c.min \in 0..(Word - 1)
    BY <1>2, <2>2
  <2> QED BY <1>2, <2>2, <2>3, SmallDiv
<1>5. \A r \in V : \A b \in Bytes(r) : c.min <= b /\ b < c.max
  BY <1>2, <1>3
<1> HIDE DEF len
<1>6. CASE len <= idx
  <2>1. parts = <<c>>
    BY <1>6 DEF split_at_inclusive, len
  <2> HIDE DEF parts
  <2>2. Len(parts) = 1 /\ parts[1] = c
    BY <2>1
  <2>3. right = {}
    BY <2>2
  <2>4. \A r \in V : \A b \in Bytes(r) : b <= c.min + idx
    <3> TAKE r \in V
    <3> TAKE b \in Bytes(r)
    <3>1. b \in Int /\ b < c.max
      BY <1>2, <1>3, <1>5
    <3> QED BY <1>2, <1>4, <1>6, <3>1
  <2> QED BY <1>5, <2>2, <2>3, <2>4 DEF parts
<1>7. CASE ~(len <= idx)
  <2>1. c.min + idx \in 0..(Word - 1) /\ c.min + idx + 1 <= c.max
    BY <1>2, <1>4, <1>7
  <2>2. e = c.min + idx /\ e \in Addr
    BY <1>2, <2>1, SmallDiv DEF Addr
  <2>3. Min({len - 1, idx}) = idx
    <3>1. len - 1 \in Int /\ idx \in Int /\ (len - 1 <= idx => len - 1 = idx)
      BY <1>2, <1>4, <1>7
    <3> QED BY <3>1, MinOfTwo
  <2>4. parts = <<Chunk(c.pt_addr, A)>> \o (IF B = {} THEN <<>> ELSE <<Chunk(c.pt_addr, B)>>)
    BY <1>7, <2>3 DEF split_at_inclusive, len
  <2>5. Chunk(c.pt_addr, A).vec = A /\ Chunk(c.pt_addr, B).vec = B
    BY DEF Chunk
  <2> HIDE DEF e
  <2>6. \A r \in A : \A b \in Bytes(r) : b <= e
    <3> SUFFICES ASSUME NEW t \in V, t.addr <= e, NEW b \in Bytes(HeadOf(t, e)) PROVE b <= e
      BY DEF LeftOf
    <3> DEFINE h == HeadOf(t, e)
    <3>0. t \in Asking /\ t.addr \in 0..(Word - 1) /\ t.len \in Nat \ {0}
      BY <1>3
    <3>1. /\ h \in Asking /\ h.addr = t.addr
          /\ h.len = IF t.len <= e - t.addr + 1 THEN t.len ELSE e - t.addr + 1
      BY <2>2, <3>0, HeadFacts
    <3> HIDE DEF h
    <3>2. b \in Bytes(h)
      BY DEF h
    <3>3. PICK k \in 0..(h.len - 1) : b = (h.addr + k) % Word
      BY <3>2 DEF Bytes
    <3>4. e \in 0..(Word - 1)
      BY <2>2 DEF Addr
    <3>5. h.addr + k \in 0..(Word - 1) /\ h.addr + k <= e
      BY <1>2, <3>0, <3>1, <3>4
    <3> QED BY <1>2, <3>3, <3>5, SmallDiv
  <2>7. \A r \in B : \A b \in Bytes(r) : b > e
    <3>1. ASSUME NEW r \in V, r.addr > e, NEW b \in Bytes(r) PROVE b > e
      <4>1. b \in r.addr..(r.addr + r.len - 1) /\ r.addr \in Nat /\ e \in Nat
        BY <1>2, <1>3, <2>2, <3>1 DEF Addr
      <4> QED BY <3>1, <4>1
    <3>2. ASSUME NEW t \in V, t.addr <= e, t.len > e - t.addr + 1, NEW b \in Bytes(TailOf(t, e))
          PROVE  b > e
      <4> DEFINE h == TailOf(t, e)
      <4>0. t \in Asking /\ t.addr \in 0..(Word - 1) /\ t.len \in Nat \ {0}
            /\ t.addr + t.len <= Word - 1
        BY <1>3
      <4>1. h \in Asking /\ h.addr = (e + 1) % Word /\ h.len = t.len - (e - t.addr + 1)
        BY <2>2, <3>2, <4>0, TailFacts
      <4> HIDE DEF h
      <4>2. e \in 0..(Word - 1) /\ e + 1 \in 0..(Word - 1)
        BY <1>2, <2>1, <2>2
      <4>3. h.addr = e + 1
        BY <1>2, <4>1, <4>2, SmallDiv
      <4>4. PICK k \in 0..(h.len - 1) : b = (h.addr + k) % Word
        BY <3>2 DEF Bytes, h
      <4>5. h.addr + k \in 0..(Word - 1) /\ h.addr + k > e
        BY <1>2, <4>0, <4>1, <4>2, <4>3
      <4> QED BY <1>2, <4>4, <4>5, SmallDiv
    <3> QED BY <3>1, <3>2 DEF RightOf
  <2> HIDE DEF A, B
  <2>8. parts[1].vec = A /\ right \subseteq B
    <3>1. CASE B = {}
      <4>1. parts = <<Chunk(c.pt_addr, A)>>
        BY <2>4, <3>1
      <4> HIDE DEF parts
      <4>2. Len(parts) = 1 /\ parts[1] = Chunk(c.pt_addr, A)
        BY <4>1
      <4> QED BY <2>5, <4>2
    <3>2. CASE B # {}
      <4> DEFINE a == Chunk(c.pt_addr, A)
                 d == Chunk(c.pt_addr, B)
      <4>1. parts = <<a>> \o <<d>>
        BY <2>4, <3>2
      <4> HIDE DEF a, d, parts
      <4>2. Len(parts) = 2 /\ parts[1] = a /\ parts[2] = d
        BY <4>1
      <4>3. right = d.vec
        BY <4>2
      <4> QED BY <2>5, <4>2, <4>3 DEF a, d
    <3> QED BY <3>1, <3>2
  <2> HIDE DEF parts, right
  <2> QED BY <1>5, <2>2, <2>6, <2>7, <2>8 DEF parts, right
<1> QED BY <1>6, <1>7

----------------------------------------------------------------------------
(* The two parts of a chunk that is being cut *)

CutSize == page_size_step(step + 1)
CutPage == rest[1].v.min \div CutSize
LeftRanges == Parts[1].vec

PartsStand ==
    /\ CutSize \in Nat \ {0} /\ rest[1].v.min \in Nat /\ CutPage \in Nat
    /\ BeingCut = rest[1].v.vec /\ rest[1].v.min = MinAddr(BeingCut) /\ LeftRanges # {}
    /\ BeingCut \subseteq Asking /\ LeftRanges \subseteq Asking /\ RightRanges \subseteq Asking
    /\ \A r \in LeftRanges : \A b \in Bytes(r) : b \div CutSize = CutPage
    /\ \A r \in RightRanges : \A b \in Bytes(r) : b \div CutSize > CutPage
    /\ \A r \in BeingCut : \A b \in Bytes(r) : b \in Nat /\ rest[1].v.min <= b
    /\ \E r \in BeingCut : rest[1].v.min \in Bytes(r)
    /\ \A r \in LeftRanges \cup RightRanges : \E t \in BeingCut : Bytes(r) \subseteq Bytes(t)
    /\ \A t \in BeingCut : \A b \in Bytes(t) : \E r \in LeftRanges \cup RightRanges : b \in Bytes(r)
    /\ ((rest[1].cur_address + EndLen + 1) % Word) % CutSize = 0

LEMMA PartsHold ==
    ASSUME BothInv, FullVecs, RestRight, NoGaps, rest # <<>>
    PROVE  PartsStand
<1> DEFINE c == rest[1].v
           cur == rest[1].cur_address
           V == c.vec
           z == CutSize
<1>1. /\ WalkInv /\ InputInv /\ WellFormed(arch) /\ c \in ChunkRec /\ cur \in Addr
      /\ BeingCut = V /\ 1 \in DOMAIN rest
  BY WorkFacts DEF BothInv, WalkInv, InputInv
<1>2. /\ EndLen \in Nat /\ step \in 0..(Last - 1)
      /\ IsCut(V, LeftRanges, RightRanges)
      /\ V # {} /\ Fits(V) => LeftRanges # {}
  BY <1>1, PartsFacts DEF LeftRanges
<1>3. V # {}
  BY <1>1 DEF FullVecs, Vecs
<1>4. V \subseteq Asking /\ c.min = MinAddr(V) /\ c.min \in Addr
  BY <1>1 DEF ChunkRec
<1>5. Word \in Nat \ {0} /\ z \in Nat \ {0} /\ \E q \in Nat \ {0} : Word = z * q
  BY <1>1, <1>2, SizesDivide DEF CutSize
<1>6. c.min \in Nat /\ cur \in Int
  BY <1>1, <1>4, <1>5 DEF Addr
<1>7. \A r \in V : Word - 1 \notin Bytes(r)
  <2>1. V \subseteq Live
    BY <1>1, LiveFacts DEF BothInv, SideInv
  <2> QED BY <2>1 DEF NoGaps, Walked, Live
<1>8. Fits(V)
  <2> SUFFICES ASSUME NEW r \in V PROVE r.addr + r.len <= Word
    BY DEF Fits
  <2>1. r \in Asking /\ r.addr + r.len <= Word - 1
    BY <1>1, <1>4, <1>7, Straight
  <2>2. r.addr \in Addr /\ r.len \in Nat
    BY <2>1 DEF Asking
  <2> QED BY <1>5, <2>1, <2>2 DEF Addr
<1>9. EndLen = z - 1 - (c.min % z) /\ ((cur + EndLen + 1) % Word) % z = 0
  <2>1. PICK q \in Nat \ {0} : Word = z * q
    BY <1>5
  <2>2. cur % z = c.min % z
    BY DEF RestRight, CutSize
  <2> DEFINE next == (cur + z) % Word
  <2>3. EndLen = ((next - (next % z)) - cur - 1) % Word
    BY DEF EndLen, CutSize
  <2> HIDE DEF cur, z
  <2>4. /\ ((next - (next % z)) - cur - 1) % Word = z - 1 - (cur % z)
        /\ (cur + (z - 1 - (cur % z)) + 1) % z = 0
    <3>1. EndsPage(cur, z, Word)
      BY <1>5, <1>6, PageEnd
    <3> QED BY <3>1 DEF EndsPage
  <2> HIDE DEF next
  <2>5. EndLen = z - 1 - (cur % z)
    BY <2>3, <2>4
  <2>6. (cur + EndLen + 1) % z = 0
    BY <2>4, <2>5
  <2> DEFINE u == cur + EndLen + 1
  <2>7. u \in Int
    BY <1>2, <1>6
  <2> HIDE DEF u
  <2>8. (u % (z * q)) % z = u % z
    BY <1>5, <2>7, ModOfMod
  <2>9. (u % Word) % z = 0
    BY <2>1, <2>6, <2>8 DEF u
  <2> QED BY <2>2, <2>5, <2>9 DEF u
<1>10. /\ \A r \in LeftRanges : \A b \in Bytes(r) : b <= c.min + EndLen
       /\ \A r \in RightRanges : \A b \in Bytes(r) : b > c.min + EndLen
       /\ \A r \in V : \A b \in Bytes(r) : c.min <= b
  <2> DEFINE idx == EndLen
             parts == split_at_inclusive(c, idx)
             right == IF Len(parts) = 1 THEN {} ELSE parts[2].vec
  <2>1. idx \in Nat /\ c.vec # {} /\ \A r \in c.vec : Word - 1 \notin Bytes(r)
    BY <1>2, <1>3, <1>7
  <2>2. \A r, t \in c.vec : r = t \/ Beside(r, t)
    <3>1. places[0] = V /\ 0 \in DOMAIN places
      <4>1. Len(work) \in Nat
        BY <1>1, WorkFacts
      <4> QED BY <1>1, <4>1, PlaceValues DEF places
    <3> QED BY <1>1, <3>1 DEF WalkInv, Placed, Apart
  <2> HIDE DEF c, idx
  <2>3. /\ \A r \in parts[1].vec : \A b \in Bytes(r) : b <= c.min + idx
        /\ \A r \in right : \A b \in Bytes(r) : b > c.min + idx
        /\ \A r \in c.vec : \A b \in Bytes(r) : c.min <= b
    BY <1>1, <2>1, <2>2, SplitOrder
  <2>4. parts[1].vec = LeftRanges /\ right = RightRanges
    BY DEF Parts, LeftRanges, RightRanges, c, idx
  <2> HIDE DEF parts, right
  <2> QED BY <2>3, <2>4 DEF c, idx
<1>11. /\ \A r \in LeftRanges \cup RightRanges : \E t \in V : Bytes(r) \subseteq Bytes(t)
       /\ \A t \in V : \A b \in Bytes(t) : \E r \in LeftRanges \cup RightRanges : b \in Bytes(r)
  BY <1>1, <1>2, <1>4, CutBytes
<1>12. \A r \in V : \A b \in Bytes(r) : b \in Nat
  <2>1. \A r \in V : Bytes(r) \subseteq Addr
    BY <1>1, <1>4, BytesAre
  <2> QED BY <1>5, <2>1 DEF Addr
<1>13. \E r \in V : c.min \in Bytes(r)
  <2>1. \A r \in V : r.addr \in Addr /\ r.len \in Nat
    BY <1>4 DEF Asking
  <2>2. PICK r \in V : r.addr = c.min
    BY <1>3, <1>4, <1>5, <2>1, Bounds
  <2>3. r.addr \in Bytes(r)
    BY <1>1, <1>4, BytesAre
  <2> QED BY <2>2, <2>3
<1> HIDE DEF c, cur, V, z
<1>14. \A b \in Nat : /\ c.min <= b /\ b <= c.min + EndLen => b \div z = c.min \div z
                      /\ b > c.min + EndLen => b \div z > c.min \div z
  BY <1>5, <1>6, <1>9, PageParts
<1>15. /\ \A r \in LeftRanges : \A b \in Bytes(r) : b \div z = c.min \div z
       /\ \A r \in RightRanges : \A b \in Bytes(r) : b \div z > c.min \div z
  BY <1>10, <1>11, <1>12, <1>14
<1>16. LeftRanges \subseteq Asking /\ RightRanges \subseteq Asking
  BY <1>2 DEF IsCut
<1>17. c.min \div z \in Nat
  BY <1>5, <1>6, DivNat
<1>18. LeftRanges # {}
  BY <1>2, <1>3, <1>8
<1> QED
  BY <1>1, <1>4, <1>5, <1>6, <1>9, <1>10, <1>11, <1>12, <1>13, <1>15, <1>16, <1>17, <1>18
  DEF PartsStand, CutPage, c, cur, V, z

(* The step only cuts ranges. *)
LEMMA PartMoves ==
    ASSUME BothInv, BothInv', NextPart
    PROVE  /\ Live' = (Live \ BeingCut) \cup LeftRanges \cup RightRanges
           /\ UNCHANGED input /\ Grows /\ BeingCut \subseteq Live
           /\ Vecs' = {work[k].vec : k \in DOMAIN work} \cup {LeftRanges} \cup
                         (IF Len(Parts) = 1 THEN {} ELSE {RightRanges})
           /\ \A k \in DOMAIN work : work[k].vec \cap BeingCut = {}
<1>1. /\ pc = "check" /\ rest # <<>> /\ work' = Append(work, NewChunk)
      /\ rest' = IF Len(Parts) = 1 THEN <<>>
                      ELSE <<[v |-> Parts[2],
                              cur_address |-> (rest[1].cur_address + EndLen + 1) % Word]>>
      /\ out' = out /\ out_fail' = out_fail /\ rejected' = rejected /\ held' = held
      /\ UNCHANGED input
  BY NextPartIs DEF results, history, input
<1>2. /\ Len(Parts) \in {1, 2} /\ NewChunk \in ChunkRec /\ NewChunk.vec = LeftRanges
  BY <1>1, PartsFacts DEF BothInv, LeftRanges
<1>3. /\ BeingCut = rest[1].v.vec /\ DOMAIN rest = {1} /\ work \in Seq(ChunkRec)
      /\ DOMAIN work = 1..Len(work) /\ Len(work) \in Nat
  BY <1>1, WorkFacts DEF BothInv, WalkInv, WorkTypes
<1>4. /\ \A k \in DOMAIN work : work[k].vec \cap BeingCut = {}
      /\ InWork \cap Answered = {}
  BY <1>1, <1>3, InvWork DEF AnsweredOnce, BothInv
<1> DEFINE Others == {work[k].vec : k \in DOMAIN work}
<1>5. Vecs = Others \cup {BeingCut}
  BY <1>3 DEF Vecs
<1>6. {work'[k].vec : k \in DOMAIN work'} = Others \cup {LeftRanges}
  <2>1. /\ DOMAIN work' = 1..(Len(work) + 1) /\ work'[Len(work) + 1] = NewChunk
        /\ \A k \in 1..Len(work) : work'[k] = work[k]
    BY <1>1, <1>2, <1>3
  <2>2. Len(work) + 1 \in DOMAIN work'
    BY <1>3, <2>1
  <2>3. \A k \in DOMAIN work' : k = Len(work) + 1 \/ k \in DOMAIN work
    BY <1>3, <2>1
  <2>4. \A k \in DOMAIN work : k \in DOMAIN work' /\ work'[k] = work[k]
    BY <1>3, <2>1
  <2>5. ASSUME NEW k \in DOMAIN work' PROVE work'[k].vec \in Others \cup {LeftRanges}
    BY <1>2, <2>1, <2>3, <2>4
  <2>6. \A k \in DOMAIN work : \E j \in DOMAIN work' : work[k].vec = work'[j].vec
    BY <2>4
  <2>7. \E j \in DOMAIN work' : LeftRanges = work'[j].vec
    BY <1>2, <2>1, <2>2
  <2> QED BY <2>5, <2>6, <2>7
<1>7. {rest'[k].v.vec : k \in DOMAIN rest'} = IF Len(Parts) = 1 THEN {} ELSE {RightRanges}
  <2>1. CASE Len(Parts) = 1
    <3>1. DOMAIN rest' = {}
      BY <1>1, <2>1
    <3> QED BY <2>1, <3>1
  <2>2. CASE Len(Parts) # 1
    <3> DEFINE a == Parts[2]
               d == (rest[1].cur_address + EndLen + 1) % Word
    <3>1. rest' = <<[v |-> a, cur_address |-> d]>>
      BY <1>1, <2>2
    <3> HIDE DEF a, d
    <3>2. DOMAIN rest' = {1} /\ rest'[1].v = a
      BY <3>1
    <3>3. RightRanges = a.vec
      BY <2>2 DEF RightRanges, a
    <3> QED BY <2>2, <3>2, <3>3
  <2> QED BY <2>1, <2>2
<1> HIDE DEF Others
<1>8. Vecs' = Others \cup {LeftRanges} \cup (IF Len(Parts) = 1 THEN {} ELSE {RightRanges})
  BY <1>6, <1>7 DEF Vecs
<1>9. InWork = (UNION Others) \cup BeingCut /\ BeingCut \cap UNION Others = {}
  <2>1. InWork = UNION Vecs
    BY DEF InWork, Vecs
  <2>2. BeingCut \cap UNION Others = {}
    BY <1>4 DEF Others
  <2> QED BY <1>5, <2>1, <2>2
<1>10. InWork' = (UNION Others) \cup LeftRanges \cup RightRanges
  <2>1. InWork' = UNION Vecs'
    BY DEF InWork, Vecs
  <2>2. Len(Parts) = 1 => RightRanges = {}
    BY DEF RightRanges
  <2> QED BY <1>8, <2>1, <2>2
<1>11. Answered' = Answered
  BY <1>1 DEF Answered, TranslatedRanges
<1>12. Live' = (Live \ BeingCut) \cup LeftRanges \cup RightRanges
  BY <1>1, <1>4, <1>9, <1>10, <1>11 DEF Live
<1>13. BeingCut \subseteq Live
  BY <1>9 DEF Live
<1> QED BY <1>1, <1>4, <1>8, <1>12, <1>13 DEF Grows, Others

LEMMA PartReady ==
    ASSUME BothInv, BothInv', RightInv, NextPart, NoGaps', Walked' # {}
    PROVE  /\ LevelRight /\ AnswersRight /\ Walked' = Walked /\ NoGaps
           /\ PartsStand /\ Narrows(BeingCut)
<1>1. pc = "check" /\ rest # <<>> /\ WalkInv /\ InputInv
  BY NextPartIs DEF BothInv, WalkInv
<1>2. /\ Live' = (Live \ BeingCut) \cup LeftRanges \cup RightRanges
      /\ UNCHANGED input /\ Grows /\ BeingCut \subseteq Live
  BY PartMoves
<1>3. /\ BeingCut \subseteq Asking /\ IsCut(BeingCut, LeftRanges, RightRanges)
  BY <1>1, WorkFacts, PartsFacts DEF LeftRanges, ChunkRec
<1>4. /\ \A r \in LeftRanges \cup RightRanges : \E t \in BeingCut : Bytes(r) \subseteq Bytes(t)
      /\ \A t \in BeingCut : \A b \in Bytes(t) : \E r \in LeftRanges \cup RightRanges : b \in Bytes(r)
  BY <1>1, <1>3, CutBytes
<1>5. \A r : Bytes(r)' = Bytes(r)
  BY <1>1, <1>2, MorePrimes
<1>6. Walked' = Walked
  <2>1. Walked' = UNION {Bytes(r) : r \in Live'} /\ Walked = UNION {Bytes(r) : r \in Live}
    BY <1>5 DEF Walked, Live
  <2>2. ASSUME NEW b, b \in UNION {Bytes(r) : r \in Live'} PROVE b \in UNION {Bytes(r) : r \in Live}
    <3>1. PICK r \in Live' : b \in Bytes(r)
      BY <2>2
    <3>2. CASE r \in Live
      BY <3>1, <3>2
    <3>3. CASE r \in LeftRanges \cup RightRanges
      <4>1. PICK t \in BeingCut : Bytes(r) \subseteq Bytes(t)
        BY <1>4, <3>3
      <4> QED BY <1>2, <3>1, <4>1
    <3> QED BY <1>2, <3>2, <3>3
  <2>3. ASSUME NEW b, b \in UNION {Bytes(r) : r \in Live} PROVE b \in UNION {Bytes(r) : r \in Live'}
    <3>1. PICK r \in Live : b \in Bytes(r)
      BY <2>3
    <3>2. CASE r \notin BeingCut
      BY <1>2, <3>1, <3>2
    <3>3. CASE r \in BeingCut
      <4>1. PICK t \in LeftRanges \cup RightRanges : b \in Bytes(t)
        BY <1>4, <3>1, <3>3
      <4> QED BY <1>2, <4>1
    <3> QED BY <3>2, <3>3
  <2> QED BY <2>1, <2>2, <2>3
<1>7. NoGaps
  <2>1. Last' = Last /\ Word' = Word /\ \A s : page_size_step(s)' = page_size_step(s)
    BY <1>2, EntryPrimes DEF input
  <2> QED BY <1>6, <2>1 DEF NoGaps
<1>8. LevelRight /\ AnswersRight
  BY <1>1, <1>6, <1>7 DEF RightInv
<1>9. PartsStand
  BY <1>1, <1>7, <1>8, PartsHold DEF LevelRight
<1>10. Narrows(BeingCut)
  BY <1>2, <1>4 DEF Narrows
<1> QED BY <1>6, <1>7, <1>8, <1>9, <1>10

SlotRule ==
    \A x, V, s, e, p, z :
        /\ x \in Nat /\ V \subseteq Asking /\ s \in 0..Last /\ {e, p, z} \subseteq Nat
        /\ s # Last /\ z = page_size_step(s + 1) /\ IsTable(e, s)
        /\ Whole(V, p, z) /\ Comes(V, e, s)
        /\ \A r \in V : \A b \in Bytes(r) : x = SlotOf(b, s, e) * pow2[arch.pte_bits]
        => <<x, V, s>> \in AtSlot

LEMMA SlotChunks == SlotRule
<1> SUFFICES ASSUME NEW x \in Nat, NEW V \in SUBSET Asking, NEW s \in 0..Last,
                    NEW e \in Nat, NEW p \in Nat, NEW z \in Nat,
                    s # Last, z = page_size_step(s + 1), IsTable(e, s),
                    Whole(V, p, z), Comes(V, e, s),
                    \A r \in V : \A b \in Bytes(r) : x = SlotOf(b, s, e) * pow2[arch.pte_bits]
             PROVE  <<x, V, s>> \in AtSlot
  BY DEF SlotRule
<1> DEFINE c == <<x, V, s>>
<1>1. c[1] = x /\ c[2] = V /\ c[3] = s /\ c \in Standing
  BY DEF Standing
<1> HIDE DEF c
<1>2. /\ c[3] # Last /\ z = page_size_step(c[3] + 1) /\ IsTable(e, c[3])
      /\ Whole(c[2], p, z) /\ Comes(c[2], e, c[3])
      /\ \A r \in c[2] : \A b \in Bytes(r) :
            c[1] = SlotOf(b, c[3], e) * pow2[arch.pte_bits]
  BY <1>1
<1>3. c \in AtSlot
  BY <1>1, <1>2 DEF AtSlot
<1> QED BY <1>3 DEF c

(* The entry that the chunk being cut stands at, and the page it is on.    *)
CutAt(x, e, p) ==
    /\ e \in Nat /\ p \in Nat /\ EntryIn(x, e) /\ IsTable(e, step) /\ Comes(BeingCut, e, step)
    /\ Remains(BeingCut, p, Outer(step), CutSize)

LEMMA CutStands ==
    ASSUME BothInv, RestRight, rest # <<>>
    PROVE  \E e, p \in Nat : CutAt(rest[1].v.pt_addr, e, p)
<1> DEFINE x == rest[1].v.pt_addr
           V == rest[1].v.vec
<1>1. <<x, V, step>> \in AtCut /\ BeingCut = V
  BY WorkFacts DEF RestRight, BothInv
<1> HIDE DEF x, V
<1>2. \E e, p \in Nat :
                 /\ EntryIn(x, e) /\ IsTable(e, step) /\ Comes(V, e, step)
                 /\ Remains(V, p, Outer(step), page_size_step(step + 1))
  BY <1>1, CutChunk
<1> QED BY <1>1, <1>2 DEF CutAt, CutSize, x

(* No other range has a part of the page that is cut off, nor of the rest. *)
LEMMA CutAlone ==
    ASSUME BothInv, PartsStand, rest # <<>>, NEW x, NEW e, NEW p, CutAt(x, e, p),
           NEW r \in Live, NEW b \in Bytes(r), b \in Nat,
           b \div Outer(step) = p, b \div CutSize >= CutPage
    PROVE  r \in BeingCut
<1>1. CutPage = MinAddr(BeingCut) \div CutSize
  BY DEF PartsStand, CutPage
<1> QED BY <1>1 DEF CutAt, Remains

(* The part that is cut off has an address of its own next entry.          *)
LEMMA LeftOnSlot ==
    ASSUME BothInv, BothInv', RightInv, NextPart, NoGaps', Walked' # {}
    PROVE  <<NewChunk.pt_addr, LeftRanges, step>> \in AtSlot'
<1>1. /\ LevelRight /\ PartsStand /\ Narrows(BeingCut) /\ rest # <<>> /\ RestRight
      /\ InputInv /\ WellFormed(arch) /\ WalkInv
  BY PartReady, NextPartIs DEF LevelRight, BothInv, WalkInv, InputInv
<1>2. /\ Live' = (Live \ BeingCut) \cup LeftRanges \cup RightRanges
      /\ UNCHANGED input /\ Live \subseteq Asking
  BY PartMoves, LiveFacts DEF BothInv, SideInv
<1>3. /\ step \in 0..(Last - 1) /\ Parts[1] \in ChunkRec /\ NewChunk \in ChunkRec
      /\ Parts[1].pt_addr = rest[1].v.pt_addr /\ Last \in Nat
  BY <1>1, PartsFacts, ArchFacts
<1>4. PartsStand
  BY <1>1
<1>5. \E t : t = LeftRanges
  OBVIOUS
<1>6. PICK A : A = LeftRanges
  BY <1>5
<1>7. PICK z \in Nat \ {0} : z = CutSize
  BY <1>4 DEF PartsStand
<1>8. PICK g \in Nat : g = CutPage
  BY <1>4 DEF PartsStand
<1>9. PICK s \in 0..(Last - 1) : s = step
  BY <1>3
<1>10. PICK x \in Nat : x = rest[1].v.pt_addr
  BY <1>3 DEF ChunkRec
<1>11. PICK a \in Nat : a = Parts[1].min
  <2>1. Word \in Nat \ {0}
    BY <1>1, RequestFacts
  <2> QED BY <1>3, <2>1 DEF ChunkRec, Addr
<1>12. PICK e \in Nat, p \in Nat : CutAt(x, e, p)
  BY <1>1, <1>10, CutStands
<1>13. PICK y \in Nat \ {0} : y = Outer(s) /\ \E q \in Nat \ {0} : y = z * q
  BY <1>1, <1>7, <1>9, SizesDivide DEF CutSize
<1>14. /\ A \subseteq Asking /\ A # {}
       /\ \A r \in A : \A b \in Bytes(r) : b \div z = g
       /\ \A r \in RightRanges : \A b \in Bytes(r) : b \div z > g
       /\ \A r \in BeingCut : \A b \in Bytes(r) : b \in Nat
       /\ \A r \in A : \E t \in BeingCut : Bytes(r) \subseteq Bytes(t)
  BY <1>4, <1>6, <1>7, <1>8 DEF PartsStand
<1>15. \A r \in A : \A b \in Bytes(r) : b \in Nat /\ b \div y = p /\ e \in Reach(b)[s]
  BY <1>9, <1>12, <1>13, <1>14 DEF CutAt, Remains, Comes
<1>16. PICK t \in A : TRUE
  BY <1>14
<1>17. t.addr \in Bytes(t)
  BY <1>1, <1>14, BytesAre
<1>18. ASSUME NEW r \in Live, NEW b \in Bytes(r), b \div z = g
       PROVE  r \in BeingCut
  <2>1. b \in Nat
    <3>1. b \in Addr /\ Word \in Nat \ {0}
      BY <1>1, <1>2, BytesAre, RequestFacts
    <3> QED BY <3>1 DEF Addr
  <2> DEFINE d == t.addr
  <2>2. d \in Nat /\ d \div z = g /\ d \div y = p
    BY <1>14, <1>15, <1>17
  <2> HIDE DEF d
  <2>3. b \div y = d \div y
    <3>1. PICK q \in Nat \ {0} : y = z * q
      BY <1>13
    <3>2. b \in Int /\ d \in Int /\ b \div z = d \div z
      BY <1>18, <2>1, <2>2
    <3>3. b \div (z * q) = d \div (z * q)
      BY ONLY <3>1, <3>2, z \in Nat \ {0}, CoarsenSame
    <3> QED BY <3>1, <3>3
  <2>4. b \div y = p /\ b \div z >= g
    BY <1>18, <2>2, <2>3
  <2> QED BY <1>1, <1>7, <1>8, <1>9, <1>12, <1>13, <2>1, <2>4, CutAlone
<1>19. \A r : Bytes(r)' = Bytes(r)
  BY <1>1, <1>2, MorePrimes
<1>20. Whole(A, g, z)'
  <2>1. \A r \in Live' : \A b \in Bytes(r) : b \div z = g => r \in A
    <3> TAKE r \in Live'
    <3> TAKE b \in Bytes(r)
    <3> HAVE b \div z = g
    <3>1. r \notin RightRanges
      BY <1>14
    <3>2. r \in Live => r \in BeingCut
      BY <1>18
    <3> QED BY <1>2, <1>6, <3>1, <3>2
  <2> QED BY <1>14, <1>19, <2>1 DEF Whole
<1>21. Comes(A, e, s)'
  <2>1. \A b : \A k \in 0..Last : Reach(b)[k] \subseteq Reach(b)'[k]
    BY <1>1, ReachGrows DEF Narrows, input
  <2>2. s \in 0..Last
    BY <1>3
  <2> QED BY <1>15, <1>19, <2>1, <2>2 DEF Comes
<1>22. a \div z = g
  <2>1. Parts[1].min = MinAddr(A) /\ Word \in Nat \ {0}
    BY <1>1, <1>3, <1>6, RequestFacts DEF ChunkRec, LeftRanges
  <2>2. \A r \in A : r.addr \in Addr /\ r.len \in Nat
    BY <1>14 DEF Asking
  <2>3. PICK r \in A : r.addr = a
    BY <1>11, <1>14, <2>1, <2>2, Bounds
  <2>4. r.addr \in Bytes(r)
    BY <1>1, <1>14, BytesAre
  <2> QED BY <1>14, <2>3, <2>4
<1>23. PICK vt \in Nat : vt = NewChunk.pt_addr /\ vt = vtop_step(x, a, s)
  <2>1. NewChunk.pt_addr \in Nat
    BY <1>3 DEF ChunkRec
  <2>2. NewChunk.pt_addr = vtop_step(Parts[1].pt_addr, Parts[1].min, step)
    <3>1. Parts[1] \in [pt_addr : Nat, vec : SUBSET Asking, min : Addr, max : Addr]
      BY <1>3 DEF ChunkRec
    <3> QED BY <3>1 DEF NewChunk
  <2> QED BY <1>3, <1>9, <1>10, <1>11, <2>1, <2>2
<1>24. \A r \in A : \A b \in Bytes(r) : vt = SlotOf(b, s, e) * pow2[arch.pte_bits]
  <2> TAKE r \in A
  <2> TAKE b \in Bytes(r)
  <2>1. z = page_size_step(s + 1) /\ b \in Nat /\ b \div z = g /\ EntryIn(x, e)
    BY <1>7, <1>9, <1>12, <1>14, <1>15 DEF CutSize, CutAt
  <2>2. a \div page_size_step(s + 1) = b \div page_size_step(s + 1)
    BY <1>22, <2>1
  <2>3. a \in Nat /\ b \in Nat /\ s \in 0..(Last - 1) /\ EntryIn(x, e) /\ WellFormed(arch)
    BY <1>1, <2>1
  <2>4. vtop_step(x, a, s) = SlotOf(b, s, e) * pow2[arch.pte_bits]
    BY ONLY <2>2, <2>3, EntryAddress
  <2> QED BY <1>23, <2>4
<1>25. /\ arch' = arch /\ Last' = Last /\ page_size_step(s + 1)' = page_size_step(s + 1)
       /\ IsTable(e, s)' = IsTable(e, s)
       /\ \A b : SlotOf(b, s, e)' = SlotOf(b, s, e)
       /\ Asking' = Asking
  BY <1>1, <1>2, MorePrimes, EntryPrimes
<1>26. /\ vt \in Nat /\ A \subseteq Asking' /\ s \in 0..Last' /\ {e, g, z} \subseteq Nat
       /\ s # Last' /\ z = page_size_step(s + 1)' /\ IsTable(e, s)'
       /\ \A r \in A : \A b \in Bytes(r)' : vt = SlotOf(b, s, e)' * pow2[arch'.pte_bits]
  <2>1. z = page_size_step(s + 1) /\ IsTable(e, s) /\ s \in 0..Last /\ s # Last
    BY <1>3, <1>7, <1>9, <1>12 DEF CutSize, CutAt
  <2> QED BY <1>14, <1>19, <1>24, <1>25, <2>1
<1>27. SlotRule'
  BY SlotChunks, PTL
<1>28. <<vt, A, s>> \in AtSlot'
  BY <1>20, <1>21, <1>26, <1>27 DEF SlotRule
<1> QED BY <1>6, <1>9, <1>23, <1>28

----------------------------------------------------------------------------
(* The first byte of a page *)

Base(b, z) == b - (b % z)

LEMMA BaseIs ==
    ASSUME NEW z \in Nat \ {0}, NEW b \in Nat
    PROVE  /\ Base(b, z) \in Nat /\ Base(b, z) = z * (b \div z) /\ Base(b, z) <= b
           /\ Base(b, z) \div z = b \div z /\ Base(b, z) % z = 0
<1> DEFINE q == b \div z
           r == b % z
<1>1. b = z * q + r /\ r \in 0..(z - 1) /\ q \in Nat
  <2>1. b \in Int /\ q \in Nat
    BY DivNat
  <2> QED BY <2>1, Euclid
<1> HIDE DEF q, r
<1> DEFINE a == z * q
<1>2. a \in Nat
  BY <1>1
<1>3. b - r = a
  BY <1>1, <1>2
<1>4. Splits(a, z, q, 0)
  BY <1>1 DEF Splits
<1>5. a % z = 0 /\ a \div z = q
  BY <1>4, DivMod
<1>6. a <= b
  BY <1>1, <1>2
<1> QED BY <1>2, <1>3, <1>5, <1>6 DEF Base, q, r

LEMMA BasesOrdered ==
    ASSUME NEW z \in Nat \ {0}, NEW a \in Nat, NEW b \in Nat, a \div z < b \div z
    PROVE  Base(a, z) < Base(b, z)
<1> DEFINE q == a \div z
           p == b \div z
<1>1. q \in Int /\ p \in Int /\ q < p
  BY DivNat
<1>2. Base(a, z) = z * q /\ Base(b, z) = z * p
  BY BaseIs
<1> HIDE DEF q, p
<1>3. z * q + z <= z * p
  BY <1>1, Multiples
<1>4. z * q \in Int /\ z * p \in Int
  BY <1>1
<1> QED BY <1>2, <1>3, <1>4

(* Bytes of one page of the level lead to the same page of the level above. *)
LEMMA BaseOfBase ==
    ASSUME NEW z \in Nat \ {0}, NEW q \in Nat \ {0}, NEW b \in Nat
    PROVE  Base(b, z) \div (z * q) = b \div (z * q)
<1>1. Base(b, z) \in Int /\ b \in Int /\ Base(b, z) \div z = b \div z
  <2>1. Base(b, z) \in Nat /\ Base(b, z) \div z = b \div z
    BY ONLY z \in Nat \ {0}, b \in Nat, BaseIs
  <2> QED BY <2>1
<1>2. Base(b, z) \div (z * q) = b \div (z * q)
  BY ONLY <1>1, z \in Nat \ {0}, q \in Nat \ {0}, CoarsenSame
<1> QED BY <1>2

LEMMA GapFilled ==
    ASSUME NoGaps, NEW s \in 0..(Last - 1), NEW a \in Walked, NEW b \in Walked,
           NEW z \in Nat \ {0}, z = page_size_step(s + 1), NEW q \in Nat \ {0}, Outer(s) = z * q,
           a \in Nat, b \in Nat, a \div z < b \div z, a \div Outer(s) = b \div Outer(s)
    PROVE  Base(b, z) \in Walked
<1> DEFINE y == Outer(s)
           m == Base(a, z)
           n == Base(b, z)
<1>1. m < n /\ m \in Nat /\ n \in Nat
  BY BasesOrdered, BaseIs
<1>2. y \in Nat \ {0}
  OBVIOUS
<1>3. m - (m % y) = n - (n % y)
  <2>1. m \div y = a \div y /\ n \div y = b \div y
    <3>1. m \div (z * q) = a \div (z * q) /\ n \div (z * q) = b \div (z * q)
      BY ONLY z \in Nat \ {0}, q \in Nat \ {0}, a \in Nat, b \in Nat, BaseOfBase
    <3> QED BY <3>1
  <2>2. Base(m, y) = y * (m \div y) /\ Base(n, y) = y * (n \div y)
    <3> HIDE DEF y, m, n
    <3> QED BY <1>1, <1>2, BaseIs
  <2>3. Base(m, y) = Base(n, y)
    BY <2>1, <2>2
  <2> HIDE DEF y, m, n
  <2> QED BY <2>3 DEF Base
<1>4. \A t, u \in {c - (c % z) : c \in Walked} :
         u < t /\ u - (u % y) = t - (t % y) => t \in Walked
  BY DEF NoGaps, Outer
<1>5. m \in {c - (c % z) : c \in Walked} /\ n \in {c - (c % z) : c \in Walked}
  BY DEF Base
<1> HIDE DEF y, m, n
<1>6. n \in Walked
  BY <1>1, <1>3, <1>4, <1>5
<1> QED BY <1>6 DEF n

(* Where the bytes of the parts are *)
LEMMA PartBytes ==
    ASSUME BothInv, PartsStand, rest # <<>>
    PROVE  /\ BeingCut \subseteq Live
           /\ \A r \in BeingCut \cup LeftRanges \cup RightRanges : Bytes(r) \subseteq Walked
           /\ rest[1].v.min \in Walked
<1>1. BeingCut \subseteq Live /\ Walked = UNION {Bytes(r) : r \in Live}
  BY WorkFacts, LiveFacts DEF BothInv, SideInv
<1>2. \A r \in BeingCut : Bytes(r) \subseteq Walked
  BY <1>1
<1>3. \A r \in LeftRanges \cup RightRanges : \E t \in BeingCut : Bytes(r) \subseteq Bytes(t)
  BY DEF PartsStand
<1>4. \E r \in BeingCut : rest[1].v.min \in Bytes(r)
  BY DEF PartsStand
<1> QED BY <1>1, <1>2, <1>3, <1>4

(* What is left begins with a page of its own. *)
LEMMA RightBegins ==
    ASSUME BothInv, NoGaps, PartsStand, rest # <<>>, Len(Parts) # 1,
           NEW x, NEW e, NEW p, CutAt(x, e, p), NEW m, m = Parts[2].min
    PROVE  /\ m = MinAddr(RightRanges) /\ m \in Nat /\ RightRanges # {} /\ m % CutSize = 0
           /\ m \div CutSize > CutPage /\ m \div Outer(step) = p
<1>1. /\ WalkInv /\ InputInv /\ WellFormed(arch) /\ Word \in Nat \ {0} /\ step \in 0..(Last - 1)
      /\ Parts[2] \in ChunkRec /\ RightRanges = Parts[2].vec /\ RightRanges # {}
  <2>1. WalkInv /\ InputInv /\ WellFormed(arch)
    BY DEF BothInv, WalkInv, InputInv
  <2> QED BY <2>1, PartsFacts, RequestFacts DEF RightRanges
<1>2. m = MinAddr(RightRanges) /\ RightRanges \subseteq Asking
  BY <1>1 DEF ChunkRec, PartsStand
<1>3. PICK z \in Nat \ {0} : z = CutSize
  BY DEF PartsStand
<1>4. PICK g \in Nat : g = CutPage
  BY DEF PartsStand
<1>5. PICK q \in Nat \ {0} : Outer(step) = z * q
  BY <1>1, <1>3, SizesDivide DEF CutSize
<1>6. PICK c \in Nat : c = rest[1].v.min
  BY DEF PartsStand
<1>7. c \div z = g
  BY <1>3, <1>4, <1>6 DEF CutPage
<1>8. /\ \A r \in LeftRanges : \A b \in Bytes(r) : b \div z = g
      /\ \A r \in RightRanges : \A b \in Bytes(r) : b \div z > g
      /\ \A r \in BeingCut : \A b \in Bytes(r) : b \in Nat
      /\ \A r \in RightRanges : \E t \in BeingCut : Bytes(r) \subseteq Bytes(t)
      /\ \A t \in BeingCut : \A b \in Bytes(t) : \E r \in LeftRanges \cup RightRanges : b \in Bytes(r)
  BY <1>3, <1>4 DEF PartsStand
<1>9. \A r \in BeingCut : \A b \in Bytes(r) : b \div Outer(step) = p
  BY DEF CutAt, Remains
<1>10. \A r \in RightRanges : r.addr \in Addr /\ r.len \in Nat /\ r.addr \in Nat
  <2>1. \A r \in RightRanges : r.addr \in Addr /\ r.len \in Nat
    BY <1>2 DEF Asking
  <2> QED BY <1>1, <2>1 DEF Addr
<1>11. PICK r \in RightRanges : r.addr = m
  BY <1>1, <1>2, <1>10, Bounds
<1>12. m \in Bytes(r) /\ m \in Nat
  BY <1>1, <1>2, <1>10, <1>11, BytesAre
<1>13. m \div z > g /\ m \div Outer(step) = p /\ m \in Walked
  <2>1. PICK t \in BeingCut : Bytes(r) \subseteq Bytes(t)
    BY <1>8, <1>11
  <2>2. m \in Bytes(t)
    BY <1>12, <2>1
  <2> QED BY <1>8, <1>9, <1>11, <1>12, <2>1, <2>2, PartBytes
<1>14. c \in Walked /\ c \div Outer(step) = p
  <2>1. PICK t \in BeingCut : c \in Bytes(t)
    BY <1>6 DEF PartsStand
  <2> QED BY <1>6, <1>9, <2>1, PartBytes
<1>15. Base(m, z) \in Walked
  <2>1. c \div z < m \div z /\ c \div Outer(step) = m \div Outer(step) /\ z = page_size_step(step + 1)
    <3>1. c \div z \in Nat /\ m \div z \in Nat
      BY <1>12, DivNat
    <3> QED BY <1>3, <1>7, <1>13, <1>14, <3>1 DEF CutSize
  <2> QED BY <1>1, <1>5, <1>12, <1>13, <1>14, <2>1, GapFilled
<1>16. PICK n \in Nat : n = Base(m, z) /\ n % z = 0 /\ n <= m /\ n \div z = m \div z
  BY <1>12, BaseIs
<1>17. n \div Outer(step) = p
  <2>1. n \div (z * q) = m \div (z * q)
    <3>1. m \in Nat
      BY <1>12
    <3>2. Base(m, z) \div (z * q) = m \div (z * q)
      BY ONLY <3>1, z \in Nat \ {0}, q \in Nat \ {0}, BaseOfBase
    <3> QED BY <1>16, <3>2
  <2> QED BY <1>5, <1>13, <2>1
<1>18. PICK t \in Live : n \in Bytes(t)
  BY <1>15, <1>16, LiveFacts DEF BothInv, SideInv
<1>19. t \in BeingCut
  <2>1. n \div z >= g
    <3>1. m \div z \in Nat
      BY <1>12, DivNat
    <3> QED BY <1>13, <1>16, <3>1
  <2> QED BY <1>3, <1>4, <1>17, <1>18, <2>1, CutAlone
<1>20. PICK d \in RightRanges : n \in Bytes(d)
  <2>1. PICK d \in LeftRanges \cup RightRanges : n \in Bytes(d)
    BY <1>8, <1>18, <1>19
  <2>2. n \div z # g
    <3>1. m \div z \in Nat
      BY <1>12, DivNat
    <3> QED BY <1>13, <1>16, <3>1
  <2> QED BY <1>8, <2>1, <2>2
<1>21. m <= n
  <2>1. Word - 1 \notin Bytes(d)
    BY PartBytes DEF NoGaps
  <2>2. d.addr <= n
    <3>1. n \in d.addr..(d.addr + d.len - 1)
      BY <1>1, <1>2, <1>20, <2>1, Straight
    <3> QED BY <1>10, <3>1
  <2>3. m <= d.addr
    BY <1>1, <1>2, <1>10, Bounds
  <2> QED BY <1>10, <1>12, <2>2, <2>3
<1>22. n = m
  BY <1>12, <1>16, <1>21
<1> QED BY <1>1, <1>2, <1>3, <1>4, <1>12, <1>13, <1>16, <1>22

(* What is left after the cut still stands at the entry of its bytes. *)
LEMMA RightOnCut ==
    ASSUME BothInv, BothInv', RightInv, NextPart, NoGaps', Walked' # {}, Len(Parts) # 1
    PROVE  /\ <<Parts[2].pt_addr, RightRanges, step>> \in AtCut'
           /\ RightRanges # {}
           /\ ((rest[1].cur_address + EndLen + 1) % Word) % CutSize = Parts[2].min % CutSize
<1>1. /\ LevelRight /\ PartsStand /\ Narrows(BeingCut) /\ rest # <<>> /\ RestRight /\ NoGaps
      /\ InputInv /\ WellFormed(arch) /\ WalkInv
  BY PartReady, NextPartIs DEF LevelRight, BothInv, WalkInv, InputInv
<1>2. /\ Live' = (Live \ BeingCut) \cup LeftRanges \cup RightRanges
      /\ UNCHANGED input
  BY PartMoves
<1>3. /\ step \in 0..(Last - 1) /\ Last \in Nat
      /\ Parts[2].pt_addr = rest[1].v.pt_addr /\ rest[1].v.pt_addr \in Nat
  BY <1>1, PartsFacts, WorkFacts, ArchFacts DEF ChunkRec
<1>4. PICK z \in Nat \ {0} : z = CutSize
  BY <1>1 DEF PartsStand
<1>5. PICK g \in Nat : g = CutPage
  BY <1>1 DEF PartsStand
<1>6. PICK s \in 0..(Last - 1) : s = step
  BY <1>3
<1>7. PICK x \in Nat : x = rest[1].v.pt_addr
  BY <1>3
<1>8. PICK e \in Nat, p \in Nat : CutAt(x, e, p)
  BY <1>1, <1>7, CutStands
<1>9. PICK y \in Nat \ {0} : y = Outer(s)
  BY <1>1, <1>6, SizesDivide
<1>10. \E t : t = RightRanges
  OBVIOUS
<1>11. PICK B : B = RightRanges
  BY <1>10
<1>12. PICK m \in Nat : m = Parts[2].min /\ m = MinAddr(B) /\ B # {} /\ m % z = 0
                        /\ m \div z > g /\ m \div y = p
  <2>1. \E t : t = Parts[2].min
    OBVIOUS
  <2>2. PICK t : t = Parts[2].min
    BY <2>1
  <2>3. /\ t = MinAddr(RightRanges) /\ t \in Nat /\ RightRanges # {} /\ t % CutSize = 0
        /\ t \div CutSize > CutPage /\ t \div Outer(step) = p
    BY <1>1, <1>8, <2>2, RightBegins
  <2> QED BY <1>4, <1>5, <1>6, <1>9, <1>11, <2>2, <2>3
<1>13. /\ B \subseteq Asking
       /\ \A r \in LeftRanges : \A b \in Bytes(r) : b \div z = g
       /\ \A r \in BeingCut : \A b \in Bytes(r) : b \in Nat /\ b \div y = p /\ e \in Reach(b)[s]
       /\ \A r \in B : \E t \in BeingCut : Bytes(r) \subseteq Bytes(t)
  BY <1>1, <1>4, <1>5, <1>6, <1>8, <1>9, <1>11 DEF PartsStand, CutAt, Remains, Comes
<1>14. \A r \in B : \A b \in Bytes(r) : b \in Nat /\ b \div y = p /\ e \in Reach(b)[s]
  BY <1>13
<1>15. m \div z \in Nat
  BY <1>12, DivNat
<1>16. /\ \A r : Bytes(r)' = Bytes(r)
       /\ \A V : MinAddr(V)' = MinAddr(V)
       /\ Outer(s)' = Outer(s) /\ Asking' = Asking
  BY <1>1, <1>2, MorePrimes
<1>17. Remains(B, p, y, z)'
  <2>1. ASSUME NEW r \in Live', NEW b \in Bytes(r), b \div y = p, b \div z >= m \div z
        PROVE  r \in B
    <3>1. CASE r \in LeftRanges
      <4>1. b \div z = g
        BY <1>13, <3>1
      <4> QED BY <1>12, <1>15, <2>1, <4>1
    <3>2. CASE r \in Live \ BeingCut
      <4>1. b \in Nat
        <5>1. Live \subseteq Asking /\ Word \in Nat \ {0}
          BY <1>1, LiveFacts, RequestFacts DEF BothInv, SideInv
        <5>2. b \in Addr
          BY <1>1, <2>1, <3>2, <5>1, BytesAre
        <5> QED BY <5>1, <5>2 DEF Addr
      <4>2. b \div z \in Nat
        BY <4>1, DivNat
      <4>3. b \div z >= g
        BY <1>12, <1>15, <2>1, <4>2
      <4>4. r \in BeingCut
        BY <1>1, <1>4, <1>5, <1>6, <1>8, <1>9, <2>1, <3>2, <4>1, <4>3, CutAlone
      <4> QED BY <3>2, <4>4
    <3> QED BY <1>2, <1>11, <3>1, <3>2
  <2>2. \A r \in B : \A b \in Bytes(r) : b \div y = p
    BY <1>14
  <2>3. MinAddr(B)' = m
    BY <1>12, <1>16
  <2>4. \A r \in Live' : \A b \in Bytes(r) : b \div y = p /\ b \div z >= m \div z => r \in B
    BY <2>1
  <2> QED BY <1>16, <2>2, <2>3, <2>4 DEF Remains
<1>18. Comes(B, e, s)'
  <2>1. \A b : \A k \in 0..Last : Reach(b)[k] \subseteq Reach(b)'[k]
    BY <1>1, ReachGrows DEF Narrows, input
  <2>2. s \in 0..Last
    BY <1>3
  <2> QED BY <1>14, <1>16, <2>1, <2>2 DEF Comes
<1>19. /\ Last' = Last /\ page_size_step(s + 1)' = page_size_step(s + 1)
       /\ IsTable(e, s)' = IsTable(e, s) /\ EntryIn(x, e)' = EntryIn(x, e)
  <2>1. arch' = arch
    BY <1>2 DEF input
  <2> QED BY <2>1, EntryPrimes
<1>20. /\ x \in Nat /\ B \subseteq Asking' /\ s \in 0..Last' /\ {e, p, y, z} \subseteq Nat
       /\ s # Last' /\ z = page_size_step(s + 1)' /\ y = Outer(s)'
       /\ EntryIn(x, e)' /\ IsTable(e, s)'
  <2>1. z = page_size_step(s + 1) /\ IsTable(e, s) /\ EntryIn(x, e) /\ s \in 0..Last /\ s # Last
    BY <1>3, <1>4, <1>6, <1>8 DEF CutSize, CutAt
  <2> QED BY <1>9, <1>13, <1>16, <1>19, <2>1
<1>21. CutRule'
  BY CutChunks, PTL
<1>22. <<x, B, s>> \in AtCut'
  BY <1>17, <1>18, <1>20, <1>21 DEF CutRule
<1>23. ((rest[1].cur_address + EndLen + 1) % Word) % CutSize = 0
  BY <1>1 DEF PartsStand
<1> QED BY <1>3, <1>4, <1>6, <1>7, <1>11, <1>12, <1>22, <1>23

LEMMA NextPartRight ==
    ASSUME BothInv, BothInv', RightInv, NextPart, NoGaps', Walked' # {}
    PROVE  LevelRight' /\ AnswersRight'
<1>1. /\ pc = "check" /\ pc' = pc /\ step' = step /\ i' = i /\ rest # <<>>
      /\ work' = Append(work, NewChunk)
      /\ rest' = IF Len(Parts) = 1 THEN <<>>
                      ELSE <<[v |-> Parts[2],
                              cur_address |-> (rest[1].cur_address + EndLen + 1) % Word]>>
      /\ out' = out /\ out_fail' = out_fail /\ rejected' = rejected /\ unread' = unread
  BY NextPartIs DEF results, history
<1>2. /\ LevelRight /\ AnswersRight /\ Walked' = Walked /\ NoGaps /\ PartsStand
      /\ Narrows(BeingCut)
  BY PartReady
<1>3. /\ InputInv /\ Len(work) \in Nat /\ DOMAIN work = 1..Len(work) /\ NewChunk \in ChunkRec
      /\ NewChunk.vec = LeftRanges /\ work \in Seq(ChunkRec) /\ i \in Nat /\ i <= Len(work)
  <2>1. InputInv /\ work \in Seq(ChunkRec) /\ i \in Nat /\ i <= Len(work)
    BY <1>1 DEF BothInv, WalkInv, WorkTypes
  <2> QED BY <1>1, <2>1, WorkFacts, PartsFacts DEF BothInv, LeftRanges
<1>4. /\ UNCHANGED input /\ Grows
      /\ Vecs' = {work[k].vec : k \in DOMAIN work} \cup {LeftRanges} \cup
                         (IF Len(Parts) = 1 THEN {} ELSE {RightRanges})
      /\ \A k \in DOMAIN work : work[k].vec \cap BeingCut = {}
  BY PartMoves
<1>5. Len(Parts) # 1 =>
         /\ <<Parts[2].pt_addr, RightRanges, step>> \in AtCut'
         /\ RightRanges # {} /\ RightRanges = Parts[2].vec
         /\ ((rest[1].cur_address + EndLen + 1) % Word) % CutSize = Parts[2].min % CutSize
  BY RightOnCut DEF RightRanges
<1>6. /\ DOMAIN work' = 1..(Len(work) + 1) /\ work'[Len(work) + 1] = NewChunk
      /\ \A k \in 1..Len(work) : work'[k] = work[k]
  BY <1>1, <1>3
<1>7. FullVecs'
  <2>1. LeftRanges # {}
    BY <1>2 DEF PartsStand
  <2>2. \A k \in DOMAIN work : work[k].vec # {}
    BY <1>2 DEF LevelRight, FullVecs, Vecs
  <2> QED BY <1>4, <1>5, <2>1, <2>2 DEF FullVecs
<1>8. ASSUME NEW k \in DOMAIN work'
      PROVE  /\ k <= i' => <<work'[k].pt_addr, work'[k].vec, step'>> \in AtEntry'
             /\ k > i'  => <<work'[k].pt_addr, work'[k].vec, step'>> \in AtSlot'
  <2>1. CASE k = Len(work) + 1
    <3>1. <<NewChunk.pt_addr, LeftRanges, step>> \in AtSlot'
      BY <1>1, LeftOnSlot
    <3>2. k > i /\ ~(k <= i) /\ work'[k] = NewChunk
      BY <1>3, <1>6, <2>1
    <3> QED BY <1>1, <1>3, <3>1, <3>2
  <2>2. CASE k # Len(work) + 1
    <3>1. k \in DOMAIN work /\ work'[k] = work[k]
      BY <1>3, <1>6, <2>2
    <3> DEFINE c == <<work[k].pt_addr, work[k].vec, step>>
    <3>2. c[2] \cap BeingCut = {}
      BY <1>4, <3>1
    <3>3. /\ k <= i => c \in AtEntry
          /\ k > i  => c \in AtSlot
      BY <1>1, <1>2, <3>1 DEF LevelRight, CheckRight
    <3> HIDE DEF c
    <3>4. /\ c \in AtEntry => c \in AtEntry'
          /\ c \in AtSlot => c \in AtSlot'
      BY <1>2, <1>3, <3>2, EntryStays, SlotStays
    <3>5. /\ k <= i => c \in AtEntry'
          /\ k > i  => c \in AtSlot'
      BY <3>3, <3>4
    <3> QED BY <1>1, <3>1, <3>5 DEF c
  <2> QED BY <2>1, <2>2
<1>9. CheckRight'
  BY <1>8 DEF CheckRight
<1>10. RestRight'
  <2>1. CASE Len(Parts) = 1
    BY <1>1, <2>1 DEF RestRight
  <2>2. CASE Len(Parts) # 1
    <3> DEFINE a == Parts[2]
               d == (rest[1].cur_address + EndLen + 1) % Word
    <3>1. rest' = <<[v |-> a, cur_address |-> d]>>
      BY <1>1, <2>2
    <3> HIDE DEF a, d
    <3>2. rest'[1].v = a /\ rest'[1].cur_address = d
      BY <3>1
    <3>3. page_size_step(step + 1)' = page_size_step(step + 1) /\ CutSize = page_size_step(step + 1)
      <4>1. arch' = arch /\ step' = step
        BY <1>1, <1>4 DEF input
      <4>2. max_index_bits(step + 1)' = max_index_bits(step + 1)
        BY <4>1 DEF max_index_bits
      <4> QED BY <4>1, <4>2 DEF CutSize, page_size_step
    <3>4. <<a.pt_addr, a.vec, step>> \in AtCut' /\ d % CutSize = a.min % CutSize
      BY <1>5, <2>2 DEF a, d
    <3> QED BY <1>1, <3>2, <3>3, <3>4 DEF RestRight
  <2> QED BY <2>1, <2>2
<1>11. CompareRight'
  BY <1>1 DEF CompareRight
<1>12. AnswersRight'
  <2>1. /\ Aligned' => Aligned
        /\ \A o : OnPages(o) => OnPages(o)'
        /\ \A b : Unmapped(b) => Unmapped(b)'
        /\ \A b : Copied(b) => Copied(b)'
    BY <1>2, <1>3, <1>4, AnswersStay
  <2>2. \A r : Bytes(r)' = Bytes(r)
    BY <1>3, <1>4, MorePrimes
  <2>3. Aligned' => \A o \in out' : OnPages(o)'
    BY <1>1, <1>2, <2>1 DEF AnswersRight
  <2>4. \A r \in out_fail' \ (rejected' \cup unread') : \A b \in Bytes(r)' : Unmapped(b)' \/ Copied(b)'
    BY <1>1, <1>2, <2>1, <2>2 DEF AnswersRight
  <2> QED BY <2>3, <2>4 DEF AnswersRight
<1> QED BY <1>7, <1>9, <1>10, <1>11, <1>12 DEF LevelRight

----------------------------------------------------------------------------
(* The answers of every step *)

(* Where the walk ends, no chunk is left.                                  *)
DoneInv == pc = "done" => work = <<>> /\ rest = <<>>

RightMC == BothInv /\ DoneInv /\ RightInv

LEMMA InitRight == ASSUME Init PROVE RightMC
<1>1. pc = "filter"
  BY DEF Init
<1> QED BY <1>1, InitWalk, InitSide DEF RightMC, BothInv, DoneInv, RightInv

LEMMA DoneStep == ASSUME BothInv, BothInv', DoneInv, [Next]_vars PROVE DoneInv'
<1> SUFFICES ASSUME pc' = "done" PROVE work' = <<>> /\ rest' = <<>>
  BY DEF DoneInv
<1>1. CASE EndLevel
  BY <1>1 DEF EndLevel
<1>2. CASE ReadError
  BY <1>2 DEF ReadError, BothInv, WalkInv, WorkTypes
<1>3. CASE pc = "done"
  BY <1>3 DEF DoneInv, Next, Walk, vars, Filter, FilterPanic, StartWalk, NotPresent, Translated,
        Descend, NextPart, EndLevel, ReadEntries, ReadError, Follow, Reject, NextLevel,
        GuestWrite, Checking, Comparing
<1>4. EndLevel \/ ReadError \/ pc = "done"
  BY DEF Next, Walk, vars, Filter, FilterPanic, StartWalk, NotPresent, Translated,
        Descend, NextPart, ReadEntries, Follow, Reject, NextLevel, GuestWrite,
        Checking, Comparing, Unchecked, Uncompared
<1> QED BY <1>1, <1>2, <1>3, <1>4

LEMMA RightStep == ASSUME BothInv, BothInv', RightInv, [Next]_vars PROVE RightInv'
<1> SUFFICES ASSUME pc' \notin {"filter", "panic"}, NoGaps', Walked' # {}
             PROVE  LevelRight' /\ AnswersRight'
  BY DEF RightInv
<1>1. CASE StartWalk
  BY <1>1, StartWalkRight
<1>2. CASE NotPresent
  BY <1>2, NotPresentRight
<1>3. CASE Translated
  BY <1>3, TranslatedStepRight
<1>4. CASE Descend
  BY <1>4, DescendRight
<1>5. CASE NextPart
  BY <1>5, NextPartRight
<1>6. CASE EndLevel
  BY <1>6, EndLevelRight
<1>7. CASE ReadEntries
  BY <1>7, ReadEntriesRight
<1>8. CASE ReadError
  BY <1>8, ReadErrorRight
<1>9. CASE Follow
  BY <1>9, FollowRight
<1>10. CASE Reject
  BY <1>10, RejectRight
<1>11. CASE NextLevel
  BY <1>11, NextLevelRight
<1>12. CASE GuestWrite \/ UNCHANGED vars
  <2>1. pc' = pc
    BY <1>12 DEF GuestWrite, vars
  <2> QED BY <1>12, <2>1, IdleRight
<1>13. ~Filter /\ ~FilterPanic
  BY DEF Filter, FilterPanic
<1> QED BY <1>1, <1>2, <1>3, <1>4, <1>5, <1>6, <1>7, <1>8, <1>9, <1>10, <1>11, <1>12, <1>13
        DEF Next, Walk

LEMMA RightMCStep == ASSUME RightMC, [MCNext]_<<vars, chunk_vars, part>> PROVE RightMC'
<1>1. [Next]_vars
  BY DEF MCNext
<1>2. BothInv'
  BY <1>1, BothStep DEF RightMC
<1> QED BY <1>1, <1>2, DoneStep, RightStep DEF RightMC

LEMMA RightInvariance == MCSpec => []RightMC
<1>1. MCInit => RightMC
  BY InitRight DEF MCInit
<1> QED BY <1>1, RightMCStep, PTL DEF MCSpec

----------------------------------------------------------------------------
(* What the invariant says of the answers *)

(* Bytes of one smallest page are on one page of every size.               *)
LEMMA PagesAgree ==
    ASSUME WellFormed(arch), NEW a \in Nat, NEW b \in Nat,
           a \div page_size_step(Last) = b \div page_size_step(Last), NEW s \in 0..Last
    PROVE  a \div page_size_step(s) = b \div page_size_step(s)
<1>1. Last \in Nat
  BY ArchFacts
<1> DEFINE Q(k) == a \div page_size_step(k) = b \div page_size_step(k)
           S == {k \in 0..Last : Q(Last - k)}
<1>2. 0 \in S
  <2>1. Last - 0 = Last /\ 0 \in 0..Last
    BY <1>1
  <2> QED BY <2>1
<1>3. ASSUME NEW k \in 1..Last, k - 1 \in S PROVE k \in S
  <2> DEFINE t == Last - k
  <2>1. t \in 0..Last /\ t + 1 = Last - (k - 1) /\ k \in 0..Last
    BY <1>1
  <2>2. Q(t + 1)
    BY <1>3, <2>1
  <2>3. /\ page_size_step(t) = page_size_step(t + 1) * pow2[split(t)]
        /\ page_size_step(t + 1) \in Nat \ {0} /\ pow2[split(t)] \in Nat \ {0}
    BY <2>1, StepSize
  <2> HIDE DEF t
  <2> DEFINE z == page_size_step(t + 1)
             q == pow2[split(t)]
  <2>4. z \in Nat \ {0} /\ q \in Nat \ {0} /\ a \in Int /\ b \in Int /\ a \div z = b \div z
    BY <2>2, <2>3
  <2> HIDE DEF z, q
  <2>5. a \div (z * q) = b \div (z * q)
    BY ONLY <2>4, CoarsenSame
  <2>6. Q(t)
    BY <2>3, <2>5 DEF z, q
  <2> QED BY <2>1, <2>6 DEF t
<1> HIDE DEF S
<1>4. \A k \in 0..Last : k \in S
  BY <1>1, <1>2, <1>3, UpTo
<1>5. Last - s \in 0..Last /\ Last - (Last - s) = s
  BY <1>1
<1>6. Last - s \in S
  BY <1>4, <1>5
<1> QED BY <1>5, <1>6 DEF S

(* Their walks read the same entries. *)
LEMMA EntriesAgree ==
    ASSUME WellFormed(arch), NEW a \in Nat, NEW b \in Nat,
           a \div page_size_step(Last) = b \div page_size_step(Last)
    PROVE  Entries(a) \subseteq Entries(b)
<1> SUFFICES ASSUME NEW y \in Entries(a) PROVE y \in Entries(b)
  OBVIOUS
<1>1. Last \in Nat
  BY ArchFacts
<1>2. PICK s \in 0..(Last - 1) : \E e \in Reach(a)[s] :
         /\ IsTable(e, s) /\ SlotOf(a, s, e) \in DOMAIN held
         /\ \E x \in held[SlotOf(a, s, e)] :
               y = [step |-> s, slot |-> SlotOf(a, s, e),
                    page |-> a \div page_size_step(s + 1), entry |-> x]
  BY EntriesLaw DEF EntriesAre
<1>3. s \in 0..Last /\ s + 1 \in 0..Last
  BY <1>1
<1>4. /\ Reach(a)[s] = Reach(b)[s]
      /\ a \div page_size_step(s + 1) = b \div page_size_step(s + 1)
  BY <1>3, PagesAgree, ReachOfPage
<1>5. \A e : SlotOf(a, s, e) = SlotOf(b, s, e)
  <2>1. pow2[min_index_bits(s)] = page_size_step(s + 1)
    BY <1>3, StepSize
  <2> QED BY <1>4, <2>1 DEF SlotOf, TableIndex
<1>6. \E e \in Reach(b)[s] :
         /\ IsTable(e, s) /\ SlotOf(b, s, e) \in DOMAIN held
         /\ \E x \in held[SlotOf(b, s, e)] :
               y = [step |-> s, slot |-> SlotOf(b, s, e),
                    page |-> b \div page_size_step(s + 1), entry |-> x]
  BY <1>2, <1>4, <1>5
<1> QED BY <1>6, EntriesLaw DEF EntriesAre

(* Every byte of a range is on the smallest page of one of its samples. *)
LEMMA SampleOf ==
    ASSUME InputInv, NEW r \in Asking, Word - 1 \notin Bytes(r), NEW b \in Bytes(r)
    PROVE  \E a \in Samples(r) :
              a \in Nat /\ b \in Nat /\ a \div page_size_step(Last) = b \div page_size_step(Last)
<1> DEFINE z == page_size_step(Last)
<1>1. z \in Nat \ {0} /\ Word \in Nat \ {0}
  <2>1. Last \in 0..Last
    BY ArchFacts DEF InputInv
  <2> QED BY <2>1, StepSize, RequestFacts DEF InputInv
<1> DEFINE d == r.addr
<1>2. d \in Nat /\ r.len \in Nat \ {0} /\ d \in Bytes(r)
  <2>1. d \in Addr /\ r.len \in Nat \ {0} /\ d \in Bytes(r)
    BY BytesAre
  <2> QED BY <1>1, <2>1 DEF Addr
<1>3. \A c : c \in Bytes(r) <=> c \in d..(d + r.len - 1)
  BY Straight
<1> HIDE DEF z, d
<1>4. b \in Nat /\ d <= b /\ b <= d + r.len - 1
  <2>1. b \in d..(d + r.len - 1)
    BY <1>3
  <2> QED BY <1>2, <2>1
<1>5. CASE d \div z = b \div z
  BY <1>2, <1>4, <1>5 DEF Samples, d, z
<1>6. CASE d \div z # b \div z
  <2>1. PICK m \in Nat : m = Base(b, z) /\ m <= b /\ m \div z = b \div z /\ m % z = 0
    BY <1>1, <1>4, BaseIs
  <2>2. d < m
    <3>1. m <= d => m \div z <= d \div z /\ d \div z <= b \div z
      BY <1>1, <1>2, <1>4, <2>1, DivOrder
    <3>2. d \div z \in Nat /\ b \div z \in Nat
      BY <1>1, <1>2, <1>4, DivNat
    <3> QED BY <1>2, <1>6, <2>1, <3>1, <3>2
  <2>3. m \in Bytes(r)
    BY <1>2, <1>3, <1>4, <2>1, <2>2
  <2> QED BY <1>4, <2>1, <2>3 DEF Samples, z
<1> QED BY <1>5, <1>6

LEMMA TranslatedMeans == ASSUME RightMC PROVE TranslatedRight
<1> SUFFICES ASSUME pc = "done", NoGaps, Aligned, NEW o \in out, NEW b \in Samples(o.range)
             PROVE  [o.page EXCEPT !.paddr = @ + (b - o.range.addr)] \in Pages(b)
  BY DEF TranslatedRight, AllTranslatedRight, OnItsPage
<1>1. b \in Bytes(o.range)
  BY DEF Samples
<1>2. o.range \in Live /\ Walked = UNION {Bytes(r) : r \in Live}
  <2>1. o.range \in TranslatedRanges
    BY DEF TranslatedRanges
  <2> QED BY <2>1, LiveFacts DEF RightMC, BothInv, SideInv
<1>3. Walked # {}
  BY <1>1, <1>2
<1>4. AnswersRight
  BY <1>3 DEF RightMC, RightInv
<1> QED BY <1>1, <1>4 DEF AnswersRight, OnPages

LEMMA FailedMeans == ASSUME RightMC PROVE FailedRight
<1> DEFINE walked == Answered \ rejected
           all == UNION {Entries(c) : c \in UNION {Samples(r) : r \in walked}}
<1> SUFFICES ASSUME pc = "done", NoGaps, NEW r \in out_fail \ (rejected \cup unread),
                    NEW b \in Samples(r)
             PROVE  Unmapped(b) \/ Looped(b, all)
  BY DEF FailedRight
<1>1. b \in Bytes(r)
  BY DEF Samples
<1>2. /\ Walked = UNION {Bytes(t) : t \in Live} /\ Live \subseteq Asking /\ r \in Live
      /\ Live = walked /\ InputInv /\ WellFormed(arch)
  <2>1. work = <<>> /\ rest = <<>>
    BY DEF RightMC, DoneInv
  <2>2. InWork = {}
    <3>1. DOMAIN work = {} /\ DOMAIN rest = {}
      BY <2>1
    <3> QED BY <3>1 DEF InWork
  <2>3. Live = walked
    BY <2>2 DEF Live
  <2> QED BY <2>3, LiveFacts DEF RightMC, BothInv, SideInv, WalkInv, InputInv, Live
<1>3. Unmapped(b) \/ Copied(b)
  <2>1. Walked # {}
    BY <1>1, <1>2
  <2>2. AnswersRight
    BY <2>1 DEF RightMC, RightInv
  <2> QED BY <1>1, <2>2 DEF AnswersRight
<1>4. ASSUME Copied(b) PROVE Looped(b, all)
  <2>1. PICK x \in Entries(b) :
        \/ TableAt(x.entry, x.step) = TableAt(x.slot * pow2[arch.pte_bits], x.step)
        \/ \E c \in Walked : \E y \in Entries(c) :
              y.step = x.step /\ y.page # x.page /\ y.entry = x.entry
    BY <1>4 DEF Copied
  <2>2. CASE TableAt(x.entry, x.step) = TableAt(x.slot * pow2[arch.pte_bits], x.step)
    BY <2>2 DEF Looped
  <2>3. CASE \E c \in Walked : \E y \in Entries(c) :
              y.step = x.step /\ y.page # x.page /\ y.entry = x.entry
    <3>1. PICK c \in Walked : \E y \in Entries(c) :
              y.step = x.step /\ y.page # x.page /\ y.entry = x.entry
      BY <2>3
    <3>2. PICK y \in Entries(c) : y.step = x.step /\ y.page # x.page /\ y.entry = x.entry
      BY <3>1
    <3>3. PICK t \in walked : c \in Bytes(t)
      BY <1>2
    <3>4. PICK a \in Samples(t) :
              a \in Nat /\ c \in Nat /\ a \div page_size_step(Last) = c \div page_size_step(Last)
      <4>1. t \in Asking /\ Word - 1 \notin Bytes(t)
        BY <1>2, <3>3 DEF NoGaps
      <4> QED BY <1>2, <3>3, <4>1, SampleOf
    <3>5. y \in Entries(a)
      BY <1>2, <3>2, <3>4, EntriesAgree
    <3>6. y \in all
      BY <3>3, <3>4, <3>5
    <3> QED BY <3>2, <3>6 DEF Looped
  <2> QED BY <2>1, <2>2, <2>3
<1> QED BY <1>3, <1>4

(* However the ranges of a call are cut, merged and moved, and whatever    *)
(* the guest writes to its tables between two reads, a range that was      *)
(* translated is on the page that the walk of each of its samples alone    *)
(* leads to, as long as the lowest byte walked on every page but the first *)
(* of a table is that page's first one and large pages are aligned         *)
(* (mmu_spec.rs:363-439, 499-520).                                         *)
THEOREM WalksAreRight == MCSpec => []TranslatedRight
BY TranslatedMeans, RightInvariance, PTL

(* As long as there are no such gaps, a range that the walk failed is not  *)
(* mapped, or its walk has an entry that leads to its own table or that    *)
(* another page of the call has as well: the check for loops takes these   *)
(* for loops (mmu_spec.rs:384-392, 499-520).                               *)
THEOREM FailuresAreRight == MCSpec => []FailedRight
BY FailedMeans, RightInvariance, PTL
=============================================================================
