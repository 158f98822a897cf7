----------------------- MODULE CachedTranslateProofs -----------------------
(***************************************************************************)
(* The translation cache for every page size, number of pages, entries and *)
(* address spaces, every window and any change of the page tables: no      *)
(* answer is older than the window, provided that every address space has  *)
(* a table id of its own (CTInv); and every byte of a call is answered     *)
(* once, whatever the ids (OnceInv).                                       *)
(***************************************************************************)
EXTENDS CachedTranslate, FiniteSetTheorems, WellFoundedInduction, TLAPS

(* Which two PAE roots in one page do not fulfil (x86/mod.rs:83). *)
IdsAreOwn == \A s, t \in Spaces : table_id[s] = table_id[t] => s = t

----------------------------------------------------------------------------
(* The inductive invariant *)

(* Pieces of the address space: what items are cut into. *)
Chunk == {c \in Piece : c.len # 0 /\ c.addr + c.len <= (MaxPage + 1) * PageSize}

TableId == {table_id[s] : s \in Spaces} \cup {NoTable}
Entry   == [pt : TableId, page : Page \cup {NotMapped}, frame : Translation]

(* An entry that any address space can own is about a page. *)
EntryInv ==
    /\ entries \in [Slot -> Entry] /\ age \in [Slot -> Age]
    /\ \A i \in Slot : entries[i].pt # NoTable => entries[i].page \in Page

(* An entry that a space takes for its own is as fresh as its age says.    *)
Recent(s, p, f, a) == IdsAreOwn => Fresh(s, p, f, a)

EntriesRecent ==
    \A i \in Slot, s \in Spaces :
        entries[i].pt = table_id[s] /\ age[i] <= Window =>
            Recent(s, entries[i].page, entries[i].frame, age[i])

(* What is still to be done lies in the address space; what waits to be    *)
(* stored belongs to the call that walked it, and so do the answers.       *)
WaitingInv ==
    /\ todo \in Seq(Chunk)
    /\ misses \subseteq Chunk /\ uncached_in \subseteq Chunk
    /\ pc \in {"idle", "lookup", "return"} => uncached_out = <<>> /\ uncached_out_fail = <<>>
    /\ pc = "idle" => out = <<>>

(* The page tables gave this answer at most a ticks ago. *)
GivenIn(tables, lags, s, e, a) ==
    /\ e \in Answer /\ e.len # 0 /\ e.addr + e.len <= (MaxPage + 1) * PageSize
    /\ \A q \in PagesOf(e.addr, e.len) :
          LET f == FrameOf(e.frame, q - page_of(e.addr))
          IN  /\ f \in Translation
              /\ IdsAreOwn => tables[s][q] = f \/ lags[s][q][f] <= a

Given(e, a) == GivenIn(table, lag, space, e, a)

AnswersInv ==
    /\ \A i \in 1..Len(uncached_out) : Given(uncached_out[i], 0)
    /\ \A i \in 1..Len(uncached_out_fail) :
          Given(uncached_out_fail[i], 0) /\ uncached_out_fail[i].frame = NotMapped
    /\ \A i \in 1..Len(out) : Given(out[i], Window)

CTInv == TypeOK /\ EntryInv /\ WaitingInv /\ AnswersInv /\ EntriesRecent

----------------------------------------------------------------------------
(* Pages and their bytes *)

LEMMA PageSplit ==
    ASSUME NEW a \in Nat
    PROVE  /\ page_of(a) \in Nat /\ a % PageSize \in 0..(PageSize - 1)
           /\ a = PageSize * page_of(a) + (a % PageSize)
BY PageAssumption DEF page_of

LEMMA PageMonotone ==
    ASSUME NEW a \in Nat, NEW b \in Nat, a <= b
    PROVE  page_of(a) <= page_of(b)
BY PageAssumption DEF page_of

LEMMA PageBound ==
    ASSUME NEW a \in Nat, a < (MaxPage + 1) * PageSize
    PROVE  page_of(a) \in Page
BY PageAssumption DEF page_of, Page

(* A cut no longer than the first page's share stays in this page. *)
LEMMA CutInPage ==
    ASSUME NEW a \in Nat, NEW n \in Nat, n > 0, n <= PageSize - (a % PageSize)
    PROVE  page_of(a + n - 1) = page_of(a)
BY PageAssumption DEF page_of

(* Two bytes further is at most one page further. *)
LEMMA TwoBehind ==
    ASSUME NEW a \in Nat
    PROVE  page_of(a + 2) <= page_of(a) + 1
BY PageAssumption DEF page_of

LEMMA IndexInSlot == ASSUME NEW p \in Nat PROVE get_cache_index(p) \in Slot
BY EntriesAssumption DEF get_cache_index, Slot

(* The pages of a chunk exist, and the first one is among them. *)
LEMMA ChunkPages ==
    ASSUME NEW a \in Nat, NEW n \in Nat \ {0}, a + n <= (MaxPage + 1) * PageSize
    PROVE  /\ PagesOf(a, n) = page_of(a)..page_of(a + n - 1)
           /\ PagesOf(a, n) \subseteq Page
           /\ page_of(a) \in PagesOf(a, n)
<1>1. PagesOf(a, n) = page_of(a)..page_of(a + n - 1)
  BY DEF PagesOf
<1>2. page_of(a + n - 1) \in Page /\ a + n - 1 \in Nat
  <2>1. a + n - 1 \in Nat /\ a + n - 1 < (MaxPage + 1) * PageSize
    BY PageAssumption
  <2> QED BY <2>1, PageBound
<1>3. page_of(a) \in Nat
  BY PageSplit
<1>4. page_of(a) <= page_of(a + n - 1)
  BY <1>2, PageMonotone
<1> QED BY <1>1, <1>2, <1>3, <1>4, PageAssumption DEF Page

(* Less-than as the relation that the library's theorems are about. *)
LEMMA LessThan == \A x, y \in Nat : x < y => <<x, y>> \in OpToRel(<, Nat)
BY Zenon DEF OpToRel

(* The smallest element of a set of natural numbers. *)
LEMMA MinFact ==
    ASSUME NEW S \in SUBSET Nat, S # {}
    PROVE  Min(S) \in S /\ \A m \in S : Min(S) <= m
<1>1. PICK x \in S : \A y \in S : ~ (<<y, x>> \in OpToRel(<, Nat))
  BY NatLessThanWellFounded, WFMin, Zenon
<1>2. \A y \in S : x <= y
  <2> SUFFICES ASSUME NEW y \in S PROVE x <= y
    OBVIOUS
  <2>1. ~(y < x)
    BY <1>1, LessThan
  <2> QED BY <2>1
<1> QED BY <1>2 DEF Min

(* A cut lies in the range; if the first page has an entry, it does not    *)
(* leave this page.                                                        *)
LEMMA CutFact ==
    ASSUME NEW a \in Nat, NEW len \in Nat \ {0}
    PROVE  /\ chunk_len(a, len) \in 1..len
           /\ HasEntry(space, page_of(a)) => page_of(a + chunk_len(a, len) - 1) = page_of(a)
<1> DEFINE r     == PageSize - (a % PageSize)
           cuts  == {k * r : k \in 1..len} \cap 1..(len - 1)
           taken == {n \in cuts : HasEntry(space, page_of(a + n)) \/ HasEntry(space, page_of(a))}
<1>1. r \in Nat /\ r >= 1
  BY PageSplit, PageAssumption
<1>2. chunk_len(a, len) = IF taken = {} THEN len ELSE Min(taken)
  BY DEF chunk_len
<1>3. taken \in SUBSET Nat /\ taken \subseteq 1..(len - 1)
  OBVIOUS
<1>4. chunk_len(a, len) \in 1..len
  <2>1. CASE taken = {}
    BY <1>2, <2>1
  <2>2. CASE taken # {}
    <3>1. Min(taken) \in 1..(len - 1)
      BY <1>3, <2>2, MinFact
    <3> QED BY <1>2, <2>2, <3>1
  <2> QED BY <2>1, <2>2
<1>5. ASSUME HasEntry(space, page_of(a))
      PROVE  page_of(a + chunk_len(a, len) - 1) = page_of(a)
  <2>1. r <= len - 1 => r \in taken
    <3>1. 1 * r = r /\ 1 \in 1..len
      BY <1>1
    <3>2. r \in {k * r : k \in 1..len}
      BY <3>1
    <3> HIDE DEF r
    <3> QED BY <1>1, <1>5, <3>2
  <2>2. chunk_len(a, len) <= r
    <3>1. CASE r <= len - 1
      <4>1. taken # {} /\ Min(taken) <= r
        BY <1>3, <2>1, <3>1, MinFact
      <4> HIDE DEF r, taken
      <4> QED BY <1>2, <4>1
    <3>2. CASE ~(r <= len - 1)
      <4> HIDE DEF r, taken
      <4> QED BY <1>1, <1>4, <3>2
    <3> QED BY <3>1, <3>2
  <2>3. chunk_len(a, len) \in Nat /\ chunk_len(a, len) > 0
    BY <1>4
  <2> HIDE DEF cuts, taken
  <2> QED BY <2>2, <2>3, CutInPage
<1> QED BY <1>4, <1>5

----------------------------------------------------------------------------
(* The guest, and a walk that fails *)

(* Nothing that was given lately is forgotten. *)
Kept == \A s \in Spaces, p \in Page, f \in Translation, a \in Nat :
            Fresh(s, p, f, a) => Fresh(s, p, f, a)'

(* A change of a table makes the old translation one that was just given. *)
LEMMA RemapKeeps ==
    ASSUME TypeOK, Remap
    PROVE  /\ Kept /\ table' \in [Spaces -> [Page -> Translation]]
           /\ lag' \in [Spaces -> [Page -> [Translation -> Age]]]
<1>1. PICK s \in Spaces, p \in Page, f \in Translation :
          /\ table' = [table EXCEPT ![s][p] = f]
          /\ lag' = [lag EXCEPT ![s][p][table[s][p]] = 0]
  BY DEF Remap
<1>2. table' \in [Spaces -> [Page -> Translation]]
  BY <1>1 DEF TypeOK
<1>3. 0 \in Age /\ table[s][p] \in Translation
  BY WindowAssumption DEF TypeOK, Age
<1>4. lag' \in [Spaces -> [Page -> [Translation -> Age]]]
  BY <1>1, <1>3 DEF TypeOK
<1>5. ASSUME NEW s1 \in Spaces, NEW p1 \in Page, NEW f1 \in Translation, NEW a \in Nat,
             Fresh(s1, p1, f1, a)
      PROVE  Fresh(s1, p1, f1, a)'
  <2>1. CASE s1 = s /\ p1 = p /\ f1 = table[s][p]
    <3>1. lag'[s1][p1][f1] = 0
      BY <1>1, <2>1 DEF TypeOK
    <3> QED BY <3>1 DEF Fresh
  <2>2. CASE ~(s1 = s /\ p1 = p /\ f1 = table[s][p])
    <3>1. lag'[s1][p1][f1] = lag[s1][p1][f1]
      BY <1>1, <2>2 DEF TypeOK
    <3>2. table[s1][p1] = f1 => table'[s1][p1] = f1
      BY <1>1, <2>2 DEF TypeOK
    <3> QED BY <1>5, <3>1, <3>2 DEF Fresh
  <2> QED BY <2>1, <2>2
<1> QED BY <1>2, <1>4, <1>5 DEF Kept

(* A walk that failed counts as one that found nothing. *)
LEMMA FaultKeeps ==
    ASSUME TypeOK, UNCHANGED table,
           NEW P,
           lag' = [lag EXCEPT ![space] = [p \in Page |->
                      IF p \in P THEN [lag[space][p] EXCEPT ![NotMapped] = 0]
                      ELSE lag[space][p]]]
    PROVE  /\ Kept /\ lag' \in [Spaces -> [Page -> [Translation -> Age]]]
           /\ \A p \in Page \cap P : lag'[space][p][NotMapped] = 0
<1>1. 0 \in Age /\ NotMapped \in Translation /\ space \in Spaces
  BY WindowAssumption DEF TypeOK, Age, Translation
<1>2. \A p \in Page \cap P : lag'[space][p][NotMapped] = 0
  BY <1>1 DEF TypeOK
<1>3. lag' \in [Spaces -> [Page -> [Translation -> Age]]]
  <2>1. [p \in Page |-> IF p \in P THEN [lag[space][p] EXCEPT ![NotMapped] = 0]
                        ELSE lag[space][p]] \in [Page -> [Translation -> Age]]
    BY <1>1 DEF TypeOK
  <2> QED BY <1>1, <2>1 DEF TypeOK
<1>4. ASSUME NEW s \in Spaces, NEW p \in Page, NEW f \in Translation, NEW a \in Nat,
             Fresh(s, p, f, a)
      PROVE  Fresh(s, p, f, a)'
  <2>1. lag'[s][p][f] = 0 \/ lag'[s][p][f] = lag[s][p][f]
    BY <1>1 DEF TypeOK
  <2> QED BY <1>4, <2>1 DEF Fresh
<1> QED BY <1>2, <1>3, <1>4 DEF Kept

(* Answers stay given, and entries fresh, while nothing is forgotten. *)
LEMMA GivenKept ==
    ASSUME Kept, TypeOK, UNCHANGED space
    PROVE  \A e : \A a \in Nat : Given(e, a) => GivenIn(table', lag', space', e, a)
<1> SUFFICES ASSUME NEW e, NEW a \in Nat, Given(e, a)
             PROVE  GivenIn(table', lag', space', e, a)
  OBVIOUS
<1>1. PagesOf(e.addr, e.len) \subseteq Page /\ space \in Spaces
  BY ChunkPages DEF Given, GivenIn, Answer, TypeOK
<1>2. ASSUME NEW q \in PagesOf(e.addr, e.len)
      PROVE  LET f == FrameOf(e.frame, q - page_of(e.addr))
             IN  /\ f \in Translation
                 /\ IdsAreOwn => table'[space][q] = f \/ lag'[space][q][f] <= a
  <2> DEFINE f == FrameOf(e.frame, q - page_of(e.addr))
  <2>1. q \in Page /\ f \in Translation /\ Recent(space, q, f, a)
    BY <1>1 DEF Given, GivenIn, Recent, Fresh
  <2> HIDE DEF f
  <2>2. IdsAreOwn => table'[space][q] = f \/ lag'[space][q][f] <= a
    BY <1>1, <2>1 DEF Kept, Recent, Fresh
  <2> QED BY <2>1, <2>2 DEF f
<1> QED BY <1>2 DEF Given, GivenIn

(* What is still to be stored and what was answered stays right. *)
LEMMA AnswersKept ==
    ASSUME CTInv, Kept, UNCHANGED <<space, uncached_out, uncached_out_fail, out>>
    PROVE  AnswersInv'
BY GivenKept, WindowAssumption DEF CTInv, AnswersInv, Given

LEMMA EntriesKept ==
    ASSUME CTInv, Kept, UNCHANGED tlb
    PROVE  EntriesRecent'
<1> SUFFICES ASSUME NEW i \in Slot, NEW s \in Spaces,
                    entries[i].pt = table_id[s], age[i] <= Window, IdsAreOwn
             PROVE  Fresh(s, entries[i].page, entries[i].frame, age[i])'
  BY DEF EntriesRecent, Recent, tlb
<1>1. entries[i] \in Entry /\ age[i] \in Nat /\ entries[i].pt # NoTable
  BY IdAssumption, WindowAssumption DEF CTInv, EntryInv, Age
<1>2. entries[i].page \in Page /\ entries[i].frame \in Translation
  BY <1>1 DEF CTInv, EntryInv, Entry
<1>3. Fresh(s, entries[i].page, entries[i].frame, age[i])
  BY DEF CTInv, EntriesRecent, Recent
<1> QED BY <1>1, <1>2, <1>3 DEF Kept, tlb, Fresh

(* Younger answers are answers within the window. *)
LEMMA GivenYounger ==
    ASSUME TypeOK, NEW e, Given(e, 0)
    PROVE  Given(e, Window)
<1>1. ASSUME NEW q \in PagesOf(e.addr, e.len)
      PROVE  LET f == FrameOf(e.frame, q - page_of(e.addr))
             IN  /\ f \in Translation
                 /\ IdsAreOwn => table[space][q] = f \/ lag[space][q][f] <= Window
  <2> DEFINE f == FrameOf(e.frame, q - page_of(e.addr))
  <2>1. q \in Page /\ space \in Spaces /\ f \in Translation
    BY ChunkPages DEF Given, GivenIn, Answer, TypeOK
  <2>2. IdsAreOwn => table[space][q] = f \/ lag[space][q][f] <= 0
    BY DEF Given, GivenIn
  <2> HIDE DEF f
  <2>3. lag[space][q][f] \in Nat
    BY <2>1, WindowAssumption DEF TypeOK, Age
  <2> QED BY <2>1, <2>2, <2>3, WindowAssumption DEF f
<1> QED BY <1>1 DEF Given, GivenIn

(* One more answer behind the given ones. *)
LEMMA AppendGiven ==
    ASSUME NEW s \in Seq(Answer), NEW a, NEW e, Given(e, a),
           \A i \in 1..Len(s) : Given(s[i], a)
    PROVE  /\ Append(s, e) \in Seq(Answer)
           /\ \A i \in 1..Len(Append(s, e)) : Given(Append(s, e)[i], a)
<1>1. e \in Answer
  BY DEF Given, GivenIn
<1>2. Append(s, e) \in Seq(Answer) /\ Len(Append(s, e)) = Len(s) + 1
  BY <1>1
<1>3. ASSUME NEW i \in 1..(Len(s) + 1)
      PROVE  Given(Append(s, e)[i], a)
  <2>1. CASE i = Len(s) + 1
    BY <1>1, <2>1
  <2>2. CASE i # Len(s) + 1
    <3>1. i \in 1..Len(s) /\ Append(s, e)[i] = s[i]
      BY <1>1, <2>2
    <3> QED BY <3>1
  <2> QED BY <2>1, <2>2
<1> QED BY <1>2, <1>3

----------------------------------------------------------------------------
(* The steps *)

LEMMA InitInv == Init => CTInv
<1> SUFFICES ASSUME Init PROVE CTInv
  OBVIOUS
<1>1. 0 \in Age /\ Window + 1 \in Age /\ AllocAge \in Age
  BY WindowAssumption DEF Age
<1>2. EntryInv
  BY <1>1 DEF Init, EntryInv, Entry, TableId, Translation
<1>3. TypeOK
  BY <1>1, TablesAssumption DEF Init, TypeOK, Translation
<1>4. WaitingInv /\ AnswersInv
  BY DEF Init, WaitingInv, AnswersInv
<1>5. EntriesRecent
  BY IdAssumption DEF Init, EntriesRecent, Recent
<1> QED BY <1>2, <1>3, <1>4, <1>5 DEF CTInv

(* A call begins: the entries and what the tables gave grow older alike. *)
LEMMA BeginStep ==
    ASSUME CTInv, Begin
    PROVE  CTInv'
<1>1. PICK r \in Requests, d \in Ticks :
          /\ update_validity(d)
          /\ space' \in Spaces
          /\ todo' = [i \in 1..Len(r) |-> [item |-> i, addr |-> r[i].addr, len |-> r[i].len]]
  BY DEF Begin
<1>2. d \in Nat /\ \A a \in Age : Older(a, d) \in Age
  BY WindowAssumption DEF Older, Age
<1>3. /\ pc = "idle" /\ pc' = "lookup"
      /\ UNCHANGED <<table, entries, misses, uncached_in, uncached_out, uncached_out_fail, out>>
  BY DEF Begin, walk
<1>4. age' \in [Slot -> Age] /\ lag' \in [Spaces -> [Page -> [Translation -> Age]]]
  BY <1>1, <1>2 DEF update_validity, CTInv, TypeOK, EntryInv
<1>5. TypeOK'
  <2>1. \A i \in Slot : entries'[i].frame \in Translation /\ age'[i] \in Age
    BY <1>3, <1>4 DEF CTInv, TypeOK
  <2> QED BY <1>1, <1>3, <1>4, <2>1 DEF CTInv, TypeOK
<1>6. EntryInv'
  BY <1>3, <1>4 DEF CTInv, EntryInv
<1>7. WaitingInv'
  <2>1. Len(r) \in Nat
    BY <1>1
  <2>2. ASSUME NEW i \in 1..Len(r)
        PROVE  [item |-> i, addr |-> r[i].addr, len |-> r[i].len] \in Chunk
    BY <2>1, <2>2, RequestAssumption DEF Chunk, Piece
  <2>3. todo' \in Seq(Chunk)
    BY <1>1, <2>1, <2>2
  <2> QED BY <1>3, <2>3 DEF CTInv, WaitingInv
<1>8. AnswersInv'
  BY <1>3 DEF CTInv, WaitingInv, AnswersInv
<1>9. EntriesRecent'
  <2> SUFFICES ASSUME NEW i \in Slot, NEW s \in Spaces,
                      entries[i].pt = table_id[s], age'[i] <= Window, IdsAreOwn
               PROVE  Fresh(s, entries[i].page, entries[i].frame, age[i])'
    BY <1>3 DEF EntriesRecent, Recent
  <2>1. /\ entries[i].page \in Page /\ entries[i].frame \in Translation
        /\ age[i] \in Nat
    BY IdAssumption, WindowAssumption DEF CTInv, EntryInv, Entry, Age
  <2>2. age'[i] = age[i] + d /\ age[i] <= Window
    BY <1>1, <1>2, <2>1, WindowAssumption DEF update_validity, Older
  <2>3. Fresh(s, entries[i].page, entries[i].frame, age[i])
    BY <2>2 DEF CTInv, EntriesRecent, Recent
  <2>4. CASE table[s][entries[i].page] = entries[i].frame
    BY <1>3, <2>4 DEF Fresh
  <2>5. CASE table[s][entries[i].page] # entries[i].frame
    <3> DEFINE l == lag[s][entries[i].page][entries[i].frame]
    <3>1. l \in Nat /\ l <= age[i]
      BY <2>1, <2>3, <2>5, WindowAssumption DEF Fresh, CTInv, TypeOK, Age
    <3>2. lag'[s][entries[i].page][entries[i].frame] = Older(l, d)
      BY <1>1, <2>1, <2>5 DEF update_validity
    <3> HIDE DEF l
    <3>3. Older(l, d) = l + d
      BY <1>2, <2>1, <2>2, <3>1, WindowAssumption DEF Older
    <3>4. lag'[s][entries[i].page][entries[i].frame] <= age'[i]
      BY <1>2, <2>1, <2>2, <3>1, <3>2, <3>3
    <3> QED BY <1>3, <3>4 DEF Fresh
  <2> QED BY <2>4, <2>5
<1> QED BY <1>5, <1>6, <1>7, <1>8, <1>9 DEF CTInv

(* What is left of the items behind a cut are chunks. *)
LEMMA CutTypes ==
    ASSUME CTInv, Looked
    PROVE  /\ Cut \in Chunk /\ todo' \in Seq(Chunk)
           /\ HasEntry(space, page_of(Cut.addr)) => PagesOf(Cut.addr, Cut.len) = {page_of(Cut.addr)}
<1>1. PICK h \in Chunk : h = Head(todo)
  BY DEF Looked, CTInv, WaitingInv
<1> DEFINE n == chunk_len(h.addr, h.len)
<1>2. h.addr \in Nat /\ h.len \in Nat \ {0} /\ h.addr + h.len <= (MaxPage + 1) * PageSize
  BY <1>1 DEF Chunk, Piece
<1>3. Cut = [item |-> h.item, addr |-> h.addr, len |-> n]
  BY <1>1 DEF Cut, Chunk, Piece
<1>4. n \in 1..h.len
  BY <1>2, CutFact
<1>5. Cut \in Chunk
  <2> HIDE DEF n
  <2> QED BY <1>1, <1>2, <1>3, <1>4, PageAssumption DEF Chunk, Piece
<1>6. todo' \in Seq(Chunk)
  <2>1. todo' = Rest(n) /\ Tail(todo) \in Seq(Chunk)
    BY <1>3 DEF Looked, CTInv, WaitingInv
  <2>2. CASE n = h.len
    BY <1>1, <2>1, <2>2 DEF Rest
  <2>3. CASE n # h.len
    <3> DEFINE rest == [item |-> h.item, addr |-> h.addr + n, len |-> h.len - n]
    <3>1. rest \in Chunk
      <4> HIDE DEF n
      <4> QED BY <1>1, <1>2, <1>4, <2>3, PageAssumption DEF Chunk, Piece
    <3>2. todo' = <<rest>> \o Tail(todo)
      BY <1>1, <2>1, <2>3 DEF Rest
    <3> HIDE DEF rest
    <3> QED BY <2>1, <3>1, <3>2
  <2> QED BY <2>2, <2>3
<1>7. ASSUME HasEntry(space, page_of(Cut.addr))
      PROVE  PagesOf(Cut.addr, Cut.len) = {page_of(Cut.addr)}
  <2>1. page_of(h.addr + n - 1) = page_of(h.addr)
    BY <1>2, <1>3, <1>7, CutFact
  <2>2. PagesOf(h.addr, n) = page_of(h.addr)..page_of(h.addr + n - 1)
    <3> HIDE DEF n
    <3> QED BY <1>4 DEF PagesOf
  <2>3. page_of(h.addr) \in Nat
    BY <1>2, PageSplit
  <2> HIDE DEF n
  <2> QED BY <1>3, <2>1, <2>2, <2>3
<1> QED BY <1>5, <1>6, <1>7

(* Looking up changes no entry; a hit is given by its entry. *)
LEMMA LookupStep ==
    ASSUME CTInv, TooLong \/ Hit \/ Miss \/ LookedUp
    PROVE  CTInv'
<1>1. UNCHANGED <<guest, tlb, space, uncached_out, uncached_out_fail>>
  BY DEF TooLong, Hit, Miss, LookedUp, walk
<1>2. EntryInv' /\ EntriesRecent'
  BY <1>1 DEF guest, tlb, CTInv, EntryInv, EntriesRecent, Recent, Fresh
<1>3. pc' \in {"lookup", "walk"} /\ pc = "lookup"
  BY DEF TooLong, Hit, Miss, LookedUp, Looked
<1>4. /\ todo' \in Seq(Chunk) /\ misses' \subseteq Chunk /\ uncached_in' \subseteq Chunk
  <2>1. CASE TooLong
    <3>1. Head(todo) \in Chunk /\ Tail(todo) \in Seq(Chunk)
      BY <2>1 DEF TooLong, CTInv, WaitingInv
    <3> QED BY <2>1, <3>1 DEF TooLong, CTInv, WaitingInv
  <2>2. CASE Hit
    BY <2>2, CutTypes DEF Hit, walk, CTInv, WaitingInv
  <2>3. CASE Miss
    BY <2>3, CutTypes DEF Miss, CTInv, WaitingInv
  <2>4. CASE LookedUp
    BY <2>4 DEF LookedUp, walk, CTInv, WaitingInv
  <2> QED BY <2>1, <2>2, <2>3, <2>4
<1>5. out' \in Seq(Answer) /\ \A i \in 1..Len(out') : Given(out'[i], Window)
  <2>1. CASE Hit
    <3> DEFINE p == page_of(Cut.addr)
               x == get_cache_index(p)
               e == [item |-> Cut.item, addr |-> Cut.addr, len |-> Cut.len,
                     frame |-> entries[x].frame]
    <3>1. /\ Looked /\ HasEntry(space, p) /\ out' = Append(out, e)
      BY <2>1 DEF Hit
    <3>2. Cut \in Chunk /\ PagesOf(Cut.addr, Cut.len) = {p}
      BY <3>1, CutTypes
    <3>3. Cut.addr \in Nat /\ Cut.len \in Nat \ {0} /\ Cut.item \in Nat
          /\ Cut.addr + Cut.len <= (MaxPage + 1) * PageSize
      BY <3>2 DEF Chunk, Piece
    <3>4. p \in Nat /\ p \in Page
      BY <3>2, <3>3, ChunkPages, PageSplit
    <3>5. x \in Slot /\ space \in Spaces
      BY <3>4, IndexInSlot DEF CTInv, TypeOK
    <3>6. entries[x].pt = table_id[space] /\ entries[x].page = p /\ age[x] <= Window
      BY <3>1 DEF HasEntry
    <3>7. Recent(space, p, entries[x].frame, age[x]) /\ entries[x].frame \in Translation
      BY <3>5, <3>6 DEF CTInv, TypeOK, EntriesRecent, Recent
    <3>8. age[x] \in Nat /\ lag[space][p][entries[x].frame] \in Nat
      BY <3>4, <3>5, <3>7, WindowAssumption DEF CTInv, TypeOK, Age
    <3>9. Recent(space, p, entries[x].frame, Window)
      BY <3>6, <3>7, <3>8, WindowAssumption DEF Recent, Fresh
    <3>10. FrameOf(entries[x].frame, p - p) = entries[x].frame
      BY <3>4, <3>7, FrameAssumption DEF FrameOf, Translation, Frame
    <3> HIDE DEF p, x
    <3>11. e \in Answer
      BY <3>3, <3>7 DEF Answer
    <3>12. Given(e, Window)
      <4>1. e.addr = Cut.addr /\ e.len = Cut.len /\ e.frame = entries[x].frame
        OBVIOUS
      <4>2. PagesOf(e.addr, e.len) = {p} /\ page_of(e.addr) = p
        BY <3>2, <4>1 DEF p
      <4> HIDE DEF e
      <4> QED BY <3>3, <3>7, <3>9, <3>10, <3>11, <4>1, <4>2 DEF Given, GivenIn, Recent, Fresh
    <3> HIDE DEF e
    <3> QED BY <3>1, <3>12, AppendGiven DEF CTInv, TypeOK, AnswersInv
  <2>2. CASE TooLong \/ Miss \/ LookedUp
    <3>1. out' = out
      BY <2>2 DEF TooLong, Miss, LookedUp
    <3> QED BY <3>1 DEF CTInv, TypeOK, AnswersInv
  <2> QED BY <2>1, <2>2
<1>6. AnswersInv'
  BY <1>1, <1>5 DEF CTInv, AnswersInv, Given, guest
<1>7. WaitingInv'
  BY <1>1, <1>3, <1>4 DEF CTInv, WaitingInv
<1>8. TypeOK'
  BY <1>1, <1>3, <1>4, <1>5 DEF guest, tlb, CTInv, TypeOK, Chunk
<1> QED BY <1>2, <1>6, <1>7, <1>8 DEF CTInv

(* A piece that a walk answers is what the tables give now. *)
LEMMA WalkGiven ==
    ASSUME CTInv, NEW c \in Chunk, NEW n \in Pieces(c)
    PROVE  /\ Given(Answered(c, n, table[space][page_of(c.addr)]), 0)
           /\ Given(Answered(c, n, table[space][page_of(c.addr)]), Window)
           /\ Behind(c, n) \subseteq Chunk
<1> DEFINE f == table[space][page_of(c.addr)]
           e == Answered(c, n, f)
<1>1. c.item \in Nat /\ c.addr \in Nat /\ c.len \in Nat \ {0}
      /\ c.addr + c.len <= (MaxPage + 1) * PageSize
  BY DEF Chunk, Piece
<1>2. n \in 1..c.len /\ c.addr + n <= (MaxPage + 1) * PageSize
  BY <1>1, PageAssumption DEF Pieces
<1>3. PagesOf(c.addr, n) \subseteq Page /\ page_of(c.addr) \in Page /\ space \in Spaces
  BY <1>1, <1>2, ChunkPages DEF CTInv, TypeOK
<1>4. \A q \in PagesOf(c.addr, n) : table[space][q] = FrameOf(f, q - page_of(c.addr))
  BY DEF Pieces
<1>5. \A q \in Page : table[space][q] \in Translation
  BY <1>3 DEF CTInv, TypeOK
<1> HIDE DEF f
<1>6. e = [item |-> c.item, addr |-> c.addr, len |-> n, frame |-> f]
  BY DEF Answered
<1>7. f \in Translation
  BY <1>3, <1>5 DEF f
<1>8. e \in Answer /\ e.len # 0 /\ e.addr = c.addr /\ e.len = n /\ e.frame = f
  BY <1>1, <1>2, <1>6, <1>7 DEF Answer
<1> HIDE DEF e
<1>9. Given(e, 0)
  BY <1>2, <1>3, <1>4, <1>5, <1>8 DEF Given, GivenIn
<1>10. Behind(c, n) \subseteq Chunk
  BY <1>1, <1>2, PageAssumption DEF Behind, Chunk, Piece
<1> QED BY <1>9, <1>10, GivenYounger DEF CTInv, e, f

LEMMA WalkStep ==
    ASSUME CTInv, Walk \/ WalkLong \/ Walked
    PROVE  CTInv'
<1>1. UNCHANGED <<guest, tlb, space, todo>>
  BY DEF Walk, WalkLong, Walked
<1>2. EntryInv' /\ EntriesRecent'
  BY <1>1 DEF guest, tlb, CTInv, EntryInv, EntriesRecent, Recent, Fresh
<1>3. pc' \in {"walk", "store"} /\ pc = "walk"
  BY DEF Walk, WalkLong, Walked
<1>4. /\ misses' \subseteq Chunk /\ uncached_in' \subseteq Chunk
      /\ uncached_out' \in Seq(Answer) /\ uncached_out_fail' \in Seq(Answer)
      /\ out' \in Seq(Answer)
      /\ \A i \in 1..Len(uncached_out') : Given(uncached_out'[i], 0)
      /\ \A i \in 1..Len(uncached_out_fail') :
            Given(uncached_out_fail'[i], 0) /\ uncached_out_fail'[i].frame = NotMapped
      /\ \A i \in 1..Len(out') : Given(out'[i], Window)
  <2>1. CASE Walk
    <3>1. PICK c, n :
              /\ c \in misses /\ n \in Pieces(c)
              /\ misses' = (misses \ {c}) \cup Behind(c, n)
              /\ LET f == table[space][page_of(c.addr)] IN
                 IF f = NotMapped
                 THEN /\ uncached_out_fail' = Append(uncached_out_fail, Answered(c, n, f))
                      /\ UNCHANGED uncached_out
                 ELSE /\ uncached_out' = Append(uncached_out, Answered(c, n, f))
                      /\ UNCHANGED uncached_out_fail
      BY <2>1 DEF Walk
    <3> DEFINE f == table[space][page_of(c.addr)]
               e == Answered(c, n, f)
    <3>2. c \in Chunk /\ n \in Pieces(c) /\ out' = out /\ uncached_in' = uncached_in
      BY <2>1, <3>1 DEF Walk, CTInv, WaitingInv
    <3>3. Given(e, 0) /\ Behind(c, n) \subseteq Chunk
      BY <3>2, WalkGiven
    <3>4. misses' \subseteq Chunk /\ uncached_in' \subseteq Chunk
      BY <3>1, <3>2, <3>3 DEF CTInv, WaitingInv
    <3>5. e.frame = f
      BY DEF Answered
    <3>6. CASE f = NotMapped
      <4>1. uncached_out_fail' = Append(uncached_out_fail, e) /\ uncached_out' = uncached_out
        BY <3>1, <3>6
      <4>2. /\ uncached_out_fail' \in Seq(Answer)
            /\ \A i \in 1..Len(uncached_out_fail') : Given(uncached_out_fail'[i], 0)
        BY <3>3, <4>1, AppendGiven DEF CTInv, TypeOK, AnswersInv
      <4>3. \A i \in 1..Len(uncached_out_fail') : uncached_out_fail'[i].frame = NotMapped
        <5> HIDE DEF e, f
        <5> QED BY <3>5, <3>6, <4>1, <4>2 DEF CTInv, TypeOK, AnswersInv
      <4> QED BY <3>2, <3>4, <4>1, <4>2, <4>3 DEF CTInv, TypeOK, AnswersInv
    <3>7. CASE f # NotMapped
      <4>1. uncached_out' = Append(uncached_out, e) /\ uncached_out_fail' = uncached_out_fail
        BY <3>1, <3>7
      <4>2. /\ uncached_out' \in Seq(Answer)
            /\ \A i \in 1..Len(uncached_out') : Given(uncached_out'[i], 0)
        BY <3>3, <4>1, AppendGiven DEF CTInv, TypeOK, AnswersInv
      <4> QED BY <3>2, <3>4, <4>1, <4>2 DEF CTInv, TypeOK, AnswersInv
    <3> QED BY <3>6, <3>7
  <2>2. CASE WalkLong
    <3>1. PICK c, n :
              /\ c \in uncached_in /\ n \in Pieces(c)
              /\ uncached_in' = (uncached_in \ {c}) \cup Behind(c, n)
              /\ out' = Append(out, Answered(c, n, table[space][page_of(c.addr)]))
      BY <2>2 DEF WalkLong
    <3>2. c \in Chunk /\ n \in Pieces(c) /\ UNCHANGED <<misses, uncached_out, uncached_out_fail>>
      BY <2>2, <3>1 DEF WalkLong, CTInv, WaitingInv
    <3> DEFINE e == Answered(c, n, table[space][page_of(c.addr)])
    <3>3. Given(e, Window) /\ Behind(c, n) \subseteq Chunk
      BY <3>2, WalkGiven
    <3> HIDE DEF e
    <3>4. out' \in Seq(Answer) /\ \A i \in 1..Len(out') : Given(out'[i], Window)
      BY <3>1, <3>3, AppendGiven DEF CTInv, TypeOK, AnswersInv, e
    <3> QED BY <3>1, <3>2, <3>3, <3>4 DEF CTInv, TypeOK, AnswersInv, WaitingInv
  <2>3. CASE Walked
    BY <2>3 DEF Walked, walk, CTInv, TypeOK, AnswersInv, WaitingInv
  <2> QED BY <2>1, <2>2, <2>3
<1>5. AnswersInv'
  BY <1>1, <1>4 DEF AnswersInv, Given, guest
<1>6. WaitingInv'
  BY <1>1, <1>3, <1>4 DEF CTInv, WaitingInv
<1>7. TypeOK'
  BY <1>1, <1>3, <1>4 DEF guest, tlb, CTInv, TypeOK, Chunk
<1> QED BY <1>2, <1>5, <1>6, <1>7 DEF CTInv

(* A failed walk: the pages of the chunk count as not mapped. *)
LEMMA FaultStep ==
    ASSUME CTInv, WalkFault
    PROVE  CTInv'
<1>1. PICK c \in misses :
          /\ misses' = misses \ {c}
          /\ uncached_out_fail' = Append(uncached_out_fail, Answered(c, c.len, NotMapped))
          /\ lag' = [lag EXCEPT ![space] = [p \in Page |->
                        IF p \in PagesOf(c.addr, c.len)
                        THEN [lag[space][p] EXCEPT ![NotMapped] = 0]
                        ELSE lag[space][p]]]
  BY DEF WalkFault
<1>2. /\ pc = "walk" /\ pc' = "walk"
      /\ UNCHANGED <<table, tlb, space, todo, uncached_in, uncached_out, out>>
  BY DEF WalkFault
<1>3. /\ Kept /\ lag' \in [Spaces -> [Page -> [Translation -> Age]]]
      /\ \A p \in Page \cap PagesOf(c.addr, c.len) : lag'[space][p][NotMapped] = 0
  BY <1>1, <1>2, FaultKeeps DEF CTInv
<1> DEFINE e == Answered(c, c.len, NotMapped)
<1>4. c \in Chunk /\ NotMapped \in Translation
  BY DEF CTInv, WaitingInv, Translation
<1>5. /\ c.item \in Nat /\ c.addr \in Nat /\ c.len \in Nat \ {0}
      /\ c.addr + c.len <= (MaxPage + 1) * PageSize
  BY <1>4 DEF Chunk, Piece
<1>6. e = [item |-> c.item, addr |-> c.addr, len |-> c.len, frame |-> NotMapped]
  BY DEF Answered
<1>7. /\ e \in Answer /\ e.addr = c.addr /\ e.len = c.len /\ e.frame = NotMapped
  BY <1>4, <1>5, <1>6 DEF Answer
<1> HIDE DEF e
<1>8. GivenIn(table', lag', space', e, 0)
  <2>1. PagesOf(c.addr, c.len) \subseteq Page
    BY <1>5, ChunkPages
  <2>2. \A q : FrameOf(NotMapped, q - page_of(c.addr)) = NotMapped
    BY DEF FrameOf
  <2> QED BY <1>2, <1>3, <1>4, <1>5, <1>7, <2>1, <2>2 DEF GivenIn
<1>9. AnswersInv'
  <2>1. \A i \in 1..Len(uncached_out_fail) :
            /\ GivenIn(table', lag', space', uncached_out_fail[i], 0)
            /\ uncached_out_fail[i].frame = NotMapped
    BY <1>2, <1>3, GivenKept DEF CTInv, AnswersInv
  <2>2. \A i \in 1..Len(uncached_out_fail') :
            /\ GivenIn(table', lag', space', uncached_out_fail'[i], 0)
            /\ uncached_out_fail'[i].frame = NotMapped
    <3>1. uncached_out_fail' = Append(uncached_out_fail, e)
      BY <1>1 DEF e
    <3>2. /\ uncached_out_fail \in Seq(Answer)
          /\ Len(uncached_out_fail') = Len(uncached_out_fail) + 1
      BY <1>7, <3>1 DEF CTInv, TypeOK
    <3>3. ASSUME NEW i \in 1..Len(uncached_out_fail')
          PROVE  \/ uncached_out_fail'[i] = e
                 \/ /\ i \in 1..Len(uncached_out_fail)
                    /\ uncached_out_fail'[i] = uncached_out_fail[i]
      BY <1>7, <3>1, <3>2
    <3> QED BY <1>7, <1>8, <2>1, <3>3
  <2>3. /\ \A i \in 1..Len(uncached_out') : GivenIn(table', lag', space', uncached_out'[i], 0)
        /\ \A i \in 1..Len(out') : GivenIn(table', lag', space', out'[i], Window)
    BY <1>2, <1>3, GivenKept, WindowAssumption DEF CTInv, AnswersInv
  <2> QED BY <2>2, <2>3 DEF AnswersInv, Given
<1>10. EntriesRecent' /\ EntryInv'
  BY <1>2, <1>3, EntriesKept DEF CTInv, EntryInv, tlb
<1>11. WaitingInv'
  BY <1>1, <1>2, <1>4 DEF CTInv, WaitingInv
<1>12. TypeOK'
  BY <1>1, <1>2, <1>3, <1>7 DEF CTInv, TypeOK, tlb, e
<1> QED BY <1>9, <1>10, <1>11, <1>12 DEF CTInv

(* The guest changes a table at any moment. *)
LEMMA RemapStep ==
    ASSUME CTInv, Remap
    PROVE  CTInv'
<1>1. /\ Kept /\ table' \in [Spaces -> [Page -> Translation]]
      /\ lag' \in [Spaces -> [Page -> [Translation -> Age]]]
  BY RemapKeeps DEF CTInv
<1>2. UNCHANGED <<tlb, pc, space, todo, misses, uncached_in, uncached_out, uncached_out_fail, out>>
  BY DEF Remap, walk
<1>3. EntriesRecent' /\ EntryInv'
  BY <1>1, <1>2, EntriesKept DEF CTInv, EntryInv, tlb
<1>4. AnswersInv'
  BY <1>1, <1>2, AnswersKept DEF CTInv
<1>5. WaitingInv'
  BY <1>2 DEF CTInv, WaitingInv
<1>6. TypeOK'
  BY <1>1, <1>2 DEF CTInv, TypeOK, tlb
<1> QED BY <1>3, <1>4, <1>5, <1>6 DEF CTInv

(* What was walked is stored, the first page of each translation ...       *)
LEMMA StoreOkStep ==
    ASSUME CTInv, StoreOk
    PROVE  CTInv'
<1> DEFINE e == Head(uncached_out)
           i == get_cache_index(page_of(e.addr))
<1>1. /\ pc = "store" /\ uncached_out # <<>>
      /\ entries' = [entries EXCEPT ![i] = Cached(e)] /\ age' = [age EXCEPT ![i] = 0]
      /\ out' = Append(out, e) /\ uncached_out' = Tail(uncached_out)
      /\ UNCHANGED <<guest, pc, space, req, todo, misses, uncached_in, uncached_out_fail>>
  BY DEF StoreOk
<1>2. Given(e, 0) /\ e \in Answer
  <2>1. e = uncached_out[1] /\ 1 \in 1..Len(uncached_out)
    BY <1>1 DEF CTInv, TypeOK
  <2> QED BY <2>1 DEF CTInv, AnswersInv, Given, GivenIn
<1> HIDE DEF e
<1>3. /\ page_of(e.addr) \in Page /\ page_of(e.addr) \in Nat /\ space \in Spaces
      /\ e.frame \in Translation /\ Recent(space, page_of(e.addr), e.frame, 0)
  <2>1. /\ e.addr \in Nat /\ e.len \in Nat \ {0} /\ e.frame \in Translation
        /\ e.addr + e.len <= (MaxPage + 1) * PageSize
    BY <1>2 DEF Given, GivenIn, Answer
  <2>2. page_of(e.addr) \in PagesOf(e.addr, e.len) /\ page_of(e.addr) \in Page
    BY <2>1, ChunkPages
  <2>3. page_of(e.addr) \in Nat /\ space \in Spaces
    BY <2>1, PageSplit DEF CTInv, TypeOK
  <2>4. FrameOf(e.frame, page_of(e.addr) - page_of(e.addr)) = e.frame
    BY <2>1, <2>3, FrameAssumption DEF FrameOf, Translation, Frame
  <2> QED BY <1>2, <2>1, <2>2, <2>3, <2>4 DEF Given, GivenIn, Recent, Fresh
<1>4. i \in Slot
  BY <1>3, IndexInSlot
<1> HIDE DEF i
<1>5. Cached(e) \in Entry /\ 0 \in Age
  BY <1>3, WindowAssumption DEF Cached, Entry, TableId, Age
<1>6. EntryInv'
  <2>1. entries' \in [Slot -> Entry] /\ age' \in [Slot -> Age]
    BY <1>1, <1>4, <1>5 DEF CTInv, EntryInv
  <2>2. ASSUME NEW k \in Slot, entries'[k].pt # NoTable
        PROVE  entries'[k].page \in Page
    BY <1>1, <1>3, <1>4, <2>2 DEF CTInv, EntryInv, Cached
  <2> QED BY <2>1, <2>2 DEF EntryInv
<1>7. EntriesRecent'
  <2> SUFFICES ASSUME NEW k \in Slot, NEW s \in Spaces,
                      entries'[k].pt = table_id[s], age'[k] <= Window, IdsAreOwn
               PROVE  Fresh(s, entries[k].page, entries[k].frame, age[k])'
    BY DEF EntriesRecent, Recent
  <2>1. CASE k = i
    <3>1. entries'[k] = Cached(e) /\ age'[k] = 0
      BY <1>1, <1>4, <2>1 DEF CTInv, EntryInv
    <3>2. s = space
      BY <1>3, <3>1 DEF IdsAreOwn, Cached
    <3> QED BY <1>1, <1>3, <3>1, <3>2 DEF Recent, Fresh, Cached, guest
  <2>2. CASE k # i
    <3>1. entries'[k] = entries[k] /\ age'[k] = age[k]
      BY <1>1, <1>4, <2>2 DEF CTInv, EntryInv
    <3> QED BY <1>1, <3>1 DEF CTInv, EntriesRecent, Recent, Fresh, guest
  <2> QED BY <2>1, <2>2
<1>8. out' \in Seq(Answer) /\ \A k \in 1..Len(out') : Given(out'[k], Window)
  BY <1>1, <1>2, GivenYounger, AppendGiven DEF CTInv, TypeOK, AnswersInv
<1>9. /\ uncached_out' \in Seq(Answer)
      /\ \A k \in 1..Len(uncached_out') : Given(uncached_out'[k], 0)
  BY <1>1 DEF CTInv, TypeOK, AnswersInv
<1>10. AnswersInv'
  BY <1>1, <1>8, <1>9 DEF CTInv, AnswersInv, Given, guest
<1>11. WaitingInv'
  BY <1>1 DEF CTInv, WaitingInv
<1>12. TypeOK'
  BY <1>1, <1>6, <1>8, <1>9 DEF CTInv, TypeOK, EntryInv, Entry, guest
<1> QED BY <1>6, <1>7, <1>10, <1>11, <1>12 DEF CTInv

(* ... and the pages of each failed piece, none of them behind its end.    *)
LEMMA InvalidPagesFail ==
    ASSUME NEW a \in Nat, NEW n \in Nat \ {0}
    PROVE  InvalidPages(a, n) \subseteq PagesOf(a, n) \cap Page
<1>1. a + n - 1 \in Nat /\ (a + n - 1) + 2 = a + n + 1
  OBVIOUS
<1>2. page_of(a + n + 1) <= page_of(a + n - 1) + 1
  BY <1>1, TwoBehind
<1>3. page_of(a) \in Nat /\ page_of(a + n - 1) \in Nat /\ page_of(a + n + 1) \in Nat
  BY <1>1, PageSplit
<1>4. PagesOf(a, n) = page_of(a)..page_of(a + n - 1)
  BY DEF PagesOf
<1> QED BY <1>2, <1>3, <1>4, PageAssumption DEF InvalidPages, Page

LEMMA StoreFailStep ==
    ASSUME CTInv, StoreFail
    PROVE  CTInv'
<1> DEFINE e == Head(uncached_out_fail)
           P == {p \in InvalidPages(e.addr, e.len) : Replaceable(get_cache_index(p))}
           At(i) == {p \in P : get_cache_index(p) = i}
<1>1. /\ pc = "store" /\ uncached_out_fail # <<>>
      /\ entries' = [i \in Slot |-> IF At(i) = {} THEN entries[i]
                        ELSE [pt |-> table_id[space], page |-> Min(At(i)), frame |-> NotMapped]]
      /\ age' = [i \in Slot |-> IF At(i) = {} THEN age[i] ELSE 0]
      /\ out' = Append(out, e) /\ uncached_out_fail' = Tail(uncached_out_fail)
      /\ UNCHANGED <<guest, pc, space, req, todo, misses, uncached_in, uncached_out>>
  BY DEF StoreFail
<1>2. Given(e, 0) /\ e \in Answer /\ e.frame = NotMapped
  <2>1. e = uncached_out_fail[1] /\ 1 \in 1..Len(uncached_out_fail)
    BY <1>1 DEF CTInv, TypeOK
  <2> QED BY <2>1 DEF CTInv, AnswersInv, Given, GivenIn
<1>3. \A i \in Slot : At(i) \subseteq PagesOf(e.addr, e.len) \cap Page
  <2>1. e.addr \in Nat /\ e.len \in Nat \ {0}
    BY <1>2 DEF Given, GivenIn, Answer
  <2> QED BY <2>1, InvalidPagesFail
<1> HIDE DEF e, P
<1>4. ASSUME NEW i \in Slot, At(i) # {}
      PROVE  /\ Min(At(i)) \in Page
             /\ Recent(space, Min(At(i)), NotMapped, 0)
  <2>1. At(i) \in SUBSET Nat
    BY <1>3, PageAssumption DEF Page
  <2> HIDE DEF At
  <2>2. Min(At(i)) \in PagesOf(e.addr, e.len) \cap Page
    BY <1>3, <1>4, <2>1, MinFact
  <2>3. FrameOf(e.frame, Min(At(i)) - page_of(e.addr)) = NotMapped
    BY <1>2 DEF FrameOf
  <2> QED BY <1>2, <2>2, <2>3 DEF Given, GivenIn, Recent, Fresh
<1> HIDE DEF At
<1>5. 0 \in Age /\ space \in Spaces /\ NotMapped \in Translation
  BY WindowAssumption DEF Age, Translation, CTInv, TypeOK
<1>6. EntryInv'
  <2>1. ASSUME NEW i \in Slot
        PROVE  entries'[i] \in Entry /\ age'[i] \in Age
               /\ (entries'[i].pt # NoTable => entries'[i].page \in Page)
    <3>1. CASE At(i) = {}
      BY <1>1, <3>1 DEF CTInv, EntryInv
    <3>2. CASE At(i) # {}
      BY <1>1, <1>4, <1>5, <3>2 DEF Entry, TableId
    <3> QED BY <3>1, <3>2
  <2>2. /\ entries' = [i \in Slot |-> entries'[i]]
        /\ age' = [i \in Slot |-> age'[i]]
    BY <1>1
  <2> QED BY <2>1, <2>2 DEF EntryInv
<1>7. EntriesRecent'
  <2> SUFFICES ASSUME NEW k \in Slot, NEW s \in Spaces,
                      entries'[k].pt = table_id[s], age'[k] <= Window, IdsAreOwn
               PROVE  Fresh(s, entries[k].page, entries[k].frame, age[k])'
    BY DEF EntriesRecent, Recent
  <2>1. CASE At(k) # {}
    <3>1. /\ entries'[k] = [pt |-> table_id[space], page |-> Min(At(k)), frame |-> NotMapped]
          /\ age'[k] = 0
      BY <1>1, <2>1
    <3>2. s = space
      BY <1>5, <3>1 DEF IdsAreOwn
    <3> QED BY <1>1, <1>4, <2>1, <3>1, <3>2 DEF Recent, Fresh, guest
  <2>2. CASE At(k) = {}
    <3>1. entries'[k] = entries[k] /\ age'[k] = age[k]
      BY <1>1, <2>2
    <3> QED BY <1>1, <3>1 DEF CTInv, EntriesRecent, Recent, Fresh, guest
  <2> QED BY <2>1, <2>2
<1>8. out' \in Seq(Answer) /\ \A k \in 1..Len(out') : Given(out'[k], Window)
  BY <1>1, <1>2, GivenYounger, AppendGiven DEF CTInv, TypeOK, AnswersInv
<1>9. /\ uncached_out_fail' \in Seq(Answer)
      /\ \A k \in 1..Len(uncached_out_fail') :
            Given(uncached_out_fail'[k], 0) /\ uncached_out_fail'[k].frame = NotMapped
  BY <1>1 DEF CTInv, TypeOK, AnswersInv
<1>10. AnswersInv'
  BY <1>1, <1>8, <1>9 DEF CTInv, AnswersInv, Given, guest
<1>11. WaitingInv'
  BY <1>1 DEF CTInv, WaitingInv
<1>12. TypeOK'
  BY <1>1, <1>6, <1>8, <1>9 DEF CTInv, TypeOK, EntryInv, Entry, guest
<1> QED BY <1>6, <1>7, <1>10, <1>11, <1>12 DEF CTInv

(* The end of a call. *)
LEMMA EndStep ==
    ASSUME CTInv, Stored \/ Return
    PROVE  CTInv'
<1>1. /\ UNCHANGED <<guest, tlb, space, todo, walk>>
      /\ uncached_out = <<>> /\ uncached_out_fail = <<>>
  BY DEF Stored, Return, CTInv, WaitingInv
<1>2. \/ pc' = "return" /\ out' = out
      \/ pc' = "idle" /\ out' = <<>>
  BY DEF Stored, Return
<1>3. EntryInv' /\ EntriesRecent'
  BY <1>1 DEF guest, tlb, CTInv, EntryInv, EntriesRecent, Recent, Fresh
<1>4. AnswersInv'
  BY <1>1, <1>2 DEF guest, walk, CTInv, AnswersInv, Given
<1>5. WaitingInv'
  BY <1>1, <1>2 DEF walk, CTInv, WaitingInv
<1>6. TypeOK'
  BY <1>1, <1>2 DEF guest, tlb, walk, CTInv, TypeOK
<1> QED BY <1>3, <1>4, <1>5, <1>6 DEF CTInv

LEMMA NextInv ==
    ASSUME CTInv, [Next]_vars
    PROVE  CTInv'
<1>1. CASE Begin
  BY <1>1, BeginStep
<1>2. CASE CallStep
  BY <1>2, LookupStep, WalkStep, FaultStep, StoreOkStep, StoreFailStep, EndStep DEF CallStep
<1>3. CASE Remap
  BY <1>3, RemapStep
<1>4. CASE UNCHANGED vars
  BY <1>4 DEF vars, guest, tlb, walk, CTInv, TypeOK, EntryInv, WaitingInv, AnswersInv,
              EntriesRecent, Recent, Given, Fresh
<1> QED BY <1>1, <1>2, <1>3, <1>4 DEF Next

(* What is given within the window is no staler than the window. *)
LEMMA GivenIsFresh == CTInv /\ IdsAreOwn => BoundedStaleness
BY DEF CTInv, AnswersInv, Given, GivenIn, BoundedStaleness, Fresh

----------------------------------------------------------------------------
(* Every byte is in one place: its item, the pieces that wait for a walk   *)
(* or for a store, or the answers.                                         *)

(* Byte b of item i lies in piece c, a piece of the sequence or of the set *)
Holds(c, i, b) == c.item = i /\ c.addr <= b /\ b < c.addr + c.len
InSeq(s, i, b) == \E k \in 1..Len(s) : Holds(s[k], i, b)
InSet(S, i, b) == \E c \in S : Holds(c, i, b)

OnceSeq(s) == \A k, l \in 1..Len(s) : \A i, b \in Nat :
                  Holds(s[k], i, b) /\ Holds(s[l], i, b) => k = l
OnceSet(S) == \A c, d \in S : \A i, b \in Nat :
                  Holds(c, i, b) /\ Holds(d, i, b) => c = d

Asked(r, i, b) == i \in 1..Len(r) /\ r[i].addr <= b /\ b < r[i].addr + r[i].len

(* Exactly the bytes that were asked for are in one of the six places, and *)
(* none of them is in two.                                                 *)
OnePlace(asked, t, m, l, u, f, o) ==
    /\ asked <=> t \/ m \/ l \/ u \/ f \/ o
    /\ t => ~(m \/ l \/ u \/ f \/ o)
    /\ m => ~(l \/ u \/ f \/ o)
    /\ l => ~(u \/ f \/ o)
    /\ u => ~(f \/ o)
    /\ f => ~o

PlaceAt(i, b) ==
    OnePlace(Asked(req, i, b), InSeq(todo, i, b), InSet(misses, i, b),
             InSet(uncached_in, i, b), InSeq(uncached_out, i, b),
             InSeq(uncached_out_fail, i, b), InSeq(out, i, b))

PlaceInv == \A i, b \in Nat : PlaceAt(i, b)

ApartInv ==
    /\ OnceSeq(todo) /\ OnceSet(misses) /\ OnceSet(uncached_in)
    /\ OnceSeq(uncached_out) /\ OnceSeq(uncached_out_fail) /\ OnceSeq(out)

(* Each stage of a call leaves nothing to the stages before it. *)
StageInv ==
    /\ req \in Requests \cup {<<>>}
    /\ pc # "lookup" => todo = <<>>
    /\ pc \notin {"lookup", "walk"} => misses = {} /\ uncached_in = {}
    /\ pc = "idle" => req = <<>>

OnceInv == StageInv /\ ApartInv /\ PlaceInv

LEMMA InAppend ==
    ASSUME NEW S, NEW s \in Seq(S), NEW e \in S, NEW i, NEW b
    PROVE  InSeq(Append(s, e), i, b) <=> InSeq(s, i, b) \/ Holds(e, i, b)
<1> DEFINE t == Append(s, e)
<1>1. Len(t) = Len(s) + 1 /\ t[Len(s) + 1] = e /\ \A k \in 1..Len(s) : t[k] = s[k]
  OBVIOUS
<1> HIDE DEF t
<1>2. ASSUME InSeq(t, i, b) PROVE InSeq(s, i, b) \/ Holds(e, i, b)
  <2>1. PICK k \in 1..(Len(s) + 1) : Holds(t[k], i, b)
    BY <1>1, <1>2 DEF InSeq
  <2>2. CASE k = Len(s) + 1
    BY <1>1, <2>1, <2>2
  <2>3. CASE k \in 1..Len(s)
    BY <1>1, <2>1, <2>3 DEF InSeq
  <2> QED BY <2>2, <2>3
<1>3. ASSUME InSeq(s, i, b) \/ Holds(e, i, b) PROVE InSeq(t, i, b)
  <2>1. CASE Holds(e, i, b)
    BY <1>1, <2>1 DEF InSeq
  <2>2. CASE InSeq(s, i, b)
    <3>1. PICK k \in 1..Len(s) : Holds(s[k], i, b)
      BY <2>2 DEF InSeq
    <3> QED BY <1>1, <3>1 DEF InSeq
  <2> QED BY <1>3, <2>1, <2>2
<1> QED BY <1>2, <1>3 DEF t

LEMMA OnceAppend ==
    ASSUME NEW S, NEW s \in Seq(S), NEW e \in S, OnceSeq(s),
           \A i, b \in Nat : Holds(e, i, b) => ~InSeq(s, i, b)
    PROVE  OnceSeq(Append(s, e))
<1> DEFINE t == Append(s, e)
<1>1. Len(t) = Len(s) + 1 /\ t[Len(s) + 1] = e /\ \A k \in 1..Len(s) : t[k] = s[k]
  OBVIOUS
<1> HIDE DEF t
<1>2. SUFFICES ASSUME NEW k \in 1..(Len(s) + 1), NEW l \in 1..(Len(s) + 1),
                      NEW i \in Nat, NEW b \in Nat, Holds(t[k], i, b), Holds(t[l], i, b)
               PROVE  k = l
  BY <1>1 DEF OnceSeq, t
<1>3. CASE k = Len(s) + 1 /\ l # Len(s) + 1
  <2>1. l \in 1..Len(s)
    BY <1>3
  <2> QED BY <1>1, <1>2, <1>3, <2>1 DEF InSeq
<1>4. CASE k # Len(s) + 1 /\ l = Len(s) + 1
  <2>1. k \in 1..Len(s)
    BY <1>4
  <2> QED BY <1>1, <1>2, <1>4, <2>1 DEF InSeq
<1>5. CASE k # Len(s) + 1 /\ l # Len(s) + 1
  <2>1. k \in 1..Len(s) /\ l \in 1..Len(s)
    BY <1>5
  <2> QED BY <1>1, <1>2, <2>1 DEF OnceSeq
<1> QED BY <1>3, <1>4, <1>5

(* A sequence is its head and its tail. *)
LEMMA InTail ==
    ASSUME NEW S, NEW s \in Seq(S), s # <<>>
    PROVE  /\ \A i, b : InSeq(s, i, b) <=> Holds(Head(s), i, b) \/ InSeq(Tail(s), i, b)
           /\ OnceSeq(s) => /\ OnceSeq(Tail(s))
                            /\ \A i, b \in Nat : Holds(Head(s), i, b) => ~InSeq(Tail(s), i, b)
<1> DEFINE t == Tail(s)
<1>1. /\ Len(s) \in Nat /\ Len(s) >= 1 /\ Len(t) = Len(s) - 1 /\ Head(s) = s[1]
      /\ \A k \in 1..Len(t) : t[k] = s[k + 1]
  OBVIOUS
<1> HIDE DEF t
<1>2. ASSUME NEW i, NEW b
      PROVE  InSeq(s, i, b) <=> Holds(Head(s), i, b) \/ InSeq(t, i, b)
  <2>1. ASSUME InSeq(s, i, b) PROVE Holds(Head(s), i, b) \/ InSeq(t, i, b)
    <3>1. PICK k \in 1..Len(s) : Holds(s[k], i, b)
      BY <2>1 DEF InSeq
    <3>2. CASE k # 1
      <4>1. k - 1 \in 1..Len(t) /\ (k - 1) + 1 = k
        BY <1>1, <3>2
      <4>2. t[k - 1] = s[k]
        BY <1>1, <4>1
      <4> QED BY <3>1, <4>1, <4>2 DEF InSeq
    <3> QED BY <1>1, <3>1, <3>2
  <2>2. ASSUME InSeq(t, i, b) PROVE InSeq(s, i, b)
    <3>1. PICK k \in 1..Len(t) : Holds(t[k], i, b)
      BY <2>2 DEF InSeq
    <3>2. k + 1 \in 1..Len(s)
      BY <1>1
    <3> QED BY <1>1, <3>1, <3>2 DEF InSeq
  <2>3. Holds(Head(s), i, b) => InSeq(s, i, b)
    BY <1>1 DEF InSeq
  <2> QED BY <2>1, <2>2, <2>3
<1>3. ASSUME OnceSeq(s) PROVE OnceSeq(t)
  <2>1. SUFFICES ASSUME NEW k \in 1..Len(t), NEW l \in 1..Len(t), NEW i \in Nat, NEW b \in Nat,
                        Holds(t[k], i, b), Holds(t[l], i, b)
                 PROVE  k = l
    BY DEF OnceSeq
  <2>2. k + 1 \in 1..Len(s) /\ l + 1 \in 1..Len(s) /\ t[k] = s[k + 1] /\ t[l] = s[l + 1]
    BY <1>1
  <2>3. k + 1 = l + 1
    BY <1>3, <2>1, <2>2 DEF OnceSeq
  <2> QED BY <2>3
<1>4. ASSUME OnceSeq(s), NEW i \in Nat, NEW b \in Nat, Holds(Head(s), i, b), InSeq(t, i, b)
      PROVE  FALSE
  <2>1. PICK k \in 1..Len(t) : Holds(t[k], i, b)
    BY <1>4 DEF InSeq
  <2>2. k + 1 \in 1..Len(s) /\ 1 \in 1..Len(s) /\ t[k] = s[k + 1]
    BY <1>1
  <2>3. k + 1 = 1
    BY <1>1, <1>4, <2>1, <2>2 DEF OnceSeq
  <2> QED BY <2>3
<1> QED BY <1>2, <1>3, <1>4 DEF t

LEMMA InPrepend ==
    ASSUME NEW S, NEW t \in Seq(S), NEW c \in S
    PROVE  LET s == <<c>> \o t IN
           /\ s \in Seq(S) /\ s # <<>> /\ Head(s) = c /\ Tail(s) = t
           /\ \A i, b : InSeq(s, i, b) <=> Holds(c, i, b) \/ InSeq(t, i, b)
           /\ OnceSeq(t) /\ (\A i, b \in Nat : Holds(c, i, b) => ~InSeq(t, i, b)) => OnceSeq(s)
<1> DEFINE s == <<c>> \o t
<1>1. /\ s \in Seq(S) /\ Len(s) = Len(t) + 1 /\ s[1] = c
      /\ \A k \in 1..Len(t) : s[k + 1] = t[k]
  OBVIOUS
<1>2. s # <<>> /\ Head(s) = c
  BY <1>1
<1>3. Tail(s) = t
  <2>1. Tail(s) \in Seq(S) /\ Len(Tail(s)) = Len(t) /\ \A k \in 1..Len(t) : Tail(s)[k] = t[k]
    <3> HIDE DEF s
    <3> QED BY <1>1, <1>2
  <2> HIDE DEF s
  <2> QED BY <2>1
<1>4. \A i, b : InSeq(s, i, b) <=> Holds(c, i, b) \/ InSeq(t, i, b)
  <2> HIDE DEF s
  <2> QED BY <1>1, <1>2, <1>3, InTail
<1> HIDE DEF s
<1>5. ASSUME OnceSeq(t), \A i, b \in Nat : Holds(c, i, b) => ~InSeq(t, i, b)
      PROVE  OnceSeq(s)
  <2>1. SUFFICES ASSUME NEW k \in 1..Len(s), NEW l \in 1..Len(s), NEW i \in Nat, NEW b \in Nat,
                        Holds(s[k], i, b), Holds(s[l], i, b)
                 PROVE  k = l
    BY DEF OnceSeq
  <2>2. /\ k # 1 => k - 1 \in 1..Len(t) /\ s[k] = t[k - 1]
        /\ l # 1 => l - 1 \in 1..Len(t) /\ s[l] = t[l - 1]
    <3>1. ASSUME NEW m \in 1..Len(s), m # 1 PROVE m - 1 \in 1..Len(t) /\ s[m] = t[m - 1]
      <4>1. m - 1 \in 1..Len(t) /\ (m - 1) + 1 = m
        BY <1>1, <3>1
      <4> QED BY <1>1, <4>1
    <3> QED BY <3>1
  <2>3. CASE k # 1 /\ l # 1
    <3>1. k - 1 = l - 1
      BY <1>5, <2>1, <2>2, <2>3 DEF OnceSeq
    <3> QED BY <3>1
  <2>4. CASE k = 1 /\ l # 1
    BY <1>1, <1>5, <2>1, <2>2, <2>4 DEF InSeq
  <2>5. CASE k # 1 /\ l = 1
    BY <1>1, <1>5, <2>1, <2>2, <2>5 DEF InSeq
  <2> QED BY <2>3, <2>4, <2>5
<1> QED BY <1>1, <1>2, <1>3, <1>4, <1>5 DEF s


(* A piece is cut in two: what was answered of it, and what is behind. *)
LEMMA CutInTwo ==
    ASSUME NEW c \in Chunk, NEW n \in 1..c.len, NEW f, NEW i, NEW b \in Nat
    PROVE  /\ Holds(Answered(c, n, f), i, b) => Holds(c, i, b)
           /\ InSet(Behind(c, n), i, b) <=> Holds(c, i, b) /\ ~Holds(Answered(c, n, f), i, b)
           /\ \A d \in Behind(c, n) : Behind(c, n) = {d}
<1>1. c.addr \in Nat /\ c.len \in Nat
  BY DEF Chunk, Piece
<1>2. CASE n = c.len
  BY <1>1, <1>2 DEF Holds, InSet, Answered, Behind
<1>3. CASE n # c.len
  <2> DEFINE d == [item |-> c.item, addr |-> c.addr + n, len |-> c.len - n]
  <2>1. Behind(c, n) = {d}
    BY <1>3 DEF Behind
  <2>2. InSet(Behind(c, n), i, b) <=> Holds(d, i, b)
    BY <2>1 DEF InSet
  <2> QED BY <1>1, <2>1, <2>2 DEF Holds, Answered
<1> QED BY <1>2, <1>3

(* The same in the set of pieces that the cut one is taken from. *)
LEMMA CutInSet ==
    ASSUME NEW S \in SUBSET Chunk, OnceSet(S), NEW c \in S, NEW n \in 1..c.len, NEW f
    PROVE  LET T == (S \ {c}) \cup Behind(c, n) IN
           /\ OnceSet(T)
           /\ \A i, b \in Nat :
                /\ Holds(Answered(c, n, f), i, b) => InSet(S, i, b)
                /\ InSet(T, i, b) <=> InSet(S, i, b) /\ ~Holds(Answered(c, n, f), i, b)
<1> DEFINE R == Behind(c, n)
           T == (S \ {c}) \cup R
           e == Answered(c, n, f)
<1>1. ASSUME NEW i \in Nat, NEW b \in Nat
      PROVE  /\ Holds(e, i, b) => Holds(c, i, b)
             /\ InSet(R, i, b) <=> Holds(c, i, b) /\ ~Holds(e, i, b)
  BY CutInTwo
<1>2. \A d \in R : R = {d}
  BY CutInTwo
<1> HIDE DEF R, e
<1>3. ASSUME NEW i \in Nat, NEW b \in Nat, NEW d \in S \ {c}, Holds(d, i, b)
      PROVE  ~InSet(R, i, b) /\ ~Holds(c, i, b)
  BY <1>1, <1>3 DEF OnceSet
<1>4. OnceSet(T)
  <2>1. SUFFICES ASSUME NEW x \in T, NEW y \in T, NEW i \in Nat, NEW b \in Nat,
                        Holds(x, i, b), Holds(y, i, b)
                 PROVE  x = y
    BY DEF OnceSet
  <2>2. CASE x \in R /\ y \in R
    BY <1>2, <2>2
  <2>3. CASE x \in S \ {c} /\ y \in S \ {c}
    BY <2>1, <2>3 DEF OnceSet
  <2>4. CASE x \in S \ {c} /\ y \in R
    BY <1>3, <2>1, <2>4 DEF InSet
  <2>5. CASE x \in R /\ y \in S \ {c}
    BY <1>3, <2>1, <2>5 DEF InSet
  <2> QED BY <2>2, <2>3, <2>4, <2>5
<1>5. ASSUME NEW i \in Nat, NEW b \in Nat
      PROVE  /\ Holds(e, i, b) => InSet(S, i, b)
             /\ InSet(T, i, b) <=> InSet(S, i, b) /\ ~Holds(e, i, b)
  <2>1. Holds(e, i, b) => InSet(S, i, b)
    BY <1>1 DEF InSet
  <2>2. ASSUME InSet(T, i, b) PROVE InSet(S, i, b) /\ ~Holds(e, i, b)
    <3>1. PICK d \in T : Holds(d, i, b)
      BY <2>2 DEF InSet
    <3>2. CASE d \in R
      BY <1>1, <3>1, <3>2 DEF InSet
    <3>3. CASE d \in S \ {c}
      BY <1>1, <1>3, <3>1, <3>3 DEF InSet
    <3> QED BY <3>2, <3>3
  <2>3. ASSUME InSet(S, i, b), ~Holds(e, i, b) PROVE InSet(T, i, b)
    <3>1. PICK d \in S : Holds(d, i, b)
      BY <2>3 DEF InSet
    <3>2. CASE d = c
      <4>1. InSet(R, i, b)
        BY <1>1, <2>3, <3>1, <3>2
      <4> QED BY <4>1 DEF InSet
    <3>3. CASE d # c
      BY <3>1, <3>3 DEF InSet
    <3> QED BY <3>2, <3>3
  <2> QED BY <2>1, <2>2, <2>3
<1> QED BY <1>4, <1>5 DEF T, R, e

(* One more piece in a set, whose bytes were not in it. *)
LEMMA AddToSet ==
    ASSUME NEW S, NEW c, OnceSet(S), \A i, b \in Nat : Holds(c, i, b) => ~InSet(S, i, b)
    PROVE  /\ OnceSet(S \cup {c})
           /\ \A i, b : InSet(S \cup {c}, i, b) <=> InSet(S, i, b) \/ Holds(c, i, b)
BY DEF OnceSet, InSet

(* The chunk that is looked up is cut from the head of the items. *)
LEMMA CutFromItems ==
    ASSUME CTInv, Looked, OnceSeq(todo)
    PROVE  /\ OnceSeq(todo')
           /\ \A i, b \in Nat :
                /\ Holds(Cut, i, b) => InSeq(todo, i, b)
                /\ InSeq(todo', i, b) <=> InSeq(todo, i, b) /\ ~Holds(Cut, i, b)
<1> DEFINE h == Head(todo)
           n == chunk_len(h.addr, h.len)
           d == [item |-> h.item, addr |-> h.addr + n, len |-> h.len - n]
           t == Tail(todo)
<1>1. todo \in Seq(Chunk) /\ todo # <<>> /\ h \in Chunk /\ t \in Seq(Chunk)
  BY DEF CTInv, WaitingInv, Looked
<1>2. h.addr \in Nat /\ h.len \in Nat \ {0} /\ h.item \in Nat /\ h \in Piece
      /\ h.addr + h.len <= (MaxPage + 1) * PageSize
  <2> HIDE DEF h
  <2> QED BY <1>1 DEF Chunk, Piece
<1>3. n \in 1..h.len
  <2> HIDE DEF h
  <2> QED BY <1>2, CutFact
<1>4. Cut = [h EXCEPT !.len = n]
  BY DEF Cut
<1>5. Cut.item = h.item /\ Cut.addr = h.addr /\ Cut.len = n
  <2> HIDE DEF h, n
  <2> QED BY <1>2, <1>4 DEF Piece
<1>6. todo' = IF n = h.len THEN t ELSE <<d>> \o t
  <2>1. todo' = Rest(Cut.len)
    BY DEF Looked
  <2> HIDE DEF n
  <2> QED BY <1>5, <2>1 DEF Rest
<1>7. /\ \A i, b : InSeq(todo, i, b) <=> Holds(h, i, b) \/ InSeq(t, i, b)
      /\ OnceSeq(t) /\ \A i, b \in Nat : Holds(h, i, b) => ~InSeq(t, i, b)
  BY <1>1, InTail
<1>8. \A i, b \in Nat : Holds(Cut, i, b) => Holds(h, i, b)
  <2> HIDE DEF h, n
  <2> QED BY <1>2, <1>3, <1>5 DEF Holds
<1>9. CASE n = h.len
  <2>1. \A i, b \in Nat : Holds(Cut, i, b) <=> Holds(h, i, b)
    <3> HIDE DEF h, n
    <3> QED BY <1>5, <1>9 DEF Holds
  <2>2. todo' = t
    BY <1>6, <1>9
  <2> HIDE DEF h, n, t
  <2> QED BY <1>7, <2>1, <2>2
<1>10. CASE n # h.len
  <2>1. d \in Chunk
    <3> HIDE DEF h, n
    <3> QED BY <1>2, <1>3, <1>10 DEF Chunk, Piece
  <2>2. \A i, b \in Nat : Holds(d, i, b) <=> Holds(h, i, b) /\ ~Holds(Cut, i, b)
    <3>1. d.item = h.item /\ d.addr = h.addr + n /\ d.len = h.len - n
      OBVIOUS
    <3> HIDE DEF h, n, d
    <3> QED BY <1>2, <1>3, <1>5, <3>1 DEF Holds
  <2>3. todo' = <<d>> \o t
    BY <1>6, <1>10
  <2> HIDE DEF h, n, t, d
  <2>4. \A i, b : InSeq(todo', i, b) <=> Holds(d, i, b) \/ InSeq(t, i, b)
    BY <1>1, <2>1, <2>3, InPrepend
  <2>5. \A i, b \in Nat : Holds(d, i, b) => ~InSeq(t, i, b)
    BY <1>7, <2>2
  <2>6. OnceSeq(todo')
    BY <1>1, <1>7, <2>1, <2>3, <2>5, InPrepend
  <2> QED BY <1>7, <1>8, <2>2, <2>4, <2>6
<1> QED BY <1>9, <1>10


(* A walk answers at least one byte of a piece, and no more than it has. *)
LEMMA PieceLength ==
    ASSUME NEW c \in Chunk, NEW n \in Pieces(c)
    PROVE  n \in 1..c.len
BY DEF Pieces, Chunk, Piece

LEMMA OnceInit == Init => OnceInv
<1> SUFFICES ASSUME Init PROVE OnceInv
  OBVIOUS
<1>1. /\ req = <<>> /\ todo = <<>> /\ misses = {} /\ uncached_in = {}
      /\ uncached_out = <<>> /\ uncached_out_fail = <<>> /\ out = <<>> /\ pc = "idle"
  BY DEF Init
<1> QED BY <1>1 DEF OnceInv, StageInv, ApartInv, PlaceInv, PlaceAt, OnePlace, OnceSeq, OnceSet,
                    InSeq, InSet, Asked

(* A call starts with all of its bytes in the items. *)
LEMMA OnceBegin ==
    ASSUME CTInv, OnceInv, Begin
    PROVE  OnceInv'
<1>1. PICK r \in Requests :
          /\ req' = r
          /\ todo' = [i \in 1..Len(r) |-> [item |-> i, addr |-> r[i].addr, len |-> r[i].len]]
  BY DEF Begin
<1>2. /\ pc = "idle" /\ pc' = "lookup"
      /\ UNCHANGED <<misses, uncached_in, uncached_out, uncached_out_fail, out>>
  BY DEF Begin, walk
<1>3. /\ misses = {} /\ uncached_in = {} /\ uncached_out = <<>>
      /\ uncached_out_fail = <<>> /\ out = <<>>
  BY <1>2 DEF OnceInv, StageInv, CTInv, WaitingInv
<1>4. StageInv'
  BY <1>1, <1>2 DEF StageInv
<1>5. /\ Len(r) \in Nat /\ Len(todo') = Len(r)
      /\ \A i \in 1..Len(r) : todo'[i].item = i /\ todo'[i].addr = r[i].addr /\ todo'[i].len = r[i].len
  BY <1>1
<1>6. OnceSeq(todo')
  BY <1>5 DEF OnceSeq, Holds
<1>7. ApartInv'
  BY <1>2, <1>3, <1>6 DEF ApartInv, OnceSeq, OnceSet
<1>8. ASSUME NEW i \in Nat, NEW b \in Nat
      PROVE  Asked(r, i, b) <=> InSeq(todo', i, b)
  BY <1>5 DEF Asked, InSeq, Holds
<1>9. \A i, b : ~InSeq(<<>>, i, b) /\ ~InSet({}, i, b)
  BY DEF InSeq, InSet
<1>10. PlaceInv'
  BY <1>1, <1>2, <1>3, <1>8, <1>9 DEF PlaceInv, PlaceAt, OnePlace
<1> QED BY <1>4, <1>7, <1>10 DEF OnceInv

(* The lookup moves the pieces of an item to the answers or to a walk. *)
LEMMA OnceLookup ==
    ASSUME CTInv, OnceInv, TooLong \/ Hit \/ Miss \/ LookedUp
    PROVE  OnceInv'
<1>1. UNCHANGED <<req, uncached_out, uncached_out_fail>> /\ pc = "lookup"
  BY DEF TooLong, Hit, Miss, LookedUp, Looked, walk
<1>2. /\ OnceSeq(todo) /\ OnceSet(misses) /\ OnceSet(uncached_in) /\ OnceSeq(out)
      /\ OnceSeq(uncached_out) /\ OnceSeq(uncached_out_fail)
      /\ out \in Seq(Answer) /\ todo \in Seq(Chunk)
  BY DEF OnceInv, ApartInv, CTInv, TypeOK, WaitingInv
<1>3. CASE TooLong
  <2> DEFINE c == Head(todo)
  <2>1. /\ pc' = pc /\ todo # <<>> /\ todo' = Tail(todo) /\ uncached_in' = uncached_in \cup {c}
        /\ UNCHANGED <<misses, out>>
    BY <1>3 DEF TooLong
  <2>2. /\ OnceSeq(todo')
        /\ \A i, b \in Nat : /\ InSeq(todo, i, b) <=> Holds(c, i, b) \/ InSeq(todo', i, b)
                             /\ Holds(c, i, b) => ~InSeq(todo', i, b)
    BY <1>2, <2>1, InTail
  <2> HIDE DEF c
  <2>3. \A i, b \in Nat : Holds(c, i, b) => ~InSet(uncached_in, i, b)
    BY <2>2 DEF OnceInv, PlaceInv, PlaceAt, OnePlace
  <2>4. /\ OnceSet(uncached_in')
        /\ \A i, b : InSet(uncached_in', i, b) <=> InSet(uncached_in, i, b) \/ Holds(c, i, b)
    BY <1>2, <2>1, <2>3, AddToSet
  <2>5. PlaceInv'
    <3>1. ASSUME NEW i \in Nat, NEW b \in Nat PROVE PlaceAt(i, b)'
      <4>1. PlaceAt(i, b)
        BY DEF OnceInv, PlaceInv
      <4> QED BY <1>1, <2>1, <2>2, <2>4, <4>1 DEF PlaceAt, OnePlace
    <3> QED BY <3>1 DEF PlaceInv
  <2> QED BY <1>1, <1>2, <2>1, <2>2, <2>4, <2>5 DEF OnceInv, StageInv, ApartInv
<1>4. CASE Hit
  <2> DEFINE e == [item |-> Cut.item, addr |-> Cut.addr, len |-> Cut.len,
                   frame |-> entries[get_cache_index(page_of(Cut.addr))].frame]
  <2>1. /\ Looked /\ pc' = pc /\ out' = Append(out, e) /\ UNCHANGED <<misses, uncached_in>>
    BY <1>4 DEF Hit, walk
  <2>2. /\ OnceSeq(todo')
        /\ \A i, b \in Nat : /\ Holds(Cut, i, b) => InSeq(todo, i, b)
                             /\ InSeq(todo', i, b) <=> InSeq(todo, i, b) /\ ~Holds(Cut, i, b)
    BY <1>2, <2>1, CutFromItems
  <2>3. \A i, b : Holds(e, i, b) <=> Holds(Cut, i, b)
    BY DEF Holds
  <2>4. e \in Answer
    <3>1. Cut \in Chunk
      BY <2>1, CutTypes
    <3>2. Cut.item \in Nat /\ Cut.addr \in Nat /\ Cut.len \in Nat
      BY <3>1 DEF Chunk, Piece
    <3>3. get_cache_index(page_of(Cut.addr)) \in Slot
      BY <3>2, PageSplit, IndexInSlot
    <3>4. entries[get_cache_index(page_of(Cut.addr))].frame \in Translation
      BY <3>3 DEF CTInv, TypeOK
    <3> QED BY <3>2, <3>4 DEF Answer
  <2> HIDE DEF e
  <2>5. \A i, b \in Nat : Holds(e, i, b) => ~InSeq(out, i, b)
    BY <2>2, <2>3 DEF OnceInv, PlaceInv, PlaceAt, OnePlace
  <2>6. OnceSeq(out') /\ \A i, b : InSeq(out', i, b) <=> InSeq(out, i, b) \/ Holds(e, i, b)
    BY <1>2, <2>1, <2>4, <2>5, InAppend, OnceAppend
  <2>7. PlaceInv'
    <3>1. ASSUME NEW i \in Nat, NEW b \in Nat PROVE PlaceAt(i, b)'
      <4>1. PlaceAt(i, b)
        BY DEF OnceInv, PlaceInv
      <4> QED BY <1>1, <2>1, <2>2, <2>3, <2>6, <4>1 DEF PlaceAt, OnePlace
    <3> QED BY <3>1 DEF PlaceInv
  <2> QED BY <1>1, <1>2, <2>1, <2>2, <2>6, <2>7 DEF OnceInv, StageInv, ApartInv
<1>5. CASE Miss
  <2>1. /\ Looked /\ pc' = pc /\ misses' = misses \cup {Cut} /\ UNCHANGED <<out, uncached_in>>
    BY <1>5 DEF Miss
  <2>2. /\ OnceSeq(todo')
        /\ \A i, b \in Nat : /\ Holds(Cut, i, b) => InSeq(todo, i, b)
                             /\ InSeq(todo', i, b) <=> InSeq(todo, i, b) /\ ~Holds(Cut, i, b)
    BY <1>2, <2>1, CutFromItems
  <2>3. \A i, b \in Nat : Holds(Cut, i, b) => ~InSet(misses, i, b)
    BY <2>2 DEF OnceInv, PlaceInv, PlaceAt, OnePlace
  <2>4. /\ OnceSet(misses')
        /\ \A i, b : InSet(misses', i, b) <=> InSet(misses, i, b) \/ Holds(Cut, i, b)
    BY <1>2, <2>1, <2>3, AddToSet
  <2>5. PlaceInv'
    <3>1. ASSUME NEW i \in Nat, NEW b \in Nat PROVE PlaceAt(i, b)'
      <4>1. PlaceAt(i, b)
        BY DEF OnceInv, PlaceInv
      <4> QED BY <1>1, <2>1, <2>2, <2>4, <4>1 DEF PlaceAt, OnePlace
    <3> QED BY <3>1 DEF PlaceInv
  <2> QED BY <1>1, <1>2, <2>1, <2>2, <2>4, <2>5 DEF OnceInv, StageInv, ApartInv
<1>6. CASE LookedUp
  BY <1>6 DEF LookedUp, walk, OnceInv, StageInv, ApartInv, PlaceInv, PlaceAt
<1> QED BY <1>3, <1>4, <1>5, <1>6

(* What a walk answers leaves the pieces that wait for it. *)
LEMMA OnceWalk ==
    ASSUME CTInv, OnceInv, Walk \/ WalkLong \/ WalkFault \/ Walked
    PROVE  OnceInv'
<1>1. UNCHANGED <<req, todo>> /\ pc = "walk"
  BY DEF Walk, WalkLong, WalkFault, Walked
<1>2. /\ OnceSeq(todo) /\ OnceSet(misses) /\ OnceSet(uncached_in) /\ OnceSeq(out)
      /\ OnceSeq(uncached_out) /\ OnceSeq(uncached_out_fail)
      /\ out \in Seq(Answer) /\ uncached_out \in Seq(Answer) /\ uncached_out_fail \in Seq(Answer)
      /\ misses \subseteq Chunk /\ uncached_in \subseteq Chunk
  BY DEF OnceInv, ApartInv, CTInv, TypeOK, WaitingInv
<1>3. CASE Walk
  <2>1. PICK c \in misses, n \in 0..MaxPage * PageSize + PageSize :
            /\ n \in Pieces(c) /\ misses' = (misses \ {c}) \cup Behind(c, n)
            /\ LET f == table[space][page_of(c.addr)] IN
               IF f = NotMapped
               THEN /\ uncached_out_fail' = Append(uncached_out_fail, Answered(c, n, f))
                    /\ UNCHANGED uncached_out
               ELSE /\ uncached_out' = Append(uncached_out, Answered(c, n, f))
                    /\ UNCHANGED uncached_out_fail
    BY <1>3 DEF Walk
  <2> DEFINE e == Answered(c, n, table[space][page_of(c.addr)])
  <2>2. c \in Chunk /\ n \in 1..c.len /\ e \in Answer
    <3>1. c \in Chunk
      BY <1>2, <2>1
    <3>2. n \in 1..c.len
      BY <2>1, <3>1, PieceLength
    <3>3. Given(e, 0)
      BY <2>1, <3>1, WalkGiven
    <3> QED BY <3>1, <3>2, <3>3 DEF Given, GivenIn
  <2>3. /\ OnceSet(misses')
        /\ \A i, b \in Nat : /\ Holds(e, i, b) => InSet(misses, i, b)
                             /\ InSet(misses', i, b) <=> InSet(misses, i, b) /\ ~Holds(e, i, b)
    <3> DEFINE g == table[space][page_of(c.addr)]
    <3>1. misses \in SUBSET Chunk /\ OnceSet(misses) /\ c \in misses
          /\ misses' = (misses \ {c}) \cup Behind(c, n)
      BY <1>2, <2>1
    <3>2. e = Answered(c, n, g)
      OBVIOUS
    <3> HIDE DEF e, g
    <3> QED BY <2>2, <3>1, <3>2, CutInSet
  <2>4. pc' = pc /\ UNCHANGED <<out, uncached_in>>
    BY <1>3 DEF Walk
  <2>5. \/ uncached_out_fail' = Append(uncached_out_fail, e) /\ UNCHANGED uncached_out
        \/ uncached_out' = Append(uncached_out, e) /\ UNCHANGED uncached_out_fail
    BY <2>1
  <2> HIDE DEF e
  <2>6. \A i, b \in Nat : Holds(e, i, b) => ~InSeq(uncached_out_fail, i, b) /\ ~InSeq(uncached_out, i, b)
    BY <2>3 DEF OnceInv, PlaceInv, PlaceAt, OnePlace
  <2>7. CASE uncached_out_fail' = Append(uncached_out_fail, e) /\ UNCHANGED uncached_out
    <3>1. /\ OnceSeq(uncached_out_fail')
          /\ \A i, b : InSeq(uncached_out_fail', i, b) <=> InSeq(uncached_out_fail, i, b) \/ Holds(e, i, b)
      BY <1>2, <2>2, <2>6, <2>7, InAppend, OnceAppend
    <3>2. PlaceInv'
      <4>1. ASSUME NEW i \in Nat, NEW b \in Nat PROVE PlaceAt(i, b)'
        <5>1. PlaceAt(i, b)
          BY DEF OnceInv, PlaceInv
        <5> QED BY <1>1, <2>3, <2>4, <2>7, <3>1, <5>1 DEF PlaceAt, OnePlace
      <4> QED BY <4>1 DEF PlaceInv
    <3> QED BY <1>1, <1>2, <2>3, <2>4, <2>7, <3>1, <3>2 DEF OnceInv, StageInv, ApartInv
  <2>8. CASE uncached_out' = Append(uncached_out, e) /\ UNCHANGED uncached_out_fail
    <3>1. /\ OnceSeq(uncached_out')
          /\ \A i, b : InSeq(uncached_out', i, b) <=> InSeq(uncached_out, i, b) \/ Holds(e, i, b)
      BY <1>2, <2>2, <2>6, <2>8, InAppend, OnceAppend
    <3>2. PlaceInv'
      <4>1. ASSUME NEW i \in Nat, NEW b \in Nat PROVE PlaceAt(i, b)'
        <5>1. PlaceAt(i, b)
          BY DEF OnceInv, PlaceInv
        <5> QED BY <1>1, <2>3, <2>4, <2>8, <3>1, <5>1 DEF PlaceAt, OnePlace
      <4> QED BY <4>1 DEF PlaceInv
    <3> QED BY <1>1, <1>2, <2>3, <2>4, <2>8, <3>1, <3>2 DEF OnceInv, StageInv, ApartInv
  <2> QED BY <2>5, <2>7, <2>8
<1>4. CASE WalkFault
  <2>1. PICK c \in misses :
            /\ misses' = misses \ {c}
            /\ uncached_out_fail' = Append(uncached_out_fail, Answered(c, c.len, NotMapped))
    BY <1>4 DEF WalkFault
  <2> DEFINE e == Answered(c, c.len, NotMapped)
  <2>2. c \in Chunk /\ c.item \in Nat /\ c.addr \in Nat /\ c.len \in Nat /\ c.len \in 1..c.len
    BY <1>2 DEF Chunk, Piece
  <2>3. e \in Answer
    BY <2>2 DEF Answered, Answer, Translation
  <2>4. misses' = (misses \ {c}) \cup Behind(c, c.len)
    BY <2>1 DEF Behind
  <2>5. /\ OnceSet(misses')
        /\ \A i, b \in Nat : /\ Holds(e, i, b) => InSet(misses, i, b)
                             /\ InSet(misses', i, b) <=> InSet(misses, i, b) /\ ~Holds(e, i, b)
    BY <1>2, <2>2, <2>4, CutInSet
  <2>6. /\ pc' = pc /\ UNCHANGED <<out, uncached_in, uncached_out>>
        /\ uncached_out_fail' = Append(uncached_out_fail, e)
    BY <1>4, <2>1 DEF WalkFault
  <2> HIDE DEF e
  <2>7. \A i, b \in Nat : Holds(e, i, b) => ~InSeq(uncached_out_fail, i, b)
    BY <2>5 DEF OnceInv, PlaceInv, PlaceAt, OnePlace
  <2>8. /\ OnceSeq(uncached_out_fail')
        /\ \A i, b : InSeq(uncached_out_fail', i, b) <=> InSeq(uncached_out_fail, i, b) \/ Holds(e, i, b)
    BY <1>2, <2>3, <2>6, <2>7, InAppend, OnceAppend
  <2>9. PlaceInv'
    <3>1. ASSUME NEW i \in Nat, NEW b \in Nat PROVE PlaceAt(i, b)'
      <4>1. PlaceAt(i, b)
        BY DEF OnceInv, PlaceInv
      <4> QED BY <1>1, <2>5, <2>6, <2>8, <4>1 DEF PlaceAt, OnePlace
    <3> QED BY <3>1 DEF PlaceInv
  <2> QED BY <1>1, <1>2, <2>5, <2>6, <2>8, <2>9 DEF OnceInv, StageInv, ApartInv
<1>5. CASE WalkLong
  <2>1. PICK c \in uncached_in, n \in 0..MaxPage * PageSize + PageSize :
            /\ n \in Pieces(c) /\ uncached_in' = (uncached_in \ {c}) \cup Behind(c, n)
            /\ out' = Append(out, Answered(c, n, table[space][page_of(c.addr)]))
    BY <1>5 DEF WalkLong
  <2> DEFINE e == Answered(c, n, table[space][page_of(c.addr)])
  <2>2. c \in Chunk /\ n \in 1..c.len /\ e \in Answer
    <3>1. c \in Chunk
      BY <1>2, <2>1
    <3>2. n \in 1..c.len
      BY <2>1, <3>1, PieceLength
    <3>3. Given(e, 0)
      BY <2>1, <3>1, WalkGiven
    <3> QED BY <3>1, <3>2, <3>3 DEF Given, GivenIn
  <2>3. /\ OnceSet(uncached_in')
        /\ \A i, b \in Nat : /\ Holds(e, i, b) => InSet(uncached_in, i, b)
                             /\ InSet(uncached_in', i, b) <=> InSet(uncached_in, i, b) /\ ~Holds(e, i, b)
    <3> DEFINE g == table[space][page_of(c.addr)]
    <3>1. uncached_in \in SUBSET Chunk /\ OnceSet(uncached_in) /\ c \in uncached_in
          /\ uncached_in' = (uncached_in \ {c}) \cup Behind(c, n)
      BY <1>2, <2>1
    <3>2. e = Answered(c, n, g)
      OBVIOUS
    <3> HIDE DEF e, g
    <3> QED BY <2>2, <3>1, <3>2, CutInSet
  <2>4. /\ pc' = pc /\ UNCHANGED <<misses, uncached_out, uncached_out_fail>>
        /\ out' = Append(out, e)
    BY <1>5, <2>1 DEF WalkLong
  <2> HIDE DEF e
  <2>5. \A i, b \in Nat : Holds(e, i, b) => ~InSeq(out, i, b)
    BY <2>3 DEF OnceInv, PlaceInv, PlaceAt, OnePlace
  <2>6. OnceSeq(out') /\ \A i, b : InSeq(out', i, b) <=> InSeq(out, i, b) \/ Holds(e, i, b)
    BY <1>2, <2>2, <2>4, <2>5, InAppend, OnceAppend
  <2>7. PlaceInv'
    <3>1. ASSUME NEW i \in Nat, NEW b \in Nat PROVE PlaceAt(i, b)'
      <4>1. PlaceAt(i, b)
        BY DEF OnceInv, PlaceInv
      <4> QED BY <1>1, <2>3, <2>4, <2>6, <4>1 DEF PlaceAt, OnePlace
    <3> QED BY <3>1 DEF PlaceInv
  <2> QED BY <1>1, <1>2, <2>3, <2>4, <2>6, <2>7 DEF OnceInv, StageInv, ApartInv
<1>6. CASE Walked
  BY <1>6 DEF Walked, walk, OnceInv, StageInv, ApartInv, PlaceInv, PlaceAt
<1> QED BY <1>3, <1>4, <1>5, <1>6

(* A store passes an answer on; the call ends with answers only. *)
LEMMA OnceStore ==
    ASSUME CTInv, OnceInv, StoreOk \/ StoreFail \/ Stored \/ Return
    PROVE  OnceInv'
<1>1. /\ OnceSeq(out) /\ OnceSeq(uncached_out) /\ OnceSeq(uncached_out_fail)
      /\ out \in Seq(Answer) /\ uncached_out \in Seq(Answer) /\ uncached_out_fail \in Seq(Answer)
  BY DEF OnceInv, ApartInv, CTInv, TypeOK
<1>2. CASE StoreOk
  <2> DEFINE e == Head(uncached_out)
  <2>1. /\ uncached_out # <<>> /\ out' = Append(out, e) /\ uncached_out' = Tail(uncached_out)
        /\ UNCHANGED <<pc, req, todo, misses, uncached_in, uncached_out_fail>>
    BY <1>2 DEF StoreOk
  <2>2. /\ OnceSeq(uncached_out') /\ e \in Answer
        /\ \A i, b \in Nat : /\ InSeq(uncached_out, i, b) <=> Holds(e, i, b) \/ InSeq(uncached_out', i, b)
                             /\ Holds(e, i, b) => ~InSeq(uncached_out', i, b)
    BY <1>1, <2>1, InTail
  <2> HIDE DEF e
  <2>3. \A i, b \in Nat : Holds(e, i, b) => ~InSeq(out, i, b)
    BY <2>2 DEF OnceInv, PlaceInv, PlaceAt, OnePlace
  <2>4. OnceSeq(out') /\ \A i, b : InSeq(out', i, b) <=> InSeq(out, i, b) \/ Holds(e, i, b)
    BY <1>1, <2>1, <2>2, <2>3, InAppend, OnceAppend
  <2>5. PlaceInv'
    <3>1. ASSUME NEW i \in Nat, NEW b \in Nat PROVE PlaceAt(i, b)'
      <4>1. PlaceAt(i, b)
        BY DEF OnceInv, PlaceInv
      <4> QED BY <2>1, <2>2, <2>4, <4>1 DEF PlaceAt, OnePlace
    <3> QED BY <3>1 DEF PlaceInv
  <2> QED BY <2>1, <2>2, <2>4, <2>5 DEF OnceInv, StageInv, ApartInv
<1>3. CASE StoreFail
  <2> DEFINE e == Head(uncached_out_fail)
  <2>1. /\ uncached_out_fail # <<>> /\ out' = Append(out, e)
        /\ uncached_out_fail' = Tail(uncached_out_fail)
        /\ UNCHANGED <<pc, req, todo, misses, uncached_in, uncached_out>>
    BY <1>3 DEF StoreFail
  <2>2. /\ OnceSeq(uncached_out_fail') /\ e \in Answer
        /\ \A i, b \in Nat :
             /\ InSeq(uncached_out_fail, i, b) <=> Holds(e, i, b) \/ InSeq(uncached_out_fail', i, b)
             /\ Holds(e, i, b) => ~InSeq(uncached_out_fail', i, b)
    BY <1>1, <2>1, InTail
  <2> HIDE DEF e
  <2>3. \A i, b \in Nat : Holds(e, i, b) => ~InSeq(out, i, b)
    BY <2>2 DEF OnceInv, PlaceInv, PlaceAt, OnePlace
  <2>4. OnceSeq(out') /\ \A i, b : InSeq(out', i, b) <=> InSeq(out, i, b) \/ Holds(e, i, b)
    BY <1>1, <2>1, <2>2, <2>3, InAppend, OnceAppend
  <2>5. PlaceInv'
    <3>1. ASSUME NEW i \in Nat, NEW b \in Nat PROVE PlaceAt(i, b)'
      <4>1. PlaceAt(i, b)
        BY DEF OnceInv, PlaceInv
      <4> QED BY <2>1, <2>2, <2>4, <4>1 DEF PlaceAt, OnePlace
    <3> QED BY <3>1 DEF PlaceInv
  <2> QED BY <2>1, <2>2, <2>4, <2>5 DEF OnceInv, StageInv, ApartInv
<1>4. CASE Stored
  BY <1>4 DEF Stored, walk, OnceInv, StageInv, ApartInv, PlaceInv, PlaceAt
<1>5. CASE Return
  <2>1. /\ todo' = <<>> /\ misses' = {} /\ uncached_in' = {} /\ req' = <<>> /\ out' = <<>>
        /\ uncached_out' = <<>> /\ uncached_out_fail' = <<>> /\ pc' = "idle"
    BY <1>5 DEF Return, walk, OnceInv, StageInv, CTInv, WaitingInv
  <2> QED BY <2>1 DEF OnceInv, StageInv, ApartInv, PlaceInv, PlaceAt, OnePlace, OnceSeq, OnceSet,
                      InSeq, InSet, Asked
<1> QED BY <1>2, <1>3, <1>4, <1>5

LEMMA OnceNext ==
    ASSUME CTInv, OnceInv, [Next]_vars
    PROVE  OnceInv'
<1>1. CASE Begin
  BY <1>1, OnceBegin
<1>2. CASE CallStep
  BY <1>2, OnceLookup, OnceWalk, OnceStore DEF CallStep
<1>3. CASE Remap
  BY <1>3 DEF Remap, walk, OnceInv, StageInv, ApartInv, PlaceInv, PlaceAt
<1>4. CASE UNCHANGED vars
  BY <1>4 DEF vars, walk, OnceInv, StageInv, ApartInv, PlaceInv, PlaceAt
<1> QED BY <1>1, <1>2, <1>3, <1>4 DEF Next

(* At the end every byte is held by the answers alone. *)
LEMMA OnceIsAnswered == CTInv /\ OnceInv => AnsweredOnce
<1> SUFFICES ASSUME CTInv, OnceInv, pc = "return", NEW i \in 1..Len(req)
             PROVE  LET Mine == {k \in 1..Len(out) : out[k].item = i}
                        Of(b) == {k \in Mine : out[k].addr <= b /\ b < out[k].addr + out[k].len}
                    IN  /\ \A b \in req[i].addr..(req[i].addr + req[i].len - 1) : Cardinality(Of(b)) = 1
                        /\ \A k \in Mine : /\ req[i].addr <= out[k].addr
                                           /\ out[k].addr + out[k].len <= req[i].addr + req[i].len
  BY DEF AnsweredOnce
<1> DEFINE Mine == {k \in 1..Len(out) : out[k].item = i}
           Of(b) == {k \in Mine : out[k].addr <= b /\ b < out[k].addr + out[k].len}
<1>1. req \in Requests /\ i \in Nat /\ Len(req) \in Nat
  BY DEF OnceInv, StageInv
<1>2. req[i].addr \in Nat /\ req[i].len \in Nat \ {0}
  BY <1>1, RequestAssumption
<1>3. \A b \in Nat : Asked(req, i, b) <=> InSeq(out, i, b)
  <2>1. /\ todo = <<>> /\ misses = {} /\ uncached_in = {} /\ uncached_out = <<>>
        /\ uncached_out_fail = <<>>
    BY DEF OnceInv, StageInv, CTInv, WaitingInv
  <2>2. \A b \in Nat : /\ ~InSeq(todo, i, b) /\ ~InSet(misses, i, b) /\ ~InSet(uncached_in, i, b)
                       /\ ~InSeq(uncached_out, i, b) /\ ~InSeq(uncached_out_fail, i, b)
    BY <2>1 DEF InSeq, InSet
  <2> QED BY <1>1, <2>2 DEF OnceInv, PlaceInv, PlaceAt, OnePlace
<1>4. ASSUME NEW b \in req[i].addr..(req[i].addr + req[i].len - 1)
      PROVE  Cardinality(Of(b)) = 1
  <2>1. b \in Nat /\ Asked(req, i, b)
    BY <1>1, <1>2 DEF Asked
  <2>2. PICK k \in 1..Len(out) : Holds(out[k], i, b)
    BY <1>3, <2>1 DEF InSeq
  <2>3. \A l \in 1..Len(out) : Holds(out[l], i, b) => l = k
    BY <1>1, <2>1, <2>2 DEF OnceInv, ApartInv, OnceSeq
  <2>4. Of(b) = {k}
    BY <2>2, <2>3 DEF Holds
  <2> QED BY <2>4, FS_Singleton
<1>5. ASSUME NEW k \in Mine
      PROVE  /\ req[i].addr <= out[k].addr
             /\ out[k].addr + out[k].len <= req[i].addr + req[i].len
  <2>1. out[k].addr \in Nat /\ out[k].len \in Nat \ {0} /\ out[k].item = i
    BY DEF CTInv, TypeOK, AnswersInv, Given, GivenIn, Answer
  <2> DEFINE last == out[k].addr + out[k].len - 1
  <2>2. last \in Nat
    BY <2>1
  <2>3. Holds(out[k], i, out[k].addr) /\ Holds(out[k], i, last)
    BY <2>1 DEF Holds
  <2>4. Asked(req, i, out[k].addr) /\ Asked(req, i, last)
    <3> HIDE DEF last
    <3> QED BY <1>3, <2>1, <2>2, <2>3 DEF InSeq
  <2>5. req[i].addr <= out[k].addr /\ last < req[i].addr + req[i].len
    <3> HIDE DEF last
    <3> QED BY <2>4 DEF Asked
  <2>6. req[i].addr + req[i].len \in Nat
    BY <1>2
  <2> QED BY <2>1, <2>5, <2>6
<1> QED BY <1>4, <1>5

----------------------------------------------------------------------------
(* Theorems *)

(* Entries are as fresh as their age says and answers within the window,   *)
(* with every cache and every page size, whatever the guest does to its    *)
(* tables and whichever walks fail (cached_vat.rs:133-221).                *)
THEOREM Invariance ==
    ASSUME IdsAreOwn
    PROVE  Spec => []IInv
<1>1. Init => CTInv
  BY InitInv
<1>2. CTInv /\ [Next]_vars => CTInv'
  BY NextInv
<1>3. CTInv => IInv
  BY GivenIsFresh DEF CTInv, IInv, EntriesRecent, Recent, EntriesAreFresh
<1> QED BY <1>1, <1>2, <1>3, PTL DEF Spec

(* A translation of another page or address space, or of an entry that has *)
(* expired, is never handed out (tlb_cache.rs:67-98).                      *)
THEOREM StalenessIsBounded ==
    ASSUME IdsAreOwn
    PROVE  Spec => []BoundedStaleness
<1>1. IInv => BoundedStaleness
  BY DEF IInv
<1> QED BY <1>1, Invariance, PTL

(* When a call returns, every byte of its items is in exactly one answer,  *)
(* whatever was cached, merged, too long, or cut by a walk, and whether or *)
(* not spaces share a table id (cached_vat.rs:133-221).                    *)
THEOREM EveryByteOnce == Spec => []AnsweredOnce
<1>1. Init => CTInv /\ OnceInv
  BY InitInv, OnceInit
<1>2. (CTInv /\ OnceInv) /\ [Next]_vars => (CTInv /\ OnceInv)'
  BY NextInv, OnceNext
<1>3. CTInv /\ OnceInv => AnsweredOnce
  BY OnceIsAnswered
<1> QED BY <1>1, <1>2, <1>3, PTL DEF Spec
=============================================================================
