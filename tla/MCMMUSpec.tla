----------------------------- MODULE MCMMUSpec -----------------------------
(***************************************************************************)
(* Instances of MMUSpec, and what a translation promises.  The reference   *)
(* is the walk of a processor for one byte, Walks: it reads one entry per  *)
(* level and follows it.  Beside the walk, in behaviours of its own, the   *)
(* iterator that cuts every range of it along pages (PageChunks).          *)
(***************************************************************************)
EXTENDS MMUSpec, PageChunks

(* Two levels, entries half as long as a read, NX bit within the address:  *)
(* x32.  The 64 bits of an address are 6, the 32 of x32 are 5.             *)
Small == [splits |-> <<1, 2, 2>>, final_steps |-> {1, 2}, space_bits |-> 4,
          addr_bits |-> 5, word_bits |-> 6, pte_bits |-> 0, read_size |-> 2,
          entry_bits |-> 5, present_bit |-> 0, large_page_bit |-> 1,
          writeable_bit |-> 4, nx_bit |-> 3]

(* Three levels, and addresses that have more bits than the walk uses: x64 *)
Deep == [splits |-> <<1, 1, 2, 2>>, final_steps |-> {2, 3}, space_bits |-> 4,
         addr_bits |-> 7, word_bits |-> 7, pte_bits |-> 0, read_size |-> 1,
         entry_bits |-> 6, present_bit |-> 0, large_page_bit |-> 1,
         writeable_bit |-> 4, nx_bit |-> 5]

(* Entries: P present, L large, W writeable; frames at 0, 4, 8 and 12.     *)
P == 1
L == 2
W == 16

(* The tables: the first one at dtb, the last one in the frame at 4.       *)
SmallTables(d) ==
    {[s \in 0..15 |->
        CASE s = d -> a [] s = d + 1 -> b
          [] s \in 4..7 -> leaf[s - 3] [] OTHER -> 0] :
        a \in {4 + P, L + P, 0}, b \in {4 + P, d + P, 8 + P},
        leaf \in {<<8 + P, 12 + P, 8 + P, 0>>, <<8 + P, 12 + P + W, 0, 4 + P>>,
                  <<0, 12 + P, 8 + P, P>>}}

DeepTables ==
    {[s \in 0..15 |->
        CASE s = 0 -> a [] s = 1 -> b [] s = 8 -> c [] s = 9 -> e
          [] s \in 4..7 -> leaf[s - 3] [] OTHER -> 0] :
        a \in {8 + P, 0}, b \in {8 + P, P}, c \in {4 + P, L + P},
        e \in {4 + P, 0},
        leaf \in {<<8 + P, 12 + P, P, 0>>, <<P + W, 12 + P, 0, 8 + P>>}}

(* One range, ranges side by side, ranges far apart and twice the same.    *)
R(a, n) == [addr |-> a, len |-> n]
Dense == {<<>>, <<R(3, 0)>>, <<R(1, 2)>>, <<R(3, 7)>>, <<R(0, 15)>>,
          <<R(2, 3), R(8, 2)>>, <<R(1, 2), R(1, 2)>>, <<R(14, 4), R(7, 1)>>,
          <<R(17, 9), R(0, 2), R(9, 2)>>, <<R(8, 2), R(16, 3)>>}
Gaps == {<<R(1, 2), R(6, 1), R(9, 1)>>, <<R(3, 1), R(7, 1), R(9, 2), R(18, 3)>>}

SmallReqs == Dense \cup Gaps \cup {<<R(0, 63)>>, <<R(3, 20)>>, <<R(0, 32)>>}
DeepReqs  == Dense \cup Gaps \cup
    {<<R(0, 127)>>, <<R(0, 64)>>, <<R(0, 120), R(5, 3)>>, <<R(20, 100)>>, <<R(70, 2)>>,
     <<R(98, 5), R(4, 9)>>}

MCSetups ==
    {[arch |-> Small, dtb |-> 0, mem |-> m, req |-> q] :
        m \in SmallTables(0), q \in SmallReqs} \cup
    {[arch |-> Small, dtb |-> 14, mem |-> m, req |-> q] :
        m \in SmallTables(14), q \in {<<R(3, 7)>>, <<R(14, 4), R(7, 1)>>}} \cup
    {[arch |-> Deep, dtb |-> 0, mem |-> m, req |-> q] :
        m \in DeepTables, q \in DeepReqs}

GapSetups ==
    {[arch |-> Small, dtb |-> 0, mem |-> m, req |-> q] :
        m \in SmallTables(0), q \in Gaps}

MCGuestWrites == {<<0, 0>>, <<5, 12 + P>>, <<6, 4 + P>>, <<9, 4 + P>>}

VARIABLE part

(* No buffer is being cut. *)
NoChunks ==
    /\ v = NoBuf /\ cur_address = 0 /\ cur_off = 0 /\ start = 0 /\ total = 0
    /\ done = 0 /\ merged = FALSE /\ hint = 0 /\ chunks = <<>>

MCInit ==
    \/ part = "walk" /\ Init /\ NoChunks
    \/ /\ part = "chunks" /\ Init /\ ChunksInit
       /\ arch = Small /\ dtb = 0 /\ req = <<>>
       /\ mem = CHOOSE m \in SmallTables(0) : TRUE

MCNext ==
    \/ part = "walk" /\ Next /\ UNCHANGED <<chunk_vars, part>>
    \/ part = "chunks" /\ ChunksNext /\ UNCHANGED <<vars, part>>

MCSpec ==
    MCInit /\ [][MCNext]_<<vars, chunk_vars, part>> /\ WF_chunk_vars(ChunksNext)

----------------------------------------------------------------------------
(* The reference *)

TableIndex(a, s) == (a \div pow2[min_index_bits(s)]) % pow2[split(s)]
TableAt(entry, s) ==
    LET size == pow2[IF s = Last THEN split(s) ELSE split(s) + arch.pte_bits]
        in_space == entry % pow2[arch.space_bits]
    IN in_space - (in_space % size)

(* The frame of the page that a final entry stands for: bits of the entry  *)
(* within a large page are no part of its address.                         *)
FrameAt(entry, s) ==
    LET in_space == entry % pow2[arch.space_bits]
    IN in_space - (in_space % page_size_step(s))

Present(entry, s) == s = 0 \/ (entry \div pow2[arch.present_bit]) % 2 = 1
Large(entry, s)   == s \in arch.final_steps /\ (entry \div pow2[arch.large_page_bit]) % 2 = 1
IsPage(entry, s)  == Present(entry, s) /\ (s = Last \/ Large(entry, s))
IsTable(entry, s) == Present(entry, s) /\ s # Last /\ ~Large(entry, s)

SlotOf(a, s, entry) == Slot(TableAt(entry, s)) + TableIndex(a, s)

(* The entries with which the walk of byte a may come to each step, every  *)
(* entry being one that the tables had since the call began.               *)
Reach(a) ==
    LET reach[s \in 0..Last] ==
            IF s = 0 THEN {dtb}
            ELSE UNION {held[t] : t \in DOMAIN held \cap
                           {SlotOf(a, s - 1, e) : e \in {x \in reach[s - 1] : IsTable(x, s - 1)}}}
    IN  reach

(* The pages that byte a may be on at the end of such a walk. *)
PageOf(a, s, entry) ==
    [paddr |-> FrameAt(entry, s) + (a % page_size_step(s)),
     page_size |-> page_size_step(s),
     write |-> (entry \div pow2[arch.writeable_bit]) % 2 = 1,
     noexec |-> (entry \div pow2[arch.nx_bit]) % 2 = 1]

Pages(a) ==
    LET reach == Reach(a) IN
    UNION {{PageOf(a, s, e) : e \in {x \in reach[s] : IsPage(x, s)}} : s \in 0..Last}

Unmapped(a) ==
    LET reach == Reach(a) IN \E s \in 0..Last : \E e \in reach[s] : ~Present(e, s)

(* The entries that such a walk reads, as [step, slot, page, entry], page  *)
(* being the virtual page that the entry stands for.                       *)
Entries(a) ==
    LET reach == Reach(a)
        read(s, e) ==
            LET t == SlotOf(a, s, e) IN
            IF t \in DOMAIN held
            THEN {[step |-> s, slot |-> t, page |-> a \div page_size_step(s + 1),
                   entry |-> x] : x \in held[t]}
            ELSE {}
    IN UNION {UNION {read(s, e) : e \in {x \in reach[s] : IsTable(x, s)}} : s \in 0..(Last - 1)}

----------------------------------------------------------------------------
(* The places of a range *)

InWork == UNION ({work[k].vec : k \in DOMAIN work} \cup
                 {rest[k].v.vec : k \in DOMAIN rest})
TranslatedRanges == {o.range : o \in out}
Answered == TranslatedRanges \cup out_fail

Bytes(r) == {(r.addr + k) % Word : k \in 0..(r.len - 1)}
(* A byte of every page that the range has a part of *)
Samples(r) == {b \in Bytes(r) : b = r.addr \/ b % page_size_step(Last) = 0}
Walked == UNION {Bytes(r) : r \in InWork \cup (Answered \ rejected)}

(* Within every page, the lowest byte walked on any smaller page but the   *)
(* first is the first byte of that page; no range reaches the end of the   *)
(* address space.                                                          *)
NoGaps ==
    /\ Word - 1 \notin Walked
    /\ \A s \in 0..(Last - 1) :
        LET inner == page_size_step(s + 1)
            outer == IF s = 0 THEN Word ELSE page_size_step(s)
            pages == {b - (b % inner) : b \in Walked}
        IN \A p, q \in pages :
              q < p /\ q - (q % outer) = p - (p % outer) => p \in Walked

(* No entry of a large page has address bits within the page. *)
Aligned ==
    \A t \in DOMAIN held : \A e \in held[t] : \A s \in 1..(Last - 1) :
        Large(e, s) => pte_addr_mask(e, s) % page_size_step(s) = 0

(* An entry of a's walk leads to the table it is in, or another page   *)
(* has an equal one at this level; all are the entries of every byte.      *)
Looped(a, all) ==
    \E x \in Entries(a) :
        \/ TableAt(x.entry, x.step) = TableAt(x.slot * pow2[arch.pte_bits], x.step)
        \/ \E y \in all :
              y.step = x.step /\ y.page # x.page /\ y.entry = x.entry

----------------------------------------------------------------------------
(* Properties *)

(* A range is a part of the buffer that was asked for, at its address. *)
Span(r) == r.off..(r.off + r.len - 1)
Asked(r) ==
    /\ r.id \in DOMAIN req /\ r.len > 0
    /\ Span(r) \subseteq 0..(req[r.id].len - 1)
    /\ r.addr = (req[r.id].addr + r.off) % Word

TypeOK ==
    /\ pc \in {"filter", "check", "read", "compare", "done", "panic"}
    /\ step \in 0..Last /\ i \in 0..(Len(work) + Len(req) + 1)
    /\ \A r \in InWork \cup Answered \cup lost : Asked(r)
    /\ \A k \in DOMAIN work : work[k].min \in 0..(Word - 1) /\ work[k].max \in 0..(Word - 1)

(* Every byte asked for is in exactly one place: still to be translated,   *)
(* translated, failed, or dropped by virt_addr_filter; however chunks are  *)
(* cut, merged and moved (mmu_spec.rs:363-439, translate_data.rs:160-216). *)
AnsweredOnce ==
    LET all == InWork \cup Answered \cup lost IN
    /\ pc # "filter" /\ pc # "panic" =>
          \A id \in DOMAIN req : \A o \in 0..(req[id].len - 1) :
             \E r \in all : r.id = id /\ o \in Span(r)
    /\ \A r, q \in all : r = q \/ r.id # q.id \/ Span(r) \cap Span(q) = {}
    /\ InWork \cap (Answered \cup lost) = {}
    /\ TranslatedRanges \cap out_fail = {} /\ Answered \cap lost = {}
    /\ \A j, k \in DOMAIN work : j # k => work[j].vec \cap work[k].vec = {}
    /\ rest # <<>> => \A k \in DOMAIN work : work[k].vec \cap rest[1].v.vec = {}

(* The bounds that a chunk carries are those of its ranges, and, as long   *)
(* as no range goes on at the start of the address space, no chunk is      *)
(* empty but the one of a call that has nothing to translate               *)
(* (translate_data.rs:97-158, 182-212).                                    *)
ChunkBounds ==
    pc \in {"check", "read", "compare"} => \A k \in DOMAIN work :
        /\ work[k].min = MinAddr(work[k].vec) /\ work[k].max = MaxAddr(work[k].vec)
        /\ (\A j \in DOMAIN req : req[j].addr + req[j].len <= Word) =>
              (work[k].vec = {} => Walked = {} \/ InWork = {})

(* The work of a walk has its types, its chunks know their bounds, and it  *)
(* accounts for every byte asked for.                                      *)
WorkInv == TypeOK /\ ChunksTypeOK /\ ChunkBounds /\ AnsweredOnce

(* A translated range lies at the addresses, and has the page type and     *)
(* size, that a walk byte by byte finds, even if the guest changed its     *)
(* tables on the way (mmu_spec.rs:393-399, 276-293).                       *)
OnItsPage(o) ==
    \A b \in Samples(o.range) :
        [o.page EXCEPT !.paddr = @ + (b - o.range.addr)] \in Pages(b)

AllTranslatedRight == \A o \in out : OnItsPage(o)

TranslatedRight == pc = "done" /\ NoGaps /\ Aligned => AllTranslatedRight

(* What the walk fails is not mapped, or its entry is a copy of another    *)
(* one, also if the guest writes meanwhile (mmu_spec.rs:384-392, 499-520). *)
FailedRight ==
    pc = "done" /\ NoGaps =>
        LET walked == Answered \ rejected
            all == UNION {Entries(b) : b \in UNION {Samples(r) : r \in walked}}
        IN \A r \in out_fail \ (rejected \cup unread) : \A b \in Samples(r) :
              Unmapped(b) \/ Looped(b, all)
=============================================================================
