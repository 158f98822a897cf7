------------------------------ MODULE MMUSpec ------------------------------
(***************************************************************************)
(* ArchMMUSpec (architecture/mmu_spec.rs): translates a list of virtual    *)
(* ranges by walking the page tables level by level, all ranges at once.   *)
(* Ranges that go through the same table entry share a chunk; a level      *)
(* splits every chunk along the pages of the next level and reads the      *)
(* entries of all of them with one physical read.                          *)
(*                                                                         *)
(* Addresses and entries are numbers, so the masks are those of the code;  *)
(* a range is [id, off, addr, len]: the part of request id that begins off *)
(* bytes into its buffer (id and off are history).  The order of the       *)
(* ranges of a chunk decides nothing and is left out; the order of the     *)
(* chunks does (see Reject) and is kept.  Arithmetic on addresses wraps,   *)
(* as in a release build.                                                  *)
(***************************************************************************)
EXTENDS Integers, Sequences, FiniteSets, FiniteSetsExt

CONSTANTS
    Setups,        \* [arch, dtb, mem, req]: what a translation may start on
    GuestWrites,   \* <<slot, value>>: what the guest may write into its tables
    MaxGuestWrites,
    None           \* prev_addr = None

(* An arch is an ArchMMUSpec with the steps of its fields counted from 0;  *)
(* pte_bits is log2 of pte_size, addr_bits is 8 * addr_size, and word_bits *)
(* and read_size are what 64 bits and 8 bytes are on its scale.            *)
VARIABLES
    arch, dtb,     \* the architecture and its X86PageTableBase
    mem,           \* the guest's tables: one entry per pte_size bytes
    req,           \* the ranges asked for, as a sequence of [addr, len]
    pc,            \* "filter", "check", "read", "compare", "done", "panic"
    step,          \* pt_step
    i,             \* the loop variable of the loop that runs
    work,          \* data_to_translate, a sequence of [pt_addr, vec, min, max]
    rest,          \* PageChunkIterator of the chunk being cut, [v, cur_address], or none
    pt_read,       \* the entries that were read for work
    prev_addr, addr_map,
    out,           \* what was translated, with its virtual address
    out_fail,      \* what was failed
    lost,          \* history: ranges that virt_addr_filter forgot
    rejected,      \* history: ranges that it failed
    unread,        \* history: ranges failed by an error of the physical read
    held,          \* history: the values of each entry since the start
    writes         \* history: number of guest writes

vars == <<arch, dtb, mem, req, pc, step, i, work, rest, pt_read,
          prev_addr, addr_map, out, out_fail, lost, rejected, unread, held,
          writes>>
input == <<arch, dtb, req>>
loops == <<pt_read, prev_addr, addr_map>>
results == <<out, out_fail>>
history == <<lost, rejected, unread, held, writes>>

----------------------------------------------------------------------------
(* The three x86 specifications.  A first table that is shorter than a     *)
(* page, as that of PAE, may lie anywhere that its size allows.            *)
x64 ==
    [splits |-> <<9, 9, 9, 9, 12>>, final_steps |-> {2, 3, 4},
     space_bits |-> 52, addr_bits |-> 64, word_bits |-> 64, pte_bits |-> 3,
     read_size |-> 8, entry_bits |-> 64, present_bit |-> 0,
     large_page_bit |-> 7, writeable_bit |-> 1, nx_bit |-> 63]

x32 ==
    [splits |-> <<10, 10, 12>>, final_steps |-> {1, 2},
     space_bits |-> 32, addr_bits |-> 32, word_bits |-> 64, pte_bits |-> 2,
     read_size |-> 8, entry_bits |-> 32, present_bit |-> 0,
     large_page_bit |-> 7, writeable_bit |-> 1, nx_bit |-> 31]

x32_pae ==
    [splits |-> <<2, 9, 9, 12>>, final_steps |-> {2, 3},
     space_bits |-> 36, addr_bits |-> 32, word_bits |-> 64, pte_bits |-> 3,
     read_size |-> 8, entry_bits |-> 64, present_bit |-> 0,
     large_page_bit |-> 7, writeable_bit |-> 1, nx_bit |-> 63]

pow2[n \in Nat] == IF n = 0 THEN 1 ELSE 2 * pow2[n - 1]

(* The sum of the splits from step s on. *)
index_bits(a, s) ==
    LET n == Len(a.splits)
        sum[t \in 0..n] == IF t = 0 THEN 0 ELSE sum[t - 1] + a.splits[n - t + 1]
    IN  sum[n - s]

(* What the walk relies on: the last step is a final one, the splits fill  *)
(* the virtual address, a table is no larger than a page, the flags that   *)
(* steer the walk are below the address in an entry, and a read has one    *)
(* entry or two.                                                           *)
WellFormed(a) ==
    LET last == Len(a.splits) - 1
    IN /\ a.splits \in Seq(Nat \ {0}) /\ a.splits # <<>>
       /\ a.final_steps \subseteq 1..last /\ last \in a.final_steps
       /\ {a.pte_bits, a.space_bits, a.addr_bits, a.word_bits, a.entry_bits} \subseteq Nat
       /\ index_bits(a, 0) <= a.addr_bits /\ a.addr_bits <= a.word_bits
       /\ \A s \in 0..(last - 1) :
             a.splits[s + 1] + a.pte_bits <= a.splits[last + 1]
       /\ a.splits[last + 1] <= a.space_bits /\ a.space_bits <= a.entry_bits
       /\ {a.present_bit, a.large_page_bit} \subseteq 0..(a.splits[last + 1] - 1)
       /\ {a.writeable_bit, a.nx_bit} \subseteq 0..(a.entry_bits - 1)
       /\ a.read_size \in {pow2[a.pte_bits], 2 * pow2[a.pte_bits]}

ASSUME ArchAssumption ==
    \A a \in {x64, x32, x32_pae} \cup {u.arch : u \in Setups} : WellFormed(a)
ASSUME SetupsAssumption ==
    \A u \in Setups :
        LET Entry == 0..(pow2[u.arch.entry_bits] - 1)
            Addr  == 0..(pow2[u.arch.word_bits] - 1)
        IN  /\ u.dtb \in Nat
            /\ DOMAIN u.mem \subseteq Nat /\ u.mem \in [DOMAIN u.mem -> Entry]
            /\ u.req \in Seq([addr : Addr, len : Addr])
            /\ \A w \in GuestWrites : w[2] \in Entry
ASSUME MaxGuestWritesAssumption == MaxGuestWrites \in Nat
ASSUME NoneAssumption == None \notin Nat

----------------------------------------------------------------------------
(* ArchMMUSpec: masks and sizes *)

Word == pow2[arch.word_bits]
split(s) == arch.splits[s + 1]
split_count == Len(arch.splits)
Last == split_count - 1

(* Address::bit_mask keeps the bits start..end, end included. *)
bits(a, start, end) == ((a \div pow2[start]) * pow2[start]) % pow2[end + 1]
bit_at(a, b) == (a \div pow2[b]) % 2 = 1

(* a | b for numbers of n bits *)
bit_or(a, b, n) ==
    LET or[k \in 0..n] ==
            IF k = 0 THEN 0
            ELSE or[k - 1] + (IF bit_at(a, k - 1) \/ bit_at(b, k - 1)
                              THEN pow2[k - 1] ELSE 0)
    IN  or[n]

(* virt_addr_bit_range(step).1: the bits from this split to the last one *)
max_index_bits(s) == index_bits(arch, s)
min_index_bits(s) == max_index_bits(s) - split(s)

pte_addr_mask(pte, s) ==
    bits(pte, split(s) + (IF s = Last THEN 0 ELSE arch.pte_bits),
         arch.space_bits - 1)

virt_addr_to_pte_offset(a, s) ==
    bits(a \div pow2[min_index_bits(s)], 0, split(s) - 1) * pow2[arch.pte_bits]

virt_addr_to_page_offset_Small(a, s) ==  \* mutant: large pages are forgotten
    bits(a, 0, split(Last) - 1)

virt_addr_to_page_offset(a, s) == bits(a, 0, max_index_bits(s) - 1)

pt_leaf_size(s) == pow2[split(s) + arch.pte_bits]
page_size_step(s) == pow2[max_index_bits(s)]

(* The offset lies below the bits of the mask, so that | is a sum. *)
vtop_step(pte, a, s) == pte_addr_mask(pte, s) + virt_addr_to_pte_offset(a, s)

(* The mask of a large page reaches into the bits of the offset. *)
get_phys_page(pte, a, s) ==
    LET mask == pte_addr_mask(pte, s)
        low  == mask % page_size_step(s)
    IN [paddr |-> mask - low
                  + bit_or(low, virt_addr_to_page_offset(a, s), max_index_bits(s)),
        write |-> bit_at(pte, arch.writeable_bit),
        noexec |-> bit_at(pte, arch.nx_bit),
        page_size |-> page_size_step(s)]

check_entry(pte, s) == s = 0 \/ bit_at(pte, arch.present_bit)

is_final_mapping(pte, s) ==
    s = Last \/ (bit_at(pte, arch.large_page_bit) /\ s \in arch.final_steps)

----------------------------------------------------------------------------
(* TranslateData and TranslationChunk *)

Piece(id, off, addr, len) == [id |-> id, off |-> off, addr |-> addr % Word, len |-> len]
RangeEnd(r) == (r.addr + r.len) % Word

MinAddr(vec) == Min({Word - 1} \cup {r.addr : r \in vec})
MaxAddr(vec) == Max({0} \cup {RangeEnd(r) : r \in vec})

(* new, with_minmax and recalc_minmax; no range gives min > max *)
Chunk(pt_addr, vec) ==
    [pt_addr |-> pt_addr, vec |-> vec,
     min |-> MinAddr(vec), max |-> MaxAddr(vec)]

(* split_inclusive_at on every range that begins before or at end_addr:    *)
(* the part up to end_addr, and what is left after it.                     *)
HeadOf(r, end_addr) ==
    Piece(r.id, r.off, r.addr, Min({r.len, end_addr - r.addr + 1}))
TailOf(r, end_addr) ==
    LET cut == end_addr - r.addr + 1 IN
    Piece(r.id, r.off + cut, end_addr + 1, r.len - cut)

LeftOf(vec, end_addr) == {HeadOf(r, end_addr) : r \in {x \in vec : x.addr <= end_addr}}
RightOf_Drop(vec, end_addr) ==     \* mutant: the right half of a cut is lost
    {r \in vec : r.addr > end_addr}

RightOf(vec, end_addr) ==
    {r \in vec : r.addr > end_addr} \cup
    {TailOf(r, end_addr) :
        r \in {x \in vec : x.addr <= end_addr /\ x.len > end_addr - x.addr + 1}}

(* split_at_inclusive: idx counts from the lowest address of the chunk *)
split_at_inclusive(chunk, idx) ==
    LET len == (chunk.max - chunk.min) % Word
        end_addr == (chunk.min + Min({len - 1, idx})) % Word
    IN IF len <= idx
       THEN <<chunk>>
       ELSE <<Chunk(chunk.pt_addr, LeftOf(chunk.vec, end_addr))>> \o
            IF RightOf(chunk.vec, end_addr) = {} THEN <<>>
            ELSE <<Chunk(chunk.pt_addr, RightOf(chunk.vec, end_addr))>>

(* Vec::swap_remove *)
swap_remove(s, k) ==
    [j \in 1..(Len(s) - 1) |-> IF j = k THEN s[Len(s)] ELSE s[j]]

----------------------------------------------------------------------------
(* virt_addr_filter: the parts of a request, by what becomes of them.  The *)
(* buffer is cut after so many bytes, wherever in the address space it is. *)
virt_range == pow2[max_index_bits(0) - 1]
InSpace(len) == Min({len, pow2[arch.addr_bits]})
LowerLen(len) == Min({InSpace(len), virt_range})
HigherLen(len) == InSpace(len) - LowerLen(len)

(* split_at_rev: one byte more than asked for is left of the cut *)
GapLen(len) == HigherLen(len) - virt_range + 1
TooShort(len) == HigherLen(len) \in 1..(virt_range - 1)

(* all bits above the virtual address are set *)
SignExtended(a) ==
    max_index_bits(0) < arch.addr_bits =>
        bits(a, max_index_bits(0), arch.addr_bits - 1) =
        pow2[arch.addr_bits] - pow2[max_index_bits(0)]

NonEmpty(S) == {r \in S : r.len > 0}

(* The part of a request from off on. *)
Part(id, r, off, len) == Piece(id, off, r.addr + off, len)

Rejected(id, r) == NonEmpty({Part(id, r, InSpace(r.len), r.len - InSpace(r.len))})
Lower(id, r) == NonEmpty({Part(id, r, 0, LowerLen(r.len))})
Gap(id, r) == Part(id, r, LowerLen(r.len), GapLen(r.len))
Higher(id, r) == Part(id, r, LowerLen(r.len) + GapLen(r.len), virt_range - 1)

----------------------------------------------------------------------------
Init ==
    /\ \E u \in Setups :
          arch = u.arch /\ dtb = u.dtb /\ mem = u.mem /\ req = u.req
    /\ pc = "filter" /\ step = 0 /\ i = 1
    /\ work = <<[pt_addr |-> dtb, vec |-> {}, min |-> Word - 1, max |-> 0]>>
    /\ rest = <<>> /\ pt_read = <<>> /\ prev_addr = None /\ addr_map = {}
    /\ out = {} /\ out_fail = {} /\ lost = {} /\ rejected = {} /\ unread = {}
    /\ held = [s \in DOMAIN mem |-> {mem[s]}] /\ writes = 0

(* Filtering request i; recalc_minmax comes after the last one. *)
Fill(valid) == work' = <<Chunk(dtb, work[1].vec \cup valid)>>

Filter ==
    LET r == req[i] IN
    /\ pc = "filter" /\ i <= Len(req) /\ ~TooShort(r.len)
    /\ i' = i + 1
    /\ \/ /\ HigherLen(r.len) = 0
          /\ Fill(Lower(i, r))
          /\ out_fail' = out_fail \cup Rejected(i, r)
          /\ rejected' = rejected \cup Rejected(i, r)
          /\ UNCHANGED lost
       \/ /\ HigherLen(r.len) > 0 /\ SignExtended(Higher(i, r).addr)
          /\ Fill(Lower(i, r) \cup NonEmpty({Higher(i, r)}))
          /\ out_fail' = out_fail \cup Rejected(i, r) \cup {Gap(i, r)}
          /\ rejected' = rejected \cup Rejected(i, r) \cup {Gap(i, r)}
          /\ UNCHANGED lost
       \/ /\ HigherLen(r.len) > 0 /\ ~SignExtended(Higher(i, r).addr)
          /\ Fill(Lower(i, r))
          /\ out_fail' = out_fail \cup Rejected(i, r)
          /\ rejected' = rejected \cup Rejected(i, r)
          /\ lost' = lost \cup NonEmpty({Gap(i, r), Higher(i, r)})
    /\ UNCHANGED <<input, mem, pc, step, rest, loops, out, unread, held, writes>>

(* The unwrap in split_at_rev finds no right part. *)
FilterPanic ==
    /\ pc = "filter" /\ i <= Len(req) /\ TooShort(req[i].len)
    /\ pc' = "panic"
    /\ UNCHANGED <<input, mem, step, i, work, rest, loops, results, history>>

StartWalk ==
    /\ pc = "filter" /\ i > Len(req)
    /\ pc' = "check" /\ i' = Len(work)
    /\ UNCHANGED <<input, mem, step, work, rest, loops, results, history>>

(* The loop over the chunks of a level, from the last one down.            *)
Checking == pc = "check" /\ i > 0 /\ rest = <<>>
Unchecked == <<input, mem, pc, step, rest, loops, history>>

NotPresent ==
    /\ Checking /\ ~check_entry(work[i].pt_addr, step)
    /\ out_fail' = out_fail \cup work[i].vec
    /\ work' = swap_remove(work, i) /\ i' = i - 1
    /\ UNCHANGED out /\ UNCHANGED Unchecked

Translated ==
    /\ Checking /\ check_entry(work[i].pt_addr, step)
    /\ is_final_mapping(work[i].pt_addr, step)
    /\ out' = out \cup
          {[range |-> r, page |-> get_phys_page(work[i].pt_addr, r.addr, step)] :
              r \in work[i].vec}
    /\ work' = swap_remove(work, i) /\ i' = i - 1
    /\ UNCHANGED out_fail /\ UNCHANGED Unchecked

Descend ==
    /\ Checking /\ check_entry(work[i].pt_addr, step)
    /\ ~is_final_mapping(work[i].pt_addr, step)
    /\ rest' = <<[v |-> work[i], cur_address |-> work[i].min]>>
    /\ work' = swap_remove(work, i) /\ i' = i - 1
    /\ UNCHANGED <<input, mem, pc, step, loops, results, history>>

(* page_chunks: the next part of the chunk gets the address of its entry.  *)
(* cur_address is where the iterator takes what is left to begin.          *)
NextPart ==
    LET chunk == rest[1].v
        cur == rest[1].cur_address
        size == page_size_step(step + 1)
        next_page == (cur + size) % Word
        end_len == ((next_page - (next_page % size)) - cur - 1) % Word
        parts == split_at_inclusive(chunk, end_len)
        pt_addr == vtop_step(parts[1].pt_addr, parts[1].min, step)
    IN
    /\ pc = "check" /\ rest # <<>>
    /\ work' = Append(work, [parts[1] EXCEPT !.pt_addr = pt_addr])
    /\ rest' = IF Len(parts) = 1 THEN <<>>
               ELSE <<[v |-> parts[2], cur_address |-> (cur + end_len + 1) % Word]>>
    /\ UNCHANGED <<input, mem, pc, step, i, loops, results, history>>

EndLevel ==
    /\ pc = "check" /\ i = 0 /\ rest = <<>>
    /\ pc' = IF work = <<>> THEN "done" ELSE "read"
    /\ UNCHANGED <<input, mem, step, i, work, rest, loops, results, history>>

(* read_pt_address_iter: read_size bytes are read for every entry, which   *)
(* is one entry or, where entries are half as long, that one and the next. *)
Slot(a) == a \div pow2[arch.pte_bits]
Slots(a) == Slot(a)..((a + arch.read_size - 1) \div pow2[arch.pte_bits])
Readable(a) == Slots(a) \subseteq DOMAIN mem
EntryAt(a) ==
    mem[Slot(a)] +
        (IF arch.read_size = pow2[arch.pte_bits] THEN 0
         ELSE mem[Slot(a) + 1] * pow2[arch.entry_bits])

ReadEntries_NoClear ==             \* mutant: addr_map.clear() is left out
    /\ pc = "read" /\ \A k \in DOMAIN work : Readable(work[k].pt_addr)
    /\ pt_read' = [k \in DOMAIN work |-> EntryAt(work[k].pt_addr)]
    /\ pc' = "compare" /\ i' = Len(work) /\ prev_addr' = None
    /\ UNCHANGED <<input, mem, step, work, rest, addr_map, results, history>>

ReadEntries ==
    /\ pc = "read" /\ \A k \in DOMAIN work : Readable(work[k].pt_addr)
    /\ pt_read' = [k \in DOMAIN work |-> EntryAt(work[k].pt_addr)]
    /\ pc' = "compare" /\ i' = Len(work) /\ prev_addr' = None /\ addr_map' = {}
    /\ UNCHANGED <<input, mem, step, work, rest, results, history>>

(* The physical read fails: everything that is still in work fails.        *)
ReadError ==
    LET left == UNION {work[k].vec : k \in DOMAIN work} IN
    /\ pc = "read"
    /\ out_fail' = out_fail \cup left
    /\ unread' = unread \cup left
    /\ work' = <<>> /\ pc' = "done"
    /\ UNCHANGED <<input, mem, step, i, rest, loops, out, lost, rejected, held,
                   writes>>

(* An entry that leads to the table it is in, or that another chunk has    *)
(* read as well, is taken for a loop.                                      *)
Accepted(pt_addr) ==
    /\ pte_addr_mask(work[i].pt_addr, step) # pte_addr_mask(pt_addr, step)
    /\ prev_addr # pt_addr /\ pt_addr \notin addr_map

Comparing == pc = "compare" /\ i > 0
Uncompared == <<input, mem, pc, step, rest, pt_read, out, history>>

Follow ==
    LET pt_addr == pt_read[i] IN
    /\ Comparing /\ Accepted(pt_addr)
    /\ work' = Append(swap_remove(work, i), [work[i] EXCEPT !.pt_addr = pt_addr])
    /\ addr_map' = IF prev_addr = None THEN addr_map ELSE addr_map \cup {prev_addr}
    /\ prev_addr' = pt_addr /\ i' = i - 1
    /\ UNCHANGED out_fail /\ UNCHANGED Uncompared

Reject ==
    /\ Comparing /\ ~Accepted(pt_read[i])
    /\ out_fail' = out_fail \cup work[i].vec
    /\ work' = swap_remove(work, i) /\ i' = i - 1
    /\ UNCHANGED <<addr_map, prev_addr>> /\ UNCHANGED Uncompared

NextLevel ==
    /\ pc = "compare" /\ i = 0
    /\ step' = step + 1 /\ pc' = "check" /\ i' = Len(work)
    /\ pt_read' = <<>>
    /\ UNCHANGED <<input, mem, work, rest, prev_addr, addr_map>>
    /\ UNCHANGED <<results, history>>

(* The guest changes its tables between two reads. *)
GuestWrite ==
    /\ pc = "read" /\ writes < MaxGuestWrites
    /\ \E w \in GuestWrites :
          /\ w[1] \in DOMAIN mem /\ mem[w[1]] # w[2]
          /\ mem' = [mem EXCEPT ![w[1]] = w[2]]
          /\ held' = [held EXCEPT ![w[1]] = @ \cup {w[2]}]
    /\ writes' = writes + 1
    /\ UNCHANGED <<input, pc, step, i, work, rest, loops, results, lost,
                   rejected, unread>>

Walk ==
    \/ Filter \/ FilterPanic \/ StartWalk
    \/ NotPresent \/ Translated \/ Descend \/ NextPart \/ EndLevel
    \/ ReadEntries \/ ReadError \/ Follow \/ Reject \/ NextLevel

Next == Walk \/ GuestWrite

Spec == Init /\ [][Next]_vars
=============================================================================
