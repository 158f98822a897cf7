---------------------------- MODULE VirtualMemory ----------------------------
(***************************************************************************)
(* VirtualDMA (mem/virt_mem/virtual_dma.rs): virtual memory made of a      *)
(* translator and a physical memory, with the helpers of the trait         *)
(* VirtualMemory (mem/virt_mem.rs).                                        *)
(*                                                                         *)
(* The translator is any one that answers every byte once (MMUSpec and     *)
(* CachedTranslate): it cuts the items along pages and answers the pieces  *)
(* in an order of its own, while the guest changes the table.  The         *)
(* physical memory may fail after any number of pieces.                    *)
(*                                                                         *)
(* Bytes are numbers; Untouched is what the caller's buffer held before.   *)
(***************************************************************************)
EXTENDS Integers, Sequences, FiniteSets, SequencesExt

CONSTANTS
    PageSize,
    NPages,          \* pages of the virtual address space
    NFrames,         \* pages of the physical memory
    MaxRemaps,       \* bound on what the guest changes
    MaxFaults,       \* bound on the failures of the physical memory
    None, Untouched

Page     == 0..(NPages - 1)
Frame    == 0..(NFrames - 1)
Address  == 0..(NPages * PageSize - 1)
PAddress == 0..(NFrames * PageSize - 1)

ASSUME PageSizeAssumption == PageSize \in Nat \ {0} /\ NPages \in Nat \ {0} /\ NFrames \in Nat

VARIABLES
    table,           \* the guest's page table: Page -> Frame or None
    mem,             \* the physical memory
    pc,              \* "idle", "translating" or "done"
    call,            \* the call under way: [op, data, gap]
    todo,            \* pieces that the translator has not answered
    translation,     \* its answers: pieces with their physical address
    partial_read,
    buffer,          \* the caller's buffers, one per item
    answer,          \* what the call returned: [kind, value]
    seen,            \* history: mappings that held during the call
    before,          \* history: mem when the call began
    remaps, faults

guest == <<table, remaps>>
vars  == <<guest, mem, pc, call, todo, translation, partial_read, buffer,
           answer, seen, before, faults>>

----------------------------------------------------------------------------
page(a)   == a \div PageSize
offset(a) == a % PageSize

Bytes(item) == item.addr..(item.addr + item.len - 1)

(* The share of item i in page p. *)
Piece(data, i, p) ==
    LET b == { a \in Bytes(data[i]) : page(a) = p } IN
    [item |-> i, len |-> Cardinality(b),
     addr |-> CHOOSE a \in b : \A x \in b : a <= x]

Pieces(data) ==
    UNION { { Piece(data, i, page(a)) : a \in Bytes(data[i]) } : i \in DOMAIN data }

(* The buffers with the bytes of a piece replaced: address a by f[a].      *)
Filled(buf, data, c, f) ==
    [buf EXCEPT ![c.item] =
        [k \in DOMAIN @ |-> LET a == data[c.item].addr + k - 1 IN
            IF a \in Bytes(c) THEN f[a] ELSE @[k]]]

----------------------------------------------------------------------------
(* PartialResult and what the helpers do with it (error.rs, virt_mem.rs)   *)

Ok(v)      == [kind |-> "ok", value |-> v]
Partial(v) == [kind |-> "partial", value |-> v]
Error      == [kind |-> "error", value |-> <<>>]

map_data(r, v) == IF r.kind = "error" THEN r ELSE Ok(v)

data_part(r, v) == IF r.kind = "error" THEN Error ELSE Ok(v)

(* The part of a buffer before its first zero. *)
truncated(buf) ==
    LET zeros == { n \in DOMAIN buf : buf[n] = 0 } IN
    IF zeros = {} THEN buf
    ELSE SubSeq(buf, 1, (CHOOSE n \in zeros : \A m \in zeros : n <= m) - 1)

virt_read_raw(r, buf)  == map_data(r, buf[1])
virt_read_cstr(r, buf) == data_part(r, truncated(buf[1]))

(* What the function that was called makes of the result of the list.      *)
Returned(op, r, buf) ==
    CASE op = "read_list" -> r
      [] op = "read_raw"  -> virt_read_raw(r, buf)
      [] op = "read_cstr" -> virt_read_cstr(r, buf)
      [] op = "write_list" -> r

----------------------------------------------------------------------------
(* The maps: entries are the translator's answers, [addr, len, paddr] *)

(* sort_by with the address: the place of each entry, equal ones in order. *)
Rank(s, i) ==
    Cardinality({ j \in DOMAIN s : \/ s[j].addr < s[i].addr
                                   \/ s[j].addr = s[i].addr /\ j <= i })

Sorted(s) == [n \in DOMAIN s |-> s[CHOOSE i \in DOMAIN s : Rank(s, i) = n]]

Joined(a, b) == [a EXCEPT !.len = b.addr + b.len - a.addr]

adjacent_Virtual(a, b) == b.addr = a.addr + a.len      \* mutant

adjacent(a, b) == b.addr = a.addr + a.len /\ b.paddr = a.paddr + a.len

near(a, b, gap_length) == b.addr - (a.addr + a.len) <= gap_length

(* Itertools::coalesce with the closure of either map. *)
coalesce(s, op, gap_length) ==
    LET joins(a, b) == IF op = "translation_map" THEN adjacent(a, b) ELSE near(a, b, gap_length)
        upto[n \in 0..Len(s)] ==
            IF n = 0 THEN <<>>
            ELSE LET acc == upto[n - 1] IN
                 IF acc # <<>> /\ joins(Last(acc), s[n])
                 THEN Append(Front(acc), Joined(Last(acc), s[n]))
                 ELSE Append(acc, s[n])
    IN  upto[Len(s)]

virt_translation_map_range(out) == coalesce(Sorted(out), "translation_map", 0)

virt_page_map_range(out, gap_length) == coalesce(Sorted(out), "page_map", gap_length)

----------------------------------------------------------------------------
Reading(op) == op \in {"read_list", "read_raw", "read_cstr"}
Mapping(op) == op \in {"translation_map", "page_map"}

Init ==
    /\ pc = "idle" /\ answer = Ok(<<>>)
    /\ call = [op |-> "none", data |-> <<>>, gap |-> 0]
    /\ todo = {} /\ translation = <<>> /\ partial_read = FALSE /\ buffer = <<>>
    /\ seen = {} /\ before = mem /\ remaps = 0 /\ faults = 0

(* A call of the list functions, of a helper over one item, of a map over  *)
(* a range, or of virt_page_info for one byte.                             *)
Begin(op, data, gap) ==
    /\ pc \in {"idle", "done"}
    /\ op \in {"read_list", "write_list"} \/ Len(data) = 1
    /\ pc' = "translating"
    /\ call' = [op |-> op, data |-> data, gap |-> gap]
    /\ todo' = Pieces(data)
    /\ translation' = <<>> /\ partial_read' = FALSE
    /\ buffer' = IF Reading(op)
                 THEN [i \in DOMAIN data |-> [k \in 1..data[i].len |-> Untouched]]
                 ELSE <<>>
    /\ seen' = { <<p, table[p]>> : p \in Page } /\ before' = mem
    /\ UNCHANGED <<guest, mem, answer, faults>>

Physical_Whole(f, a) == f * PageSize + a         \* mutant: a is not cut to its page

Physical(f, a) == f * PageSize + offset(a)

(* out.extend of the translator: the piece goes to the physical list.      *)
Translated ==
    \E c \in todo :
        /\ pc = "translating" /\ table[page(c.addr)] # None
        /\ todo' = todo \ {c}
        /\ translation' = Append(translation,
              [item |-> c.item, addr |-> c.addr, len |-> c.len,
               paddr |-> Physical(table[page(c.addr)], c.addr)])
        /\ UNCHANGED <<guest, mem, pc, call, partial_read, buffer, answer, seen,
                       before, faults>>

NotTranslated_NoZero ==      \* mutant: the failed part is left as it was
    \E c \in todo :
        /\ pc = "translating" /\ table[page(c.addr)] = None
        /\ todo' = todo \ {c}
        /\ partial_read' = ~Mapping(call.op)
        /\ UNCHANGED <<guest, mem, pc, call, translation, buffer, answer, seen,
                       before, faults>>

(* out_fail.extend: a read zeroes the part; the maps do nothing.           *)
NotTranslated ==
    \E c \in todo :
        /\ pc = "translating" /\ table[page(c.addr)] = None
        /\ todo' = todo \ {c}
        /\ buffer' = IF Reading(call.op)
                     THEN Filled(buffer, call.data, c, [a \in Bytes(c) |-> 0])
                  ELSE buffer
        /\ partial_read' = (partial_read \/ ~Mapping(call.op))
        /\ UNCHANGED <<guest, mem, pc, call, translation, answer, seen, before,
                       faults>>

Walked(op) == pc = "translating" /\ todo = {} /\ call.op = op

latest(s) == CHOOSE m \in s : \A l \in s : l <= m

(* phys_read_raw_list over the first n pieces of the translation.          *)
Reads(n, i, a) == { m \in 1..n : translation[m].item = i /\ a \in Bytes(translation[m]) }

ReadPieces(n) ==
    [i \in DOMAIN buffer |-> [k \in DOMAIN buffer[i] |->
        LET a == call.data[i].addr + k - 1
            r == Reads(n, i, a)
            c == translation[latest(r)]
        IN  IF r = {} THEN buffer[i][k] ELSE mem[c.paddr + (a - c.addr)]]]

PBytes_Long(c) == c.paddr..(c.paddr + c.len)     \* mutant: one byte too many

(* phys_write_raw_list over the first n pieces, the later one last.  Item  *)
(* i writes value 100+i.                                                   *)
PBytes(c) == c.paddr..(c.paddr + c.len - 1)

Writes(n, x) == { m \in 1..n : x \in PBytes(translation[m]) }

WritePieces(n) ==
    [x \in PAddress |-> IF Writes(n, x) = {} THEN mem[x]
                        ELSE 100 + translation[latest(Writes(n, x))].item]

ListResult == IF partial_read THEN Partial(<<>>) ELSE Ok(<<>>)

PhysRead ==
    /\ pc = "translating" /\ todo = {} /\ Reading(call.op)
    /\ buffer' = ReadPieces(Len(translation))
    /\ answer' = Returned(call.op, ListResult, buffer')
    /\ pc' = "done"
    /\ UNCHANGED <<guest, mem, call, todo, translation, partial_read, seen,
                   before, faults>>

(* `?`: the failure hides whether the translation was partial. *)
PhysReadFails ==
    /\ pc = "translating" /\ todo = {} /\ Reading(call.op)
    /\ faults < MaxFaults /\ faults' = faults + 1
    /\ \E n \in 0..(Len(translation) - 1) : buffer' = ReadPieces(n)
    /\ answer' = Returned(call.op, Error, buffer')
    /\ pc' = "done"
    /\ UNCHANGED <<guest, mem, call, todo, translation, partial_read, seen, before>>

PhysWrite ==
    /\ Walked("write_list")
    /\ mem' = WritePieces(Len(translation))
    /\ answer' = ListResult
    /\ pc' = "done"
    /\ UNCHANGED <<guest, call, todo, translation, partial_read, buffer, seen,
                   before, faults>>

PhysWriteFails ==
    /\ Walked("write_list")
    /\ faults < MaxFaults /\ faults' = faults + 1
    /\ \E n \in 0..(Len(translation) - 1) : mem' = WritePieces(n)
    /\ answer' = Error
    /\ pc' = "done"
    /\ UNCHANGED <<guest, call, todo, translation, partial_read, buffer, seen,
                   before>>

MapRange ==
    /\ pc = "translating" /\ todo = {} /\ Mapping(call.op)
    /\ answer' = Ok(IF call.op = "translation_map"
                    THEN virt_translation_map_range(translation)
                    ELSE virt_page_map_range(translation, call.gap))
    /\ pc' = "done"
    /\ UNCHANGED <<guest, mem, call, todo, translation, partial_read, buffer,
                   seen, before, faults>>

(* virt_to_phys takes the last answer, virt_page_info the page around it.  *)
PageInfo ==
    /\ Walked("page_info")
    /\ answer' = IF translation = <<>> THEN Error
                 ELSE Ok(<<page(Last(translation).paddr)>>)
    /\ pc' = "done"
    /\ UNCHANGED <<guest, mem, call, todo, translation, partial_read, buffer,
                   seen, before, faults>>

(* The guest maps, unmaps or moves a page. *)
Remap ==
    /\ pc # "done" /\ remaps < MaxRemaps /\ remaps' = remaps + 1
    /\ \E p \in Page, f \in Frame \cup {None} :
          /\ table' = [table EXCEPT ![p] = f]
          /\ seen' = seen \cup {<<p, f>>}
    /\ UNCHANGED <<mem, pc, call, todo, translation, partial_read, buffer,
                   answer, before, faults>>

Step ==
    \/ Translated \/ NotTranslated
    \/ PhysRead \/ PhysReadFails \/ PhysWrite \/ PhysWriteFails
    \/ MapRange \/ PageInfo
    \/ Remap
----------------------------------------------------------------------------
(* Properties *)

TypeOK ==
    /\ table \in [Page -> Frame \cup {None}] /\ mem \in [PAddress -> Nat]
    /\ pc \in {"idle", "translating", "done"} /\ partial_read \in BOOLEAN
    /\ \A i \in DOMAIN translation : translation[i].paddr \in PAddress
    /\ answer.kind \in {"ok", "partial", "error"}

(* b is the byte at a: of a frame that held the page during the call.      *)
ByteOf(a, b) == \E f \in Frame : <<page(a), f>> \in seen /\ b = mem[Physical(f, a)]

ZeroFor(a, b) == b = 0 /\ <<page(a), None>> \in seen

(* A read leaves in every byte of its buffers what the memory held there,  *)
(* or zero where the page was not mapped; only an error leaves bytes of    *)
(* the caller, a list without an error told as partial has no zeroed part, *)
(* and a string ends at a zero of the memory or at the first page missing  *)
(* (virtual_dma.rs:162-191, virt_mem.rs:186-193).                          *)
ReadIsTrue ==
    pc = "done" /\ Reading(call.op) =>
        /\ \A i \in DOMAIN buffer : \A k \in DOMAIN buffer[i] :
              LET a == call.data[i].addr + k - 1
                  b == buffer[i][k]
              IN  \/ ByteOf(a, b)
                  \/ ZeroFor(a, b) /\ ~(call.op = "read_list" /\ answer.kind = "ok")
                  \/ b = Untouched /\ answer.kind = "error"
        /\ call.op = "read_cstr" /\ answer.kind = "ok" =>
              LET s == answer.value
                  a == call.data[1].addr
              IN  /\ \A k \in DOMAIN s : s[k] # 0 /\ ByteOf(a + k - 1, s[k])
                  /\ Len(s) < call.data[1].len =>
                        ByteOf(a + Len(s), 0) \/ ZeroFor(a + Len(s), 0)

(* A write changes nothing but the frames of its pages, with the bytes of  *)
(* one of its items; told as complete, every byte of it is in a frame      *)
(* (virtual_dma.rs:193-216).                                               *)
WriteIsTrue ==
    pc = "done" /\ call.op = "write_list" =>
        /\ \A x \in PAddress : mem[x] # before[x] =>
              \E i \in DOMAIN call.data : \E a \in Bytes(call.data[i]) :
                  /\ <<page(a), page(x)>> \in seen /\ offset(a) = offset(x)
                  /\ mem[x] = 100 + i
        /\ answer.kind = "ok" =>
              \A i \in DOMAIN call.data : \A a \in Bytes(call.data[i]) :
                  \E j \in DOMAIN call.data : ByteOf(a, 100 + j)

Gap(lo, hi) == \A a \in lo..hi : table[page(a)] = None

(* Without a change in between, a translation map is the page table's      *)
(* mapping, in as few entries as possible; a page map covers what is       *)
(* mapped and the gaps up to the length asked for, and nothing else        *)
(* (virtual_dma.rs:226-277).                                               *)
MapsAreExact ==
    pc = "done" /\ Mapping(call.op) /\ Cardinality(seen) = NPages =>
        LET e == answer.value
            Mapped == { a \in Address : table[page(a)] # None }
        IN  /\ call.op = "translation_map" =>
                /\ { m \in Address \X PAddress : \E i \in DOMAIN e :
                       m[1] \in Bytes(e[i]) /\ m[2] = e[i].paddr + m[1] - e[i].addr }
                   = { <<a, Physical(table[page(a)], a)>> : a \in Mapped }
                /\ \A i \in 1..(Len(e) - 1) : ~adjacent(e[i], e[i + 1])
            /\ call.op = "page_map" =>
                /\ UNION { Bytes(e[i]) : i \in DOMAIN e } =
                     Mapped \cup { a \in Address : \E lo, hi \in Mapped :
                        lo < a /\ a < hi /\ hi - lo - 1 <= call.gap /\ Gap(lo + 1, hi - 1) }
                /\ \A i \in 1..(Len(e) - 1) :
                     e[i].addr + e[i].len + call.gap < e[i + 1].addr

=============================================================================
