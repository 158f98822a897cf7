----------------------------- MODULE PageChunks -----------------------------
(***************************************************************************)
(* PageChunkIterator (iter/page_chunks.rs): cuts a buffer that lies at a   *)
(* remote address along the pages of that address, and lets the caller     *)
(* refuse a cut.  Every cache, translation and batch loop of memflow walks *)
(* its buffers with it.                                                    *)
(*                                                                         *)
(* A buffer is its length.  The caller's check_split_fn may keep state, so *)
(* its answer is free at every call; the closure of page_chunks accepts    *)
(* every cut, which are the behaviours without a Merge.                    *)
(***************************************************************************)
EXTENDS Integers, Sequences

CONSTANTS
    page_size,
    Space,         \* size of the address space (2^64); addresses wrap in it
    MaxLen,        \* bound on the length of the buffer
    NoBuf          \* v = None

Address == 0..(Space - 1)

ASSUME PageSizeAssumption == page_size \in Nat \ {0}
ASSUME SpaceAssumption    == Space \in Nat /\ page_size < Space /\ Space % page_size = 0
ASSUME MaxLenAssumption   == MaxLen \in Nat /\ MaxLen < Space
ASSUME NoBufAssumption    == NoBuf \notin Nat

VARIABLES
    v,             \* PageChunkIterator.v: length of what is left, or NoBuf
    cur_address,   \* PageChunkIterator.cur_address
    cur_off,       \* PageChunkIterator.cur_off: length of the refused cuts
    start,         \* history: where the buffer begins
    total,         \* history: how long it is
    done,          \* history: how much of it was yielded
    merged,        \* history: whether a cut was refused
    hint,          \* history: upper bound that size_hint gave at the start
    chunks         \* history: what next returned, as [addr, len]

chunk_vars == <<v, cur_address, cur_off, start, total, done, merged, hint,
          chunks>>

ChunksTypeOK ==
    /\ v \in 0..MaxLen \cup {NoBuf}
    /\ cur_address \in Address /\ start \in Address
    /\ cur_off \in 0..MaxLen
    /\ total \in 0..MaxLen /\ done \in 0..total
    /\ merged \in BOOLEAN /\ hint \in Int
    /\ chunks \in Seq([addr : Address, len : 0..MaxLen])

----------------------------------------------------------------------------
as_page_aligned(a) == a - (a % page_size)

(* The position of the last byte before the next possible cut, counted     *)
(* from cur_address; every operation wraps at the end of the address space.*)
end_len_Short(a, off) ==       \* mutant: wrapping_sub(1) is left out
    (as_page_aligned((a + page_size) % Space) - a + off) % Space

end_len(a, off) ==
    (as_page_aligned((a + page_size) % Space) - a - 1 + off) % Space

(* split_inclusive_at: the head, up to and with the byte at idx *)
head(len, idx) == IF idx + 1 < len THEN idx + 1 ELSE len

next_address_Page(a, idx) ==   \* mutant: a whole page on, as if aligned
    (a + page_size) % Space

next_address(a, idx) == (a + idx + 1) % Space

(* size_hint: the pages that the first and the last byte are on            *)
size_hint(a, len) ==
    (as_page_aligned(a + len - 1) - as_page_aligned(a)) \div page_size + 1

ChunksInit ==
    /\ start \in Address /\ total \in 0..MaxLen
    /\ v = total /\ cur_address = start /\ cur_off = 0
    /\ done = 0 /\ merged = FALSE /\ chunks = <<>>
    /\ hint = size_hint(start, total)

Merge_InPage ==                \* mutant: cur_off is kept within a page
    LET e == end_len(cur_address, cur_off) IN
    /\ v # NoBuf
    /\ head(v, e) < v
    /\ cur_off' = (e + 1) % page_size /\ merged' = TRUE
    /\ UNCHANGED <<v, cur_address, start, total, done, hint, chunks>>

(* check_split_fn refuses the cut: next tries the one a step further. *)
Merge ==
    LET e == end_len(cur_address, cur_off) IN
    /\ v # NoBuf
    /\ head(v, e) < v
    /\ cur_off' = e + 1 /\ merged' = TRUE
    /\ UNCHANGED <<v, cur_address, start, total, done, hint, chunks>>

(* The cut is accepted, or the buffer ends before it. *)
Yield ==
    LET e == end_len(cur_address, cur_off)
        n == head(v, e)
    IN
    /\ v # NoBuf
    /\ chunks' = Append(chunks, [addr |-> cur_address, len |-> n])
    /\ v' = IF n < v THEN v - n ELSE NoBuf
    /\ cur_address' = next_address(cur_address, e)
    /\ cur_off' = 0
    /\ done' = done + n
    /\ UNCHANGED <<start, total, merged, hint>>

ChunksNext == Merge \/ Yield

(* The caller calls next until it returns None, and refuses finitely many  *)
(* cuts of a finite buffer.                                                *)
ChunksSpec == ChunksInit /\ [][ChunksNext]_chunk_vars /\ WF_chunk_vars(ChunksNext)

----------------------------------------------------------------------------
(* Properties *)

AddressAfter(n) == (start + n) % Space

(* The chunks are the buffer: each begins where the one before it ended,   *)
(* at the address of its bytes even across the end of the address space,   *)
(* and nothing is left out or left over (page_chunks.rs:194-228).          *)
Partition ==
    /\ done = total <=> v = NoBuf \/ (v = 0 /\ total = 0)
    /\ v # NoBuf => done + v = total /\ cur_address = AddressAfter(done)
    /\ \A i \in 1..Len(chunks) :
          chunks[i].addr = IF i = 1 THEN start
                           ELSE (chunks[i - 1].addr + chunks[i - 1].len) % Space

(* With page_chunks no chunk crosses a page, and only the first and the    *)
(* last one may be shorter than a page; their number is what size_hint     *)
(* told at the start, of a buffer that does not wrap around the address    *)
(* space (page_chunks.rs:198-241).                                         *)
OnePage ==
    ~merged => \A i \in 1..Len(chunks) :
        /\ (chunks[i].addr % page_size) + chunks[i].len <= page_size
        /\ i \in 2..(Len(chunks) - 1) => chunks[i].len = page_size
        /\ v = NoBuf /\ total > 0 /\ start + total <= Space => hint = Len(chunks)

(* next returns None in the end, whatever cuts are refused. *)
Ends == <>(v = NoBuf)
=============================================================================
