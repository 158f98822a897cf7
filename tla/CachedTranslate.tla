-------------------------- MODULE CachedTranslate --------------------------
(***************************************************************************)
(* CachedVirtualTranslate (mem/cache/cached_vat.rs) over its TLBCache      *)
(* (mem/cache/tlb_cache.rs): virtual to physical translation with a direct *)
(* mapped cache of translations, for several address spaces whose page     *)
(* tables the guest keeps changing.                                        *)
(*                                                                         *)
(* A request is a list of items, each a range of virtual bytes.  An item   *)
(* is cut into chunks; a chunk is answered from the cache or walked, and   *)
(* what was walked is stored when all of it is done.  The walk of the page *)
(* tables is the nested VirtualTranslate: here it reads each translation   *)
(* at one moment.                                                          *)
(***************************************************************************)
EXTENDS Integers, Sequences, FiniteSetsExt

CONSTANTS
    PageSize,      \* arch.page_size()
    MaxPage,       \* virtual pages are 0..MaxPage
    Entries,       \* number of entries of the TLB
    Window,        \* largest age, in validator ticks, of a valid entry
    Ticks,         \* how far one update_validity may advance the validator
    AllocAge,      \* age that allocate_slots gives a fresh slot
    Spaces,        \* the address spaces that share the cache
    table_id,      \* translation_table_id of each of them
    MaxFrame,      \* physical frames are 0..MaxFrame
    Tables,        \* the page tables that the guest may start with
    Requests,      \* lists of items a caller may pass: [addr, len]
    MaxRemaps,     \* bound on the changes of the page tables
    Faults,        \* whether a walk may fail on a mapped page
    NotMapped,     \* PhysicalAddress::INVALID
    NoTable        \* the pt_index !0 of an entry never used

Page  == 0..MaxPage
Slot  == 0..(Entries - 1)
Frame == 0..MaxFrame
Age   == 0..(Window + 1)       \* Window + 1 stands for every larger age
Translation == Frame \cup {NotMapped}

(* A range of the item-th item: its first byte, its length.                *)
Piece == [item : Nat, addr : Nat, len : Nat]
(* ... and the frame of its first byte's page, the further pages following *)
(* it in physical memory; or NotMapped for all of them.                    *)
Answer == [item : Nat, addr : Nat, len : Nat, frame : Translation]

ASSUME PageAssumption    == PageSize \in Nat \ {0, 1} /\ MaxPage \in Nat
ASSUME EntriesAssumption == Entries \in Nat \ {0}
ASSUME WindowAssumption  == Window \in Nat /\ Ticks \subseteq Nat /\ AllocAge \in Age
ASSUME FrameAssumption   == MaxFrame \in Nat /\ NotMapped \notin Frame
ASSUME TablesAssumption  == Tables \subseteq [Spaces -> [Page -> Translation]]
ASSUME IdAssumption      == NoTable \notin {table_id[s] : s \in Spaces}
ASSUME BoundAssumption   == MaxRemaps \in Nat /\ Faults \in BOOLEAN
ASSUME RequestAssumption ==
    \A r \in Requests : \A i \in 1..Len(r) :
        r[i].addr \in Nat /\ r[i].len \in Nat \ {0}
        /\ r[i].addr + r[i].len <= (MaxPage + 1) * PageSize

VARIABLES
    table,         \* the guest's page tables
    remaps,        \* how often they have changed
    lag,           \* history: ticks since a table last gave a translation
    entries,       \* TLBCache.entries
    age,           \* TLBCache.validator, seen as the age of each slot
    pc,            \* where the running call stands
    space,         \* its translator
    req,           \* its addrs
    todo,          \* items not looked up yet, the first one from its cut on
    misses,        \* addrs that the nested translator will pull
    uncached_in,   \* items too long for the cache
    uncached_out,  \* walked translations that are to be stored
    uncached_out_fail,
    out            \* history: all answers given, out and out_fail

guest == <<table, remaps, lag>>
tlb   == <<entries, age>>
walk  == <<misses, uncached_in, uncached_out, uncached_out_fail>>
vars  == <<guest, tlb, pc, space, req, todo, walk, out>>

TypeOK ==
    /\ table \in [Spaces -> [Page -> Translation]]
    /\ lag \in [Spaces -> [Page -> [Translation -> Age]]]
    /\ \A s \in Slot : entries[s].frame \in Translation /\ age[s] \in Age
    /\ pc \in {"idle", "lookup", "walk", "store", "return"}
    /\ space \in Spaces
    /\ misses \subseteq Piece /\ uncached_in \subseteq Piece
    /\ uncached_out \in Seq(Answer) /\ uncached_out_fail \in Seq(Answer)
    /\ out \in Seq(Answer)

----------------------------------------------------------------------------
(* TLBCache *)

page_of(a) == a \div PageSize

get_cache_index(p) == p % Entries

is_read_too_long(len) == len \div PageSize > Entries

(* try_entry gives an answer for the page, Ok or Err *)
HasEntry(s, p) ==
    LET i == get_cache_index(p) IN
    entries[i].pt = table_id[s] /\ entries[i].page = p /\ age[i] <= Window

Older(a, d) == IF a + d > Window THEN Window + 1 ELSE a + d

update_validity(d) ==
    /\ age' = [i \in Slot |-> Older(age[i], d)]
    /\ lag' = [s \in Spaces |-> [p \in Page |-> [f \in Translation |->
                 IF table[s][p] = f THEN lag[s][p][f] ELSE Older(lag[s][p][f], d)]]]

(* The cut that page_chunks_by makes in a range: cuts are tried in steps   *)
(* of the first page's share and taken where the page behind the cut, or   *)
(* the page of the range's first byte, has an entry.                       *)
chunk_len(a, len) ==
    LET r     == PageSize - (a % PageSize)
        cuts  == {k * r : k \in 1..len} \cap 1..(len - 1)
        taken == {n \in cuts : HasEntry(space, page_of(a + n)) \/ HasEntry(space, page_of(a))}
    IN  IF taken = {} THEN len ELSE Min(taken)

----------------------------------------------------------------------------
Init ==
    /\ table \in Tables /\ remaps = 0
    /\ lag = [s \in Spaces |-> [p \in Page |-> [f \in Translation |-> Window + 1]]]
    /\ entries = [i \in Slot |-> [pt |-> NoTable, page |-> NotMapped, frame |-> NotMapped]]
    /\ age = [i \in Slot |-> AllocAge]
    /\ pc = "idle" /\ space \in Spaces
    /\ req = <<>> /\ todo = <<>> /\ out = <<>>
    /\ misses = {} /\ uncached_in = {}
    /\ uncached_out = <<>> /\ uncached_out_fail = <<>>

Begin ==
    /\ pc = "idle"
    /\ \E s \in Spaces, r \in Requests, d \in Ticks :
          /\ update_validity(d)
          /\ space' = s /\ req' = r
          /\ todo' = [i \in 1..Len(r) |-> [item |-> i, addr |-> r[i].addr, len |-> r[i].len]]
    /\ pc' = "lookup"
    /\ UNCHANGED <<table, remaps, entries, walk, out>>

TooLong_Drops ==               \* mutant: filtered out but not kept
    /\ pc = "lookup" /\ todo # <<>>
    /\ is_read_too_long(Head(todo).len)
    /\ todo' = Tail(todo)
    /\ UNCHANGED <<guest, tlb, pc, space, req, walk, out>>

TooLong ==
    /\ pc = "lookup" /\ todo # <<>>
    /\ is_read_too_long(Head(todo).len)
    /\ uncached_in' = uncached_in \cup {Head(todo)}
    /\ todo' = Tail(todo)
    /\ UNCHANGED <<guest, tlb, pc, space, req, misses, uncached_out, uncached_out_fail, out>>

(* The rest of the items behind a chunk of n bytes *)
Rest(n) ==
    LET h == Head(todo) IN
    IF n = h.len THEN Tail(todo)
    ELSE <<[item |-> h.item, addr |-> h.addr + n, len |-> h.len - n]>> \o Tail(todo)

Cut == [Head(todo) EXCEPT !.len = chunk_len(Head(todo).addr, Head(todo).len)]

Looked ==
    /\ pc = "lookup" /\ todo # <<>>
    /\ ~is_read_too_long(Head(todo).len)
    /\ todo' = Rest(Cut.len)

Hit ==
    /\ Looked
    /\ HasEntry(space, page_of(Cut.addr))
    /\ out' = Append(out,
                 [item |-> Cut.item, addr |-> Cut.addr, len |-> Cut.len,
                  frame |-> entries[get_cache_index(page_of(Cut.addr))].frame])
    /\ UNCHANGED <<guest, tlb, pc, space, req, walk>>

Miss ==
    /\ Looked
    /\ ~HasEntry(space, page_of(Cut.addr))
    /\ misses' = misses \cup {Cut}
    /\ UNCHANGED <<guest, tlb, pc, space, req, uncached_in, uncached_out, uncached_out_fail, out>>

LookedUp ==
    /\ pc = "lookup" /\ todo = <<>>
    /\ pc' = "walk"
    /\ UNCHANGED <<guest, tlb, space, req, todo, walk, out>>

----------------------------------------------------------------------------
(* The nested translator.  It answers a chunk in pieces: pages that follow *)
(* each other in physical memory may come as one piece (a large page), and *)
(* so may pages without a translation (an absent table).                   *)

PagesOf(a, len) == page_of(a)..(IF len = 0 THEN page_of(a) ELSE page_of(a + len - 1))

FrameOf(f, i) == IF f = NotMapped THEN NotMapped ELSE f + i

Pieces(c) ==
    {n \in 0..c.len : /\ n = c.len \/ ((c.addr + n) % PageSize = 0 /\ n > 0)
                      /\ \A q \in PagesOf(c.addr, n) :
                            table[space][q] = FrameOf(table[space][page_of(c.addr)], q - page_of(c.addr))}

Answered(c, n, f) == [item |-> c.item, addr |-> c.addr, len |-> n, frame |-> f]

Behind(c, n) ==
    IF n = c.len THEN {}
    ELSE {[item |-> c.item, addr |-> c.addr + n, len |-> c.len - n]}

Walk ==
    /\ pc = "walk"
    /\ \E c \in misses, n \in 0..MaxPage * PageSize + PageSize :
          /\ n \in Pieces(c)
          /\ misses' = (misses \ {c}) \cup Behind(c, n)
          /\ LET f == table[space][page_of(c.addr)] IN
             IF f = NotMapped
             THEN /\ uncached_out_fail' = Append(uncached_out_fail, Answered(c, n, f))
                  /\ UNCHANGED uncached_out
             ELSE /\ uncached_out' = Append(uncached_out, Answered(c, n, f))
                  /\ UNCHANGED uncached_out_fail
    /\ UNCHANGED <<guest, tlb, pc, space, req, todo, uncached_in, out>>

(* A page table could not be read: the pages of the chunk fail, whatever   *)
(* they map.                                                               *)
WalkFault ==
    /\ pc = "walk" /\ Faults
    /\ \E c \in misses :
          /\ misses' = misses \ {c}
          /\ uncached_out_fail' = Append(uncached_out_fail, Answered(c, c.len, NotMapped))
          /\ lag' = [lag EXCEPT ![space] = [p \in Page |->
                        IF p \in PagesOf(c.addr, c.len)
                        THEN [lag[space][p] EXCEPT ![NotMapped] = 0]
                        ELSE lag[space][p]]]
    /\ UNCHANGED <<table, remaps, tlb, pc, space, req, todo, uncached_in, uncached_out, out>>

(* The long items go straight to the caller's out and out_fail. *)
WalkLong ==
    /\ pc = "walk" /\ misses = {}
    /\ \E c \in uncached_in, n \in 0..MaxPage * PageSize + PageSize :
          /\ n \in Pieces(c)
          /\ uncached_in' = (uncached_in \ {c}) \cup Behind(c, n)
          /\ out' = Append(out, Answered(c, n, table[space][page_of(c.addr)]))
    /\ UNCHANGED <<guest, tlb, pc, space, req, todo, misses, uncached_out, uncached_out_fail>>

Walked ==
    /\ pc = "walk" /\ misses = {} /\ uncached_in = {}
    /\ pc' = "store"
    /\ UNCHANGED <<guest, tlb, space, req, todo, walk, out>>

----------------------------------------------------------------------------
(* cache_entry: the first page of the piece *)
Cached(e) == [pt |-> table_id[space], page |-> page_of(e.addr), frame |-> e.frame]

StoreOk ==
    /\ pc = "store" /\ uncached_out # <<>>
    /\ LET e == Head(uncached_out)
           i == get_cache_index(page_of(e.addr)) IN
       /\ entries' = [entries EXCEPT ![i] = Cached(e)]
       /\ age' = [age EXCEPT ![i] = 0]
       /\ out' = Append(out, e)
    /\ uncached_out' = Tail(uncached_out)
    /\ UNCHANGED <<guest, pc, space, req, todo, misses, uncached_in, uncached_out_fail>>

(* cache_invalid_if_uncached: the pages of the failed piece, at most one   *)
(* per slot, up to the page of the second byte behind it.                  *)
InvalidPages_Whole(a, len) ==  \* mutant: the page of that byte too
    {p \in Page : p \in page_of(a)..page_of(a + len + 1) /\ p < page_of(a) + Entries}

InvalidPages(a, len) ==
    {p \in Page : p \in page_of(a)..(page_of(a + len + 1) - 1) /\ p < page_of(a) + Entries}

Replaceable(i) ==
    entries[i].pt = NoTable \/ entries[i].frame = NotMapped \/ age[i] > Window

StoreFail ==
    /\ pc = "store" /\ uncached_out = <<>> /\ uncached_out_fail # <<>>
    /\ LET e == Head(uncached_out_fail)
           P == {p \in InvalidPages(e.addr, e.len) : Replaceable(get_cache_index(p))}
           At(i) == {p \in P : get_cache_index(p) = i}
       IN
       /\ entries' = [i \in Slot |-> IF At(i) = {} THEN entries[i]
                        ELSE [pt |-> table_id[space], page |-> Min(At(i)), frame |-> NotMapped]]
       /\ age' = [i \in Slot |-> IF At(i) = {} THEN age[i] ELSE 0]
       /\ out' = Append(out, e)
    /\ uncached_out_fail' = Tail(uncached_out_fail)
    /\ UNCHANGED <<guest, pc, space, req, todo, misses, uncached_in, uncached_out>>

Stored ==
    /\ pc = "store" /\ uncached_out = <<>> /\ uncached_out_fail = <<>>
    /\ pc' = "return"
    /\ UNCHANGED <<guest, tlb, space, req, todo, walk, out>>

Return ==
    /\ pc = "return"
    /\ pc' = "idle"
    /\ req' = <<>> /\ out' = <<>>
    /\ UNCHANGED <<guest, tlb, space, todo, walk>>

----------------------------------------------------------------------------
(* The guest maps, unmaps or moves a page at any moment. *)
Remap ==
    /\ remaps < MaxRemaps
    /\ remaps' = remaps + 1
    /\ \E s \in Spaces, p \in Page, f \in Translation :
          /\ f # table[s][p]
          /\ table' = [table EXCEPT ![s][p] = f]
          /\ lag' = [lag EXCEPT ![s][p][table[s][p]] = 0]
    /\ UNCHANGED <<tlb, pc, space, req, todo, walk, out>>

CallStep ==
    \/ TooLong \/ Hit \/ Miss \/ LookedUp
    \/ Walk \/ WalkFault \/ WalkLong \/ Walked
    \/ StoreOk \/ StoreFail \/ Stored \/ Return

Next == Begin \/ CallStep \/ Remap

Spec == Init /\ [][Next]_vars

----------------------------------------------------------------------------
(* Properties *)

Fresh(s, p, f, a) == table[s][p] = f \/ lag[s][p][f] <= a

(* Every answer is one that the page tables of the call's address space    *)
(* gave within the validity window: a translation of another page, of      *)
(* another address space or of an expired entry is never handed out, and a *)
(* page is said to be unmapped only if it was, or its walk failed          *)
(* (cached_vat.rs:133-221, tlb_cache.rs:67-152).                           *)
BoundedStaleness ==
    \A i \in 1..Len(out) : \A q \in PagesOf(out[i].addr, out[i].len) :
        Fresh(space, q, FrameOf(out[i].frame, q - page_of(out[i].addr)), Window)

(* When the call returns, the answers cut every item into ranges: no byte  *)
(* is left out and none is answered twice, whatever was cached, merged,    *)
(* too long or walked in pieces.                                           *)
AnsweredOnce ==
    pc = "return" => \A i \in 1..Len(req) :
        LET Mine == {k \in 1..Len(out) : out[k].item = i}
            Of(b) == {k \in Mine : out[k].addr <= b /\ b < out[k].addr + out[k].len}
        IN  /\ \A b \in req[i].addr..(req[i].addr + req[i].len - 1) : Cardinality(Of(b)) = 1
            /\ \A k \in Mine : /\ req[i].addr <= out[k].addr
                               /\ out[k].addr + out[k].len <= req[i].addr + req[i].len

(* The inductive part of BoundedStaleness: an entry is no older than the   *)
(* page table was seen to give it, by its age.                             *)
EntriesAreFresh ==
    \A i \in Slot, s \in Spaces :
        entries[i].pt = table_id[s] /\ age[i] <= Window =>
            Fresh(s, entries[i].page, entries[i].frame, age[i])

IInv == TypeOK /\ EntriesAreFresh /\ BoundedStaleness
=============================================================================
