----------------------------- MODULE PageCache -----------------------------
(***************************************************************************)
(* CachedMemoryAccess (cached_memory_access.rs) over one PageCache         *)
(* (page_cache.rs): a write-through, direct mapped page cache in front of  *)
(* a PhysicalMemory backend that the guest keeps changing.                 *)
(*                                                                         *)
(* A page's bytes are one version number.  The buffer of a slot is a value *)
(* that moves: it sits in page_refs, or in the list of pages being         *)
(* revalidated (wlistcache), or it has been dropped.  One action stands    *)
(* for one step of cached_read between two points at which the backend can *)
(* be seen to change; an operation runs from pc = "idle" to pc = "idle".   *)
(***************************************************************************)
EXTENDS Integers, Sequences, FiniteSets

CONSTANTS
    MaxPage,       \* pages of the backend are 0..MaxPage
    Entries,       \* number of cache slots, size / page_size
    Window,        \* largest age, in validator ticks, of a valid slot
    Ticks,         \* how far one update_validity may advance the validator
    AllocAge,      \* age that allocate_slots gives a fresh slot
    Limit,         \* length at which a list is flushed before the end (64)
    Requests,      \* read lists a caller may pass, as sequences of pieces
    WriteSets,     \* sets of pages a caller may write with one item
    MaxVer,        \* bound on the number of writes, guest's and ours
    Faults,        \* whether backend calls may fail
    INVALID,       \* Address::INVALID
    None,          \* page_refs[i] = None
    Blank,         \* the bytes of a buffer that no page was read into
    Unfilled       \* an output chunk nobody wrote to

Page    == 0..MaxPage
Slot    == 0..(Entries - 1)
Version == 0..MaxVer
Age     == 0..(Window + 1)     \* Window + 1 stands for every larger age

(* A piece of a read list: one page-sized chunk of a cached item, or a     *)
(* whole item that bypasses the cache; `last` marks the end of its item.   *)
Piece == [page : Page, cached : BOOLEAN, last : BOOLEAN]

(* What a buffer may hold: the bytes of a page, or what it was allocated   *)
(* with.                                                                   *)
Content == [page : Page, ver : Version] \cup {Blank}

ASSUME PageAssumption    == MaxPage \in Nat
ASSUME EntriesAssumption == Entries \in Nat \ {0}
ASSUME WindowAssumption  == Window \in Nat
ASSUME TicksAssumption   == Ticks \subseteq Nat
ASSUME AllocAssumption   == AllocAge \in Age
ASSUME LimitAssumption   == Limit \in Nat \ {0}
ASSUME VerAssumption     == MaxVer \in Nat
ASSUME FaultsAssumption  == Faults \in BOOLEAN
ASSUME WriteSetsAssumption == WriteSets \subseteq SUBSET Page
ASSUME ValueAssumption ==
    INVALID \notin Page /\ None \notin Content /\ Unfilled \notin Content
ASSUME RequestsAssumption ==
    /\ Requests \subseteq Seq(Piece)
    /\ \A r \in Requests :
          /\ r # <<>> => r[Len(r)].last
          /\ \A i \in 1..Len(r) : ~r[i].cached => r[i].last

VARIABLES
    mem,         \* the backend: the version each page holds
    ver,         \* the last version that was written anywhere
    lag,         \* history: ticks since the backend stopped holding a version
    address,     \* PageCache.address
    page_refs,   \* PageCache.page_refs, with the bytes of the buffer
    once,        \* PageCache.address_once_validated
    age,         \* PageCache.validator, seen as the age of each slot
    pc,          \* where the running operation stands
    req,         \* the list being read
    next,        \* index of the next piece of req
    out,         \* the caller's output chunks
    wlist,       \* chunks to be read straight from the backend
    wlistcache,  \* pages whose buffer is out of its slot to be read again
    clist,       \* chunks to be copied once their page is back
    write,       \* the write being carried out
    result,      \* what the last operation returned
    lost,        \* history: slots whose buffer was dropped
    acked        \* history: last version of a page written with Ok

backend == <<mem, ver, lag>>
slots   == <<address, page_refs, once>>
lists   == <<wlist, wlistcache, clist>>
call    == <<req, next, out>>
vars    == <<mem, ver, lag, address, page_refs, once, age, pc, req, next, out,
             wlist, wlistcache, clist, write, result, lost, acked>>

NoWrite == [pages |-> {}, cached |-> FALSE, ver |-> 0]

TypeOK ==
    /\ mem \in [Page -> Version]
    /\ ver \in Version
    /\ lag \in [Page -> [Version -> Age]]
    /\ address \in [Slot -> Page \cup {INVALID}]
    /\ page_refs \in [Slot -> Content \cup {None}]
    /\ once \in [Slot -> Page \cup {INVALID}]
    /\ age \in [Slot -> Age]
    /\ pc \in {"idle", "collect", "wlist", "wlistcache", "clist", "update", "write", "return"}
    /\ req \in Requests \cup {<<>>}
    /\ next \in 1..(Len(req) + 1)
    /\ out \in [1..Len(req) -> Content \cup {Unfilled}]
    /\ wlist \subseteq 1..Len(req)
    /\ wlistcache \subseteq Page
    /\ clist \subseteq 1..Len(req)
    /\ write \in [pages : SUBSET Page, cached : BOOLEAN, ver : Version]
    /\ result \in {"Ok", "Err"}
    /\ lost \subseteq Slot
    /\ acked \in [Page -> Version]

----------------------------------------------------------------------------
(* The slots *)

page_index(p) == p % Entries

(* take_page always empties the slot; these four say what it hands back.   *)
Valid_AnyAge(p) ==        \* mutant: is_slot_valid is not asked
    LET s == page_index(p) IN page_refs[s] # None /\ address[s] = p

Valid(p) ==
    LET s == page_index(p) IN
    page_refs[s] # None /\ address[s] = p /\ age[s] <= Window

Validatable(p) ==
    LET s == page_index(p) IN
    page_refs[s] # None /\ ~Valid(p) /\ once[s] \in {p, INVALID}

ToBeValidated_AnyPage(p) ==        \* mutant: the marked address is not compared
    page_refs[page_index(p)] = None

ToBeValidated(p) ==
    LET s == page_index(p) IN page_refs[s] = None /\ once[s] = p

Invalid(p) == ~Valid(p) /\ ~Validatable(p) /\ ~ToBeValidated(p)

Current(p) == [page |-> p, ver |-> mem[p]]

Older(a, d) == IF a + d > Window THEN Window + 1 ELSE a + d

(* CacheValidator::update_validity, by d ticks; time also passes for the   *)
(* versions the backend no longer holds.                                   *)
update_validity(d) ==
    /\ age' = [s \in Slot |-> Older(age[s], d)]
    /\ lag' = [p \in Page |-> [v \in Version |->
                 IF mem[p] = v THEN lag[p][v] ELSE Older(lag[p][v], d)]]

(* The backend takes version v for the pages P; what they held is now out  *)
(* of the backend for 0 ticks.                                             *)
Overwrite(P, v) ==
    /\ mem' = [p \in Page |-> IF p \in P THEN v ELSE mem[p]]
    /\ lag' = [p \in Page |-> IF p \in P
                              THEN [lag[p] EXCEPT ![mem[p]] = 0]
                              ELSE lag[p]]

Init ==
    /\ mem = [p \in Page |-> 0]
    /\ ver = 0
    /\ lag = [p \in Page |-> [v \in Version |-> Window + 1]]
    /\ address = [s \in Slot |-> INVALID]
    /\ page_refs = [s \in Slot |-> Blank]
    /\ once = [s \in Slot |-> INVALID]
    /\ age = [s \in Slot |-> AllocAge]
    /\ pc = "idle"
    /\ req = <<>> /\ next = 1 /\ out = <<>>
    /\ wlist = {} /\ wlistcache = {} /\ clist = {}
    /\ write = NoWrite
    /\ result = "Ok"
    /\ lost = {}
    /\ acked = [p \in Page |-> 0]

----------------------------------------------------------------------------
(* phys_read_raw_list: cached_read over a list *)

ReadBegin ==
    /\ pc = "idle"
    /\ \E r \in Requests, d \in Ticks :
          /\ update_validity(d)
          /\ req' = r
          /\ out' = [i \in 1..Len(r) |-> Unfilled]
          /\ pc' = IF r = <<>> THEN "return" ELSE "collect"
    /\ next' = 1
    /\ result' = "Ok"
    /\ UNCHANGED <<mem, ver, slots, lists, write, lost, acked>>

(* The end of a piece: the lists are flushed at the end of an item, if it  *)
(* is the last or one of the lists has reached the limit.                  *)
Advance ==
    /\ next' = next + 1
    /\ pc' = IF /\ req[next].last
                /\ \/ next = Len(req)
                   \/ Cardinality(wlist') >= Limit
                   \/ Cardinality(wlistcache') >= Limit
                   \/ Cardinality(clist') >= Limit
             THEN "wlist" ELSE "collect"
    /\ UNCHANGED <<backend, age, req, write, result, acked>>

Bypass ==
    /\ pc = "collect" /\ ~req[next].cached
    /\ wlist' = wlist \cup {next}
    /\ UNCHANGED <<slots, out, wlistcache, clist, lost>>
    /\ Advance

Hit ==
    LET p == req[next].page IN
    /\ pc = "collect" /\ req[next].cached
    /\ Valid(p)
    /\ out' = [out EXCEPT ![next] = page_refs[page_index(p)]]
    /\ UNCHANGED <<slots, lists, lost>>
    /\ Advance

Revalidate ==
    LET p == req[next].page
        s == page_index(p) IN
    /\ pc = "collect" /\ req[next].cached
    /\ Validatable(p)
    /\ page_refs' = [page_refs EXCEPT ![s] = None]
    /\ once' = [once EXCEPT ![s] = p]
    /\ clist' = clist \cup {next}
    /\ wlistcache' = wlistcache \cup {p}
    /\ UNCHANGED <<address, out, wlist, lost>>
    /\ Advance

AwaitPage ==
    /\ pc = "collect" /\ req[next].cached
    /\ ToBeValidated(req[next].page)
    /\ clist' = clist \cup {next}
    /\ UNCHANGED <<slots, out, wlist, wlistcache, lost>>
    /\ Advance

Miss ==
    LET s == page_index(req[next].page) IN
    /\ pc = "collect" /\ req[next].cached
    /\ Invalid(req[next].page)
    /\ wlist' = wlist \cup {next}
    /\ page_refs' = [page_refs EXCEPT ![s] = None]
    /\ lost' = IF page_refs[s] # None THEN lost \cup {s} ELSE lost
    /\ UNCHANGED <<address, once, out, wlistcache, clist>>
    /\ Advance

(* An error of the backend ends cached_read at the `?`; the lists go out   *)
(* of scope, and with wlistcache the buffers it holds.                     *)
ReturnErr ==
    /\ Faults
    /\ pc' = "return"
    /\ result' = "Err"
    /\ lost' = lost \cup {page_index(p) : p \in wlistcache}
    /\ wlist' = {} /\ wlistcache' = {} /\ clist' = {}
    /\ UNCHANGED <<backend, slots, age, req, next, write, acked>>

Filled(S) ==
    [i \in 1..Len(req) |-> IF i \in S THEN Current(req[i].page) ELSE out[i]]

ReadListOk ==
    /\ pc = "wlist"
    /\ out' = Filled(wlist)
    /\ wlist' = {}
    /\ pc' = "wlistcache"
    /\ UNCHANGED <<backend, slots, age, req, next, wlistcache, clist, write, result, lost, acked>>

ReadListErr ==
    /\ pc = "wlist" /\ wlist # {}
    /\ \E S \in SUBSET wlist : out' = Filled(S)
    /\ ReturnErr

(* validate_page for every page of wlistcache *)
RefreshOk ==
    LET S == {page_index(p) : p \in wlistcache}
        PageOf(s) == CHOOSE p \in wlistcache : page_index(p) = s
    IN
    /\ pc = "wlistcache"
    /\ address' = [s \in Slot |-> IF s \in S THEN PageOf(s) ELSE address[s]]
    /\ page_refs' = [s \in Slot |-> IF s \in S THEN Current(PageOf(s)) ELSE page_refs[s]]
    /\ once' = [s \in Slot |-> IF s \in S THEN INVALID ELSE once[s]]
    /\ age' = [s \in Slot |-> IF s \in S THEN 0 ELSE age[s]]
    /\ wlistcache' = {}
    /\ pc' = "clist"
    /\ UNCHANGED <<backend, call, wlist, clist, write, result, lost, acked>>

RefreshErr ==
    /\ pc = "wlistcache" /\ wlistcache # {}
    /\ UNCHANGED out
    /\ ReturnErr

CopyOut ==
    /\ pc = "clist"
    /\ \E i \in clist :
          LET p == req[i].page
              s == page_index(p) IN
          /\ clist' = clist \ {i}
          /\ IF Valid(p)
             THEN /\ out' = [out EXCEPT ![i] = page_refs[s]]
                  /\ UNCHANGED <<page_refs, lost>>
             ELSE /\ page_refs' = [page_refs EXCEPT ![s] = None]
                  /\ lost' = IF page_refs[s] # None THEN lost \cup {s} ELSE lost
                  /\ UNCHANGED out
    /\ UNCHANGED <<backend, address, once, age, pc, req, next, wlist, wlistcache,
                   write, result, acked>>

FlushEnd ==
    /\ pc = "clist" /\ clist = {}
    /\ pc' = IF next > Len(req) THEN "return" ELSE "collect"
    /\ UNCHANGED <<backend, slots, age, call, lists, write, result, lost, acked>>

Return ==
    /\ pc = "return"
    /\ pc' = "idle"
    /\ req' = <<>> /\ next' = 1 /\ out' = <<>>
    /\ UNCHANGED <<backend, slots, age, lists, write, result, lost, acked>>

----------------------------------------------------------------------------
(* phys_write_raw_list: the cached copies first, then the backend *)

BufferAfterWrite_NotCached(s, P, v) == page_refs[s]   \* mutant: no write-back

(* What the write of version v leaves in slot s: the new bytes in a valid  *)
(* page, nothing if take_page dropped the buffer, else the buffer put back *)
(* by put_entry.                                                           *)
BufferAfterWrite(s, P, v) ==
    IF \E p \in P : page_index(p) = s /\ Valid(p)
    THEN [page |-> address[s], ver |-> v]
    ELSE IF \E p \in P : page_index(p) = s /\ Invalid(p)
         THEN None
         ELSE page_refs[s]

WriteBegin ==
    /\ pc = "idle" /\ ver < MaxVer
    /\ \E P \in WriteSets, cached \in BOOLEAN, d \in Ticks :
          /\ update_validity(d)
          /\ write' = [pages |-> P, cached |-> cached, ver |-> ver + 1]
    /\ ver' = ver + 1
    /\ pc' = "update"
    /\ UNCHANGED <<mem, slots, call, lists, result, lost, acked>>

UpdateCached ==
    /\ pc = "update"
    /\ IF write.cached
       THEN page_refs' = [s \in Slot |-> BufferAfterWrite(s, write.pages, write.ver)]
       ELSE UNCHANGED page_refs
    /\ lost' = lost \cup {s \in Slot : page_refs[s] # None /\ page_refs'[s] = None}
    /\ lag' = [p \in Page |-> IF p \in write.pages
                              THEN [lag[p] EXCEPT ![write.ver] = 0]
                              ELSE lag[p]]
    /\ pc' = "write"
    /\ UNCHANGED <<mem, ver, address, once, age, call, lists, write, result, acked>>

WriteOk ==
    /\ pc = "write"
    /\ Overwrite(write.pages, write.ver)
    /\ acked' = [p \in Page |-> IF write.cached /\ p \in write.pages
                                THEN write.ver ELSE acked[p]]
    /\ result' = "Ok"
    /\ pc' = "idle" /\ write' = NoWrite
    /\ UNCHANGED <<ver, slots, age, call, lists, lost>>

WriteErr ==
    /\ pc = "write" /\ Faults
    /\ \E P \in SUBSET write.pages : Overwrite(P, write.ver)
    /\ result' = "Err"
    /\ pc' = "idle" /\ write' = NoWrite
    /\ UNCHANGED <<ver, slots, age, call, lists, lost, acked>>

----------------------------------------------------------------------------
(* The guest writes its own memory at any moment. *)
GuestWrite ==
    /\ ver < MaxVer
    /\ \E p \in Page : Overwrite({p}, ver + 1)
    /\ ver' = ver + 1
    /\ UNCHANGED <<slots, age, pc, call, lists, write, result, lost, acked>>

(* mutant: the clone also copies address_once_validated *)
Clone_KeepsMarks ==
    /\ pc = "idle"
    /\ address' = [s \in Slot |-> INVALID]
    /\ page_refs' = [s \in Slot |-> IF page_refs[s] = None THEN Blank ELSE page_refs[s]]
    /\ lost' = {}
    /\ UNCHANGED <<backend, once, age, pc, call, lists, write, result, acked>>

(* Clone: new buffers, no addresses, a copy of the validator; the clone is *)
(* the cache followed from here on.                                        *)
Clone ==
    /\ pc = "idle"
    /\ address' = [s \in Slot |-> INVALID]
    /\ page_refs' = [s \in Slot |-> IF page_refs[s] = None THEN Blank ELSE page_refs[s]]
    /\ once' = [s \in Slot |-> INVALID]
    /\ lost' = {}
    /\ UNCHANGED <<backend, age, pc, call, lists, write, result, acked>>

ReadStep ==
    \/ Bypass \/ Hit \/ Revalidate \/ AwaitPage \/ Miss
    \/ ReadListOk \/ ReadListErr \/ RefreshOk \/ RefreshErr
    \/ CopyOut \/ FlushEnd \/ Return

WriteStep == UpdateCached \/ WriteOk \/ WriteErr

Next == ReadBegin \/ ReadStep \/ WriteBegin \/ WriteStep \/ GuestWrite \/ Clone

Spec == Init /\ [][Next]_vars

----------------------------------------------------------------------------
(* Properties *)

(* A content is at most a ticks out of date: the backend holds it, or held *)
(* it (or was to hold it) until at most a ticks ago.                       *)
Recent(c, a) == mem[c.page] = c.ver \/ lag[c.page][c.ver] <= a

(* The buffer of a slot is in exactly one place, its slot, the list of     *)
(* pages being revalidated, or dropped, and address_once_validated is set  *)
(* exactly while the slot is empty: take_page, put_page and validate_page  *)
(* move it about without ever duplicating it (page_cache.rs:88-157).       *)
BufferInOnePlace ==
    \A s \in Slot :
        LET inSlot == page_refs[s] # None
            inList == \E p \in wlistcache : page_index(p) = s
            gone   == s \in lost
        IN  /\ inSlot \/ inList \/ gone
            /\ ~(inSlot /\ inList) /\ ~(inSlot /\ gone) /\ ~(inList /\ gone)
            /\ inSlot <=> once[s] = INVALID

(* Every chunk a read has filled holds bytes of the page that was asked    *)
(* for, which the backend held, or was about to be given by a write,       *)
(* within the validator's window (cached_memory_access.rs:5-9).            *)
BoundedStaleness ==
    \A i \in 1..Len(req) :
        out[i] # Unfilled => /\ out[i] \in [page : {req[i].page}, ver : Version]
                             /\ Recent(out[i], Window)

(* After a write through the cache returned Ok, no read returns older      *)
(* bytes of that page: phys_write_raw_list writes back into still valid    *)
(* cache pages before it writes the backend.                               *)
ReadYourWrites ==
    \A i \in 1..Len(req) :
        out[i] # Unfilled => out[i].ver >= acked[req[i].page]

(* A read that returns Ok has written to every chunk of the caller's       *)
(* buffers, from the cache or with a new read (cached_memory_access.rs:5). *)
OkReadIsFilled ==
    pc = "return" /\ result = "Ok" => \A i \in 1..Len(req) : out[i] # Unfilled

(* What remains of it with a failing backend: an Ok read leaves a chunk    *)
(* untouched only where an earlier error dropped the buffer of the slot    *)
(* while this very page was being revalidated.                             *)
UnfilledOnlyWhereLost ==
    pc = "return" /\ result = "Ok" =>
        \A i \in 1..Len(req) :
            out[i] = Unfilled => LET s == page_index(req[i].page) IN
                                 req[i].cached /\ s \in lost /\ once[s] = req[i].page

----------------------------------------------------------------------------
(* The inductive invariant *)

Reading == pc \in {"collect", "wlist", "wlistcache", "clist", "return"}

(* The lists are empty outside the steps that use them. *)
ListInv ==
    /\ ~Reading => req = <<>> /\ next = 1
    /\ pc \notin {"collect", "wlist", "wlistcache", "clist"} =>
          wlist = {} /\ wlistcache = {} /\ clist = {}
    /\ pc \in {"wlistcache", "clist"} => wlist = {}
    /\ pc = "clist" => wlistcache = {}
    /\ pc = "collect" => next <= Len(req)
    /\ pc = "return" /\ result = "Ok" => next = Len(req) + 1

(* A page on wlistcache has marked its slot; a chunk on clist waits for a  *)
(* page that is on wlistcache, is back, or was dropped by an earlier error. *)
WaitInv ==
    /\ \A p \in wlistcache : once[page_index(p)] = p
    /\ \A i \in clist :
          LET p == req[i].page IN
          /\ i < next /\ req[i].cached
          /\ \/ pc = "clist" /\ Valid(p)
             \/ ToBeValidated(p)

Dropped(i) ==
    LET s == page_index(req[i].page) IN
    req[i].cached /\ s \in lost /\ once[s] = req[i].page

(* Every piece already passed is filled, on a list, or dropped. *)
ProgressInv ==
    result = "Ok" =>
        \A i \in 1..Len(req) :
            i < next => out[i] # Unfilled \/ i \in wlist \/ i \in clist \/ Dropped(i)

(* What a slot would serve. *)
ServeInv ==
    \A s \in Slot :
        /\ address[s] # INVALID => page_index(address[s]) = s
        /\ page_refs[s] # None /\ address[s] # INVALID /\ age[s] <= Window =>
              LET c == page_refs[s] IN
              /\ c \in [page : {address[s]}, ver : Version]
              /\ Recent(c, age[s])
              /\ c.ver >= acked[address[s]]
              /\ pc = "write" /\ write.cached /\ address[s] \in write.pages =>
                    c.ver = write.ver

(* What is acknowledged is in the backend or behind something newer. *)
BackendInv ==
    /\ \A p \in Page : acked[p] <= mem[p] /\ mem[p] <= ver
    /\ pc \in {"update", "write"} =>
          write.ver <= ver /\ \A p \in Page : acked[p] <= write.ver

IInv ==
    /\ TypeOK /\ BufferInOnePlace /\ BoundedStaleness /\ ReadYourWrites
    /\ ListInv /\ WaitInv /\ ProgressInv /\ ServeInv /\ BackendInv
=============================================================================
