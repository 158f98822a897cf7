# TLA+ specifications of memflow

The repository holds **memflow**, a Rust library for introspecting the memory of a running
machine (`src/memflow_lib/`), and a C++ application built on it (`src/apex_dma.cpp`,
`src/Game.cpp`, ...). The specifications here are about the library. Its core is a stack of
layers that each take a *list* of reads or writes and pass on a smaller or differently cut
list:

    a C program
      memflow-ffi, memflow-win32-ffi   boxed objects                            (ForeignApi)
        connector inventory            connector/inventory.rs                   (Inventory)
    a Rust program
      memflow-win32
        Kernel, Win32Process, Keyboard win32/{kernel,process,keyboard}.rs       (Win32Lists)
        KernelBuilder, offsets         win32/kernel_builder.rs, kernel/, offsets/ (KernelStart, PdbStruct)
      VirtualMemoryBatcher,
      PhysicalMemoryBatcher            mem/{virt,phys}_mem_batcher.rs           (Batcher)
      VirtualDMA                       mem/virt_mem/virtual_dma.rs              (VirtualMemory)
        CachedVirtualTranslate         mem/cache/cached_vat.rs, tlb_cache.rs    (CachedTranslate)
          DirectTranslate, ArchMMUSpec architecture/mmu_spec.rs                 (MMUSpec)
      CachedMemoryAccess, PageCache    mem/cache/                               (PageCache)
          CacheValidator               mem/cache/{count,timed}_validator.rs     (AgeValidator, ...)
      connectors: mapped buffer, mapped file, file i/o, qemu process            (Connectors)
        MemoryMap                      mem/mem_map.rs                           (MemoryMap)
      DummyMemory, a memory for tests  mem/dummy.rs                             (DummyMemory)
    every layer cuts buffers with
      PageChunkIterator                iter/page_chunks.rs                      (PageChunks)

All of it is synchronous, `&mut self` code: two calls into one object never overlap. The
concurrency is with the *guest*, which keeps running: it changes memory, page tables and its
own lists between any two accesses of the library, without telling it; and with other
*programs* that use the same symbol cache on disk. Failures are errors of a connector (a
list read that stops half way), of a page table walk, of a download or a file, and programs
that crash.

Paths below are relative to `src/memflow_lib/memflow/src/` unless they say otherwise;
`win32:` stands for `src/memflow_lib/memflow-win32/src/` and `qemu:` for
`src/memflow_lib/memflow-qemu-procfs/src/lib.rs`.

## Inventory

| component | state it keeps | operations | hard behaviour | what makes it correct |
|---|---|---|---|---|
| physical page cache | per slot: address, buffer or `None`, mark `address_once_validated`, validator | `phys_read_raw_list`, `phys_write_raw_list`, `clone` | a list is served from cache, backend and re-read pages in an order of its own; several pieces want one slot; errors leave half way; guest writes between the steps | buffers are neither lost nor shared; bounded staleness; a write is seen by later reads; Ok means filled |
| cache validators | a stamp per slot, a counter or clock | `allocate_slots`, `update_validity`, `is_slot_valid`, `validate_slot`, `invalidate_slot` | wrap of the counter; fresh slots at the edge of validity | a slot expires as many operations, or as much time, after its validation as was set |
| translation cache | entries (table id, page, frame), validator | `virt_to_phys_iter` | chunks are cut by what is cached, misses are walked lazily and stored later; failures are stored too; address spaces share entries | no stale or foreign translation; every byte answered once |
| page table walk (MMU) | stack of translation chunks per level | `virt_to_phys_iter` | one step for many ranges, a filter of addresses that wrap, a filter of equal entries, errors of a list fail all of it; the guest changes tables between two levels | every byte answered once; as a processor's walk of it alone |
| page chunks | remaining buffer, address, refused cuts | `next`, `size_hint` | merging of refused cuts; end of the address space | a partition of the buffer, along pages |
| virtual memory | translator, process, physical memory | list reads and writes, page info, `virt_page_map_range`, `virt_translation_map_range` | translation failures and read failures in one list; partial results; the table changes during a call | what was translated is read; the rest is zeroed and reported; maps have no gap and no overlap |
| batchers | lists of pending reads and writes | `read_into`, `write_into`, `commit_rw`, `Drop` | an error between the two lists; commit on drop after an error | nothing queued is lost; Ok means complete; repeated only after an error |
| memory map | sorted list of mappings; iterator position | `push`, `map_iter` | order of pushes; linear walk or binary search; a range over gaps and several mappings | exact mapping, rejected exactly where unmapped |
| connectors, qemu | a MemoryMap and a backend | open, list reads and writes | ranges that the map rejects; short counts and errors; batches of `process_vm_readv`; the layouts of two machine types | requested bytes or an error; the process that was named; a bijection into its memory |
| connector inventory | loaded libraries, one per name | `scan`, `add_dir`, `create_connector` | order of directories; wrong versions; lifetimes of libraries | a name stays bound; a library is mapped while it is used |
| C interfaces | boxed Rust objects | create, clone, convert, consume, free, list | a call that fails consumed its argument or not; lists that fail half way | no object and no library is lost or used after its end |
| win32 lists | kernel info, offsets | process and module walks, lookups by name and pid | lists change while they are walked; reads fail; loops that never come back | a finished walk has every element that was there all the time, once |
| win32 keyboard | process, address of the key bitmap | `new`, `state_with_process`, `is_down` | lookups that find another process | the bit of the key, from the right place |
| win32 kernel construction, offsets and symbols | hints, searches, symbol cache on disk | `build`, `StartBlock`, `ntos`, `sysproc`, offset builder, `PdbStruct` | fallbacks of fallbacks; transient failures; two programs and crashes over one cache | the offsets fit the guest; what can be found is found; a broken download leaves nothing behind |
| dummy memory | pages still to hand out, page tables | `new`, `alloc_process`, `new_virt` | pages of mixed sizes in random order; running out of frames | tables that lead to the process's own bytes |
| value types, iterator helpers, derive macro, benchmarks | - | pure | - | - |
| overlay application | game specific caches | loops over reads and writes | - | a client, left out |

`PROJECT.json` lists the components with their files and status, and the hazards of the code
at the lines where they bite.

## Modules

A module of the list models one component, a module *MC...* is its instance for TLC, and a
module *...Proofs* has its theorems. Definitions keep the names of the code. Definitions
named `X_Y` and commented `mutant` are faulty variants of `X`; each property is shown to
notice the one named with it in `PROJECT.json`.

### Caches

**PageCache** is `CachedMemoryAccess` over one `PageCache`. The bytes of a page are a
version number; a guest write or one of ours makes a new version. `address`, `page_refs`,
`once` (for `address_once_validated`) are the Rust fields; `age` is the validator. A buffer
is a value that moves: `take_page` always empties the slot, and `Valid`, `Validatable`,
`ToBeValidated`, `Invalid` are what it hands back. A read is `ReadBegin`, then one of
`Bypass`, `Hit`, `Revalidate`, `AwaitPage`, `Miss` for each piece (the arms of the `match`
in `cached_read`), and at the end of an item, if the list is over or a list has reached 64
elements (`Limit`), the three stages of a flush: `ReadListOk/Err`, `RefreshOk/Err`,
`CopyOut` and `FlushEnd`. An error leaves at the `?` and drops the buffers that `wlistcache`
holds (`ReturnErr`). A write is `UpdateCached` (cached copies first) and `WriteOk/Err`.
`Clone` follows the clone from then on. `GuestWrite` may happen between any two of these
steps. History variables: `lag` (how long ago the backend held a version), `lost` (slots
whose buffer was dropped), `acked` (writes through the cache that returned Ok). The page
type decides whether a piece is `cached`; the caller may use both kinds for one page.

**AgeValidator** is what the trait `CacheValidator` promises, in terms of an age per slot;
`PageCache` and `CachedTranslate` use these ages. **CountValidator** and **TimedValidator**
are the two implementations, each with a refinement mapping to AgeValidator (`Implements`).
They differ in one respect: a slot that was just allocated or invalidated has *expired* in
the counting validator, and has the *largest valid* age in the timed one (`AllocAge`).
What slots do is also stated without ages: the history variables `ops` and `moved` say of
every slot whether it was validated since it was made or given up, and how many operations,
or how much time, have passed since then. `ExpiresInTime` says what `is_slot_valid` must
answer for each history; it is what the example at count_validator.rs:47-61 asserts, for any
order of calls and over the end of the counter. Of a fresh slot of the timed validator it
says what the code does: it is valid until the clock first moves.

**CachedTranslate** is `CachedVirtualTranslate` over `TLBCache`, for several address spaces.
`Begin` is the call; `TooLong`, `Hit`, `Miss` look one chunk up (`chunk_len` is the cut that
`page_chunks_by` makes with this caller's closure); `Walk`, `WalkFault`, `WalkLong` are the
nested translator, modelled from how it is used: it answers a chunk in pieces and may fail;
`StoreOk`, `StoreFail` write `uncached_out` and `uncached_out_fail` into the cache
(`cache_entry`, `cache_invalid_if_uncached`) and pass them on. `Remap` is the guest. In the
code the walk pulls the misses out of the same iterator that looks chunks up; nothing is
stored before the walk is over, so a lookup does not depend on walks of the same call and
they are modelled one after the other. An item longer than the cache is not looked up; it
is walked last and its answers go to the caller without being stored.

### From virtual to physical

**MMUSpec** is `ArchMMUSpec`: addresses and entries are numbers, a mask is a quotient times a
power of two and a remainder, and the arithmetic wraps as in a release build, only smaller: an
architecture is a record (`splits`, `final_steps`, the bits of an entry, the width of an
address and of a read), of which x64, PAE and x32 are scaled instances; `WellFormed` says what
the walk relies on of it. A range carries the number of its request and its offset in that
buffer (`id`, `off`), so that it can be said of every byte asked for where it is. `Filter` is `virt_addr_filter` for one range (`NonEmpty`
parts of it are kept, `Rejected` or `lost`), `StartWalk` makes the first chunk. A level is:
for every chunk `NotPresent`, `Translated` (it is on a last or a large page) or `Descend`,
which leaves its chunk in `rest`, whose parts `NextPart` cuts along the pages of the next
level (`split_at_inclusive`);
`EndLevel`; then `ReadEntries` or `ReadError` for all chunks with one physical read; then
the filter of repeated entries, `Follow` or `Reject` for every chunk, and `NextLevel`.
`GuestWrite` changes an entry before any read of the tables. **MCMMUSpec** states what is
promised: `Reach` are the entries at which a processor's walk for one byte may arrive on each
level, over all values that each entry had since the call began; `Pages` are the pages at the
end of such a walk. `NoGaps` and `Aligned` name the lists and the tables for which the code
keeps that promise (see Findings).

**PageChunks** is the iterator over one buffer, from every start and of every length.
`Merge` is a cut the caller's closure refuses, `Yield` one it accepts or the buffer's end;
`page_chunks` is the case without a `Merge`.

**VirtualMemory** is `VirtualDMA` with the helpers of the trait `VirtualMemory`. Its
translator is any that answers every byte once, which is what MMUSpec and CachedTranslate
show of theirs: `Translated` and `NotTranslated` take the pieces in an order of their own,
and `Remap` changes the table in between. `PhysRead`, `PhysReadFails`, `PhysWrite`,
`PhysWriteFails` are the physical list (a failing one may have done any number of pieces),
`MapRange` the two maps, `PageInfo` the single lookup. The sort by address is given by the
`Rank` of a range, the merge by gap length is a recursive function over the sorted list. `buffer` is the caller's, `answer` what is returned.

**Batcher** is both batchers, whose code is the same: `QueueRead`, `QueueWrite`, `Commit`
and `Drop` (which commits and ignores the result), and the answers of the memory,
`ReadsServed/Failed` and `WritesServed/Failed`. An entry is known by its number.

**DummyMemory** builds a memory: `Shuffle` and `NextRound` cut it into pages, `AllocDtb`,
`NextPage`, `Descend`, `CreateTable`, `MapPage`, `EndProcess` are `alloc_process_with_dtb`
and `map_to` beneath it, `Panic` is every `unwrap` of an exhausted memory and `UseClone`
goes on with a clone. `LayoutAssumption` and `PowersAssumption` state arithmetic: that page
sizes and address spaces are powers of the fan-out, which holds of the numbers in the code
and which the provers cannot conclude from a recursive definition of a power.

**VirtualSession** composes the four: `Build` runs DummyMemory, `NewVirt` opens the address
space of its process as a VirtualDMA, and then the program makes calls or keeps a batcher
over the virtual or the physical memory (`over`). `Ask` and `Tell` hand the lists of the
batcher to VirtualMemory and its answer back; a partial result counts as an error for the
`?` of `commit_rw`.

### Connectors and the inventory

**MemoryMap** has `Push` (with the scan, the check of overlaps and the place of the new
mapping) and the iterator: `FetchElem`, `NoMapping`, `RejectAll`, `YieldPart` are the
outcomes of a turn of `next`/`get_next`. `binary_search` is the index of the mapping that
covers the address, or how many lie below it; any index when the list is not sorted.

**Connectors** opens one connector, `OpenMapped`, `OpenFileMap`, `OpenFileIO` (length checks
and metadata) or `OpenQemu` (`qemu_arg_opt`, `found_process`, and the maps of
i440fx and q35 from the sizes in `sizes.rs`). A list (`Begin`) is cut by the map into
`pieces`, and `MappedCopy`, `MappedReadOnly`, `FilePiece`, `FileFails`, `FileShortWrite`,
and `FillIovec`, `Transfer`, `TransferShort`, `TransferFails` for qemu are what they meet;
A call ends with its last
piece; `result` is the answer.

**Inventory** is the connector inventory as operators (`try_with`, `add_entry`, `add_dir`,
`scan`, `find_connector`) over the count of references that keeps a library mapped. The
loops over directories are recursive functions, as are the parsers of KernelStart, so that
they can be reasoned about.
**ForeignApi** is one action per C function that hands an object out, takes one back, turns
one into another, or lists several: `heap` is what lives, `held` what the client was given
and has not given up. A call that fails takes its own path, and what it prints goes through
`Log`. The client frees what it was given, once, and views before the object they look at.

**MCConnectors** explores the map, the transfers and the objects, one part at a time;
**MCStartup** adds the construction of a kernel as one more part.

### Windows

**Win32Lists** has the guest's circular lists of processes and modules in full (`flink`,
`blink`, forged links after memory is reused) and its steps `Spawn`, `Exit`, `Delete`,
`Free`, `Load`, `Unload`. The program's steps are single reads: `WalkFlink`, `Ends`,
`WalkBlink` are a turn of `eprocess_list_extend`, `EprocessFields`, `ProcessContext` what is
read of every address found; `ModFlink`, `ModInfo`, `NextList` walk the module lists of a
process, for `Candidate` in turn when a name is looked up; `KernelModules`, `ReadKbase` and
`KeyState` belong to the keyboard. Any of the reads may fail (`Fault`), each with the
consequence it has in the code. What the program is promised is about `steady`, the elements
that were there from the call's begin to its end, and `broken`, that the guest has reused
the memory of one in between, or has loaded a module again at the address it had.

**KernelStart** is the construction, for one or two builders at once over one symbol cache:
`ReadLowStub`, `ReadLow16M`, `ScanFails` are the start block, `ProbeHint`, `SearchPageMap`,
`SearchX86` the kernel, `FindGuid`, `FindWinver`, `FindSysproc` what is read of it,
`OpenStore`, `ReadCache`, `Download`, `CreateFile`, `WriteFile`, `FromPdb`, `ParsePdb`,
`PdbFails`, `UseList`, `NewKernel` the offsets. A read may fail and a builder may crash at
each of these. `space` is what a builder sees of the guest: nothing, if it walks the page
tables of another architecture than the guest's. **PdbStruct** parses one structure of a
symbol file: the scan for the class, and the types it needs, highest index first.

What a guest and the data of the library can be is assumed by name in KernelStart.
`GuestsAssumption`: one Windows is running. Every image whose name is ntoskrnl.exe is one of
its kernel, one of them lies at the kernel's base, and the version in KUSER_SHARED_DATA is
the kernel's or not there. `ListAssumption`: the embedded list has no entry of version 0.0,
and a version that the code misreads (ntos.rs:150 stores the minor version as the major one)
is no version of an entry for that architecture. Both are true of the eight files in
`src/memflow_lib/memflow-win32/offsets`. `StreamsAssumption`: a type of a symbol file refers
to earlier types only.

## Runs

Every run must end without an error, or with the violation it is there for. Some MC modules
put several parts into one run: a variable `part`, chosen in the initial state, decides
which of them a behaviour is about, and the others stand still.

| run | question | bounds, and why they are enough |
|---|---|---|
| `page_cache_faults` | ownership of buffers and the whole inductive invariant (`IInv`), staleness, read-your-writes, where an unfilled chunk can come from; counting validator, failing backend, clones | 3 pages on 2 slots: two pages compete for one slot and one has its own; lists of up to 3 pieces over a `Limit` of 2 reach the flush in the middle; 2 versions after the first, so a write and a guest write can both fall into one read; a window of 2 operations, so that a page is still valid for a read after the write that follows its own read |
| `page_cache_lost` | violation: see Findings | as above, with a window of 1 |
| `translate` | entries and answers are fresh (`IInv`), every byte answered once, both validators implement ages, and a slot is valid exactly as long as its history says (`SlotsExpireInTime`) | part *faults*: one space, 2 remaps (a page may change and change back), failing walks; part *spaces*: two spaces with ids of their own and items of 3 pages over a cache of 2 entries, too long for it; 3 pages on 2 entries compete. Parts *count* and *clock*: a counter with 6 values and 3 valid operations wraps repeatedly; the clock has run for `valid_time` at the start |
| `translate_shared_id` | violation: see Findings | 3 pages, equal ids |
| `mmu_walk` | every byte in one place at any time (`WorkInv`), what is translated is what a walk of its own finds, what fails has a reason; the page chunks are a partition along pages, and the iterator ends | two architectures: two levels with entries half as long as a read, three levels with a hole in the address space; tables with large pages, loops to the root, equal entries, missing ones; lists of up to 4 ranges that touch, overlap, repeat, wrap and reach into the hole; one guest write at any moment. Chunks: every start and length in a space of 4 pages of 4 bytes, wrap included |
| `mmu_gaps` | violation: see Findings | two lists with gaps |
| `virtual_session` | reads and writes are true to the guest, also with partial results (`ReadIsTrue`, `WriteIsTrue`), maps are exact, the batcher loses nothing (`BIInv`) and repeats only after errors, tables of the dummy memory are right | every order in which 4 frames may be cut and handed out, processes of 1 and 2 pages, tables of 2 levels; then 4 virtual pages over 4 frames, lists that cross a page and end at a hole, one remap, one failure of physical memory, 2 queued entries. The constraint `OneOfEach` lets the session start from two of the memories (one whose test buffer is too short): `ProcessesAreRight` is checked on all |
| `startup` | one part at a time, what happens before a guest is read: the map yields what is right (`YieldedIsRight`, `MapIsExact`) and ends; transfers of each connector, qemu's layouts, which process; objects and libraries of a C client; offsets fit the guest, a guest that can be found is found, no broken download stays behind, types are added once, every build ends | *map*: up to 3 of 6 regions with gaps, neighbours and containment in every order, `MinBsearch` = 3 reaches both walks; *transfers*: files shorter and longer than the map, lists that need two calls of `process_vm_readv` (`IovMax` = 2), one fault; guests below, at and above every size that the layouts compare; *objects*: 3 boxes at a time, 2 directories with a common name, an old version and a file that is no library; *start*: 3 architectures; low memory with and without a stub, right, wrong and missing hints, kernels behind holes and other images, users with all, some and no hints; one failed read and one crash each; one and two builders over one cache and 4 kinds of server; 960 type streams of 8 types |
| `memory_map_reach`, `memory_map_reject`, `error_text` | violations: see Findings | the parts *map* and *objects* of `startup` |
| `win32_lists` | walks find what was there all the time, once; a looked up process has the name; key states | 4 processes, two with equal short names, one of them under wow64; a list of 3 kernel modules that is not in the order of their addresses; 2 calls in a row; up to 3 steps of the guest, or one of them and a failed read (`FewEvents`), which is enough for a process that exits, leaves the list and has its memory reused during one walk |

`CHECK_DEADLOCK FALSE` is set where the system stops: after a panic of `push` or of the
dummy memory, when an iterator, a translation or a build has come to its end, and when the
bounded calls and objects are used up.

**Fairness.** `MapEnds` and `Ends` assume weak fairness of the iterator's own steps,
`BuildEnds` that of every builder's: synchronous loops, which every caller in the library
drives until they return, and a build makes its next call when the last one has returned.
`BuildEnds` is about a build that has begun (`Building`). Fairness of a builder is asked for
in the part *start* only, as it stands still in the others.
Builders are not fair to be restarted after a crash, and none is assumed to crash or not to.
No fairness is assumed of pushes, new queries or the guest. All else is checked for safety
only; the walk of a process list ends by its bound of iterations, which is a step counter
and not an assumption.

## Findings

* `page_cache_lost`: after an error of the backend the slots of pages that were being
  re-read stay without a buffer and marked. A later read of such a page that takes the
  `ToBeValidated` arm waits for a page nobody reads again, and returns Ok with the caller's
  chunk untouched. `UnfilledOnlyWhereLost` says that this is the only way to an unfilled Ok;
  `FilledWithoutFaults` proves there is none without errors.
* `memory_map_reach`: a region pushed after higher ones is appended behind them when nothing
  lies below it, and then cannot be reached. `MapExact` proves that the map is exact over a
  sorted list, and that the list stays sorted while the first region is the lowest.
* `memory_map_reject`: bytes above the last mapping are neither yielded nor given to
  `out_fail` (mem_map.rs:342-382), where mem_map.rs:99 and 114 say that invalid regions get
  pushed there. `MapExact` proves, over a sorted list, that the bytes which are not mapped but
  lie below the end of some mapping are.
* `translate_shared_id`: PAE roots are 32 byte aligned, but the id of an address space is
  `dtb >> 12`; two roots in one page share entries. `StalenessIsBounded` is proved for ids
  of their own.
* `mmu_gaps`: with gaps between the ranges of a list, `split_at_inclusive` cuts behind a
  page's end, and a later range is translated with the entry of an earlier one.
  `TranslatedRight` is the same property for lists whose ranges touch every page between
  them from its beginning (`NoGaps`); `WalksAreRight` proves it.
* `error_text`: a kernel build that fails with the connector's own error prints the text
  after the connector's library may have been unmapped.

Seen while modelling, and described by the modules, but without a run of its own:

* mem/mem_map.rs: `push` panics when the new region ends where another begins (149, against
  151), and accepts one that contains an existing one.
* mem/cache: a slot left alone for a whole turn of the counter is valid again
  (count_validator.rs:85); transient failures of a walk are cached as unmapped
  (cached_vat.rs:214); `invalidate_page` and `split_to_chunks` of `PageCache` have no
  callers.
* translate_data.rs: the end of a range that reaches exactly to the top of the address space
  is 0 (`RangeEnd`), so its chunk's upper bound is too small (98-132) and a range above the
  first cut stays with the wrong page. If a range wraps past the top, an empty left part can
  come back from `split_at_inclusive` again and again (160-216): `cur_address` advances, what
  is left does not, and the chunks of a page never end (page_chunks.rs:194-228). `NoGaps`
  therefore asks that no range touches the last address, and `ChunkBounds` that none goes
  past the end before it says that no chunk is empty.
* architecture/mmu_spec.rs: the entry of a large page is masked from the bits of its own split
  on (98-109), and what the mask leaves below the page's size is ORed with the offset
  (276-293): bit 12 of a 2 MB entry (PAT) becomes part of the physical address. `Aligned` says
  that no entry has such bits.
* architecture/mmu_spec.rs: the filter cuts by the length of the buffer and not by its
  address (113-122), drops without an answer what follows the lower half if it ends in the
  hole (161), and underflows in `split_at_rev` for a part shorter than what it cuts off; x32
  reads 8 bytes for an entry of 4; of two chunks with equal entries one is taken for a loop
  and rejected (499-520).
* mem/virt_mem/virtual_dma.rs:208: a write to unmapped pages returns `PartialVirtualRead`;
  `map_data` makes Ok of a partial read (error.rs:231), where 205-206 say that it keeps the
  information.
* mem/dummy.rs: `with_rng` does not clear `page_list` between its rounds (294), so that a
  frame can be handed out twice when much of the memory is used (312); `ProcessesAreRight`
  is about the frames before that.
* connector: `metadata` of an empty map panics; fileio.rs:70 ignores how many bytes `write`
  took; qemu:273 takes a short `process_vm_readv` for success; qemu:178-187 maps 3 GB of the
  process for an i440fx machine that has less; qemu:17 reads `args[idx + 1]` behind the end;
  inventory.rs:380-381 says that a library's error is not returned, and the next line
  returns it; one entry that cannot be read ends a directory's scan.
* win32:win32/kernel.rs: a process without a PEB is left out of the list (269-275); reused
  memory of an `_EPROCESS` leads the walk elsewhere (101-128), and one unreadable module
  list ends the search by name (404-405). win32/process.rs: a list whose base was unloaded
  is walked 65536 times (81-91); `module_info().unwrap()` (188). win32/keyboard.rs:204 lets
  key 256 through, which lies behind the 64 bytes.
* win32:offsets: the cache file is created and then written (symstore.rs:112-115), so that a
  crash leaves an empty one, on which pdb_struct.rs:119 panics; the text of a `file.ptr` is
  cached as if it were a symbol file (126-131). win32:kernel: `x64::find` looks at whole
  chunks of 2 MB only (ntos/x64.rs:93), kernel/ntos.rs:150 stores the minor version as the
  major one, `find_in_section` of sysproc.rs never succeeds (80-108). The user's dtb is
  ignored unless all three hints are given (win32/kernel_info.rs:51-67), and no other
  architecture is tried after one was found (69-72).
* C interfaces: list functions return 0 after a failure and leave boxes behind; `read_u32`
  and `read_u64` return 0 for an error; a `max_len` of 0 underflows in
  `os_process_info_name`; partial reads count as success.

## Proofs

Theorems hold for every value of the constants that fulfils the named assumptions of the
module (page and slot numbers, windows, widths, sets of requests, and so on); what else they
assume is named in the statement.

**PageCacheProofs**: `Invariance`: `Spec => []IInv`, and as parts or consequences
`TypeCorrect`, `BufferOwnership`, `StalenessIsBounded`, `WritesAreRead`,
`UnfilledMeansLost`, `FilledWithoutFaults`. The properties are not inductive by themselves.
`IInv` adds

* `ListInv`: which lists are empty where, and how far `next` has come;
* `WaitInv`: every page on `wlistcache` has marked its slot, every chunk on `clist` waits
  for a page that is out, or is back and valid;
* `ProgressInv`: every piece already passed is filled, on a list, or its buffer was dropped
  by an error, which is what makes an Ok read complete;
* `ServeInv`: what a slot would serve is bytes of its address, as recent as the slot's age,
  and no older than the last acknowledged write. Staleness of an *answer* follows from
  staleness of the *slot* by age;
* `BackendInv`: what is acknowledged is in the backend or behind something newer, also
  between the update of the cached copy and the write.

One lemma per conjunct, each with one step per action. Both validators are covered: `Ticks`
and `AllocAge` are what tells them apart.

**CachedTranslateProofs**: `Invariance` and `StalenessIsBounded`, under `IdsAreOwn` (no two
spaces have one table id; what the shared-id finding violates). The induction needs what the
code never says: that entries in use are about pages of the space (`EntryInv`), that what
waits belongs to the call that is running (`WaitingInv`), and that what was walked but not
yet stored was true within the call (`AnswersInv`), so that a store is as fresh as its mark.
`EveryByteOnce` needs no assumption about ids: by `PlaceInv` every byte of every item is in
one place at any time (to be looked up, waiting, walked or answered), by `ApartInv` the
chunks in these places do not overlap, and `StageInv` says which places are empty when.

**ValidatorProofs**: `CountImplements` and `TimedImplements` are the refinements of
AgeValidator, initial states and steps. `CountExpires` and `TimedExpires` say when a slot
expires; for every width of the counter, with the differences that wrap, and every clock that
does not run backwards. They do not follow from what `is_slot_valid` compares: by the
inductive invariants `CountHistory` and `TimeHistory` the difference between the counter, or
the clock, and a slot's stamp is what the slot's history has counted since its validation,
and for a slot without one `valid_count`, or `valid_time`, more. `SlotsExpire` and
`ValidatorsImplement` say the same of both within the specification that the run *translate*
checks. `CountConstants` and `TimeConstants` in their statements are the ranges of the
parameters.

**VirtualSessionProofs**, on the batcher: `Invariance` (`BIInv`), `NothingIsLost`,
`OkIsComplete`, `WritesWait`, `RepeatsAreErrors`, for any number of entries and any memory
that answers lists. `SessionBatches` shows that the session, whose lists go through
VirtualMemory, its translation and the physical memory, implements that batcher step by step.
On the virtual memory: `ReadsAreTrue`, `WritesAreTrue`, `SessionTyped`, for pages, address
spaces, memories, tables and lists of any size, whatever is remapped or fails. The invariant
`SessionInv` has these parts: `DummyInv`, frames hold data or tables, so that a walk of the
built memory leads to a frame or to nothing; `TodoInv`, what is still to be translated are
parts of the call's items that do not cross a page; `TranslationInv`, what was translated is
a part of an item and was mapped there within the call; `BufferInv`, before the physical list
a buffer holds zeros where nothing was mapped and is untouched elsewhere; `CoverInv`, every
byte of an item is still to be translated, was translated or is missing; `ItemsInv`, the
entries of the batcher are items of the program.

`MapsHold` on the two maps of an address space (`MapsAreExact`): what they list is mapped as
they say and nothing that is mapped is missing, for any table and any gap length. Its part of
the invariant, `MapsInv`, says that while a map is made every page is still to be translated,
was seen unmapped, or was translated, once, as it was seen. That the sort keeps all of
them is proved from `Rank`, which is a bijection; of the merge, by least counterexample, that
up to every index it covers what the sorted list covers, with the gaps shorter than asked
for.

`ProcessesBuilt` on the dummy memory (`ProcessesAreRight`): for every number of levels, every
fan-out, any order of frames and any sequence of processes, the tables of a process lead from
each of its addresses to a frame of its own. `BuildInv` is `DummyInv` with `FramesInv` (the
frames on the lists are those that were not handed out, each once) and `TreeInv`: every frame
handed out has one role, as the table of a level with the prefix of the addresses below it,
or as a page, of one process; an entry of a table in use leads to the frame of the role it
stands for. A path from the root is a sequence of such roles, and a new table or page changes
one entry, which no other path uses.

**ConnectorsProofs**, on the map: `YieldedRight` (`MapInv`: no byte is asked for again once
it was answered), for any regions in any order, under `DisjointQueries`: no byte occurs twice
in one list. A list that asks twice may get two answers, from two mappings of which one
contains the other. `MapExact` needs no assumption: `ExactInv` says that disjoint pushes keep
the list sorted while the first is the lowest, and (`WalkInv`) that at every turn no mapping
behind the iterator's position can cover what is left.

On transfers: `TransfersTrue`, for every map that is sorted and without overlaps, every list,
every file length and any faults and short counts. By `TransferInv` the pieces that are left
are parts of the call's items, those that are not left were copied, and what may still be
written over them belongs to later items. For qemu, pieces left are also those that the map
has yielded and that wait in `temp_iov` for the next `process_vm_readv`. `GuestIsMapped`:
the layouts of both machine types are bijections for every size of the process from 1 MB on,
from the order of the sizes in `sizes.rs` alone. `GuestIsTheNamed`: for any list of arguments
(an option with one equals sign is split in two, any other is taken whole) and any processes.
An argument that is empty is a name, and not the default.

On objects: `LibrariesStayMapped`, `NothingIsLeft`, `OnlyListsLose` and `NamesAreBound`, for
any directories and any number of objects. `FInv` counts: the references of a library are
exactly the slots held by objects and by entries of inventories. That a `scan` changes the
count by what it adds is an induction over the directory's files.

**MMUSpecProofs**: `WalkLosesNothing`, for every well-formed architecture, every table, list
and guest: however chunks are cut, swapped, merged and moved, every byte of every request is in
exactly one place, no range is in two chunks, and a chunk knows its bounds (`WorkInv`, which
is also an invariant of the run *mmu_walk*). Its induction is `WalkInv`, in these parts: `InputInv`, the
architecture is well formed and the requests fit; `WorkTypes`; `Placed`, the places partition
what is taken so far of the requests; `FullChunks`, which chunks may be empty. The masks
are reasoned about as quotients and remainders (`PowSum`, `IndexBits`), the split of a chunk
by `SplitFacts`, the cut of a level by `NextPartIs` and `PartsFacts`.

`WalksAreRight` and `FailuresAreRight` relate this walk of all ranges together to the walk of
a processor for one byte (`Reach`, `Pages`, `Entries` of MCMMUSpec), for every well-formed
architecture, all tables, any list of ranges and any writes of the guest between two reads:
what is translated is on its page (`TranslatedRight`), and what the walk fails is not mapped
or looks like a loop (`FailedRight`). The conditions are those of the two properties: no gaps
(`NoGaps`), without which the run *mmu_gaps* shows the first one violated, and for the
first one large pages without stray bits (`Aligned`). Neither property is inductive.
`RightInv` says where every chunk of a level stands, in the order of the code:

* in `check`, a chunk up to `i` is at an entry of the processor's walk of all its bytes, and
  has all that is walked on the page of that entry (`AtEntry`); one behind `i` has been cut
  and carries the address of its next entry (`AtSlot`);
* what is left of a chunk that is being cut (`AtCut`) has all that is walked on its page from
  its own first byte on, and its address is, modulo the smaller page, that byte's;
* in `compare`, what was read for the chunks up to `i` are values their entries had since the
  call began, the chunks behind `i` are at the entries they have followed, and every address
  in `addr_map` and `prev_addr` is the one of such a chunk: so a chunk that is rejected has
  an entry that another page of the call has too, or that leads to its own table.

`SideInv` has what the steps need to know of the tables and of the ranges that the filter
rejected. That a cut is at the end of a page (`PartsHold`, `RightBegins`) is where `NoGaps` is
needed: what is left begins with a page's first byte, so that the next cut is a whole page
further. That what a chunk adds up from masks is the address of an entry (`EntryAddress`), and
the page that it ends with the processor's (`PageIs`), is arithmetic on quotients by powers
of two. The guest's writes enter through `Grows`: the values that an entry had since the call
began only become more, so what was reachable stays so.

In the same module, on the iterator over one buffer: `ChunksPartition` and `ChunksInPages`, for every page size and every
address space made of pages, with the wrap at its end: `ChunksInv` says where `cur_address`
is modulo the page, and the arithmetic of pages (`Euclid`, `DivMod`, `Shift`, `WrapSum`,
`EndOfPage`, `HintCounts`) is a set of lemmas.

**Win32ListsProofs**: `ProcessesAreFound`, `ModulesAreFound`, `SearchesAreTrue`,
`KeysAreRead`, for any number of processes and modules and any changes of the guest. A
circular list that changes under the walk is reasoned about through a *rank* (`ListsInv`):
there is an order of all that ever was in a list during the call, such that every link,
also that of a removed element, leads upwards or back to the head. Unless `broken`, what was
found so far is a rising sequence that skips no element of `steady`, so it has each of them
once, and it is shorter than the bound of iterations. `SearchInv` carries what was seen of a
candidate across the reads that follow; `SteadyInv` says that a steady module is loaded, and
in a steady process; `ChaseInv` that the module that is looked for lies ahead of the search
as long as every read succeeded. The assumptions about the guest: lists are shorter than
`MAX_ITER_COUNT` (`IterAssumption`), a process with an address space of its own has its image
in its module list (`LoadsAssumption`), the first process is the system's
(`SystemAssumption`), and nobody asks for a name that only reused memory has
(`RequestsAssumption`).

**KernelStartProofs**: `AddedOnceAlways` (`ParseInv`: the indices in `added` rise, and all
that is still needed lies below them). `NoEmptyLeftoversAlways` (`LeftInv`: what is to be
written was downloaded), for any number of programs. `OffsetsAlwaysFit` (`MapsInv`): wherever
a builder looks lies an image of the kernel, and what it has read there is true, up to the
version that `ListAssumption` is about.
`NotFoundIsAlwaysTrue`: while no read has failed, a build is on its way to the kernel. A scan
that a stub or a hint misleads ends in the fallback, and that one uses the kernel's own table
and no hint.

Recursion in these modules is over natural numbers, and what it computes is proved by the
least counterexample: were there an index at which it is wrong, there would be a least one,
and below it all is right, which contradicts the function's defining equation (lemmas such as
`UpTo`, `Below`, `Followed`). This way covers recursive functions. It does not cover the
folds of the community modules, `SelectSeq`, `RECURSIVE` operators and the induction theorems
of the library, which have operators as parameters.

`IInv` of PageCache and of CachedTranslate, `WorkInv` and `BIInv` are also invariants of
runs; of the other inductive invariants, the properties that they imply are: some of them
quantify over infinite sets, as `ListsInv` over ranks, which TLC cannot evaluate.

**Only model-checked**: liveness (`MapEnds`, `Ends`, `BuildEnds`), as the prover has no rule
for ENABLED and fairness. Every other property of the passing runs is stated by a theorem.

## Abstractions and what is left out

* PageCache: bytes of a page are one version; offsets within a page do not matter to the
  page cache, whose pieces never cross a page. A list read of a backend is atomic with
  regard to the guest; the stages of one call are not. A failing list read fills any subset
  of its list, a failing write reaches any subset of its pages. A failing re-read does not
  put buffers back, so what it read is lost.
* CachedTranslate: a walk reads a translation at one moment; the walk over several levels,
  each of which may change, is MMUSpec's. The hit and miss counters are left out. Requests
  have no items of length 0.
* MMUSpec: a page table read that returns Ok is assumed to fill every entry. The code does not
  clear `pt_buf` between two levels (mmu_spec.rs:466-467), so an entry that a connector leaves
  out of an Ok (as the memory map does above its mappings) keeps bytes of an earlier one.
* MMUSpec: the order of ranges within a chunk and the arena are left out; all three
  architectures are described, the two that are checked are smaller. A release build is
  assumed: arithmetic wraps.
* PageChunks: the page size divides the address space, as powers of two do.
* MemoryMap: the end of the address space is not modelled; loading from TOML is a series of
  pushes.
* VirtualMemory: bytes are numbers, a physical list stops at any piece.
* Connectors: a machine type is q35 or it is not; the code asks whether the option's text
  contains "q35" (qemu:125).
* PdbStruct: an enum without a field list (index 0) counts as one without members;
  pdb_struct/data.rs:317-334 would find a primitive type there and panic.
* Connectors: what follows the largest mapping of a qemu process counts as unmapped. Sizes
  are to scale; only their order and sums matter.
* ForeignApi: the accessors and the memory reads and writes of the C interfaces pass on to
  objects modelled elsewhere. That they turn errors into -1, 0 or a zero value is not
  modelled, nor is a client that breaks the documented rules.
* Win32Lists: fields of one structure that are read through one address space are read
  together. Decoding of UTF-16 and the signature scan are external answers; the numeric
  fields of a process and the choice of its translator are left out.
* KernelStart: a PE image is a record of what its parsers look for; the binary layout of the
  offset table and writing offset files are left out.
* Not modelled at all: value types (addresses, pages, pointers) and iterator helpers, which
  have no state besides the steps of the modules that use them; the derive macro, benchmarks
  and the no_std test; and the overlay application, a client of the library with loops of
  reads and writes at the offsets of one game.
* Bounds in guards: `MaxVer`, `MaxRemaps`, `MaxRegions`, `MaxGuestWrites`, `MaxFaults`,
  `MaxCalls`, `MaxCommits`, `MaxQueued`, `MaxProcesses`, `MaxChanges`, `MaxObjects`,
  `MaxListed`, `MaxSlots`, `MaxTime`, the `faults` and `crashes` of a scenario, and `NoWrap`
  of CountValidator.

## Plan

What is not done yet:

1. **WindowedMemory**, an abstract memory whose reads return any version of the window:
   PageCache as an implementation of it, and VirtualMemory over it.
2. The data of the offset table and of `Offset` files.
