----------------------------- MODULE KernelStart ----------------------------
(***************************************************************************)
(* From a connector to a Kernel (memflow-win32: win32/kernel_builder.rs,   *)
(* win32/kernel_info.rs, kernel/, offsets/).                               *)
(*                                                                         *)
(* A KernelBuilder looks for the page tables of the guest in its low       *)
(* memory (start_block), for ntoskrnl.exe in the address space of those    *)
(* (ntos), for the system process (sysproc), and then for the offsets of   *)
(* that kernel: in a symbol file, from a cache on disk or a server, or in  *)
(* the list that is built in.  Several programs may do so at once and      *)
(* share the cache; a read of the guest, of the network or of the disk may *)
(* fail, and a program may crash at any step.                              *)
(*                                                                         *)
(* Addresses count pages.  The sizes of the code, in pages: 128 KB (32)    *)
(* for Align, 2 MB (512) for Chunk, 16 MB (4096) for Reach.                *)
(***************************************************************************)
EXTENDS PdbStruct

CONSTANTS
    Builders,        \* programs that build a Kernel
    Scenarios,       \* a set of records, see below
    OffsetList,      \* the embedded list: Seq([guid, major, minor, build, arch])
    Structs,         \* the structures of from_pdb_slice: Seq([class, required])
    Align, Chunk, Reach

(* A scenario.                                                             *)
(*  guest   low: Seq of pages of low memory, StubPages of them the first   *)
(*          megabyte; spaces: [dtb -> [mapped, images, user]], where       *)
(*          images maps pages to PE headers: what the page tables at dtb   *)
(*          say to a translator of the guest's own architecture;           *)
(*          kernel: what really runs                                       *)
(*  users   what is asked of each builder that is used                     *)
(*  server  what the symbol server has: "pdb", "ptr", "short" or "none"    *)
(*  pdb     the type stream of the symbol file                             *)
(*  faults, crashes   bounds on failed reads and on programs that crash    *)

ASSUME ScanSizesAssumption   == {Align, Chunk, Reach} \subseteq Nat \ {0}
ASSUME StructsAssumption == IsList(Structs) /\ Structs # <<>> /\ IsList(OffsetList)
ASSUME StreamsAssumption == \A s \in Scenarios : IsStream(s.pdb)

(* One Windows runs in a guest: every image named ntoskrnl.exe is of its   *)
(* kernel, one of them at its base, and a version in KUSER_SHARED_DATA is  *)
(* its version.                                                            *)
IsNtos(image)      == image.name = "ntoskrnl.exe" /\ image.size > 0
IsKernel(image, k) ==
    /\ image.guid = k.guid /\ image.build \in {0, k.build}
    /\ image.major = k.major /\ image.minor = k.minor /\ image.eprocess = k.eprocess
ASSUME GuestsAssumption ==
    \A s \in Scenarios : LET k == s.guest.kernel  spaces == s.guest.spaces IN
        /\ IsList(s.guest.low)
        /\ {k.base, k.build, k.dtb} \subseteq Nat /\ k.dtb \in DOMAIN spaces
        /\ k.base \in DOMAIN spaces[k.dtb].images /\ IsNtos(spaces[k.dtb].images[k.base])
        /\ \A d \in DOMAIN spaces : LET a == spaces[d] IN
            /\ a.mapped \subseteq Nat \ {0}
            /\ a.mapped # {} => \E top \in a.mapped : \A page \in a.mapped : page <= top
            /\ \A page \in DOMAIN a.images : IsNtos(a.images[page]) => IsKernel(a.images[page], k)
            /\ a.user[1] = 0 \/ a.user = <<k.major, k.minor>>

None    == "none"
NoHint  == -1
NoBlock == [arch |-> None, kernel_hint |-> 0, dtb |-> 0]
NoImage == [base |-> 0, guid |-> None, winver |-> <<0, 0, 0>>, eprocess |-> 0]
Default == <<0, 0, 0>>

VARIABLES
    scenario,
    builder,         \* [Builders -> record], see NewBuilder
    cache_file,      \* "none", "empty", "part", or what was downloaded
    parser,          \* the builder whose from_pdb_slice runs, or None
    maps,            \* its field maps so far
    failures, crashes

svars == <<scenario, builder, cache_file, parser, maps, failures, crashes>>
kvars == <<svars, pdb_vars>>

guest == scenario.guest
settings(b) == scenario.users[b]

NewBuilder(b) ==
    [pc |-> IF b \in DOMAIN scenario.users THEN "build" ELSE "absent",
     archs |-> <<>>,          \* architectures start_block::find has yet to try
     sb |-> NoBlock,          \* the StartBlock
     probe |-> 0,             \* va_base of find_with_va_hint
     info |-> NoImage,        \* what scan_block has found
     fallback |-> FALSE,      \* the block comes from scan's fallback
     buffer |-> None,         \* the symbol file, once loaded
     offsets |-> <<>>,        \* <<"pdb", guid, map>> or <<"list", entry>>
     sysproc_dtb |-> 0]

IsAt(b, pc) == builder[b].pc = pc
Go(b, pc)  == builder' = [builder EXCEPT ![b].pc = pc]
Fault      == failures < scenario.faults /\ failures' = failures + 1
OnlyBuilder == UNCHANGED <<scenario, cache_file, parser, maps, crashes, pdb_vars>>

----------------------------------------------------------------------------
(* start_block: page tables in low memory *)

first_page(found) ==
    IF found = {} THEN 0 ELSE CHOOSE i \in found : \A j \in found : i <= j

(* x64::find_lowstub: the processor start-up stub keeps the kernel's entry *)
(* and its page table.  Page 1 of the sequence, address 0, is skipped.     *)
find_lowstub ==
    LET stub(p) == p.start /\ p.entry # 0 /\ p.pml4 >= 0
        i == first_page({k \in 2..scenario.guest.stub_pages : stub(guest.low[k])})
    IN  IF i = 0 THEN NoBlock
        ELSE [arch |-> "x64", kernel_hint |-> guest.low[i].entry, dtb |-> guest.low[i].pml4]

(* x64::find_pt, x86pae::check_page and x86::check_page *)
find_pt(p)       == p.user_entry /\ p.self_ref /\ p.kernel_entries > 5
is_pdpt(p)       == p.pdpt_entries = 4 /\ p.rest_is_zero
is_x86_dir(p)    == p.first = 103 /\ p.self_map /\ p.kernel_entries > 16
find_table(arch) ==
    LET passes(p) == CASE arch = "x64"     -> find_pt(p)
                       [] arch = "x32_pae" -> is_pdpt(p)
                       [] arch = "x32"     -> is_x86_dir(p)
        i == first_page({k \in DOMAIN guest.low : passes(guest.low[k])})
    IN  IF i = 0 THEN NoBlock ELSE [arch |-> arch, kernel_hint |-> 0, dtb |-> i - 1]

----------------------------------------------------------------------------
(* ntos: the kernel image in an address space *)

space(arch, dtb) ==
    IF arch = guest.kernel.arch /\ dtb \in DOMAIN guest.spaces THEN guest.spaces[dtb]
    ELSE [mapped |-> {}, images |-> <<>>, user |-> <<0, 0>>]

IsHeader(s, page)   == page \in s.mapped \cap DOMAIN s.images
try_get_pe_name(s, page) ==
    IF IsHeader(s, page) /\ s.images[page].size > 0 THEN s.images[page].name ELSE None
try_get_pe_size(s, page) == IF IsHeader(s, page) THEN s.images[page].size ELSE 0

lowest(S) == IF S = {} THEN 0 ELSE CHOOSE i \in S : \A j \in S : i <= j

(* x64::find_with_va: the first header named ntoskrnl.exe from va_base on. *)
find_with_va(s, va_base) ==
    lowest({page \in va_base..(va_base + Chunk - 1) :
                IsHeader(s, page) /\ try_get_pe_name(s, page) = "ntoskrnl.exe"})

(* x64::find: the mapped ranges, gaps of up to a chunk joined, cut at      *)
(* chunk boundaries; only whole chunks are looked into.                    *)
Joined(s) == {page \in 1..(IF s.mapped = {} THEN 0 ELSE highest(s.mapped)) :
    \/ page \in s.mapped
    \/ \E l, h \in s.mapped : l < page /\ page < h /\ h - l - 1 <= Chunk
                                /\ ((l + 1)..(h - 1)) \cap s.mapped = {}}
whole_chunks(s) == {c \in Joined(s) : c % Chunk = 0 /\ c..(c + Chunk - 1) \subseteq Joined(s)}
find_with_page_map(s, unread) ==
    lowest({find_with_va(s, c) : c \in whole_chunks(s) \ unread} \ {0})

(* x86::find: windows in order, and of the images named ntoskrnl.exe the   *)
(* first with a size.                                                      *)
find_x86(s) == lowest({page \in s.mapped : try_get_pe_name(s, page) = "ntoskrnl.exe"})

(* ntos::find_winver.  The version in KUSER_SHARED_DATA, and failing that  *)
(* the constants in the code of RtlGetVersion, stored there by one move of *)
(* a quadword or by two of doublewords; of the latter, the one of the      *)
(* minor version is assigned to the major version again.                   *)
rtl_get_version(image) ==
    CASE image.rtl = "qword"  -> <<image.major, 0>>
      [] image.rtl = "dwords" -> <<image.minor, 0>>
      [] image.rtl = "other"  -> <<0, 0>>
find_winver(s, image) ==
    LET v == IF s.user[1] = 0 THEN rtl_get_version(image) ELSE s.user
    IN  IF image.build = 0 THEN Default ELSE <<v[1], v[2], image.build>>

----------------------------------------------------------------------------
(* KernelBuilder::build and KernelInfoScanner::scan *)

(* Hints of the user replace the search only when all three are given.     *)
Build(b) ==
    LET u == settings(b) IN
    /\ IsAt(b, "build")
    /\ IF u.arch # None /\ u.dtb # NoHint /\ u.kernel_hint # NoHint
       THEN builder' = [builder EXCEPT
                ![b].pc = "ntos", ![b].probe = u.kernel_hint - (u.kernel_hint % Align),
                ![b].sb = [arch |-> u.arch, kernel_hint |-> u.kernel_hint, dtb |-> u.dtb]]
       ELSE LET archs == IF u.arch = None THEN <<"x64", "x32_pae", "x32">> ELSE <<u.arch>>
            IN  builder' = [builder EXCEPT
                    ![b].pc = IF archs[1] = "x64" THEN "lowstub" ELSE "low16m", ![b].archs = archs]
    /\ UNCHANGED failures /\ OnlyBuilder

(* A StartBlock was found: a kernel hint of the user fills in a missing one. *)
FindsBlock(b, sb) ==
    LET hint == IF settings(b).kernel_hint # NoHint /\ sb.kernel_hint = 0 /\ ~builder[b].fallback
                THEN settings(b).kernel_hint ELSE sb.kernel_hint
    IN  builder' = [builder EXCEPT ![b].pc = "ntos", ![b].probe = hint - (hint % Align),
                                   ![b].sb = [sb EXCEPT !.kernel_hint = hint]]

(* start_block::find: the next architecture, if any. *)
NotHere(b) ==
    LET rest == IF builder[b].archs = <<>> THEN <<>> ELSE Tail(builder[b].archs)
    IN  builder' = [builder EXCEPT ![b].pc = IF rest = <<>> THEN "failed" ELSE "low16m",
                                   ![b].archs = rest]

ReadLowStub(b) ==
    /\ IsAt(b, "lowstub") /\ OnlyBuilder
    /\ \/ /\ UNCHANGED failures
          /\ IF find_lowstub.dtb # 0 THEN FindsBlock(b, find_lowstub)
             ELSE Go(b, "low16m")
       \/ Fault /\ NotHere(b)

ReadLow16M(b) ==
    /\ IsAt(b, "low16m") /\ OnlyBuilder
    /\ \/ /\ UNCHANGED failures
          /\ LET sb == find_table(builder[b].archs[1])
             IN  IF sb = NoBlock THEN NotHere(b) ELSE FindsBlock(b, sb)
       \/ Fault /\ NotHere(b)

(* mutant: no fallback *)
ScanFails_Once(b) == Go(b, "failed")

(* mutant: the fallback falls back again *)
ScanFails_Again(b) ==
    builder' = [builder EXCEPT
        ![b].pc = IF builder[b].sb.arch # "x64" THEN "failed" ELSE "low16m",
        ![b].archs = <<"x64">>]

(* scan: an error of scan_block leads to the fallback, once and for x64.   *)
ScanFails(b) ==
    builder' = [builder EXCEPT
        ![b].pc = IF builder[b].fallback \/ builder[b].sb.arch # "x64" THEN "failed" ELSE "low16m",
        ![b].fallback = TRUE, ![b].archs = <<"x64">>]

Located(b, page) ==
    builder' = [builder EXCEPT ![b].pc = "guid", ![b].info = [NoImage EXCEPT !.base = page]]
Space(b) == space(builder[b].sb.arch, builder[b].sb.dtb)

(* x64::find_with_va_hint, one probe after the other down from the hint.   *)
(* The size of what a probe finds is read once more.                       *)
ProbeHint(b) ==
    LET hint == builder[b].sb.kernel_hint
        va_base == builder[b].probe
        page == find_with_va(Space(b), va_base)
        lower == builder' = [builder EXCEPT ![b].probe = va_base - Chunk]
    IN  /\ IsAt(b, "ntos") /\ builder[b].sb.arch = "x64" /\ hint # 0
        /\ va_base + Reach > hint /\ OnlyBuilder
        /\ \/ UNCHANGED failures /\ IF page # 0 THEN Located(b, page) ELSE lower
           \/ Fault /\ lower
           \/ Fault /\ page # 0 /\ builder' = [builder EXCEPT ![b].probe = hint - Reach]

(* x64::find, without a hint or after it; any chunk may fail to be read.   *)
SearchPageMap(b) ==
    /\ IsAt(b, "ntos") /\ builder[b].sb.arch = "x64"
    /\ builder[b].sb.kernel_hint # 0 => builder[b].probe + Reach <= builder[b].sb.kernel_hint
    /\ OnlyBuilder
    /\ \/ /\ UNCHANGED failures
          /\ LET page == find_with_page_map(Space(b), {})
             IN  IF page # 0 THEN Located(b, page) ELSE ScanFails(b)
       \/ /\ Fault
          /\ \E c \in whole_chunks(Space(b)) :
                LET page == find_with_page_map(Space(b), {c})
                IN  IF page # 0 THEN Located(b, page) ELSE ScanFails(b)
       \/ Fault /\ ScanFails(b)

SearchX86(b) ==
    /\ IsAt(b, "ntos") /\ builder[b].sb.arch # "x64" /\ OnlyBuilder
    /\ \/ /\ UNCHANGED failures
          /\ LET page == find_x86(Space(b))
             IN  IF page # 0 THEN Located(b, page) ELSE ScanFails(b)
       \/ Fault /\ ScanFails(b)

Image(b) == Space(b).images[builder[b].info.base]

(* find_guid(..).ok() and find_winver(..).ok() *)
FindGuid(b) ==
    /\ IsAt(b, "guid") /\ OnlyBuilder
    /\ \/ /\ UNCHANGED failures
          /\ builder' = [builder EXCEPT ![b].pc = "winver", ![b].info.guid = Image(b).guid]
       \/ Fault /\ Go(b, "winver")
FindWinver(b) ==
    /\ IsAt(b, "winver") /\ OnlyBuilder
    /\ \/ /\ UNCHANGED failures
          /\ builder' = [builder EXCEPT ![b].pc = "sysproc",
                                        ![b].info.winver = find_winver(Space(b), Image(b))]
       \/ Fault /\ Go(b, "sysproc")

(* sysproc::find: the exported pointer; the scan of the section never      *)
(* finds anything.                                                         *)
FindSysproc(b) ==
    /\ IsAt(b, "sysproc") /\ OnlyBuilder
    /\ \/ /\ UNCHANGED failures
          /\ IF Image(b).eprocess # None
             THEN builder' = [builder EXCEPT ![b].pc = "offsets",
                                             ![b].info.eprocess = Image(b).eprocess]
             ELSE ScanFails(b)
       \/ Fault /\ ScanFails(b)

----------------------------------------------------------------------------
(* SymbolStore::load *)

Cacheless == UNCHANGED <<scenario, parser, maps, crashes, pdb_vars>>

(* build_offsets: with a store and a guid, is the file in the cache? *)
OpenStore(b) ==
    /\ IsAt(b, "offsets") /\ OnlyBuilder /\ UNCHANGED failures
    /\ IF ~settings(b).store \/ builder[b].info.guid = None THEN Go(b, "list")
       ELSE IF cache_file # "none" THEN Go(b, "read")
       ELSE Go(b, "download")

ReadCache(b) ==
    /\ IsAt(b, "read") /\ OnlyBuilder
    /\ \/ /\ UNCHANGED failures
          /\ builder' = [builder EXCEPT ![b].pc = "parse", ![b].buffer = cache_file]
       \/ Fault /\ Go(b, "list")

Fetched(b) == builder' = [builder EXCEPT ![b].pc = "create", ![b].buffer = scenario.server]

(* mutant: the file is created before the download *)
Download_Created(b) ==
    /\ IsAt(b, "download") /\ Cacheless /\ cache_file' = "empty"
    /\ \/ UNCHANGED failures /\ Fetched(b)
       \/ Fault /\ Go(b, "list")

(* download: the file, or file.ptr; download_file asserts that the length  *)
(* is the one that was announced.                                          *)
Download(b) ==
    /\ IsAt(b, "download") /\ OnlyBuilder
    /\ \/ /\ UNCHANGED failures
          /\ CASE scenario.server \in {"pdb", "ptr"} -> Fetched(b)
               [] scenario.server = "short"          -> Go(b, "panicked")
               [] OTHER                              -> Go(b, "list")
       \/ Fault /\ Go(b, "list")

(* create_dir_all and File::create, which truncates; then write_all. *)
CreateFile(b) ==
    /\ IsAt(b, "create") /\ Cacheless
    /\ \/ UNCHANGED failures /\ cache_file' = "empty" /\ Go(b, "write")
       \/ Fault /\ UNCHANGED cache_file /\ Go(b, "list")
WriteFile(b) ==
    /\ IsAt(b, "write") /\ Cacheless
    /\ \/ UNCHANGED failures /\ cache_file' = builder[b].buffer /\ Go(b, "parse")
       \/ Fault /\ cache_file' = "part" /\ Go(b, "list")

(* Win32Offsets::from_pdb_slice.  The parser asks PdbSourceBuffer::view for *)
(* slices of the file, and one that ends after the file does is a panic:    *)
(* nothing of an empty file is there, of a part of one what is asked for    *)
(* may be, and the text of file.ptr is too short or has the wrong magic.    *)
opens(buffer)  == buffer \in {"pdb", "part"}
panics(buffer) == buffer \in {"empty", "part", "ptr"}
FromPdb(b) ==
    /\ IsAt(b, "parse") /\ parser = None
    /\ UNCHANGED <<scenario, cache_file, maps, failures, crashes>>
    /\ \/ /\ opens(builder[b].buffer) /\ parser' = b
          /\ With(Structs[1].class) /\ UNCHANGED builder
       \/ /\ panics(builder[b].buffer)
          /\ Go(b, "panicked") /\ UNCHANGED <<parser, pdb_vars>>
       \/ /\ builder[b].buffer = "ptr"
          /\ Go(b, "list") /\ UNCHANGED <<parser, pdb_vars>>

Parses(b) == IsAt(b, "parse") /\ parser = b
ParsePdb(b) ==
    /\ Parses(b) /\ ParseStep
    /\ UNCHANGED <<scenario, builder, cache_file, parser, maps, failures, crashes>>

(* All but the last of the structures are read before their fields are     *)
(* looked up; the last one, _TEB32, may fail to be read.                   *)
found_fields(ms) == \A k \in DOMAIN ms : Structs[k].required \subseteq DOMAIN ms[k]
Reset ==
    parse' = "idle" /\ UNCHANGED <<types, class_name, cursor, needed_types, added, field_map>>
Finish  == parser' = None /\ maps' = <<>> /\ Reset
UsePdb(b, ms) ==
    Finish /\ builder' = [builder EXCEPT ![b].pc = "dtb", ![b].offsets = <<"pdb", ms>>]
NextStruct(b) ==
    /\ Parses(b) /\ parse = "ok"
    /\ UNCHANGED <<scenario, cache_file, failures, crashes>>
    /\ LET all == Append(maps, field_map) IN
        CASE Len(all) < Len(Structs) /\ (Len(all) = Len(Structs) - 1 => found_fields(all)) ->
                maps' = all /\ With(Structs[Len(all) + 1].class) /\ UNCHANGED <<builder, parser>>
          [] Len(all) = Len(Structs) /\ found_fields(all) ->
                UsePdb(b, all)
          [] OTHER -> Finish /\ Go(b, "list")
PdbFails(b) ==
    /\ Parses(b) /\ parse \in {"error", "panic"}
    /\ UNCHANGED <<scenario, cache_file, failures, crashes>>
    /\ IF parse = "panic" THEN Finish /\ Go(b, "panicked")
       ELSE IF Len(maps) = Len(Structs) - 1
       THEN UsePdb(b, maps)
       ELSE Finish /\ Go(b, "list")

----------------------------------------------------------------------------
(* Win32OffsetBuilder::build_with_offset_list, and Kernel::new *)

bits_arch(arch) == IF arch = "x64" THEN "X64" ELSE "X86"

(* mutant: newer builds are taken too *)
not_newer_Newer(v, arch) ==
    {i \in DOMAIN OffsetList :
        LET e == OffsetList[i] IN <<e.major, e.minor>> = <<v[1], v[2]>> /\ e.arch = arch}

(* The entry of the guid; else, of the same version and architecture, the  *)
(* newest build that is not newer, the last of equal ones.                 *)
not_newer(v, arch) ==
    {i \in DOMAIN OffsetList :
        LET e == OffsetList[i] IN
            <<e.major, e.minor>> = <<v[1], v[2]>> /\ v[3] >= e.build /\ e.arch = arch}
closest(S) == {i \in S : \A j \in S : \/ OffsetList[j].build < OffsetList[i].build
                                      \/ OffsetList[j].build = OffsetList[i].build /\ j <= i}
build_with_offset_list(info, arch) ==
    LET exact == {i \in DOMAIN OffsetList : info.guid # None /\ OffsetList[i].guid = info.guid}
    IN  IF exact # {} THEN {lowest(exact)}
        ELSE closest(not_newer(info.winver, bits_arch(arch)))

(* What find_winver misreads - x.0 or y.0 for version x.y - is no version  *)
(* of an entry for the kernel's architecture.                              *)
ASSUME ListAssumption ==
    \A i \in DOMAIN OffsetList :
        LET e == OffsetList[i]  version == <<e.major, e.minor>> IN
        /\ e.build \in Nat /\ version # <<0, 0>>
        /\ \A s \in Scenarios : LET k == s.guest.kernel IN
            e.arch = bits_arch(k.arch) /\ version # <<k.major, k.minor>> =>
                \A d \in DOMAIN s.guest.spaces : LET a == s.guest.spaces[d] IN
                    \A page \in DOMAIN a.images : LET v == find_winver(a, a.images[page]) IN
                        IsNtos(a.images[page]) => version # <<v[1], v[2]>>

UseList(b) ==
    LET found == build_with_offset_list(builder[b].info, builder[b].sb.arch) IN
    /\ IsAt(b, "list") /\ OnlyBuilder /\ UNCHANGED failures
    /\ IF found = {} THEN Go(b, "failed")
       ELSE \E i \in found :
                builder' = [builder EXCEPT ![b].pc = "dtb", ![b].offsets = <<"list", i>>]

(* The page tables that the system process really uses, or those found.    *)
Uses(b, dtb) == builder' = [builder EXCEPT ![b].pc = "ready", ![b].sysproc_dtb = dtb]
NewKernel(b) ==
    /\ IsAt(b, "dtb") /\ OnlyBuilder
    /\ \/ UNCHANGED failures /\ Uses(b, guest.kernel.dtb)
       \/ Fault /\ Uses(b, builder[b].sb.dtb)

----------------------------------------------------------------------------
Ended == {"ready", "failed", "panicked", "crashed", "absent"}

BuildStep(b) ==
    \/ Build(b) \/ ReadLowStub(b) \/ ReadLow16M(b) \/ ProbeHint(b) \/ SearchPageMap(b)
    \/ SearchX86(b) \/ FindGuid(b) \/ FindWinver(b) \/ FindSysproc(b) \/ OpenStore(b)
    \/ ReadCache(b) \/ Download(b) \/ CreateFile(b) \/ WriteFile(b) \/ FromPdb(b)
    \/ ParsePdb(b) \/ NextStruct(b) \/ PdbFails(b) \/ UseList(b) \/ NewKernel(b)

(* The program stops; a write in progress leaves part of the file. *)
Crash(b) ==
    /\ builder[b].pc \notin Ended \cup {"build"}
    /\ crashes < scenario.crashes /\ crashes' = crashes + 1
    /\ Go(b, "crashed")
    /\ \/ UNCHANGED cache_file
       \/ IsAt(b, "write") /\ cache_file' = "part"
    /\ IF parser = b THEN parser' = None /\ maps' = <<>> /\ Reset
       ELSE UNCHANGED <<parser, maps, pdb_vars>>
    /\ UNCHANGED <<scenario, failures>>

StartInit ==
    /\ scenario \in Scenarios
    /\ builder = [b \in Builders |-> NewBuilder(b)]
    /\ cache_file = "none" /\ parser = None /\ maps = <<>>
    /\ failures = 0 /\ crashes = 0
    /\ types = scenario.pdb /\ class_name = None /\ cursor = 0
    /\ needed_types = {} /\ added = <<>> /\ field_map = <<>> /\ parse = "idle"

StartNext == \E b \in Builders : BuildStep(b) \/ Crash(b)

StartSpec == StartInit /\ [][StartNext]_kvars

----------------------------------------------------------------------------
(* Properties *)

Ready(b) == IsAt(b, "ready")

(* The offsets a Kernel uses are complete and those of its own build, or,  *)
(* of the embedded list, of the newest build of its version that is not    *)
(* newer - also when its guid or its version could not be read.            *)
Fits(e) ==
    \/ e.guid = guest.kernel.guid
    \/ /\ <<e.major, e.minor>> = <<guest.kernel.major, guest.kernel.minor>>
       /\ e.arch = bits_arch(guest.kernel.arch) /\ e.build <= guest.kernel.build
       /\ \A i \in DOMAIN OffsetList :
            LET o == OffsetList[i] IN
                <<o.major, o.minor, o.arch>> = <<e.major, e.minor, e.arch>>
                    => o.build <= e.build \/ o.build > guest.kernel.build
OffsetsFit ==
    \A b \in Builders : Ready(b) =>
        LET offsets == builder[b].offsets IN
            IF offsets[1] = "list" THEN Fits(OffsetList[offsets[2]])
            ELSE /\ builder[b].info.guid = guest.kernel.guid
                 /\ \A k \in 1..(Len(Structs) - 1) :
                        Structs[k].required \subseteq DOMAIN offsets[2][k]

(* Without a failed read, a build fails only where there is nothing to     *)
(* find: not for a guest whose kernel lies in a whole mapped chunk, whose  *)
(* page table is the first page of low memory that looks like one, and     *)
(* whose build is in the embedded list, however the stub and the hints     *)
(* mislead the first scan.                                                 *)
FirstTable(k) ==
    /\ k.dtb + 1 \in DOMAIN guest.low /\ find_pt(guest.low[k.dtb + 1])
    /\ \A i \in 1..k.dtb : ~find_pt(guest.low[i])
InWholeChunk(k) ==
    \E c \in 1..k.base : /\ c % Chunk = 0 /\ k.base < c + Chunk
                         /\ c..(c + Chunk - 1) \subseteq guest.spaces[k.dtb].mapped
Findable(k) ==
    /\ k.arch = "x64" /\ FirstTable(k) /\ InWholeChunk(k)
    /\ guest.spaces[k.dtb].images[k.base].eprocess # None
    /\ k.guid # None /\ \E i \in DOMAIN OffsetList : OffsetList[i].guid = k.guid
NotFoundIsTrue ==
    \A b \in Builders :
        IsAt(b, "failed") /\ failures = 0 /\ settings(b).arch \in {None, "x64"}
            => ~Findable(guest.kernel)

(* A file of the cache without its content is one that is being written,   *)
(* or whose writer crashed or could not write: never what a download that  *)
(* failed has left for later runs.                                         *)
NoEmptyLeftovers ==
    cache_file = "empty" => \E b \in Builders : builder[b].pc \in {"write", "crashed"}

(* The builds that have begun end, in a Kernel or an error, unless their   *)
(* program crashes.                                                        *)
Building  == \E b \in Builders : builder[b].pc \notin Ended \cup {"build"}
BuildEnds == Building ~> ~Building
=============================================================================
