----------------------------- MODULE Connectors -----------------------------
(***************************************************************************)
(* The connectors of the repository: mapped buffers (connector/mmap.rs),   *)
(* mapped files (connector/filemap.rs), file i/o (connector/fileio.rs) and *)
(* the memory of a qemu process (memflow-qemu-procfs), with the arguments  *)
(* that choose one (connector/args.rs).                                    *)
(*                                                                         *)
(* Each of them takes every list through a MemoryMap, whose iterator is    *)
(* the module MemoryMap; here its result is taken for the sorted mappings  *)
(* that connectors have.  The host is the buffer, the file or the process  *)
(* behind; its bytes are numbers.  Files and process calls may fail and    *)
(* may transfer less than they were asked for.                             *)
(***************************************************************************)
EXTENDS Integers, Sequences, FiniteSets, SequencesExt

CONSTANTS
    Maps,            \* maps given to the file connectors: Seqs of [base, len, real]
    FileLens,        \* lengths of the files
    Processes,       \* process lists of the host, see QemuProcess below
    Arguments,       \* argument lists of the program: Seqs of split arguments
    Lists,           \* item lists of the program: Seqs of [addr, len]
    IovMax,          \* _SC_IOV_MAX
    MaxFaults,       \* bound on failures and short transfers
    kb640, kb768, kb812, kb824, kb928, kb960, mb1, gb1, gb2, mb2816, gb3, gb4,
    Untouched, NoArg

(* size::kb, size::mb and size::gb to scale: only their order and sums count *)
ASSUME SizesAssumption ==
    /\ {kb640, kb768, kb812, kb824, kb928, kb960, mb1, gb1, mb2816} \subseteq Nat
    /\ 0 < kb640 /\ kb640 < kb768 /\ kb768 < kb812 /\ kb812 < kb824
    /\ kb824 < kb928 /\ kb928 < kb960 /\ kb960 < mb1 /\ mb1 < gb1
    /\ gb2 = 2 * gb1 /\ gb3 = 3 * gb1 /\ gb4 = 4 * gb1
    /\ gb2 < mb2816 /\ mb2816 < gb3
ASSUME IovAssumption == IovMax \in Nat \ {0} /\ MaxFaults \in Nat

(* The mappings of a connector are sorted and have no byte in common.      *)
ASSUME MapsAssumption ==
    \A map \in Maps :
        /\ map \in Seq([base : Nat, len : Nat \ {0}, real : Nat])
        /\ \A i, j \in DOMAIN map : i < j => map[i].base + map[i].len <= map[j].base
ASSUME ListsAssumption == FileLens \subseteq Nat /\ Lists \subseteq Seq([addr : Nat, len : Nat])

(* Options are split in two or taken whole; the largest mapping of a qemu  *)
(* process holds at least the first megabyte.                              *)
IsOptions(opts) ==
    opts \in Seq(Seq(STRING)) /\ \A i \in DOMAIN opts : Len(opts[i]) \in {1, 2}

ASSUME ArgumentsAssumption == NoArg \notin STRING /\ \A args \in Arguments : IsOptions(args)
ASSUME ProcessesAssumption ==
    \A procs \in Processes :
        /\ procs \in Seq([qemu : BOOLEAN, name : Seq(Seq(STRING)),
                          machine : Seq(Seq(STRING)), size : Nat])
        /\ \A i \in DOMAIN procs : /\ IsOptions(procs[i].name) /\ IsOptions(procs[i].machine)
                                   /\ procs[i].qemu => procs[i].size >= mb1

VARIABLES
    connector,       \* [kind, map, asked, process]: what is open, kind "none" at first
    host,            \* the bytes behind the connector
    pc,              \* "idle", "running" or "done"
    call,            \* [op, data]
    pieces,          \* what the map iterator has still to yield
    iov,             \* the entries filled in temp_iov
    buffer,          \* the caller's buffers
    result,          \* "ok" or "error"
    before,          \* history: host when the call began
    short,           \* history: a transfer of the call was short
    faults

transfer == <<pc, call, pieces, iov, buffer, result, before, short>>
cvars    == <<connector, host, transfer, faults>>

----------------------------------------------------------------------------
(* ConnectorArgs::parse and qemu_arg_opt: an argument with one equals sign *)
(* is <<key, value>>; any other counts as a whole, <<argument>>.           *)

(* The last of equal keys wins; a whole argument counts in the first place *)
(* only, and not if it is empty; the rest is dropped.                      *)
args_get_First(args, key) ==       \* mutant: the first of equal keys wins
    LET i == SelectInSeq(args, LAMBDA kv : Len(kv) = 2 /\ kv[1] = key) IN
    IF i # 0 THEN args[i][2] ELSE NoArg

args_get(args, key) ==
    LET i == SelectLastInSeq(args, LAMBDA kv : Len(kv) = 2 /\ kv[1] = key)
        bare == args # <<>> /\ Len(args[1]) # 2 /\ args[1] # <<"">> /\ key = "default"
    IN  IF i # 0 THEN args[i][2] ELSE IF bare THEN args[1][1] ELSE NoArg

(* The value of the first option with this name, or all of the first one   *)
(* if it has no value.                                                     *)
qemu_arg_opt(opts, argopt) ==
    LET i == SelectInSeq(opts, LAMBDA kv : Len(kv) = 2 /\ kv[1] = argopt) IN
    IF opts # <<>> /\ Len(opts[1]) # 2 THEN opts[1][1]
    ELSE IF i # 0 THEN opts[i][2] ELSE NoArg

(* A process: [qemu, name, machine, size], the options of -name and of     *)
(* -machine and the size of its largest mapping.  What follows the mapping *)
(* in the process counts as unmapped.                                      *)
guest_name(p) == qemu_arg_opt(p.name, "guest")
machine(p)    == LET m == qemu_arg_opt(p.machine, "type") IN IF m = NoArg THEN "pc" ELSE m

(* create_connector: the process with the name that is asked for, or the   *)
(* first qemu process.  0 if there is none.                                *)
wanted(args) ==
    IF args_get(args, "name") # NoArg THEN args_get(args, "name") ELSE args_get(args, "default")

found_process(procs, name) ==
    SelectInSeq(procs, LAMBDA p : p.qemu /\ (name # NoArg => guest_name(p) = name))

----------------------------------------------------------------------------
(* The memory maps *)

push_range(base, end, real) ==
    IF end > base THEN <<[base |-> base, len |-> end - base, real |-> real]>> ELSE <<>>

mem_map_q35_Gap(n) ==        \* mutant: the upper part is not moved back to 2 GB
    push_range(0, kb640, 0) \o push_range(mb1, gb2, mb1) \o push_range(gb4, n + gb2, gb4)

mem_map_q35(n) ==
    push_range(0, kb640, 0) \o
    (IF n >= mb2816 THEN push_range(mb1, gb2, mb1) \o push_range(gb4, n + gb2, gb2)
     ELSE push_range(mb1, n, mb1))

mem_map_i440fx(n) ==
    push_range(0, kb768, 0) \o push_range(kb812, kb824, kb812) \o push_range(kb928, kb960, kb928)
    \o push_range(mb1, gb3, mb1) \o push_range(gb4, n + gb1, gb3)

with_process(p) == IF machine(p) = "q35" THEN mem_map_q35(p.size) ELSE mem_map_i440fx(p.size)

(* try_with_bufmap: every mapping is cut at the end of the file. *)
cut_to_buffer(m, n) ==
    [m EXCEPT !.len = IF m.real + m.len <= n THEN m.len ELSE n - m.real]

(* map_iter over sorted mappings: the part of every item in every mapping, *)
(* in order; bytes outside of all mappings go to a void.                   *)
Part(item, i, m) ==
    LET lo == IF item.addr > m.base THEN item.addr ELSE m.base
        hi == IF item.addr + item.len < m.base + m.len
              THEN item.addr + item.len ELSE m.base + m.len
    IN  IF lo < hi
        THEN <<[item |-> i, addr |-> lo, len |-> hi - lo, real |-> m.real + lo - m.base]>>
        ELSE <<>>

map_iter(map, data) ==
    FlattenSeq([i \in DOMAIN data |->
        FlattenSeq([j \in DOMAIN map |-> Part(data[i], i, map[j])])])

----------------------------------------------------------------------------
Nothing == [qemu |-> FALSE, name |-> <<>>, machine |-> <<>>, size |-> 0]

Closed == [kind |-> "none", map |-> <<>>, asked |-> <<>>, process |-> Nothing]

ConnectorsInit ==
    /\ connector = Closed /\ host = <<>> /\ pc = "idle" /\ faults = 0
    /\ call = [op |-> "none", data |-> <<>>] /\ pieces = <<>> /\ iov = <<>>
    /\ buffer = <<>> /\ result = "ok" /\ before = <<>> /\ short = FALSE

(* A host of n bytes, byte x holding x. *)
Bytes(n) == [x \in 0..(n - 1) |-> x]

Opened(kind, map, n, args, process) ==
    /\ connector' = [kind |-> kind, map |-> map, asked |-> args, process |-> process]
    /\ host' = Bytes(n)
    /\ UNCHANGED <<transfer, faults>>

(* MappedPhysicalMemory::from_addrmap(_mut): valid mappings of own memory. *)
OpenMapped ==
    /\ connector = Closed
    /\ \E m \in Maps, n \in FileLens, kind \in {"mmap", "mmap_mut"} :
        /\ \A i \in DOMAIN m : m[i].real + m[i].len <= n
        /\ Opened(kind, m, n, <<>>, Nothing)

(* try_with_filemap(_mut): a mapping that begins behind the file is an     *)
(* error, which leaves nothing open.                                       *)
OpenFileMap ==
    /\ connector = Closed
    /\ \E m \in Maps, n \in FileLens, kind \in {"mmap", "mmap_mut"} :
        /\ \A i \in DOMAIN m : m[i].real < n
        /\ Opened(kind, [i \in DOMAIN m |-> cut_to_buffer(m[i], n)], n, <<>>, Nothing)

(* FileIOMemory::try_with_reader *)
OpenFileIO ==
    /\ connector = Closed
    /\ \E m \in Maps, n \in FileLens : Opened("fileio", m, n, <<>>, Nothing)

(* create_connector of qemu_procfs *)
OpenQemu ==
    /\ connector = Closed
    /\ \E procs \in Processes, args \in Arguments :
        LET i == found_process(procs, wanted(args)) IN
        /\ i # 0
        /\ Opened("qemu", with_process(procs[i]), procs[i].size, args, procs[i])

Begin ==
    /\ connector # Closed /\ pc # "running"
    /\ \E data \in Lists, op \in {"read", "write"} :
        /\ call' = [op |-> op, data |-> data]
        /\ pieces' = map_iter(connector.map, data)
        /\ buffer' = IF op = "read"
                     THEN [i \in DOMAIN data |-> [k \in 1..data[i].len |-> Untouched]]
                     ELSE <<>>
    /\ pc' = "running" /\ iov' = <<>> /\ before' = host /\ short' = FALSE
    /\ UNCHANGED <<connector, host, result, faults>>

(* The pieces are copied one after the other: what a byte holds in the end *)
(* comes from the last piece that has it.                                  *)
Read(ps) ==
    [i \in DOMAIN buffer |-> [k \in DOMAIN buffer[i] |->
        LET a == call.data[i].addr + k - 1
            j == SelectLastInSeq(ps, LAMBDA p : p.item = i /\ a \in p.addr..(p.addr + p.len - 1))
        IN  IF j # 0 THEN host[ps[j].real + a - ps[j].addr] ELSE buffer[i][k]]]

Write(ps) ==
    [x \in DOMAIN host |->
        LET j == SelectLastInSeq(ps, LAMBDA p : x \in p.real..(p.real + p.len - 1))
        IN  IF j # 0 THEN -ps[j].item ELSE host[x]]

Copy(ps) ==
    /\ buffer' = IF call.op = "read" THEN Read(ps) ELSE buffer
    /\ host' = IF call.op = "write" THEN Write(ps) ELSE host

Return(r) == pc' = "done" /\ result' = r

InHost(p) == p.real + p.len <= Cardinality(DOMAIN host)

Running(kinds) == pc = "running" /\ connector.kind \in kinds

(* phys_read_raw_list, phys_write_raw_list of mmap.rs *)
MappedCopy ==
    /\ Running({"mmap", "mmap_mut"}) /\ ~(connector.kind = "mmap" /\ call.op = "write")
    /\ Copy(pieces) /\ pieces' = <<>> /\ Return("ok")
    /\ UNCHANGED <<connector, call, iov, before, short, faults>>

MappedReadOnly ==
    /\ Running({"mmap"}) /\ call.op = "write"
    /\ Return("error")
    /\ UNCHANGED <<connector, host, call, pieces, iov, buffer, before, short, faults>>

(* One turn of the loops of fileio.rs: seek, then read_exact or write. *)
FilePiece ==
    /\ Running({"fileio"}) /\ pieces # <<>> /\ InHost(Head(pieces))
    /\ Copy(<<Head(pieces)>>) /\ pieces' = Tail(pieces)
    /\ UNCHANGED <<connector, pc, call, iov, result, before, short, faults>>

(* seek, read_exact or write fail, as read_exact does at the file's end. *)
FileFails ==
    /\ Running({"fileio"}) /\ pieces # <<>>
    /\ IF call.op = "read" /\ ~InHost(Head(pieces)) THEN UNCHANGED faults
       ELSE faults < MaxFaults /\ faults' = faults + 1
    /\ Return("error")
    /\ UNCHANGED <<connector, host, call, pieces, iov, buffer, before, short>>

(* write takes a part of the buffer, and its count is not looked at; so it *)
(* does with one that leaves the file (a file is not made longer here).    *)
FileShortWrite ==
    /\ Running({"fileio"}) /\ call.op = "write" /\ pieces # <<>>
    /\ IF InHost(Head(pieces)) THEN faults < MaxFaults /\ faults' = faults + 1
       ELSE UNCHANGED faults
    /\ \E n \in 0..(Head(pieces).len - 1) :
        Copy(<<[Head(pieces) EXCEPT !.len = n]>>)
    /\ pieces' = Tail(pieces) /\ short' = TRUE
    /\ UNCHANGED <<connector, pc, call, iov, result, before>>

(* The loop of qemu_procfs: fill_iovec for the next piece ... *)
Full == Len(iov) = IovMax

Flushes_Full == iov # <<>> /\ Full       \* mutant: the rest at the end is forgotten

Flushes == iov # <<>> /\ (pieces = <<>> \/ Full)

FillIovec ==
    /\ Running({"qemu"}) /\ pieces # <<>> /\ ~Full
    /\ iov' = Append(iov, Head(pieces)) /\ pieces' = Tail(pieces)
    /\ UNCHANGED <<connector, host, pc, call, buffer, result, before, short, faults>>

(* ... and one call of process_vm_readv or writev when there is no further *)
(* piece or no further entry.                                              *)
Transfer ==
    /\ Running({"qemu"}) /\ Flushes /\ \A i \in DOMAIN iov : InHost(iov[i])
    /\ Copy(iov) /\ iov' = <<>>
    /\ UNCHANGED <<connector, pc, call, pieces, result, before, short, faults>>

(* The count is compared with -1 only. *)
TransferShort ==
    /\ Running({"qemu"}) /\ Flushes
    /\ \E n \in 1..(Len(iov) - 1) :
        /\ \A i \in 1..n : InHost(iov[i])
        /\ IF InHost(iov[n + 1]) THEN faults < MaxFaults /\ faults' = faults + 1
           ELSE UNCHANGED faults
        /\ Copy(SubSeq(iov, 1, n))
    /\ iov' = <<>> /\ short' = TRUE
    /\ UNCHANGED <<connector, pc, call, pieces, result, before>>

TransferFails ==
    /\ Running({"qemu"}) /\ Flushes
    /\ IF InHost(iov[1]) THEN faults < MaxFaults /\ faults' = faults + 1 ELSE UNCHANGED faults
    /\ Return("error")
    /\ UNCHANGED <<connector, host, call, pieces, iov, buffer, before, short>>

LoopEnds ==
    /\ Running({"fileio", "qemu"}) /\ pieces = <<>> /\ ~Flushes
    /\ Return("ok")
    /\ UNCHANGED <<connector, host, call, pieces, iov, buffer, before, short, faults>>

ConnectorsNext ==
    \/ OpenMapped \/ OpenFileMap \/ OpenFileIO \/ OpenQemu
    \/ Begin
    \/ MappedCopy \/ MappedReadOnly \/ FilePiece \/ FileFails \/ FileShortWrite
    \/ FillIovec \/ Transfer \/ TransferShort \/ TransferFails \/ LoopEnds

ConnectorsSpec == ConnectorsInit /\ [][ConnectorsNext]_cvars
----------------------------------------------------------------------------
(* Where the byte of a guest address is, and the size that is reported.    *)
At(a) ==
    {m.real + a - m.base : m \in {n \in ToSet(connector.map) : a \in n.base..(n.base + n.len - 1)}}
        \cap DOMAIN host

metadata(map) == Last(map).base + Last(map).len

ConnectorsTypeOK ==
    /\ connector.kind \in {"none", "mmap", "mmap_mut", "fileio", "qemu"}
    /\ pc \in {"idle", "running", "done"} /\ result \in {"ok", "error"}
    /\ call.op \in {"none", "read", "write"} /\ Len(iov) <= IovMax
    /\ short \in BOOLEAN /\ faults \in 0..MaxFaults
    /\ \A x \in DOMAIN host : host[x] \in Int

(* The addresses of item i, and the items that hold the address of byte x. *)
Addr(i, k) == call.data[i].addr + k - 1
Covering(x) ==
    {i \in DOMAIN call.data : \E k \in 1..call.data[i].len : x \in At(Addr(i, k))}

(* What a read of any connector returns is the bytes behind the guest      *)
(* addresses, whatever the list, its order and the number of calls it took *)
(* (the loops of the connectors, IovMax entries at a time): after Ok every *)
(* mapped byte is there unless the host cut a transfer short, which        *)
(* process_vm_readv's callers do not see; unmapped bytes are as they were. *)
ReadIsTrue ==
    pc = "done" /\ call.op = "read" =>
        \A i \in DOMAIN call.data : \A k \in 1..call.data[i].len :
            LET true == {host[x] : x \in At(Addr(i, k))} IN
            IF result = "ok" /\ ~short /\ true # {} THEN buffer[i][k] \in true
            ELSE buffer[i][k] \in true \cup {Untouched}

(* A write changes the bytes behind its addresses and no others, the last  *)
(* item of the list prevails, and an Ok without a short transfer has       *)
(* written all of them.                                                    *)
WriteIsTrue ==
    pc = "done" /\ call.op = "write" =>
        \A x \in DOMAIN host :
            /\ host[x] \in {-i : i \in Covering(x)} \cup {before[x]}
            /\ (result = "ok" /\ ~short /\ Covering(x) # {}) =>
                    \A i \in Covering(x) : host[x] <= -i

(* A mapping of a file never leaves the file (try_with_bufmap), nor does   *)
(* one of a q35 machine, or of another with 3 GB, leave the memory of the  *)
(* process; and the size that metadata reports is behind every mapping.    *)
MapInside ==
    LET whole == \/ connector.kind \in {"mmap", "mmap_mut"}
                 \/ /\ connector.kind = "qemu"
                    /\ machine(connector.process) = "q35" \/ connector.process.size >= gb3
    IN  \A m \in ToSet(connector.map) :
            /\ whole => m.real + m.len <= Cardinality(DOMAIN host)
            /\ m.base + m.len <= metadata(connector.map)

(* The memory of a qemu guest above 1 MB: every byte of the process's      *)
(* mapping belongs to one guest address, and no byte to two                *)
(* (mem_map.push_range of with_process; the split at 2 or 3 GB).           *)
QemuBijective ==
    connector.kind = "qemu" /\ pc = "idle" =>
        \A x \in mb1..(connector.process.size - 1) :
            Cardinality({a \in 0..(connector.process.size + gb4) : x \in At(a)}) = 1

(* Who asks for a guest by name gets that guest: the last name= wins, a    *)
(* bare first argument or default= stands in for it, and without either    *)
(* the first qemu process is taken (args.rs parse, create_connector).      *)
OpenedTheNamed ==
    connector.kind = "qemu" =>
        LET args  == connector.asked
            of(k) == {i \in DOMAIN args : args[i][1] = k /\ Len(args[i]) = 2}
            bare  == {i \in {1} \cap DOMAIN args : Len(args[i]) = 1 /\ args[i] # <<"">>}
            last(S) == CHOOSE i \in S : \A j \in S : j <= i
            names(S) == LET n == Last(args[last(S)]) IN
                        \/ <<"guest", n>> \in ToSet(connector.process.name)
                        \/ \E i \in {1} \cap DOMAIN connector.process.name :
                               connector.process.name[i] = <<n>>
        IN  /\ connector.process.qemu
            /\ IF of("name") # {} THEN names(of("name"))
               ELSE of("default") \cup bare # {} => names(of("default") \cup bare)
=============================================================================
