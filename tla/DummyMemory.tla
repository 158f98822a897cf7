----------------------------- MODULE DummyMemory -----------------------------
(***************************************************************************)
(* DummyMemory (mem/dummy.rs): the memory that memflow's tests and         *)
(* benchmarks run on.  It cuts its buffer into pages of random sizes in a  *)
(* random order, hands them out as 4k frames, and builds page tables and   *)
(* test processes in them.                                                 *)
(*                                                                         *)
(* The unit is a 4k frame.  The shuffles and the coin are free choices.    *)
(* map_to of the x86_64 crate is taken from its use: it asks for a frame   *)
(* for every table missing on the way and refuses a page already mapped.   *)
(***************************************************************************)
EXTENDS Integers, Sequences, FiniteSets, SequencesExt

CONSTANTS
    S2m, S1g,        \* frames in a large and in a huge page
    Sizes,           \* sizes of the memory
    Fan,             \* entries of a table
    Levels,          \* tables from the dtb to a page
    MapSizes,        \* pages of a process
    MaxProcesses,    \* bound on the processes
    NoFrame

VIndex  == 0..(Fan - 1)
VPage   == 0..(Fan ^ Levels - 1)

ASSUME LayoutAssumption ==
    /\ S2m \in Nat \ {0} /\ S1g \in Nat \ {0} /\ S1g % S2m = 0
    /\ Fan \in Nat /\ Fan > 1 /\ Levels \in Nat /\ Levels > 0
    /\ MapSizes \subseteq Nat /\ NoFrame \notin Nat

(* Facts of arithmetic that the provers do not know. *)
ASSUME PowersAssumption ==
    /\ Fan ^ 0 = 1
    /\ \A l \in 0..Levels : Fan ^ l \in Nat \ {0}
    /\ \A l \in 0..(Levels - 1) : Fan ^ (l + 1) = Fan * Fan ^ l

VARIABLES
    size,            \* frames of the buffer
    phase,           \* "shuffling", "ready", "dtb", "page", "mapping", "panicked"
    page_prelist, round, split,       \* the local variables of with_rng
    page_list, pt_pages,              \* the pages still to hand out
    buf,             \* the content of every frame
    job,             \* the process under construction: [dtb, base, size, test]
    cur_len, new_page,  \* what is mapped so far; the page to map next
    cur_table,       \* the table that map_to has reached
    level,
    processes,       \* what alloc_process returned, in order of last_pid
    handed,          \* history: frames handed out, in order
    cloned           \* history: self is a clone

dummy == <<size, phase, page_prelist, round, split, page_list, pt_pages, buf,
           job, cur_len, new_page, cur_table, level, processes, handed, cloned>>

----------------------------------------------------------------------------
(* X64PageSize and PageInfo *)

to_size(s) == <<1, S2m, S1g>>[s + 1]

split_to_size(p, s) ==
    [o \in 1..(to_size(p.size) \div to_size(s)) |->
        [addr |-> p.addr + to_size(s) * (o - 1), size |-> s]]

split_down(p) == split_to_size(p, p.size - 1)

(* The largest pages that fit, one after the other. *)
prelist(n) ==
    LET from[i \in 0..n] ==
            LET fits == { s \in 0..2 : to_size(s) <= n - i }
                s    == CHOOSE t \in fits : \A u \in fits : u <= t
            IN  IF i = n THEN {} ELSE {[addr |-> i, size |-> s]} \cup from[i + to_size(s)]
    IN  from[0]

(* split_to_size(P4k) and Vec::pop: frames leave a page from its end. *)
Pop(pages, list) ==
    IF pages # <<>> THEN [frame |-> Last(pages).addr, pages |-> Front(pages), list |-> list]
    ELSE LET p == split_to_size(Head(list), 0) IN
         [frame |-> Last(p).addr, pages |-> Front(p), list |-> Tail(list)]

Zero       == [kind |-> "zero"]
NewTable   == [kind |-> "table", entries |-> [i \in VIndex |-> NoFrame]]
Data(p, k) == [kind |-> "data", process |-> p, k |-> k]

index(v, l) == (v \div Fan ^ (Levels - 1 - l)) % Fan

(* The entry of a frame taken as a table; what is no table maps nothing.   *)
Entry(f, i) == IF buf[f].kind = "table" THEN buf[f].entries[i] ELSE NoFrame

vtop(dtb, v) ==
    LET at[l \in 0..Levels] ==
            IF l = 0 THEN dtb
            ELSE IF at[l - 1] = NoFrame THEN NoFrame
            ELSE Entry(at[l - 1], index(v, l - 1))
    IN  at[Levels]

----------------------------------------------------------------------------
NoJob == [dtb |-> NoFrame, base |-> 0, size |-> 0, test |-> 0]

DummyInit ==
    /\ size \in Sizes
    /\ phase = "shuffling" /\ round = 0 /\ split = [s \in 0..2 |-> IF s = 0 THEN 2 ELSE 0]
    /\ page_prelist = prelist(size) /\ page_list = <<>> /\ pt_pages = <<>>
    /\ buf = [f \in 0..(size - 1) |-> Zero]
    /\ job = NoJob /\ cur_len = 0 /\ new_page = NoFrame /\ cur_table = NoFrame /\ level = 0
    /\ processes = <<>> /\ handed = <<>> /\ cloned = FALSE

(* with_rng: the next page of the shuffled prelist is split down if its    *)
(* size was not split yet, or by the coin; the parts come in any order.    *)
Shuffle ==
    /\ phase = "shuffling"
    /\ \E p \in page_prelist :
        /\ page_prelist' = page_prelist \ {p}
        /\ \/ /\ split[p.size] # 2
              /\ split' = [split EXCEPT ![p.size] = 1]
              /\ \E list \in SetToSeqs(ToSet(split_down(p))) :
                    page_list' = page_list \o list
           \/ /\ split[p.size] # 0
              /\ split' = split
              /\ page_list' = Append(page_list, p)
    /\ UNCHANGED <<size, phase, round, pt_pages, buf, job, cur_len, new_page, cur_table,
                   level, processes, handed, cloned>>

NextRound ==
    /\ phase = "shuffling" /\ page_prelist = {}
    /\ IF round = 0
       THEN round' = 1 /\ page_prelist' = ToSet(page_list) /\ UNCHANGED phase
       ELSE phase' = "ready" /\ UNCHANGED <<round, page_prelist>>
    /\ UNCHANGED <<size, split, page_list, pt_pages, buf, job, cur_len, new_page,
                   cur_table, level, processes, handed, cloned>>

(* alloc_pt_page *)
Alloc(f) ==
    /\ pt_pages # <<>> \/ page_list # <<>>
    /\ LET r == Pop(pt_pages, page_list) IN
       /\ f = r.frame /\ pt_pages' = r.pages /\ page_list' = r.list
       /\ handed' = Append(handed, r.frame)

Frames == 0..(size - 1)

(* alloc_process, alloc_dtb, alloc_dtb_const_base: a process of n pages,   *)
(* the first t of them with bytes of the test buffer.                      *)
AllocDtb ==
    /\ phase = "ready" /\ Len(processes) < MaxProcesses
    /\ \E base \in VPage, n \in MapSizes, t \in MapSizes \cup {0}, f \in Frames :
        /\ base + n <= Fan ^ Levels /\ t <= n
        /\ Alloc(f)
        /\ buf' = [buf EXCEPT ![f] = NewTable]
        /\ job' = [dtb |-> f, base |-> base, size |-> n, test |-> t]
    /\ cur_len' = 0 /\ phase' = "page"
    /\ UNCHANGED <<size, page_prelist, round, split, new_page, cur_table, level,
                   processes, cloned>>

(* The next page of the process: its frame gets its part of the test       *)
(* buffer, or keeps what it holds.                                         *)
NextPage ==
    /\ phase = "page" /\ cur_len < job.size
    /\ \E f \in Frames :
        /\ Alloc(f) /\ new_page' = f
        /\ buf' = IF cur_len < job.test
                  THEN [buf EXCEPT ![f] = Data(Len(processes) + 1, cur_len)] ELSE buf
    /\ phase' = "mapping" /\ cur_table' = job.dtb /\ level' = 0
    /\ UNCHANGED <<size, page_prelist, round, split, job, cur_len, processes, cloned>>

Slot(l)       == index(job.base + cur_len, l)
NextTable(l)  == Entry(cur_table, Slot(l))
NeedsTable    == phase = "mapping" /\ level < Levels - 1 /\ NextTable(level) = NoFrame

Descend ==
    /\ phase = "mapping" /\ level < Levels - 1 /\ NextTable(level) # NoFrame
    /\ cur_table' = NextTable(level) /\ level' = level + 1
    /\ UNCHANGED <<size, phase, page_prelist, round, split, page_list, pt_pages,
                   buf, job, cur_len, new_page, processes, handed, cloned>>

(* buf with f in the current slot; what is no table becomes one by it.     *)
Linked(f) ==
    [buf EXCEPT ![cur_table] =
        [kind |-> "table",
         entries |-> [i \in VIndex |-> IF i = Slot(level) THEN f ELSE Entry(cur_table, i)]]]

CreateTable_Unlinked ==      \* mutant: the new table is not entered
    /\ NeedsTable
    /\ \E f \in Frames :
        /\ Alloc(f) /\ cur_table' = f
        /\ buf' = [buf EXCEPT ![f] = NewTable]
    /\ level' = level + 1
    /\ UNCHANGED <<size, phase, page_prelist, round, split, job, cur_len,
                   new_page, processes, cloned>>

(* map_to through allocate_frame: a new table, linked and cleared. *)
CreateTable ==
    /\ NeedsTable
    /\ \E f \in Frames :
        /\ Alloc(f) /\ cur_table' = f
        /\ buf' = [Linked(f) EXCEPT ![f] = NewTable]
    /\ level' = level + 1
    /\ UNCHANGED <<size, phase, page_prelist, round, split, job, cur_len,
                   new_page, processes, cloned>>

(* The entry of the page; one in use is left (map_to's error is dropped).  *)
MapPage ==
    /\ phase = "mapping" /\ level = Levels - 1
    /\ buf' = IF NextTable(level) = NoFrame THEN Linked(new_page) ELSE buf
    /\ cur_len' = cur_len + 1 /\ phase' = "page"
    /\ UNCHANGED <<size, page_prelist, round, split, page_list, pt_pages, job,
                   new_page, cur_table, level, processes, handed, cloned>>

EndProcess ==
    /\ phase = "page" /\ cur_len = job.size
    /\ processes' = Append(processes, job)
    /\ job' = NoJob /\ phase' = "ready"
    /\ UNCHANGED <<size, page_prelist, round, split, page_list, pt_pages, buf,
                   cur_len, new_page, cur_table, level, handed, cloned>>

(* unwrap on an empty page_list *)
Panic ==
    /\ \/ phase = "ready" /\ Len(processes) < MaxProcesses
       \/ phase = "page" /\ cur_len < job.size
       \/ NeedsTable
    /\ pt_pages = <<>> /\ page_list = <<>>
    /\ phase' = "panicked"
    /\ UNCHANGED <<size, page_prelist, round, split, page_list, pt_pages, buf,
                   job, cur_len, new_page, cur_table, level, processes, handed, cloned>>

(* Clone: the buffer is shared, the lists of free pages are not copied.    *)
UseClone ==
    /\ phase = "ready" /\ ~cloned
    /\ cloned' = TRUE /\ page_list' = <<>> /\ pt_pages' = <<>>
    /\ UNCHANGED <<size, phase, page_prelist, round, split, buf, job, cur_len,
                   new_page, cur_table, level, processes, handed>>

DummyNext ==
    \/ Shuffle \/ NextRound
    \/ AllocDtb \/ NextPage \/ Descend \/ CreateTable \/ MapPage \/ EndProcess
    \/ Panic \/ UseClone

DummySpec == DummyInit /\ [][DummyNext]_dummy

----------------------------------------------------------------------------
(* Properties *)

(* Every page of a process is reached through its own tables, and holds    *)
(* its own part of the test buffer, as long as not more frames were handed *)
(* out than there are (dummy.rs:374-457).                                  *)
ProcessesAreRight ==
    Len(handed) <= size =>
        \A i \in DOMAIN processes : LET p == processes[i] IN
            \A k \in 0..(p.size - 1) :
                LET f == vtop(p.dtb, p.base + k) IN
                /\ f # NoFrame
                /\ k < p.test => buf[f] = Data(i, k)

=============================================================================
