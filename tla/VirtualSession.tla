---------------------------- MODULE VirtualSession ----------------------------
(***************************************************************************)
(* DummyMemory::new_virt (mem/dummy.rs) and what its callers do: a memory  *)
(* with one process is built, its address space is opened as a VirtualDMA, *)
(* and the program reads, writes and maps it, in calls of its own or       *)
(* through a batcher, over the virtual memory or over the physical one.    *)
(***************************************************************************)
EXTENDS DummyMemory, VirtualMemory, Batcher

CONSTANTS
    Lists,           \* the item lists of the program, sequences of [addr, len]
    GapLengths,      \* gap lengths asked of virt_page_map
    MaxCalls,        \* bound on the calls and batchers
    MaxCommits       \* bound on the commits of a batcher, Drop aside

(* The frames of the memory are those of the buffer; an item lies in the   *)
(* virtual space and, for a physical batcher, in the memory.               *)
ASSUME MemoryAssumption == Sizes \subseteq {NFrames}
ASSUME ListsAssumption ==
    \A l \in Lists :
        /\ l \in Seq([addr : Nat, len : Nat \ {0}]) /\ l # <<>>
        /\ \A i \in DOMAIN l : Bytes(l[i]) \subseteq Address \cap PAddress
ASSUME GapsAssumption == GapLengths \subseteq Nat

VARIABLES
    opened,          \* new_virt has returned
    over,            \* the memory of the batcher: "virt" or "phys"
    items,           \* history: what was queued, by number
    asked,           \* the batcher's list is with the memory
    calls, commits

session == <<opened, over, items, asked, calls, commits>>
allvars == <<dummy, vars, bvars, session>>

(* The bytes of a frame.  A table's are never 0 and never a page's.        *)
Byte(f, o) == CASE buf[f].kind = "zero"  -> 0
                [] buf[f].kind = "table" -> 9
                [] buf[f].kind = "data"  -> 10 * (buf[f].k + 1) + o

SessionInit ==
    /\ DummyInit /\ BatcherInit
    /\ table = [p \in Page |-> None] /\ mem = [x \in PAddress |-> 0] /\ Init
    /\ opened = FALSE /\ over = "virt" /\ items = <<>> /\ asked = FALSE
    /\ calls = 0 /\ commits = 0

Build == ~opened /\ DummyNext /\ UNCHANGED <<vars, bvars, session>>

(* new_virt: the memory moves into the VirtualDMA.  Nothing is allocated   *)
(* from then on.                                                           *)
NewVirt ==
    /\ ~opened /\ phase = "ready" /\ processes # <<>>
    /\ opened' = TRUE
    /\ table' = [v \in Page |-> LET f == vtop(processes[1].dtb, v) IN
                                IF f = NoFrame THEN None ELSE f]
    /\ mem' = [x \in PAddress |-> Byte(page(x), offset(x))]
    /\ page_list' = <<>> /\ pt_pages' = <<>>
    /\ UNCHANGED <<size, phase, page_prelist, round, split, buf, job, cur_len,
                   new_page, cur_table, level, processes, handed, cloned,
                   pc, call, todo, translation, partial_read, buffer, answer,
                   seen, before, remaps, faults, bvars, over, items, asked, calls, commits>>

Free == opened /\ pc \in {"idle", "done"} /\ calls < MaxCalls

WholeSpace == [addr |-> 0, len |-> NPages * PageSize]

(* A call of the program on the VirtualDMA. *)
Call ==
    /\ Free /\ stage = "none"
    /\ \/ \E l \in Lists, op \in {"read_list", "write_list", "read_raw", "read_cstr"} :
             Begin(op, l, 0)
       \/ \E a \in Address : Begin("page_info", <<[addr |-> a, len |-> 1]>>, 0)
       \/ Begin("translation_map", <<WholeSpace>>, 0)
       \/ \E g \in GapLengths : Begin("page_map", <<WholeSpace>>, g)
    /\ calls' = calls + 1
    /\ UNCHANGED <<dummy, bvars, opened, over, items, asked, commits>>

(* virt_batcher, phys_batcher *)
NewBatcher ==
    /\ Free /\ New
    /\ over' \in {"virt", "phys"} /\ items' = <<>> /\ asked' = FALSE
    /\ calls' = calls + 1 /\ commits' = 0
    /\ UNCHANGED <<dummy, vars, opened>>

Queue ==
    /\ Len(items) < MaxQueued
    /\ \E l \in Lists :
        /\ items' = Append(items, l[1])
        /\ QueueRead(Len(items) + 1) \/ QueueWrite(Len(items) + 1)
    /\ UNCHANGED <<dummy, vars, opened, over, asked, calls, commits>>

CommitOrDrop ==
    /\ \/ Commit /\ commits < MaxCommits /\ commits' = commits + 1
       \/ Drop /\ UNCHANGED commits
    /\ UNCHANGED <<dummy, vars, opened, over, items, asked, calls>>

(* The entries of a list, in the order in which they were queued. *)
InOrder(list) == CHOOSE s \in [1..Cardinality(list) -> list] :
                     \A m, n \in DOMAIN s : m < n => s[m] < s[n]
Entries(list) == [n \in 1..Cardinality(list) |-> items[InOrder(list)[n]]]

(* A list of physical items: nothing to translate. *)
BeginPhysical(op, data) ==
    /\ pc' = "translating" /\ call' = [op |-> op, data |-> data, gap |-> 0]
    /\ todo' = {} /\ partial_read' = FALSE
    /\ translation' = [i \in DOMAIN data |->
                          [item |-> i, addr |-> data[i].addr, len |-> data[i].len,
                           paddr |-> data[i].addr]]
    /\ buffer' = IF op = "read_list"
                 THEN [i \in DOMAIN data |-> [k \in 1..data[i].len |-> Untouched]]
                 ELSE <<>>
    /\ seen' = { <<p, p>> : p \in Page } /\ before' = mem
    /\ UNCHANGED <<guest, mem, answer, faults>>

(* commit_rw hands a list to the memory ... *)
Ask ==
    /\ stage \in {"reading", "writing"} /\ ~asked
    /\ asked' = TRUE
    /\ LET op   == IF stage = "reading" THEN "read_list" ELSE "write_list"
           data == Entries(IF stage = "reading" THEN read_list ELSE write_list)
       IN  IF over = "virt" THEN Begin(op, data, 0) ELSE BeginPhysical(op, data)
    /\ UNCHANGED <<dummy, bvars, opened, over, items, calls, commits>>

(* ... and goes on with its result, for which a partial one is an error.   *)
Tell ==
    /\ asked /\ pc = "done" /\ asked' = FALSE
    /\ IF answer.kind = "ok" THEN ReadsServed \/ WritesServed
       ELSE ReadsFailed \/ WritesFailed
    /\ UNCHANGED <<dummy, vars, opened, over, items, calls, commits>>

Memory == opened /\ Step /\ UNCHANGED <<dummy, bvars, session>>

SessionNext ==
    \/ Build \/ NewVirt
    \/ Call \/ NewBatcher \/ Queue \/ CommitOrDrop \/ Ask \/ Tell
    \/ Memory

SessionSpec == SessionInit /\ [][SessionNext]_allvars
----------------------------------------------------------------------------
SessionTypeOK ==
    /\ TypeOK /\ BatcherTypeOK
    /\ opened \in BOOLEAN /\ asked \in BOOLEAN /\ over \in {"virt", "phys"}
    /\ read_list \cup write_list \subseteq DOMAIN items

=============================================================================
