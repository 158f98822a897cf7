----------------------------- MODULE Win32Lists -----------------------------
(***************************************************************************)
(* The process and module lists of a running Windows guest, read from the  *)
(* outside (memflow-win32/src/win32: kernel.rs, process.rs,                *)
(* unicode_string.rs, keyboard.rs).                                        *)
(*                                                                         *)
(* The lists are the guest's circular LIST_ENTRY chains and the guest goes *)
(* on: processes start, exit, leave the list and have their memory reused, *)
(* modules come and go, and a page may be absent when it is read.  Every   *)
(* read of a link is a step of its own; the fields of one structure that   *)
(* are read through one address space are read together.                   *)
(***************************************************************************)
EXTENDS Integers, Sequences, FiniteSets, SequencesExt

CONSTANTS
    Procs,           \* addresses of _EPROCESS structures
    System,          \* PsInitialSystemProcess, kernel_info.eprocess_base
    Kernel,          \* stands for the kernel as the owner of modules
    Entries,         \* addresses of _LDR_DATA_TABLE_ENTRY structures
    PsHead,          \* PsActiveProcessHead, a list head outside of any process
    Null, Junk, Odd, \* a null link, a wild one, one that is not 8-aligned
    Process,         \* [Procs -> [name, pid, kernel, wow64, teb]]
    Module,          \* [Entries -> [list, name, length, readable]]
    Loads,           \* [list heads -> Seq(Entries)]: what is loaded at once
    short,           \* [names -> names]: the first 14 bytes of a name
    Requests,        \* calls of the program: [op, names, pid]
    Started,         \* the processes that run at first, in list order
    MaxIter,         \* MAX_ITER_COUNT
    MaxCalls,        \* bound on the calls
    MaxChanges,      \* bound on the steps of the guest
    MaxFaults        \* bound on failed reads

Natives(p) == <<p, "native">>
Wow64s(p)  == <<p, "wow64">>
ModHeads   == (Procs \cup {Kernel}) \X {"native", "wow64"}
Heads      == {PsHead} \cup ModHeads
Nodes      == Procs \cup Entries \cup Heads

(* Addresses of different kinds are different, and an entry is of one list. *)
ASSUME NodesAssumption ==
    /\ Kernel \notin Procs /\ PsHead \notin ModHeads
    /\ Procs \cap Entries = {} /\ Procs \cap Heads = {} /\ Entries \cap Heads = {}
    /\ Null # Junk /\ Null # Odd /\ Junk # Odd /\ {Null, Junk, Odd} \cap Nodes = {}
    /\ \A e \in Entries : Module[e].list \in ModHeads

ASSUME SystemAssumption ==
    /\ System \in Procs /\ Process[System].kernel
    /\ Started \in Seq(Procs) /\ IsInjective(Started) /\ Started # <<>> /\ Started[1] = System

(* What is loaded at once belongs to its list; a process with an address   *)
(* space of its own has its image there, and so has the kernel.            *)
ASSUME LoadsAssumption ==
    /\ \A h \in ModHeads :
          /\ Loads[h] \in Seq(Entries) /\ IsInjective(Loads[h])
          /\ \A i \in DOMAIN Loads[h] : Module[Loads[h][i]].list = h
    /\ \A p \in Procs : ~Process[p].kernel =>
          /\ Loads[Natives(p)] # <<>>
          /\ Process[p].wow64 /\ Process[p].teb => Loads[Wow64s(p)] # <<>>
    /\ Loads[Natives(Kernel)] # <<>>

(* No list is as long as MAX_ITER_COUNT, 65536. *)
ASSUME IterAssumption ==
    /\ MaxIter \in Nat \ {0} /\ IsFiniteSet(Procs) /\ Cardinality(Procs) <= MaxIter
    /\ IsFiniteSet(Entries)
    /\ \A h \in ModHeads : Cardinality({e \in Entries : Module[e].list = h}) < MaxIter

(* A name that was read from reused memory is none that is asked for.      *)
ASSUME RequestsAssumption ==
    /\ Junk \notin DOMAIN short
    /\ \A r \in Requests :
        /\ r.op \in {"list", "info", "pid", "modules", "keyboard", "keys"} /\ r.vk \in Nat
        /\ r.names \in Seq(DOMAIN short)
        /\ r.op = "info" => Len(r.names) = 1
        /\ r.names # <<>> <=> r.op \in {"info", "keyboard"}

VARIABLES
    flink,           \* Flink of every node
    state,           \* of every process: "free", "alive", "zombie", "unlinked"
    loaded,          \* the entries in their lists
    changes, faults,
    calls,
    pc, call, names, \* the call, and the names that are still to be tried
    entry, flink_entry, iter,   \* the walk
    eprocs,          \* eprocess_list
    infos, info,     \* process_info_list, and the one in the making
    candidates,
    module_infos,    \* module lists still to walk: [base, list]
    list,            \* module_entry_list, what is still to be looked into
    modules,         \* module_list
    result,          \* [status, value]
    process,         \* the Win32ProcessInfo that the program holds
    keyboard,        \* Keyboard: [user_process, kbase], or Null
    steady, ever, broken, aborted   \* history of a call: what was in its list all
                     \* the time, what ever was, whether memory was reused
                     \* and whether a module list could not be read

guest  == <<flink, state, loaded, changes>>
walk   == <<entry, flink_entry, iter>>
lists  == <<eprocs, infos, info, candidates, module_infos, list, modules>>
client == <<result, process, keyboard>>
past   == <<steady, ever, broken, aborted>>
wvars  == <<guest, faults, calls, pc, call, names, walk, lists, client, past>>

----------------------------------------------------------------------------
(* The guest *)

(* A circular list through head. *)
Chain(f, head, nodes) ==
    [n \in DOMAIN f |->
        IF n = head THEN (IF nodes = <<>> THEN head ELSE nodes[1])
        ELSE IF n \in ToSet(nodes)
             THEN LET i == CHOOSE j \in DOMAIN nodes : nodes[j] = n
                  IN  IF i = Len(nodes) THEN head ELSE nodes[i + 1]
             ELSE f[n]]

(* InsertTailList and RemoveEntryList; a removed entry keeps its Flink. *)
Before(f, n) == CHOOSE m \in DOMAIN f \ {n} : f[m] = n /\ m \in Heads \cup loaded \cup
                    {p \in Procs : state[p] \in {"alive", "zombie"}}
InsertTail(f, head, n) ==
    LET last == IF f[head] = head THEN head ELSE Before(f, head)
    IN  [f EXCEPT ![n] = head, ![last] = n]
Unlink(f, n) == [f EXCEPT ![Before(f, n)] = f[n]]

(* A new address space with its first modules. *)
NewSpace(f, p) ==
    Chain(Chain(f, Natives(p), Loads[Natives(p)]), Wow64s(p), Loads[Wow64s(p)])
FirstModules(p) == ToSet(Loads[Natives(p)]) \cup ToSet(Loads[Wow64s(p)])

Linked == {p \in Procs : state[p] \in {"alive", "zombie"}}

GuestStep ==
    /\ changes < MaxChanges /\ changes' = changes + 1
    /\ UNCHANGED <<faults, calls, pc, call, names, walk, lists, client, aborted>>

Spawn(p) ==
    /\ GuestStep /\ state[p] = "free"
    /\ state' = [state EXCEPT ![p] = "alive"]
    /\ flink' = NewSpace(InsertTail(flink, PsHead, p), p)
    /\ loaded' = loaded \cup FirstModules(p)
    /\ ever' = ever \cup {p} \cup FirstModules(p) /\ UNCHANGED <<steady, broken>>

(* The address space goes; the structure stays in the list at first. *)
Exit(p) ==
    /\ GuestStep /\ state[p] = "alive" /\ ~Process[p].kernel
    /\ state' = [state EXCEPT ![p] = "zombie"]
    /\ loaded' = {e \in loaded : Module[e].list[1] # p}
    /\ steady' = {e \in steady : e \in Procs \/ e \in loaded'}
    /\ UNCHANGED <<flink, ever, broken>>

Delete(p) ==
    /\ GuestStep /\ state[p] = "zombie"
    /\ state' = [state EXCEPT ![p] = "unlinked"]
    /\ flink' = Unlink(flink, p)
    /\ steady' = steady \ {p} /\ UNCHANGED <<loaded, ever, broken>>

(* The memory of a deleted process is used for something else. *)
Free(p) ==
    /\ GuestStep /\ state[p] = "unlinked"
    /\ state' = [state EXCEPT ![p] = "free"]
    /\ \E x \in {Null, Junk} : flink' = [flink EXCEPT ![p] = x]
    /\ broken' = TRUE /\ UNCHANGED <<loaded, steady, ever>>

Running(p) == p # Kernel => state[p] = "alive"

Load(e) ==
    /\ GuestStep /\ e \notin loaded /\ Running(Module[e].list[1])
    /\ flink' = InsertTail(flink, Module[e].list, e)
    /\ loaded' = loaded \cup {e}
    /\ ever' = ever \cup {e} /\ broken' = (broken \/ e \in ever)
    /\ UNCHANGED <<state, steady>>

(* The first module of a list, the image itself, is never unloaded; the    *)
(* memory of another may be reused at once.                                *)
Unload(e) ==
    /\ GuestStep /\ e \in loaded /\ flink[Module[e].list] # e
    /\ loaded' = loaded \ {e} /\ steady' = steady \ {e}
    /\ \/ flink' = Unlink(flink, e) /\ UNCHANGED broken
       \/ /\ \E x \in {Null, Junk, Odd} : flink' = [Unlink(flink, e) EXCEPT ![e] = x]
          /\ broken' = TRUE
    /\ UNCHANGED <<state, ever>>

----------------------------------------------------------------------------
(* Reading *)

NoCall == [op |-> "none", names |-> <<>>, pid |-> 0, vk |-> 0]
NoInfo == [address |-> Null, name |-> Null, pid |-> 0, wow64 |-> FALSE, teb |-> FALSE,
           native |-> Null, wow |-> Null]

Ok(v) == [status |-> "ok", value |-> v]
Error == [status |-> "error", value |-> <<>>]

(* The list of a node, and what is in a list at first. *)
HeadOf(n)  == IF n \in Heads THEN n ELSE IF n \in Procs THEN PsHead ELSE Module[n].list
AtFirst(h) == IF h = PsHead THEN Started
              ELSE IF h[1] \in ToSet(Started) \cup {Kernel} THEN Loads[h] ELSE <<>>

Win32Init ==
    /\ LET empty == [n \in Nodes |-> IF n \in Heads THEN n ELSE Null]
       IN  flink = [n \in Nodes |-> Chain(empty, HeadOf(n), AtFirst(HeadOf(n)))[n]]
    /\ state = [p \in Procs |-> IF p \in ToSet(Started) THEN "alive" ELSE "free"]
    /\ loaded = UNION {FirstModules(p) : p \in ToSet(Started) \cup {Kernel}}
    /\ changes = 0 /\ faults = 0 /\ calls = 0 /\ pc = "idle" /\ call = NoCall /\ names = <<>>
    /\ entry = Null /\ flink_entry = Null /\ iter = 0
    /\ eprocs = <<>> /\ infos = <<>> /\ info = NoInfo /\ candidates = <<>>
    /\ module_infos = <<>> /\ list = <<>> /\ modules = <<>>
    /\ result = Error /\ process = NoInfo /\ keyboard = NoInfo
    /\ steady = {} /\ ever = {} /\ broken = FALSE /\ aborted = FALSE

(* eprocess_list_extend starts at the system process. *)
StartWalk ==
    /\ pc' = "flink" /\ entry' = System /\ flink_entry' = Null /\ iter' = 0
    /\ eprocs' = <<>> /\ infos' = <<>> /\ info' = NoInfo /\ candidates' = <<>>
    /\ module_infos' = <<>> /\ list' = <<>> /\ modules' = <<>>

(* What a call holds is gone with its return. *)
Return(r) ==
    /\ pc' = "idle" /\ result' = r /\ entry' = Null /\ flink_entry' = Null /\ iter' = 0
    /\ eprocs' = <<>> /\ infos' = <<>> /\ info' = NoInfo /\ candidates' = <<>>
    /\ module_infos' = <<>> /\ list' = <<>> /\ UNCHANGED modules

(* The error of a call; Keyboard::try_with goes on with the next name. *)
Fail ==
    IF Len(names) > 1 THEN names' = Tail(names) /\ StartWalk /\ UNCHANGED result
    ELSE Return(Error) /\ UNCHANGED names

(* A read may fail at any time, and does so for a wild address or where    *)
(* the address space is gone.                                              *)
Readable(n) == /\ n \in Nodes
               /\ n \in Entries => Running(Module[n].list[1])
               /\ n \in Heads \ {PsHead} => Running(n[1])
Fault       == faults < MaxFaults /\ faults' = faults + 1
ReadFails(n) == IF Readable(n) THEN Fault ELSE UNCHANGED faults

Reader == UNCHANGED <<guest, calls, call, steady, ever, broken>>

(* kernel_process_info: the module list behind PsLoadedModuleList. *)
kernel_process_info ==
    [NoInfo EXCEPT !.address = Kernel, !.native = flink[Natives(Kernel)]]

(* module_list_extend: the native list, and the wow64 list if there is one. *)
ListsOf(i) ==
    <<[base |-> i.native, list |-> Natives(i.address)]>> \o
    (IF i.wow = Null THEN <<>> ELSE <<[base |-> i.wow, list |-> Wow64s(i.address)]>>)

StartModules(i) ==
    /\ pc' = "mod_flink" /\ modules' = <<>> /\ list' = <<>> /\ iter' = 0
    /\ module_infos' = ListsOf(i) /\ entry' = i.native
    /\ UNCHANGED <<flink_entry, eprocs, infos, info>>

Call(r) ==
    /\ pc = "idle" /\ calls < MaxCalls /\ calls' = calls + 1 /\ call' = r
    /\ names' = IF r.op = "keyboard" THEN <<>> ELSE r.names
    /\ steady' = Linked \cup loaded /\ ever' = steady' /\ broken' = FALSE
    /\ UNCHANGED <<guest, keyboard>>

CallWalk(r) ==
    /\ r.op \in {"list", "info"} \/ (r.op = "pid" /\ r.pid > 0)
    /\ Call(r) /\ StartWalk /\ aborted' = FALSE /\ UNCHANGED <<result, process, faults>>

(* process_info_pid of 0, and the first step of Keyboard::try_with *)
CallKernel(r) ==
    /\ r.op \in {"pid", "keyboard"} /\ r.pid = 0
    /\ Call(r) /\ aborted' = FALSE
    /\ \/ /\ r.op = "pid" /\ process' = kernel_process_info
          /\ Return(Ok(<<kernel_process_info>>)) /\ UNCHANGED faults
       \/ /\ r.op = "keyboard" /\ StartModules(kernel_process_info)
          /\ UNCHANGED <<result, process, faults, candidates>>
       \/ Fault /\ Return(Error) /\ UNCHANGED process

(* module_list, main_module_info or module_info of a held process *)
CallModules(r) ==
    /\ r.op = "modules" /\ process # NoInfo
    /\ Call(r) /\ StartModules(process) /\ aborted' = FALSE
    /\ UNCHANGED <<result, process, faults, candidates>>

----------------------------------------------------------------------------
(* eprocess_list_extend *)

WalkFlink ==
    /\ pc = "flink" /\ Reader
    /\ \/ /\ Readable(entry) /\ flink_entry' = flink[entry] /\ pc' = "blink"
          /\ UNCHANGED <<faults, names, entry, iter, lists, client, aborted>>
       \/ ReadFails(entry) /\ Fail /\ UNCHANGED <<process, keyboard, aborted>>

(* mutant: the start of the list is not recognised *)
Ends_Never == flink_entry \in {Null, entry} \/ flink[entry] = Null

Ends == flink_entry \in {Null, System, entry} \/ flink[entry] = Null

(* The links are tested before the process is added; a Blink is null in    *)
(* memory that was cleared.                                                *)
WalkBlink ==
    /\ pc = "blink" /\ Reader
    /\ \/ /\ IF Ends THEN pc' = "eprocess" /\ list' = eprocs /\ UNCHANGED <<walk, eprocs>>
             ELSE /\ eprocs' = Append(eprocs, entry)
                  /\ entry' = flink_entry /\ iter' = iter + 1 /\ flink_entry' = Null
                  /\ IF iter + 1 = MaxIter THEN pc' = "eprocess" /\ list' = eprocs'
                     ELSE pc' = "flink" /\ UNCHANGED list
          /\ UNCHANGED <<faults, names, infos, info, candidates, module_infos, modules,
                         client, aborted>>
       \/ ReadFails(entry) /\ Fail /\ UNCHANGED <<process, keyboard, aborted>>

(* process_info_from_eprocess in the kernel's address space.  Without a    *)
(* PEB (a zombie, a kernel process, cleared memory) there is no info, and  *)
(* process_info_list goes on without the process.                          *)
HasPeb(p) == p \in Procs /\ state[p] = "alive" /\ ~Process[p].kernel

EprocessFields ==
    /\ pc = "eprocess" /\ list # <<>> /\ Reader
    /\ LET p == Head(list) IN
       \/ /\ HasPeb(p)
          /\ info' = [NoInfo EXCEPT !.address = p, !.name = Process[p].name,
                         !.pid = Process[p].pid, !.wow64 = Process[p].wow64, !.teb = Process[p].teb]
          /\ pc' = "context" /\ UNCHANGED <<faults, list>>
       \/ /\ IF HasPeb(p) THEN Fault ELSE UNCHANGED faults
          /\ list' = Tail(list) /\ UNCHANGED <<pc, info>>
    /\ UNCHANGED <<names, walk, eprocs, infos, candidates, module_infos, modules, client, aborted>>

(* ... and in the address space of the process, whose DTB was read above.  *)
ProcessContext ==
    /\ pc = "context" /\ Reader
    /\ LET p == info.address IN
       \/ /\ Running(p)
          /\ infos' = Append(infos, [info EXCEPT
                !.native = flink[Natives(p)],
                !.wow = IF info.wow64 /\ info.teb THEN flink[Wow64s(p)] ELSE Null])
          /\ UNCHANGED faults
       \/ /\ ~Running(p) /\ infos' = Append(infos, [info EXCEPT !.native = Junk])
          /\ UNCHANGED faults
       \/ (IF Running(p) THEN Fault ELSE UNCHANGED faults) /\ UNCHANGED infos
    /\ list' = Tail(list) /\ pc' = "eprocess"
    /\ UNCHANGED <<names, walk, eprocs, info, candidates, module_infos, modules, client, aborted>>

(* process_info_list, process_info_pid and the candidates of process_info  *)
named_Full(n) == SelectSeq(infos, LAMBDA i : i.name = n)  \* mutant: the name is not cut

named(n) ==
    LET first[k \in 0..Len(infos)] ==   \* of the first k processes
            IF k = 0 THEN <<>>
            ELSE IF infos[k].name = short[n] THEN Append(first[k - 1], infos[k])
            ELSE first[k - 1]
    IN  first[Len(infos)]

InfosDone ==
    /\ pc = "eprocess" /\ list = <<>> /\ Reader
    /\ \/ call.op = "list" /\ Return(Ok(infos)) /\ UNCHANGED process
       \/ /\ call.op = "pid"
          /\ LET i == SelectInSeq(infos, LAMBDA x : x.pid = call.pid) IN
             IF i = 0 THEN Return(Error) /\ UNCHANGED process
             ELSE Return(Ok(<<infos[i]>>)) /\ process' = infos[i]
       \/ /\ call.op \in {"info", "keyboard"} /\ candidates' = named(Head(names))
          /\ pc' = "candidate"
          /\ UNCHANGED <<walk, eprocs, infos, info, module_infos, list, modules, result, process>>
    /\ UNCHANGED <<faults, names, keyboard, aborted>>

Candidate ==
    /\ pc = "candidate" /\ Reader
    /\ IF candidates = <<>> THEN Fail
       ELSE StartModules(Head(candidates)) /\ UNCHANGED <<names, candidates, result>>
    /\ UNCHANGED <<faults, process, keyboard, aborted>>

----------------------------------------------------------------------------
(* module_entry_list: a null link, a misaligned one or the base ends it.   *)
LastModule_Never(next) == next \in {Null, Odd}   \* mutant: the base is not recognised

LastModule(next) == next \in {Null, Odd, Head(module_infos).base}

ModFlink ==
    /\ pc = "mod_flink" /\ Reader
    /\ \/ /\ list' = Append(list, entry) /\ iter' = iter + 1
          /\ \E next \in IF Readable(entry) THEN {flink[entry]}
                         ELSE IF entry \in Nodes THEN {Junk, Odd} ELSE {} :
             IF LastModule(next) \/ iter + 1 = MaxIter
             THEN pc' = "mod_info" /\ UNCHANGED entry
             ELSE entry' = next /\ UNCHANGED pc
          /\ UNCHANGED <<faults, names, flink_entry, eprocs, infos, info, candidates,
                         module_infos, modules, client, aborted>>
       \/ ReadFails(entry) /\ Fail /\ aborted' = TRUE /\ UNCHANGED <<process, keyboard>>

(* virt_read_unicode_string reads two bytes more than the string has and   *)
(* refuses an empty one, and one of an odd length.                         *)
has_name(e) == /\ Module[e].length # 0 /\ Module[e].length % 2 = 0
               /\ Module[e].readable >= Module[e].length + 2

(* What module_info_from_entry makes of an entry: a link field that is not *)
(* an entry of a module (the list's head, reused memory) gives anything.   *)
InfoOf(e) ==
    IF e \in Entries /\ Readable(e) /\ flink[e] \in Nodes
    THEN IF has_name(e) THEN {<<[entry |-> e, name |-> Module[e].name]>>} ELSE {<<>>}
    ELSE {<<>>, <<[entry |-> e, name |-> Junk]>>}

(* A module without an info is left out.  *)
ModInfo ==
    /\ pc = "mod_info" /\ list # <<>> /\ Reader
    /\ \/ (\E m \in InfoOf(Head(list)) : modules' = modules \o m) /\ UNCHANGED faults
       \/ Fault /\ UNCHANGED modules
    /\ list' = Tail(list)
    /\ UNCHANGED <<pc, names, walk, eprocs, infos, info, candidates, module_infos, client, aborted>>

NextList ==
    /\ pc = "mod_info" /\ list = <<>> /\ Len(module_infos) > 1 /\ Reader
    /\ module_infos' = Tail(module_infos) /\ entry' = module_infos[2].base /\ iter' = 0
    /\ pc' = "mod_flink"
    /\ UNCHANGED <<faults, names, flink_entry, eprocs, infos, info, candidates, list, modules,
                   client, aborted>>

AllRead == pc = "mod_info" /\ list = <<>> /\ Len(module_infos) = 1 /\ Reader
Has(n)  == \E i \in DOMAIN modules : modules[i].name = n

ModulesDone ==
    /\ AllRead /\ call.op = "modules" /\ Return(Ok(modules))
    /\ UNCHANGED <<faults, names, process, keyboard, aborted>>

(* process_info takes the first candidate that has a module of its name.   *)
Try == Has(Head(names))

Tried ==
    /\ AllRead /\ call.op \in {"info", "keyboard"} /\ names # <<>>
    /\ IF ~Try
       THEN /\ candidates' = Tail(candidates) /\ pc' = "candidate"
            /\ UNCHANGED <<walk, eprocs, infos, info, module_infos, list, modules, result, process>>
       ELSE IF call.op = "info"
       THEN process' = Head(candidates) /\ Return(Ok(<<Head(candidates)>>))
       ELSE pc' = "kbase" /\ UNCHANGED <<walk, lists, result, process>>
    /\ UNCHANGED <<faults, names, keyboard, aborted>>

----------------------------------------------------------------------------
(* Keyboard::try_with: win32kbase.sys is a module of the kernel ...        *)
KernelModules ==
    /\ AllRead /\ call.op = "keyboard" /\ names = <<>>
    /\ IF Has("win32kbase") THEN names' = call.names /\ StartWalk /\ UNCHANGED result
       ELSE Return(Error) /\ UNCHANGED names
    /\ UNCHANGED <<faults, process, keyboard, aborted>>

(* ... and is read through the address space of the user process; export   *)
(* or signature of gafAsyncKeyState may be missing.                        *)
ReadKbase ==
    /\ pc = "kbase" /\ Reader
    /\ \/ /\ HasPeb(Head(candidates).address) /\ keyboard' = Head(candidates)
          /\ Return(Ok(<<>>)) /\ UNCHANGED faults
       \/ /\ IF HasPeb(Head(candidates).address) THEN Fault ELSE UNCHANGED faults
          /\ Return(Error) /\ UNCHANGED keyboard
    /\ UNCHANGED <<names, process, aborted>>

(* KeyboardState::is_down: two bits of 256 keys in 64 bytes. *)
get_ks_byte_Half(vk) == vk \div 8                      \* mutant: one bit per key

get_ks_byte(vk) == (vk * 2) \div 8
get_ks_down_bit(vk) == (vk % 4) * 2

(* The bits of gafAsyncKeyState, <<byte, bit>>, with these keys down. *)
Buffer(down) == {<<(vk * 2) \div 8, (vk * 2) % 8>> : vk \in down}

is_down(buffer, vk) ==
    IF vk < 0 \/ vk > 256 THEN "up"
    ELSE IF get_ks_byte(vk) >= 64 THEN "panic"
    ELSE IF <<get_ks_byte(vk), get_ks_down_bit(vk)>> \in buffer THEN "down" ELSE "up"

(* state_with_kernel, then is_down: through the process that was found by  *)
(* try_with, whose address space may be gone.                              *)
KeyState(r, down) ==
    /\ r.op = "keys" /\ keyboard # NoInfo
    /\ Call(r) /\ aborted' = FALSE
    /\ \/ /\ Running(keyboard.address)
          /\ Return(Ok(<<is_down(Buffer(down), r.vk), r.vk \in down>>)) /\ UNCHANGED faults
       \/ /\ IF Running(keyboard.address) THEN Fault ELSE UNCHANGED faults
          /\ Return(Error)
    /\ UNCHANGED process

----------------------------------------------------------------------------
GuestNext ==
    \/ \E p \in Procs : Spawn(p) \/ Exit(p) \/ Delete(p) \/ Free(p)
    \/ \E e \in Entries : Load(e) \/ Unload(e)

Win32Next ==
    \/ GuestNext
    \/ \E r \in Requests : \/ CallWalk(r) \/ CallKernel(r) \/ CallModules(r)
                            \/ \E down \in {{}, {0}, {r.vk}} : KeyState(r, down)
    \/ WalkFlink \/ WalkBlink \/ EprocessFields \/ ProcessContext \/ InfosDone \/ Candidate
    \/ ModFlink \/ ModInfo \/ NextList \/ ModulesDone \/ Tried
    \/ KernelModules \/ ReadKbase

Win32Spec == Win32Init /\ [][Win32Next]_wvars

----------------------------------------------------------------------------
OnceEach(seq, S) == \A n \in S : Cardinality({i \in DOMAIN seq : seq[i] = n}) = 1

(* However processes start, exit and leave the list while it is walked, a  *)
(* walk that ends without an error has found every process that was in the *)
(* list all the time, once, and nothing that never was a process, unless   *)
(* the memory of a process or module that had left was reused meanwhile.   *)
(* (The walk starts at a process and not at the list's head, and must stop *)
(* at it.)                                                                 *)
WalkFindsSurvivors ==
    pc = "eprocess" /\ infos = <<>> /\ ~broken =>
        /\ OnceEach(eprocs, steady \cap Procs)
        /\ ToSet(eprocs) \subseteq ever \cap Procs

(* The same of module_entry_list, whose walk includes the head.            *)
ModulesFindSurvivors ==
    LET l == Head(module_infos).list IN
    pc = "mod_info" /\ Readable(l) /\ ~broken /\ Head(module_infos).base # Junk
        /\ modules = <<>> /\ Len(list) = iter =>
            /\ OnceEach(list, {e \in steady \cap Entries : Module[e].list = l})
            /\ ToSet(list) \subseteq ever \cup {l}

(* process_info(name) returns a process in which a module of that very     *)
(* name was seen, though the process's own name is cut to 14 bytes and     *)
(* several candidates may have been looked at before; it fails only where  *)
(* no such process has been there all the time, if every read succeeded    *)
(* and no candidate's module list was unreadable.                          *)
SearchIsTrue ==
    pc = "idle" =>
        /\ call.op \in {"info", "keyboard"} /\ result.status = "ok" =>
              LET i == IF call.op = "info" THEN process ELSE keyboard IN
              /\ i.name = short[Head(names)]
              /\ \E k \in DOMAIN modules :
                    /\ modules[k].name = Head(names)
                    /\ Module[modules[k].entry].list[1] = i.address
        /\ call.op = "info" /\ result.status = "error" /\ faults = 0
           /\ ~aborted /\ ~broken =>
              ~\E e \in steady \cap Entries :
                LET p == Module[e].list[1] IN
                /\ p # Kernel /\ ~Process[p].kernel
                /\ Module[e].list[2] = "wow64" => (Process[p].wow64 /\ Process[p].teb)
                /\ Module[e].name = Head(names) /\ has_name(e)
                /\ Process[p].name = short[Head(names)]

(* A key that the guest holds down is down, every other one is up.         *)
KeysAreTrue ==
    pc = "idle" /\ call.op = "keys" /\ result.status = "ok" /\ call.vk < 256 =>
        result.value[1] = IF result.value[2] THEN "down" ELSE "up"

=============================================================================
