------------------------------- MODULE Batcher -------------------------------
(***************************************************************************)
(* PhysicalMemoryBatcher and VirtualMemoryBatcher                          *)
(* (mem/phys_mem_batcher.rs, mem/virt_mem_batcher.rs): reads and writes    *)
(* are queued and handed to the memory as two lists by commit_rw, and once *)
(* more when the batcher is dropped.  Both types have the same code.       *)
(*                                                                         *)
(* An entry is known by its number, the place in which it was queued; the  *)
(* two lists hold numbers, in increasing order.  The memory is any that    *)
(* answers a list with success or failure (for the virtual one, a partial  *)
(* result is a failure to the `?` of commit_rw).                           *)
(***************************************************************************)
EXTENDS Integers, FiniteSets

CONSTANT MaxQueued         \* bound on the entries queued in one life

ASSUME MaxQueuedAssumption == MaxQueued \in Nat

VARIABLES
    stage,         \* "none", "idle", "reading" or "writing"
    dropping,      \* the commit is the one of Drop
    outcome,       \* what the last commit_rw returned, "none" after a queue
    reads,         \* history: numbers queued as reads
    writes,        \* history: numbers queued as writes
    read_list,     \* Batcher.read_list
    write_list,    \* Batcher.write_list
    served,        \* history: numbers whose list the memory answered with Ok
    attempts,      \* history: number of times a write was handed over
    write_errors   \* history: how often the memory refused the write list

bvars == <<stage, dropping, outcome, reads, writes, read_list, write_list,
           served, attempts, write_errors>>

Id == 1..MaxQueued

BatcherTypeOK ==
    /\ stage \in {"none", "idle", "reading", "writing"}
    /\ dropping \in BOOLEAN
    /\ outcome \in {"none", "ok", "failed"}
    /\ reads \subseteq Id /\ writes \subseteq Id
    /\ read_list \subseteq Id /\ write_list \subseteq Id /\ served \subseteq Id
    /\ attempts \in [Id -> Nat] /\ write_errors \in Nat

BatcherInit ==
    /\ stage = "none" /\ dropping = FALSE /\ outcome = "none"
    /\ reads = {} /\ writes = {} /\ read_list = {} /\ write_list = {}
    /\ served = {} /\ attempts = [i \in Id |-> 0] /\ write_errors = 0

New ==
    /\ stage = "none"
    /\ stage' = "idle" /\ dropping' = FALSE /\ outcome' = "none"
    /\ reads' = {} /\ writes' = {} /\ read_list' = {} /\ write_list' = {}
    /\ served' = {} /\ attempts' = [i \in Id |-> 0] /\ write_errors' = 0

Fresh(i) == i \in Id /\ \A j \in reads \cup writes : j < i

(* read_raw_iter, and read_raw_into and read_into through it *)
QueueRead(i) ==
    /\ stage = "idle" /\ Fresh(i)
    /\ reads' = reads \cup {i} /\ read_list' = read_list \cup {i}
    /\ outcome' = "none"
    /\ UNCHANGED <<stage, dropping, writes, write_list, served, attempts,
                   write_errors>>

(* write_raw_iter, and write_raw_into and write_into through it *)
QueueWrite(i) ==
    /\ stage = "idle" /\ Fresh(i)
    /\ writes' = writes \cup {i} /\ write_list' = write_list \cup {i}
    /\ outcome' = "none"
    /\ UNCHANGED <<stage, dropping, reads, read_list, served, attempts,
                   write_errors>>

(* The write list is handed to the memory. *)
HandOver(list) ==
    attempts' = [i \in Id |-> IF i \in list THEN attempts[i] + 1 ELSE attempts[i]]

(* commit_rw returns r; after the commit of Drop (d) the batcher is gone.  *)
End(d, r) ==
    /\ stage' = IF d THEN "none" ELSE "idle"
    /\ outcome' = r

(* The second half of commit_rw: the writes, if there are any. *)
GoOn(d) ==
    IF write_list # {}
    THEN stage' = "writing" /\ HandOver(write_list) /\ UNCHANGED outcome
    ELSE End(d, "ok") /\ UNCHANGED attempts

(* commit_rw *)
Start(d) ==
    IF read_list # {}
    THEN stage' = "reading" /\ UNCHANGED <<outcome, attempts>>
    ELSE GoOn(d)

Commit ==
    /\ stage = "idle"
    /\ Start(FALSE)
    /\ UNCHANGED <<dropping, reads, writes, read_list, write_list, served,
                   write_errors>>

(* drop: commit_rw again, its result ignored *)
Drop ==
    /\ stage = "idle"
    /\ dropping' = TRUE
    /\ Start(TRUE)
    /\ UNCHANGED <<reads, writes, read_list, write_list, served, write_errors>>

ReadsServed_Keep ==        \* mutant: the read list is not cleared
    /\ stage = "reading"
    /\ served' = served \cup read_list
    /\ GoOn(dropping)
    /\ UNCHANGED <<dropping, reads, writes, read_list, write_list, write_errors>>

ReadsServed ==
    /\ stage = "reading"
    /\ served' = served \cup read_list
    /\ read_list' = {}
    /\ GoOn(dropping)
    /\ UNCHANGED <<dropping, reads, writes, write_list, write_errors>>

ReadsFailed_GoOn ==        \* mutant: the `?` is lost
    /\ stage = "reading"
    /\ GoOn(dropping)
    /\ UNCHANGED <<dropping, reads, writes, read_list, write_list, served,
                   write_errors>>

ReadsFailed ==
    /\ stage = "reading"
    /\ End(dropping, "failed")
    /\ UNCHANGED <<dropping, reads, writes, read_list, write_list, served,
                   attempts, write_errors>>

WritesServed_Keep ==       \* mutant: the write list is not cleared
    /\ stage = "writing"
    /\ served' = served \cup write_list
    /\ End(dropping, "ok")
    /\ UNCHANGED <<dropping, reads, writes, read_list, write_list, attempts,
                   write_errors>>

WritesServed ==
    /\ stage = "writing"
    /\ served' = served \cup write_list
    /\ write_list' = {}
    /\ End(dropping, "ok")
    /\ UNCHANGED <<dropping, reads, writes, read_list, attempts, write_errors>>

WritesFailed ==
    /\ stage = "writing"
    /\ write_errors' = write_errors + 1
    /\ End(dropping, "failed")
    /\ UNCHANGED <<dropping, reads, writes, read_list, write_list, served,
                   attempts>>

BatcherNext ==
    \/ New \/ Commit \/ Drop
    \/ \E i \in Id : QueueRead(i) \/ QueueWrite(i)
    \/ ReadsServed \/ ReadsFailed \/ WritesServed \/ WritesFailed

BatcherSpec == BatcherInit /\ [][BatcherNext]_bvars

----------------------------------------------------------------------------
(* Properties *)

(* Nothing queued gets lost on the way: until the batcher is gone, an      *)
(* entry was served or is still in its list, and what is in a list was not *)
(* served (phys_mem_batcher.rs:31-43).                                     *)
QueuedOrServed ==
    stage # "none" =>
        /\ reads = read_list \cup (served \cap reads)
        /\ writes = write_list \cup (served \cap writes)
        /\ served \cap (read_list \cup write_list) = {}

(* A commit that returned Ok has served everything that was queued, and so *)
(* has the silent one of Drop, unless the memory refused it; only then are *)
(* entries lost with the batcher (phys_mem_batcher.rs:89-93).              *)
OkMeansServed ==
    outcome = "ok" /\ stage \in {"none", "idle"} => reads \cup writes \subseteq served

(* The writes of a batch are handed over only when all of its reads were   *)
(* answered (phys_mem_batcher.rs:32-40).                                   *)
ReadsBeforeWrites == stage = "writing" => reads \subseteq served

(* Batches are disjoint and a stage has the lists it works on.             *)
ListsInv ==
    /\ reads \cap writes = {} /\ served \subseteq reads \cup writes
    /\ stage = "reading" => read_list # {}
    /\ stage = "writing" => read_list = {}

(* Every time a write is handed over but the last one or the one under way *)
(* the memory has refused its list.                                        *)
AttemptsInv ==
    \A i \in Id :
        attempts[i] <= write_errors +
            (IF i \in served \/ (stage = "writing" /\ i \in write_list) THEN 1 ELSE 0)

(* The inductive invariant of a batcher: nothing queued is lost before the *)
(* batcher is, an Ok has served everything, and a write is repeated only   *)
(* for an error (phys_mem_batcher.rs:31-43, 89-93).                        *)
BIInv ==
    BatcherTypeOK /\ ListsInv /\ QueuedOrServed /\ OkMeansServed /\ AttemptsInv

(* A write is handed over once more only because the memory refused its    *)
(* list before, never for a failed read or for the commit of Drop          *)
(* (phys_mem_batcher.rs:37-40, 91).                                        *)
RepeatedForErrors ==
    \A i \in Id : attempts[i] <= write_errors + (IF i \in served \/ stage = "writing" THEN 1 ELSE 0)
=============================================================================
