----------------------------- MODULE ForeignApi -----------------------------
(* The C interfaces: every function that hands an object to the client as a
   leaked box, takes one back, or passes one on into another object.
   Sources: memflow-ffi/src and memflow-win32-ffi/src, over the inventory.

   The client is a C program that follows the documented rules: it uses and
   frees only what it was given, once, and gives up the views of an object
   before the object.  What it cannot see is what the code does when a call
   fails half way. *)
EXTENDS Inventory

CONSTANTS
    Names,          \* the names a client asks for
    MaxObjects,     \* bound: boxes alive at a time
    MaxListed       \* bound: elements a list call produces

ASSUME FFIAssumption == MaxObjects \in Nat \ {0} /\ MaxListed \in Nat

VARIABLES
    heap,           \* [live box |-> object]
    held,           \* the boxes the client was given and has not given up
    shown           \* the error text the last call logged

fvars == <<refs, heap, held, shown>>

Ids == 1..MaxObjects
NoText == [text |-> "none", mapped |-> TRUE]

(* The objects: an owner of a connector holds one reference to its library. *)
inventory(connectors) == [kind |-> "inventory", connectors |-> connectors]
owner(kind, lib) == [kind |-> kind, lib |-> lib]
view(kind, of) == [kind |-> kind, of |-> of]
plain(kind) == [kind |-> kind]

Owners == {"memory", "kernel", "process"}
Views == {"phys_view", "virt_view", "info_view", "module_view"}

Of(kind) == {i \in DOMAIN heap \cap held : heap[i].kind = kind}

(* Not looked at through a view that the client still holds. *)
NoViewOf(i) == \A v \in DOMAIN heap : heap[v].kind \in Views => heap[v].of # i

(* The lowest free boxes. *)
Boxes(n) == {i \in Ids \ DOMAIN heap :
                Cardinality({j \in Ids \ DOMAIN heap : j < i}) < n}
Room(n) == Cardinality(Ids \ DOMAIN heap) >= n
NewBox == CHOOSE i \in Boxes(1) : TRUE

Restricted(h, ids) == [i \in ids |-> h[i]]

(* to_heap: a new box, of which the client is told. *)
to_heap(h, object) ==
    /\ Room(1)
    /\ heap' = [i \in DOMAIN h \cup {NewBox} |-> IF i = NewBox THEN object ELSE h[i]]

Without(i) == Restricted(heap, DOMAIN heap \ {i})

(* A call that hands out one new object and leaves the others. *)
HandOut(object) == to_heap(heap, object) /\ held' = held \cup {NewBox}

(* A call that takes box i from the client and frees it. *)
FreeBox(i) == heap' = Without(i) /\ held' = held \ {i}

(* A call that takes box i and answers with a new object in its place. *)
Convert(i, object) ==
    /\ heap' = [heap EXCEPT ![i] = object]
    /\ held' = held

Quiet == shown' = NoText

(* An error is logged (inspect_err) after the call's own objects are gone:
   its text is a string of the library "text" or of memflow itself. *)
Log(text) == shown' = [text |-> text,
                       mapped |-> text \in Libs => refs'[text] > 0]

FInit ==
    /\ refs = [l \in Libs |-> 0]
    /\ heap = <<>>
    /\ held = {}
    /\ shown = NoText

-----------------------------------------------------------------------------
(* Inventories *)

inventory_scan ==
    /\ Room(1)
    /\ \E st \in scan :
         /\ refs' = st.refs
         /\ HandOut(inventory(st.connectors))
    /\ Quiet

(* A path that cannot be scanned to its end gives no inventory: what was
   opened is dropped with it. *)
inventory_scan_path ==
    \E dir \in DOMAIN Dirs \cup {"nowhere"} : \E a \in add_dir(NoConnectors, dir) :
      \/ /\ a.ok
         /\ refs' = a.st.refs
         /\ HandOut(inventory(a.st.connectors))
         /\ Quiet
      \/ /\ ~a.ok
         /\ refs' = GiveAll(a.st.refs, a.st.connectors)
         /\ UNCHANGED <<heap, held>>
         /\ Log("memflow")

inventory_add_dir ==
    \E i \in Of("inventory"), dir \in DOMAIN Dirs \cup {"nowhere"} :
      \E a \in add_dir([connectors |-> heap[i].connectors, refs |-> refs], dir) :
         /\ refs' = a.st.refs
         /\ heap' = [heap EXCEPT ![i] = inventory(a.st.connectors)]
         /\ UNCHANGED held
         /\ IF a.ok THEN Quiet ELSE Log("memflow")

inventory_free ==
    \E i \in Of("inventory") :
      /\ refs' = GiveAll(refs, heap[i].connectors)
      /\ FreeBox(i)
      /\ Quiet

-----------------------------------------------------------------------------
(* Connectors *)

(* Arguments that do not parse and a name nobody has are refused by memflow;
   the library's own factory may fail with a text of its own. *)
inventory_create_connector ==
    \E i \in Of("inventory"), name \in Names :
      LET found == find_connector(heap[i].connectors, name)
      IN \/ /\ UNCHANGED <<refs, heap, held>>
            /\ \E text \in {"memflow"} \cup {c.lib : c \in found} : Log(text)
         \/ \E c \in found :
              /\ refs' = Take(refs, c.lib)
              /\ HandOut(owner("memory", c.lib))
              /\ Quiet

(* mutant: the copy does not take a reference to the library. *)
clone_box_Bare(held_refs, lib) == held_refs

(* A copy of an instance is a copy of its connector and of its reference. *)
clone_box(held_refs, lib) == Take(held_refs, lib)

connector_clone ==
    \E i \in Of("memory") :
      /\ refs' = clone_box(refs, heap[i].lib)
      /\ HandOut(owner("memory", heap[i].lib))
      /\ Quiet

connector_free ==
    \E i \in Of("memory") :
      /\ NoViewOf(i)
      /\ refs' = Give(refs, heap[i].lib)
      /\ FreeBox(i)
      /\ Quiet

downcast_cloneable ==
    \E i \in Of("memory") :
      HandOut(view("phys_view", i)) /\ Quiet /\ UNCHANGED refs

-----------------------------------------------------------------------------
(* Kernels *)

(* The texts a failed build can carry.  A start block that is not found, and
   everything read through virtual memory, has a text of memflow's; the read
   of the low memory that the second attempt starts with passes the
   connector's own error on. *)
build_errors(lib) == {"memflow", lib}

(* mutant: the failed build gives the connector's box back to nobody. *)
kernel_build_fails_Leak(i) ==
    held' = held \ {i} /\ UNCHANGED <<heap, refs>> /\ \E text \in build_errors(heap[i].lib) : Log(text)

(* The build takes the connector, also when it fails: the error is logged
   after the connector was dropped with the builder. *)
kernel_build_fails(i) ==
    /\ refs' = Give(refs, heap[i].lib)
    /\ FreeBox(i)
    /\ \E text \in build_errors(heap[i].lib) : Log(text)

kernel_build ==
    \E i \in Of("memory") :
      /\ NoViewOf(i)
      /\ \/ kernel_build_fails(i)
         \/ /\ Convert(i, owner("kernel", heap[i].lib))
            /\ UNCHANGED refs
            /\ Quiet

kernel_clone ==
    \E i \in Of("kernel") :
      /\ refs' = clone_box(refs, heap[i].lib)
      /\ HandOut(owner("kernel", heap[i].lib))
      /\ Quiet

kernel_free ==
    \E i \in Of("kernel") :
      refs' = Give(refs, heap[i].lib) /\ FreeBox(i) /\ Quiet

(* mutant: destroying the kernel clones the connector out of it. *)
kernel_destroy_Clone ==
    \E i \in Of("kernel") :
      /\ refs' = Take(refs, heap[i].lib)
      /\ Convert(i, owner("memory", heap[i].lib))
      /\ Quiet

kernel_destroy ==
    \E i \in Of("kernel") :
      Convert(i, owner("memory", heap[i].lib)) /\ Quiet /\ UNCHANGED refs

(* One process by name, by id, by address, or the kernel's own.  Everything
   here is read through virtual memory, whose errors are turned into
   Error::Partial on the way. *)
kernel_process_info ==
    \E i \in Of("kernel") :
      /\ \/ HandOut(plain("process_info")) /\ Quiet
         \/ UNCHANGED <<heap, held>> /\ Log("memflow")
      /\ UNCHANGED refs

-----------------------------------------------------------------------------
(* Lists *)

(* A list call boxes each element as the list comes to it.  When the list
   fails after that, the call answers 0, and the boxes are in the buffer of a
   client that was told there is nothing in it. *)
List(kind) ==
    \E n \in 0..MaxListed :
      /\ Room(n)
      /\ heap' = [i \in DOMAIN heap \cup Boxes(n) |->
                      IF i \in DOMAIN heap THEN heap[i] ELSE plain(kind)]
      /\ \/ held' = held \cup Boxes(n) /\ Quiet
         \/ held' = held /\ Log("memflow")
      /\ UNCHANGED refs

kernel_process_info_list == Of("kernel") # {} /\ List("process_info")
process_module_list == Of("process") # {} /\ List("module_info")

-----------------------------------------------------------------------------
(* Processes *)

(* into_process, into_process_pid, into_kernel_process: the kernel is gone
   also when there is no such process. *)
kernel_into_process ==
    \E i \in Of("kernel") :
      \/ Convert(i, owner("process", heap[i].lib)) /\ UNCHANGED refs /\ Quiet
      \/ refs' = Give(refs, heap[i].lib) /\ FreeBox(i) /\ Log("memflow")

(* The process information is copied and stays the client's. *)
process_with_kernel ==
    \E i \in Of("kernel") :
      /\ Of("process_info") # {}
      /\ Convert(i, owner("process", heap[i].lib))
      /\ Quiet
      /\ UNCHANGED refs

process_clone ==
    \E i \in Of("process") :
      /\ refs' = clone_box(refs, heap[i].lib)
      /\ HandOut(owner("process", heap[i].lib))
      /\ Quiet

process_free ==
    \E i \in Of("process") :
      /\ NoViewOf(i)
      /\ refs' = Give(refs, heap[i].lib)
      /\ FreeBox(i)
      /\ Quiet

process_virt_mem ==
    \E i \in Of("process") :
      HandOut(view("virt_view", i)) /\ Quiet /\ UNCHANGED refs

process_module_info ==
    \E i \in Of("process") :
      /\ \/ HandOut(plain("module_info")) /\ Quiet
         \/ UNCHANGED <<heap, held>> /\ Log("memflow")
      /\ UNCHANGED refs

-----------------------------------------------------------------------------
(* Information objects and views *)

process_info_trait ==
    \E i \in Of("process_info") :
      HandOut(view("info_view", i)) /\ Quiet /\ UNCHANGED refs

module_info_trait ==
    \E i \in Of("module_info") :
      HandOut(view("module_view", i)) /\ Quiet /\ UNCHANGED refs

(* os_process_info_sys_arch and _proc_arch box a reference to a static. *)
os_process_info_arch ==
    Of("info_view") # {} /\ HandOut(plain("arch")) /\ Quiet /\ UNCHANGED refs

info_free ==
    \E i \in Of("process_info") \cup Of("module_info") :
      NoViewOf(i) /\ FreeBox(i) /\ Quiet /\ UNCHANGED refs

arch_free == \E i \in Of("arch") : FreeBox(i) /\ Quiet /\ UNCHANGED refs

(* phys_free, virt_free, os_process_info_free, os_process_module_free: the
   box of the reference, never what it refers to. *)
view_free ==
    \E i \in UNION {Of(kind) : kind \in Views} : FreeBox(i) /\ Quiet /\ UNCHANGED refs

FNext ==
    \/ inventory_scan \/ inventory_scan_path \/ inventory_add_dir \/ inventory_free
    \/ inventory_create_connector \/ connector_clone \/ connector_free \/ downcast_cloneable
    \/ kernel_build \/ kernel_clone \/ kernel_free \/ kernel_destroy
    \/ kernel_process_info \/ kernel_process_info_list \/ kernel_into_process
    \/ process_with_kernel \/ process_clone \/ process_free \/ process_virt_mem
    \/ process_module_info \/ process_module_list
    \/ process_info_trait \/ module_info_trait \/ os_process_info_arch
    \/ info_free \/ arch_free \/ view_free

FSpec == FInit /\ [][FNext]_fvars

-----------------------------------------------------------------------------
(* Properties *)

(* The comment on ConnectorInstance: the library is mapped as long as a
   connector made from it, or an inventory entry that could make one, is
   alive, whatever was cloned, moved into a kernel or a process, or dropped
   by a call that failed. *)
MappedWhileUsed ==
    \A i \in DOMAIN heap :
      /\ heap[i].kind \in Owners => refs[heap[i].lib] > 0
      /\ heap[i].kind = "inventory" =>
           \A k \in DOMAIN heap[i].connectors : refs[heap[i].connectors[k].lib] > 0

(* A client that has given up everything it was given has no library mapped
   any more, also when calls failed in between. *)
UnmappedWhenFreed == held = {} => \A l \in Libs : refs[l] = 0

(* The only boxes the client does not know of are elements of failed lists:
   every call that takes an object and fails has freed it. *)
LostOnlyFromLists ==
    \A i \in DOMAIN heap \ held : heap[i].kind \in {"process_info", "module_info"}

(* As long as an inventory lives, a name that it knows stays bound to the
   library it was found in first, and asking for it makes a connector of that
   library, whatever directories are added. *)
NamesStayBound ==
    [][\A i \in held \cap held' :
         (heap[i].kind = "inventory" /\ heap'[i].kind = "inventory") =>
           \A name \in Names :
             LET now == find_connector(heap[i].connectors, name)
             IN now # {} => find_connector(heap'[i].connectors, name) = now]_fvars

(* The documentation of inventory_create_connector: error strings of a
   connector are not output after the connector is freed, because that may
   have unmapped the library whose strings they are. *)
ErrorTextIsMapped == shown.mapped

=============================================================================
