----------------------------- MODULE Inventory -----------------------------
(* The connector inventory: dynamic libraries found in directories, opened,
   checked for the version of the interface and kept under the connector's
   name; instances made from them.  Sources: memflow/src/connector/
   inventory.rs.

   A library stays mapped while somebody holds a reference to it: every entry
   of an inventory and every instance holds one (Arc<Library>).  The module
   counts the references as the code takes and drops them; whether the count
   ever reaches zero too early is what is checked. *)
EXTENDS Integers, Sequences, FiniteSets, SequencesExt

CONSTANTS
    Dirs,           \* [directory |-> set of files]; every other path is not a directory
    SearchPath,     \* the directories that scan() goes through, in order
    Version         \* MEMFLOW_CONNECTOR_VERSION

ASSUME DirsAssumption ==
    /\ \A d \in DOMAIN Dirs :
           /\ IsFiniteSet(Dirs[d])
           /\ \A f \in Dirs[d] : f.lib # "memflow" /\ f.loads \in BOOLEAN
    /\ SearchPath \in Seq(STRING)

Files == UNION {Dirs[d] : d \in DOMAIN Dirs}
Libs == {f.lib : f \in Files}

VARIABLE refs       \* [Libs -> Nat], how many references hold each library

(* A reference taken: Library::new or the clone of an Arc; and one dropped. *)
Take(held, lib) == [held EXCEPT ![lib] = @ + 1]
Give(held, lib) == [held EXCEPT ![lib] = @ - 1]

(* Every entry of an inventory dropped. *)
GiveAll(held, connectors) ==
    [l \in Libs |-> held[l] - Cardinality({i \in DOMAIN connectors : connectors[i].lib = l})]

(* mutant: a connector of the same name replaces the older one. *)
keep_connector_Newest(connectors, f) ==
    SelectSeq(connectors, LAMBDA c : c.name # f.name) \o <<[name |-> f.name, lib |-> f.lib]>>

(* What the inventory holds after a library has been looked at: a name that
   is known already keeps the library that brought it first. *)
keep_connector(connectors, f) ==
    IF \E i \in DOMAIN connectors : connectors[i].name = f.name
    THEN connectors
    ELSE Append(connectors, [name |-> f.name, lib |-> f.lib])

(* Opening a file: it must be a library with a descriptor of this version. *)
try_with(f) == f.loads /\ f.version = Version

(* One directory entry: the library is opened, which takes a reference, and
   either kept or dropped, which gives it back. *)
add_entry(st, f) ==
    IF ~try_with(f)
    THEN st
    ELSE LET kept == keep_connector(st.connectors, f)
         IN [connectors |-> kept,
             refs |-> IF kept = st.connectors THEN st.refs ELSE Take(st.refs, f.lib)]

(* Everything add_dir(dir) can answer: entries come in the order of the file
   system, and an entry that cannot be read ends the scan with an error that
   keeps what was added before it. *)
add_dir(st, dir) ==
    IF dir \notin DOMAIN Dirs
    THEN {[st |-> st, ok |-> FALSE]}
    ELSE UNION {LET after[n \in 0..Len(order)] ==      \* n entries
                        IF n = 0 THEN st ELSE add_entry(after[n - 1], order[n])
                IN  {[st |-> after[n], ok |-> n = Len(order)] : n \in 0..Len(order)}
                : order \in SetToSeqs(Dirs[dir])}

NoConnectors == [connectors |-> <<>>, refs |-> refs]

(* scan(): one directory after the other, whatever each of them answers. *)
scan ==
    LET after[n \in 0..Len(SearchPath)] ==             \* n directories
            IF n = 0 THEN {NoConnectors}
            ELSE UNION {{a.st : a \in add_dir(st, SearchPath[n])} : st \in after[n - 1]}
    IN  after[Len(SearchPath)]

(* The entry create_connector(name) uses, as a set: empty when there is none. *)
find_connector(connectors, name) ==
    {connectors[i] : i \in {j \in DOMAIN connectors :
        /\ connectors[j].name = name
        /\ \A k \in 1..(j - 1) : connectors[k].name # name}}

=============================================================================
