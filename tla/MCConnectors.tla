---------------------------- MODULE MCConnectors ----------------------------
(* The connector layer for TLC, in three parts that are explored one by    *)
(* one: the map that every connector takes its lists through, the          *)
(* transfers of each connector, and the objects a C client holds.          *)
EXTENDS Connectors, MemoryMap, ForeignApi

(* Regions of one to four bytes in an address space of twelve, enough for  *)
(* gaps, touching neighbours, containment and out-of-order pushes; the     *)
(* hardware addresses are in another order than the linear ones.           *)
Region(b, n, r) == [base |-> b, len |-> n, real |-> r]
Item(a, n) == [addr |-> a, len |-> n]

MCRegions ==
    {Region(1, 2, 30), Region(3, 2, 20), Region(5, 1, 50), Region(6, 3, 40),
     Region(2, 4, 60), Region(9, 2, 10)}

MCQueries ==
    {<<Item(a, n)>> : a \in 0..11, n \in {1, 3, 12}}
    \cup {<<Item(7, 3), Item(0, 4)>>, <<Item(0, 2), Item(2, 6)>>, <<Item(4, 0), Item(5, 2)>>}

(* Two hosts, three maps, machines on both sides of every size that        *)
(* with_process compares.                                                  *)
MCMaps == {
    <<Region(0, 2, 1)>>,
    <<Region(0, 2, 2), Region(3, 2, 0)>>,
    <<Region(1, 3, 2), Region(4, 1, 0)>> }

Guest(name, type, n) ==
    [qemu |-> TRUE, name |-> name, machine |-> type, size |-> n]

Q35 == <<<<"q35">>, <<"accel", "kvm">>>>
PC  == <<<<"accel", "kvm">>, <<"type", "pc">>>>

MCProcesses ==
    { <<[qemu |-> FALSE, name |-> <<<<"vm1">>>>, machine |-> <<>>, size |-> 4]>> \o
      <<Guest(<<<<"guest", "vm0">>, <<"debug", "on">>>>, Q35, n),
        Guest(<<<<"debug", "on">>, <<"vm0">>, <<"guest", "vm1">>>>, PC, m)>>
        : n \in {26, 27, 31}, m \in {8, 32} }
    \cup { <<Guest(<<>>, <<>>, 31)>> }

MCArguments == {
    <<>>,
    <<<<"vm1">>>>,
    <<<<"">>, <<"vm1">>>>,
    <<<<"vm2">>, <<"default", "vm1">>>>,
    <<<<"name", "vm0">>, <<"vm1">>>>,
    <<<<"vm0">>, <<"name", "vm2">>, <<"name", "vm1">>>> }

MCLists == {
    <<Item(0, 5)>>,
    <<Item(3, 2), Item(0, 4)>>,
    <<Item(1, 3), Item(2, 2), Item(4, 1)>>,
    <<Item(7, 1), Item(19, 2), Item(40, 1), Item(8, 2)>> }

(* Two directories that share a connector's name, one of them with a       *)
(* library of an older version of the interface; a third path that is not  *)
(* there.                                                                  *)
Library(lib, name, version, loads) ==
    [lib |-> lib, name |-> name, version |-> version, loads |-> loads]

MCDirs ==
    ("user" :> {Library("a", "qemu", 2, TRUE), Library("old", "kvm", 1, TRUE)})
    @@ ("system" :> {Library("b", "qemu", 2, TRUE), Library("text", "kvm", 2, FALSE)})
MCSearchPath == <<"nowhere", "user", "system">>
MCNames == {"qemu", "kvm"}

VARIABLE part

parts == <<vars, cvars, fvars>>

MCInit == Init /\ ConnectorsInit /\ FInit /\ part \in {"map", "transfers", "objects"}

MCNext ==
    \/ part = "map" /\ Next /\ UNCHANGED <<cvars, fvars, part>>
    \/ part = "transfers" /\ ConnectorsNext /\ UNCHANGED <<vars, fvars, part>>
    \/ part = "objects" /\ FNext /\ UNCHANGED <<vars, cvars, part>>

MCSpec == MCInit /\ [][MCNext]_<<parts, part>> /\ WF_vars(Step)

(* Reads and writes of every connector are true to the bytes of its host,  *)
(* through a map that stays inside it (Connectors), with every variable of *)
(* its type.                                                               *)
TransfersAreTrue ==
    /\ TypeOK /\ ConnectorsTypeOK
    /\ MapInside /\ ReadIsTrue /\ WriteIsTrue
=============================================================================
