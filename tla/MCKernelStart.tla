--------------------------- MODULE MCKernelStart ----------------------------
(* Small guests, users and symbol files for KernelStart. *)
EXTENDS KernelStart

(* Pages of low memory. *)
Blank == [start |-> FALSE, entry |-> 0, pml4 |-> -1, user_entry |-> FALSE, self_ref |-> FALSE,
          kernel_entries |-> 0, pdpt_entries |-> 0, rest_is_zero |-> FALSE, first |-> 0,
          self_map |-> FALSE]
StubPage(entry, dtb) == [Blank EXCEPT !.start = TRUE, !.entry = entry, !.pml4 = dtb]
TablePage(entries) ==
    [Blank EXCEPT !.user_entry = TRUE, !.self_ref = TRUE, !.kernel_entries = entries]
PdptPage == [Blank EXCEPT !.pdpt_entries = 4, !.rest_is_zero = TRUE]
X86Page  == [Blank EXCEPT !.first = 103, !.self_map = TRUE, !.kernel_entries = 17]

Ntos(guid, rtl, eprocess) ==
    [name |-> "ntoskrnl.exe", size |-> 1, guid |-> guid, rtl |-> rtl, major |-> 6, minor |-> 1,
     build |-> 5, eprocess |-> eprocess]
Hal == [Ntos(None, "other", None) EXCEPT !.name = "hal.dll"]

(* The kernel at page 9, after another image, with the stub's hint at 13. *)
Kernel64(guid, eprocess) ==
    [dtb |-> 4, base |-> 9, guid |-> guid, arch |-> "x64", major |-> 6, minor |-> 1, build |-> 5,
     eprocess |-> eprocess]
Guest64(stub, table, mapped, image, user) ==
    [low |-> <<Blank, stub, Blank, table, TablePage(6)>>, stub_pages |-> 3,
     spaces |-> [d \in {3, 4} |->
        IF d = 4 THEN [mapped |-> mapped, user |-> user,
                       images |-> [p \in {8, 9} |-> IF p = 8 THEN Hal ELSE image]]
        ELSE [mapped |-> {8}, user |-> <<0, 0>>, images |-> [p \in {8} |-> Hal]]],
     kernel |-> Kernel64(image.guid, image.eprocess)]
Guests64 ==
    {Guest64(stub, table, mapped, image, user) :
        stub   \in {Blank, StubPage(13, 4), StubPage(13, 3), StubPage(13, 0), StubPage(30, 4)},
        table  \in {TablePage(5), TablePage(6)},
        mapped \in {8..11, {8, 9, 14}, {9, 10}},
        image  \in {Ntos("g6", "dwords", "system"), Ntos(None, "qword", "system"),
                    Ntos("g6", "other", None)},
        user   \in {<<0, 0>>, <<6, 1>>}}
Guest32(arch, page) ==
    [low |-> <<Blank, page>>, stub_pages |-> 2,
     spaces |-> [d \in {1} |-> [mapped |-> {9}, user |-> <<6, 1>>,
                               images |-> [p \in {9} |-> Ntos("g6", "other", "system")]]],
     kernel |-> [Kernel64("g6", "system") EXCEPT !.dtb = 1, !.arch = arch]]
Guests32 == {Guest32("x32_pae", PdptPage), Guest32("x32", X86Page)}

NoHints == [arch |-> None, kernel_hint |-> NoHint, dtb |-> NoHint, store |-> TRUE]
AnyUser == {NoHints, [NoHints EXCEPT !.arch = "x64"], [NoHints EXCEPT !.kernel_hint = 13],
            [arch |-> "x64", kernel_hint |-> 13, dtb |-> 3, store |-> FALSE],
            [arch |-> "x64", kernel_hint |-> 13, dtb |-> 4, store |-> FALSE]}

(* The symbol file: _LIST in _EPROCESS, and _TEB32. *)
Member(name, type, offset) == [kind |-> "member", name |-> name, type |-> type, offset |-> offset]
ListOf(members, continuation) ==
    [kind |-> "fieldlist", members |-> members, continuation |-> continuation]
Class(name, list) == [kind |-> "class", name |-> name, fwd |-> FALSE, fields |-> list]
Forward(name)     == [kind |-> "class", name |-> name, fwd |-> TRUE, fields |-> NoType]
Pointer(type)     == [kind |-> "pointer", to |-> type]
Primitive         == [kind |-> "primitive"]
Unparsed          == [kind |-> "bad"]
Pdb == <<Primitive, Forward("_LIST"), Pointer(2),
         ListOf(<<Member("Flink", 3, 0), Member("Blink", 3, 8)>>, 0), Class("_LIST", 4),
         ListOf(<<Member("Link", 5, 40), Member("Peb", 1, 80)>>, 0), Class("_EPROCESS", 6),
         ListOf(<<Member("Peb", 1, 48)>>, 0), Class("_TEB32", 8)>>
MCStructs == <<[class |-> "_LIST", required |-> {"Blink"}],
               [class |-> "_EPROCESS", required |-> {"Link", "Peb"}],
               [class |-> "_TEB32", required |-> {"Peb"}]>>
MCOffsetList == <<[guid |-> "g3", major |-> 6, minor |-> 1, build |-> 3, arch |-> "X64"],
                  [guid |-> "g7", major |-> 6, minor |-> 1, build |-> 7, arch |-> "X64"],
                  [guid |-> "g6", major |-> 6, minor |-> 1, build |-> 5, arch |-> "X86"],
                  [guid |-> "g4", major |-> 6, minor |-> 1, build |-> 4, arch |-> "X64"],
                  [guid |-> "g9", major |-> 1, minor |-> 0, build |-> 2, arch |-> "X86"]>>

Scenario(g, u, builders, server, pdb, bound) ==
    [guest |-> g, server |-> server, pdb |-> pdb, users |-> [b \in builders |-> u],
     faults |-> bound, crashes |-> bound]
Plain    == Guest64(StubPage(13, 4), TablePage(6), 8..11, Ntos("g6", "dwords", "system"), <<0, 0>>)
Searches == {Scenario(g, u, {"b1"}, "none", Pdb, 1) : g \in Guests64 \cup Guests32, u \in AnyUser}
            \cup {Scenario(g, [NoHints EXCEPT !.arch = g.kernel.arch], {"b1"}, "none", Pdb, 1) :
                    g \in Guests32}
Stores   == {Scenario(Plain, NoHints, builders, server, Pdb, 1) :
                builders \in {{"b1"}, Builders}, server \in {"pdb", "ptr", "short", "none"}}

(* Symbol files whose types share and repeat others.  Only the last class  *)
(* of each is what is asked for.                                           *)
Method(type)     == [kind |-> "method", name |-> "m", type |-> type, offset |-> 0]
Overloaded(type) == [kind |-> "overloaded", name |-> "m", type |-> type, offset |-> 0]
Base(type)       == [kind |-> "base", name |-> "b", type |-> type, offset |-> 0]
Nested           == [kind |-> "nested", name |-> "n", type |-> NoType, offset |-> 0]
Tables ==
    {<<t1, t2, ListOf(m3, 0), Class("B", 3), t5, Class("C", 5), ListOf(m7, 0),
       Class("_EPROCESS", f8)>> :
        t1 \in {Primitive, Unparsed, Forward("_EPROCESS")},
        t2 \in {[kind |-> "args", list |-> <<1>>],
                [kind |-> "enum", underlying |-> 1, fields |-> 1]},
        m3 \in {<<Member("Link", 1, 1)>>, <<Member("Peb", 2, 2), Member("Peb", 1, 3)>>, <<Method(2)>>,
                <<Overloaded(2)>>},
        t5 \in {ListOf(<<Member("Blink", 4, 4)>>, 3), ListOf(<<Base(4), Nested>>, 0),
                [kind |-> "memberfn", to |-> 4, args |-> 2],
                [kind |-> "methods", list |-> <<2>>],
                [kind |-> "enum", underlying |-> 4, fields |-> 3]},
        m7 \in {<<Member("Peb", 4, 5), Member("Link", 6, 6)>>, <<Member("Link", 6, 7)>>,
                <<Method(5), Member("Peb", 5, 8)>>, <<Overloaded(5)>>},
        f8 \in {7, 4}}
Parsings == {Scenario(Plain, NoHints, {"b1"}, "pdb", table, 0) : table \in Tables}

Odd      == {Scenario(Plain, NoHints, {"b1"}, "pdb", [Pdb EXCEPT ![8] = Unparsed], 1),
             Scenario([Guest32("x32", X86Page) EXCEPT !.spaces[1].mapped = {}], NoHints, {"b1"},
                      "none", Pdb, 0)}
MCScenarios     == Searches \cup Stores \cup Parsings \cup Odd

=============================================================================
