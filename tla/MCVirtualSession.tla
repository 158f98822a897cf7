--------------------------- MODULE MCVirtualSession ---------------------------
(***************************************************************************)
(* An instance of VirtualSession: four pages of two bytes over as many     *)
(* frames, and lists that cross pages, overlap and end at a hole.          *)
(***************************************************************************)
EXTENDS VirtualSession

Item(a, n) == [addr |-> a, len |-> n]

MCLists == { <<Item(1, 3)>>, <<Item(2, 2), Item(3, 4)>> }
(* Every memory is built; the session goes on with two processes only, one *)
(* with a part that the test buffer does not fill.                         *)
OneOfEach ==
    opened => /\ handed = <<1, 0, 3, 2>> /\ ~cloned /\ split[1] = 1
              /\ processes[1].base = 2 * (2 - processes[1].test)

=============================================================================
