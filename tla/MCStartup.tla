----------------------------- MODULE MCStartup ------------------------------
(* What a program goes through before it can read a guest, for TLC: the    *)
(* parts of MCConnectors, and beside them, explored on its own, the build  *)
(* of a Kernel.                                                            *)
EXTENDS MCConnectors, MCKernelStart

StartupInit ==
    /\ \/ MCInit /\ scenario = CHOOSE s \in Scenarios : TRUE
       \/ Init /\ ConnectorsInit /\ FInit /\ part = "start"
    /\ StartInit

StartupNext ==
    \/ MCNext /\ UNCHANGED kvars
    \/ part = "start" /\ StartNext /\ UNCHANGED <<parts, part>>

(* What a step of a builder changes something of. *)
building == <<builder, parser, maps, parse, cursor, needed_types>>

(* The iterator of a memory map and a builder are driven by their callers. *)
StartupSpec ==
    /\ StartupInit /\ [][StartupNext]_<<parts, kvars, part>>
    /\ WF_vars(Step)
    /\ \A b \in Builders : WF_building(part = "start" /\ BuildStep(b))
=============================================================================
