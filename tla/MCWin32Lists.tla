---------------------------- MODULE MCWin32Lists ----------------------------
(* A small guest for TLC: the system process, two programs whose names are *)
(* equal in their first 14 bytes, one of them under wow64, winlogon, and   *)
(* wininit that may start later.                                           *)
EXTENDS Win32Lists

CONSTANTS sys, prog1, prog2, logon, e1, e2, w1, d1, l1, k1, k2, k3

Prog(name, pid, wow64) ==
    [name |-> name, pid |-> pid, kernel |-> FALSE, wow64 |-> wow64, teb |-> TRUE]

MCProcess == (sys   :> [Prog("System", 4, FALSE) EXCEPT !.kernel = TRUE]) @@
             (prog1 :> Prog("a_long_name", 8, FALSE)) @@
             (prog2 :> Prog("a_long_name", 12, TRUE)) @@
             (logon :> Prog("wininit", 16, FALSE))

Mod(owner, name) == [list |-> owner, name |-> name, length |-> 2, readable |-> 4]

MCModule == (e1 :> Mod(<<prog1, "native">>, "a_long_name1")) @@
            (d1 :> [Mod(<<prog1, "native">>, "dll") EXCEPT !.readable = 2]) @@
            (e2 :> Mod(<<prog2, "native">>, "dll")) @@
            (w1 :> Mod(<<prog2, "wow64">>, "a_long_name2")) @@
            (l1 :> Mod(<<logon, "native">>, "wininit")) @@
            (k1 :> Mod(<<Kernel, "native">>, "ntoskrnl")) @@
            (k2 :> Mod(<<Kernel, "native">>, "win32kbase")) @@
            (k3 :> Mod(<<Kernel, "native">>, "hal"))

MCLoads == [h \in (Procs \cup {Kernel}) \X {"native", "wow64"} |->
    CASE h = <<prog1, "native">> -> <<e1>>
      [] h = <<prog2, "native">> -> <<e2>>
      [] h = <<prog2, "wow64">>  -> <<w1>>
      [] h = <<logon, "native">> -> <<l1>>
      [] h = <<Kernel, "native">> -> <<k1, k3, k2>>
      [] OTHER -> <<>>]

MCShort == [n \in {"a_long_name1", "a_long_name2", "wininit", "winlogon"} |->
    IF n \in {"a_long_name1", "a_long_name2"} THEN "a_long_name" ELSE n]

MCStarted == <<sys, prog1, prog2>>

Request(op, ns, pid, vk) == [op |-> op, names |-> ns, pid |-> pid, vk |-> vk]

(* A failed read counts like two steps of the guest. *)
FewEvents == changes + 2 * faults <= 3

MCRequests == {
    Request("list", <<>>, 0, 0),
    Request("info", <<"a_long_name2">>, 0, 0),
    Request("pid", <<>>, 0, 0),
    Request("pid", <<>>, 8, 0),
    Request("modules", <<>>, 0, 0),
    Request("keyboard", <<"winlogon", "wininit">>, 0, 0),
    Request("keys", <<>>, 0, 1),
    Request("keys", <<>>, 0, 255) }
=============================================================================
