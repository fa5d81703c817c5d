----------------------------- MODULE MCSessions -----------------------------
(* Instances of Sessions for TLC: three sessions, two terminals behind which *)
(* there is no third, hosts around the size of their field, and records of   *)
(* init: one of a change of run level, and one of a process with an          *)
(* identifier that fills its field.                                          *)
EXTENDS Sessions, TLC
CONSTANTS u1, u2, u3

MCNames == {"p0", "p1", "p2", "cons", "console"}
MCShort == [n \in MCNames |-> IF n = "console" THEN "cons" ELSE n]
MCOrder == <<"p0", "p1", "p2">>
MCPid == (u1 :> 7) @@ (u2 :> 42) @@ (u3 :> 5)

Of(type, id) ==
  [type |-> type, line |-> NoLine, id |-> id, user |-> "", host |-> 0, pid |-> 7]
MCForeign == {Of("RUN_LVL", ""), Of("INIT_PROCESS", "cons")}
=============================================================================
