------------------------------ MODULE MCClone ------------------------------
(* Instances of Clone for TLC: processes and threads, with and without      *)
(* waiting, and one call for each way to be refused.                         *)
EXTENDS Clone
CONSTANTS a, b, c, f

Asked(q, sig, opts) == [fn |-> f, child |-> q, csignal |-> sig, opts |-> opts]
SIG128 == {7}
Thread == {"VM", "FS", "FILES", "SIGHAND", "SYSVSEM"}

MCKills == {{1}}   \* SIGINT
MCRequests ==
  {Asked(q, SIGCHLD, o) : q \in Procs \ {First}, o \in {{}, {"VM", "VFORK"}}}
  \cup {Asked(q, {}, Thread) : q \in Procs \ {First}}
  \cup {Asked(q, SIG128, {"VM"}) : q \in Procs \ {First}}
  \cup {[Asked(NULL, {}, {}) EXCEPT !.fn = NULL], Asked(NULL, {}, Thread),
        Asked(b, SIGCHLD, {"VM", "other"})}
============================================================================
