---------------------------- MODULE ReadersWriter ----------------------------
(***************************************************************************)
(* What a multi-reader lock promises, with no word, no flags and no futex: *)
(* any number of readers or one writer, and at most one thread that wants  *)
(* the exclusive lock at a time.                                           *)
(***************************************************************************)
CONSTANT Threads

VARIABLE mode

Modes == {"out", "wantShared", "shared", "wantExcl", "excl"}

In(m) == {t \in Threads : mode[t] = m}

Move(t, from, to) == mode[t] = from /\ mode' = [mode EXCEPT ![t] = to]

Init == mode = [t \in Threads |-> "out"]

WantShared(t) == Move(t, "out", "wantShared")

WantExcl(t) == In("wantExcl") \cup In("excl") = {} /\ Move(t, "out", "wantExcl")

GetShared(t) == In("excl") = {} /\ Move(t, "wantShared", "shared")

GetExcl(t) == In("shared") = {} /\ Move(t, "wantExcl", "excl")

PutShared(t) == Move(t, "shared", "out")

PutExcl(t) == Move(t, "excl", "out")

Next == \E t \in Threads :
           \/ WantShared(t) \/ GetShared(t) \/ PutShared(t)
           \/ WantExcl(t)   \/ GetExcl(t)   \/ PutExcl(t)

SafeSpec == Init /\ [][Next]_mode

(***************************************************************************)
(* The promise to the writer: strong fairness, for readers may come and go *)
(* while it waits.  No such promise is made to a reader.                   *)
(***************************************************************************)
Spec == SafeSpec /\ \A t \in Threads : SF_mode(GetExcl(t))

Exclusion == /\ In("excl") # {} => In("shared") = {}
             /\ \A t, u \in In("excl") : t = u
=============================================================================
