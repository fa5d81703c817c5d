--------------------------- MODULE MCAtEmulation ---------------------------
EXTENDS AtEmulation, TLC

CONSTANTS p1

(* Relative and absolute paths, on good, bad, closed and unused descriptors. *)
Args == {a \in Arg : /\ a.at \in {NULL, p1}
                     /\ a.at # NULL => a.fd = NEG /\ ~a.empty
                     /\ a.empty => a.fd \in Fds}

OneArg == {[op |-> o, flags |-> f, args |-> <<a>>] :
             o \in {"openat", "unlinkat", "fexecve"}, f \in {"none", "unknown"}, a \in Args}

TwoArgs == {[op |-> o, flags |-> "none", args |-> <<a, b>>] :
              o \in {"linkat", "renameat"}, a \in Args, b \in Args}

Follow == {[op |-> "linkat", flags |-> "known", args |-> <<a, a>>] : a \in Args}

Calls == {c \in OneArg \cup TwoArgs \cup Follow :
            /\ c.op = "openat" => c.flags = "none"
            /\ c.op = "fexecve" => c.args[1].at = NULL /\ ~c.args[1].empty /\ c.args[1].fd # CWD
            /\ c.op = "renameat" => c.args[1].fd \in Fds}

Pairs == {c \in TwoArgs : c.args[1].fd \in Fds /\ c.args[2].fd = CWD}

Symmetry == Permutations(Dirs) \cup Permutations(Paths \ {p1})
=============================================================================
