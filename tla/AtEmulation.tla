---------------------------- MODULE AtEmulation ----------------------------
(***************************************************************************)
(* The *at calls and fexecve (openat.c, mkdirat.c, unlinkat.c, linkat.c,   *)
(* renameat.c, fexecve.c and ten more) on a kernel that may not have them. *)
(* Without the kernel's call a path relative to a descriptor is put        *)
(* together from the path that sysctl reports for the descriptor, and the  *)
(* plain call is made with it some time later, while other threads open,   *)
(* close and rename.                                                       *)
(*                                                                         *)
(* What the calls do once they have found the directory is the same with   *)
(* and without the kernel's help and is left out: a call "acts on" the     *)
(* directories its paths start from (fexecve: on the file), or fails.      *)
(***************************************************************************)
EXTENDS Integers, Sequences, FiniteSets

CONSTANTS Threads,      \* the threads that make the calls
          Dirs, Files,  \* what descriptors and paths can lead to
          Paths,        \* where in the file system an object can be
          Fds,          \* the descriptors >= 0
          CWD, NEG,     \* AT_FDCWD, and any other descriptor < 0
          NULL,         \* no value
          CallSet,      \* the calls made
          KernelHas,    \* the values "does the kernel have the calls" can take
          Faults,       \* {"sysctl"}: KERN_PROC_FILEDESC may fail
          Moves,        \* {"fd", "cwd", "place"}: what other threads change
          MaxChanges    \* bound: changes they make during a call

Objects == Dirs \cup Files
Ops == {"openat", "unlinkat", "linkat", "renameat", "fexecve"}

(* A path: relative, or absolute through a directory at a place.  openat    *)
(* stands for the calls without flags, unlinkat for those that check them.  *)
Arg == [fd : Fds \cup {CWD, NEG}, at : Paths \cup {NULL}, empty : BOOLEAN]
Call == [op : Ops, flags : {"none", "known", "unknown"}, args : Seq(Arg)]

ASSUME ConstantsOK == /\ CallSet \subseteq Call
                      /\ \A c \in CallSet :
                           /\ Len(c.args) = IF c.op \in {"linkat", "renameat"} THEN 2 ELSE 1
                           /\ c.op \in {"openat", "renameat"} => c.flags = "none"
                      /\ IsFiniteSet(Fds)
                      /\ CWD \notin Fds /\ NEG \notin Fds /\ CWD # NEG
                      /\ Dirs \cap Files = {} /\ NULL \notin Objects \cup Paths
                      /\ KernelHas \subseteq BOOLEAN /\ MaxChanges \in Nat

VARIABLES fds,          \* the descriptor table: what each descriptor leads to
          cwd,          \* the working directory
          place,        \* where each object is
          kernelHas,    \* the kernel has the calls
          have,         \* __have_atfcts
          pc, call,     \* per thread: the step and the arguments
          size,         \* kf_len of the first sysctl, in entries
          paths,        \* file, from, to: the paths to use
          result,       \* what the call acted on, Error or NoSys
          moments,      \* history: what the kernel's call would have acted on,
                        \* at each moment since the call began
          moved,        \* history: an object was renamed since then
          changes       \* bounded by MaxChanges

world == <<fds, cwd, place, kernelHas>>
vars == <<world, have, pc, call, size, paths, result, moments, moved, changes>>

Error == <<>>
NoSys == <<"ENOSYS">>

Open(F) == {f \in Fds : F[f] # NULL}

-----------------------------------------------------------------------------
(* What a path leads to, for given descriptors F, directory W and places P. *)

ObjectAt(p, P) == IF \E o \in Objects : P[o] = p
                    THEN CHOOSE o \in Objects : P[o] = p ELSE NULL

DirAt(p, P) == IF ObjectAt(p, P) \in Dirs THEN ObjectAt(p, P) ELSE NULL

(* The kernel: relative to the descriptor's directory, wherever that is. *)
KernelArg(a, F, W, P) ==
  IF a.at # NULL THEN DirAt(a.at, P)
  ELSE IF a.empty THEN NULL
  ELSE IF a.fd = CWD THEN W
  ELSE IF a.fd \in Fds /\ F[a.fd] \in Dirs THEN F[a.fd]
  ELSE NULL

KernelFile(a, F) == IF a.fd \in Fds /\ F[a.fd] \in Files THEN F[a.fd] ELSE NULL

Found(s) == IF \A i \in DOMAIN s : s[i] \in Objects THEN s ELSE Error

Kernel(c, F, W, P) ==
  IF c.flags = "unknown" THEN Error
  ELSE IF c.op = "fexecve" THEN Found(<<KernelFile(c.args[1], F)>>)
  ELSE Found([i \in DOMAIN c.args |-> KernelArg(c.args[i], F, W, P)])

(* The plain calls: only paths. *)
PlainArg(a, W, P) == IF a.at # NULL THEN DirAt(a.at, P)
                     ELSE IF a.empty THEN NULL ELSE W

PlainFile(a, P) == IF ObjectAt(a.at, P) \in Files THEN ObjectAt(a.at, P) ELSE NULL

Plain(c, s, W, P) ==
  IF c.op = "fexecve" THEN Found(<<PlainFile(s[1], P)>>)
  ELSE Found([i \in DOMAIN s |-> PlainArg(s[i], W, P)])

-----------------------------------------------------------------------------
(* The emulation. *)

(* fd != AT_FDCWD && file[0] != '/' *)
UsesFd(a) == a.fd # CWD /\ a.at = NULL

(* Mutant: linkat and renameat look at the first path only. *)
MutNeedsTable(c) == UsesFd(c.args[1])

NeedsTable(c) == \E i \in DOMAIN c.args : UsesFd(c.args[i])

(* An unknown flag; for fexecve, an argv or envp that is NULL. *)
FlagsRefused(c) == \/ c.op \in {"unlinkat", "fexecve"} /\ c.flags = "unknown"
                   \/ c.op = "linkat" /\ c.flags # "none"

(* In linkat and renameat this looks at both descriptors, used or not. *)
FdNegative(c) == \E i \in DOMAIN c.args : c.args[i].fd \notin Fds

NameEmpty(c) == \E i \in DOMAIN c.args : c.args[i].at = NULL /\ c.args[i].empty

(* The search of the table for a descriptor, and the kf_path found there. *)
InTable(c, a, F) == /\ a.fd \in Fds
                    /\ F[a.fd] \in (IF c.op = "fexecve" THEN Files ELSE Dirs)

Joined(c, a, F, P) == IF c.op = "fexecve" \/ UsesFd(a)
                        THEN [fd |-> a.fd, at |-> P[F[a.fd]], empty |-> FALSE] ELSE a

Lookups(c) == {i \in DOMAIN c.args : c.op = "fexecve" \/ UsesFd(c.args[i])}

-----------------------------------------------------------------------------
Init == /\ fds \in [Fds -> Objects \cup {NULL}] /\ cwd \in Dirs
        /\ place \in [Objects -> Paths]
        /\ \A o, q \in Objects : place[o] = place[q] => o = q
        /\ kernelHas \in KernelHas /\ have = 0
        /\ pc = [t \in Threads |-> "idle"]
        /\ call = [t \in Threads |-> NULL]
        /\ size = [t \in Threads |-> 0]
        /\ paths = [t \in Threads |-> <<>>]
        /\ result = [t \in Threads |-> NULL]
        /\ moments = [t \in Threads |-> {}]
        /\ moved = [t \in Threads |-> FALSE]
        /\ changes = 0

InFlight == {t \in Threads : pc[t] \notin {"idle", "done"}}

Goto(t, l) == pc' = [pc EXCEPT ![t] = l]

Answer(t, r) == Goto(t, "done") /\ result' = [result EXCEPT ![t] = r]

Start(t, c) ==
  /\ pc[t] = "idle"
  /\ Goto(t, "try")
  /\ call' = [call EXCEPT ![t] = c]
  /\ moments' = [moments EXCEPT ![t] = {Kernel(c, fds, cwd, place)}]
  /\ UNCHANGED <<world, have, size, paths, result, moved, changes>>

(* Mutant: every missing call counts. *)
MutMissed(h) == h - 1

(* The value __have_atfcts gets when the kernel answers ENOSYS. *)
Missed(h) == -1

(* The kernel's call is made unless it has been missing before. *)
TryKernel(t) ==
  /\ pc[t] = "try" /\ have >= 0 /\ kernelHas
  /\ Answer(t, Kernel(call[t], fds, cwd, place))
  /\ UNCHANGED <<world, have, call, size, paths, moments, moved, changes>>

(* ENOSYS, now or before: the tests on the arguments. *)
FallBack(t) ==
  LET c == call[t] IN
  /\ pc[t] = "try" /\ ~(have >= 0 /\ kernelHas)
  /\ have' = Missed(have)
  /\ \/ /\ FlagsRefused(c) \/ ((NeedsTable(c) \/ c.op = "fexecve") /\ FdNegative(c))
           \/ (NeedsTable(c) /\ c.op # "fexecve" /\ NameEmpty(c))
        /\ Answer(t, Error) /\ UNCHANGED paths
     \/ /\ ~FlagsRefused(c) /\ ~NeedsTable(c) /\ c.op # "fexecve"
        /\ Goto(t, "path") /\ paths' = [paths EXCEPT ![t] = c.args] /\ UNCHANGED result
     \/ /\ ~FlagsRefused(c) /\ ~FdNegative(c)
        /\ c.op = "fexecve" \/ (NeedsTable(c) /\ ~NameEmpty(c))
        /\ Goto(t, "size") /\ UNCHANGED <<paths, result>>
  /\ UNCHANGED <<world, call, size, moments, moved, changes>>

(* The first sysctl: how large the table is. *)
TableSize(t) ==
  /\ pc[t] = "size"
  /\ \/ /\ size' = [size EXCEPT ![t] = Cardinality(Open(fds))]
        /\ Goto(t, "table") /\ UNCHANGED result
     \/ "sysctl" \in Faults /\ Answer(t, NoSys) /\ UNCHANGED size
  /\ UNCHANGED <<world, have, call, paths, moments, moved, changes>>

(* The second: the table, if it has not grown.  One copy serves both paths. *)
TableRead(t) ==
  LET c == call[t]  grown == Cardinality(Open(fds)) > size[t]  IN
  /\ pc[t] = "table"
  /\ \/ /\ grown \/ "sysctl" \in Faults
        /\ Answer(t, NoSys) /\ UNCHANGED paths
     \/ /\ ~grown /\ \E i \in Lookups(c) : ~InTable(c, c.args[i], fds)
        /\ Answer(t, Error) /\ UNCHANGED paths
     \/ /\ ~grown /\ \A i \in Lookups(c) : InTable(c, c.args[i], fds)
        /\ paths' = [paths EXCEPT ![t] =
                       [i \in DOMAIN c.args |-> Joined(c, c.args[i], fds, place)]]
        /\ Goto(t, "path") /\ UNCHANGED result
  /\ UNCHANGED <<world, have, call, size, moments, moved, changes>>

(* open, unlink, link, rename, execve ... with the path. *)
PlainCall(t) ==
  /\ pc[t] = "path"
  /\ Answer(t, Plain(call[t], paths[t], cwd, place))
  /\ UNCHANGED <<world, have, call, size, paths, moments, moved, changes>>

Return(t) ==
  /\ pc[t] = "done" /\ Goto(t, "idle")
  /\ call' = [call EXCEPT ![t] = NULL] /\ size' = [size EXCEPT ![t] = 0]
  /\ paths' = [paths EXCEPT ![t] = <<>>] /\ result' = [result EXCEPT ![t] = NULL]
  /\ moments' = [moments EXCEPT ![t] = {}] /\ moved' = [moved EXCEPT ![t] = FALSE]
  /\ changes' = IF InFlight = {} THEN 0 ELSE changes
  /\ UNCHANGED <<world, have>>

-----------------------------------------------------------------------------
(* The rest of the process and of the system: open, close and dup2 on any     *)
(* descriptor, chdir, and rename of any object to a free place.  What happens *)
(* while no call is under way is covered by Init.                             *)

Remember(F, W, P) ==
  /\ InFlight # {} /\ changes < MaxChanges /\ changes' = changes + 1
  /\ moments' = [t \in Threads |->
       IF t \in InFlight THEN moments[t] \cup {Kernel(call[t], F, W, P)} ELSE moments[t]]

SetFd(f, o) ==
  /\ "fd" \in Moves /\ fds' = [fds EXCEPT ![f] = o] /\ Remember(fds', cwd, place)
  /\ UNCHANGED <<cwd, place, kernelHas, have, pc, call, size, paths, result, moved>>

Chdir(d) ==
  /\ "cwd" \in Moves /\ cwd' = d /\ Remember(fds, d, place)
  /\ UNCHANGED <<fds, place, kernelHas, have, pc, call, size, paths, result, moved>>

Rename(o, p) ==
  /\ "place" \in Moves /\ \A q \in Objects : place[q] # p
  /\ place' = [place EXCEPT ![o] = p] /\ Remember(fds, cwd, place')
  /\ moved' = [t \in Threads |-> moved[t] \/ t \in InFlight]
  /\ UNCHANGED <<fds, cwd, kernelHas, have, pc, call, size, paths, result>>

-----------------------------------------------------------------------------
Step(t) == \/ TryKernel(t) \/ FallBack(t) \/ TableSize(t) \/ TableRead(t)
           \/ PlainCall(t) \/ Return(t)

Next == \/ \E t \in Threads : Step(t) \/ \E c \in CallSet : Start(t, c)
        \/ \E f \in Fds, o \in Objects \cup {NULL} : SetFd(f, o)
        \/ \E d \in Dirs : Chdir(d)
        \/ \E o \in Objects, p \in Paths : Rename(o, p)

Spec == Init /\ [][Next]_vars

-----------------------------------------------------------------------------
Results == UNION {[1 .. n -> Objects] : n \in 0 .. 2}

(* The types of the tables, of each call's state, and of its history. *)
TypeOK ==
  /\ fds \in [Fds -> Objects \cup {NULL}] /\ cwd \in Dirs
  /\ place \in [Objects -> Paths] /\ kernelHas \in KernelHas /\ have \in {-1, 0}
  /\ pc \in [Threads -> {"idle", "try", "size", "table", "path", "done"}]
  /\ call \in [Threads -> CallSet \cup {NULL}]
  /\ size \in [Threads -> 0 .. Cardinality(Fds)]
  /\ paths \in [Threads -> Seq(Arg)]
  /\ result \in [Threads -> Results \cup {NoSys, NULL}]
  /\ moments \in [Threads -> SUBSET Results]
  /\ moved \in [Threads -> BOOLEAN] /\ changes \in 0 .. MaxChanges

(* The emulation refuses these two on purpose or by mistake: AT_SYMLINK_FOLLOW *)
(* in linkat, and a pair of which one side does not use its negative descriptor. *)
Refused(c) == \/ c.op = "linkat" /\ c.flags = "known"
              \/ /\ NeedsTable(c)
                 /\ \E i \in DOMAIN c.args : c.args[i].fd \notin Fds /\ ~UsesFd(c.args[i])

ActedAtomically(t) == result[t] \in moments[t] \cup {NoSys}

(* As long as no directory is renamed meanwhile, a call acts on what the       *)
(* kernel's own call would have acted on at one moment of its execution - both *)
(* paths at the same moment - or fails, whatever other threads do to the       *)
(* descriptors and to the working directory.                                   *)
CallsAreAtomic ==
  \A t \in Threads : pc[t] = "done" /\ ~moved[t] /\ ~Refused(call[t]) => ActedAtomically(t)

(* "Relative paths in TO and FROM are interpreted relative to FROMFD and TOFD *)
(* respectively", AT_FDCWD included.                                          *)
EachPathRelativeToItsDescriptor ==
  \A t \in Threads :
    pc[t] = "done" /\ ~moved[t] /\ call[t].flags = "none" => ActedAtomically(t)
=============================================================================
