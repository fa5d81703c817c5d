------------------------ MODULE AtEmulation_proofs ------------------------
(***************************************************************************)
(* Proofs about AtEmulation, for every set of threads, descriptors,        *)
(* directories, files and paths, and however much other threads change     *)
(* meanwhile: the types, and that a call acts on what the kernel's own     *)
(* call would have acted on at one moment, unless something was renamed.   *)
(***************************************************************************)
EXTENDS AtEmulation, FiniteSetTheorems, TLAPS

(* The arguments of a call that is made. *)
LEMMA CallFacts ==
  ASSUME NEW c \in CallSet
  PROVE  /\ c \in Call /\ c.op \in Ops /\ c.args \in Seq(Arg)
         /\ c.flags \in {"none", "known", "unknown"}
         /\ DOMAIN c.args = 1 .. Len(c.args) /\ Len(c.args) \in {1, 2}
         /\ \A i \in DOMAIN c.args : c.args[i] \in Arg
         /\ c.op = "fexecve" => DOMAIN c.args = {1}
         /\ c.op \in {"openat", "renameat"} => c.flags = "none"
<1>1. c \in Call
  BY ConstantsOK
<1>2. c.op \in Ops /\ c.args \in Seq(Arg) /\ c.flags \in {"none", "known", "unknown"}
  BY <1>1 DEF Call
<1>3. DOMAIN c.args = 1 .. Len(c.args) /\ \A i \in DOMAIN c.args : c.args[i] \in Arg
  BY <1>2
<1>4. /\ Len(c.args) = IF c.op \in {"linkat", "renameat"} THEN 2 ELSE 1
      /\ c.op \in {"openat", "renameat"} => c.flags = "none"
  BY ConstantsOK
<1>5. c.op = "fexecve" => DOMAIN c.args = {1}
  <2>1. c.op = "fexecve" => Len(c.args) = 1
    BY <1>4
  <2>2. QED
    BY <1>3, <2>1
<1>6. QED
  BY <1>1, <1>2, <1>3, <1>4, <1>5

(* What a list of objects found, or not found, is. *)
LEMMA FoundType ==
  ASSUME NEW s, DOMAIN s = 1 .. 1 \/ DOMAIN s = 1 .. 2,
         s = [i \in DOMAIN s |-> s[i]]
  PROVE  Found(s) \in Results
<1>1. Error \in [1 .. 0 -> Objects]
  BY DEF Error
<1>2. Error \in Results
  BY <1>1 DEF Results
<1>3. ASSUME \A i \in DOMAIN s : s[i] \in Objects
      PROVE  s \in Results
  <2>1. s \in [DOMAIN s -> Objects]
    BY <1>3
  <2>2. PICK n \in 0 .. 2 : DOMAIN s = 1 .. n
    OBVIOUS
  <2>3. QED
    BY <2>1, <2>2 DEF Results
<1>4. QED
  BY <1>2, <1>3 DEF Found

(* What the kernel's call and the plain call act on. *)
LEMMA KernelType ==
  ASSUME NEW c \in CallSet, NEW F, NEW W, NEW P
  PROVE  Kernel(c, F, W, P) \in Results
<1>1. DOMAIN c.args = 1 .. 1 \/ DOMAIN c.args = 1 .. 2
  BY CallFacts
<1> DEFINE s == [i \in DOMAIN c.args |-> KernelArg(c.args[i], F, W, P)]
           f == <<KernelFile(c.args[1], F)>>
<1>2. Found(s) \in Results
  <2>1. DOMAIN s = 1 .. 1 \/ DOMAIN s = 1 .. 2
    BY <1>1
  <2>2. s = [i \in DOMAIN s |-> s[i]]
    OBVIOUS
  <2> HIDE DEF s
  <2>3. QED
    BY <2>1, <2>2, FoundType
<1>3. Found(f) \in Results
  <2>1. DOMAIN f = 1 .. 1
    OBVIOUS
  <2>2. f = [i \in DOMAIN f |-> f[i]]
    OBVIOUS
  <2> HIDE DEF f
  <2>3. QED
    BY <2>1, <2>2, FoundType
<1>4. Error \in Results
  <2>1. Error \in [1 .. 0 -> Objects]
    BY DEF Error
  <2>2. QED
    BY <2>1 DEF Results
<1>5. QED
  BY <1>2, <1>3, <1>4 DEF Kernel

-----------------------------------------------------------------------------
(* The emulation and the kernel agree while nothing is renamed. *)

(* An argument that leads nowhere makes the call fail. *)
LEMMA FoundFails ==
  ASSUME NEW s, NEW i \in DOMAIN s, s[i] \notin Objects
  PROVE  Found(s) = Error
  BY DEF Found

(* The object at the place of an object is that object. *)
LEMMA PlaceInverse ==
  ASSUME NEW P, \A o, q \in Objects : P[o] = P[q] => o = q, NEW o \in Objects
  PROVE  ObjectAt(P[o], P) = o
  BY DEF ObjectAt

(* Paths that are used as they are: the plain call is the kernel's call. *)
LEMMA PlainIsKernel ==
  ASSUME NEW c \in CallSet, c.op # "fexecve", ~FlagsRefused(c), ~NeedsTable(c),
         NEW F, NEW W, NEW P
  PROVE  Plain(c, c.args, W, P) = Kernel(c, F, W, P)
<1>1. c.flags # "unknown"
  BY CallFacts DEF FlagsRefused, Ops
<1>2. \A i \in DOMAIN c.args :
        PlainArg(c.args[i], W, P) = KernelArg(c.args[i], F, W, P)
  BY DEF NeedsTable, UsesFd, PlainArg, KernelArg
<1>3. [i \in DOMAIN c.args |-> PlainArg(c.args[i], W, P)]
        = [i \in DOMAIN c.args |-> KernelArg(c.args[i], F, W, P)]
  BY <1>2
<1>4. QED
  BY <1>1, <1>3 DEF Plain, Kernel

(* The tests made before the table is read. *)
Checked(c) == /\ ~FlagsRefused(c) /\ ~FdNegative(c)
              /\ c.op = "fexecve" \/ (NeedsTable(c) /\ ~NameEmpty(c))

(* What the tests refuse, the kernel refuses. *)
LEMMA TestsRefuse ==
  ASSUME NEW c \in CallSet, ~Refused(c),
         \/ FlagsRefused(c) \/ ((NeedsTable(c) \/ c.op = "fexecve") /\ FdNegative(c))
         \/ (NeedsTable(c) /\ c.op # "fexecve" /\ NameEmpty(c)),
         NEW F, NEW W, NEW P
  PROVE  Kernel(c, F, W, P) = Error
<1> DEFINE s == [i \in DOMAIN c.args |-> KernelArg(c.args[i], F, W, P)]
<1>0. NULL \notin Objects /\ CWD \notin Fds
  BY ConstantsOK
<1>1. CASE FlagsRefused(c)
  <2>1. c.flags = "unknown"
    BY <1>1, CallFacts DEF FlagsRefused, Refused
  <2>2. QED
    BY <2>1 DEF Kernel
<1>2. CASE c.op = "fexecve" /\ FdNegative(c)
  <2>1. c.args[1].fd \notin Fds
    BY <1>2, CallFacts DEF FdNegative
  <2>2. KernelFile(c.args[1], F) = NULL
    BY <2>1 DEF KernelFile
  <2>3. Found(<<KernelFile(c.args[1], F)>>) = Error
    BY <1>0, <2>2, FoundFails
  <2>4. QED
    BY <1>2, <2>3 DEF Kernel
<1>3. CASE NeedsTable(c) /\ c.op # "fexecve" /\ FdNegative(c)
  <2>1. PICK i \in DOMAIN c.args : c.args[i].fd \notin Fds
    BY <1>3 DEF FdNegative
  <2>2. UsesFd(c.args[i])
    BY <1>3, <2>1 DEF Refused
  <2>3. KernelArg(c.args[i], F, W, P) = NULL
    BY <2>1, <2>2 DEF UsesFd, KernelArg
  <2>4. Found(s) = Error
    BY <1>0, <2>3, FoundFails
  <2>5. QED
    BY <1>3, <2>4 DEF Kernel
<1>4. CASE NeedsTable(c) /\ c.op # "fexecve" /\ NameEmpty(c)
  <2>1. PICK i \in DOMAIN c.args : c.args[i].at = NULL /\ c.args[i].empty
    BY <1>4 DEF NameEmpty
  <2>2. KernelArg(c.args[i], F, W, P) = NULL
    BY <2>1 DEF KernelArg
  <2>3. Found(s) = Error
    BY <1>0, <2>2, FoundFails
  <2>4. QED
    BY <1>4, <2>3 DEF Kernel
<1>5. QED
  BY <1>1, <1>2, <1>3, <1>4

(* What is not in the table, the kernel does not find. *)
LEMMA NotInTable ==
  ASSUME NEW c \in CallSet, NEW F, NEW W, NEW P,
         NEW i \in Lookups(c), ~InTable(c, c.args[i], F)
  PROVE  Kernel(c, F, W, P) = Error
<1> DEFINE s == [j \in DOMAIN c.args |-> KernelArg(c.args[j], F, W, P)]
<1>0. NULL \notin Objects /\ CWD \notin Fds
  BY ConstantsOK
<1>1. CASE c.op = "fexecve"
  <2>1. i = 1
    BY <1>1, CallFacts DEF Lookups
  <2>2. KernelFile(c.args[1], F) = NULL
    BY <1>1, <2>1 DEF InTable, KernelFile
  <2>3. Found(<<KernelFile(c.args[1], F)>>) = Error
    BY <1>0, <2>2, FoundFails
  <2>4. QED
    BY <1>1, <2>3 DEF Kernel
<1>2. CASE c.op # "fexecve"
  <2>1. i \in DOMAIN c.args /\ UsesFd(c.args[i])
    BY <1>2 DEF Lookups
  <2>2. KernelArg(c.args[i], F, W, P) = NULL
    BY <1>2, <2>1 DEF InTable, UsesFd, KernelArg
  <2>3. Found(s) = Error
    BY <1>0, <2>1, <2>2, FoundFails
  <2>4. QED
    BY <1>2, <2>3 DEF Kernel
<1>3. QED
  BY <1>1, <1>2

(* The paths put together from the table lead where the descriptors do,    *)
(* whatever the working directory is when they are used.                   *)
LEMMA JoinedIsKernel ==
  ASSUME NEW c \in CallSet, Checked(c), NEW F, NEW W, NEW V, NEW P,
         P \in [Objects -> Paths], \A o, q \in Objects : P[o] = P[q] => o = q,
         \A i \in Lookups(c) : InTable(c, c.args[i], F)
  PROVE  Plain(c, [i \in DOMAIN c.args |-> Joined(c, c.args[i], F, P)], V, P)
           = Kernel(c, F, W, P)
<1> DEFINE s == [i \in DOMAIN c.args |-> Joined(c, c.args[i], F, P)]
<1>0. NULL \notin Paths /\ c.flags # "unknown"
  <2>1. NULL \notin Paths
    BY ConstantsOK
  <2>2. c.flags # "unknown"
    BY CallFacts DEF Checked, FlagsRefused, Ops
  <2>3. QED
    BY <2>1, <2>2
<1>1. CASE c.op = "fexecve"
  <2>1. 1 \in DOMAIN c.args /\ 1 \in Lookups(c)
    BY <1>1, CallFacts DEF Lookups
  <2>2. c.args[1].fd \in Fds /\ F[c.args[1].fd] \in Files
    BY <1>1, <2>1 DEF InTable
  <2>3. s[1].at = P[F[c.args[1].fd]]
    BY <1>1, <2>1 DEF Joined
  <2>4. PlainFile(s[1], P) = KernelFile(c.args[1], F)
    BY <2>2, <2>3, PlaceInverse DEF PlainFile, KernelFile, Objects
  <2>5. QED
    BY <1>0, <1>1, <2>4 DEF Plain, Kernel
<1>2. CASE c.op # "fexecve"
  <2>1. ASSUME NEW i \in DOMAIN c.args
        PROVE  PlainArg(s[i], V, P) = KernelArg(c.args[i], F, W, P)
    <3>1. CASE UsesFd(c.args[i])
      <4>1. c.args[i].fd \in Fds /\ F[c.args[i].fd] \in Dirs
        BY <1>2, <3>1 DEF Lookups, InTable
      <4>2. s[i].at = P[F[c.args[i].fd]] /\ s[i].at # NULL
        BY <1>0, <3>1, <4>1 DEF Joined, Objects
      <4>3. PlainArg(s[i], V, P) = F[c.args[i].fd]
        BY <4>1, <4>2, PlaceInverse DEF PlainArg, DirAt, Objects
      <4>4. c.args[i].at = NULL /\ c.args[i].fd # CWD /\ ~c.args[i].empty
        BY <1>2, <3>1 DEF UsesFd, Checked, NameEmpty
      <4>5. QED
        BY <4>1, <4>3, <4>4 DEF KernelArg
    <3>2. CASE ~UsesFd(c.args[i])
      <4>1. s[i] = c.args[i]
        BY <1>2, <3>2 DEF Joined
      <4>2. c.args[i].at # NULL
        BY <3>2, ConstantsOK DEF UsesFd, Checked, FdNegative
      <4>3. QED
        BY <4>1, <4>2 DEF PlainArg, KernelArg
    <3>3. QED
      BY <3>1, <3>2
  <2>2. [i \in DOMAIN s |-> PlainArg(s[i], V, P)]
          = [i \in DOMAIN c.args |-> KernelArg(c.args[i], F, W, P)]
    BY <2>1
  <2>3. QED
    BY <1>0, <1>2, <2>2 DEF Plain, Kernel
<1>3. QED
  BY <1>1, <1>2

-----------------------------------------------------------------------------
(* The inductive invariant.  It says of each call that the history holds   *)
(* what the kernel's call would act on now, that the table is read only    *)
(* after the tests, and that the paths of a call about to be made lead to  *)
(* one of the recorded answers, unless an object was renamed meanwhile.    *)

Placed == \A o, q \in Objects : place[o] = place[q] => o = q

(* Paths used as they came, or put together from the table. *)
PathsLead(t) ==
  \/ /\ paths[t] = call[t].args /\ call[t].op # "fexecve"
     /\ ~FlagsRefused(call[t]) /\ ~NeedsTable(call[t])
  \/ \A W \in Dirs : Plain(call[t], paths[t], W, place) \in moments[t]

CallInv(t) ==
  /\ pc[t] # "idle" => call[t] \in CallSet
  /\ t \in InFlight => Kernel(call[t], fds, cwd, place) \in moments[t]
  /\ pc[t] \in {"size", "table"} => Checked(call[t])
  /\ pc[t] = "path" => DOMAIN paths[t] = DOMAIN call[t].args
  /\ pc[t] = "path" /\ ~moved[t] /\ ~Refused(call[t]) => PathsLead(t)
  /\ pc[t] = "done" /\ ~moved[t] /\ ~Refused(call[t]) => ActedAtomically(t)

AtInv == TypeOK /\ Placed /\ \A t \in Threads : CallInv(t)

(* The other calls do not notice a step of one thread. *)
LEMMA OtherCalls ==
  ASSUME AtInv, NEW t \in Threads, NEW l, NEW c, NEW p, NEW r, NEW m, NEW b,
         pc' = [pc EXCEPT ![t] = l], call' = [call EXCEPT ![t] = c],
         paths' = [paths EXCEPT ![t] = p], result' = [result EXCEPT ![t] = r],
         moments' = [moments EXCEPT ![t] = m], moved' = [moved EXCEPT ![t] = b],
         UNCHANGED world, NEW u \in Threads, u # t
  PROVE  CallInv(u)'
<1>1. /\ pc'[u] = pc[u] /\ call'[u] = call[u] /\ paths'[u] = paths[u]
      /\ result'[u] = result[u] /\ moments'[u] = moments[u] /\ moved'[u] = moved[u]
  BY DEF AtInv, TypeOK
<1>2. fds' = fds /\ cwd' = cwd /\ place' = place
  BY DEF world
<1>3. CallInv(u)
  BY DEF AtInv
<1>4. (u \in InFlight') <=> (u \in InFlight)
  BY <1>1 DEF InFlight
<1>5. PathsLead(u) => PathsLead(u)'
  BY <1>1, <1>2 DEF PathsLead
<1>6. ActedAtomically(u) => ActedAtomically(u)'
  BY <1>1 DEF ActedAtomically
<1>7. QED
  BY <1>1, <1>2, <1>3, <1>4, <1>5, <1>6 DEF CallInv

(* A call starts, with the kernel's answer at this moment in its history. *)
LEMMA StartKeeps ==
  ASSUME AtInv, NEW t \in Threads, NEW c \in CallSet, Start(t, c)
  PROVE  AtInv'
<1>1. /\ pc' = [pc EXCEPT ![t] = "try"] /\ call' = [call EXCEPT ![t] = c]
      /\ moments' = [moments EXCEPT ![t] = {Kernel(c, fds, cwd, place)}]
      /\ paths' = paths /\ result' = result /\ moved' = moved
      /\ UNCHANGED <<world, have, size, changes>>
  BY DEF Start, Goto
<1>2. Kernel(c, fds, cwd, place) \in Results
  BY KernelType
<1>3. TypeOK'
  BY <1>1, <1>2 DEF AtInv, TypeOK, world
<1>4. Placed'
  BY <1>1 DEF AtInv, Placed, world
<1>5. CallInv(t)'
  BY <1>1 DEF AtInv, TypeOK, CallInv, world
<1>6. ASSUME NEW u \in Threads, u # t PROVE CallInv(u)'
  <2>1. /\ paths' = [paths EXCEPT ![t] = paths[t]]
        /\ result' = [result EXCEPT ![t] = result[t]]
        /\ moved' = [moved EXCEPT ![t] = moved[t]]
    BY <1>1 DEF AtInv, TypeOK
  <2>2. QED
    BY <1>1, <1>6, <2>1, OtherCalls
<1>7. QED
  BY <1>3, <1>4, <1>5, <1>6 DEF AtInv

(* A call is answered with what the kernel's call gives now, or fails      *)
(* because the kernel's call would, or because sysctl does.                *)
LEMMA AnswerKeeps ==
  ASSUME AtInv, NEW t \in Threads, NEW r \in Results \cup {NoSys}, Answer(t, r),
         call[t] \in CallSet,
         ~moved[t] /\ ~Refused(call[t]) => r \in moments[t] \cup {NoSys},
         have' \in {-1, 0}, size' \in [Threads -> 0 .. Cardinality(Fds)],
         UNCHANGED <<world, call, paths, moments, moved, changes>>
  PROVE  AtInv'
<1>1. pc' = [pc EXCEPT ![t] = "done"] /\ result' = [result EXCEPT ![t] = r]
  BY DEF Answer, Goto
<1>2. TypeOK'
  BY <1>1 DEF AtInv, TypeOK, world
<1>3. Placed'
  BY DEF AtInv, Placed, world
<1>4. CallInv(t)'
  BY <1>1 DEF AtInv, TypeOK, CallInv, ActedAtomically, InFlight
<1>5. ASSUME NEW u \in Threads, u # t PROVE CallInv(u)'
  <2>1. /\ paths' = [paths EXCEPT ![t] = paths[t]]
        /\ call' = [call EXCEPT ![t] = call[t]]
        /\ moments' = [moments EXCEPT ![t] = moments[t]]
        /\ moved' = [moved EXCEPT ![t] = moved[t]]
    BY DEF AtInv, TypeOK
  <2>2. QED
    BY <1>1, <1>5, <2>1, OtherCalls
<1>6. QED
  BY <1>2, <1>3, <1>4, <1>5 DEF AtInv

(* A call goes on: with the table, or with paths that lead where they should. *)
LEMMA ProceedKeeps ==
  ASSUME AtInv, NEW t \in Threads, NEW l \in {"size", "table", "path"}, Goto(t, l),
         t \in InFlight, NEW p \in Seq(Arg), paths' = [paths EXCEPT ![t] = p],
         l \in {"size", "table"} => Checked(call[t]),
         l = "path" => DOMAIN p = DOMAIN call[t].args,
         l = "path" /\ ~moved[t] /\ ~Refused(call[t]) => PathsLead(t)',
         have' \in {-1, 0}, size' \in [Threads -> 0 .. Cardinality(Fds)],
         UNCHANGED <<world, call, result, moments, moved, changes>>
  PROVE  AtInv'
<1>1. pc' = [pc EXCEPT ![t] = l]
  BY DEF Goto
<1>2. TypeOK'
  BY <1>1 DEF AtInv, TypeOK, world
<1>3. Placed'
  BY DEF AtInv, Placed, world
<1>4. CallInv(t)'
  <2>1. pc'[t] = l /\ pc[t] # "idle" /\ paths'[t] = p
    BY <1>1 DEF AtInv, TypeOK, InFlight
  <2>2. QED
    BY <2>1 DEF AtInv, CallInv, InFlight, world
<1>5. ASSUME NEW u \in Threads, u # t PROVE CallInv(u)'
  <2>1. /\ result' = [result EXCEPT ![t] = result[t]]
        /\ call' = [call EXCEPT ![t] = call[t]]
        /\ moments' = [moments EXCEPT ![t] = moments[t]]
        /\ moved' = [moved EXCEPT ![t] = moved[t]]
    BY DEF AtInv, TypeOK
  <2>2. UNCHANGED world /\ u # t
    BY <1>5
  <2>3. QED
    BY ONLY AtInv, t \in Threads, u \in Threads, paths' = [paths EXCEPT ![t] = p], <1>1, <2>1, <2>2, OtherCalls
<1>6. QED
  BY <1>2, <1>3, <1>4, <1>5 DEF AtInv

-----------------------------------------------------------------------------
(* The steps of a call. *)

(* What the plain calls act on has the type of what the kernel's call does. *)
LEMMA PlainType ==
  ASSUME NEW c \in CallSet, NEW s, DOMAIN s = DOMAIN c.args, NEW W, NEW P
  PROVE  Plain(c, s, W, P) \in Results
<1>1. DOMAIN c.args = 1 .. 1 \/ DOMAIN c.args = 1 .. 2
  BY CallFacts
<1> DEFINE r == [i \in DOMAIN s |-> PlainArg(s[i], W, P)]
           f == <<PlainFile(s[1], P)>>
<1>2. Found(r) \in Results
  <2>1. DOMAIN r = 1 .. 1 \/ DOMAIN r = 1 .. 2
    BY <1>1
  <2>2. r = [i \in DOMAIN r |-> r[i]]
    OBVIOUS
  <2> HIDE DEF r
  <2>3. QED
    BY <2>1, <2>2, FoundType
<1>3. Found(f) \in Results
  <2>1. DOMAIN f = 1 .. 1
    OBVIOUS
  <2>2. f = [i \in DOMAIN f |-> f[i]]
    OBVIOUS
  <2> HIDE DEF f
  <2>3. QED
    BY <2>1, <2>2, FoundType
<1>4. QED
  BY <1>2, <1>3 DEF Plain

(* A failed call is one of the answers. *)
LEMMA ErrorType == Error \in Results
<1>1. Error \in [1 .. 0 -> Objects]
  BY DEF Error
<1>2. QED
  BY <1>1 DEF Results

(* A call under way is one of the calls, and its history holds the answer  *)
(* of the kernel's call now.                                               *)
LEMMA UnderWay ==
  ASSUME AtInv, NEW t \in Threads, pc[t] \in {"try", "size", "table", "path"}
  PROVE  /\ call[t] \in CallSet /\ t \in InFlight
         /\ Kernel(call[t], fds, cwd, place) \in moments[t]
  BY DEF AtInv, CallInv, InFlight

(* The kernel has the call and makes it. *)
LEMMA TryKernelKeeps ==
  ASSUME AtInv, NEW t \in Threads, TryKernel(t)
  PROVE  AtInv'
<1> DEFINE r == Kernel(call[t], fds, cwd, place)
<1>1. call[t] \in CallSet /\ r \in moments[t]
  BY UnderWay DEF TryKernel
<1>2. r \in Results
  BY <1>1, KernelType
<1>3. /\ Answer(t, r)
      /\ UNCHANGED <<world, have, call, size, paths, moments, moved, changes>>
  BY DEF TryKernel
<1>4. have' \in {-1, 0} /\ size' \in [Threads -> 0 .. Cardinality(Fds)]
  BY <1>3 DEF AtInv, TypeOK
<1> HIDE DEF r
<1>5. QED
  BY <1>1, <1>2, <1>3, <1>4, AnswerKeeps

(* The kernel has not: the arguments are tested. *)
LEMMA FallBackKeeps ==
  ASSUME AtInv, NEW t \in Threads, FallBack(t)
  PROVE  AtInv'
<1>1. pc[t] = "try" /\ have' = -1
      /\ UNCHANGED <<world, call, size, moments, moved, changes>>
  BY DEF FallBack, Missed
<1>2. /\ call[t] \in CallSet /\ t \in InFlight
      /\ Kernel(call[t], fds, cwd, place) \in moments[t]
  BY <1>1, UnderWay
<1>3. have' \in {-1, 0} /\ size' \in [Threads -> 0 .. Cardinality(Fds)]
  BY <1>1 DEF AtInv, TypeOK
<1>4. CASE /\ \/ FlagsRefused(call[t])
              \/ ((NeedsTable(call[t]) \/ call[t].op = "fexecve") /\ FdNegative(call[t]))
              \/ (NeedsTable(call[t]) /\ call[t].op # "fexecve" /\ NameEmpty(call[t]))
           /\ Answer(t, Error) /\ UNCHANGED paths
  <2>1. ~Refused(call[t]) => Error \in moments[t]
    BY <1>2, <1>4, TestsRefuse
  <2>2. QED
    BY <1>1, <1>2, <1>3, <1>4, <2>1, ErrorType, AnswerKeeps
<1>5. CASE /\ ~FlagsRefused(call[t]) /\ ~NeedsTable(call[t]) /\ call[t].op # "fexecve"
           /\ Goto(t, "path") /\ paths' = [paths EXCEPT ![t] = call[t].args]
           /\ UNCHANGED result
  <2>1. call[t].args \in Seq(Arg)
    BY <1>2, CallFacts
  <2>2. paths'[t] = call[t].args /\ call' = call
    BY <1>1, <1>5 DEF AtInv, TypeOK
  <2>3. PathsLead(t)'
    BY <1>5, <2>2 DEF PathsLead
  <2>4. QED
    BY <1>1, <1>2, <1>3, <1>5, <2>1, <2>3, ProceedKeeps
<1>6. CASE /\ ~FlagsRefused(call[t]) /\ ~FdNegative(call[t])
           /\ call[t].op = "fexecve" \/ (NeedsTable(call[t]) /\ ~NameEmpty(call[t]))
           /\ Goto(t, "size") /\ UNCHANGED <<paths, result>>
  <2>1. Checked(call[t])
    BY <1>6 DEF Checked
  <2>2. paths[t] \in Seq(Arg) /\ paths' = [paths EXCEPT ![t] = paths[t]]
    BY <1>6 DEF AtInv, TypeOK
  <2>3. QED
    BY <1>1, <1>2, <1>3, <1>6, <2>1, <2>2, ProceedKeeps
<1>7. QED
  BY <1>4, <1>5, <1>6 DEF FallBack

(* The first sysctl. *)
LEMMA TableSizeKeeps ==
  ASSUME AtInv, NEW t \in Threads, TableSize(t)
  PROVE  AtInv'
<1>1. pc[t] = "size" /\ UNCHANGED <<world, have, call, paths, moments, moved, changes>>
  BY DEF TableSize
<1>2. /\ call[t] \in CallSet /\ t \in InFlight /\ Checked(call[t])
      /\ have' \in {-1, 0} /\ size \in [Threads -> 0 .. Cardinality(Fds)]
  BY <1>1, UnderWay DEF AtInv, CallInv, TypeOK
<1>3. CASE /\ size' = [size EXCEPT ![t] = Cardinality(Open(fds))]
           /\ Goto(t, "table") /\ UNCHANGED result
  <2>1. IsFiniteSet(Fds) /\ Open(fds) \subseteq Fds
    BY ConstantsOK DEF Open
  <2>2. /\ IsFiniteSet(Open(fds)) /\ Cardinality(Open(fds)) \in Nat
        /\ Cardinality(Fds) \in Nat /\ Cardinality(Open(fds)) <= Cardinality(Fds)
    BY <2>1, FS_Subset, FS_CardinalityType
  <2>3. size' \in [Threads -> 0 .. Cardinality(Fds)]
    BY <1>2, <1>3, <2>2
  <2>4. paths[t] \in Seq(Arg) /\ paths' = [paths EXCEPT ![t] = paths[t]]
    BY <1>1 DEF AtInv, TypeOK
  <2>5. QED
    BY <1>1, <1>2, <1>3, <2>3, <2>4, ProceedKeeps
<1>4. CASE Answer(t, NoSys) /\ UNCHANGED size
  BY <1>1, <1>2, <1>4, AnswerKeeps
<1>5. QED
  BY <1>3, <1>4 DEF TableSize

(* The second, and the paths put together from it. *)
LEMMA TableReadKeeps ==
  ASSUME AtInv, NEW t \in Threads, TableRead(t)
  PROVE  AtInv'
<1> DEFINE c == call[t]
           p == [i \in DOMAIN c.args |-> Joined(c, c.args[i], fds, place)]
<1>1. pc[t] = "table" /\ UNCHANGED <<world, have, call, size, moments, moved, changes>>
  BY DEF TableRead
<1>2. /\ c \in CallSet /\ t \in InFlight /\ Checked(c)
      /\ Kernel(c, fds, cwd, place) \in moments[t]
      /\ have' \in {-1, 0} /\ size' \in [Threads -> 0 .. Cardinality(Fds)]
  BY <1>1, UnderWay DEF AtInv, CallInv, TypeOK
<1>3. CASE Answer(t, NoSys) /\ UNCHANGED paths
  BY <1>1, <1>2, <1>3, AnswerKeeps
<1>4. CASE /\ \E i \in Lookups(c) : ~InTable(c, c.args[i], fds)
           /\ Answer(t, Error) /\ UNCHANGED paths
  <2>1. Error \in moments[t]
    BY <1>2, <1>4, NotInTable
  <2>2. QED
    BY <1>1, <1>2, <1>4, <2>1, ErrorType, AnswerKeeps
<1>5. CASE /\ \A i \in Lookups(c) : InTable(c, c.args[i], fds)
           /\ paths' = [paths EXCEPT ![t] = p]
           /\ Goto(t, "path") /\ UNCHANGED result
  <2>1. p \in Seq(Arg)
    <3>1. ASSUME NEW i \in DOMAIN c.args
          PROVE  Joined(c, c.args[i], fds, place) \in Arg
      <4>1. CASE i \in Lookups(c)
        <5>1. c.args[i].fd \in Fds /\ fds[c.args[i].fd] \in Objects
          BY <1>5, <4>1 DEF InTable, Objects
        <5>2. place[fds[c.args[i].fd]] \in Paths
          BY <5>1 DEF AtInv, TypeOK
        <5>3. QED
          BY <1>2, <4>1, <5>1, <5>2 DEF Joined, Lookups, Arg
      <4>2. CASE i \notin Lookups(c)
        BY <1>2, <3>1, <4>2, CallFacts DEF Joined, Lookups
      <4>3. QED
        BY <4>1, <4>2
    <3>2. DOMAIN c.args = 1 .. Len(c.args) /\ Len(c.args) \in Nat
      BY <1>2, CallFacts
    <3>3. p \in [1 .. Len(c.args) -> Arg]
      BY <3>1, <3>2
    <3> HIDE DEF p
    <3>4. QED
      BY <3>2, <3>3
  <2>2. paths'[t] = p /\ call' = call /\ place' = place /\ moments' = moments
    BY <1>1, <1>5 DEF AtInv, TypeOK, world
  <2>3. ASSUME NEW V \in Dirs
        PROVE  Plain(c, p, V, place) = Kernel(c, fds, cwd, place)
    <3>1. place \in [Objects -> Paths] /\ \A o, q \in Objects : place[o] = place[q] => o = q
      BY DEF AtInv, TypeOK, Placed
    <3>2. QED
      BY <1>2, <1>5, <3>1, JoinedIsKernel
  <2>4. PathsLead(t)'
    <3> HIDE DEF p
    <3>1. QED
      BY <1>2, <2>2, <2>3 DEF PathsLead
  <2>5. DOMAIN p = DOMAIN c.args
    OBVIOUS
  <2> HIDE DEF p
  <2>6. QED
    BY <1>1, <1>2, <1>5, <2>1, <2>4, <2>5, ProceedKeeps
<1>6. QED
  BY <1>3, <1>4, <1>5 DEF TableRead

(* The plain call acts on one of the recorded answers. *)
LEMMA PlainCallKeeps ==
  ASSUME AtInv, NEW t \in Threads, PlainCall(t)
  PROVE  AtInv'
<1> DEFINE r == Plain(call[t], paths[t], cwd, place)
<1>1. /\ pc[t] = "path" /\ Answer(t, r)
      /\ UNCHANGED <<world, have, call, size, paths, moments, moved, changes>>
  BY DEF PlainCall
<1>2. /\ call[t] \in CallSet /\ Kernel(call[t], fds, cwd, place) \in moments[t]
      /\ DOMAIN paths[t] = DOMAIN call[t].args
      /\ ~moved[t] /\ ~Refused(call[t]) => PathsLead(t)
      /\ have' \in {-1, 0} /\ size' \in [Threads -> 0 .. Cardinality(Fds)]
      /\ cwd \in Dirs
  BY <1>1, UnderWay DEF AtInv, CallInv, TypeOK
<1>3. r \in Results
  BY <1>2, PlainType
<1>4. ASSUME ~moved[t], ~Refused(call[t]) PROVE r \in moments[t]
  <2>1. CASE \A W \in Dirs : Plain(call[t], paths[t], W, place) \in moments[t]
    BY <1>2, <2>1
  <2>2. CASE /\ paths[t] = call[t].args /\ call[t].op # "fexecve"
             /\ ~FlagsRefused(call[t]) /\ ~NeedsTable(call[t])
    BY <1>2, <2>2, PlainIsKernel
  <2>3. QED
    BY <1>2, <1>4, <2>1, <2>2 DEF PathsLead
<1> HIDE DEF r
<1>5. QED
  BY <1>1, <1>2, <1>3, <1>4, AnswerKeeps

(* The call returns and everything it kept is gone. *)
LEMMA ReturnKeeps ==
  ASSUME AtInv, NEW t \in Threads, Return(t)
  PROVE  AtInv'
<1>1. /\ pc' = [pc EXCEPT ![t] = "idle"] /\ call' = [call EXCEPT ![t] = NULL]
      /\ paths' = [paths EXCEPT ![t] = <<>>] /\ result' = [result EXCEPT ![t] = NULL]
      /\ moments' = [moments EXCEPT ![t] = {}] /\ moved' = [moved EXCEPT ![t] = FALSE]
      /\ UNCHANGED world
  BY DEF Return, Goto
<1>2. TypeOK'
  <2>1. size' \in [Threads -> 0 .. Cardinality(Fds)]
    <3>1. Cardinality(Fds) \in Nat
      BY ConstantsOK, FS_CardinalityType
    <3>2. QED
      BY <3>1 DEF Return, AtInv, TypeOK
  <2>2. changes' \in 0 .. MaxChanges /\ have' = have
    BY ConstantsOK DEF Return, AtInv, TypeOK
  <2>3. paths' \in [Threads -> Seq(Arg)] /\ moments' \in [Threads -> SUBSET Results]
    <3>1. <<>> \in Seq(Arg)
      OBVIOUS
    <3>2. QED
      BY <1>1, <3>1 DEF AtInv, TypeOK
  <2>4. pc' \in [Threads -> {"idle", "try", "size", "table", "path", "done"}]
        /\ call' \in [Threads -> CallSet \cup {NULL}]
    BY <1>1 DEF AtInv, TypeOK
  <2>5. result' \in [Threads -> Results \cup {NoSys, NULL}]
        /\ moved' \in [Threads -> BOOLEAN]
    BY <1>1 DEF AtInv, TypeOK
  <2>6. QED
    BY <1>1, <2>1, <2>2, <2>3, <2>4, <2>5 DEF AtInv, TypeOK, world
<1>3. Placed'
  BY <1>1 DEF AtInv, Placed, world
<1>4. CallInv(t)'
  <2>1. pc'[t] = "idle"
    BY <1>1 DEF AtInv, TypeOK
  <2>2. QED
    BY <2>1 DEF CallInv, InFlight
<1>5. ASSUME NEW u \in Threads, u # t PROVE CallInv(u)'
  BY <1>1, <1>5, OtherCalls
<1>6. QED
  BY <1>2, <1>3, <1>4, <1>5 DEF AtInv

(* What other threads change is added to the history of every call under   *)
(* way, and a rename marks them all.                                       *)
LEMMA WorldKeeps ==
  ASSUME AtInv,
         fds' \in [Fds -> Objects \cup {NULL}], cwd' \in Dirs,
         place' \in [Objects -> Paths], Placed',
         Remember(fds', cwd', place'),
         UNCHANGED <<kernelHas, have, pc, call, size, paths, result>>,
         \/ place' = place /\ moved' = moved
         \/ moved' = [t \in Threads |-> moved[t] \/ t \in InFlight]
  PROVE  AtInv'
<1>1. /\ changes' = changes + 1 /\ changes < MaxChanges
      /\ moments' = [t \in Threads |-> IF t \in InFlight
                       THEN moments[t] \cup {Kernel(call[t], fds', cwd', place')}
                       ELSE moments[t]]
  BY DEF Remember
<1>2. InFlight' = InFlight
  BY DEF InFlight
<1>3. ASSUME NEW t \in InFlight
      PROVE  t \in Threads /\ Kernel(call[t], fds', cwd', place') \in Results
  <2>1. t \in Threads /\ call[t] \in CallSet
    BY DEF InFlight, AtInv, CallInv
  <2>2. QED
    BY <2>1, KernelType
<1>4. moved' \in [Threads -> BOOLEAN]
  BY DEF AtInv, TypeOK
<1>5. TypeOK'
  <2>1. moments' \in [Threads -> SUBSET Results]
    BY <1>1, <1>3 DEF AtInv, TypeOK
  <2>2. changes' \in 0 .. MaxChanges
    BY <1>1, ConstantsOK DEF AtInv, TypeOK
  <2>3. QED
    BY <1>4, <2>1, <2>2 DEF AtInv, TypeOK
<1>6. ASSUME NEW t \in Threads PROVE CallInv(t)'
  <2>1. CallInv(t) /\ moments[t] \subseteq moments'[t]
    BY <1>1 DEF AtInv
  <2>2. t \in InFlight => Kernel(call'[t], fds', cwd', place') \in moments'[t]
    BY <1>1
  <2>3. pc[t] = "path" => t \in InFlight
    BY DEF InFlight
  <2>4. pc[t] = "path" /\ ~moved'[t] /\ ~Refused(call[t]) => PathsLead(t)'
    <3>1. SUFFICES ASSUME pc[t] = "path", ~moved'[t], ~Refused(call[t])
                   PROVE  PathsLead(t)'
      OBVIOUS
    <3>2. place' = place /\ ~moved[t]
      BY <2>3, <3>1
    <3>3. PathsLead(t)
      BY <2>1, <3>1, <3>2 DEF CallInv
    <3>4. QED
      BY <2>1, <3>2, <3>3 DEF PathsLead
  <2>5. pc[t] = "done" /\ ~moved'[t] /\ ~Refused(call[t]) => ActedAtomically(t)'
    <3>1. SUFFICES ASSUME pc[t] = "done", ~moved'[t], ~Refused(call[t])
                   PROVE  ActedAtomically(t)'
      OBVIOUS
    <3>2. ~moved[t]
      BY <3>1
    <3>3. ActedAtomically(t)
      BY <2>1, <3>1, <3>2 DEF CallInv
    <3>4. QED
      BY <2>1, <3>3 DEF ActedAtomically
  <2>6. QED
    BY <1>2, <2>1, <2>2, <2>4, <2>5 DEF CallInv
<1>7. QED
  BY <1>5, <1>6 DEF AtInv

-----------------------------------------------------------------------------
(* The invariant holds at first, and no step breaks it. *)

(* Nothing has been called yet. *)
LEMMA AtInit == Init => AtInv
<1> SUFFICES ASSUME Init PROVE AtInv
  OBVIOUS
<1>1. Cardinality(Fds) \in Nat
  BY ConstantsOK, FS_CardinalityType
<1>2. TypeOK
  BY <1>1, ConstantsOK DEF Init, TypeOK
<1>3. Placed
  BY DEF Init, Placed
<1>4. ASSUME NEW t \in Threads PROVE CallInv(t)
  <2>1. pc[t] = "idle"
    BY DEF Init
  <2>2. QED
    BY <2>1 DEF CallInv, InFlight
<1>5. QED
  BY <1>2, <1>3, <1>4 DEF AtInv

(* One step for each action. *)
LEMMA AtNext == AtInv /\ [Next]_vars => AtInv'
<1> SUFFICES ASSUME AtInv, [Next]_vars PROVE AtInv'
  OBVIOUS
<1>1. CASE UNCHANGED vars
  <2>1. /\ UNCHANGED world /\ have' = have /\ pc' = pc /\ call' = call
        /\ size' = size /\ paths' = paths /\ result' = result
        /\ moments' = moments /\ moved' = moved /\ changes' = changes
    BY <1>1 DEF vars
  <2>2. TypeOK' /\ Placed'
    BY <2>1 DEF AtInv, TypeOK, Placed, world
  <2>3. ASSUME NEW t \in Threads PROVE CallInv(t)'
    BY <2>1 DEF AtInv, CallInv, InFlight, PathsLead, ActedAtomically, world
  <2>4. QED
    BY <2>2, <2>3 DEF AtInv
<1>2. ASSUME NEW t \in Threads, Step(t) PROVE AtInv'
  BY <1>2, TryKernelKeeps, FallBackKeeps, TableSizeKeeps, TableReadKeeps,
     PlainCallKeeps, ReturnKeeps DEF Step
<1>3. ASSUME NEW t \in Threads, NEW c \in CallSet, Start(t, c) PROVE AtInv'
  BY <1>3, StartKeeps
<1>4. ASSUME NEW f \in Fds, NEW o \in Objects \cup {NULL}, SetFd(f, o) PROVE AtInv'
  <2>1. /\ fds' = [fds EXCEPT ![f] = o] /\ cwd' = cwd /\ place' = place
        /\ moved' = moved /\ Remember(fds', cwd', place')
        /\ UNCHANGED <<kernelHas, have, pc, call, size, paths, result>>
    BY <1>4 DEF SetFd
  <2>2. /\ fds' \in [Fds -> Objects \cup {NULL}] /\ cwd' \in Dirs
        /\ place' \in [Objects -> Paths] /\ Placed'
    BY <2>1 DEF AtInv, TypeOK, Placed
  <2>3. QED
    BY <2>1, <2>2, WorldKeeps
<1>5. ASSUME NEW d \in Dirs, Chdir(d) PROVE AtInv'
  <2>1. /\ fds' = fds /\ cwd' = d /\ place' = place
        /\ moved' = moved /\ Remember(fds', cwd', place')
        /\ UNCHANGED <<kernelHas, have, pc, call, size, paths, result>>
    BY <1>5 DEF Chdir
  <2>2. /\ fds' \in [Fds -> Objects \cup {NULL}] /\ cwd' \in Dirs
        /\ place' \in [Objects -> Paths] /\ Placed'
    BY <2>1 DEF AtInv, TypeOK, Placed
  <2>3. QED
    BY <2>1, <2>2, WorldKeeps
<1>6. ASSUME NEW o \in Objects, NEW p \in Paths, Rename(o, p) PROVE AtInv'
  <2>1. /\ fds' = fds /\ cwd' = cwd /\ place' = [place EXCEPT ![o] = p]
        /\ \A q \in Objects : place[q] # p
        /\ moved' = [t \in Threads |-> moved[t] \/ t \in InFlight]
        /\ Remember(fds', cwd', place')
        /\ UNCHANGED <<kernelHas, have, pc, call, size, paths, result>>
    BY <1>6 DEF Rename
  <2>2. /\ fds' \in [Fds -> Objects \cup {NULL}] /\ cwd' \in Dirs
        /\ place' \in [Objects -> Paths]
    BY <2>1 DEF AtInv, TypeOK
  <2>3. Placed'
    BY <2>1 DEF AtInv, TypeOK, Placed
  <2>4. QED
    BY <2>1, <2>2, <2>3, WorldKeeps
<1>7. QED
  BY <1>1, <1>2, <1>3, <1>4, <1>5, <1>6 DEF Next

(* Every reachable state satisfies the inductive invariant. *)
THEOREM AtInvariant == Spec => []AtInv
  BY AtInit, AtNext, PTL DEF Spec

(* The tables, each call's state and its history keep their types. *)
THEOREM AtTypes == Spec => []TypeOK
<1>1. AtInv => TypeOK
  BY DEF AtInv
<1>2. QED
  BY <1>1, AtInvariant, PTL

(* A call acts on what the kernel's own call would have acted on at one    *)
(* moment of its execution, or fails, if nothing is renamed meanwhile:     *)
(* for any number of threads, descriptors and changes.                     *)
THEOREM Atomic == Spec => []CallsAreAtomic
<1>1. AtInv => CallsAreAtomic
  BY DEF AtInv, CallInv, CallsAreAtomic
<1>2. QED
  BY <1>1, AtInvariant, PTL
===========================================================================
