------------------------------- MODULE Clone -------------------------------
(***************************************************************************)
(* clone (clone.c, getosreldate.c, x86_64/ and i386/start_thread.S): the   *)
(* flags of Linux become flags of rfork, and a child that may share the    *)
(* memory of its parent is brought from the parent's stack to its own,     *)
(* while signals arrive for both.                                          *)
(*                                                                         *)
(* A number is the set of the positions of its bits.  Every process has    *)
(* one stack, named after the process; the child's is the one its creator  *)
(* passes to clone.  Of the memory, what is on the stacks is modelled.     *)
(* sigprocmask, called with valid addresses, does not fail; an argument of *)
(* the function, and what RFTHREAD does when a leader exits, are left out. *)
(***************************************************************************)
EXTENDS Integers, FiniteSets

CONSTANTS Procs, First,   \* the processes, and the one that is there at first
          Functions,      \* what a child may be asked to call
          Requests,       \* the calls of clone: function, stack, CSIGNAL, CLONE_ flags
          Kills,          \* the signals that arrive at any time
          OsRelDates,     \* the kernels' kern.osreldate
          Archs,          \* {"x86_64", "i386"}
          Faults,         \* {"sysctl", "rfork"}: calls that may fail
          NULL

All == SUBSET (0 .. 7)       \* every signal
SIGCHLD == {2, 4}            \* 20

AllOptions == {"VM", "FS", "FILES", "SIGHAND", "VFORK", "SYSVSEM", "other"}

ASSUME ConstantsOK == /\ First \in Procs /\ NULL \notin Procs \cup Functions
                      /\ "SIG_SETMASK" \notin Functions
                      /\ Requests \subseteq [fn : Functions \cup {NULL}, child : Procs \cup {NULL},
                                      csignal : SUBSET (0 .. 7), opts : SUBSET AllOptions]
                      /\ NULL \notin Requests /\ Kills \subseteq All
                      /\ OsRelDates \subseteq Nat \ {0}
                      /\ Archs \subseteq {"x86_64", "i386"}

VARIABLES kernel, arch,   \* what the program runs on
          osreldate,      \* per address space: __kernel_getosreldate's variable
          pc,             \* where each process is
          req,            \* the call of clone it is in
          flags,          \* the rfork flags of that call
          mask, sp,       \* its signal mask, and whose stack it is on
          space, parent,  \* its address space (named after a process), its parent
          saved,          \* the mask stored in start_thread's frame
          stack,          \* what start_thread puts on a child's stack
          func,           \* the function the child is to call, in a register
          exitSig,        \* the signal its parent gets when it exits
          pending,        \* signals that wait for it
          wanted, asked,  \* history: the mask the program wants for it; the call
                          \* that made it
          clobbered       \* history: a handler has written to another's stack

system == <<kernel, arch>>
call == <<req, flags, saved>>
signals == <<mask, pending, wanted, clobbered>>
family == <<space, parent, exitSig, asked>>
code == <<sp, stack, func>>
vars == <<system, osreldate, pc, call, signals, family, code>>

-----------------------------------------------------------------------------
(* The flags of rfork, by the positions of their bits. *)
RFFDG == 2
RFPROC == 4
RFMEM == 5
RFTHREAD == 13
RFSIGSHARE == 14
RFLINUXTHPN == 16
RFTSIGZMB == 19
RFPPWAIT == 31
RFTSIGSHIFT == 20
RFTSIGMASK == 0 .. 7
RFTHPNSHIFT == 24
RFTHPNMASK == 0 .. 6

Shifted(n, k) == {b + k : b \in n}
Field(n, k, m) == {b \in m : b + k \in n}

(* Mutant: one position too low. *)
MutRFTSIGFLAGS(sig) == Shifted(sig, RFTSIGSHIFT - 1)

RFTSIGFLAGS(sig) == Shifted(sig, RFTSIGSHIFT)
RFTSIGNUM(f) == Field(f, RFTSIGSHIFT, RFTSIGMASK)
RFTHPNSIGNUM(f) == Field(f, RFTHPNSHIFT, RFTHPNMASK)

New(rel) == rel >= 802510

(* Mutant: the old field for the signal on new kernels too. *)
MutExitFlags(sig, rel) == IF sig = SIGCHLD THEN {}
                          ELSE {RFTSIGZMB} \cup Shifted(sig, RFTHPNSHIFT)

ExitFlags(sig, rel) ==
  IF sig = SIGCHLD THEN {}
  ELSE IF New(rel) THEN {RFTSIGZMB} \cup RFTSIGFLAGS(sig)
  ELSE {RFLINUXTHPN} \cup Shifted(IF sig = {} THEN SIGCHLD ELSE sig, RFTHPNSHIFT)

RforkFlags(r, rel) ==
  {RFPROC} \cup ExitFlags(r.csignal, rel)
  \cup (IF "VM" \in r.opts THEN {RFMEM} ELSE {})
  \cup (IF "FILES" \in r.opts THEN {} ELSE {RFFDG})
  \cup (IF "SIGHAND" \in r.opts THEN {RFSIGSHARE, RFTHREAD} ELSE {})
  \cup (IF "VFORK" \in r.opts THEN {RFPPWAIT} ELSE {})

(* A NULL function or stack, a flag that is not supported, or a signal that *)
(* does not fit its field.                                                  *)
Refused(r, rel) ==
  \/ r.fn = NULL \/ r.child = NULL \/ "other" \in r.opts
  \/ r.csignal # SIGCHLD /\ ~(r.csignal \subseteq IF New(rel) THEN RFTSIGMASK ELSE RFTHPNMASK)

(* The kernel: it knows one of the two ways to name a signal, and takes     *)
(* SIGCHLD when none is named.                                              *)
Known(f) == f \subseteq {RFFDG, RFPROC, RFMEM, RFTHREAD, RFSIGSHARE, RFPPWAIT}
                \cup (IF New(kernel) THEN {RFTSIGZMB} \cup (20 .. 27)
                      ELSE {RFLINUXTHPN} \cup (24 .. 30))

ExitSignal(f) == IF RFTSIGZMB \in f THEN RFTSIGNUM(f)
                 ELSE IF RFLINUXTHPN \in f THEN RFTHPNSIGNUM(f)
                 ELSE SIGCHLD

-----------------------------------------------------------------------------
Signals == Kills \cup {SIGCHLD} \cup {r.csignal : r \in Requests}

Nothing == [fn |-> NULL, mask |-> {}]

Init == /\ kernel \in OsRelDates /\ arch \in Archs
        /\ osreldate = [a \in Procs |-> 0]
        /\ pc = [p \in Procs |-> IF p = First THEN "user" ELSE "unborn"]
        /\ req = [p \in Procs |-> NULL]
        /\ flags = [p \in Procs |-> {}]
        /\ mask = [p \in Procs |-> {}]
        /\ sp = [p \in Procs |-> p]
        /\ space = [p \in Procs |-> p]
        /\ parent = [p \in Procs |-> NULL]
        /\ saved = [p \in Procs |-> {}]
        /\ stack = [p \in Procs |-> Nothing]
        /\ func = [p \in Procs |-> NULL]
        /\ exitSig = [p \in Procs |-> {}]
        /\ pending = [p \in Procs |-> {}]
        /\ wanted = [p \in Procs |-> {}]
        /\ asked = [p \in Procs |-> NULL]
        /\ clobbered = FALSE

(* Where a process goes on: the two processors put the function and the mask *)
(* on the child's stack, and the child takes them off, in different orders;  *)
(* without RFMEM neither process touches its mask.                           *)
Complex(p) == RFMEM \in flags[p]
AfterArgs(p) == IF Complex(p) THEN "block" ELSE "rfork"
AfterRfork(p) == IF Complex(p) THEN "unmask" ELSE "user"

(* Mutants: i386 puts the arguments of sigprocmask on the stack first; the   *)
(* child takes the simple path on x86_64.                                    *)
MutAfterSwitch(p) == IF Complex(p) THEN "restore" ELSE "load"
MutNeverRestores(p) == "load"

AfterSwitch(p) == IF Complex(p) /\ arch = "x86_64" THEN "restore" ELSE "load"
AfterLoad(p) == IF Complex(p) /\ arch = "i386" THEN "restore" ELSE "start"
AfterRestore == IF arch = "i386" THEN "start" ELSE "load"

Goto(p, l) == pc' = [pc EXCEPT ![p] = l]
Alive(p) == pc[p] \notin {"unborn", "exited"}

(* __kernel_getosreldate, which clone asks only for a signal other than      *)
(* SIGCHLD: sysctl stores the answer in the static variable; when it fails   *)
(* the kernel counts as an old one.                                          *)
Asks(r) == r.fn # NULL /\ r.child # NULL /\ "other" \notin r.opts /\ r.csignal # SIGCHLD

OsRelDate(p, r, rel) ==
  LET known == osreldate[space[p]] IN
  /\ rel \in IF known # 0 THEN {known}
             ELSE {kernel} \cup (IF "sysctl" \in Faults THEN {-1} ELSE {})
  /\ osreldate' = [osreldate EXCEPT ![space[p]] = IF Asks(r) /\ rel # -1 THEN rel ELSE @]

(* A program passes a stack nobody uses. *)
Calling == {o \in Procs : req[o] # NULL}
FreeStack(q) == pc[q] = "unborn" /\ q \notin {req[o].child : o \in Calling}

CallRefused(p, r) ==
  /\ pc[p] = "user"
  /\ \E rel \in OsRelDates \cup {-1} : OsRelDate(p, r, rel) /\ Refused(r, rel)
  /\ UNCHANGED <<system, pc, call, signals, family, code>>

Call(p, r) ==
  /\ pc[p] = "user" /\ r.child # NULL /\ FreeStack(r.child)
  /\ \E rel \in OsRelDates \cup {-1} :
       /\ OsRelDate(p, r, rel) /\ ~Refused(r, rel)
       /\ flags' = [flags EXCEPT ![p] = RforkFlags(r, rel)]
  /\ req' = [req EXCEPT ![p] = r]
  /\ Goto(p, IF arch = "i386" /\ "VM" \in r.opts THEN "block" ELSE "args")
  /\ UNCHANGED <<system, saved, signals, family, code>>

-----------------------------------------------------------------------------
(* __start_thread in the caller. *)
Args(p) ==
  /\ pc[p] = "args"
  /\ stack' = [stack EXCEPT ![req[p].child] = [fn |-> req[p].fn, mask |-> @.mask]]
  /\ Goto(p, AfterArgs(p))
  /\ UNCHANGED <<system, osreldate, call, signals, family, sp, func>>

(* Mutant: the mask is only read. *)
MutBlock(p) ==
  /\ pc[p] = "block"
  /\ saved' = [saved EXCEPT ![p] = mask[p]]
  /\ Goto(p, "copy")
  /\ UNCHANGED <<system, osreldate, req, flags, signals, family, code>>

Block(p) ==
  /\ pc[p] = "block"
  /\ saved' = [saved EXCEPT ![p] = mask[p]]
  /\ mask' = [mask EXCEPT ![p] = All]
  /\ Goto(p, "copy")
  /\ UNCHANGED <<system, osreldate, req, flags, pending, wanted, clobbered, family, code>>

Copy(p) ==
  /\ pc[p] = "copy"
  /\ stack' = [stack EXCEPT ![req[p].child] =
                 [fn |-> IF arch = "i386" THEN req[p].fn ELSE @.fn, mask |-> saved[p]]]
  /\ Goto(p, "rfork")
  /\ UNCHANGED <<system, osreldate, call, signals, family, sp, func>>

(* Mutant: the error leaves the mask as it is. *)
MutRforkFails(p) ==
  /\ pc[p] = "rfork"
  /\ "rfork" \in Faults \/ ~Known(flags[p])
  /\ Goto(p, "user")
  /\ req' = [req EXCEPT ![p] = NULL]
  /\ UNCHANGED <<system, osreldate, flags, saved, signals, family, code>>

RforkFails(p) ==
  /\ pc[p] = "rfork"
  /\ "rfork" \in Faults \/ ~Known(flags[p])
  /\ Goto(p, AfterRfork(p))
  /\ req' = [req EXCEPT ![p] = IF Complex(p) THEN @ ELSE NULL]
  /\ UNCHANGED <<system, osreldate, flags, saved, signals, family, code>>

(* The child returns from the system call with the caller's registers, mask *)
(* and stack pointer.                                                        *)
Rfork(p) ==
  LET q == req[p].child IN
  /\ pc[p] = "rfork" /\ Known(flags[p])
  /\ pc' = [pc EXCEPT ![p] = IF RFPPWAIT \in flags[p] THEN "wait" ELSE AfterRfork(p),
                      ![q] = "switch"]
  /\ req' = [req EXCEPT ![p] = IF Complex(p) \/ RFPPWAIT \in flags[p] THEN @ ELSE NULL]
  /\ flags' = [flags EXCEPT ![q] = flags[p]]
  /\ mask' = [mask EXCEPT ![q] = mask[p]]
  /\ wanted' = [wanted EXCEPT ![q] = wanted[p]]
  /\ sp' = [sp EXCEPT ![q] = sp[p]]
  /\ func' = [func EXCEPT ![q] = func[p]]
  /\ space' = [space EXCEPT ![q] = IF Complex(p) THEN space[p] ELSE q]
  /\ osreldate' = [osreldate EXCEPT ![q] = osreldate[space[p]]]
  /\ parent' = [parent EXCEPT ![q] = p]
  /\ exitSig' = [exitSig EXCEPT ![q] = ExitSignal(flags[p])]
  /\ asked' = [asked EXCEPT ![q] = req[p]]
  /\ UNCHANGED <<system, saved, pending, clobbered, stack>>

Unmask(p) ==
  /\ pc[p] = "unmask"
  /\ mask' = [mask EXCEPT ![p] = saved[p]]
  /\ req' = [req EXCEPT ![p] = NULL]
  /\ Goto(p, "user")
  /\ UNCHANGED <<system, osreldate, flags, saved, pending, wanted, clobbered, family, code>>

(* __start_thread in the child. *)
Switch(q) ==
  /\ pc[q] = "switch"
  /\ sp' = [sp EXCEPT ![q] = q]
  /\ Goto(q, AfterSwitch(q))
  /\ UNCHANGED <<system, osreldate, call, signals, family, stack, func>>

Load(q) ==
  /\ pc[q] = "load"
  /\ func' = [func EXCEPT ![q] = stack[sp[q]].fn]
  /\ Goto(q, AfterLoad(q))
  /\ UNCHANGED <<system, osreldate, call, signals, family, sp, stack>>

(* On i386 the arguments of sigprocmask are put where the function was. *)
Restore(q) ==
  /\ pc[q] = "restore"
  /\ mask' = [mask EXCEPT ![q] = stack[sp[q]].mask]
  /\ stack' = [stack EXCEPT ![sp[q]] = [fn |-> IF arch = "i386" THEN "SIG_SETMASK" ELSE @.fn,
                                        mask |-> @.mask]]
  /\ Goto(q, AfterRestore)
  /\ UNCHANGED <<system, osreldate, call, pending, wanted, clobbered, family, sp, func>>

Start(q) ==
  /\ pc[q] = "start"
  /\ Goto(q, "user")
  /\ UNCHANGED <<system, osreldate, call, signals, family, code>>

-----------------------------------------------------------------------------
(* The function returns, or the first process ends: the parent gets its      *)
(* signal, and goes on if it was waiting.                                    *)
Exit(q) ==
  LET p == parent[q] IN
  /\ pc[q] = "user"
  /\ pc' = [o \in Procs |-> IF o = q THEN "exited"
                            ELSE IF o = p /\ pc[o] = "wait" /\ req[o].child = q
                                 THEN AfterRfork(o) ELSE pc[o]]
  /\ pending' = [o \in Procs |-> IF o = p /\ Alive(o) /\ exitSig[q] # {}
                                 THEN pending[o] \cup {exitSig[q]} ELSE pending[o]]
  /\ req' = [o \in Procs |-> IF o = p /\ pc[o] = "wait" /\ ~Complex(o) /\ req[o].child = q
                             THEN NULL ELSE req[o]]
  /\ UNCHANGED <<system, osreldate, flags, saved, mask, wanted, clobbered, family, code>>

Kill(p, s) ==
  /\ Alive(p)
  /\ pending' = [pending EXCEPT ![p] = @ \cup {s}]
  /\ UNCHANGED <<system, osreldate, pc, call, mask, wanted, clobbered, family, code>>

(* A handler runs where the stack pointer is, and writes there. *)
OnAnothersStack(p) == sp[p] # p /\ space[sp[p]] = space[p]

Deliver(p, s) ==
  /\ Alive(p) /\ pc[p] # "wait" /\ s \in pending[p] \ mask[p]
  /\ pending' = [pending EXCEPT ![p] = @ \ {s}]
  /\ clobbered' = (clobbered \/ OnAnothersStack(p))
  /\ UNCHANGED <<system, osreldate, pc, call, mask, wanted, family, code>>

(* The program changes its mask. *)
SetMask(p, m) ==
  /\ pc[p] = "user"
  /\ mask' = [mask EXCEPT ![p] = m] /\ wanted' = [wanted EXCEPT ![p] = m]
  /\ UNCHANGED <<system, osreldate, pc, call, pending, clobbered, family, code>>

-----------------------------------------------------------------------------
Caller(p) == Args(p) \/ Block(p) \/ Copy(p) \/ RforkFails(p) \/ Rfork(p) \/ Unmask(p)
Child(p) == Switch(p) \/ Load(p) \/ Restore(p) \/ Start(p)
Step(p) == Caller(p) \/ Child(p)

Next ==
  \/ \E p \in Procs, r \in Requests : CallRefused(p, r) \/ Call(p, r)
  \/ \E p \in Procs : Step(p) \/ Exit(p)
  \/ \E p \in Procs, s \in Kills : Kill(p, s)
  \/ \E p \in Procs, s \in Signals : Deliver(p, s)
  \/ \E p \in Procs, m \in {{}, Kills} : SetMask(p, m)

Spec == Init /\ [][Next]_vars

(* Processes run, and a signal is taken before the process's next           *)
(* instruction once the mask lets it through.                                *)
FairSpec == /\ Spec
            /\ \A p \in Procs : WF_vars(Step(p))
            /\ \A p \in Procs, s \in Signals : SF_vars(Deliver(p, s))

-----------------------------------------------------------------------------
States == {"unborn", "user", "args", "block", "copy", "rfork", "wait", "unmask",
           "switch", "load", "restore", "start", "exited"}

(* Every variable has its type. *)
TypeOK ==
  /\ kernel \in OsRelDates /\ arch \in Archs
  /\ osreldate \in [Procs -> OsRelDates \cup {0}]
  /\ pc \in [Procs -> States]
  /\ req \in [Procs -> Requests \cup {NULL}] /\ asked \in [Procs -> Requests \cup {NULL}]
  /\ flags \in [Procs -> SUBSET (0 .. 31)]
  /\ mask \in [Procs -> SUBSET All] /\ wanted \in [Procs -> SUBSET All]
  /\ saved \in [Procs -> SUBSET All]
  /\ sp \in [Procs -> Procs] /\ space \in [Procs -> Procs]
  /\ parent \in [Procs -> Procs \cup {NULL}]
  /\ stack \in [Procs -> [fn : Functions \cup {NULL, "SIG_SETMASK"}, mask : SUBSET All]]
  /\ func \in [Procs -> Functions \cup {NULL, "SIG_SETMASK"}]
  /\ exitSig \in [Procs -> Signals \cup {{}}] /\ pending \in [Procs -> SUBSET Signals]
  /\ clobbered \in BOOLEAN

(* x86_64/start_thread.S 37-51: a handler never writes on the stack of      *)
(* another process of the same memory, whichever of the two runs first after *)
(* rfork.                                                                    *)
HandlersStayOnTheirStack == ~clobbered

(* Whenever the program's own code runs, in the caller after clone has       *)
(* returned, with or without success, and in the child from its start, the   *)
(* signal mask is the one the program had chosen.                            *)
MasksComeBack == \A p \in Procs : pc[p] = "user" => mask[p] = wanted[p]

(* The child calls the function passed to the clone that made it, however    *)
(* the parent went on in the meantime.                                       *)
ChildrenRunTheirFunction ==
  \A q \in Procs : pc[q] = "user" /\ asked[q] # NULL => func[q] = asked[q].fn

(* The signal asked for in CSIGNAL is the one the parent gets; only an old   *)
(* kernel sends SIGCHLD when none is asked for.                              *)
ParentsGetTheSignalAskedFor ==
  \A q \in Procs : Alive(q) /\ asked[q] # NULL =>
    exitSig[q] = IF asked[q].csignal = {} /\ ~New(kernel) THEN SIGCHLD ELSE asked[q].csignal

(* A signal the program does not block is not held back for ever by the mask *)
(* clone sets.                                                               *)
SignalsArrive ==
  \A p \in Procs, s \in Signals :
    s \in pending[p] ~> s \notin pending[p] \/ s \in wanted[p] \/ pc[p] \in {"wait", "exited"}
============================================================================
