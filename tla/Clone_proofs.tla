--------------------------- MODULE Clone_proofs ---------------------------
(***************************************************************************)
(* Proofs about Clone, for every set of processes, requests and signals,   *)
(* both processors, old and new kernels, and with or without failures.     *)
(***************************************************************************)
EXTENDS Clone, TLAPS

USE DEF system, call, signals, family, code, vars, Goto,
  AfterArgs, AfterRfork, AfterSwitch, AfterLoad, AfterRestore

-----------------------------------------------------------------------------
(* The inductive invariant.  In Before a process has called clone and its    *)
(* child is not there yet; a Newborn child has not reached its function.     *)
Before == {"args", "block", "copy", "rfork"}
InCall == Before \cup {"wait", "unmask"}
Newborn == {"switch", "load", "restore", "start"}

(* A call has a function and a stack that no other call has; the path of     *)
(* RFMEM is taken with RFMEM.                                                *)
CallsOK ==
  /\ \A p \in Procs : /\ req[p] # NULL <=> pc[p] \in InCall
                      /\ pc[p] \in InCall => req[p].fn \in Functions /\ req[p].child \in Procs
                      /\ pc[p] \in Before => pc[req[p].child] = "unborn"
                      /\ pc[p] \in {"block", "copy", "unmask", "restore"} => Complex(p)
                      /\ pc[p] = "args" /\ arch = "i386" => ~Complex(p)
  /\ \A p, o \in Procs : pc[p] \in Before /\ pc[o] \in Before /\ p # o => req[p].child # req[o].child

(* All signals are blocked from Block on, in the caller until Unmask and in  *)
(* the child until Restore, and the mask to come back is kept.               *)
Blocked(p) == \/ pc[p] \in {"copy", "unmask", "restore"}
              \/ Complex(p) /\ pc[p] \in {"rfork", "wait", "switch"}
              \/ Complex(p) /\ pc[p] = "load" /\ arch = "i386"

MasksOK ==
  \A p \in Procs :
    /\ ~Blocked(p) /\ pc[p] \notin {"unborn", "exited"} => mask[p] = wanted[p]
    /\ Blocked(p) => mask[p] = All
    /\ Blocked(p) /\ pc[p] \in InCall => saved[p] = wanted[p]
    /\ Blocked(p) /\ pc[p] \in Newborn => stack[p].mask = wanted[p]
    /\ Blocked(p) /\ pc[p] = "rfork" => stack[req[p].child].mask = wanted[p]

(* Where the function is that the child is to call. *)
FunctionsOK ==
  \A p \in Procs :
    /\ pc[p] = "rfork" \/ (arch = "x86_64" /\ pc[p] \in {"block", "copy"}) =>
         stack[req[p].child].fn = req[p].fn
    /\ pc[p] \in Newborn => asked[p] # NULL
    /\ pc[p] \in {"switch", "load"} \/ (arch = "x86_64" /\ pc[p] = "restore") => stack[p].fn = asked[p].fn
    /\ (asked[p] # NULL /\ pc[p] \in InCall \cup {"start", "user"}) \/ (arch = "i386" /\ pc[p] = "restore") =>
         func[p] = asked[p].fn

(* Only a child before Switch is on another's stack, and without RFMEM that  *)
(* stack is in another memory.                                               *)
StacksOK ==
  \A p \in Procs :
    /\ pc[p] # "switch" => sp[p] = p
    /\ pc[p] = "switch" => pc[sp[p]] # "unborn"
    /\ pc[p] = "switch" /\ ~Complex(p) => space[p] = p /\ space[sp[p]] # p
    /\ pc[p] = "unborn" => \A o \in Procs : o # p => space[o] # p

(* The flags are those of the call, for the kernel's release or, when it     *)
(* could not be read, for an old one.                                        *)
FlagsOK ==
  /\ \A p \in Procs : osreldate[p] \in {0, kernel}
  /\ \A p \in Procs : pc[p] \in Before =>
       \E rel \in {kernel, -1} : flags[p] = RforkFlags(req[p], rel) /\ ~Refused(req[p], rel)

IInv == /\ TypeOK /\ CallsOK /\ MasksOK /\ FunctionsOK /\ StacksOK /\ FlagsOK
        /\ HandlersStayOnTheirStack /\ ParentsGetTheSignalAskedFor


(* The types by themselves, for the provers. *)
LEMMA Types ==
  ASSUME IInv
  PROVE  /\ pc \in [Procs -> States] /\ req = [p \in Procs |-> req[p]]
         /\ asked = [p \in Procs |-> asked[p]] /\ flags = [p \in Procs |-> flags[p]]
         /\ mask = [p \in Procs |-> mask[p]] /\ wanted = [p \in Procs |-> wanted[p]]
         /\ saved = [p \in Procs |-> saved[p]] /\ sp \in [Procs -> Procs]
         /\ space \in [Procs -> Procs] /\ stack = [p \in Procs |-> stack[p]]
         /\ func = [p \in Procs |-> func[p]] /\ arch \in {"x86_64", "i386"}
  BY ConstantsOK DEF IInv, TypeOK, States

(* RFMEM says whether the memory is shared. *)
LEMMA SharedMemory ==
  ASSUME NEW r \in Requests, NEW rel
  PROVE  RFMEM \in RforkFlags(r, rel) <=> "VM" \in r.opts
<1>1. r.csignal \subseteq 0 .. 7
  BY ConstantsOK
<1>2. RFMEM \notin ExitFlags(r.csignal, rel)
  BY <1>1 DEF ExitFlags, RFMEM, RFTSIGZMB, RFLINUXTHPN, RFTSIGFLAGS, Shifted, RFTSIGSHIFT,
     RFTHPNSHIFT, SIGCHLD
<1>3. QED
  BY <1>2 DEF RforkFlags, RFMEM, RFPROC, RFFDG, RFSIGSHARE, RFTHREAD, RFPPWAIT

(* Every flag has its place in a word of 32 bits. *)
LEMMA FlagsType ==
  ASSUME NEW r \in Requests, NEW rel \in Int, ~Refused(r, rel)
  PROVE  RforkFlags(r, rel) \subseteq 0 .. 31
<1>1. r.csignal \subseteq 0 .. 7
  BY ConstantsOK
<1>2. r.csignal # SIGCHLD /\ ~New(rel) => r.csignal \subseteq 0 .. 6
  BY DEF Refused, RFTHPNMASK
<1>3. ExitFlags(r.csignal, rel) \subseteq 0 .. 31
  BY <1>1, <1>2 DEF ExitFlags, RFTSIGZMB, RFLINUXTHPN, RFTSIGFLAGS, Shifted, RFTSIGSHIFT,
     RFTHPNSHIFT, SIGCHLD
<1>4. QED
  BY <1>3 DEF RforkFlags, RFMEM, RFPROC, RFFDG, RFSIGSHARE, RFTHREAD, RFPPWAIT

(* The kernel finds in the flags the signal the caller asked for. *)
LEMMA SignalFound ==
  ASSUME NEW r \in Requests, kernel \in Nat, NEW rel \in {kernel, -1}, ~Refused(r, rel),
         Known(RforkFlags(r, rel))
  PROVE  ExitSignal(RforkFlags(r, rel)) =
           IF r.csignal = {} /\ ~New(kernel) THEN SIGCHLD ELSE r.csignal
<1> DEFINE f == RforkFlags(r, rel)
           e == ExitFlags(r.csignal, rel)
<1>1. r.csignal \subseteq 0 .. 7 /\ SIGCHLD \subseteq 0 .. 6 /\ SIGCHLD # {}
  BY ConstantsOK DEF SIGCHLD
<1>2. \A b \in 16 .. 30 : b \in f <=> b \in e
  BY DEF RforkFlags, RFMEM, RFPROC, RFFDG, RFSIGSHARE, RFTHREAD, RFPPWAIT
<1>3. CASE r.csignal = SIGCHLD
  <2>1. e = {}
    BY <1>3 DEF ExitFlags
  <2>2. RFTSIGZMB \notin f /\ RFLINUXTHPN \notin f
    BY <1>2, <2>1 DEF RFTSIGZMB, RFLINUXTHPN
  <2>3. QED
    BY <1>3, <2>2 DEF ExitSignal
<1>4. CASE r.csignal # SIGCHLD /\ New(rel)
  <2>1. New(kernel)
    BY <1>4 DEF New
  <2>2. e = {RFTSIGZMB} \cup RFTSIGFLAGS(r.csignal)
    BY <1>4 DEF ExitFlags
  <2>3. RFTSIGZMB \in f
    BY <1>2, <2>2 DEF RFTSIGZMB
  <2>4. RFTSIGNUM(f) = r.csignal
    BY <1>1, <1>2, <2>2
       DEF RFTSIGNUM, Field, RFTSIGSHIFT, RFTSIGMASK, RFTSIGFLAGS, Shifted, RFTSIGZMB
  <2>5. QED
    BY <2>1, <2>3, <2>4 DEF ExitSignal
<1>5. CASE r.csignal # SIGCHLD /\ ~New(rel)
  <2> DEFINE s == IF r.csignal = {} THEN SIGCHLD ELSE r.csignal
  <2>1. e = {RFLINUXTHPN} \cup Shifted(s, RFTHPNSHIFT)
    BY <1>5 DEF ExitFlags
  <2>2. s \subseteq 0 .. 6
    BY <1>1, <1>5 DEF Refused, RFTHPNMASK
  <2>3. RFTSIGZMB \notin f /\ RFLINUXTHPN \in f
    BY <1>2, <2>1, <2>2 DEF RFTSIGZMB, RFLINUXTHPN, Shifted, RFTHPNSHIFT
  <2>4. ~New(kernel)
    BY <2>3 DEF Known, RFLINUXTHPN, RFTSIGZMB, RFMEM, RFPROC, RFFDG, RFSIGSHARE, RFTHREAD,
       RFPPWAIT
  <2>5. RFTHPNSIGNUM(f) = s
    BY <1>2, <2>1, <2>2 DEF RFTHPNSIGNUM, Field, RFTHPNSHIFT, RFTHPNMASK, Shifted,
       RFLINUXTHPN
  <2>6. QED
    BY <2>3, <2>4, <2>5 DEF ExitSignal
<1>6. QED
  BY <1>3, <1>4, <1>5

(* Reading the kernel's release. *)
LEMMA Release ==
  ASSUME IInv, NEW p \in Procs, NEW r, NEW rel, OsRelDate(p, r, rel)
  PROVE  /\ rel \in {kernel, -1} /\ rel \in Int /\ kernel \in Nat /\ kernel \in OsRelDates
         /\ osreldate' \in [Procs -> OsRelDates \cup {0}]
         /\ \A q \in Procs : osreldate'[q] \in {0, kernel}
<1>1. /\ kernel \in OsRelDates /\ kernel \in Nat /\ space[p] \in Procs
      /\ osreldate \in [Procs -> OsRelDates \cup {0}]
      /\ \A q \in Procs : osreldate[q] \in {0, kernel}
  BY ConstantsOK DEF IInv, TypeOK, FlagsOK
<1>2. rel \in {kernel, -1}
  BY <1>1 DEF OsRelDate
<1>3. QED
  BY <1>1, <1>2 DEF OsRelDate

(* What rfork is called with. *)
LEMMA AtRfork ==
  ASSUME IInv, NEW p \in Procs, pc[p] = "rfork", Known(flags[p])
  PROVE  /\ req[p] \in Requests /\ req[p].child \in Procs
         /\ ExitSignal(flags[p]) =
              IF req[p].csignal = {} /\ ~New(kernel) THEN SIGCHLD ELSE req[p].csignal
         /\ ExitSignal(flags[p]) \in Signals
<1>1. req[p] \in Requests /\ req[p].child \in Procs /\ kernel \in Nat
  BY ConstantsOK DEF IInv, TypeOK, CallsOK, InCall, Before
<1>2. PICK rel \in {kernel, -1} : flags[p] = RforkFlags(req[p], rel) /\ ~Refused(req[p], rel)
  BY DEF IInv, FlagsOK, Before
<1>3. QED
  BY <1>1, <1>2, SignalFound DEF Signals

(* Steps keep the types. *)
LEMMA TypeStep ==
  ASSUME IInv, [Next]_vars
  PROVE  TypeOK'
<1>1. ASSUME NEW p \in Procs, NEW r \in Requests, CallRefused(p, r)
      PROVE  TypeOK'
  <2>1. osreldate' \in [Procs -> OsRelDates \cup {0}]
    BY <1>1, Release DEF CallRefused
  <2>2. QED
    BY <1>1, <2>1 DEF CallRefused, IInv, TypeOK
<1>2. ASSUME NEW p \in Procs, NEW r \in Requests, Call(p, r)
      PROVE  TypeOK'
  <2>1. PICK rel \in OsRelDates \cup {-1} :
               OsRelDate(p, r, rel) /\ ~Refused(r, rel)
               /\ flags' = [flags EXCEPT ![p] = RforkFlags(r, rel)]
    BY <1>2 DEF Call
  <2>2. osreldate' \in [Procs -> OsRelDates \cup {0}] /\ rel \in Int
    BY <2>1, Release
  <2>3. RforkFlags(r, rel) \in SUBSET (0 .. 31)
    BY <2>1, <2>2, FlagsType
  <2>4. QED
    BY <1>2, <2>1, <2>2, <2>3 DEF Call, IInv, TypeOK, States
<1>3. ASSUME NEW p \in Procs, Args(p)
      PROVE  TypeOK'
  <2>1. req[p].child \in Procs /\ req[p].fn \in Functions
    BY <1>3 DEF Args, IInv, CallsOK, InCall, Before
  <2>2. QED
    BY <1>3, <2>1 DEF Args, IInv, TypeOK, States
<1>4. ASSUME NEW p \in Procs, Block(p)
      PROVE  TypeOK'
  BY <1>4, ConstantsOK DEF Block, IInv, TypeOK, States
<1>5. ASSUME NEW p \in Procs, Copy(p)
      PROVE  TypeOK'
  <2>1. req[p].child \in Procs /\ req[p].fn \in Functions
    BY <1>5 DEF Copy, IInv, CallsOK, InCall, Before
  <2>2. QED
    BY <1>5, <2>1 DEF Copy, IInv, TypeOK, States
<1>6. ASSUME NEW p \in Procs, RforkFails(p)
      PROVE  TypeOK'
  BY <1>6, ConstantsOK DEF RforkFails, IInv, TypeOK, States
<1>7. ASSUME NEW p \in Procs, Rfork(p)
      PROVE  TypeOK'
  <2>1. req[p] \in Requests /\ req[p].child \in Procs /\ ExitSignal(flags[p]) \in Signals
    BY <1>7, AtRfork DEF Rfork
  <2>2. osreldate' \in [Procs -> OsRelDates \cup {0}] /\ flags' \in [Procs -> SUBSET (0 .. 31)]
        /\ mask' \in [Procs -> SUBSET All] /\ wanted' \in [Procs -> SUBSET All]
    BY <1>7, <2>1 DEF Rfork, IInv, TypeOK
  <2>3. pc' \in [Procs -> States] /\ req' \in [Procs -> Requests \cup {NULL}]
        /\ asked' \in [Procs -> Requests \cup {NULL}]
    BY <1>7, <2>1 DEF Rfork, IInv, TypeOK, States
  <2>4. exitSig' \in [Procs -> Signals \cup {{}}] /\ sp' \in [Procs -> Procs]
        /\ space' \in [Procs -> Procs] /\ parent' \in [Procs -> Procs \cup {NULL}]
        /\ func' \in [Procs -> Functions \cup {NULL, "SIG_SETMASK"}]
    BY <1>7, <2>1 DEF Rfork, IInv, TypeOK
  <2>5. QED
    BY <1>7, <2>2, <2>3, <2>4 DEF Rfork, IInv, TypeOK
<1>8. ASSUME NEW p \in Procs, Unmask(p)
      PROVE  TypeOK'
  BY <1>8, ConstantsOK DEF Unmask, IInv, TypeOK, States
<1>9. ASSUME NEW p \in Procs, Switch(p)
      PROVE  TypeOK'
  BY <1>9, ConstantsOK DEF Switch, IInv, TypeOK, States
<1>10. ASSUME NEW p \in Procs, Load(p)
      PROVE  TypeOK'
  BY <1>10, ConstantsOK DEF Load, IInv, TypeOK, States
<1>11. ASSUME NEW p \in Procs, Restore(p)
      PROVE  TypeOK'
  BY <1>11, ConstantsOK DEF Restore, IInv, TypeOK, States
<1>12. ASSUME NEW p \in Procs, Start(p)
      PROVE  TypeOK'
  BY <1>12, ConstantsOK DEF Start, IInv, TypeOK, States
<1>13. ASSUME NEW p \in Procs, Exit(p)
      PROVE  TypeOK'
  <2>1. pc' \in [Procs -> States] /\ req' \in [Procs -> Requests \cup {NULL}]
    BY <1>13 DEF Exit, IInv, TypeOK, States
  <2>2. pending' \in [Procs -> SUBSET Signals]
    <3>1. exitSig[p] \in Signals \cup {{}} /\ pending \in [Procs -> SUBSET Signals]
      BY DEF IInv, TypeOK
    <3>2. QED
      BY <1>13, <3>1 DEF Exit
  <2>3. QED
    BY <1>13, <2>1, <2>2 DEF Exit, IInv, TypeOK
<1>14. ASSUME NEW p \in Procs, NEW s \in Kills, Kill(p, s)
      PROVE  TypeOK'
  <2>1. s \in Signals
    BY DEF Signals
  <2>2. QED
    BY <1>14, <2>1 DEF Kill, IInv, TypeOK
<1>15. ASSUME NEW p \in Procs, NEW s \in Signals, Deliver(p, s)
      PROVE  TypeOK'
  BY <1>15, ConstantsOK DEF Deliver, IInv, TypeOK, States
<1>16. ASSUME NEW p \in Procs, NEW m \in {{}, Kills}, SetMask(p, m)
      PROVE  TypeOK'
  BY <1>16, ConstantsOK DEF SetMask, IInv, TypeOK, States
<1>17. CASE UNCHANGED vars
  BY <1>17 DEF IInv, TypeOK, States
<1>18. QED
  BY <1>1, <1>2, <1>3, <1>4, <1>5, <1>6, <1>7, <1>8, <1>9, <1>10, <1>11, <1>12, <1>13,
     <1>14, <1>15, <1>16, <1>17 DEF Next, Step, Caller, Child

(* Steps keep CallsOK. *)
LEMMA CallsStep ==
  ASSUME IInv, [Next]_vars
  PROVE  CallsOK'
<1>1. ASSUME NEW p \in Procs, NEW r \in Requests, CallRefused(p, r)
      PROVE  CallsOK'
  BY <1>1, Types DEF CallRefused, IInv, CallsOK, InCall, Before, Complex
<1>2. ASSUME NEW p \in Procs, NEW r \in Requests, Call(p, r)
      PROVE  CallsOK'
  <2>1. PICK rel \in OsRelDates \cup {-1} :
               OsRelDate(p, r, rel) /\ ~Refused(r, rel)
               /\ flags' = [flags EXCEPT ![p] = RforkFlags(r, rel)]
    BY <1>2 DEF Call
  <2>2. RFMEM \in flags'[p] <=> "VM" \in r.opts
    BY <2>1, SharedMemory, Types
  <2>3. r # NULL /\ r.fn \in Functions /\ r.child \in Procs
    BY <2>1, ConstantsOK DEF Refused
  <2>4. \A o \in Procs : pc[o] \in InCall => req[o].child # r.child
    BY <1>2 DEF Call, FreeStack, Calling, IInv, CallsOK
  <2>5. QED
    BY <1>2, <2>1, <2>2, <2>3, <2>4, Types DEF Call, FreeStack, IInv, CallsOK, InCall,
       Before, Complex
<1>3. ASSUME NEW p \in Procs, Args(p)
      PROVE  CallsOK'
  BY <1>3, Types DEF Args, IInv, CallsOK, InCall, Before, Complex
<1>4. ASSUME NEW p \in Procs, Block(p)
      PROVE  CallsOK'
  BY <1>4, Types DEF Block, IInv, CallsOK, InCall, Before, Complex
<1>5. ASSUME NEW p \in Procs, Copy(p)
      PROVE  CallsOK'
  BY <1>5, Types DEF Copy, IInv, CallsOK, InCall, Before, Complex
<1>6. ASSUME NEW p \in Procs, RforkFails(p)
      PROVE  CallsOK'
  BY <1>6, Types DEF RforkFails, IInv, CallsOK, InCall, Before, Complex
<1>7. ASSUME NEW p \in Procs, Rfork(p)
      PROVE  CallsOK'
  BY <1>7, Types DEF Rfork, IInv, CallsOK, InCall, Before, Complex
<1>8. ASSUME NEW p \in Procs, Unmask(p)
      PROVE  CallsOK'
  BY <1>8, Types DEF Unmask, IInv, CallsOK, InCall, Before, Complex
<1>9. ASSUME NEW p \in Procs, Switch(p)
      PROVE  CallsOK'
  BY <1>9, Types DEF Switch, IInv, CallsOK, InCall, Before, Complex
<1>10. ASSUME NEW p \in Procs, Load(p)
      PROVE  CallsOK'
  BY <1>10, Types DEF Load, IInv, CallsOK, InCall, Before, Complex
<1>11. ASSUME NEW p \in Procs, Restore(p)
      PROVE  CallsOK'
  BY <1>11, Types DEF Restore, IInv, CallsOK, InCall, Before, Complex
<1>12. ASSUME NEW p \in Procs, Start(p)
      PROVE  CallsOK'
  BY <1>12, Types DEF Start, IInv, CallsOK, InCall, Before, Complex
<1>13. ASSUME NEW p \in Procs, Exit(p)
      PROVE  CallsOK'
  BY <1>13, Types DEF Exit, IInv, CallsOK, InCall, Before, Complex
<1>14. ASSUME NEW p \in Procs, NEW s \in Kills, Kill(p, s)
      PROVE  CallsOK'
  BY <1>14, Types DEF Kill, IInv, CallsOK, InCall, Before, Complex
<1>15. ASSUME NEW p \in Procs, NEW s \in Signals, Deliver(p, s)
      PROVE  CallsOK'
  BY <1>15, Types DEF Deliver, IInv, CallsOK, InCall, Before, Complex
<1>16. ASSUME NEW p \in Procs, NEW m \in {{}, Kills}, SetMask(p, m)
      PROVE  CallsOK'
  BY <1>16, Types DEF SetMask, IInv, CallsOK, InCall, Before, Complex
<1>17. CASE UNCHANGED vars
  BY <1>17 DEF IInv, CallsOK, InCall, Before, Complex
<1>18. QED
  BY <1>1, <1>2, <1>3, <1>4, <1>5, <1>6, <1>7, <1>8, <1>9, <1>10, <1>11, <1>12, <1>13,
     <1>14, <1>15, <1>16, <1>17 DEF Next, Step, Caller, Child

(* Steps keep MasksOK. *)
LEMMA MasksStep ==
  ASSUME IInv, [Next]_vars
  PROVE  MasksOK'
<1>1. ASSUME NEW p \in Procs, NEW r \in Requests, CallRefused(p, r)
      PROVE  MasksOK'
  BY <1>1, Types DEF CallRefused, IInv, CallsOK, MasksOK, StacksOK, Blocked, InCall, Before,
     Newborn, Complex
<1>2. ASSUME NEW p \in Procs, NEW r \in Requests, Call(p, r)
      PROVE  MasksOK'
  BY <1>2, Types DEF Call, IInv, CallsOK, MasksOK, StacksOK, Blocked, InCall, Before,
     Newborn, Complex
<1>3. ASSUME NEW p \in Procs, Args(p)
      PROVE  MasksOK'
  BY <1>3, Types DEF Args, IInv, CallsOK, MasksOK, StacksOK, Blocked, InCall, Before,
     Newborn, Complex
<1>4. ASSUME NEW p \in Procs, Block(p)
      PROVE  MasksOK'
  BY <1>4, Types DEF Block, IInv, CallsOK, MasksOK, StacksOK, Blocked, InCall, Before,
     Newborn, Complex
<1>5. ASSUME NEW p \in Procs, Copy(p)
      PROVE  MasksOK'
  BY <1>5, Types DEF Copy, IInv, CallsOK, MasksOK, StacksOK, Blocked, InCall, Before,
     Newborn, Complex
<1>6. ASSUME NEW p \in Procs, RforkFails(p)
      PROVE  MasksOK'
  BY <1>6, Types DEF RforkFails, IInv, CallsOK, MasksOK, StacksOK, Blocked, InCall, Before,
     Newborn, Complex
<1>7. ASSUME NEW p \in Procs, Rfork(p)
      PROVE  MasksOK'
  BY <1>7, Types DEF Rfork, IInv, CallsOK, MasksOK, StacksOK, Blocked, InCall, Before,
     Newborn, Complex
<1>8. ASSUME NEW p \in Procs, Unmask(p)
      PROVE  MasksOK'
  BY <1>8, Types DEF Unmask, IInv, CallsOK, MasksOK, StacksOK, Blocked, InCall, Before,
     Newborn, Complex
<1>9. ASSUME NEW p \in Procs, Switch(p)
      PROVE  MasksOK'
  BY <1>9, Types DEF Switch, IInv, CallsOK, MasksOK, StacksOK, Blocked, InCall, Before,
     Newborn, Complex
<1>10. ASSUME NEW p \in Procs, Load(p)
      PROVE  MasksOK'
  BY <1>10, Types DEF Load, IInv, CallsOK, MasksOK, StacksOK, Blocked, InCall, Before,
     Newborn, Complex
<1>11. ASSUME NEW p \in Procs, Restore(p)
      PROVE  MasksOK'
  BY <1>11, Types DEF Restore, IInv, CallsOK, MasksOK, StacksOK, Blocked, InCall, Before,
     Newborn, Complex
<1>12. ASSUME NEW p \in Procs, Start(p)
      PROVE  MasksOK'
  BY <1>12, Types DEF Start, IInv, CallsOK, MasksOK, StacksOK, Blocked, InCall, Before,
     Newborn, Complex
<1>13. ASSUME NEW p \in Procs, Exit(p)
      PROVE  MasksOK'
  BY <1>13, Types DEF Exit, IInv, CallsOK, MasksOK, StacksOK, Blocked, InCall, Before,
     Newborn, Complex
<1>14. ASSUME NEW p \in Procs, NEW s \in Kills, Kill(p, s)
      PROVE  MasksOK'
  BY <1>14, Types DEF Kill, IInv, CallsOK, MasksOK, StacksOK, Blocked, InCall, Before,
     Newborn, Complex
<1>15. ASSUME NEW p \in Procs, NEW s \in Signals, Deliver(p, s)
      PROVE  MasksOK'
  BY <1>15, Types DEF Deliver, IInv, CallsOK, MasksOK, StacksOK, Blocked, InCall, Before,
     Newborn, Complex
<1>16. ASSUME NEW p \in Procs, NEW m \in {{}, Kills}, SetMask(p, m)
      PROVE  MasksOK'
  BY <1>16, Types DEF SetMask, IInv, CallsOK, MasksOK, StacksOK, Blocked, InCall, Before,
     Newborn, Complex
<1>17. CASE UNCHANGED vars
  BY <1>17 DEF IInv, CallsOK, MasksOK, StacksOK, Blocked, InCall, Before, Newborn, Complex
<1>18. QED
  BY <1>1, <1>2, <1>3, <1>4, <1>5, <1>6, <1>7, <1>8, <1>9, <1>10, <1>11, <1>12, <1>13,
     <1>14, <1>15, <1>16, <1>17 DEF Next, Step, Caller, Child

(* Steps keep FunctionsOK. *)
LEMMA FunctionsStep ==
  ASSUME IInv, [Next]_vars
  PROVE  FunctionsOK'
<1>1. ASSUME NEW p \in Procs, NEW r \in Requests, CallRefused(p, r)
      PROVE  FunctionsOK'
  BY <1>1, Types DEF CallRefused, IInv, CallsOK, FunctionsOK, StacksOK, InCall, Before,
     Newborn, Complex
<1>2. ASSUME NEW p \in Procs, NEW r \in Requests, Call(p, r)
      PROVE  FunctionsOK'
  BY <1>2, Types DEF Call, IInv, CallsOK, FunctionsOK, StacksOK, InCall, Before, Newborn,
     Complex
<1>3. ASSUME NEW p \in Procs, Args(p)
      PROVE  FunctionsOK'
  BY <1>3, Types DEF Args, IInv, CallsOK, FunctionsOK, StacksOK, InCall, Before, Newborn,
     Complex
<1>4. ASSUME NEW p \in Procs, Block(p)
      PROVE  FunctionsOK'
  BY <1>4, Types DEF Block, IInv, CallsOK, FunctionsOK, StacksOK, InCall, Before, Newborn,
     Complex
<1>5. ASSUME NEW p \in Procs, Copy(p)
      PROVE  FunctionsOK'
  BY <1>5, Types DEF Copy, IInv, CallsOK, FunctionsOK, StacksOK, InCall, Before, Newborn,
     Complex
<1>6. ASSUME NEW p \in Procs, RforkFails(p)
      PROVE  FunctionsOK'
  BY <1>6, Types DEF RforkFails, IInv, CallsOK, FunctionsOK, StacksOK, InCall, Before,
     Newborn, Complex
<1>7. ASSUME NEW p \in Procs, Rfork(p)
      PROVE  FunctionsOK'
  BY <1>7, Types DEF Rfork, IInv, CallsOK, FunctionsOK, StacksOK, InCall, Before, Newborn,
     Complex
<1>8. ASSUME NEW p \in Procs, Unmask(p)
      PROVE  FunctionsOK'
  BY <1>8, Types DEF Unmask, IInv, CallsOK, FunctionsOK, StacksOK, InCall, Before, Newborn,
     Complex
<1>9. ASSUME NEW p \in Procs, Switch(p)
      PROVE  FunctionsOK'
  BY <1>9, Types DEF Switch, IInv, CallsOK, FunctionsOK, StacksOK, InCall, Before, Newborn,
     Complex
<1>10. ASSUME NEW p \in Procs, Load(p)
      PROVE  FunctionsOK'
  BY <1>10, Types DEF Load, IInv, CallsOK, FunctionsOK, StacksOK, InCall, Before, Newborn,
     Complex
<1>11. ASSUME NEW p \in Procs, Restore(p)
      PROVE  FunctionsOK'
  BY <1>11, Types DEF Restore, IInv, CallsOK, FunctionsOK, StacksOK, InCall, Before,
     Newborn, Complex
<1>12. ASSUME NEW p \in Procs, Start(p)
      PROVE  FunctionsOK'
  BY <1>12, Types DEF Start, IInv, CallsOK, FunctionsOK, StacksOK, InCall, Before, Newborn,
     Complex
<1>13. ASSUME NEW p \in Procs, Exit(p)
      PROVE  FunctionsOK'
  BY <1>13, Types DEF Exit, IInv, CallsOK, FunctionsOK, StacksOK, InCall, Before, Newborn,
     Complex
<1>14. ASSUME NEW p \in Procs, NEW s \in Kills, Kill(p, s)
      PROVE  FunctionsOK'
  BY <1>14, Types DEF Kill, IInv, CallsOK, FunctionsOK, StacksOK, InCall, Before, Newborn,
     Complex
<1>15. ASSUME NEW p \in Procs, NEW s \in Signals, Deliver(p, s)
      PROVE  FunctionsOK'
  BY <1>15, Types DEF Deliver, IInv, CallsOK, FunctionsOK, StacksOK, InCall, Before,
     Newborn, Complex
<1>16. ASSUME NEW p \in Procs, NEW m \in {{}, Kills}, SetMask(p, m)
      PROVE  FunctionsOK'
  BY <1>16, Types DEF SetMask, IInv, CallsOK, FunctionsOK, StacksOK, InCall, Before,
     Newborn, Complex
<1>17. CASE UNCHANGED vars
  BY <1>17 DEF IInv, CallsOK, FunctionsOK, StacksOK, InCall, Before, Newborn, Complex
<1>18. QED
  BY <1>1, <1>2, <1>3, <1>4, <1>5, <1>6, <1>7, <1>8, <1>9, <1>10, <1>11, <1>12, <1>13,
     <1>14, <1>15, <1>16, <1>17 DEF Next, Step, Caller, Child

(* Steps keep StacksOK. *)
LEMMA StacksStep ==
  ASSUME IInv, [Next]_vars
  PROVE  StacksOK'
<1>1. ASSUME NEW p \in Procs, NEW r \in Requests, CallRefused(p, r)
      PROVE  StacksOK'
  BY <1>1, Types DEF CallRefused, IInv, CallsOK, StacksOK, InCall, Before, Newborn, Complex
<1>2. ASSUME NEW p \in Procs, NEW r \in Requests, Call(p, r)
      PROVE  StacksOK'
  BY <1>2, Types DEF Call, IInv, CallsOK, StacksOK, InCall, Before, Newborn, Complex
<1>3. ASSUME NEW p \in Procs, Args(p)
      PROVE  StacksOK'
  BY <1>3, Types DEF Args, IInv, CallsOK, StacksOK, InCall, Before, Newborn, Complex
<1>4. ASSUME NEW p \in Procs, Block(p)
      PROVE  StacksOK'
  BY <1>4, Types DEF Block, IInv, CallsOK, StacksOK, InCall, Before, Newborn, Complex
<1>5. ASSUME NEW p \in Procs, Copy(p)
      PROVE  StacksOK'
  BY <1>5, Types DEF Copy, IInv, CallsOK, StacksOK, InCall, Before, Newborn, Complex
<1>6. ASSUME NEW p \in Procs, RforkFails(p)
      PROVE  StacksOK'
  BY <1>6, Types DEF RforkFails, IInv, CallsOK, StacksOK, InCall, Before, Newborn, Complex
<1>7. ASSUME NEW p \in Procs, Rfork(p)
      PROVE  StacksOK'
  BY <1>7, Types DEF Rfork, IInv, CallsOK, StacksOK, InCall, Before, Newborn, Complex
<1>8. ASSUME NEW p \in Procs, Unmask(p)
      PROVE  StacksOK'
  BY <1>8, Types DEF Unmask, IInv, CallsOK, StacksOK, InCall, Before, Newborn, Complex
<1>9. ASSUME NEW p \in Procs, Switch(p)
      PROVE  StacksOK'
  BY <1>9, Types DEF Switch, IInv, CallsOK, StacksOK, InCall, Before, Newborn, Complex
<1>10. ASSUME NEW p \in Procs, Load(p)
      PROVE  StacksOK'
  BY <1>10, Types DEF Load, IInv, CallsOK, StacksOK, InCall, Before, Newborn, Complex
<1>11. ASSUME NEW p \in Procs, Restore(p)
      PROVE  StacksOK'
  BY <1>11, Types DEF Restore, IInv, CallsOK, StacksOK, InCall, Before, Newborn, Complex
<1>12. ASSUME NEW p \in Procs, Start(p)
      PROVE  StacksOK'
  BY <1>12, Types DEF Start, IInv, CallsOK, StacksOK, InCall, Before, Newborn, Complex
<1>13. ASSUME NEW p \in Procs, Exit(p)
      PROVE  StacksOK'
  BY <1>13, Types DEF Exit, IInv, CallsOK, StacksOK, InCall, Before, Newborn, Complex
<1>14. ASSUME NEW p \in Procs, NEW s \in Kills, Kill(p, s)
      PROVE  StacksOK'
  BY <1>14, Types DEF Kill, IInv, CallsOK, StacksOK, InCall, Before, Newborn, Complex
<1>15. ASSUME NEW p \in Procs, NEW s \in Signals, Deliver(p, s)
      PROVE  StacksOK'
  BY <1>15, Types DEF Deliver, IInv, CallsOK, StacksOK, InCall, Before, Newborn, Complex
<1>16. ASSUME NEW p \in Procs, NEW m \in {{}, Kills}, SetMask(p, m)
      PROVE  StacksOK'
  BY <1>16, Types DEF SetMask, IInv, CallsOK, StacksOK, InCall, Before, Newborn, Complex
<1>17. CASE UNCHANGED vars
  BY <1>17 DEF IInv, CallsOK, StacksOK, InCall, Before, Newborn, Complex
<1>18. QED
  BY <1>1, <1>2, <1>3, <1>4, <1>5, <1>6, <1>7, <1>8, <1>9, <1>10, <1>11, <1>12, <1>13,
     <1>14, <1>15, <1>16, <1>17 DEF Next, Step, Caller, Child

(* Steps keep FlagsOK. *)
LEMMA FlagsStep ==
  ASSUME IInv, [Next]_vars
  PROVE  FlagsOK'
<1>1. ASSUME NEW p \in Procs, NEW r \in Requests, CallRefused(p, r)
      PROVE  FlagsOK'
  <2>1. \A q \in Procs : osreldate'[q] \in {0, kernel}
    BY <1>1, Release DEF CallRefused
  <2>2. QED
    BY <1>1, <2>1, Types DEF CallRefused, IInv, FlagsOK
<1>2. ASSUME NEW p \in Procs, NEW r \in Requests, Call(p, r)
      PROVE  FlagsOK'
  <2>1. PICK rel \in OsRelDates \cup {-1} :
               OsRelDate(p, r, rel) /\ ~Refused(r, rel)
               /\ flags' = [flags EXCEPT ![p] = RforkFlags(r, rel)]
    BY <1>2 DEF Call
  <2>2. (\A q \in Procs : osreldate'[q] \in {0, kernel}) /\ rel \in {kernel, -1}
    BY <2>1, Release
  <2>3. QED
    BY <1>2, <2>1, <2>2, Types DEF Call, IInv, FlagsOK, Before
<1>3. ASSUME NEW p \in Procs, Args(p)
      PROVE  FlagsOK'
  BY <1>3, Types DEF Args, IInv, CallsOK, FlagsOK, InCall, Before
<1>4. ASSUME NEW p \in Procs, Block(p)
      PROVE  FlagsOK'
  BY <1>4, Types DEF Block, IInv, CallsOK, FlagsOK, InCall, Before
<1>5. ASSUME NEW p \in Procs, Copy(p)
      PROVE  FlagsOK'
  BY <1>5, Types DEF Copy, IInv, CallsOK, FlagsOK, InCall, Before
<1>6. ASSUME NEW p \in Procs, RforkFails(p)
      PROVE  FlagsOK'
  <2>1. /\ \A q \in Procs : pc'[q] \in Before => pc[q] \in Before /\ req'[q] = req[q]
        /\ flags' = flags /\ kernel' = kernel /\ osreldate' = osreldate
    BY <1>6, Types DEF RforkFails, Before
  <2>2. QED
    BY <2>1 DEF IInv, FlagsOK, Refused, RforkFlags, New
<1>7. ASSUME NEW p \in Procs, Rfork(p)
      PROVE  FlagsOK'
  BY <1>7, Types DEF Rfork, IInv, CallsOK, FlagsOK, InCall, Before
<1>8. ASSUME NEW p \in Procs, Unmask(p)
      PROVE  FlagsOK'
  BY <1>8, Types DEF Unmask, IInv, CallsOK, FlagsOK, InCall, Before
<1>9. ASSUME NEW p \in Procs, Switch(p)
      PROVE  FlagsOK'
  BY <1>9, Types DEF Switch, IInv, CallsOK, FlagsOK, InCall, Before
<1>10. ASSUME NEW p \in Procs, Load(p)
      PROVE  FlagsOK'
  BY <1>10, Types DEF Load, IInv, CallsOK, FlagsOK, InCall, Before
<1>11. ASSUME NEW p \in Procs, Restore(p)
      PROVE  FlagsOK'
  BY <1>11, Types DEF Restore, IInv, CallsOK, FlagsOK, InCall, Before
<1>12. ASSUME NEW p \in Procs, Start(p)
      PROVE  FlagsOK'
  BY <1>12, Types DEF Start, IInv, CallsOK, FlagsOK, InCall, Before
<1>13. ASSUME NEW p \in Procs, Exit(p)
      PROVE  FlagsOK'
  BY <1>13, Types DEF Exit, IInv, CallsOK, FlagsOK, InCall, Before
<1>14. ASSUME NEW p \in Procs, NEW s \in Kills, Kill(p, s)
      PROVE  FlagsOK'
  BY <1>14, Types DEF Kill, IInv, CallsOK, FlagsOK, InCall, Before
<1>15. ASSUME NEW p \in Procs, NEW s \in Signals, Deliver(p, s)
      PROVE  FlagsOK'
  BY <1>15, Types DEF Deliver, IInv, CallsOK, FlagsOK, InCall, Before
<1>16. ASSUME NEW p \in Procs, NEW m \in {{}, Kills}, SetMask(p, m)
      PROVE  FlagsOK'
  BY <1>16, Types DEF SetMask, IInv, CallsOK, FlagsOK, InCall, Before
<1>17. CASE UNCHANGED vars
  BY <1>17 DEF IInv, CallsOK, FlagsOK, InCall, Before
<1>18. QED
  BY <1>1, <1>2, <1>3, <1>4, <1>5, <1>6, <1>7, <1>8, <1>9, <1>10, <1>11, <1>12, <1>13,
     <1>14, <1>15, <1>16, <1>17 DEF Next, Step, Caller, Child

(* Steps keep the handlers on their stacks: one that is on another's stack *)
(* has blocked all signals, or the stack is in another memory.              *)
LEMMA HandlersStep ==
  ASSUME IInv, [Next]_vars
  PROVE  HandlersStayOnTheirStack'
<1>1. ASSUME NEW p \in Procs, NEW s \in Signals, Deliver(p, s)
      PROVE  ~OnAnothersStack(p)
  <2>1. s \in All /\ s \notin mask[p]
    BY <1>1, ConstantsOK DEF Deliver, Signals, SIGCHLD, All
  <2>2. ~Blocked(p)
    BY <2>1 DEF IInv, MasksOK
  <2>3. QED
    BY <2>2 DEF OnAnothersStack, Blocked, IInv, StacksOK
<1>2. QED
  BY <1>1 DEF IInv, HandlersStayOnTheirStack, Next, Step, Caller, Child, CallRefused, Call,
     Args,
              Block, Copy, RforkFails, Rfork, Unmask, Switch, Load, Restore, Start, Exit, Kill,
              Deliver, SetMask

(* Steps keep the signals of the parents. *)
LEMMA ParentsStep ==
  ASSUME IInv, [Next]_vars
  PROVE  ParentsGetTheSignalAskedFor'
<1>1. ASSUME NEW p \in Procs, Rfork(p)
      PROVE  ParentsGetTheSignalAskedFor'
  <2>1. /\ req[p] \in Requests /\ req[p].child \in Procs
        /\ ExitSignal(flags[p]) =
             IF req[p].csignal = {} /\ ~New(kernel) THEN SIGCHLD ELSE req[p].csignal
    BY <1>1, AtRfork DEF Rfork
  <2>2. /\ exitSig' = [exitSig EXCEPT ![req[p].child] = ExitSignal(flags[p])]
        /\ asked' = [asked EXCEPT ![req[p].child] = req[p]]
        /\ kernel' = kernel /\ pc[p] = "rfork"
        /\ \A q \in Procs : q # req[p].child => (Alive(q)' <=> Alive(q))
    BY <1>1, Types DEF Rfork, Alive
  <2>3. asked = [q \in Procs |-> asked[q]] /\ exitSig = [q \in Procs |-> exitSig[q]]
    BY DEF IInv, TypeOK
  <2>4. QED
    BY <2>1, <2>2, <2>3 DEF IInv, ParentsGetTheSignalAskedFor, New
<1>2. ASSUME UNCHANGED <<exitSig, asked, kernel>>,
             \A q \in Procs : Alive(q)' => Alive(q)
      PROVE  ParentsGetTheSignalAskedFor'
  BY <1>2 DEF IInv, ParentsGetTheSignalAskedFor, New
<1>3. CASE UNCHANGED vars
  BY <1>2, <1>3 DEF Alive
<1>4. ASSUME NEW p \in Procs, NEW r \in Requests, CallRefused(p, r)
      PROVE  ParentsGetTheSignalAskedFor'
  BY <1>2, <1>4, Types DEF CallRefused, Alive
<1>5. ASSUME NEW p \in Procs, NEW r \in Requests, Call(p, r)
      PROVE  ParentsGetTheSignalAskedFor'
  BY <1>2, <1>5, Types DEF Call, Alive
<1>6. ASSUME NEW p \in Procs, Args(p)
      PROVE  ParentsGetTheSignalAskedFor'
  BY <1>2, <1>6, Types DEF Args, Alive
<1>7. ASSUME NEW p \in Procs, Block(p)
      PROVE  ParentsGetTheSignalAskedFor'
  BY <1>2, <1>7, Types DEF Block, Alive
<1>8. ASSUME NEW p \in Procs, Copy(p)
      PROVE  ParentsGetTheSignalAskedFor'
  BY <1>2, <1>8, Types DEF Copy, Alive
<1>9. ASSUME NEW p \in Procs, RforkFails(p)
      PROVE  ParentsGetTheSignalAskedFor'
  BY <1>2, <1>9, Types DEF RforkFails, Alive
<1>10. ASSUME NEW p \in Procs, Unmask(p)
      PROVE  ParentsGetTheSignalAskedFor'
  BY <1>2, <1>10, Types DEF Unmask, Alive
<1>11. ASSUME NEW p \in Procs, Switch(p)
      PROVE  ParentsGetTheSignalAskedFor'
  BY <1>2, <1>11, Types DEF Switch, Alive
<1>12. ASSUME NEW p \in Procs, Load(p)
      PROVE  ParentsGetTheSignalAskedFor'
  BY <1>2, <1>12, Types DEF Load, Alive
<1>13. ASSUME NEW p \in Procs, Restore(p)
      PROVE  ParentsGetTheSignalAskedFor'
  BY <1>2, <1>13, Types DEF Restore, Alive
<1>14. ASSUME NEW p \in Procs, Start(p)
      PROVE  ParentsGetTheSignalAskedFor'
  BY <1>2, <1>14, Types DEF Start, Alive
<1>15. ASSUME NEW p \in Procs, Exit(p)
      PROVE  ParentsGetTheSignalAskedFor'
  BY <1>2, <1>15, Types DEF Exit, Alive
<1>16. ASSUME NEW p \in Procs, NEW s \in Kills, Kill(p, s)
      PROVE  ParentsGetTheSignalAskedFor'
  BY <1>2, <1>16, Types DEF Kill, Alive
<1>17. ASSUME NEW p \in Procs, NEW s \in Signals, Deliver(p, s)
      PROVE  ParentsGetTheSignalAskedFor'
  BY <1>2, <1>17, Types DEF Deliver, Alive
<1>18. ASSUME NEW p \in Procs, NEW m \in {{}, Kills}, SetMask(p, m)
      PROVE  ParentsGetTheSignalAskedFor'
  BY <1>2, <1>18, Types DEF SetMask, Alive
<1>19. QED
  BY <1>1, <1>3, <1>4, <1>5, <1>6, <1>7, <1>8, <1>9, <1>10, <1>11, <1>12, <1>13, <1>14,
     <1>15, <1>16, <1>17, <1>18 DEF Next, Step, Caller, Child

-----------------------------------------------------------------------------
(* It holds at first. *)
LEMMA InitIInv == Init => IInv
<1> SUFFICES ASSUME Init PROVE IInv
  OBVIOUS
<1>1. TypeOK
  BY ConstantsOK DEF Init, TypeOK, States, Nothing, All
<1>2. CallsOK /\ MasksOK /\ FunctionsOK /\ StacksOK
  BY ConstantsOK DEF Init, CallsOK, MasksOK, FunctionsOK, StacksOK, Blocked, InCall, Before,
     Newborn, Complex
<1>3. FlagsOK /\ HandlersStayOnTheirStack /\ ParentsGetTheSignalAskedFor
  BY ConstantsOK DEF Init, FlagsOK, Before, HandlersStayOnTheirStack,
     ParentsGetTheSignalAskedFor
<1>4. QED
  BY <1>1, <1>2, <1>3 DEF IInv

(* IInv is an invariant of clone. *)
THEOREM Invariance == Spec => []IInv
<1>1. IInv /\ [Next]_vars => IInv'
  BY TypeStep, CallsStep, MasksStep, FunctionsStep, StacksStep, FlagsStep, HandlersStep,
     ParentsStep DEF IInv
<1>2. QED
  BY InitIInv, <1>1, PTL DEF Spec

(* Every variable keeps its type. *)
THEOREM Typed == Spec => []TypeOK
<1>1. IInv => TypeOK
  BY DEF IInv
<1>2. QED
  BY Invariance, <1>1, PTL

(* start_thread.S 37-51: however the two processes and the signals are       *)
(* interleaved, no handler writes on another's stack in the same memory.     *)
THEOREM OwnStacks == Spec => []HandlersStayOnTheirStack
<1>1. IInv => HandlersStayOnTheirStack
  BY DEF IInv
<1>2. QED
  BY Invariance, <1>1, PTL

(* The program never runs with the mask clone sets for itself. *)
THEOREM MasksRestored == Spec => []MasksComeBack
<1>1. IInv => MasksComeBack
  BY DEF IInv, MasksOK, MasksComeBack, Blocked
<1>2. QED
  BY Invariance, <1>1, PTL

(* A child calls its own function, also when many are made at once. *)
THEOREM OwnFunctions == Spec => []ChildrenRunTheirFunction
<1>1. IInv => ChildrenRunTheirFunction
  BY DEF IInv, FunctionsOK, ChildrenRunTheirFunction
<1>2. QED
  BY Invariance, <1>1, PTL

(* The parent gets the signal of CSIGNAL, on old and on new kernels, and     *)
(* when the kernel's release could not be read.                              *)
THEOREM ExitSignals == Spec => []ParentsGetTheSignalAskedFor
<1>1. IInv => ParentsGetTheSignalAskedFor
  BY DEF IInv
<1>2. QED
  BY Invariance, <1>1, PTL

=============================================================================
