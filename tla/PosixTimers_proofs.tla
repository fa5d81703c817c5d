------------------------ MODULE PosixTimers_proofs ------------------------
(***************************************************************************)
(* Proofs about PosixTimers, for every set of threads, addresses and       *)
(* kernel timers, every size of the table and number of calls, both        *)
(* libraries and, where a theorem does not say otherwise, all faults.      *)
(***************************************************************************)
EXTENDS PosixTimers, SequenceTheorems, TLAPS

USE DEF table, list, start, help, locals, kern, vars, Goto, Return

-----------------------------------------------------------------------------
(* The inductive invariant.  A thread with one of these labels holds a       *)
(* struct; the scan has not yet put it in the table, and the last step       *)
(* before free has taken it out.                                             *)
Loose == {"scan", "free"}
Holding == Loose \cup {"ktimer", "lock.push", "push", "ktimerDelete", "lock.unlink", "unlink",
                       "clear"}
Slotted(a) == \E i \in Ids : allTimers[i] = a
Named(a) == \E k \in Kids : ktimer[k] # NULL /\ ktimer[k].addr = a
Chained(a) == /\ heap[a].ktimerid \in Kids
              /\ ktimer[heap[a].ktimerid] # NULL /\ ktimer[heap[a].ktimerid].addr = a
PtrsOK ==
  /\ \A t \in Threads : /\ pc[t] \in Holding => ptr[t] # NULL
                        /\ pc[t] \notin Holding \cup {"gone"} => ptr[t] = NULL
                        /\ ptr[t] # NULL => heap[ptr[t]] # NULL
  /\ \A t, u \in Threads : ptr[t] = ptr[u] /\ ptr[t] # NULL => t = u
SlotsOK ==
  /\ \A i, j \in Ids : allTimers[i] = allTimers[j] /\ allTimers[i] # NULL => i = j
  /\ \A i \in Ids : allTimers[i] # NULL => heap[allTimers[i]] # NULL
  /\ \A t \in Threads : /\ pc[t] \in Loose => ~Slotted(ptr[t])
                        /\ pc[t] \in Holding \ Loose => Slotted(ptr[t])
ListOK ==
  /\ ListedTimersAreAllocated
  /\ \A t \in Threads :
       /\ pc[t] \in {"scan", "ktimer", "lock.push", "push", "clear", "free"} => ~Listed(ptr[t])
       /\ pc[t] \in {"lock.unlink", "unlink"} => Listed(ptr[t])
       /\ pc[t] \in {"lock.push", "push"} => heap[ptr[t]].notify = "thread"
       /\ pc[t] = "ktimerDelete" => (heap[ptr[t]].notify = "thread" <=> Listed(ptr[t]))
KernelOK ==
  /\ KernelTimersHaveStructs
  /\ \A t \in Threads :
       /\ pc[t] \in {"scan", "ktimer", "lock.unlink", "unlink", "clear", "free"} => ~Named(ptr[t])
       /\ pc[t] \in {"lock.push", "push", "ktimerDelete"} => Chained(ptr[t])
FnsOK ==
  /\ \A a \in Addrs : heap[a] # NULL => heap[a].fn <= created /\ heap[a].fn \notin deleted
  /\ \A a, b \in Addrs : heap[a] # NULL /\ heap[b] # NULL /\ heap[a].fn = heap[b].fn => a = b
  /\ \A f \in deleted : f <= created
HelperOK == /\ helper = "new" => sem = 0
            /\ helper \in {"got", "run"} => si # NULL
IInv == /\ TypeOK /\ PtrsOK /\ SlotsOK /\ ListOK /\ KernelOK /\ LiveTimersReachTheirKernelTimer
        /\ FnsOK /\ HelperOK

(* The types by themselves, for the provers. *)
LEMMA Types ==
  ASSUME IInv
  PROVE  /\ pc \in [Threads -> Labels] /\ ptr \in [Threads -> Addrs \cup {NULL}]
         /\ kind \in [Threads -> Kinds] /\ idx \in [Threads -> Ids]
         /\ allTimers \in [Ids -> Addrs \cup {NULL}] /\ live \subseteq Ids
         /\ heap = [a \in Addrs |-> heap[a]] /\ ktimer = [k \in Kids |-> ktimer[k]]
         /\ NULL \notin Addrs \cup Kids \cup Threads \cup {Helper} /\ Helper \notin Threads
         /\ active \in Seq(Addrs) /\ created \in Nat /\ deleted \subseteq Nat
         /\ \A a \in Addrs : heap[a] # NULL => heap[a].fn \in Nat
         /\ \A i \in 1 .. Len(active) : active[i] \in Addrs
  BY ConstantsOK DEF IInv, TypeOK, TimerRecords, Fns

(* What a thread's locals are between calls. *)
LEMMA Zero ==
  /\ 0 \in Ids /\ "signal" \in Kinds /\ "thread" \in Kinds
  /\ "idle" \in Labels /\ "start" \in Labels /\ "malloc" \in Labels /\ "scan" \in Labels
  /\ "ktimer" \in Labels /\ "lock.push" \in Labels /\ "clear" \in Labels
BY ConstantsOK DEF Ids, Kinds, Labels

(* The fields of the records, and that they are records. *)
LEMMA TimerFields ==
  ASSUME NEW n \in Kinds \cup {"unset"}, NEW k \in Kids \cup {NULL}, NEW f \in Fns
  PROVE  /\ Timer(n, k, f) \in TimerRecords /\ Timer(n, k, f) # NULL
         /\ Timer(n, k, f).notify = n /\ Timer(n, k, f).ktimerid = k /\ Timer(n, k, f).fn = f
<1>1. Timer(n, k, f) \in TimerRecords
  BY DEF Timer, TimerRecords
<1>2. QED
  BY <1>1, NullOK DEF Timer

LEMMA KTimerFields ==
  ASSUME NEW a \in Addrs, NEW n \in Kinds, NEW f \in Fns, NEW on \in BOOLEAN
  PROVE  /\ KTimer(a, n, f, on) \in KTimerRecords /\ KTimer(a, n, f, on) # NULL
         /\ KTimer(a, n, f, on).addr = a /\ KTimer(a, n, f, on).fn = f
<1>1. KTimer(a, n, f, on) \in KTimerRecords
  BY DEF KTimer, KTimerRecords
<1>2. QED
  BY <1>1, NullOK DEF KTimer

LEMMA SignalFields ==
  ASSUME NEW a \in Addrs, NEW f \in Fns
  PROVE  Signal(a, f) \in SignalRecords
  BY DEF Signal, SignalRecords

(* What a thread does to the structs and the kernel's timers. *)
LEMMA MallocEffect ==
  ASSUME IInv, NEW t \in Threads, NEW a \in Addrs,
         heap[a] = NULL, heap' = [heap EXCEPT ![a] = Timer("unset", NULL, created + 1)]
  PROVE  /\ heap' \in [Addrs -> TimerRecords \cup {NULL}]
         /\ heap'[a] # NULL /\ heap'[a].fn = created + 1 /\ heap'[a].notify = "unset"
         /\ \A b \in Addrs \ {a} : heap'[b] = heap[b]
<1>1. created + 1 \in Fns /\ heap \in [Addrs -> TimerRecords \cup {NULL}]
  BY DEF IInv, TypeOK, Fns
<1>2. QED
  BY <1>1, TimerFields

LEMMA CreateEffect ==
  ASSUME IInv, NEW t \in Threads, pc[t] = "ktimer", NEW k \in Kids, ktimer[k] = NULL,
         ktimer' = [ktimer EXCEPT ![k] = KTimer(ptr[t], kind[t], heap[ptr[t]].fn, FALSE)],
         heap' = [heap EXCEPT ![ptr[t]] = Timer(kind[t], k, heap[ptr[t]].fn)]
  PROVE  /\ ptr[t] \in Addrs
         /\ heap' \in [Addrs -> TimerRecords \cup {NULL}]
         /\ heap'[ptr[t]] # NULL /\ heap'[ptr[t]].fn = heap[ptr[t]].fn
         /\ heap'[ptr[t]].notify = kind[t] /\ heap'[ptr[t]].ktimerid = k
         /\ \A b \in Addrs \ {ptr[t]} : heap'[b] = heap[b]
         /\ ktimer' \in [Kids -> KTimerRecords \cup {NULL}]
         /\ ktimer'[k] # NULL /\ ktimer'[k].addr = ptr[t] /\ ktimer'[k].fn = heap[ptr[t]].fn
         /\ \A l \in Kids \ {k} : ktimer'[l] = ktimer[l]
<1>1. ptr[t] \in Addrs /\ heap[ptr[t]] # NULL
  BY Types DEF IInv, PtrsOK, Holding
<1>2. heap[ptr[t]] \in TimerRecords /\ kind[t] \in Kinds
  BY <1>1 DEF IInv, TypeOK
<1>3. heap[ptr[t]].fn \in Fns
  BY <1>2 DEF TimerRecords
<1>4. /\ heap \in [Addrs -> TimerRecords \cup {NULL}]
      /\ ktimer \in [Kids -> KTimerRecords \cup {NULL}]
  BY DEF IInv, TypeOK
<1>5. /\ Timer(kind[t], k, heap[ptr[t]].fn) \in TimerRecords
      /\ Timer(kind[t], k, heap[ptr[t]].fn) # NULL
      /\ Timer(kind[t], k, heap[ptr[t]].fn).notify = kind[t]
      /\ Timer(kind[t], k, heap[ptr[t]].fn).ktimerid = k
      /\ Timer(kind[t], k, heap[ptr[t]].fn).fn = heap[ptr[t]].fn
  BY <1>2, <1>3, TimerFields
<1>6. /\ KTimer(ptr[t], kind[t], heap[ptr[t]].fn, FALSE) \in KTimerRecords
      /\ KTimer(ptr[t], kind[t], heap[ptr[t]].fn, FALSE) # NULL
      /\ KTimer(ptr[t], kind[t], heap[ptr[t]].fn, FALSE).addr = ptr[t]
      /\ KTimer(ptr[t], kind[t], heap[ptr[t]].fn, FALSE).fn = heap[ptr[t]].fn
  <2>1. KTimer(ptr[t], kind[t], heap[ptr[t]].fn, FALSE) \in KTimerRecords
    BY <1>1, <1>2, <1>3 DEF KTimer, KTimerRecords
  <2>2. QED
    BY <2>1, NullOK DEF KTimer
<1>7. QED
  BY <1>1, <1>4, <1>5, <1>6

(* The three outcomes of ktimer_create. *)
Made(t) == \E k \in Kids :
             /\ ktimer[k] = NULL
             /\ ktimer' = [ktimer EXCEPT ![k] =
                             KTimer(ptr[t], kind[t], heap[ptr[t]].fn, FALSE)]
             /\ heap' = [heap EXCEPT ![ptr[t]] = Timer(kind[t], k, heap[ptr[t]].fn)]
MadeThread(t) == /\ Made(t) /\ kind[t] = "thread" /\ pc' = [pc EXCEPT ![t] = "lock.push"]
                 /\ kind' = kind /\ ptr' = ptr /\ idx' = idx /\ live' = live
MadeSignal(t) == /\ Made(t) /\ kind[t] # "thread" /\ pc' = [pc EXCEPT ![t] = "idle"]
                 /\ kind' = [kind EXCEPT ![t] = "signal"] /\ ptr' = [ptr EXCEPT ![t] = NULL]
                 /\ idx' = [idx EXCEPT ![t] = 0] /\ live' = live \cup {ptr2id(ptr[t])}
MadeNothing(t) == /\ pc' = [pc EXCEPT ![t] = "clear"] /\ ktimer' = ktimer /\ heap' = heap
                  /\ kind' = kind /\ ptr' = ptr /\ idx' = idx /\ live' = live

(* What the kernel's timer and the struct hold when one has been made.       *)
LEMMA MadeEffect ==
  ASSUME IInv, NEW t \in Threads, pc[t] = "ktimer", Made(t)
  PROVE  \E k \in Kids :
           /\ ktimer[k] = NULL
           /\ heap'[ptr[t]] # NULL /\ heap'[ptr[t]].fn = heap[ptr[t]].fn
           /\ heap'[ptr[t]].notify = kind[t] /\ heap'[ptr[t]].ktimerid = k
           /\ \A b \in Addrs \ {ptr[t]} : heap'[b] = heap[b]
           /\ ktimer'[k] # NULL /\ ktimer'[k].addr = ptr[t] /\ ktimer'[k].fn = heap[ptr[t]].fn
           /\ \A l \in Kids \ {k} : ktimer'[l] = ktimer[l]
<1>1. PICK k \in Kids :
        /\ ktimer[k] = NULL
        /\ ktimer' = [ktimer EXCEPT ![k] =
                        KTimer(ptr[t], kind[t], heap[ptr[t]].fn, FALSE)]
        /\ heap' = [heap EXCEPT ![ptr[t]] = Timer(kind[t], k, heap[ptr[t]].fn)]
  BY DEF Made
<1>2. QED
  BY <1>1, CreateEffect

LEMMA Outcomes ==
  ASSUME NEW t \in Threads, KtimerCreate(t)
  PROVE  /\ pc[t] = "ktimer" /\ allTimers' = allTimers /\ active' = active
         /\ created' = created /\ deleted' = deleted
         /\ MadeThread(t) \/ MadeSignal(t) \/ MadeNothing(t)
<1>1. CASE kind[t] = "thread"
  BY <1>1 DEF KtimerCreate, CreateFailed, Made, MadeThread, MadeNothing
<1>2. CASE kind[t] # "thread"
  BY <1>2 DEF KtimerCreate, CreateFailed, Made, MadeSignal, MadeNothing
<1>3. QED
  BY <1>1, <1>2

(* A timer that is set or expires keeps its struct and its function. *)
LEMMA ArmEffect ==
  ASSUME IInv, NEW k \in Kids, ktimer[k] # NULL, NEW on \in BOOLEAN,
         ktimer' = [ktimer EXCEPT ![k] =
                      KTimer(ktimer[k].addr, ktimer[k].notify, ktimer[k].fn, on)]
  PROVE  /\ ktimer' \in [Kids -> KTimerRecords \cup {NULL}]
         /\ \A l \in Kids : /\ ktimer'[l] # NULL <=> ktimer[l] # NULL
                            /\ ktimer[l] # NULL => /\ ktimer'[l].addr = ktimer[l].addr
                                                   /\ ktimer'[l].fn = ktimer[l].fn
<1>1. ktimer \in [Kids -> KTimerRecords \cup {NULL}] /\ ktimer[k] \in KTimerRecords
  BY DEF IInv, TypeOK
<1>2. ktimer[k].addr \in Addrs /\ ktimer[k].notify \in Kinds /\ ktimer[k].fn \in Fns
  BY <1>1 DEF KTimerRecords
<1>3. QED
  BY <1>1, <1>2, KTimerFields

(* The kernel's timer of an id the application holds. *)
LEMMA LiveChain ==
  ASSUME IInv, NEW id \in Ids, id \in live
  PROVE  /\ allTimers[id] \in Addrs /\ heap[allTimers[id]] # NULL
         /\ heap[allTimers[id]].ktimerid \in Kids
         /\ ktimer[heap[allTimers[id]].ktimerid] # NULL
         /\ ktimer[heap[allTimers[id]].ktimerid].addr = allTimers[id]
<1>1. allTimers[id] \in Addrs /\ heap[allTimers[id]] # NULL
  BY Types DEF IInv, LiveTimersReachTheirKernelTimer
<1>2. heap[allTimers[id]] \in TimerRecords
  BY <1>1 DEF IInv, TypeOK
<1>3. QED
  BY <1>1, <1>2 DEF IInv, LiveTimersReachTheirKernelTimer, TimerRecords

(* ptr2id finds the slot of a timer that has one. *)
LEMMA SlotFound ==
  ASSUME IInv, NEW a \in Addrs, Slotted(a)
  PROVE  ptr2id(a) \in Ids /\ allTimers[ptr2id(a)] = a
<1>1. PICK i \in Ids : allTimers[i] = a
  BY DEF Slotted
<1>2. \A j \in Ids : j < i => allTimers[j] # a
  <2>1. \A j \in Ids : j # i => allTimers[j] # a
    BY <1>1, Types DEF IInv, SlotsOK
  <2>2. \A j \in Ids : j < i => j # i
    BY DEF Ids
  <2>3. QED
    BY <2>1, <2>2
<1>3. QED
  BY <1>1, <1>2 DEF ptr2id

(* The list with a timer in front, and without one. *)
LEMMA Pushed ==
  ASSUME IInv, NEW a \in Addrs, active' = <<a>> \o active
  PROVE  /\ active' \in Seq(Addrs) /\ Len(active') = Len(active) + 1 /\ active'[1] = a
         /\ \A i \in 1 .. Len(active) : active'[i + 1] = active[i]
         /\ \A i \in 2 .. Len(active') : active'[i] = active[i - 1]
         /\ \A b \in Addrs : Listed(b)' <=> Listed(b) \/ b = a
<1>1. active \in Seq(Addrs) /\ <<a>> \in Seq(Addrs) /\ Len(<<a>>) = 1
  BY Types
<1>2. /\ active' \in Seq(Addrs) /\ Len(active') = Len(active) + 1 /\ active'[1] = a
      /\ \A i \in 1 .. Len(active) : active'[i + 1] = active[i]
      /\ \A i \in 2 .. Len(active') : active'[i] = active[i - 1]
  BY <1>1, ConcatProperties
<1>3. Len(active) \in Nat
  BY <1>1
<1>4. ASSUME NEW b \in Addrs
      PROVE  Listed(b)' <=> Listed(b) \/ b = a
  <2>1. ASSUME Listed(b) \/ b = a
        PROVE  Listed(b)'
    BY <1>2, <1>3, <2>1 DEF Listed
  <2>2. ASSUME Listed(b)'
        PROVE  Listed(b) \/ b = a
    BY <1>2, <1>3, <2>2 DEF Listed
  <2>3. QED
    BY <2>1, <2>2
<1>5. QED
  BY <1>2, <1>4

LEMMA Dropped ==
  ASSUME IInv, NEW i \in 1 .. Len(active), active' = Without(active, i)
  PROVE  /\ active' \in Seq(Addrs)
         /\ \A m, n \in 1 .. Len(active') : active'[m] = active'[n] => m = n
         /\ \A b \in Addrs : Listed(b)' <=> Listed(b) /\ b # active[i]
<1>1. active \in Seq(Addrs) /\ Len(active) \in Nat
  BY Types
<1>2. /\ SubSeq(active, 1, i - 1) \in Seq(Addrs) /\ Len(SubSeq(active, 1, i - 1)) = i - 1
      /\ \A j \in 1 .. i - 1 : SubSeq(active, 1, i - 1)[j] = active[j]
  BY <1>1, SubSeqProperties
<1>3. /\ SubSeq(active, i + 1, Len(active)) \in Seq(Addrs)
      /\ Len(SubSeq(active, i + 1, Len(active))) = Len(active) - i
      /\ \A j \in 1 .. Len(active) - i : SubSeq(active, i + 1, Len(active))[j] = active[i + j]
  BY <1>1, SubSeqProperties
<1>4. /\ active' \in Seq(Addrs) /\ Len(active') = Len(active) - 1
      /\ \A j \in 1 .. Len(active) - 1 : active'[j] = active[IF j < i THEN j ELSE j + 1]
  <2> DEFINE s1 == SubSeq(active, 1, i - 1)
             s2 == SubSeq(active, i + 1, Len(active))
  <2>1. active' = s1 \o s2
    BY DEF Without
  <2>2. /\ s1 \o s2 \in Seq(Addrs) /\ Len(s1 \o s2) = Len(s1) + Len(s2)
        /\ \A j \in 1 .. Len(s1) + Len(s2) :
             (s1 \o s2)[j] = IF j <= Len(s1) THEN s1[j] ELSE s2[j - Len(s1)]
    BY <1>2, <1>3, ConcatProperties
  <2>3. Len(s1) = i - 1 /\ Len(s2) = Len(active) - i
    BY <1>2, <1>3
  <2>4. \A j \in 1 .. i - 1 : s1[j] = active[j]
    BY <1>2
  <2>5. \A j \in 1 .. Len(active) - i : s2[j] = active[i + j]
    BY <1>3
  <2> HIDE DEF s1, s2
  <2>6. ASSUME NEW j \in 1 .. Len(active) - 1
        PROVE  active'[j] = active[IF j < i THEN j ELSE j + 1]
    <3>1. (s1 \o s2)[j] = IF j <= i - 1 THEN s1[j] ELSE s2[j - (i - 1)]
      BY <1>1, <2>2, <2>3
    <3>2. CASE j < i
      <4>1. j \in 1 .. i - 1
        BY <1>1, <3>2
      <4>2. (s1 \o s2)[j] = s1[j]
        BY <1>1, <3>1, <4>1
      <4>3. QED
        BY <2>1, <2>4, <3>2, <4>1, <4>2
    <3>3. CASE ~(j < i)
      <4>1. j - (i - 1) \in 1 .. Len(active) - i /\ i + (j - (i - 1)) = j + 1
        BY <1>1, <3>3
      <4>2. (s1 \o s2)[j] = s2[j - (i - 1)]
        BY <1>1, <3>1, <3>3
      <4>3. QED
        BY <2>1, <2>5, <3>3, <4>1, <4>2
    <3>4. QED
      BY <3>2, <3>3
  <2>7. active' \in Seq(Addrs) /\ Len(active') = Len(s1) + Len(s2)
    BY <2>1, <2>2
  <2>8. Len(active') = Len(active) - 1
    BY <1>1, <2>3, <2>7
  <2>9. QED
    BY <2>6, <2>7, <2>8
<1>4a. ASSUME NEW j \in 1 .. Len(active) - 1
       PROVE  \E p \in 1 .. Len(active) :
                p = (IF j < i THEN j ELSE j + 1) /\ p # i /\ active[p] = active'[j]
  <2>1. /\ j \in 1 .. Len(active) /\ j + 1 \in 1 .. Len(active)
        /\ j < i => j # i
        /\ ~(j < i) => j + 1 # i
    BY <1>1
  <2>2. active'[j] = active[IF j < i THEN j ELSE j + 1]
    BY <1>4
  <2>3. CASE j < i
    BY <2>1, <2>2, <2>3
  <2>4. CASE ~(j < i)
    BY <2>1, <2>2, <2>4
  <2>5. QED
    BY <2>3, <2>4
<1>5. \A m, n \in 1 .. Len(active) : active[m] = active[n] => m = n
  BY DEF IInv, ListOK, ListedTimersAreAllocated
<1>6. ASSUME NEW m \in 1 .. Len(active'), NEW n \in 1 .. Len(active'), active'[m] = active'[n]
      PROVE  m = n
  <2>1. /\ m \in 1 .. Len(active) - 1 /\ n \in 1 .. Len(active) - 1
        /\ m \in Int /\ n \in Int /\ i \in Int
    BY <1>1, <1>4
  <2>2. PICK p \in 1 .. Len(active) : p = (IF m < i THEN m ELSE m + 1) /\ active[p] = active'[m]
    BY <1>4a, <2>1
  <2>3. PICK q \in 1 .. Len(active) : q = (IF n < i THEN n ELSE n + 1) /\ active[q] = active'[n]
    BY <1>4a, <2>1
  <2>4. p = q
    BY <1>5, <1>6, <2>2, <2>3
  <2>5. QED
    BY <2>1, <2>2, <2>3, <2>4
<1>7. ASSUME NEW b \in Addrs
      PROVE  Listed(b)' <=> Listed(b) /\ b # active[i]
  <2>1. ASSUME Listed(b), b # active[i]
        PROVE  Listed(b)'
    <3>1. PICK j \in 1 .. Len(active) : active[j] = b
      BY <2>1 DEF Listed
    <3>2. CASE j < i
      <4>1. j \in 1 .. Len(active) - 1
        BY <1>1, <3>2
      <4>2. active'[j] = b
        BY <1>4, <3>1, <3>2, <4>1
      <4>3. QED
        BY <1>1, <1>4, <4>1, <4>2 DEF Listed
    <3>3. CASE j > i
      <4>1. j - 1 \in 1 .. Len(active) - 1 /\ ~(j - 1 < i) /\ (j - 1) + 1 = j
        BY <1>1, <3>3
      <4>2. active'[j - 1] = b
        BY <1>4, <3>1, <4>1
      <4>3. QED
        BY <1>4, <4>1, <4>2 DEF Listed
    <3>4. QED
      BY <1>1, <2>1, <3>1, <3>2, <3>3
  <2>2. ASSUME Listed(b)'
        PROVE  Listed(b) /\ b # active[i]
    <3>1. PICK j \in 1 .. Len(active) - 1 : active'[j] = b
      BY <1>4, <2>2 DEF Listed
    <3>2. PICK m \in 1 .. Len(active) : m # i /\ active[m] = b
      BY <1>4a, <3>1
    <3>3. QED
      BY <1>5, <3>2 DEF Listed
  <2>3. QED
    BY <2>1, <2>2
<1>8. QED
  BY <1>4, <1>6, <1>7

(* Steps keep the types. *)
LEMMA TypeStep ==
  ASSUME IInv, [Next]_vars
  PROVE  TypeOK'
<1>1. ASSUME NEW t \in Threads, NEW k \in Kinds, CreateCall(t, k)
      PROVE  TypeOK'
  BY <1>1 DEF CreateCall, IInv, TypeOK, Labels
<1>2. ASSUME NEW t \in Threads, Probe(t)
      PROVE  TypeOK'
  BY <1>2 DEF Probe, Probed, IInv, TypeOK, Labels
<1>3. ASSUME NEW t \in Threads, Once(t)
      PROVE  TypeOK'
  <2>1. idx' \in [Threads -> Ids]
    BY <1>3, Zero, Types DEF Once
  <2>2. pc' \in [Threads -> Labels]
    BY <1>3, Zero, Types DEF Once
  <2>3. kind' \in [Threads -> Kinds]
    BY <1>3, Zero, Types DEF Once
  <2>4. ptr' \in [Threads -> Addrs \cup {NULL}]
    BY <1>3, Types DEF Once
  <2>5. once' \in {"no", "running", "done"}
    BY <1>3 DEF Once, IInv, TypeOK
  <2>6. QED
    BY <1>3, <2>1, <2>2, <2>3, <2>4, <2>5 DEF Once, IInv, TypeOK
<1>4. ASSUME NEW t \in Threads, StartHelper(t)
      PROVE  TypeOK'
  <2>1. pc' \in [Threads -> Labels]
    <3>1. pc' = [pc EXCEPT ![t] = "atfork"] \/ pc' = [pc EXCEPT ![t] = "semwait"]
      BY <1>4 DEF StartHelper
    <3>2. QED
      BY <3>1, Types DEF Labels
  <2>2. /\ helper' \in {"none", "new", "wait", "got", "run"} /\ helperTid' \in BOOLEAN
        /\ sem' \in {0, 1}
    BY <1>4 DEF StartHelper, IInv, TypeOK
  <2>3. QED
    BY <1>4, <2>1, <2>2 DEF StartHelper, IInv, TypeOK
<1>5. ASSUME NEW t \in Threads, SemWait(t)
      PROVE  TypeOK'
  BY <1>5 DEF SemWait, IInv, TypeOK, Labels
<1>6. ASSUME NEW t \in Threads, AtFork(t)
      PROVE  TypeOK'
  BY <1>6 DEF AtFork, IInv, TypeOK, Labels
<1>7. ASSUME NEW t \in Threads, Malloc(t)
      PROVE  TypeOK'
  <2>1. heap' \in [Addrs -> TimerRecords \cup {NULL}]
    BY <1>7, MallocEffect DEF Malloc, IInv, TypeOK
  <2>2. created' \in Nat
    BY <1>7 DEF Malloc, IInv, TypeOK
  <2>3. pc' \in [Threads -> Labels]
    BY <1>7, Zero DEF Malloc, IInv, TypeOK
  <2>4. kind' \in [Threads -> Kinds]
    BY <1>7, Zero DEF Malloc, IInv, TypeOK
  <2>5. ptr' \in [Threads -> Addrs \cup {NULL}]
    BY <1>7 DEF Malloc, IInv, TypeOK
  <2>6. idx' \in [Threads -> Ids]
    BY <1>7, Zero DEF Malloc, IInv, TypeOK
  <2>7. QED
    BY <1>7, <2>1, <2>2, <2>3, <2>4, <2>5, <2>6 DEF Malloc, IInv, TypeOK
<1>8. ASSUME NEW t \in Threads, Scan(t)
      PROVE  TypeOK'
  <2>1. idx' \in [Threads -> Ids]
    <3>1. MoreSlots(idx[t]) => idx[t] + 1 \in Ids
      BY Types, ConstantsOK DEF MoreSlots, Ids
    <3>2. QED
      BY <1>8, <3>1, Types, Zero DEF Scan
  <2>2. ptr[t] \in Addrs \cup {NULL} /\ ptr' \in [Threads -> Addrs \cup {NULL}]
    BY <1>8 DEF Scan, IInv, TypeOK
  <2>3. pc' \in [Threads -> Labels]
    BY <1>8, Zero DEF Scan, IInv, TypeOK
  <2>4. kind' \in [Threads -> Kinds]
    BY <1>8, Zero DEF Scan, IInv, TypeOK
  <2>5. allTimers' \in [Ids -> Addrs \cup {NULL}]
    BY <1>8, <2>2 DEF Scan, IInv, TypeOK
  <2>6. QED
    BY <1>8, <2>1, <2>2, <2>3, <2>4, <2>5 DEF Scan, IInv, TypeOK
<1>9. ASSUME NEW t \in Threads, KtimerCreate(t)
      PROVE  TypeOK'
  <2>1. /\ heap' \in [Addrs -> TimerRecords \cup {NULL}]
        /\ ktimer' \in [Kids -> KTimerRecords \cup {NULL}]
    BY <1>9, CreateEffect DEF KtimerCreate, IInv, TypeOK
  <2>2. ptr[t] \in Addrs /\ Slotted(ptr[t])
    BY <1>9, Types DEF KtimerCreate, IInv, PtrsOK, SlotsOK, Holding, Loose
  <2>3. ptr2id(ptr[t]) \in Ids
    BY <2>2, SlotFound
  <2>4. CASE MadeThread(t)
    BY <1>9, <2>1, <2>4, Outcomes, Zero DEF KtimerCreate, MadeThread, IInv, TypeOK
  <2>5. CASE MadeSignal(t)
    BY <1>9, <2>1, <2>3, <2>5, Outcomes, Zero DEF KtimerCreate, MadeSignal, IInv, TypeOK
  <2>6. CASE MadeNothing(t)
    BY <1>9, <2>1, <2>6, Outcomes, Zero DEF KtimerCreate, MadeNothing, IInv, TypeOK
  <2>7. QED
    BY <1>9, <2>4, <2>5, <2>6, Outcomes
<1>10. ASSUME NEW t \in Threads, LockList(t)
      PROVE  TypeOK'
  BY <1>10 DEF LockList, IInv, TypeOK, Labels
<1>11. ASSUME NEW t \in Threads, Push(t)
      PROVE  TypeOK'
  <2>1. ptr[t] \in Addrs /\ Slotted(ptr[t])
    BY <1>11, Types DEF Push, IInv, PtrsOK, SlotsOK, Holding, Loose
  <2>2. active' \in Seq(Addrs) /\ live' \subseteq Ids
    BY <1>11, <2>1, Pushed, SlotFound DEF Push, IInv, TypeOK
  <2>3. idx' \in [Threads -> Ids]
    BY <1>11, ConstantsOK DEF Push, IInv, TypeOK, Ids
  <2>4. QED
    BY <1>11, <2>2, <2>3 DEF Push, UnlockList, IInv, TypeOK, Labels, Kinds
<1>12. ASSUME NEW t \in Threads, NEW id \in Ids, DeleteCall(t, id)
      PROVE  TypeOK'
  BY <1>12 DEF DeleteCall, IInv, TypeOK, Labels
<1>13. ASSUME NEW t \in Threads, KtimerDelete(t)
      PROVE  TypeOK'
  <2>1. heap[ptr[t]] \in TimerRecords
    BY <1>13, Types DEF KtimerDelete, IInv, PtrsOK, Holding, TypeOK
  <2>2. ktimer' \in [Kids -> KTimerRecords \cup {NULL}]
    BY <1>13 DEF KtimerDelete, Forgotten, IInv, TypeOK
  <2>3. pending' \in Seq(SignalRecords)
    <3>1. pending \in Seq(SignalRecords)
      BY DEF IInv, TypeOK
    <3>2. ASSUME NEW i \in 1 .. Len(pending)
          PROVE  Withdrawn(i) \in Seq(SignalRecords)
      <4>1. Len(pending) \in Nat /\ \A j \in 1 .. Len(pending) : pending[j] \in SignalRecords
        BY <3>1
      <4>2. \A j \in 1 .. Len(pending) - 1 : (IF j < i THEN j ELSE j + 1) \in 1 .. Len(pending)
        BY <4>1
      <4>3. Len(pending) - 1 \in Nat
        BY <4>1
      <4>4. QED
        BY <4>1, <4>2, <4>3, IsASeq DEF Withdrawn
    <3>3. QED
      BY <1>13, <3>1, <3>2 DEF KtimerDelete
  <2>4. QED
    BY <1>13, <2>2, <2>3 DEF KtimerDelete, AfterKtimerDelete, IInv, TypeOK, Labels
<1>14. ASSUME NEW t \in Threads, Unlink(t)
      PROVE  TypeOK'
  <2>1. active' \in Seq(Addrs)
    BY <1>14, Dropped DEF Unlink
  <2>2. QED
    BY <1>14, <2>1 DEF Unlink, UnlockList, IInv, TypeOK, Labels
<1>15. ASSUME NEW t \in Threads, ClearSlot(t)
      PROVE  TypeOK'
  <2>1. ptr[t] \in Addrs /\ Slotted(ptr[t])
    BY <1>15, Types DEF ClearSlot, IInv, PtrsOK, SlotsOK, Holding, Loose
  <2>2. QED
    BY <1>15, <2>1, SlotFound DEF ClearSlot, IInv, TypeOK, Labels
<1>16. ASSUME NEW t \in Threads, Free(t)
      PROVE  TypeOK'
  <2>1. heap[ptr[t]] \in TimerRecords
    BY <1>16, Types DEF Free, IInv, PtrsOK, Holding, Loose, TypeOK
  <2>2. heap[ptr[t]].fn \in Fns
    BY <2>1 DEF TimerRecords
  <2>3. heap' \in [Addrs -> TimerRecords \cup {NULL}]
    BY <1>16 DEF Free, IInv, TypeOK
  <2>4. idx' \in [Threads -> Ids]
    BY <1>16, ConstantsOK DEF Free, IInv, TypeOK, Ids
  <2>5. QED
    BY <1>16, <2>2, <2>3, <2>4 DEF Free, IInv, TypeOK, Labels, Kinds
<1>17. ASSUME NEW t \in Threads, NEW id \in Ids, NEW on \in BOOLEAN, SetTime(t, id, on)
      PROVE  TypeOK'
  <2>1. ktimer' \in [Kids -> KTimerRecords \cup {NULL}]
    BY <1>17, LiveChain, ArmEffect DEF SetTime
  <2>2. QED
    BY <1>17, <2>1 DEF SetTime, IInv, TypeOK
<1>18. ASSUME NEW t \in Threads, NEW id \in Ids, Ask(t, id)
      PROVE  TypeOK'
  BY <1>18 DEF Ask, IInv, TypeOK, Labels
<1>19. ASSUME NEW t \in Threads, Fork(t)
      PROVE  TypeOK'
  <2>1. ktimer' \in [Kids -> KTimerRecords \cup {NULL}] /\ pending' \in Seq(SignalRecords)
    BY <1>19 DEF Fork
  <2>2. pc' \in [Threads -> Labels]
    BY <1>19 DEF Fork, Labels
  <2>3. QED
    BY <1>19, <2>1, <2>2 DEF Fork, ResetHelperControl, OnceAfterFork, IInv, TypeOK
<1>20. ASSUME NEW k \in Kids, NEW again \in BOOLEAN, Expire(k, again)
      PROVE  TypeOK'
  <2>1. ktimer' \in [Kids -> KTimerRecords \cup {NULL}]
    BY <1>20, ArmEffect DEF Expire
  <2>2. ktimer[k] \in KTimerRecords
    BY <1>20 DEF Expire, IInv, TypeOK
  <2>3. ktimer[k].addr \in Addrs /\ ktimer[k].fn \in Fns
    BY <2>2 DEF KTimerRecords
  <2>4. pending' \in Seq(SignalRecords)
    BY <1>20, <2>3, SignalFields, AppendProperties DEF Expire, IInv, TypeOK
  <2>5. QED
    BY <1>20, <2>1, <2>3, <2>4 DEF Expire, IInv, TypeOK
<1>21. ASSUME HelperAnnounce
      PROVE  TypeOK'
  BY <1>21 DEF HelperAnnounce, SemPost, IInv, TypeOK, HelperOK
<1>22. ASSUME HelperWait
      PROVE  TypeOK'
  <2>1. /\ Head(pending) \in SignalRecords /\ Tail(pending) \in Seq(SignalRecords)
    BY <1>22, HeadTailProperties DEF HelperWait, IInv, TypeOK
  <2>2. QED
    BY <1>22, <2>1 DEF HelperWait, IInv, TypeOK
<1>23. ASSUME HelperLock
      PROVE  TypeOK'
  BY <1>23 DEF HelperLock, IInv, TypeOK, Labels
<1>24. ASSUME HelperRun
      PROVE  TypeOK'
  <2>1. ran' \in Nat
    <3>1. \A a \in Addrs, f \in Fns : Contents(a, f) \in Nat
      BY Types DEF Contents, Fns
    <3>2. si.addr \in Addrs /\ si.fn \in Fns
      BY <1>24 DEF HelperRun, IInv, TypeOK, HelperOK, SignalRecords
    <3>3. QED
      BY <1>24, <3>1, <3>2 DEF HelperRun, IInv, TypeOK
  <2>2. QED
    BY <1>24, <2>1 DEF HelperRun, UnlockList, IInv, TypeOK
<1>25. ASSUME HelperCancelled
      PROVE  TypeOK'
  BY <1>25 DEF HelperCancelled, IInv, TypeOK, Labels
<1>26. CASE UNCHANGED vars
  BY <1>26 DEF IInv, TypeOK, Labels
<1>27. QED
  BY <1>1, <1>2, <1>3, <1>4, <1>5, <1>6, <1>7, <1>8, <1>9, <1>10, <1>11, <1>12, <1>13,
     <1>14, <1>15, <1>16, <1>17, <1>18, <1>19, <1>20, <1>21, <1>22, <1>23, <1>24, <1>25,
     <1>26 DEF Next, Call, Continue, HelperStep

(* Steps keep PtrsOK. *)
LEMMA PtrsStep ==
  ASSUME IInv, [Next]_vars
  PROVE  PtrsOK'
<1>1. ASSUME NEW t \in Threads, NEW k \in Kinds, CreateCall(t, k)
      PROVE  PtrsOK'
  BY <1>1, Types DEF CreateCall, IInv, PtrsOK, Holding, Loose, Labels
<1>2. ASSUME NEW t \in Threads, Probe(t)
      PROVE  PtrsOK'
  BY <1>2, Types DEF Probe, IInv, PtrsOK, Holding, Loose, Labels
<1>3. ASSUME NEW t \in Threads, Once(t)
      PROVE  PtrsOK'
  BY <1>3, Types DEF Once, IInv, PtrsOK, Holding, Loose, Labels
<1>4. ASSUME NEW t \in Threads, StartHelper(t)
      PROVE  PtrsOK'
  BY <1>4, Types DEF StartHelper, IInv, PtrsOK, Holding, Loose, Labels
<1>5. ASSUME NEW t \in Threads, SemWait(t)
      PROVE  PtrsOK'
  BY <1>5, Types DEF SemWait, IInv, PtrsOK, Holding, Loose, Labels
<1>6. ASSUME NEW t \in Threads, AtFork(t)
      PROVE  PtrsOK'
  BY <1>6, Types DEF AtFork, IInv, PtrsOK, Holding, Loose, Labels
<1>7. ASSUME NEW t \in Threads, Malloc(t)
      PROVE  PtrsOK'
  <2>1. CASE UNCHANGED heap
    <3>1. heap' = heap /\ pc[t] = "malloc" /\ ptr[t] = NULL
      BY <1>7, <2>1 DEF Malloc, IInv, PtrsOK, Holding, Loose
    <3>2. pc' = [pc EXCEPT ![t] = "idle"] /\ ptr' = [ptr EXCEPT ![t] = NULL]
      <4>1. ASSUME NEW a \in Addrs, heap[a] = NULL,
                   heap' = [heap EXCEPT ![a] = Timer("unset", NULL, created + 1)]
            PROVE  FALSE
        BY <3>1, <4>1, MallocEffect
      <4>2. QED
        BY <1>7, <4>1 DEF Malloc
    <3>3. QED
      BY <3>1, <3>2, Types DEF IInv, PtrsOK, Holding, Loose
  <2>2. CASE ~ UNCHANGED heap
    <3>1. PICK a \in Addrs : /\ heap[a] = NULL
                             /\ heap' = [heap EXCEPT ![a] = Timer("unset", NULL, created + 1)]
                             /\ ptr' = [ptr EXCEPT ![t] = a] /\ pc' = [pc EXCEPT ![t] = "scan"]
      BY <1>7, <2>2 DEF Malloc
    <3>2. heap'[a] # NULL /\ \A b \in Addrs \ {a} : heap'[b] = heap[b]
      BY <3>1, MallocEffect
    <3>3. \A u \in Threads : ptr[u] # a
      BY <3>1, Types DEF IInv, PtrsOK
    <3>4. QED
      BY <1>7, <3>1, <3>2, <3>3, Types DEF Malloc, IInv, PtrsOK, Holding, Loose, Labels
  <2>3. QED
    BY <2>1, <2>2
<1>8. ASSUME NEW t \in Threads, Scan(t)
      PROVE  PtrsOK'
  BY <1>8, Types DEF Scan, IInv, PtrsOK, Holding, Loose, Labels
<1>9. ASSUME NEW t \in Threads, KtimerCreate(t)
      PROVE  PtrsOK'
  <2>1. \A b \in Addrs : heap[b] # NULL => heap'[b] # NULL
    BY <1>9, CreateEffect DEF KtimerCreate
  <2>2. ASSUME NEW u \in Threads
        PROVE  /\ ptr'[u] = ptr[u] \/ ptr'[u] = NULL
               /\ pc'[u] \in Holding => pc[u] \in Holding /\ ptr'[u] = ptr[u]
               /\ pc'[u] = "gone" <=> pc[u] = "gone"
               /\ pc[u] \in Holding /\ pc'[u] \notin Holding => ptr'[u] = NULL
    <3>1. CASE MadeThread(t)
      BY <1>9, <3>1, Outcomes, Types DEF MadeThread, Holding, Loose
    <3>2. CASE MadeSignal(t)
      BY <1>9, <3>2, Outcomes, Types DEF MadeSignal, Holding, Loose
    <3>3. CASE MadeNothing(t)
      BY <1>9, <3>3, Outcomes, Types DEF MadeNothing, Holding, Loose
    <3>4. QED
      BY <1>9, <3>1, <3>2, <3>3, Outcomes
  <2>3. QED
    BY <2>1, <2>2, Types DEF IInv, PtrsOK
<1>10. ASSUME NEW t \in Threads, LockList(t)
      PROVE  PtrsOK'
  BY <1>10, Types DEF LockList, IInv, PtrsOK, Holding, Loose, Labels
<1>11. ASSUME NEW t \in Threads, Push(t)
      PROVE  PtrsOK'
  BY <1>11, Types DEF Push, IInv, PtrsOK, Holding, Loose, Labels
<1>12. ASSUME NEW t \in Threads, NEW id \in Ids, DeleteCall(t, id)
      PROVE  PtrsOK'
  <2>1. /\ allTimers[id] \in Addrs /\ heap[allTimers[id]] # NULL
        /\ \A u \in Threads : ptr[u] # allTimers[id]
    BY <1>12, LiveChain DEF DeleteCall, IInv, LiveTimersReachTheirKernelTimer
  <2>2. QED
    BY <1>12, <2>1, Types DEF DeleteCall, IInv, PtrsOK, Holding, Loose, Labels
<1>13. ASSUME NEW t \in Threads, KtimerDelete(t)
      PROVE  PtrsOK'
  BY <1>13, Types DEF KtimerDelete, AfterKtimerDelete, IInv, PtrsOK, Holding, Loose,
     Labels
<1>14. ASSUME NEW t \in Threads, Unlink(t)
      PROVE  PtrsOK'
  BY <1>14, Types DEF Unlink, IInv, PtrsOK, Holding, Loose, Labels
<1>15. ASSUME NEW t \in Threads, ClearSlot(t)
      PROVE  PtrsOK'
  BY <1>15, Types DEF ClearSlot, IInv, PtrsOK, Holding, Loose, Labels
<1>16. ASSUME NEW t \in Threads, Free(t)
      PROVE  PtrsOK'
  <2>1. \A b \in Addrs : b # ptr[t] => heap'[b] = heap[b]
    BY <1>16, Types DEF Free
  <2>2. QED
    BY <1>16, <2>1, Types DEF Free, IInv, PtrsOK, Holding, Loose, Labels
<1>17. ASSUME NEW t \in Threads, NEW id \in Ids, NEW on \in BOOLEAN, SetTime(t, id, on)
      PROVE  PtrsOK'
  BY <1>17, Types DEF SetTime, IInv, PtrsOK, Holding, Loose, Labels
<1>18. ASSUME NEW t \in Threads, NEW id \in Ids, Ask(t, id)
      PROVE  PtrsOK'
  BY <1>18, Types DEF Ask, IInv, PtrsOK, Holding, Loose, Labels
<1>19. ASSUME NEW t \in Threads, Fork(t)
      PROVE  PtrsOK'
  BY <1>19, Types DEF Fork, IInv, PtrsOK, Holding, Loose, Labels
<1>20. ASSUME NEW k \in Kids, NEW again \in BOOLEAN, Expire(k, again)
      PROVE  PtrsOK'
  BY <1>20, Types DEF Expire, IInv, PtrsOK, Holding, Loose, Labels
<1>21. ASSUME HelperAnnounce
      PROVE  PtrsOK'
  BY <1>21, Types DEF HelperAnnounce, IInv, PtrsOK, Holding, Loose, Labels
<1>22. ASSUME HelperWait
      PROVE  PtrsOK'
  BY <1>22, Types DEF HelperWait, IInv, PtrsOK, Holding, Loose, Labels
<1>23. ASSUME HelperLock
      PROVE  PtrsOK'
  BY <1>23, Types DEF HelperLock, IInv, PtrsOK, Holding, Loose, Labels
<1>24. ASSUME HelperRun
      PROVE  PtrsOK'
  BY <1>24, Types DEF HelperRun, IInv, PtrsOK, Holding, Loose, Labels
<1>25. ASSUME HelperCancelled
      PROVE  PtrsOK'
  BY <1>25, Types DEF HelperCancelled, IInv, PtrsOK, Holding, Loose, Labels
<1>26. CASE UNCHANGED vars
  BY <1>26, Types DEF IInv, PtrsOK, Holding, Loose, Labels
<1>27. QED
  BY <1>1, <1>2, <1>3, <1>4, <1>5, <1>6, <1>7, <1>8, <1>9, <1>10, <1>11, <1>12, <1>13,
     <1>14, <1>15, <1>16, <1>17, <1>18, <1>19, <1>20, <1>21, <1>22, <1>23, <1>24, <1>25,
     <1>26 DEF Next, Call, Continue, HelperStep

(* Steps keep SlotsOK. *)
LEMMA SlotsStep ==
  ASSUME IInv, [Next]_vars
  PROVE  SlotsOK'
<1>1. ASSUME NEW t \in Threads, NEW k \in Kinds, CreateCall(t, k)
      PROVE  SlotsOK'
  BY <1>1, Types DEF CreateCall, IInv, SlotsOK, Slotted, Holding, Loose, Labels
<1>2. ASSUME NEW t \in Threads, Probe(t)
      PROVE  SlotsOK'
  BY <1>2, Types DEF Probe, IInv, SlotsOK, Slotted, Holding, Loose, Labels
<1>3. ASSUME NEW t \in Threads, Once(t)
      PROVE  SlotsOK'
  BY <1>3, Types DEF Once, IInv, SlotsOK, Slotted, Holding, Loose, Labels
<1>4. ASSUME NEW t \in Threads, StartHelper(t)
      PROVE  SlotsOK'
  BY <1>4, Types DEF StartHelper, IInv, SlotsOK, Slotted, Holding, Loose, Labels
<1>5. ASSUME NEW t \in Threads, SemWait(t)
      PROVE  SlotsOK'
  BY <1>5, Types DEF SemWait, IInv, SlotsOK, Slotted, Holding, Loose, Labels
<1>6. ASSUME NEW t \in Threads, AtFork(t)
      PROVE  SlotsOK'
  BY <1>6, Types DEF AtFork, IInv, SlotsOK, Slotted, Holding, Loose, Labels
<1>7. ASSUME NEW t \in Threads, Malloc(t)
      PROVE  SlotsOK'
  <2>1. CASE heap' = heap
    <3>1. pc' = [pc EXCEPT ![t] = "idle"] /\ ptr' = [ptr EXCEPT ![t] = NULL]
      <4>1. ASSUME NEW a \in Addrs, heap[a] = NULL,
                   heap' = [heap EXCEPT ![a] = Timer("unset", NULL, created + 1)]
            PROVE  FALSE
        BY <2>1, <4>1, MallocEffect
      <4>2. QED
        BY <1>7, <4>1 DEF Malloc
    <3>2. allTimers' = allTimers
      BY <1>7 DEF Malloc
    <3>3. QED
      BY <2>1, <3>1, <3>2, Types DEF IInv, SlotsOK, Slotted, Holding, Loose
  <2>2. CASE heap' # heap
    <3>1. PICK a \in Addrs : /\ heap[a] = NULL
                             /\ heap' = [heap EXCEPT ![a] = Timer("unset", NULL, created + 1)]
                             /\ ptr' = [ptr EXCEPT ![t] = a] /\ pc' = [pc EXCEPT ![t] = "scan"]
      BY <1>7, <2>2 DEF Malloc
    <3>2. heap'[a] # NULL /\ \A b \in Addrs \ {a} : heap'[b] = heap[b]
      BY <3>1, MallocEffect
    <3>3. ~Slotted(a)
      BY <3>1, Types DEF IInv, SlotsOK, Slotted
    <3>4. allTimers' = allTimers
      BY <1>7 DEF Malloc
    <3>5. QED
      BY <3>1, <3>2, <3>3, <3>4, Types DEF IInv, SlotsOK, Slotted, Holding, Loose
  <2>3. QED
    BY <2>1, <2>2
<1>8. ASSUME NEW t \in Threads, Scan(t)
      PROVE  SlotsOK'
  <2>1. /\ pc[t] = "scan" /\ heap' = heap /\ ptr[t] \in Addrs
        /\ heap[ptr[t]] # NULL /\ ~Slotted(ptr[t])
    BY <1>8, Types DEF Scan, IInv, PtrsOK, SlotsOK, Holding, Loose
  <2>2. CASE allTimers' = allTimers
    <3>1. \/ pc' = pc /\ ptr' = ptr
          \/ pc' = [pc EXCEPT ![t] = "idle"] /\ ptr' = [ptr EXCEPT ![t] = NULL]
      <4>1. ASSUME allTimers[idx[t]] = NULL, allTimers' = [allTimers EXCEPT ![idx[t]] = ptr[t]]
            PROVE  FALSE
        BY <2>1, <2>2, <4>1, Types
      <4>2. QED
        BY <1>8, <4>1 DEF Scan
    <3>2. QED
      BY <2>1, <2>2, <3>1, Types DEF IInv, SlotsOK, Slotted, Holding, Loose
  <2>3. CASE allTimers' # allTimers
    <3>1. /\ allTimers[idx[t]] = NULL /\ allTimers' = [allTimers EXCEPT ![idx[t]] = ptr[t]]
          /\ pc' = [pc EXCEPT ![t] = "ktimer"] /\ ptr' = ptr
      BY <1>8, <2>3 DEF Scan
    <3>2. /\ \A i \in Ids : allTimers'[i] = IF i = idx[t] THEN ptr[t] ELSE allTimers[i]
          /\ idx[t] \in Ids
      BY <3>1, Types
    <3>3. \A b \in Addrs : Slotted(b)' <=> Slotted(b) \/ b = ptr[t]
      BY <2>1, <3>1, <3>2, Types DEF Slotted
    <3>4. /\ \A i, j \in Ids : allTimers'[i] = allTimers'[j] /\ allTimers'[i] # NULL => i = j
          /\ \A i \in Ids : allTimers'[i] # NULL => heap'[allTimers'[i]] # NULL
      BY <2>1, <3>2 DEF IInv, SlotsOK, Slotted
    <3>5. ASSUME NEW u \in Threads
          PROVE  /\ pc'[u] \in Loose => ~Slotted(ptr[u])'
                 /\ pc'[u] \in Holding \ Loose => Slotted(ptr[u])'
      <4>1. CASE u = t
        BY <2>1, <3>1, <3>3, <4>1, Types DEF Holding, Loose
      <4>2. CASE u # t
        <5>1. pc'[u] = pc[u] /\ ptr'[u] = ptr[u]
          BY <3>1, <4>2, Types
        <5>2. pc[u] \in Holding => ptr[u] \in Addrs /\ ptr[u] # ptr[t]
          BY <2>1, <4>2, Types DEF IInv, PtrsOK
        <5>3. Slotted(ptr[u])' <=> \E i \in Ids : allTimers'[i] = ptr[u]
          BY <5>1 DEF Slotted
        <5>4. pc[u] \in Holding => (Slotted(ptr[u])' <=> Slotted(ptr[u]))
          BY <3>3, <5>1, <5>2, <5>3 DEF Slotted
        <5>5. QED
          BY <5>1, <5>4 DEF IInv, SlotsOK, Holding
      <4>3. QED
        BY <4>1, <4>2
    <3>6. QED
      BY <3>4, <3>5 DEF SlotsOK
  <2>4. QED
    BY <2>2, <2>3
<1>9. ASSUME NEW t \in Threads, KtimerCreate(t)
      PROVE  SlotsOK'
  <2>1. \A b \in Addrs : heap[b] # NULL => heap'[b] # NULL
    BY <1>9, CreateEffect DEF KtimerCreate
  <2>2. allTimers' = allTimers /\ pc[t] = "ktimer"
    BY <1>9, Outcomes
  <2>3. CASE MadeThread(t)
    BY <2>1, <2>2, <2>3, Types DEF MadeThread, IInv, SlotsOK, Slotted, Holding, Loose
  <2>4. CASE MadeSignal(t)
    BY <2>1, <2>2, <2>4, Types DEF MadeSignal, IInv, SlotsOK, Slotted, Holding, Loose
  <2>5. CASE MadeNothing(t)
    BY <2>1, <2>2, <2>5, Types DEF MadeNothing, IInv, SlotsOK, Slotted, Holding, Loose
  <2>6. QED
    BY <1>9, <2>3, <2>4, <2>5, Outcomes
<1>10. ASSUME NEW t \in Threads, LockList(t)
      PROVE  SlotsOK'
  BY <1>10, Types DEF LockList, IInv, SlotsOK, Slotted, Holding, Loose, Labels
<1>11. ASSUME NEW t \in Threads, Push(t)
      PROVE  SlotsOK'
  BY <1>11, Types DEF Push, IInv, SlotsOK, Slotted, Holding, Loose, Labels
<1>12. ASSUME NEW t \in Threads, NEW id \in Ids, DeleteCall(t, id)
      PROVE  SlotsOK'
  <2>1. allTimers[id] \in Addrs
    BY <1>12, LiveChain DEF DeleteCall
  <2>2. QED
    BY <1>12, <2>1, Types DEF DeleteCall, IInv, SlotsOK, Slotted, Holding, Loose
<1>13. ASSUME NEW t \in Threads, KtimerDelete(t)
      PROVE  SlotsOK'
  BY <1>13, Types DEF KtimerDelete, AfterKtimerDelete, IInv, SlotsOK, Slotted, Holding,
     Loose
<1>14. ASSUME NEW t \in Threads, Unlink(t)
      PROVE  SlotsOK'
  BY <1>14, Types DEF Unlink, IInv, SlotsOK, Slotted, Holding, Loose, Labels
<1>15. ASSUME NEW t \in Threads, ClearSlot(t)
      PROVE  SlotsOK'
  <2>1. ptr[t] \in Addrs /\ Slotted(ptr[t])
    BY <1>15, Types DEF ClearSlot, IInv, PtrsOK, SlotsOK, Holding, Loose
  <2>2. ptr2id(ptr[t]) \in Ids /\ allTimers[ptr2id(ptr[t])] = ptr[t]
    BY <2>1, SlotFound
  <2>3. /\ allTimers' = [allTimers EXCEPT ![ptr2id(ptr[t])] = NULL]
        /\ pc' = [pc EXCEPT ![t] = "free"] /\ ptr' = ptr /\ heap' = heap /\ pc[t] = "clear"
    BY <1>15 DEF ClearSlot
  <2>4. \A i \in Ids : allTimers'[i] = IF i = ptr2id(ptr[t]) THEN NULL ELSE allTimers[i]
    BY <2>2, <2>3, Types
  <2>5. \A b \in Addrs : Slotted(b)' <=> Slotted(b) /\ b # ptr[t]
    BY <2>1, <2>2, <2>4, Types DEF Slotted, IInv, SlotsOK
  <2>6. /\ \A i, j \in Ids : allTimers'[i] = allTimers'[j] /\ allTimers'[i] # NULL => i = j
        /\ \A i \in Ids : allTimers'[i] # NULL => heap'[allTimers'[i]] # NULL
    BY <2>3, <2>4 DEF IInv, SlotsOK
  <2>7. ASSUME NEW u \in Threads
        PROVE  /\ pc'[u] \in Loose => ~Slotted(ptr[u])'
               /\ pc'[u] \in Holding \ Loose => Slotted(ptr[u])'
    <3>1. CASE u = t
      BY <2>1, <2>3, <2>5, <3>1, Types DEF Holding, Loose
    <3>2. CASE u # t
      <4>1. pc'[u] = pc[u] /\ ptr'[u] = ptr[u]
        BY <2>3, <3>2, Types
      <4>2. pc[u] \in Holding => ptr[u] \in Addrs /\ ptr[u] # ptr[t]
        BY <2>1, <3>2, Types DEF IInv, PtrsOK
      <4>3. pc[u] \in Holding => (Slotted(ptr[u])' <=> Slotted(ptr[u]))
        BY <2>5, <4>1, <4>2 DEF Slotted
      <4>4. QED
        BY <4>1, <4>3 DEF IInv, SlotsOK, Holding
    <3>3. QED
      BY <3>1, <3>2
  <2>8. QED
    BY <2>6, <2>7 DEF SlotsOK
<1>16. ASSUME NEW t \in Threads, Free(t)
      PROVE  SlotsOK'
  <2>1. ptr[t] \in Addrs /\ ~Slotted(ptr[t]) /\ allTimers' = allTimers
    BY <1>16, Types DEF Free, IInv, PtrsOK, SlotsOK, Holding, Loose
  <2>2. \A b \in Addrs : b # ptr[t] => heap'[b] = heap[b]
    BY <1>16, Types DEF Free
  <2>3. QED
    BY <1>16, <2>1, <2>2, Types DEF Free, IInv, SlotsOK, Slotted, Holding, Loose
<1>17. ASSUME NEW t \in Threads, NEW id \in Ids, NEW on \in BOOLEAN, SetTime(t, id, on)
      PROVE  SlotsOK'
  BY <1>17, Types DEF SetTime, IInv, SlotsOK, Slotted, Holding, Loose, Labels
<1>18. ASSUME NEW t \in Threads, NEW id \in Ids, Ask(t, id)
      PROVE  SlotsOK'
  BY <1>18, Types DEF Ask, IInv, SlotsOK, Slotted, Holding, Loose, Labels
<1>19. ASSUME NEW t \in Threads, Fork(t)
      PROVE  SlotsOK'
  BY <1>19, Types DEF Fork, IInv, SlotsOK, Slotted, Holding, Loose, Labels
<1>20. ASSUME NEW k \in Kids, NEW again \in BOOLEAN, Expire(k, again)
      PROVE  SlotsOK'
  BY <1>20, Types DEF Expire, IInv, SlotsOK, Slotted, Holding, Loose, Labels
<1>21. ASSUME HelperAnnounce
      PROVE  SlotsOK'
  BY <1>21, Types DEF HelperAnnounce, IInv, SlotsOK, Slotted, Holding, Loose, Labels
<1>22. ASSUME HelperWait
      PROVE  SlotsOK'
  BY <1>22, Types DEF HelperWait, IInv, SlotsOK, Slotted, Holding, Loose, Labels
<1>23. ASSUME HelperLock
      PROVE  SlotsOK'
  BY <1>23, Types DEF HelperLock, IInv, SlotsOK, Slotted, Holding, Loose, Labels
<1>24. ASSUME HelperRun
      PROVE  SlotsOK'
  BY <1>24, Types DEF HelperRun, IInv, SlotsOK, Slotted, Holding, Loose, Labels
<1>25. ASSUME HelperCancelled
      PROVE  SlotsOK'
  BY <1>25, Types DEF HelperCancelled, IInv, SlotsOK, Slotted, Holding, Loose, Labels
<1>26. CASE UNCHANGED vars
  BY <1>26, Types DEF IInv, SlotsOK, Slotted, Holding, Loose, Labels
<1>27. QED
  BY <1>1, <1>2, <1>3, <1>4, <1>5, <1>6, <1>7, <1>8, <1>9, <1>10, <1>11, <1>12, <1>13,
     <1>14, <1>15, <1>16, <1>17, <1>18, <1>19, <1>20, <1>21, <1>22, <1>23, <1>24, <1>25,
     <1>26 DEF Next, Call, Continue, HelperStep

(* What is on the list, said with addresses; the parts of ListOK. *)
LEMMA OnList ==
  ASSUME IInv
  PROVE  \A b \in Addrs : Listed(b) => heap[b] # NULL /\ heap[b].notify = "thread"
BY Types DEF IInv, ListOK, ListedTimersAreAllocated, Listed

LEMMA ListFrom ==
  ASSUME IInv, [Next]_vars, TypeOK',
         (\A i, j \in 1 .. Len(active) : active[i] = active[j] => i = j)',
         \A b \in Addrs : Listed(b)' => heap'[b] # NULL /\ heap'[b].notify = "thread"
  PROVE  ListedTimersAreAllocated'
<1>1. \A i \in 1 .. Len(active') : active'[i] \in Addrs /\ Listed(active[i])'
  BY DEF TypeOK, Listed
<1>2. QED
  BY <1>1 DEF ListedTimersAreAllocated

(* Steps keep ListOK. *)
LEMMA ListStep ==
  ASSUME IInv, [Next]_vars
  PROVE  ListOK'
<1>1. ASSUME NEW t \in Threads, NEW k \in Kinds, CreateCall(t, k)
      PROVE  ListOK'
  BY <1>1, Types DEF CreateCall, IInv, ListOK, ListedTimersAreAllocated, Listed, Labels
<1>2. ASSUME NEW t \in Threads, Probe(t)
      PROVE  ListOK'
  BY <1>2, Types DEF Probe, IInv, ListOK, ListedTimersAreAllocated, Listed, Labels
<1>3. ASSUME NEW t \in Threads, Once(t)
      PROVE  ListOK'
  BY <1>3, Types DEF Once, IInv, ListOK, ListedTimersAreAllocated, Listed, Labels
<1>4. ASSUME NEW t \in Threads, StartHelper(t)
      PROVE  ListOK'
  BY <1>4, Types DEF StartHelper, IInv, ListOK, ListedTimersAreAllocated, Listed, Labels
<1>5. ASSUME NEW t \in Threads, SemWait(t)
      PROVE  ListOK'
  BY <1>5, Types DEF SemWait, IInv, ListOK, ListedTimersAreAllocated, Listed, Labels
<1>6. ASSUME NEW t \in Threads, AtFork(t)
      PROVE  ListOK'
  BY <1>6, Types DEF AtFork, IInv, ListOK, ListedTimersAreAllocated, Listed, Labels
<1>7. ASSUME NEW t \in Threads, Malloc(t)
      PROVE  ListOK'
  <2>0. active' = active /\ pc[t] = "malloc"
    BY <1>7 DEF Malloc
  <2>1. CASE heap' = heap
    <3>1. pc' = [pc EXCEPT ![t] = "idle"] /\ ptr' = [ptr EXCEPT ![t] = NULL]
      <4>1. ASSUME NEW a \in Addrs, heap[a] = NULL,
                   heap' = [heap EXCEPT ![a] = Timer("unset", NULL, created + 1)]
            PROVE  FALSE
        BY <2>1, <4>1, MallocEffect
      <4>2. QED
        BY <1>7, <4>1 DEF Malloc
    <3>2. QED
      BY <2>0, <2>1, <3>1, Types DEF IInv, ListOK, ListedTimersAreAllocated, Listed
  <2>2. CASE heap' # heap
    <3>1. PICK a \in Addrs : /\ heap[a] = NULL
                             /\ heap' = [heap EXCEPT ![a] = Timer("unset", NULL, created + 1)]
                             /\ ptr' = [ptr EXCEPT ![t] = a] /\ pc' = [pc EXCEPT ![t] = "scan"]
      BY <1>7, <2>2 DEF Malloc
    <3>2. \A b \in Addrs \ {a} : heap'[b] = heap[b]
      BY <3>1, MallocEffect
    <3>3. ~Listed(a)
      BY <3>1, OnList
    <3>4. \A u \in Threads : u # t => ptr'[u] = ptr[u] /\ pc'[u] = pc[u] /\ ptr[u] # a
      BY <3>1, Types DEF IInv, PtrsOK
    <3>5. ASSUME NEW u \in Threads, u # t, pc[u] \in Holding
          PROVE  ptr[u] \in Addrs \ {a} /\ heap'[ptr[u]] = heap[ptr[u]]
      BY <3>2, <3>4, <3>5, Types DEF IInv, PtrsOK
    <3>6. ListedTimersAreAllocated'
      BY <2>0, <3>2, <3>3, Types DEF IInv, ListOK, ListedTimersAreAllocated, Listed
    <3>7. pc'[t] = "scan" /\ ptr'[t] = a
      BY <3>1, Types
    <3>8. QED
      BY <2>0, <3>3, <3>4, <3>5, <3>6, <3>7 DEF IInv, ListOK, Listed, Holding, Loose
  <2>3. QED
    BY <2>1, <2>2
<1>8. ASSUME NEW t \in Threads, Scan(t)
      PROVE  ListOK'
  BY <1>8, Types DEF Scan, IInv, ListOK, ListedTimersAreAllocated, Listed
<1>9. ASSUME NEW t \in Threads, KtimerCreate(t)
      PROVE  ListOK'
  <2>1. active' = active /\ pc[t] = "ktimer" /\ ptr[t] \in Addrs /\ ~Listed(ptr[t])
    BY <1>9, Outcomes, Types DEF IInv, PtrsOK, ListOK, Holding, Loose
  <2>2. CASE Made(t)
    <3>1. /\ heap'[ptr[t]].notify = kind[t]
          /\ \A b \in Addrs \ {ptr[t]} : heap'[b] = heap[b]
      BY <2>1, <2>2, MadeEffect
    <3>2. ListedTimersAreAllocated'
      <4>1. \A i \in 1 .. Len(active) : active[i] \in Addrs /\ active[i] # ptr[t]
        BY <2>1, Types DEF Listed
      <4>2. \A i \in 1 .. Len(active) : heap'[active[i]] = heap[active[i]]
        BY <3>1, <4>1
      <4>3. QED
        BY <2>1, <4>2 DEF IInv, ListOK, ListedTimersAreAllocated
    <3>3. ASSUME NEW u \in Threads, u # t, pc[u] \in Holding
          PROVE  heap'[ptr[u]] = heap[ptr[u]]
      BY <2>1, <3>1, <3>3, Types DEF IInv, PtrsOK
    <3>4. CASE MadeThread(t)
      <4>1. /\ pc'[t] = "lock.push" /\ ptr' = ptr /\ heap'[ptr[t]].notify = "thread"
            /\ \A u \in Threads : u # t => pc'[u] = pc[u]
        BY <3>1, <3>4, Types DEF MadeThread
      <4>2. QED
        BY <2>1, <3>2, <3>3, <4>1 DEF IInv, ListOK, Listed, Holding, Loose
    <3>5. CASE MadeSignal(t)
      <4>1. pc'[t] = "idle" /\ \A u \in Threads : u # t => pc'[u] = pc[u] /\ ptr'[u] = ptr[u]
        BY <3>5, Types DEF MadeSignal
      <4>2. QED
        BY <2>1, <3>2, <3>3, <4>1 DEF IInv, ListOK, Listed, Holding, Loose
    <3>6. CASE MadeNothing(t)
      <4>1. heap' = heap /\ pc'[t] = "clear" /\ ptr' = ptr
            /\ \A u \in Threads : u # t => pc'[u] = pc[u]
        BY <3>6, Types DEF MadeNothing
      <4>2. QED
        BY <2>1, <3>2, <4>1 DEF IInv, ListOK, Listed
    <3>7. QED
      BY <1>9, <3>4, <3>5, <3>6, Outcomes
  <2>3. CASE MadeNothing(t)
    <3>1. heap' = heap /\ pc'[t] = "clear" /\ ptr' = ptr
          /\ \A u \in Threads : u # t => pc'[u] = pc[u]
      BY <2>3, Types DEF MadeNothing
    <3>2. QED
      BY <2>1, <3>1 DEF IInv, ListOK, ListedTimersAreAllocated, Listed
  <2>4. QED
    BY <1>9, <2>2, <2>3, Outcomes DEF MadeThread, MadeSignal
<1>10. ASSUME NEW t \in Threads, LockList(t)
      PROVE  ListOK'
  BY <1>10, Types DEF LockList, IInv, ListOK, ListedTimersAreAllocated, Listed
<1>11. ASSUME NEW t \in Threads, Push(t)
      PROVE  ListOK'
  <2>1. /\ pc[t] = "push" /\ ptr[t] \in Addrs /\ active' = <<ptr[t]>> \o active /\ heap' = heap
        /\ heap[ptr[t]] # NULL /\ heap[ptr[t]].notify = "thread" /\ ~Listed(ptr[t])
    BY <1>11, Types DEF Push, IInv, PtrsOK, ListOK, Holding, Loose
  <2>2. \A b \in Addrs : Listed(b)' <=> Listed(b) \/ b = ptr[t]
    BY <2>1, Pushed
  <2>3. \A b \in Addrs : Listed(b)' => heap'[b] # NULL /\ heap'[b].notify = "thread"
    BY <2>1, <2>2, OnList
  <2>4. (\A i, j \in 1 .. Len(active) : active[i] = active[j] => i = j)'
    <3>1. /\ Len(active') = Len(active) + 1 /\ active'[1] = ptr[t]
          /\ \A i \in 2 .. Len(active') : active'[i] = active[i - 1]
      BY <2>1, Pushed
    <3>2. Len(active) \in Nat /\ \A i \in 1 .. Len(active) : active[i] # ptr[t]
      BY <2>1, Types DEF Listed
    <3>3. \A i, j \in 1 .. Len(active) : active[i] = active[j] => i = j
      BY DEF IInv, ListOK, ListedTimersAreAllocated
    <3>4. \A i \in 2 .. Len(active') : i - 1 \in 1 .. Len(active) /\ active'[i] # ptr[t]
      BY <3>1, <3>2
    <3>5. ASSUME NEW i \in 1 .. Len(active'), NEW j \in 1 .. Len(active'), active'[i] = active'[j]
          PROVE  i = j
      <4>1. CASE i = 1 \/ j = 1
        BY <3>1, <3>2, <3>4, <3>5, <4>1
      <4>2. CASE i \in 2 .. Len(active') /\ j \in 2 .. Len(active')
        BY <3>1, <3>2, <3>3, <3>4, <3>5, <4>2
      <4>3. QED
        BY <3>1, <3>2, <4>1, <4>2
    <3>6. QED
      BY <3>5
  <2>5. ListedTimersAreAllocated'
    BY <2>3, <2>4, ListFrom, TypeStep
  <2>6. ASSUME NEW u \in Threads, u # t
        PROVE  /\ pc'[u] = pc[u] /\ ptr'[u] = ptr[u]
               /\ pc[u] \in Holding => (Listed(ptr[u])' <=> Listed(ptr[u]))
    <3>1. pc'[u] = pc[u] /\ ptr'[u] = ptr[u]
      BY <1>11, <2>6, Types DEF Push
    <3>2. pc[u] \in Holding => ptr[u] \in Addrs /\ ptr[u] # ptr[t]
      BY <2>1, <2>6, Types DEF IInv, PtrsOK
    <3>3. QED
      BY <2>2, <3>1, <3>2 DEF Listed
  <2>7. pc'[t] = "idle"
    BY <1>11, Types DEF Push
  <2>8. QED
    BY <2>1, <2>5, <2>6, <2>7 DEF IInv, ListOK, Holding, Loose
<1>12. ASSUME NEW t \in Threads, NEW id \in Ids, DeleteCall(t, id)
      PROVE  ListOK'
  <2>1. /\ allTimers[id] \in Addrs /\ active' = active /\ heap' = heap
        /\ heap[allTimers[id]].notify = "thread" <=> Listed(allTimers[id])
        /\ ptr' = [ptr EXCEPT ![t] = allTimers[id]] /\ pc' = [pc EXCEPT ![t] = "ktimerDelete"]
    BY <1>12, LiveChain DEF DeleteCall, IInv, LiveTimersReachTheirKernelTimer
  <2>2. /\ pc'[t] = "ktimerDelete" /\ ptr'[t] = allTimers[id]
        /\ \A u \in Threads : u # t => pc'[u] = pc[u] /\ ptr'[u] = ptr[u]
    BY <2>1, Types
  <2>3. QED
    BY <2>1, <2>2 DEF IInv, ListOK, ListedTimersAreAllocated, Listed
<1>13. ASSUME NEW t \in Threads, KtimerDelete(t)
      PROVE  ListOK'
  <2>1. /\ active' = active /\ heap' = heap /\ ptr' = ptr /\ pc[t] = "ktimerDelete"
        /\ pc'[t] = AfterKtimerDelete(heap[ptr[t]].notify)
        /\ \A u \in Threads : u # t => pc'[u] = pc[u]
    BY <1>13, Types DEF KtimerDelete
  <2>2. QED
    BY <2>1 DEF AfterKtimerDelete, IInv, ListOK, ListedTimersAreAllocated, Listed
<1>14. ASSUME NEW t \in Threads, Unlink(t)
      PROVE  ListOK'
  <2>1. pc[t] = "unlink" /\ heap' = heap /\ ptr' = ptr /\ ptr[t] \in Addrs
    BY <1>14, Types DEF Unlink, IInv, PtrsOK, Holding, Loose
  <2>2. PICK i \in 1 .. Len(active) : active[i] = ptr[t] /\ active' = Without(active, i)
    BY <1>14 DEF Unlink
  <2>3. /\ \A b \in Addrs : Listed(b)' <=> Listed(b) /\ b # ptr[t]
        /\ \A m, n \in 1 .. Len(active') : active'[m] = active'[n] => m = n
    BY <2>2, Dropped
  <2>4. ListedTimersAreAllocated'
    <3>1. \A b \in Addrs : Listed(b)' => heap'[b] # NULL /\ heap'[b].notify = "thread"
      BY <2>1, <2>3, OnList
    <3>2. QED
      BY <2>3, <3>1, ListFrom, TypeStep
  <2>5. pc'[t] = "clear" /\ \A u \in Threads : u # t => pc'[u] = pc[u]
    BY <1>14, Types DEF Unlink
  <2>6. ASSUME NEW u \in Threads, u # t, pc[u] \in Holding
        PROVE  Listed(ptr[u])' <=> Listed(ptr[u])
    <3>1. ptr[u] \in Addrs /\ ptr[u] # ptr[t]
      BY <2>1, <2>6, Types DEF IInv, PtrsOK
    <3>2. QED
      BY <2>1, <2>3, <3>1 DEF Listed
  <2>7. ~Listed(ptr[t])'
    BY <2>1, <2>3 DEF Listed
  <2>8. QED
    BY <2>1, <2>4, <2>5, <2>6, <2>7 DEF IInv, ListOK, Holding, Loose
<1>15. ASSUME NEW t \in Threads, ClearSlot(t)
      PROVE  ListOK'
  BY <1>15, Types DEF ClearSlot, IInv, ListOK, ListedTimersAreAllocated, Listed
<1>16. ASSUME NEW t \in Threads, Free(t)
      PROVE  ListOK'
  <2>1. ptr[t] \in Addrs /\ ~Listed(ptr[t]) /\ active' = active /\ pc[t] = "free"
    BY <1>16, Types DEF Free, IInv, PtrsOK, ListOK, Holding, Loose
  <2>2. \A b \in Addrs : b # ptr[t] => heap'[b] = heap[b]
    BY <1>16, Types DEF Free
  <2>3. ListedTimersAreAllocated'
    BY <2>1, <2>2, Types DEF IInv, ListOK, ListedTimersAreAllocated, Listed
  <2>4. pc'[t] = "idle" /\ \A u \in Threads : u # t => pc'[u] = pc[u] /\ ptr'[u] = ptr[u]
    BY <1>16, Types DEF Free
  <2>5. ASSUME NEW u \in Threads, u # t, pc[u] \in Holding
        PROVE  heap'[ptr[u]] = heap[ptr[u]]
    BY <2>1, <2>2, <2>5, Types DEF IInv, PtrsOK, Holding, Loose
  <2>6. QED
    BY <2>1, <2>3, <2>4, <2>5 DEF IInv, ListOK, Listed, Holding, Loose
<1>17. ASSUME NEW t \in Threads, NEW id \in Ids, NEW on \in BOOLEAN, SetTime(t, id, on)
      PROVE  ListOK'
  BY <1>17, Types DEF SetTime, IInv, ListOK, ListedTimersAreAllocated, Listed, Labels
<1>18. ASSUME NEW t \in Threads, NEW id \in Ids, Ask(t, id)
      PROVE  ListOK'
  BY <1>18, Types DEF Ask, IInv, ListOK, ListedTimersAreAllocated, Listed, Labels
<1>19. ASSUME NEW t \in Threads, Fork(t)
      PROVE  ListOK'
  BY <1>19, Types DEF Fork, IInv, ListOK, ListedTimersAreAllocated, Listed
<1>20. ASSUME NEW k \in Kids, NEW again \in BOOLEAN, Expire(k, again)
      PROVE  ListOK'
  BY <1>20, Types DEF Expire, IInv, ListOK, ListedTimersAreAllocated, Listed, Labels
<1>21. ASSUME HelperAnnounce
      PROVE  ListOK'
  BY <1>21, Types DEF HelperAnnounce, IInv, ListOK, ListedTimersAreAllocated, Listed,
     Labels
<1>22. ASSUME HelperWait
      PROVE  ListOK'
  BY <1>22, Types DEF HelperWait, IInv, ListOK, ListedTimersAreAllocated, Listed, Labels
<1>23. ASSUME HelperLock
      PROVE  ListOK'
  BY <1>23, Types DEF HelperLock, IInv, ListOK, ListedTimersAreAllocated, Listed, Labels
<1>24. ASSUME HelperRun
      PROVE  ListOK'
  BY <1>24, Types DEF HelperRun, IInv, ListOK, ListedTimersAreAllocated, Listed, Labels
<1>25. ASSUME HelperCancelled
      PROVE  ListOK'
  BY <1>25, Types DEF HelperCancelled, IInv, ListOK, ListedTimersAreAllocated, Listed,
     Labels
<1>26. CASE UNCHANGED vars
  BY <1>26, Types DEF IInv, ListOK, ListedTimersAreAllocated, Listed, Labels
<1>27. QED
  BY <1>1, <1>2, <1>3, <1>4, <1>5, <1>6, <1>7, <1>8, <1>9, <1>10, <1>11, <1>12, <1>13,
     <1>14, <1>15, <1>16, <1>17, <1>18, <1>19, <1>20, <1>21, <1>22, <1>23, <1>24, <1>25,
     <1>26 DEF Next, Call, Continue, HelperStep

(* Steps keep KernelOK. *)
LEMMA KernelStep ==
  ASSUME IInv, [Next]_vars
  PROVE  KernelOK'
<1>1. ASSUME NEW t \in Threads, NEW k \in Kinds, CreateCall(t, k)
      PROVE  KernelOK'
  BY <1>1, Types DEF CreateCall, IInv, KernelOK, KernelTimersHaveStructs, Named,
     Chained, Labels
<1>2. ASSUME NEW t \in Threads, Probe(t)
      PROVE  KernelOK'
  BY <1>2, Types DEF Probe, IInv, KernelOK, KernelTimersHaveStructs, Named, Chained,
     Labels
<1>3. ASSUME NEW t \in Threads, Once(t)
      PROVE  KernelOK'
  BY <1>3, Types DEF Once, IInv, KernelOK, KernelTimersHaveStructs, Named, Chained, Labels
<1>4. ASSUME NEW t \in Threads, StartHelper(t)
      PROVE  KernelOK'
  BY <1>4, Types DEF StartHelper, IInv, KernelOK, KernelTimersHaveStructs, Named,
     Chained, Labels
<1>5. ASSUME NEW t \in Threads, SemWait(t)
      PROVE  KernelOK'
  BY <1>5, Types DEF SemWait, IInv, KernelOK, KernelTimersHaveStructs, Named, Chained,
     Labels
<1>6. ASSUME NEW t \in Threads, AtFork(t)
      PROVE  KernelOK'
  BY <1>6, Types DEF AtFork, IInv, KernelOK, KernelTimersHaveStructs, Named, Chained,
     Labels
<1>7. ASSUME NEW t \in Threads, Malloc(t)
      PROVE  KernelOK'
  <2>0. ktimer' = ktimer /\ pc[t] = "malloc"
    BY <1>7 DEF Malloc
  <2>1. CASE heap' = heap
    <3>1. pc' = [pc EXCEPT ![t] = "idle"] /\ ptr' = [ptr EXCEPT ![t] = NULL]
      <4>1. ASSUME NEW a \in Addrs, heap[a] = NULL,
                   heap' = [heap EXCEPT ![a] = Timer("unset", NULL, created + 1)]
            PROVE  FALSE
        BY <2>1, <4>1, MallocEffect
      <4>2. QED
        BY <1>7, <4>1 DEF Malloc
    <3>2. pc'[t] = "idle" /\ \A u \in Threads : u # t => pc'[u] = pc[u] /\ ptr'[u] = ptr[u]
      BY <3>1, Types
    <3>3. QED
      BY <2>0, <2>1, <3>2 DEF IInv, KernelOK, KernelTimersHaveStructs, Named, Chained
  <2>2. CASE heap' # heap
    <3>1. PICK a \in Addrs : /\ heap[a] = NULL
                             /\ heap' = [heap EXCEPT ![a] = Timer("unset", NULL, created + 1)]
                             /\ ptr' = [ptr EXCEPT ![t] = a] /\ pc' = [pc EXCEPT ![t] = "scan"]
      BY <1>7, <2>2 DEF Malloc
    <3>2. \A b \in Addrs \ {a} : heap'[b] = heap[b]
      BY <3>1, MallocEffect
    <3>3. ~Named(a)
      BY <3>1 DEF IInv, KernelOK, KernelTimersHaveStructs, Named
    <3>4. \A u \in Threads : u # t => ptr'[u] = ptr[u] /\ pc'[u] = pc[u]
      BY <3>1, Types
    <3>5. ASSUME NEW u \in Threads, u # t, pc[u] \in Holding
          PROVE  heap'[ptr[u]] = heap[ptr[u]]
      <4>1. ptr[u] \in Addrs \ {a}
        BY <3>1, <3>5, Types DEF IInv, PtrsOK
      <4>2. QED
        BY <3>2, <4>1
    <3>6. KernelTimersHaveStructs'
      <4>1. \A k \in Kids : ktimer[k] # NULL => ktimer[k].addr \in Addrs \ {a}
        BY <3>3 DEF IInv, TypeOK, KTimerRecords, Named
      <4>2. QED
        BY <2>0, <3>2, <4>1 DEF IInv, KernelOK, KernelTimersHaveStructs
    <3>7. pc'[t] = "scan" /\ ptr'[t] = a
      BY <3>1, Types
    <3>8. QED
      BY <2>0, <3>3, <3>4, <3>5, <3>6, <3>7 DEF IInv, KernelOK, Named, Chained,
         Holding, Loose
  <2>3. QED
    BY <2>1, <2>2
<1>8. ASSUME NEW t \in Threads, Scan(t)
      PROVE  KernelOK'
  <2>1. heap' = heap /\ ktimer' = ktimer /\ pc[t] = "scan"
    BY <1>8 DEF Scan
  <2>2. pc'[t] = "idle" \/ (pc'[t] \in {"scan", "ktimer"} /\ ptr'[t] = ptr[t])
    <3>1. \/ pc' = [pc EXCEPT ![t] = "ktimer"] /\ ptr' = ptr
          \/ pc' = pc /\ ptr' = ptr
          \/ pc' = [pc EXCEPT ![t] = "idle"]
      BY <1>8 DEF Scan
    <3>2. QED
      BY <2>1, <3>1, Types
  <2>3. \A u \in Threads : u # t => pc'[u] = pc[u] /\ ptr'[u] = ptr[u]
    BY <1>8, Types DEF Scan
  <2>4. QED
    BY <2>1, <2>2, <2>3 DEF IInv, KernelOK, KernelTimersHaveStructs, Named, Chained
<1>9. ASSUME NEW t \in Threads, KtimerCreate(t)
      PROVE  KernelOK'
  <2>1. pc[t] = "ktimer" /\ ptr[t] \in Addrs /\ ~Named(ptr[t])
    BY <1>9, Outcomes, Types DEF IInv, PtrsOK, KernelOK, Holding, Loose
  <2>2. CASE Made(t)
    <3>1. PICK k \in Kids :
            /\ ktimer[k] = NULL
            /\ heap'[ptr[t]] # NULL /\ heap'[ptr[t]].fn = heap[ptr[t]].fn
            /\ heap'[ptr[t]].ktimerid = k
            /\ \A b \in Addrs \ {ptr[t]} : heap'[b] = heap[b]
            /\ ktimer'[k] # NULL /\ ktimer'[k].addr = ptr[t] /\ ktimer'[k].fn = heap[ptr[t]].fn
            /\ \A l \in Kids \ {k} : ktimer'[l] = ktimer[l]
      BY <2>1, <2>2, MadeEffect
    <3>2. ASSUME NEW l \in Kids, ktimer[l] # NULL
          PROVE  ktimer[l].addr \in Addrs \ {ptr[t]}
      <4>1. ktimer[l] \in KTimerRecords
        BY <3>2 DEF IInv, TypeOK
      <4>2. QED
        BY <2>1, <3>2, <4>1 DEF KTimerRecords, Named
    <3>3. KernelTimersHaveStructs'
      BY <3>1, <3>2 DEF IInv, KernelOK, KernelTimersHaveStructs
    <3>4. ASSUME NEW u \in Threads, u # t, pc[u] \in Holding
          PROVE  /\ ptr[u] # ptr[t] /\ heap'[ptr[u]] = heap[ptr[u]]
      BY <2>1, <3>1, <3>4, Types DEF IInv, PtrsOK
    <3>5. ASSUME NEW u \in Threads, u # t, pc[u] \in Holding, ~Named(ptr[u])
          PROVE  ~ \E l \in Kids : ktimer'[l] # NULL /\ ktimer'[l].addr = ptr[u]
      BY <3>1, <3>4, <3>5 DEF Named
    <3>6. ASSUME NEW u \in Threads, u # t, pc[u] \in Holding, Chained(ptr[u])
          PROVE  /\ heap'[ptr[u]].ktimerid \in Kids
                 /\ ktimer'[heap'[ptr[u]].ktimerid] # NULL
                 /\ ktimer'[heap'[ptr[u]].ktimerid].addr = ptr[u]
      BY <3>1, <3>4, <3>6 DEF Chained
    <3>7. CASE MadeThread(t)
      <4>1. /\ pc'[t] = "lock.push" /\ ptr' = ptr
            /\ \A u \in Threads : u # t => pc'[u] = pc[u]
        BY <3>7, Types DEF MadeThread
      <4>2. Chained(ptr[t])'
        BY <3>1, <4>1 DEF Chained
      <4>3. QED
        BY <3>3, <3>5, <3>6, <4>1, <4>2 DEF IInv, KernelOK, Named, Chained, Holding, Loose
    <3>8. CASE MadeSignal(t)
      <4>1. pc'[t] = "idle" /\ \A u \in Threads : u # t => pc'[u] = pc[u] /\ ptr'[u] = ptr[u]
        BY <3>8, Types DEF MadeSignal
      <4>2. QED
        BY <3>3, <3>5, <3>6, <4>1 DEF IInv, KernelOK, Named, Chained, Holding, Loose
    <3>9. CASE MadeNothing(t)
      BY <3>1, <3>9 DEF MadeNothing
    <3>10. QED
      BY <1>9, <3>7, <3>8, <3>9, Outcomes
  <2>3. CASE MadeNothing(t)
    <3>1. heap' = heap /\ ktimer' = ktimer /\ pc'[t] = "clear" /\ ptr' = ptr
          /\ \A u \in Threads : u # t => pc'[u] = pc[u]
      BY <2>3, Types DEF MadeNothing
    <3>2. QED
      BY <2>1, <3>1 DEF IInv, KernelOK, KernelTimersHaveStructs, Named, Chained
  <2>4. QED
    BY <1>9, <2>2, <2>3, Outcomes DEF MadeThread, MadeSignal
<1>10. ASSUME NEW t \in Threads, LockList(t)
      PROVE  KernelOK'
  BY <1>10, Types DEF LockList, IInv, KernelOK, KernelTimersHaveStructs, Named, Chained,
     Labels
<1>11. ASSUME NEW t \in Threads, Push(t)
      PROVE  KernelOK'
  BY <1>11, Types DEF Push, IInv, KernelOK, KernelTimersHaveStructs, Named, Chained,
     Labels
<1>12. ASSUME NEW t \in Threads, NEW id \in Ids, DeleteCall(t, id)
      PROVE  KernelOK'
  <2>1. /\ heap' = heap /\ ktimer' = ktimer /\ Chained(allTimers[id])
        /\ pc'[t] = "ktimerDelete" /\ ptr'[t] = allTimers[id]
        /\ \A u \in Threads : u # t => pc'[u] = pc[u] /\ ptr'[u] = ptr[u]
    BY <1>12, LiveChain, Types DEF DeleteCall, Chained
  <2>2. QED
    BY <2>1 DEF IInv, KernelOK, KernelTimersHaveStructs, Named, Chained
<1>13. ASSUME NEW t \in Threads, KtimerDelete(t)
      PROVE  KernelOK'
  <2>1. /\ heap' = heap /\ ptr' = ptr /\ pc[t] = "ktimerDelete" /\ Chained(ptr[t])
        /\ pc'[t] \in {"lock.unlink", "clear"} /\ ptr[t] \in Addrs
        /\ \A u \in Threads : u # t => pc'[u] = pc[u]
    BY <1>13, Types DEF KtimerDelete, AfterKtimerDelete, IInv, KernelOK, PtrsOK,
       Holding, Loose
  <2>2. \A l \in Kids : ktimer'[l] = IF l = heap[ptr[t]].ktimerid THEN NULL ELSE ktimer[l]
    BY <1>13, Types DEF KtimerDelete, Forgotten
  <2>3. KernelTimersHaveStructs'
    BY <2>1, <2>2 DEF IInv, KernelOK, KernelTimersHaveStructs
  <2>4. \A b : ~Named(b) => ~ \E l \in Kids : ktimer'[l] # NULL /\ ktimer'[l].addr = b
    BY <2>2 DEF Named
  <2>5. ~ \E l \in Kids : ktimer'[l] # NULL /\ ktimer'[l].addr = ptr[t]
    BY <2>1, <2>2 DEF IInv, KernelOK, KernelTimersHaveStructs
  <2>6. ASSUME NEW u \in Threads, u # t, pc[u] \in Holding, Chained(ptr[u])
        PROVE  Chained(ptr[u])'
    <3>1. ptr[u] # ptr[t]
      BY <2>1, <2>6, Types DEF IInv, PtrsOK
    <3>2. QED
      BY <2>1, <2>2, <2>6, <3>1 DEF Chained
  <2>7. QED
    BY <2>1, <2>3, <2>4, <2>5, <2>6 DEF IInv, KernelOK, Named, Holding, Loose
<1>14. ASSUME NEW t \in Threads, Unlink(t)
      PROVE  KernelOK'
  BY <1>14, Types DEF Unlink, IInv, KernelOK, KernelTimersHaveStructs, Named, Chained,
     Labels
<1>15. ASSUME NEW t \in Threads, ClearSlot(t)
      PROVE  KernelOK'
  BY <1>15, Types DEF ClearSlot, IInv, KernelOK, KernelTimersHaveStructs, Named,
     Chained, Labels
<1>16. ASSUME NEW t \in Threads, Free(t)
      PROVE  KernelOK'
  <2>1. ptr[t] \in Addrs /\ ~Named(ptr[t]) /\ ktimer' = ktimer /\ pc[t] = "free"
    BY <1>16, Types DEF Free, IInv, PtrsOK, KernelOK, Holding, Loose
  <2>2. \A b \in Addrs : b # ptr[t] => heap'[b] = heap[b]
    BY <1>16, Types DEF Free
  <2>3. KernelTimersHaveStructs'
    <3>1. \A k \in Kids : ktimer[k] # NULL => ktimer[k].addr \in Addrs \ {ptr[t]}
      BY <2>1 DEF IInv, TypeOK, KTimerRecords, Named
    <3>2. QED
      BY <2>1, <2>2, <3>1 DEF IInv, KernelOK, KernelTimersHaveStructs
  <2>4. pc'[t] = "idle" /\ \A u \in Threads : u # t => pc'[u] = pc[u] /\ ptr'[u] = ptr[u]
    BY <1>16, Types DEF Free
  <2>5. ASSUME NEW u \in Threads, u # t, pc[u] \in Holding
        PROVE  heap'[ptr[u]] = heap[ptr[u]]
    BY <2>1, <2>2, <2>5, Types DEF IInv, PtrsOK, Holding, Loose
  <2>6. QED
    BY <2>1, <2>3, <2>4, <2>5 DEF IInv, KernelOK, Named, Chained, Holding, Loose
<1>17. ASSUME NEW t \in Threads, NEW id \in Ids, NEW on \in BOOLEAN, SetTime(t, id, on)
      PROVE  KernelOK'
  <2>1. \A l \in Kids : /\ ktimer'[l] # NULL <=> ktimer[l] # NULL
                        /\ ktimer[l] # NULL => /\ ktimer'[l].addr = ktimer[l].addr
                                               /\ ktimer'[l].fn = ktimer[l].fn
    BY <1>17, LiveChain, ArmEffect DEF SetTime
  <2>2. heap' = heap /\ pc' = pc /\ ptr' = ptr
    BY <1>17 DEF SetTime
  <2>3. QED
    BY <2>1, <2>2 DEF IInv, KernelOK, KernelTimersHaveStructs, Named, Chained
<1>18. ASSUME NEW t \in Threads, NEW id \in Ids, Ask(t, id)
      PROVE  KernelOK'
  BY <1>18, Types DEF Ask, IInv, KernelOK, KernelTimersHaveStructs, Named, Chained, Labels
<1>19. ASSUME NEW t \in Threads, Fork(t)
      PROVE  KernelOK'
  <2>1. \A l \in Kids : ktimer'[l] = NULL
    BY <1>19 DEF Fork
  <2>2. \A u \in Threads : pc'[u] \in {"idle", "gone"}
    BY <1>19 DEF Fork
  <2>3. QED
    BY <2>1, <2>2 DEF KernelOK, KernelTimersHaveStructs
<1>20. ASSUME NEW k \in Kids, NEW again \in BOOLEAN, Expire(k, again)
      PROVE  KernelOK'
  <2>1. \A l \in Kids : /\ ktimer'[l] # NULL <=> ktimer[l] # NULL
                        /\ ktimer[l] # NULL => /\ ktimer'[l].addr = ktimer[l].addr
                                               /\ ktimer'[l].fn = ktimer[l].fn
    BY <1>20, ArmEffect DEF Expire
  <2>2. heap' = heap /\ pc' = pc /\ ptr' = ptr
    BY <1>20 DEF Expire
  <2>3. QED
    BY <2>1, <2>2 DEF IInv, KernelOK, KernelTimersHaveStructs, Named, Chained
<1>21. ASSUME HelperAnnounce
      PROVE  KernelOK'
  BY <1>21, Types DEF HelperAnnounce, IInv, KernelOK, KernelTimersHaveStructs, Named,
     Chained, Labels
<1>22. ASSUME HelperWait
      PROVE  KernelOK'
  BY <1>22, Types DEF HelperWait, IInv, KernelOK, KernelTimersHaveStructs, Named,
     Chained, Labels
<1>23. ASSUME HelperLock
      PROVE  KernelOK'
  BY <1>23, Types DEF HelperLock, IInv, KernelOK, KernelTimersHaveStructs, Named,
     Chained, Labels
<1>24. ASSUME HelperRun
      PROVE  KernelOK'
  BY <1>24, Types DEF HelperRun, IInv, KernelOK, KernelTimersHaveStructs, Named,
     Chained, Labels
<1>25. ASSUME HelperCancelled
      PROVE  KernelOK'
  BY <1>25, Types DEF HelperCancelled, IInv, KernelOK, KernelTimersHaveStructs, Named,
     Chained, Labels
<1>26. CASE UNCHANGED vars
  BY <1>26, Types DEF IInv, KernelOK, KernelTimersHaveStructs, Named, Chained, Labels
<1>27. QED
  BY <1>1, <1>2, <1>3, <1>4, <1>5, <1>6, <1>7, <1>8, <1>9, <1>10, <1>11, <1>12, <1>13,
     <1>14, <1>15, <1>16, <1>17, <1>18, <1>19, <1>20, <1>21, <1>22, <1>23, <1>24, <1>25,
     <1>26 DEF Next, Call, Continue, HelperStep

(* Steps keep HelperOK: what the helper has taken is a signal. *)
LEMMA HelperKept ==
  ASSUME IInv, [Next]_vars
  PROVE  HelperOK'
<1>1. ASSUME NEW t \in Threads, NEW k \in Kinds, CreateCall(t, k)
      PROVE  HelperOK'
  BY <1>1 DEF CreateCall, IInv, HelperOK
<1>2. ASSUME NEW t \in Threads, Probe(t)
      PROVE  HelperOK'
  BY <1>2 DEF Probe, IInv, HelperOK
<1>3. ASSUME NEW t \in Threads, Once(t)
      PROVE  HelperOK'
  BY <1>3 DEF Once, IInv, HelperOK
<1>4. ASSUME NEW t \in Threads, StartHelper(t)
      PROVE  HelperOK'
  BY <1>4 DEF StartHelper, IInv, HelperOK
<1>5. ASSUME NEW t \in Threads, SemWait(t)
      PROVE  HelperOK'
  BY <1>5 DEF SemWait, IInv, HelperOK
<1>6. ASSUME NEW t \in Threads, AtFork(t)
      PROVE  HelperOK'
  BY <1>6 DEF AtFork, IInv, HelperOK
<1>7. ASSUME NEW t \in Threads, Malloc(t)
      PROVE  HelperOK'
  BY <1>7 DEF Malloc, IInv, HelperOK
<1>8. ASSUME NEW t \in Threads, Scan(t)
      PROVE  HelperOK'
  BY <1>8 DEF Scan, IInv, HelperOK
<1>9. ASSUME NEW t \in Threads, KtimerCreate(t)
      PROVE  HelperOK'
  BY <1>9 DEF KtimerCreate, IInv, HelperOK
<1>10. ASSUME NEW t \in Threads, LockList(t)
      PROVE  HelperOK'
  BY <1>10 DEF LockList, IInv, HelperOK
<1>11. ASSUME NEW t \in Threads, Push(t)
      PROVE  HelperOK'
  BY <1>11 DEF Push, IInv, HelperOK
<1>12. ASSUME NEW t \in Threads, NEW id \in Ids, DeleteCall(t, id)
      PROVE  HelperOK'
  BY <1>12 DEF DeleteCall, IInv, HelperOK
<1>13. ASSUME NEW t \in Threads, KtimerDelete(t)
      PROVE  HelperOK'
  BY <1>13 DEF KtimerDelete, IInv, HelperOK
<1>14. ASSUME NEW t \in Threads, Unlink(t)
      PROVE  HelperOK'
  BY <1>14 DEF Unlink, IInv, HelperOK
<1>15. ASSUME NEW t \in Threads, ClearSlot(t)
      PROVE  HelperOK'
  BY <1>15 DEF ClearSlot, IInv, HelperOK
<1>16. ASSUME NEW t \in Threads, Free(t)
      PROVE  HelperOK'
  BY <1>16 DEF Free, IInv, HelperOK
<1>17. ASSUME NEW t \in Threads, NEW id \in Ids, NEW on \in BOOLEAN, SetTime(t, id, on)
      PROVE  HelperOK'
  BY <1>17 DEF SetTime, IInv, HelperOK
<1>18. ASSUME NEW t \in Threads, NEW id \in Ids, Ask(t, id)
      PROVE  HelperOK'
  BY <1>18 DEF Ask, IInv, HelperOK
<1>19. ASSUME NEW t \in Threads, Fork(t)
      PROVE  HelperOK'
  BY <1>19 DEF Fork, HelperOK
<1>20. ASSUME NEW k \in Kids, NEW again \in BOOLEAN, Expire(k, again)
      PROVE  HelperOK'
  BY <1>20 DEF Expire, IInv, HelperOK
<1>21. ASSUME HelperAnnounce
      PROVE  HelperOK'
  BY <1>21 DEF HelperAnnounce, IInv, HelperOK
<1>22. ASSUME HelperWait
      PROVE  HelperOK'
  <2>1. pending \in Seq(SignalRecords) /\ pending # <<>>
    BY <1>22 DEF HelperWait, IInv, TypeOK
  <2>2. si' \in SignalRecords
    BY <1>22, <2>1 DEF HelperWait
  <2>3. QED
    BY <1>22, <2>2, NullOK DEF HelperWait, HelperOK
<1>23. ASSUME HelperLock
      PROVE  HelperOK'
  BY <1>23 DEF HelperLock, IInv, HelperOK
<1>24. ASSUME HelperRun
      PROVE  HelperOK'
  BY <1>24 DEF HelperRun, IInv, HelperOK
<1>25. ASSUME HelperCancelled
      PROVE  HelperOK'
  BY <1>25 DEF HelperCancelled, IInv, HelperOK
<1>26. CASE UNCHANGED vars
  BY <1>26 DEF IInv, HelperOK
<1>27. QED
  BY <1>1, <1>2, <1>3, <1>4, <1>5, <1>6, <1>7, <1>8, <1>9, <1>10, <1>11, <1>12, <1>13,
     <1>14, <1>15, <1>16, <1>17, <1>18, <1>19, <1>20, <1>21, <1>22, <1>23, <1>24, <1>25,
     <1>26 DEF Next, Call, Continue, HelperStep

(* Steps keep FnsOK: a function that has been deleted is not given out again. *)
LEMMA FnsStep ==
  ASSUME IInv, [Next]_vars
  PROVE  FnsOK'
<1>1. ASSUME NEW t \in Threads, NEW k \in Kinds, CreateCall(t, k)
      PROVE  FnsOK'
  BY <1>1 DEF CreateCall, IInv, FnsOK
<1>2. ASSUME NEW t \in Threads, Probe(t)
      PROVE  FnsOK'
  BY <1>2 DEF Probe, IInv, FnsOK
<1>3. ASSUME NEW t \in Threads, Once(t)
      PROVE  FnsOK'
  BY <1>3 DEF Once, IInv, FnsOK
<1>4. ASSUME NEW t \in Threads, StartHelper(t)
      PROVE  FnsOK'
  BY <1>4 DEF StartHelper, IInv, FnsOK
<1>5. ASSUME NEW t \in Threads, SemWait(t)
      PROVE  FnsOK'
  BY <1>5 DEF SemWait, IInv, FnsOK
<1>6. ASSUME NEW t \in Threads, AtFork(t)
      PROVE  FnsOK'
  BY <1>6 DEF AtFork, IInv, FnsOK
<1>7. ASSUME NEW t \in Threads, Malloc(t)
      PROVE  FnsOK'
  <2>1. CASE heap' = heap /\ created' = created
    BY <1>7, <2>1 DEF Malloc, IInv, FnsOK
  <2>2. CASE ~(heap' = heap /\ created' = created)
    <3>1. PICK a \in Addrs : /\ heap[a] = NULL
                             /\ heap' = [heap EXCEPT ![a] = Timer("unset", NULL, created + 1)]
                             /\ created' = created + 1
      BY <1>7, <2>2 DEF Malloc
    <3>2. /\ heap'[a] # NULL /\ heap'[a].fn = created + 1
          /\ \A b \in Addrs \ {a} : heap'[b] = heap[b]
      BY <3>1, MallocEffect
    <3>3. deleted' = deleted /\ created \in Nat /\ deleted \subseteq Nat
      BY <1>7, Types DEF Malloc
    <3>4. /\ \A b \in Addrs : heap[b] # NULL =>
               /\ heap[b].fn \in Nat /\ heap[b].fn <= created /\ heap[b].fn \notin deleted
          /\ \A f \in deleted : f <= created
          /\ \A b, c \in Addrs :
               heap[b] # NULL /\ heap[c] # NULL /\ heap[b].fn = heap[c].fn => b = c
      BY Types DEF IInv, FnsOK
    <3>5. (\A b \in Addrs : heap[b] # NULL => heap[b].fn <= created /\ heap[b].fn \notin deleted)'
      BY <3>1, <3>2, <3>3, <3>4
    <3>6. (\A b, c \in Addrs :
             heap[b] # NULL /\ heap[c] # NULL /\ heap[b].fn = heap[c].fn => b = c)'
      BY <3>2, <3>3, <3>4
    <3>7. (\A f \in deleted : f <= created)'
      BY <3>1, <3>3, <3>4
    <3>8. QED
      BY <3>5, <3>6, <3>7 DEF FnsOK
  <2>3. QED
    BY <2>1, <2>2
<1>8. ASSUME NEW t \in Threads, Scan(t)
      PROVE  FnsOK'
  BY <1>8 DEF Scan, IInv, FnsOK
<1>9. ASSUME NEW t \in Threads, KtimerCreate(t)
      PROVE  FnsOK'
  <2>1. created' = created /\ deleted' = deleted /\ pc[t] = "ktimer"
    BY <1>9, Outcomes
  <2>2. CASE heap' = heap
    BY <2>1, <2>2 DEF IInv, FnsOK
  <2>3. CASE Made(t)
    <3>1. ptr[t] \in Addrs /\ heap[ptr[t]] # NULL
      BY <2>1, Types DEF IInv, PtrsOK, Holding, Loose
    <3>2. /\ heap'[ptr[t]] # NULL /\ heap'[ptr[t]].fn = heap[ptr[t]].fn
          /\ \A b \in Addrs \ {ptr[t]} : heap'[b] = heap[b]
      BY <2>1, <2>3, MadeEffect
    <3>3. QED
      BY <2>1, <3>1, <3>2 DEF IInv, FnsOK
  <2>4. QED
    BY <1>9, <2>2, <2>3, Outcomes DEF MadeThread, MadeSignal, MadeNothing
<1>10. ASSUME NEW t \in Threads, LockList(t)
      PROVE  FnsOK'
  BY <1>10 DEF LockList, IInv, FnsOK
<1>11. ASSUME NEW t \in Threads, Push(t)
      PROVE  FnsOK'
  BY <1>11 DEF Push, IInv, FnsOK
<1>12. ASSUME NEW t \in Threads, NEW id \in Ids, DeleteCall(t, id)
      PROVE  FnsOK'
  BY <1>12 DEF DeleteCall, IInv, FnsOK
<1>13. ASSUME NEW t \in Threads, KtimerDelete(t)
      PROVE  FnsOK'
  BY <1>13 DEF KtimerDelete, IInv, FnsOK
<1>14. ASSUME NEW t \in Threads, Unlink(t)
      PROVE  FnsOK'
  BY <1>14 DEF Unlink, IInv, FnsOK
<1>15. ASSUME NEW t \in Threads, ClearSlot(t)
      PROVE  FnsOK'
  BY <1>15 DEF ClearSlot, IInv, FnsOK
<1>16. ASSUME NEW t \in Threads, Free(t)
      PROVE  FnsOK'
  <2>1. /\ ptr[t] \in Addrs /\ heap[ptr[t]] # NULL /\ heap'[ptr[t]] = NULL
        /\ \A b \in Addrs : b # ptr[t] => heap'[b] = heap[b]
    BY <1>16, Types DEF Free, IInv, PtrsOK, Holding, Loose
  <2>2. deleted' = deleted \cup {heap[ptr[t]].fn} /\ created' = created
    BY <1>16 DEF Free
  <2>3. QED
    BY <2>1, <2>2 DEF IInv, FnsOK
<1>17. ASSUME NEW t \in Threads, NEW id \in Ids, NEW on \in BOOLEAN, SetTime(t, id, on)
      PROVE  FnsOK'
  BY <1>17 DEF SetTime, IInv, FnsOK
<1>18. ASSUME NEW t \in Threads, NEW id \in Ids, Ask(t, id)
      PROVE  FnsOK'
  BY <1>18 DEF Ask, IInv, FnsOK
<1>19. ASSUME NEW t \in Threads, Fork(t)
      PROVE  FnsOK'
  BY <1>19 DEF Fork, IInv, FnsOK
<1>20. ASSUME NEW k \in Kids, NEW again \in BOOLEAN, Expire(k, again)
      PROVE  FnsOK'
  BY <1>20 DEF Expire, IInv, FnsOK
<1>21. ASSUME HelperAnnounce
      PROVE  FnsOK'
  BY <1>21 DEF HelperAnnounce, IInv, FnsOK
<1>22. ASSUME HelperWait
      PROVE  FnsOK'
  BY <1>22 DEF HelperWait, IInv, FnsOK
<1>23. ASSUME HelperLock
      PROVE  FnsOK'
  BY <1>23 DEF HelperLock, IInv, FnsOK
<1>24. ASSUME HelperRun
      PROVE  FnsOK'
  BY <1>24 DEF HelperRun, IInv, FnsOK
<1>25. ASSUME HelperCancelled
      PROVE  FnsOK'
  BY <1>25 DEF HelperCancelled, IInv, FnsOK
<1>26. CASE UNCHANGED vars
  BY <1>26 DEF IInv, FnsOK
<1>27. QED
  BY <1>1, <1>2, <1>3, <1>4, <1>5, <1>6, <1>7, <1>8, <1>9, <1>10, <1>11, <1>12, <1>13,
     <1>14, <1>15, <1>16, <1>17, <1>18, <1>19, <1>20, <1>21, <1>22, <1>23, <1>24, <1>25,
     <1>26 DEF Next, Call, Continue, HelperStep

(* One id the application holds, and what keeps it usable. *)
Reaches(id) ==
  LET a == allTimers[id]  k == heap[a].ktimerid IN
  /\ a # NULL /\ heap[a] # NULL /\ k # NULL
  /\ ktimer[k] # NULL /\ ktimer[k].addr = a /\ ktimer[k].fn = heap[a].fn
  /\ heap[a].notify = "thread" <=> Listed(a)
  /\ \A t \in Threads : ptr[t] # a

LEMMA Reaching ==
  LiveTimersReachTheirKernelTimer <=> \A id \in live : Reaches(id)
BY DEF LiveTimersReachTheirKernelTimer, Reaches

(* The part of the state that an id depends on. *)
LEMMA StillReaches ==
  ASSUME NEW id, Reaches(id), NEW a, NEW k, a = allTimers[id], k = heap[a].ktimerid,
         allTimers'[id] = a, heap'[a] = heap[a],
         ktimer'[k] # NULL, ktimer'[k].addr = a, ktimer'[k].fn = ktimer[k].fn,
         Listed(a)' <=> Listed(a), \A t \in Threads : ptr'[t] # a
  PROVE  Reaches(id)'
BY DEF Reaches

(* Steps that leave the table, the structs, the kernel and the list alone,   *)
(* and give no thread a struct.                                              *)
LEMMA Untouched ==
  ASSUME IInv, live' \subseteq live, allTimers' = allTimers, heap' = heap, ktimer' = ktimer,
         active' = active, \A t \in Threads : ptr'[t] \in {ptr[t], NULL}
  PROVE  LiveTimersReachTheirKernelTimer'
<1>1. ASSUME NEW id \in live
      PROVE  Reaches(id)'
  <2>1. Reaches(id)
    BY Reaching DEF IInv
  <2>2. Listed(allTimers[id])' <=> Listed(allTimers[id])
    BY DEF Listed
  <2>3. QED
    BY <2>1, <2>2 DEF Reaches
<1>2. QED
  BY <1>1 DEF LiveTimersReachTheirKernelTimer, Reaches

(* Steps keep what an id of the application leads to. *)
LEMMA LiveStep ==
  ASSUME IInv, [Next]_vars
  PROVE  LiveTimersReachTheirKernelTimer'
<1>1. ASSUME NEW t \in Threads, NEW k \in Kinds, CreateCall(t, k)
      PROVE  LiveTimersReachTheirKernelTimer'
  BY <1>1, Untouched, Types DEF CreateCall
<1>2. ASSUME NEW t \in Threads, Probe(t)
      PROVE  LiveTimersReachTheirKernelTimer'
  BY <1>2, Untouched, Types DEF Probe
<1>3. ASSUME NEW t \in Threads, Once(t)
      PROVE  LiveTimersReachTheirKernelTimer'
  BY <1>3, Untouched, Types DEF Once
<1>4. ASSUME NEW t \in Threads, StartHelper(t)
      PROVE  LiveTimersReachTheirKernelTimer'
  BY <1>4, Untouched, Types DEF StartHelper
<1>5. ASSUME NEW t \in Threads, SemWait(t)
      PROVE  LiveTimersReachTheirKernelTimer'
  BY <1>5, Untouched, Types DEF SemWait
<1>6. ASSUME NEW t \in Threads, AtFork(t)
      PROVE  LiveTimersReachTheirKernelTimer'
  BY <1>6, Untouched, Types DEF AtFork
<1>7. ASSUME NEW t \in Threads, Malloc(t)
      PROVE  LiveTimersReachTheirKernelTimer'
  <2>1. SUFFICES ASSUME NEW id \in live, Reaches(id)
               PROVE  Reaches(id)'
    <3>1. live' = live /\ \A id \in live : Reaches(id)
      BY <1>7, Reaching DEF IInv, Malloc
    <3>2. QED
      BY <3>1 DEF LiveTimersReachTheirKernelTimer, Reaches
  <2>2. PICK a \in Addrs, k \in Kids :
          /\ a = allTimers[id] /\ k = heap[a].ktimerid
          /\ heap[a] # NULL /\ ktimer[k] # NULL /\ ktimer[k].addr = a
          /\ \A u \in Threads : ptr[u] # a
    <3>1. /\ allTimers[id] \in Addrs /\ heap[allTimers[id]] # NULL
          /\ heap[allTimers[id]].ktimerid \in Kids
          /\ ktimer[heap[allTimers[id]].ktimerid] # NULL
          /\ ktimer[heap[allTimers[id]].ktimerid].addr = allTimers[id]
      BY <2>1, LiveChain, Types
    <3>2. \A u \in Threads : ptr[u] # allTimers[id]
      BY <2>1 DEF Reaches
    <3>3. QED
      BY <3>1, <3>2
  <2>3. id \in Ids
    BY <2>1, Types
  <2>4. heap'[a] = heap[a] /\ \A u \in Threads : ptr'[u] # a
    <3>1. CASE heap' = heap /\ ptr' = [ptr EXCEPT ![t] = NULL]
      BY <2>2, <3>1, Types
    <3>2. CASE ~(heap' = heap /\ ptr' = [ptr EXCEPT ![t] = NULL])
      <4>1. PICK b \in Addrs : /\ heap[b] = NULL
                               /\ heap' = [heap EXCEPT ![b] = Timer("unset", NULL, created + 1)]
                               /\ ptr' = [ptr EXCEPT ![t] = b]
        BY <1>7, <3>2 DEF Malloc
      <4>2. b # a
        BY <2>2, <4>1
      <4>3. QED
        BY <2>2, <4>1, <4>2, Types
    <3>3. QED
      BY <3>1, <3>2
  <2>5. allTimers' = allTimers /\ ktimer' = ktimer /\ active' = active
    BY <1>7 DEF Malloc
  <2>9. Listed(a)' <=> Listed(a)
    BY <2>5 DEF Listed
  <2>10. QED
    BY <2>1, <2>2, <2>4, <2>5, <2>9, StillReaches
<1>8. ASSUME NEW t \in Threads, Scan(t)
      PROVE  LiveTimersReachTheirKernelTimer'
  <2>1. SUFFICES ASSUME NEW id \in live, Reaches(id)
               PROVE  Reaches(id)'
    <3>1. live' = live /\ \A id \in live : Reaches(id)
      BY <1>8, Reaching DEF IInv, Scan
    <3>2. QED
      BY <3>1 DEF LiveTimersReachTheirKernelTimer, Reaches
  <2>2. PICK a \in Addrs, k \in Kids :
          /\ a = allTimers[id] /\ k = heap[a].ktimerid
          /\ heap[a] # NULL /\ ktimer[k] # NULL /\ ktimer[k].addr = a
          /\ \A u \in Threads : ptr[u] # a
    <3>1. /\ allTimers[id] \in Addrs /\ heap[allTimers[id]] # NULL
          /\ heap[allTimers[id]].ktimerid \in Kids
          /\ ktimer[heap[allTimers[id]].ktimerid] # NULL
          /\ ktimer[heap[allTimers[id]].ktimerid].addr = allTimers[id]
      BY <2>1, LiveChain, Types
    <3>2. \A u \in Threads : ptr[u] # allTimers[id]
      BY <2>1 DEF Reaches
    <3>3. QED
      BY <3>1, <3>2
  <2>3. id \in Ids
    BY <2>1, Types
  <2>4. heap' = heap /\ ktimer' = ktimer /\ active' = active
    BY <1>8 DEF Scan
  <2>5. allTimers'[id] = a
    <3>1. \/ allTimers' = allTimers
          \/ /\ allTimers[idx[t]] = NULL
             /\ allTimers' = [allTimers EXCEPT ![idx[t]] = ptr[t]]
      BY <1>8 DEF Scan
    <3>2. QED
      BY <2>2, <2>3, <3>1, Types
  <2>6. \A u \in Threads : ptr'[u] # a
    <3>1. ptr' = ptr \/ ptr' = [ptr EXCEPT ![t] = NULL]
      BY <1>8 DEF Scan
    <3>2. QED
      BY <2>2, <3>1, Types
  <2>9. Listed(a)' <=> Listed(a)
    BY <2>4 DEF Listed
  <2>10. QED
    BY <2>1, <2>2, <2>4, <2>5, <2>6, <2>9, StillReaches
<1>9. ASSUME NEW t \in Threads, KtimerCreate(t)
      PROVE  LiveTimersReachTheirKernelTimer'
  <2>1. /\ pc[t] = "ktimer" /\ allTimers' = allTimers /\ active' = active
        /\ ptr[t] \in Addrs /\ heap[ptr[t]] # NULL /\ Slotted(ptr[t]) /\ ~Listed(ptr[t])
    BY <1>9, Outcomes, Types DEF IInv, PtrsOK, SlotsOK, ListOK, Holding, Loose
  <2>2. CASE MadeNothing(t)
    BY <2>1, <2>2, Untouched DEF MadeNothing
  <2>3. CASE Made(t)
    <3>1. pc[t] = "ktimer"
      BY <2>1
    <3>2. PICK k \in Kids :
            /\ ktimer[k] = NULL
            /\ heap'[ptr[t]] # NULL /\ heap'[ptr[t]].fn = heap[ptr[t]].fn
            /\ heap'[ptr[t]].notify = kind[t] /\ heap'[ptr[t]].ktimerid = k
            /\ \A b \in Addrs \ {ptr[t]} : heap'[b] = heap[b]
            /\ ktimer'[k] # NULL /\ ktimer'[k].addr = ptr[t] /\ ktimer'[k].fn = heap[ptr[t]].fn
            /\ \A l \in Kids \ {k} : ktimer'[l] = ktimer[l]
      BY <2>3, <3>1, MadeEffect
    <3>3. \A u \in Threads : ptr'[u] \in {ptr[u], NULL}
      <4>1. ptr' = ptr \/ ptr' = [ptr EXCEPT ![t] = NULL]
        BY <1>9, Outcomes DEF MadeThread, MadeSignal, MadeNothing
      <4>2. QED
        BY <4>1, Types
    <3>4. ASSUME NEW id \in live
          PROVE  Reaches(id)'
      <4>1. Reaches(id)
        BY Reaching DEF IInv
      <4>2. /\ id \in Ids /\ allTimers[id] \in Addrs
            /\ heap[allTimers[id]].ktimerid \in Kids
            /\ ktimer[heap[allTimers[id]].ktimerid] # NULL
            /\ ktimer[heap[allTimers[id]].ktimerid].addr = allTimers[id]
            /\ \A u \in Threads : ptr[u] # allTimers[id]
        BY <4>1, LiveChain, Types DEF Reaches
      <4>3. /\ heap'[allTimers[id]] = heap[allTimers[id]]
            /\ \A u \in Threads : ptr'[u] # allTimers[id]
        BY <3>2, <3>3, <4>2, Types
      <4>4. ktimer'[heap[allTimers[id]].ktimerid] = ktimer[heap[allTimers[id]].ktimerid]
        BY <3>2, <4>2
      <4>5. QED
        BY <2>1, <4>1, <4>2, <4>3, <4>4, StillReaches DEF Listed
    <3>5. CASE MadeThread(t)
      BY <3>4, <3>5 DEF MadeThread, LiveTimersReachTheirKernelTimer, Reaches
    <3>6. CASE MadeSignal(t)
      <4>1. PICK a, new : a \in Addrs /\ a = ptr[t] /\ new = ptr2id(ptr[t])
        BY <2>1
      <4>2. /\ live' = live \cup {new} /\ kind[t] # "thread"
            /\ ptr' = [ptr EXCEPT ![t] = NULL]
        BY <3>6, <4>1 DEF MadeSignal
      <4>3. allTimers[new] = a
        BY <2>1, <4>1, SlotFound
      <4>4. \A u \in Threads : ptr'[u] # a
        BY <2>1, <4>1, <4>2, Types DEF IInv, PtrsOK
      <4>5. a # NULL /\ k # NULL
        BY <4>1, ConstantsOK
      <4>6. ~Listed(a)'
        BY <2>1, <4>1 DEF Listed
      <4>7. Reaches(new)'
        BY <2>1, <3>2, <4>1, <4>2, <4>3, <4>4, <4>5, <4>6 DEF Reaches
      <4>8. ASSUME NEW id \in live'
            PROVE  Reaches(id)'
        <5>1. id \in live \/ id = new
          BY <4>2
        <5>2. QED
          BY <3>4, <4>7, <5>1
      <4>9. QED
        BY <4>8 DEF LiveTimersReachTheirKernelTimer, Reaches
    <3>7. QED
      BY <1>9, <2>2, <3>5, <3>6, Outcomes
  <2>4. QED
    BY <1>9, <2>2, <2>3, Outcomes DEF MadeThread, MadeSignal
<1>10. ASSUME NEW t \in Threads, LockList(t)
      PROVE  LiveTimersReachTheirKernelTimer'
  BY <1>10, Untouched, Types DEF LockList
<1>11. ASSUME NEW t \in Threads, Push(t)
      PROVE  LiveTimersReachTheirKernelTimer'
  <2>1. /\ pc[t] = "push" /\ allTimers' = allTimers /\ active' = <<ptr[t]>> \o active
        /\ heap' = heap /\ ktimer' = ktimer /\ ptr' = [ptr EXCEPT ![t] = NULL]
        /\ live' = live \cup {ptr2id(ptr[t])}
    BY <1>11 DEF Push
  <2>2. /\ ptr[t] \in Addrs /\ heap[ptr[t]] # NULL /\ Slotted(ptr[t]) /\ Chained(ptr[t])
        /\ heap[ptr[t]].notify = "thread"
    BY <2>1, Types DEF IInv, PtrsOK, SlotsOK, ListOK, KernelOK, Holding, Loose
  <2>3. \A b \in Addrs : Listed(b)' <=> Listed(b) \/ b = ptr[t]
    BY <2>1, <2>2, Pushed
  <2>4. ASSUME NEW id \in live
        PROVE  Reaches(id)'
    <3>1. Reaches(id)
      BY Reaching DEF IInv
    <3>2. allTimers[id] \in Addrs /\ \A u \in Threads : ptr[u] # allTimers[id]
      BY <3>1, LiveChain, Types DEF Reaches
    <3>3. Listed(allTimers[id])' <=> Listed(allTimers[id])
      BY <2>3, <2>1, <3>2 DEF Listed
    <3>4. \A u \in Threads : ptr'[u] # allTimers[id]
      BY <2>1, <3>2, Types
    <3>5. QED
      BY <2>1, <3>1, <3>3, <3>4 DEF Reaches
  <2>5. PICK a, new : a \in Addrs /\ a = ptr[t] /\ new = ptr2id(ptr[t])
    BY <2>2
  <2>6. Reaches(new)'
    <3>1. allTimers[new] = a
      BY <2>2, <2>5, SlotFound
    <3>2. \A u \in Threads : ptr'[u] # a
      BY <2>1, <2>2, <2>5, Types DEF IInv, PtrsOK
    <3>3. /\ a # NULL /\ heap[a].ktimerid # NULL
          /\ ktimer[heap[a].ktimerid] # NULL
          /\ ktimer[heap[a].ktimerid].addr = a
          /\ ktimer[heap[a].ktimerid].fn = heap[a].fn
      BY <2>2, <2>5, ConstantsOK DEF Chained, IInv, KernelOK, KernelTimersHaveStructs
    <3>4. Listed(a)'
      <4>1. Len(active') = Len(active) + 1 /\ active'[1] = a /\ Len(active) \in Nat
        BY <2>1, <2>2, <2>5, Pushed, Types
      <4>2. QED
        BY <4>1 DEF Listed
    <3>5. QED
      BY <2>1, <2>2, <2>5, <3>1, <3>2, <3>3, <3>4 DEF Reaches
  <2>7. ASSUME NEW id \in live'
        PROVE  Reaches(id)'
    <3>1. id \in live \/ id = new
      BY <2>1, <2>5
    <3>2. QED
      BY <2>4, <2>6, <3>1
  <2>8. QED
    BY <2>7 DEF LiveTimersReachTheirKernelTimer, Reaches
<1>12. ASSUME NEW t \in Threads, NEW id \in Ids, DeleteCall(t, id)
      PROVE  LiveTimersReachTheirKernelTimer'
  <2>1. /\ live' = live \ {id} /\ allTimers' = allTimers /\ heap' = heap
        /\ ktimer' = ktimer /\ active' = active /\ ptr' = [ptr EXCEPT ![t] = allTimers[id]]
    BY <1>12 DEF DeleteCall
  <2>2. ASSUME NEW j \in live'
        PROVE  Reaches(j)'
    <3>1. Reaches(j) /\ j \in Ids /\ allTimers[j] \in Addrs /\ j # id
      BY <2>1, <2>2, Reaching, LiveChain, Types DEF IInv
    <3>2. \A u \in Threads : ptr'[u] # allTimers[j]
      <4>1. allTimers[j] # allTimers[id]
        BY <3>1, Types DEF IInv, SlotsOK
      <4>2. \A u \in Threads : ptr[u] # allTimers[j]
        BY <3>1 DEF Reaches
      <4>3. QED
        BY <2>1, <4>1, <4>2, Types
    <3>3. QED
      BY <2>1, <3>1, <3>2, StillReaches DEF Listed, Reaches
  <2>3. QED
    BY <2>2 DEF LiveTimersReachTheirKernelTimer, Reaches
<1>13. ASSUME NEW t \in Threads, KtimerDelete(t)
      PROVE  LiveTimersReachTheirKernelTimer'
  <2>1. SUFFICES ASSUME NEW id \in live, Reaches(id)
               PROVE  Reaches(id)'
    <3>1. live' = live /\ \A id \in live : Reaches(id)
      BY <1>13, Reaching DEF IInv, KtimerDelete
    <3>2. QED
      BY <3>1 DEF LiveTimersReachTheirKernelTimer, Reaches
  <2>2. PICK a \in Addrs, k \in Kids :
          /\ a = allTimers[id] /\ k = heap[a].ktimerid
          /\ heap[a] # NULL /\ ktimer[k] # NULL /\ ktimer[k].addr = a
          /\ \A u \in Threads : ptr[u] # a
    <3>1. /\ allTimers[id] \in Addrs /\ heap[allTimers[id]] # NULL
          /\ heap[allTimers[id]].ktimerid \in Kids
          /\ ktimer[heap[allTimers[id]].ktimerid] # NULL
          /\ ktimer[heap[allTimers[id]].ktimerid].addr = allTimers[id]
      BY <2>1, LiveChain, Types
    <3>2. \A u \in Threads : ptr[u] # allTimers[id]
      BY <2>1 DEF Reaches
    <3>3. QED
      BY <3>1, <3>2
  <2>3. id \in Ids
    BY <2>1, Types
  <2>4. /\ allTimers' = allTimers /\ heap' = heap /\ active' = active /\ ptr' = ptr
        /\ Chained(ptr[t]) /\ ptr[t] \in Addrs
    BY <1>13, Types DEF KtimerDelete, IInv, KernelOK, PtrsOK, Holding, Loose
  <2>5. k # heap[ptr[t]].ktimerid
    BY <2>2, <2>4 DEF Chained
  <2>6. ktimer'[k] = ktimer[k]
    BY <1>13, <2>5, Types DEF KtimerDelete, Forgotten
  <2>9. Listed(a)' <=> Listed(a)
    BY <2>4 DEF Listed
  <2>10. QED
    BY <2>1, <2>2, <2>4, <2>6, <2>9, StillReaches
<1>14. ASSUME NEW t \in Threads, Unlink(t)
      PROVE  LiveTimersReachTheirKernelTimer'
  <2>1. SUFFICES ASSUME NEW id \in live, Reaches(id)
               PROVE  Reaches(id)'
    <3>1. live' = live /\ \A id \in live : Reaches(id)
      BY <1>14, Reaching DEF IInv, Unlink
    <3>2. QED
      BY <3>1 DEF LiveTimersReachTheirKernelTimer, Reaches
  <2>2. PICK a \in Addrs, k \in Kids :
          /\ a = allTimers[id] /\ k = heap[a].ktimerid
          /\ heap[a] # NULL /\ ktimer[k] # NULL /\ ktimer[k].addr = a
          /\ \A u \in Threads : ptr[u] # a
    <3>1. /\ allTimers[id] \in Addrs /\ heap[allTimers[id]] # NULL
          /\ heap[allTimers[id]].ktimerid \in Kids
          /\ ktimer[heap[allTimers[id]].ktimerid] # NULL
          /\ ktimer[heap[allTimers[id]].ktimerid].addr = allTimers[id]
      BY <2>1, LiveChain, Types
    <3>2. \A u \in Threads : ptr[u] # allTimers[id]
      BY <2>1 DEF Reaches
    <3>3. QED
      BY <3>1, <3>2
  <2>3. id \in Ids
    BY <2>1, Types
  <2>4. /\ allTimers' = allTimers /\ heap' = heap /\ ktimer' = ktimer /\ ptr' = ptr
    BY <1>14 DEF Unlink
  <2>5. PICK i \in 1 .. Len(active) : active[i] = ptr[t] /\ active' = Without(active, i)
    BY <1>14 DEF Unlink
  <2>6. \A b \in Addrs : Listed(b)' <=> Listed(b) /\ b # ptr[t]
    BY <2>5, Dropped
  <2>9. Listed(a)' <=> Listed(a)
    BY <2>2, <2>6
  <2>10. QED
    BY <2>1, <2>2, <2>4, <2>9, StillReaches
<1>15. ASSUME NEW t \in Threads, ClearSlot(t)
      PROVE  LiveTimersReachTheirKernelTimer'
  <2>1. SUFFICES ASSUME NEW id \in live, Reaches(id)
               PROVE  Reaches(id)'
    <3>1. live' = live /\ \A id \in live : Reaches(id)
      BY <1>15, Reaching DEF IInv, ClearSlot
    <3>2. QED
      BY <3>1 DEF LiveTimersReachTheirKernelTimer, Reaches
  <2>2. PICK a \in Addrs, k \in Kids :
          /\ a = allTimers[id] /\ k = heap[a].ktimerid
          /\ heap[a] # NULL /\ ktimer[k] # NULL /\ ktimer[k].addr = a
          /\ \A u \in Threads : ptr[u] # a
    <3>1. /\ allTimers[id] \in Addrs /\ heap[allTimers[id]] # NULL
          /\ heap[allTimers[id]].ktimerid \in Kids
          /\ ktimer[heap[allTimers[id]].ktimerid] # NULL
          /\ ktimer[heap[allTimers[id]].ktimerid].addr = allTimers[id]
      BY <2>1, LiveChain, Types
    <3>2. \A u \in Threads : ptr[u] # allTimers[id]
      BY <2>1 DEF Reaches
    <3>3. QED
      BY <3>1, <3>2
  <2>3. id \in Ids
    BY <2>1, Types
  <2>4. /\ heap' = heap /\ ktimer' = ktimer /\ ptr' = ptr /\ active' = active
        /\ allTimers' = [allTimers EXCEPT ![ptr2id(ptr[t])] = NULL]
    BY <1>15 DEF ClearSlot
  <2>5. allTimers[ptr2id(ptr[t])] = ptr[t]
    <3>1. ptr[t] \in Addrs /\ Slotted(ptr[t])
      BY <1>15, Types DEF ClearSlot, IInv, PtrsOK, SlotsOK, Holding, Loose
    <3>2. QED
      BY <3>1, SlotFound
  <2>6. allTimers'[id] = a
    BY <2>2, <2>3, <2>4, <2>5, Types
  <2>9. Listed(a)' <=> Listed(a)
    BY <2>4 DEF Listed
  <2>10. QED
    BY <2>1, <2>2, <2>4, <2>6, <2>9, StillReaches
<1>16. ASSUME NEW t \in Threads, Free(t)
      PROVE  LiveTimersReachTheirKernelTimer'
  <2>1. SUFFICES ASSUME NEW id \in live, Reaches(id)
               PROVE  Reaches(id)'
    <3>1. live' = live /\ \A id \in live : Reaches(id)
      BY <1>16, Reaching DEF IInv, Free
    <3>2. QED
      BY <3>1 DEF LiveTimersReachTheirKernelTimer, Reaches
  <2>2. PICK a \in Addrs, k \in Kids :
          /\ a = allTimers[id] /\ k = heap[a].ktimerid
          /\ heap[a] # NULL /\ ktimer[k] # NULL /\ ktimer[k].addr = a
          /\ \A u \in Threads : ptr[u] # a
    <3>1. /\ allTimers[id] \in Addrs /\ heap[allTimers[id]] # NULL
          /\ heap[allTimers[id]].ktimerid \in Kids
          /\ ktimer[heap[allTimers[id]].ktimerid] # NULL
          /\ ktimer[heap[allTimers[id]].ktimerid].addr = allTimers[id]
      BY <2>1, LiveChain, Types
    <3>2. \A u \in Threads : ptr[u] # allTimers[id]
      BY <2>1 DEF Reaches
    <3>3. QED
      BY <3>1, <3>2
  <2>3. id \in Ids
    BY <2>1, Types
  <2>4. /\ allTimers' = allTimers /\ ktimer' = ktimer /\ active' = active
        /\ ptr' = [ptr EXCEPT ![t] = NULL] /\ heap' = [heap EXCEPT ![ptr[t]] = NULL]
    BY <1>16 DEF Free
  <2>5. heap'[a] = heap[a] /\ \A u \in Threads : ptr'[u] # a
    BY <2>2, <2>4, Types
  <2>9. Listed(a)' <=> Listed(a)
    BY <2>4 DEF Listed
  <2>10. QED
    BY <2>1, <2>2, <2>4, <2>5, <2>9, StillReaches
<1>17. ASSUME NEW t \in Threads, NEW id \in Ids, NEW on \in BOOLEAN, SetTime(t, id, on)
      PROVE  LiveTimersReachTheirKernelTimer'
  <2>1. \A l \in Kids : /\ ktimer'[l] # NULL <=> ktimer[l] # NULL
                        /\ ktimer[l] # NULL => /\ ktimer'[l].addr = ktimer[l].addr
                                               /\ ktimer'[l].fn = ktimer[l].fn
    BY <1>17, LiveChain, ArmEffect DEF SetTime
  <2>2. /\ live' = live /\ allTimers' = allTimers /\ heap' = heap /\ active' = active
        /\ ptr' = ptr
    BY <1>17 DEF SetTime
  <2>3. ASSUME NEW j \in live
        PROVE  Reaches(j)'
    <3>1. Reaches(j) /\ heap[allTimers[j]].ktimerid \in Kids
      BY Reaching, LiveChain, Types DEF IInv
    <3>2. QED
      BY <2>1, <2>2, <3>1, StillReaches DEF Listed, Reaches
  <2>4. QED
    BY <2>2, <2>3 DEF LiveTimersReachTheirKernelTimer, Reaches
<1>18. ASSUME NEW t \in Threads, NEW id \in Ids, Ask(t, id)
      PROVE  LiveTimersReachTheirKernelTimer'
  BY <1>18, Untouched, Types DEF Ask
<1>19. ASSUME NEW t \in Threads, Fork(t)
      PROVE  LiveTimersReachTheirKernelTimer'
  BY <1>19 DEF Fork, LiveTimersReachTheirKernelTimer
<1>20. ASSUME NEW k \in Kids, NEW again \in BOOLEAN, Expire(k, again)
      PROVE  LiveTimersReachTheirKernelTimer'
  <2>1. \A l \in Kids : /\ ktimer'[l] # NULL <=> ktimer[l] # NULL
                        /\ ktimer[l] # NULL => /\ ktimer'[l].addr = ktimer[l].addr
                                               /\ ktimer'[l].fn = ktimer[l].fn
    BY <1>20, ArmEffect DEF Expire
  <2>2. /\ live' = live /\ allTimers' = allTimers /\ heap' = heap /\ active' = active
        /\ ptr' = ptr
    BY <1>20 DEF Expire
  <2>3. ASSUME NEW j \in live
        PROVE  Reaches(j)'
    <3>1. Reaches(j) /\ heap[allTimers[j]].ktimerid \in Kids
      BY Reaching, LiveChain, Types DEF IInv
    <3>2. QED
      BY <2>1, <2>2, <3>1, StillReaches DEF Listed, Reaches
  <2>4. QED
    BY <2>2, <2>3 DEF LiveTimersReachTheirKernelTimer, Reaches
<1>21. ASSUME HelperAnnounce
      PROVE  LiveTimersReachTheirKernelTimer'
  BY <1>21, Untouched, Types DEF HelperAnnounce
<1>22. ASSUME HelperWait
      PROVE  LiveTimersReachTheirKernelTimer'
  BY <1>22, Untouched, Types DEF HelperWait
<1>23. ASSUME HelperLock
      PROVE  LiveTimersReachTheirKernelTimer'
  BY <1>23, Untouched, Types DEF HelperLock
<1>24. ASSUME HelperRun
      PROVE  LiveTimersReachTheirKernelTimer'
  BY <1>24, Untouched, Types DEF HelperRun
<1>25. ASSUME HelperCancelled
      PROVE  LiveTimersReachTheirKernelTimer'
  BY <1>25, Untouched, Types DEF HelperCancelled
<1>26. CASE UNCHANGED vars
  BY <1>26, Untouched, Types DEF IInv, LiveTimersReachTheirKernelTimer
<1>27. QED
  BY <1>1, <1>2, <1>3, <1>4, <1>5, <1>6, <1>7, <1>8, <1>9, <1>10, <1>11, <1>12, <1>13,
     <1>14, <1>15, <1>16, <1>17, <1>18, <1>19, <1>20, <1>21, <1>22, <1>23, <1>24, <1>25,
     <1>26 DEF Next, Call, Continue, HelperStep

(* The first states. *)
LEMMA Start ==
  Init => IInv
<1> SUFFICES ASSUME Init
             PROVE  IInv
  OBVIOUS
<1>1. TypeOK
  <2>1. NULL \in Addrs \cup {NULL} /\ active \in Seq(Addrs) /\ pending \in Seq(SignalRecords)
    BY DEF Init
  <2>2. QED
    BY <2>1, Zero, ConstantsOK DEF Init, TypeOK
<1>2. PtrsOK /\ HelperOK
  BY DEF Init, PtrsOK, HelperOK, Holding, Loose
<1>3. SlotsOK
  BY DEF Init, SlotsOK, Holding, Loose
<1>4. ListOK
  BY DEF Init, ListOK, ListedTimersAreAllocated
<1>5. KernelOK
  BY DEF Init, KernelOK, KernelTimersHaveStructs
<1>6. LiveTimersReachTheirKernelTimer /\ FnsOK
  BY DEF Init, LiveTimersReachTheirKernelTimer, FnsOK
<1>7. QED
  BY <1>1, <1>2, <1>3, <1>4, <1>5, <1>6 DEF IInv

(* The invariant holds in every state of every run. *)
THEOREM Invariance ==
  Spec => []IInv
<1>1. IInv /\ [Next]_vars => IInv'
  BY TypeStep, PtrsStep, SlotsStep, ListStep, KernelStep, LiveStep, FnsStep, HelperKept
     DEF IInv
<1>2. QED
  BY <1>1, Start, PTL DEF Spec

(* The variables keep their types: no thread's index leaves the table, and   *)
(* the semaphore never counts beyond one.                                    *)
THEOREM Typed ==
  Spec => []TypeOK
<1>1. IInv => TypeOK
  BY DEF IInv
<1>2. QED
  BY <1>1, Invariance, PTL

(* An id the application holds leads through the table and the struct to a   *)
(* kernel timer made for that struct, and no call under way can free it.     *)
THEOREM LiveTimersAreReached ==
  Spec => []LiveTimersReachTheirKernelTimer
<1>1. IInv => LiveTimersReachTheirKernelTimer
  BY DEF IInv
<1>2. QED
  BY <1>1, Invariance, PTL

(* The kernel never holds a timer whose struct is free or another timer's.   *)
THEOREM KernelTimersAreBacked ==
  Spec => []KernelTimersHaveStructs
<1>1. IInv => KernelTimersHaveStructs
  BY DEF IInv, KernelOK
<1>2. QED
  BY <1>1, Invariance, PTL

(* What the helper reads under the lock is allocated, and on the list once.  *)
THEOREM ListIsAllocated ==
  Spec => []ListedTimersAreAllocated
<1>1. IInv => ListedTimersAreAllocated
  BY DEF IInv, ListOK
<1>2. QED
  BY <1>1, Invariance, PTL

(* No interleaving of reservations and frees puts a timer in two slots.      *)
THEOREM OneSlotForEachTimer ==
  Spec => [](\A i, j \in Ids : allTimers[i] = allTimers[j] /\ allTimers[i] # NULL => i = j)
<1>1. IInv => \A i, j \in Ids : allTimers[i] = allTimers[j] /\ allTimers[i] # NULL => i = j
  BY DEF IInv, SlotsOK
<1>2. QED
  BY <1>1, Invariance, PTL

(* The function of a timer that timer_delete has freed is never started,     *)
(* even when its signal is queued or taken and its memory is another's.      *)
THEOREM DeletedNeverRun ==
  Spec => DeletedTimersNeverRun
<1>1. ASSUME IInv, HelperRun
      PROVE  ran' # ran => ran' \notin deleted
  <2>1. CASE Search(si.addr) /\ ran' = Contents(si.addr, si.fn)
    <3>1. heap[si.addr] # NULL /\ si.addr \in Addrs
      BY <1>1, <2>1, Types DEF Search, Listed, IInv, ListOK, ListedTimersAreAllocated
    <3>2. heap[si.addr].fn \notin deleted
      BY <1>1, <3>1 DEF IInv, FnsOK
    <3>3. QED
      BY <2>1, <3>1, <3>2 DEF Contents
  <2>2. CASE ran' = ran
    BY <2>2
  <2>3. QED
    BY <1>1, <2>1, <2>2 DEF HelperRun
<1>2. ASSUME IInv, HelperLock
      PROVE  ran' \notin deleted
  BY <1>2 DEF HelperLock, IInv, TypeOK, Fns
<1>3. ASSUME IInv, [Next]_vars, ~HelperRun, ~HelperLock
      PROVE  ran' = ran
  <2>1. ASSUME NEW t \in Threads, NEW k \in Kinds, CreateCall(t, k)
        PROVE  ran' = ran
    BY <2>1 DEF CreateCall
  <2>2. ASSUME NEW t \in Threads, Probe(t)
        PROVE  ran' = ran
    BY <2>2 DEF Probe
  <2>3. ASSUME NEW t \in Threads, Once(t)
        PROVE  ran' = ran
    BY <2>3 DEF Once
  <2>4. ASSUME NEW t \in Threads, StartHelper(t)
        PROVE  ran' = ran
    BY <2>4 DEF StartHelper
  <2>5. ASSUME NEW t \in Threads, SemWait(t)
        PROVE  ran' = ran
    BY <2>5 DEF SemWait
  <2>6. ASSUME NEW t \in Threads, AtFork(t)
        PROVE  ran' = ran
    BY <2>6 DEF AtFork
  <2>7. ASSUME NEW t \in Threads, Malloc(t)
        PROVE  ran' = ran
    BY <2>7 DEF Malloc
  <2>8. ASSUME NEW t \in Threads, Scan(t)
        PROVE  ran' = ran
    BY <2>8 DEF Scan
  <2>9. ASSUME NEW t \in Threads, KtimerCreate(t)
        PROVE  ran' = ran
    BY <2>9 DEF KtimerCreate
  <2>10. ASSUME NEW t \in Threads, LockList(t)
        PROVE  ran' = ran
    BY <2>10 DEF LockList
  <2>11. ASSUME NEW t \in Threads, Push(t)
        PROVE  ran' = ran
    BY <2>11 DEF Push
  <2>12. ASSUME NEW t \in Threads, NEW id \in Ids, DeleteCall(t, id)
        PROVE  ran' = ran
    BY <2>12 DEF DeleteCall
  <2>13. ASSUME NEW t \in Threads, KtimerDelete(t)
        PROVE  ran' = ran
    BY <2>13 DEF KtimerDelete
  <2>14. ASSUME NEW t \in Threads, Unlink(t)
        PROVE  ran' = ran
    BY <2>14 DEF Unlink
  <2>15. ASSUME NEW t \in Threads, ClearSlot(t)
        PROVE  ran' = ran
    BY <2>15 DEF ClearSlot
  <2>16. ASSUME NEW t \in Threads, Free(t)
        PROVE  ran' = ran
    BY <2>16 DEF Free
  <2>17. ASSUME NEW t \in Threads, NEW id \in Ids, NEW on \in BOOLEAN, SetTime(t, id, on)
        PROVE  ran' = ran
    BY <2>17 DEF SetTime
  <2>18. ASSUME NEW t \in Threads, NEW id \in Ids, Ask(t, id)
        PROVE  ran' = ran
    BY <2>18 DEF Ask
  <2>19. ASSUME NEW t \in Threads, Fork(t)
        PROVE  ran' = ran
    BY <2>19 DEF Fork
  <2>20. ASSUME NEW k \in Kids, NEW again \in BOOLEAN, Expire(k, again)
        PROVE  ran' = ran
    BY <2>20 DEF Expire
  <2>21. ASSUME HelperAnnounce
        PROVE  ran' = ran
    BY <2>21 DEF HelperAnnounce
  <2>22. ASSUME HelperWait
        PROVE  ran' = ran
    BY <2>22 DEF HelperWait
  <2>23. ASSUME HelperCancelled
        PROVE  ran' = ran
    BY <2>23 DEF HelperCancelled
  <2>24. CASE UNCHANGED vars
    BY <2>24
  <2>25. QED
    BY <1>3, <2>1, <2>2, <2>3, <2>4, <2>5, <2>6, <2>7, <2>8, <2>9, <2>10, <2>11,
       <2>12, <2>13, <2>14, <2>15, <2>16, <2>17, <2>18, <2>19, <2>20, <2>21, <2>22,
       <2>23, <2>24 DEF Next, Call, Continue, HelperStep
<1>4. IInv /\ [Next]_vars => (ran' # ran => ran' \notin deleted) \/ UNCHANGED vars
  BY <1>1, <1>2, <1>3
<1>5. QED
  BY <1>4, Invariance, PTL DEF Spec, DeletedTimersNeverRun

-----------------------------------------------------------------------------
(* One thread at a time starts the helper, and only when there is none.      *)
Starting == {"start", "semwait", "atfork"}

StarterOK ==
  /\ once = "no" => helper = "none"
  /\ \A t \in Threads : /\ pc[t] \in Starting => once = "running"
                        /\ pc[t] = "start" => helper = "none"
  /\ \A t, u \in Threads : pc[t] \in Starting /\ pc[u] \in Starting => t = u

(* Without a fork: who owns the list's mutex, and whose every slot is.       *)
MutexOK == /\ \A t \in Threads : pc[t] \in {"push", "unlink"} => lock = t
           /\ helper = "run" => lock = Helper

OwnedOK == MutexOK /\ LockOwnerIsRunning

SlotsKnown ==
  \A i \in Ids : allTimers[i] # NULL => i \in live \/ \E t \in Threads : ptr[t] = allTimers[i]

(* Steps keep StarterOK, a fork too. *)
LEMMA StarterStep ==
  ASSUME IInv, StarterOK, [Next]_vars
  PROVE  StarterOK'
<1>1. ASSUME NEW t \in Threads, NEW k \in Kinds, CreateCall(t, k)
      PROVE  StarterOK'
  BY <1>1, Types DEF CreateCall, StarterOK, Starting
<1>2. ASSUME NEW t \in Threads, Probe(t)
      PROVE  StarterOK'
  BY <1>2, Types DEF Probe, StarterOK, Starting
<1>3. ASSUME NEW t \in Threads, Once(t)
      PROVE  StarterOK'
  <2>1. \A u \in Threads : u # t => pc'[u] = pc[u]
    BY <1>3, Types DEF Once
  <2>2. CASE /\ once = "no" /\ once' = "running" /\ helper' = helper
             /\ pc' = [pc EXCEPT ![t] = "start"]
    BY <2>1, <2>2, Types DEF StarterOK, Starting
  <2>3. CASE once' = once /\ pc'[t] \in {"malloc", "idle"} /\ helper' = helper
    BY <2>1, <2>3 DEF StarterOK, Starting
  <2>4. QED
    BY <1>3, <2>2, <2>3, Types DEF Once
<1>4. ASSUME NEW t \in Threads, StartHelper(t)
      PROVE  StarterOK'
  BY <1>4, Types DEF StartHelper, StarterOK, Starting
<1>5. ASSUME NEW t \in Threads, SemWait(t)
      PROVE  StarterOK'
  BY <1>5, Types DEF SemWait, StarterOK, Starting
<1>6. ASSUME NEW t \in Threads, AtFork(t)
      PROVE  StarterOK'
  BY <1>6, Types DEF AtFork, StarterOK, Starting
<1>7. ASSUME NEW t \in Threads, Malloc(t)
      PROVE  StarterOK'
  BY <1>7, Types DEF Malloc, StarterOK, Starting
<1>8. ASSUME NEW t \in Threads, Scan(t)
      PROVE  StarterOK'
  BY <1>8, Types DEF Scan, StarterOK, Starting
<1>9. ASSUME NEW t \in Threads, KtimerCreate(t)
      PROVE  StarterOK'
  <2>1. once' = once /\ helper' = helper
    BY <1>9 DEF KtimerCreate
  <2>2. pc'[t] \notin Starting /\ \A u \in Threads : u # t => pc'[u] = pc[u]
    BY <1>9, Outcomes, Types DEF MadeThread, MadeSignal, MadeNothing, Starting
  <2>3. QED
    BY <2>1, <2>2 DEF StarterOK, Starting
<1>10. ASSUME NEW t \in Threads, LockList(t)
      PROVE  StarterOK'
  BY <1>10, Types DEF LockList, StarterOK, Starting
<1>11. ASSUME NEW t \in Threads, Push(t)
      PROVE  StarterOK'
  BY <1>11, Types DEF Push, StarterOK, Starting
<1>12. ASSUME NEW t \in Threads, NEW id \in Ids, DeleteCall(t, id)
      PROVE  StarterOK'
  BY <1>12, Types DEF DeleteCall, StarterOK, Starting
<1>13. ASSUME NEW t \in Threads, KtimerDelete(t)
      PROVE  StarterOK'
  BY <1>13, Types DEF KtimerDelete, StarterOK, Starting, AfterKtimerDelete
<1>14. ASSUME NEW t \in Threads, Unlink(t)
      PROVE  StarterOK'
  BY <1>14, Types DEF Unlink, StarterOK, Starting
<1>15. ASSUME NEW t \in Threads, ClearSlot(t)
      PROVE  StarterOK'
  BY <1>15, Types DEF ClearSlot, StarterOK, Starting
<1>16. ASSUME NEW t \in Threads, Free(t)
      PROVE  StarterOK'
  BY <1>16, Types DEF Free, StarterOK, Starting
<1>17. ASSUME NEW t \in Threads, NEW id \in Ids, NEW on \in BOOLEAN, SetTime(t, id, on)
      PROVE  StarterOK'
  BY <1>17, Types DEF SetTime, StarterOK, StarterOK, Starting
<1>18. ASSUME NEW t \in Threads, NEW id \in Ids, Ask(t, id)
      PROVE  StarterOK'
  BY <1>18, Types DEF Ask, StarterOK, StarterOK, Starting
<1>19. ASSUME NEW t \in Threads, Fork(t)
      PROVE  StarterOK'
  <2>1. once' # "running" /\ helper' = "none" /\ \A u \in Threads : pc'[u] \in {"idle", "gone"}
    BY <1>19 DEF Fork, ResetHelperControl, OnceAfterFork
  <2>2. QED
    BY <2>1 DEF StarterOK, Starting
<1>20. ASSUME NEW k \in Kids, NEW again \in BOOLEAN, Expire(k, again)
      PROVE  StarterOK'
  BY <1>20, Types DEF Expire, StarterOK, StarterOK, Starting
<1>21. ASSUME HelperAnnounce
      PROVE  StarterOK'
  BY <1>21, Types DEF HelperAnnounce, StarterOK, StarterOK, Starting
<1>22. ASSUME HelperWait
      PROVE  StarterOK'
  BY <1>22, Types DEF HelperWait, StarterOK, StarterOK, Starting
<1>23. ASSUME HelperLock
      PROVE  StarterOK'
  BY <1>23, Types DEF HelperLock, StarterOK, StarterOK, Starting
<1>24. ASSUME HelperRun
      PROVE  StarterOK'
  BY <1>24, Types DEF HelperRun, StarterOK, StarterOK, Starting
<1>25. ASSUME HelperCancelled
      PROVE  StarterOK'
  BY <1>25, Types DEF HelperCancelled, StarterOK, StarterOK, Starting
<1>26. CASE UNCHANGED vars
  BY <1>26, Types DEF StarterOK, StarterOK, Starting
<1>27. QED
  BY <1>1, <1>2, <1>3, <1>4, <1>5, <1>6, <1>7, <1>8, <1>9, <1>10, <1>11, <1>12, <1>13,
     <1>14, <1>15, <1>16, <1>17, <1>18, <1>19, <1>20, <1>21, <1>22, <1>23, <1>24, <1>25,
     <1>26 DEF Next, Call, Continue, HelperStep

(* Without a fork, steps keep OwnedOK. *)
LEMMA OwnedStep ==
  ASSUME IInv, "fork" \notin Faults, StarterOK, OwnedOK, [Next]_vars
  PROVE  OwnedOK'
<1>1. ASSUME NEW t \in Threads, NEW k \in Kinds, CreateCall(t, k)
      PROVE  OwnedOK'
  <2>1. lock' = lock /\ pc[t] \notin {"push", "unlink"} /\ (helper' = "run" <=> helper = "run")
    BY <1>1 DEF CreateCall
  <2>2. pc'[t] \notin {"push", "unlink"} /\ \A u \in Threads : u # t => pc'[u] = pc[u]
    BY <1>1, Types DEF CreateCall
  <2>3. QED
    BY <2>1, <2>2, Types DEF OwnedOK, MutexOK, LockOwnerIsRunning
<1>2. ASSUME NEW t \in Threads, Probe(t)
      PROVE  OwnedOK'
  <2>1. lock' = lock /\ pc[t] \notin {"push", "unlink"} /\ (helper' = "run" <=> helper = "run")
    BY <1>2 DEF Probe
  <2>2. pc'[t] \notin {"push", "unlink"} /\ \A u \in Threads : u # t => pc'[u] = pc[u]
    BY <1>2, Types DEF Probe
  <2>3. QED
    BY <2>1, <2>2, Types DEF OwnedOK, MutexOK, LockOwnerIsRunning
<1>3. ASSUME NEW t \in Threads, Once(t)
      PROVE  OwnedOK'
  <2>1. lock' = lock /\ pc[t] \notin {"push", "unlink"} /\ (helper' = "run" <=> helper = "run")
    BY <1>3 DEF Once
  <2>2. pc'[t] \notin {"push", "unlink"} /\ \A u \in Threads : u # t => pc'[u] = pc[u]
    BY <1>3, Types DEF Once
  <2>3. QED
    BY <2>1, <2>2, Types DEF OwnedOK, MutexOK, LockOwnerIsRunning
<1>4. ASSUME NEW t \in Threads, StartHelper(t)
      PROVE  OwnedOK'
  <2>1. lock' = lock /\ pc[t] \notin {"push", "unlink"} /\ (helper' = "run" <=> helper = "run")
    BY <1>4 DEF StartHelper, StarterOK
  <2>2. pc'[t] \notin {"push", "unlink"} /\ \A u \in Threads : u # t => pc'[u] = pc[u]
    BY <1>4, Types DEF StartHelper
  <2>3. QED
    BY <2>1, <2>2, Types DEF OwnedOK, MutexOK, LockOwnerIsRunning
<1>5. ASSUME NEW t \in Threads, SemWait(t)
      PROVE  OwnedOK'
  <2>1. lock' = lock /\ pc[t] \notin {"push", "unlink"} /\ (helper' = "run" <=> helper = "run")
    BY <1>5 DEF SemWait
  <2>2. pc'[t] \notin {"push", "unlink"} /\ \A u \in Threads : u # t => pc'[u] = pc[u]
    BY <1>5, Types DEF SemWait
  <2>3. QED
    BY <2>1, <2>2, Types DEF OwnedOK, MutexOK, LockOwnerIsRunning
<1>6. ASSUME NEW t \in Threads, AtFork(t)
      PROVE  OwnedOK'
  <2>1. lock' = lock /\ pc[t] \notin {"push", "unlink"} /\ (helper' = "run" <=> helper = "run")
    BY <1>6 DEF AtFork
  <2>2. pc'[t] \notin {"push", "unlink"} /\ \A u \in Threads : u # t => pc'[u] = pc[u]
    BY <1>6, Types DEF AtFork
  <2>3. QED
    BY <2>1, <2>2, Types DEF OwnedOK, MutexOK, LockOwnerIsRunning
<1>7. ASSUME NEW t \in Threads, Malloc(t)
      PROVE  OwnedOK'
  <2>1. lock' = lock /\ pc[t] \notin {"push", "unlink"} /\ (helper' = "run" <=> helper = "run")
    BY <1>7 DEF Malloc
  <2>2. pc'[t] \notin {"push", "unlink"} /\ \A u \in Threads : u # t => pc'[u] = pc[u]
    BY <1>7, Types DEF Malloc
  <2>3. QED
    BY <2>1, <2>2, Types DEF OwnedOK, MutexOK, LockOwnerIsRunning
<1>8. ASSUME NEW t \in Threads, Scan(t)
      PROVE  OwnedOK'
  <2>1. lock' = lock /\ pc[t] \notin {"push", "unlink"} /\ (helper' = "run" <=> helper = "run")
    BY <1>8 DEF Scan
  <2>2. pc'[t] \notin {"push", "unlink"} /\ \A u \in Threads : u # t => pc'[u] = pc[u]
    BY <1>8, Types DEF Scan
  <2>3. QED
    BY <2>1, <2>2, Types DEF OwnedOK, MutexOK, LockOwnerIsRunning
<1>9. ASSUME NEW t \in Threads, KtimerCreate(t)
      PROVE  OwnedOK'
  <2>1. lock' = lock /\ pc[t] = "ktimer" /\ helper' = helper
    BY <1>9 DEF KtimerCreate
  <2>2. pc'[t] \notin {"push", "unlink"} /\ \A u \in Threads : u # t => pc'[u] = pc[u]
    BY <1>9, Outcomes, Types DEF MadeThread, MadeSignal, MadeNothing
  <2>3. QED
    BY <2>1, <2>2, Types DEF OwnedOK, MutexOK, LockOwnerIsRunning
<1>10. ASSUME NEW t \in Threads, LockList(t)
      PROVE  OwnedOK'
  <2>1. /\ lock = NULL /\ lock' = t /\ helper' = helper /\ pc'[t] \in {"push", "unlink"}
        /\ \A u \in Threads : u # t => pc'[u] = pc[u]
    BY <1>10, Types DEF LockList
  <2>2. QED
    BY <2>1, Types DEF OwnedOK, MutexOK, LockOwnerIsRunning
<1>11. ASSUME NEW t \in Threads, Push(t)
      PROVE  OwnedOK'
  <2>1. /\ lock = t /\ lock' = NULL /\ helper' = helper /\ pc'[t] = "idle"
        /\ \A u \in Threads : u # t => pc'[u] = pc[u]
    BY <1>11, Types DEF Push, UnlockList, OwnedOK, MutexOK
  <2>2. QED
    BY <2>1, Types DEF OwnedOK, MutexOK, LockOwnerIsRunning
<1>12. ASSUME NEW t \in Threads, NEW id \in Ids, DeleteCall(t, id)
      PROVE  OwnedOK'
  <2>1. lock' = lock /\ pc[t] \notin {"push", "unlink"} /\ (helper' = "run" <=> helper = "run")
    BY <1>12 DEF DeleteCall
  <2>2. pc'[t] \notin {"push", "unlink"} /\ \A u \in Threads : u # t => pc'[u] = pc[u]
    BY <1>12, Types DEF DeleteCall
  <2>3. QED
    BY <2>1, <2>2, Types DEF OwnedOK, MutexOK, LockOwnerIsRunning
<1>13. ASSUME NEW t \in Threads, KtimerDelete(t)
      PROVE  OwnedOK'
  <2>1. lock' = lock /\ pc[t] \notin {"push", "unlink"} /\ (helper' = "run" <=> helper = "run")
    BY <1>13 DEF KtimerDelete
  <2>2. pc'[t] \notin {"push", "unlink"} /\ \A u \in Threads : u # t => pc'[u] = pc[u]
    BY <1>13, Types DEF KtimerDelete, AfterKtimerDelete
  <2>3. QED
    BY <2>1, <2>2, Types DEF OwnedOK, MutexOK, LockOwnerIsRunning
<1>14. ASSUME NEW t \in Threads, Unlink(t)
      PROVE  OwnedOK'
  <2>1. /\ lock = t /\ lock' = NULL /\ helper' = helper /\ pc'[t] = "clear"
        /\ \A u \in Threads : u # t => pc'[u] = pc[u]
    BY <1>14, Types DEF Unlink, UnlockList, OwnedOK, MutexOK
  <2>2. QED
    BY <2>1, Types DEF OwnedOK, MutexOK, LockOwnerIsRunning
<1>15. ASSUME NEW t \in Threads, ClearSlot(t)
      PROVE  OwnedOK'
  <2>1. lock' = lock /\ pc[t] \notin {"push", "unlink"} /\ (helper' = "run" <=> helper = "run")
    BY <1>15 DEF ClearSlot
  <2>2. pc'[t] \notin {"push", "unlink"} /\ \A u \in Threads : u # t => pc'[u] = pc[u]
    BY <1>15, Types DEF ClearSlot
  <2>3. QED
    BY <2>1, <2>2, Types DEF OwnedOK, MutexOK, LockOwnerIsRunning
<1>16. ASSUME NEW t \in Threads, Free(t)
      PROVE  OwnedOK'
  <2>1. lock' = lock /\ pc[t] \notin {"push", "unlink"} /\ (helper' = "run" <=> helper = "run")
    BY <1>16 DEF Free
  <2>2. pc'[t] \notin {"push", "unlink"} /\ \A u \in Threads : u # t => pc'[u] = pc[u]
    BY <1>16, Types DEF Free
  <2>3. QED
    BY <2>1, <2>2, Types DEF OwnedOK, MutexOK, LockOwnerIsRunning
<1>17. ASSUME NEW t \in Threads, NEW id \in Ids, NEW on \in BOOLEAN, SetTime(t, id, on)
      PROVE  OwnedOK'
  BY <1>17, Types DEF SetTime, OwnedOK, OwnedOK, MutexOK, LockOwnerIsRunning
<1>18. ASSUME NEW t \in Threads, NEW id \in Ids, Ask(t, id)
      PROVE  OwnedOK'
  BY <1>18, Types DEF Ask, OwnedOK, OwnedOK, MutexOK, LockOwnerIsRunning
<1>19. ASSUME NEW t \in Threads, Fork(t)
      PROVE  OwnedOK'
  BY <1>19 DEF Fork
<1>20. ASSUME NEW k \in Kids, NEW again \in BOOLEAN, Expire(k, again)
      PROVE  OwnedOK'
  BY <1>20, Types DEF Expire, OwnedOK, OwnedOK, MutexOK, LockOwnerIsRunning
<1>21. ASSUME HelperAnnounce
      PROVE  OwnedOK'
  BY <1>21, Types DEF HelperAnnounce, OwnedOK, OwnedOK, MutexOK, LockOwnerIsRunning
<1>22. ASSUME HelperWait
      PROVE  OwnedOK'
  BY <1>22, Types DEF HelperWait, OwnedOK, OwnedOK, MutexOK, LockOwnerIsRunning
<1>23. ASSUME HelperLock
      PROVE  OwnedOK'
  BY <1>23, Types DEF HelperLock, OwnedOK, OwnedOK, MutexOK, LockOwnerIsRunning
<1>24. ASSUME HelperRun
      PROVE  OwnedOK'
  <2>1. lock = Helper /\ lock' = NULL /\ helper' = "wait" /\ pc' = pc
    BY <1>24 DEF HelperRun, UnlockList, OwnedOK, MutexOK
  <2>2. QED
    BY <2>1, Types DEF OwnedOK, MutexOK, LockOwnerIsRunning
<1>25. ASSUME HelperCancelled
      PROVE  OwnedOK'
  BY <1>25, Types DEF HelperCancelled, OwnedOK, OwnedOK, MutexOK, LockOwnerIsRunning
<1>26. CASE UNCHANGED vars
  BY <1>26, Types DEF OwnedOK, OwnedOK, MutexOK, LockOwnerIsRunning
<1>27. QED
  BY <1>1, <1>2, <1>3, <1>4, <1>5, <1>6, <1>7, <1>8, <1>9, <1>10, <1>11, <1>12, <1>13,
     <1>14, <1>15, <1>16, <1>17, <1>18, <1>19, <1>20, <1>21, <1>22, <1>23, <1>24, <1>25,
     <1>26 DEF Next, Call, Continue, HelperStep

(* Without a fork the owner of the list's mutex is always running: nobody    *)
(* waits for a mutex that will not be unlocked.                              *)
THEOREM MutexIsReleased ==
  ASSUME "fork" \notin Faults
  PROVE  Spec => []LockOwnerIsRunning
<1>1. Init => OwnedOK /\ StarterOK
  BY DEF Init, OwnedOK, MutexOK, LockOwnerIsRunning, StarterOK, Starting
<1>2. IInv /\ StarterOK /\ [Next]_vars => StarterOK'
  BY StarterStep
<1>3. IInv /\ StarterOK /\ OwnedOK /\ [Next]_vars => OwnedOK'
  BY OwnedStep
<1>4. OwnedOK => LockOwnerIsRunning
  BY DEF OwnedOK
<1>5. QED
  BY <1>1, <1>2, <1>3, <1>4, Invariance, PTL DEF Spec

(* Without a fork, steps lose no slot. *)
LEMMA KnownStep ==
  ASSUME IInv, "fork" \notin Faults, SlotsKnown, [Next]_vars
  PROVE  SlotsKnown'
<1>1. ASSUME NEW t \in Threads, NEW k \in Kinds, CreateCall(t, k)
      PROVE  SlotsKnown'
  BY <1>1 DEF CreateCall, SlotsKnown
<1>2. ASSUME NEW t \in Threads, Probe(t)
      PROVE  SlotsKnown'
  BY <1>2 DEF Probe, SlotsKnown
<1>3. ASSUME NEW t \in Threads, Once(t)
      PROVE  SlotsKnown'
  <2>1. /\ allTimers' = allTimers /\ live' = live
        /\ ptr' = ptr \/ ptr' = [ptr EXCEPT ![t] = NULL]
    BY <1>3 DEF Once
  <2>2. ptr[t] = NULL
    BY <1>3, Types DEF Once, IInv, PtrsOK, Holding, Loose
  <2>3. QED
    BY <2>1, <2>2, Types DEF SlotsKnown, Slotted
<1>4. ASSUME NEW t \in Threads, StartHelper(t)
      PROVE  SlotsKnown'
  BY <1>4 DEF StartHelper, SlotsKnown
<1>5. ASSUME NEW t \in Threads, SemWait(t)
      PROVE  SlotsKnown'
  BY <1>5 DEF SemWait, SlotsKnown
<1>6. ASSUME NEW t \in Threads, AtFork(t)
      PROVE  SlotsKnown'
  BY <1>6 DEF AtFork, SlotsKnown
<1>7. ASSUME NEW t \in Threads, Malloc(t)
      PROVE  SlotsKnown'
  <2>1. allTimers' = allTimers /\ live' = live /\ ptr[t] = NULL
    BY <1>7 DEF Malloc, IInv, PtrsOK, Holding, Loose
  <2>2. PICK a : ptr' = [ptr EXCEPT ![t] = a]
    BY <1>7 DEF Malloc
  <2>3. QED
    BY <2>1, <2>2, Types DEF SlotsKnown
<1>8. ASSUME NEW t \in Threads, Scan(t)
      PROVE  SlotsKnown'
  <2>1. live' = live /\ ~Slotted(ptr[t])
    BY <1>8 DEF Scan, IInv, SlotsOK, Loose
  <2>2. CASE allTimers' = allTimers
    <3>1. ptr' = ptr \/ ptr' = [ptr EXCEPT ![t] = NULL]
      BY <1>8 DEF Scan
    <3>2. QED
      BY <2>1, <2>2, <3>1, Types DEF SlotsKnown, Slotted
  <2>3. CASE allTimers' # allTimers
    <3>1. ptr' = ptr /\ allTimers' = [allTimers EXCEPT ![idx[t]] = ptr[t]]
      BY <1>8, <2>3 DEF Scan
    <3>2. QED
      BY <2>1, <3>1, Types DEF SlotsKnown
  <2>4. QED
    BY <2>2, <2>3
<1>9. ASSUME NEW t \in Threads, KtimerCreate(t)
      PROVE  SlotsKnown'
  <2>1. allTimers' = allTimers /\ ptr[t] \in Addrs /\ Slotted(ptr[t])
    BY <1>9, Outcomes, Types DEF IInv, PtrsOK, SlotsOK, Holding, Loose
  <2>2. CASE ptr' = ptr /\ live' = live
    BY <2>1, <2>2 DEF SlotsKnown
  <2>3. CASE ptr' = [ptr EXCEPT ![t] = NULL] /\ live' = live \cup {ptr2id(ptr[t])}
    <3>1. allTimers[ptr2id(ptr[t])] = ptr[t]
      BY <2>1, SlotFound
    <3>2. \A i \in Ids : allTimers[i] = ptr[t] => i = ptr2id(ptr[t])
      BY <2>1, <3>1, SlotFound, Types DEF IInv, SlotsOK
    <3>3. QED
      BY <2>1, <2>3, <3>2, Types DEF SlotsKnown
  <2>4. QED
    BY <1>9, <2>2, <2>3, Outcomes DEF MadeThread, MadeSignal, MadeNothing
<1>10. ASSUME NEW t \in Threads, LockList(t)
      PROVE  SlotsKnown'
  BY <1>10 DEF LockList, SlotsKnown
<1>11. ASSUME NEW t \in Threads, Push(t)
      PROVE  SlotsKnown'
  <2>1. allTimers' = allTimers /\ ptr[t] \in Addrs /\ Slotted(ptr[t])
    <3>1. pc[t] = "push" /\ allTimers' = allTimers
      BY <1>11 DEF Push
    <3>2. QED
      BY <3>1, Types DEF IInv, PtrsOK, SlotsOK, Holding, Loose
  <2>2. CASE ptr' = [ptr EXCEPT ![t] = NULL] /\ live' = live \cup {ptr2id(ptr[t])}
    <3>1. allTimers[ptr2id(ptr[t])] = ptr[t]
      BY <2>1, SlotFound
    <3>2. \A i \in Ids : allTimers[i] = ptr[t] => i = ptr2id(ptr[t])
      BY <2>1, <3>1, SlotFound, Types DEF IInv, SlotsOK
    <3>3. QED
      BY <2>1, <2>2, <3>2, Types DEF SlotsKnown
  <2>3. QED
    BY <1>11, <2>2 DEF Push
<1>12. ASSUME NEW t \in Threads, NEW id \in Ids, DeleteCall(t, id)
      PROVE  SlotsKnown'
  <2>1. /\ allTimers' = allTimers /\ live' = live \ {id} /\ ptr[t] = NULL
        /\ ptr' = [ptr EXCEPT ![t] = allTimers[id]]
    BY <1>12 DEF DeleteCall, IInv, PtrsOK, Holding, Loose
  <2>2. ptr'[t] = allTimers[id] /\ \A u \in Threads : u # t => ptr'[u] = ptr[u]
    BY <2>1, Types
  <2>3. QED
    BY <2>1, <2>2 DEF SlotsKnown
<1>13. ASSUME NEW t \in Threads, KtimerDelete(t)
      PROVE  SlotsKnown'
  BY <1>13 DEF KtimerDelete, SlotsKnown
<1>14. ASSUME NEW t \in Threads, Unlink(t)
      PROVE  SlotsKnown'
  BY <1>14 DEF Unlink, SlotsKnown
<1>15. ASSUME NEW t \in Threads, ClearSlot(t)
      PROVE  SlotsKnown'
  <2>1. /\ live' = live /\ ptr' = ptr
        /\ allTimers' = [allTimers EXCEPT ![ptr2id(ptr[t])] = NULL]
    BY <1>15 DEF ClearSlot
  <2>2. QED
    BY <2>1, Types DEF SlotsKnown
<1>16. ASSUME NEW t \in Threads, Free(t)
      PROVE  SlotsKnown'
  <2>1. /\ allTimers' = allTimers /\ live' = live
        /\ ptr' = ptr \/ ptr' = [ptr EXCEPT ![t] = NULL]
    BY <1>16 DEF Free
  <2>2. ~Slotted(ptr[t])
    BY <1>16, Types DEF Free, IInv, SlotsOK, Holding, Loose
  <2>3. QED
    BY <2>1, <2>2, Types DEF SlotsKnown, Slotted
<1>17. ASSUME NEW t \in Threads, NEW id \in Ids, NEW on \in BOOLEAN, SetTime(t, id, on)
      PROVE  SlotsKnown'
  BY <1>17 DEF SetTime, SlotsKnown
<1>18. ASSUME NEW t \in Threads, NEW id \in Ids, Ask(t, id)
      PROVE  SlotsKnown'
  BY <1>18 DEF Ask, SlotsKnown
<1>19. ASSUME NEW t \in Threads, Fork(t)
      PROVE  SlotsKnown'
  BY <1>19 DEF Fork
<1>20. ASSUME NEW k \in Kids, NEW again \in BOOLEAN, Expire(k, again)
      PROVE  SlotsKnown'
  BY <1>20 DEF Expire, SlotsKnown
<1>21. ASSUME HelperAnnounce
      PROVE  SlotsKnown'
  BY <1>21 DEF HelperAnnounce, SlotsKnown
<1>22. ASSUME HelperWait
      PROVE  SlotsKnown'
  BY <1>22 DEF HelperWait, SlotsKnown
<1>23. ASSUME HelperLock
      PROVE  SlotsKnown'
  BY <1>23 DEF HelperLock, SlotsKnown
<1>24. ASSUME HelperRun
      PROVE  SlotsKnown'
  BY <1>24 DEF HelperRun, SlotsKnown
<1>25. ASSUME HelperCancelled
      PROVE  SlotsKnown'
  BY <1>25 DEF HelperCancelled, SlotsKnown
<1>26. CASE UNCHANGED vars
  BY <1>26 DEF SlotsKnown, SlotsKnown
<1>27. QED
  BY <1>1, <1>2, <1>3, <1>4, <1>5, <1>6, <1>7, <1>8, <1>9, <1>10, <1>11, <1>12, <1>13,
     <1>14, <1>15, <1>16, <1>17, <1>18, <1>19, <1>20, <1>21, <1>22, <1>23, <1>24, <1>25,
     <1>26 DEF Next, Call, Continue, HelperStep

(* Without a fork every slot in use is known to the application or to a call *)
(* under way, and no timer is in two slots.                                  *)
THEOREM NoSlotIsLost ==
  ASSUME "fork" \notin Faults
  PROVE  Spec => []SlotsAccountedFor
<1>1. Init => SlotsKnown
  BY DEF Init, SlotsKnown
<1>2. IInv /\ SlotsKnown /\ [Next]_vars => SlotsKnown'
  BY KnownStep
<1>3. IInv /\ SlotsKnown => SlotsAccountedFor
  BY DEF IInv, SlotsOK, SlotsKnown, SlotsAccountedFor
<1>4. QED
  BY <1>1, <1>2, <1>3, Invariance, PTL DEF Spec

-----------------------------------------------------------------------------
(* Who has a helper when no thread creation fails and nobody cancels it.     *)
StartsOK ==
  /\ StarterOK
  /\ once = "done" => atfork /\ helper # "none"
  /\ \A t \in Threads :
       /\ pc[t] \in {"semwait", "atfork", "lock.push", "push"} => helper # "none"
       /\ pc[t] \in {"malloc", "scan", "ktimer"} /\ kind[t] = "thread" => helper # "none"
  /\ ThreadTimersHaveAHelper

(* The structs of the ids the application holds. *)
LEMMA LiveStructs ==
  ASSUME IInv
  PROVE  \A id \in live : /\ id \in Ids /\ allTimers[id] \in Addrs
                          /\ heap[allTimers[id]] # NULL
                          /\ \A u \in Threads : ptr[u] # allTimers[id]
BY LiveChain, Types, Reaching DEF IInv, Reaches

(* A step that keeps the structs of the ids that are left, and the helper.   *)
LEMMA HelpersKept ==
  ASSUME ThreadTimersHaveAHelper, live' \subseteq live, helper # "none" => helper' # "none",
         \A id \in live' : heap'[allTimers'[id]] = heap[allTimers[id]]
  PROVE  ThreadTimersHaveAHelper'
BY DEF ThreadTimersHaveAHelper

(* Without failing thread creations and cancelled helpers, steps keep StartsOK. *)
LEMMA StartsStep ==
  ASSUME IInv, "thread" \notin Faults, "cancel" \notin Faults, StartsOK, [Next]_vars
  PROVE  StartsOK'
<1>1. ASSUME NEW t \in Threads, NEW k \in Kinds, CreateCall(t, k)
      PROVE  StartsOK'
  <2>1. StarterOK'
    BY StarterStep DEF StartsOK
  <2>2. ThreadTimersHaveAHelper'
    BY <1>1, HelpersKept DEF CreateCall, StartsOK
  <2>3. QED
    BY <1>1, <2>1, <2>2, Types DEF CreateCall, StartsOK
<1>2. ASSUME NEW t \in Threads, Probe(t)
      PROVE  StartsOK'
  <2>1. StarterOK'
    BY StarterStep DEF StartsOK
  <2>2. ThreadTimersHaveAHelper'
    BY <1>2, HelpersKept DEF Probe, StartsOK
  <2>3. QED
    BY <1>2, <2>1, <2>2, Types DEF Probe, StartsOK
<1>3. ASSUME NEW t \in Threads, Once(t)
      PROVE  StartsOK'
  <2>1. StarterOK'
    BY StarterStep DEF StartsOK
  <2>2. ThreadTimersHaveAHelper'
    BY <1>3, HelpersKept DEF Once, StartsOK
  <2>3. /\ helper' = helper /\ atfork' = atfork
        /\ \A u \in Threads : u # t => pc'[u] = pc[u] /\ kind'[u] = kind[u]
    BY <1>3, Types DEF Once
  <2>4. CASE once = "no" /\ once' = "running" /\ pc'[t] = "start"
    BY <2>1, <2>2, <2>3, <2>4 DEF StartsOK
  <2>5. CASE once' = once /\ (pc'[t] = "idle" \/ (once = "done" /\ pc'[t] = "malloc"))
    BY <2>1, <2>2, <2>3, <2>5 DEF StartsOK
  <2>6. QED
    BY <1>3, <2>4, <2>5, Types DEF Once
<1>4. ASSUME NEW t \in Threads, StartHelper(t)
      PROVE  StartsOK'
  <2>1. StarterOK' /\ once' = once /\ atfork' = atfork /\ kind' = kind /\ once = "running"
    BY <1>4, StarterStep DEF StartHelper, StartsOK, StarterOK, Starting
  <2>2. ThreadTimersHaveAHelper'
    BY <1>4, HelpersKept DEF StartHelper, StartsOK
  <2>3. /\ helper' # "none" /\ pc'[t] \in {"atfork", "semwait"}
        /\ \A u \in Threads : u # t => pc'[u] = pc[u]
    BY <1>4, Types DEF StartHelper
  <2>4. QED
    BY <2>1, <2>2, <2>3 DEF StartsOK
<1>5. ASSUME NEW t \in Threads, SemWait(t)
      PROVE  StartsOK'
  <2>1. StarterOK'
    BY StarterStep DEF StartsOK
  <2>2. ThreadTimersHaveAHelper'
    BY <1>5, HelpersKept DEF SemWait, StartsOK
  <2>3. QED
    BY <1>5, <2>1, <2>2, Types DEF SemWait, StartsOK
<1>6. ASSUME NEW t \in Threads, AtFork(t)
      PROVE  StartsOK'
  <2>1. StarterOK'
    BY StarterStep DEF StartsOK
  <2>2. ThreadTimersHaveAHelper'
    BY <1>6, HelpersKept DEF AtFork, StartsOK
  <2>3. QED
    BY <1>6, <2>1, <2>2, Types DEF AtFork, StartsOK
<1>7. ASSUME NEW t \in Threads, Malloc(t)
      PROVE  StartsOK'
  <2>1. StarterOK' /\ once' = once /\ atfork' = atfork /\ helper' = helper
    BY <1>7, StarterStep DEF Malloc, StartsOK
  <2>2. \A u \in Threads : u # t => pc'[u] = pc[u] /\ kind'[u] = kind[u]
    BY <1>7, Types DEF Malloc
  <2>3. pc[t] = "malloc" /\ (pc'[t] = "idle" \/ (pc'[t] = "scan" /\ kind'[t] = kind[t]))
    BY <1>7, Types DEF Malloc
  <2>4. ThreadTimersHaveAHelper'
    <3>1. live' = live /\ allTimers' = allTimers
      BY <1>7 DEF Malloc
    <3>2. CASE heap' = heap
      BY <2>1, <3>1, <3>2, HelpersKept DEF StartsOK
    <3>3. CASE heap' # heap
      <4>1. PICK a \in Addrs : /\ heap[a] = NULL
                               /\ heap' = [heap EXCEPT ![a] = Timer("unset", NULL, created + 1)]
        BY <1>7, <3>3 DEF Malloc
      <4>2. \A id \in live : heap'[allTimers[id]] = heap[allTimers[id]]
        BY <4>1, LiveStructs, Types
      <4>3. QED
        BY <2>1, <3>1, <4>2, HelpersKept DEF StartsOK
    <3>4. QED
      BY <3>2, <3>3
  <2>5. QED
    BY <2>1, <2>2, <2>3, <2>4 DEF StartsOK
<1>8. ASSUME NEW t \in Threads, Scan(t)
      PROVE  StartsOK'
  <2>1. StarterOK' /\ once' = once /\ atfork' = atfork /\ helper' = helper
    BY <1>8, StarterStep DEF Scan, StartsOK
  <2>2. \A u \in Threads : u # t => pc'[u] = pc[u] /\ kind'[u] = kind[u]
    BY <1>8, Types DEF Scan
  <2>3. /\ pc[t] = "scan"
        /\ pc'[t] = "idle" \/ (pc'[t] \in {"scan", "ktimer"} /\ kind'[t] = kind[t])
    BY <1>8, Types DEF Scan
  <2>4. ThreadTimersHaveAHelper'
    <3>1. live' = live /\ heap' = heap
      BY <1>8 DEF Scan
    <3>2. \/ allTimers' = allTimers
          \/ /\ allTimers[idx[t]] = NULL
             /\ allTimers' = [allTimers EXCEPT ![idx[t]] = ptr[t]]
      BY <1>8 DEF Scan
    <3>3. \A id \in live : allTimers'[id] = allTimers[id]
      BY <3>2, LiveStructs, Types
    <3>4. QED
      BY <2>1, <3>1, <3>3, HelpersKept DEF StartsOK
  <2>5. QED
    BY <2>1, <2>2, <2>3, <2>4 DEF StartsOK
<1>9. ASSUME NEW t \in Threads, KtimerCreate(t)
      PROVE  StartsOK'
  <2>1. StarterOK' /\ once' = once /\ atfork' = atfork /\ helper' = helper
    BY <1>9, StarterStep DEF KtimerCreate, StartsOK
  <2>2. \A u \in Threads : u # t => pc'[u] = pc[u] /\ kind'[u] = kind[u]
    BY <1>9, Outcomes, Types DEF MadeThread, MadeSignal, MadeNothing
  <2>3. /\ pc[t] = "ktimer" /\ allTimers' = allTimers /\ ptr[t] \in Addrs
        /\ Slotted(ptr[t])
    BY <1>9, Outcomes, Types DEF IInv, PtrsOK, SlotsOK, Holding, Loose
  <2>4. ASSUME Made(t)
        PROVE  /\ heap'[ptr[t]].notify = kind[t]
               /\ \A id \in live : heap'[allTimers'[id]] = heap[allTimers[id]]
    <3>1. /\ heap'[ptr[t]].notify = kind[t]
          /\ \A b \in Addrs \ {ptr[t]} : heap'[b] = heap[b]
      BY <2>3, <2>4, MadeEffect
    <3>2. QED
      BY <2>3, <3>1, LiveStructs
  <2>5. CASE MadeThread(t)
    <3>1. ThreadTimersHaveAHelper'
      BY <2>1, <2>4, <2>5, HelpersKept DEF MadeThread, StartsOK
    <3>2. kind[t] = "thread" /\ pc'[t] = "lock.push"
      BY <2>5, Types DEF MadeThread
    <3>3. QED
      BY <2>1, <2>2, <2>3, <3>1, <3>2 DEF StartsOK
  <2>6. CASE MadeSignal(t)
    <3>1. PICK new : live' = live \cup {new} /\ allTimers[new] = ptr[t]
      BY <2>3, <2>6, SlotFound DEF MadeSignal
    <3>2. Made(t) /\ kind[t] # "thread" /\ pc'[t] = "idle"
      BY <2>6, Types DEF MadeSignal
    <3>3. ThreadTimersHaveAHelper'
      <4>1. ASSUME NEW id \in live', heap'[allTimers'[id]].notify = "thread"
            PROVE  helper' # "none"
        <5>1. id \in live
          BY <2>3, <2>4, <3>1, <3>2, <4>1
        <5>2. heap[allTimers[id]].notify = "thread"
          BY <2>4, <3>2, <4>1, <5>1
        <5>3. QED
          BY <2>1, <5>1, <5>2 DEF StartsOK, ThreadTimersHaveAHelper
      <4>2. QED
        BY <4>1 DEF ThreadTimersHaveAHelper
    <3>4. QED
      BY <2>1, <2>2, <3>2, <3>3 DEF StartsOK
  <2>7. CASE MadeNothing(t)
    <3>1. ThreadTimersHaveAHelper' /\ pc'[t] = "clear"
      BY <2>1, <2>3, <2>7, HelpersKept, Types DEF MadeNothing, StartsOK
    <3>2. QED
      BY <2>1, <2>2, <3>1 DEF StartsOK
  <2>8. QED
    BY <1>9, <2>5, <2>6, <2>7, Outcomes
<1>10. ASSUME NEW t \in Threads, LockList(t)
      PROVE  StartsOK'
  <2>1. StarterOK'
    BY StarterStep DEF StartsOK
  <2>2. ThreadTimersHaveAHelper'
    BY <1>10, HelpersKept DEF LockList, StartsOK
  <2>3. QED
    BY <1>10, <2>1, <2>2, Types DEF LockList, StartsOK
<1>11. ASSUME NEW t \in Threads, Push(t)
      PROVE  StartsOK'
  <2>1. StarterOK' /\ once' = once /\ atfork' = atfork /\ helper' = helper
    BY <1>11, StarterStep DEF Push, StartsOK
  <2>2. \A u \in Threads : u # t => pc'[u] = pc[u] /\ kind'[u] = kind[u]
    BY <1>11, Types DEF Push
  <2>3. pc'[t] = "idle" /\ helper # "none"
    BY <1>11, Types DEF Push, StartsOK
  <2>4. ThreadTimersHaveAHelper'
    BY <2>1, <2>3 DEF ThreadTimersHaveAHelper
  <2>5. QED
    BY <2>1, <2>2, <2>3, <2>4 DEF StartsOK
<1>12. ASSUME NEW t \in Threads, NEW id \in Ids, DeleteCall(t, id)
      PROVE  StartsOK'
  <2>1. StarterOK'
    BY StarterStep DEF StartsOK
  <2>2. ThreadTimersHaveAHelper'
    BY <1>12, HelpersKept DEF DeleteCall, StartsOK
  <2>3. QED
    BY <1>12, <2>1, <2>2, Types DEF DeleteCall, StartsOK
<1>13. ASSUME NEW t \in Threads, KtimerDelete(t)
      PROVE  StartsOK'
  <2>1. StarterOK'
    BY StarterStep DEF StartsOK
  <2>2. ThreadTimersHaveAHelper'
    BY <1>13, HelpersKept DEF KtimerDelete, StartsOK
  <2>3. QED
    BY <1>13, <2>1, <2>2, Types DEF KtimerDelete, StartsOK, AfterKtimerDelete
<1>14. ASSUME NEW t \in Threads, Unlink(t)
      PROVE  StartsOK'
  <2>1. StarterOK'
    BY StarterStep DEF StartsOK
  <2>2. ThreadTimersHaveAHelper'
    BY <1>14, HelpersKept DEF Unlink, StartsOK
  <2>3. QED
    BY <1>14, <2>1, <2>2, Types DEF Unlink, StartsOK
<1>15. ASSUME NEW t \in Threads, ClearSlot(t)
      PROVE  StartsOK'
  <2>1. StarterOK' /\ once' = once /\ atfork' = atfork /\ helper' = helper
    BY <1>15, StarterStep DEF ClearSlot, StartsOK
  <2>2. \A u \in Threads : u # t => pc'[u] = pc[u] /\ kind'[u] = kind[u]
    BY <1>15, Types DEF ClearSlot
  <2>3. pc'[t] = "free"
    BY <1>15, Types DEF ClearSlot
  <2>4. ThreadTimersHaveAHelper'
    <3>1. /\ live' = live /\ heap' = heap
          /\ allTimers' = [allTimers EXCEPT ![ptr2id(ptr[t])] = NULL]
      BY <1>15 DEF ClearSlot
    <3>2. ptr[t] \in Addrs /\ Slotted(ptr[t])
      BY <1>15, Types DEF ClearSlot, IInv, PtrsOK, SlotsOK, Holding, Loose
    <3>3. \A id \in live : allTimers'[id] = allTimers[id]
      BY <3>1, <3>2, SlotFound, LiveStructs, Types
    <3>4. QED
      BY <2>1, <3>1, <3>3, HelpersKept DEF StartsOK
  <2>5. QED
    BY <2>1, <2>2, <2>3, <2>4 DEF StartsOK
<1>16. ASSUME NEW t \in Threads, Free(t)
      PROVE  StartsOK'
  <2>1. StarterOK' /\ once' = once /\ atfork' = atfork /\ helper' = helper
    BY <1>16, StarterStep DEF Free, StartsOK
  <2>2. \A u \in Threads : u # t => pc'[u] = pc[u] /\ kind'[u] = kind[u]
    BY <1>16, Types DEF Free
  <2>3. pc'[t] = "idle"
    BY <1>16, Types DEF Free
  <2>4. ThreadTimersHaveAHelper'
    <3>1. /\ live' = live /\ allTimers' = allTimers
          /\ heap' = [heap EXCEPT ![ptr[t]] = NULL]
      BY <1>16 DEF Free
    <3>2. \A id \in live : heap'[allTimers[id]] = heap[allTimers[id]]
      BY <3>1, LiveStructs, Types
    <3>3. QED
      BY <2>1, <3>1, <3>2, HelpersKept DEF StartsOK
  <2>5. QED
    BY <2>1, <2>2, <2>3, <2>4 DEF StartsOK
<1>17. ASSUME NEW t \in Threads, NEW id \in Ids, NEW on \in BOOLEAN, SetTime(t, id, on)
      PROVE  StartsOK'
  <2>1. StarterOK'
    BY StarterStep DEF StartsOK
  <2>2. ThreadTimersHaveAHelper'
    BY <1>17, HelpersKept DEF SetTime, StartsOK
  <2>3. QED
    BY <1>17, <2>1, <2>2, Types DEF SetTime, StartsOK
<1>18. ASSUME NEW t \in Threads, NEW id \in Ids, Ask(t, id)
      PROVE  StartsOK'
  <2>1. StarterOK'
    BY StarterStep DEF StartsOK
  <2>2. ThreadTimersHaveAHelper'
    BY <1>18, HelpersKept DEF Ask, StartsOK
  <2>3. QED
    BY <1>18, <2>1, <2>2, Types DEF Ask, StartsOK
<1>19. ASSUME NEW t \in Threads, Fork(t)
      PROVE  StartsOK'
  <2>1. StarterOK' /\ live' = {} /\ \A u \in Threads : pc'[u] \in {"idle", "gone"}
    BY <1>19, StarterStep DEF Fork, StartsOK
  <2>2. once' # "done"
    BY <1>19 DEF Fork, ResetHelperControl, OnceAfterFork, StartsOK
  <2>3. QED
    BY <2>1, <2>2 DEF StartsOK, ThreadTimersHaveAHelper
<1>20. ASSUME NEW k \in Kids, NEW again \in BOOLEAN, Expire(k, again)
      PROVE  StartsOK'
  <2>1. StarterOK'
    BY StarterStep DEF StartsOK
  <2>2. ThreadTimersHaveAHelper'
    BY <1>20, HelpersKept DEF Expire, StartsOK
  <2>3. QED
    BY <1>20, <2>1, <2>2, Types DEF Expire, StartsOK
<1>21. ASSUME HelperAnnounce
      PROVE  StartsOK'
  <2>1. StarterOK'
    BY StarterStep DEF StartsOK
  <2>2. ThreadTimersHaveAHelper'
    BY <1>21, HelpersKept DEF HelperAnnounce, StartsOK
  <2>3. QED
    BY <1>21, <2>1, <2>2, Types DEF HelperAnnounce, StartsOK
<1>22. ASSUME HelperWait
      PROVE  StartsOK'
  <2>1. StarterOK'
    BY StarterStep DEF StartsOK
  <2>2. ThreadTimersHaveAHelper'
    BY <1>22, HelpersKept DEF HelperWait, StartsOK
  <2>3. QED
    BY <1>22, <2>1, <2>2, Types DEF HelperWait, StartsOK
<1>23. ASSUME HelperLock
      PROVE  StartsOK'
  <2>1. StarterOK'
    BY StarterStep DEF StartsOK
  <2>2. ThreadTimersHaveAHelper'
    BY <1>23, HelpersKept DEF HelperLock, StartsOK
  <2>3. QED
    BY <1>23, <2>1, <2>2, Types DEF HelperLock, StartsOK
<1>24. ASSUME HelperRun
      PROVE  StartsOK'
  <2>1. StarterOK'
    BY StarterStep DEF StartsOK
  <2>2. ThreadTimersHaveAHelper'
    BY <1>24, HelpersKept DEF HelperRun, StartsOK
  <2>3. QED
    BY <1>24, <2>1, <2>2, Types DEF HelperRun, StartsOK
<1>25. ASSUME HelperCancelled
      PROVE  StartsOK'
  BY <1>25 DEF HelperCancelled
<1>26. CASE UNCHANGED vars
  BY <1>26, Types DEF StartsOK, StartsOK, StarterOK, ThreadTimersHaveAHelper
<1>27. QED
  BY <1>1, <1>2, <1>3, <1>4, <1>5, <1>6, <1>7, <1>8, <1>9, <1>10, <1>11, <1>12, <1>13,
     <1>14, <1>15, <1>16, <1>17, <1>18, <1>19, <1>20, <1>21, <1>22, <1>23, <1>24, <1>25,
     <1>26 DEF Next, Call, Continue, HelperStep

(* In the child of a fork too, whoever holds a thread timer has a helper, if *)
(* threads can be created and nobody cancels the helper.                     *)
THEOREM ThreadTimersAreServed ==
  ASSUME "thread" \notin Faults, "cancel" \notin Faults
  PROVE  Spec => []ThreadTimersHaveAHelper
<1>1. Init => StartsOK
  BY DEF Init, StartsOK, StarterOK, Starting, ThreadTimersHaveAHelper
<1>2. IInv /\ StartsOK /\ [Next]_vars => StartsOK'
  BY StartsStep
<1>3. StartsOK => ThreadTimersHaveAHelper
  BY DEF StartsOK
<1>4. QED
  BY <1>1, <1>2, <1>3, Invariance, PTL DEF Spec

-----------------------------------------------------------------------------
(* A kernel has all of the calls or none.                                    *)
MissingOK ==
  /\ "ktimer" \notin calls => \A k \in Kids : ktimer[k] = NULL
  /\ noPosix = -1 => "ktimer" \notin calls

(* On such a kernel, steps keep MissingOK. *)
LEMMA MissingStep ==
  ASSUME IInv, \A K \in Kernels : "clock_getres" \in K <=> "ktimer" \in K, MissingOK, [Next]_vars
  PROVE  MissingOK'
<1>1. ASSUME NEW t \in Threads, NEW k \in Kinds, CreateCall(t, k)
      PROVE  MissingOK'
  BY <1>1 DEF CreateCall, MissingOK
<1>2. ASSUME NEW t \in Threads, Probe(t)
      PROVE  MissingOK'
  BY <1>2 DEF Probe, Probed, MissingOK, IInv, TypeOK
<1>3. ASSUME NEW t \in Threads, Once(t)
      PROVE  MissingOK'
  BY <1>3 DEF Once, MissingOK
<1>4. ASSUME NEW t \in Threads, StartHelper(t)
      PROVE  MissingOK'
  BY <1>4 DEF StartHelper, MissingOK
<1>5. ASSUME NEW t \in Threads, SemWait(t)
      PROVE  MissingOK'
  BY <1>5 DEF SemWait, MissingOK
<1>6. ASSUME NEW t \in Threads, AtFork(t)
      PROVE  MissingOK'
  BY <1>6 DEF AtFork, MissingOK
<1>7. ASSUME NEW t \in Threads, Malloc(t)
      PROVE  MissingOK'
  BY <1>7 DEF Malloc, MissingOK
<1>8. ASSUME NEW t \in Threads, Scan(t)
      PROVE  MissingOK'
  BY <1>8 DEF Scan, MissingOK
<1>9. ASSUME NEW t \in Threads, KtimerCreate(t)
      PROVE  MissingOK'
  <2>1. "ktimer" \notin calls => ktimer' = ktimer
    BY <1>9 DEF KtimerCreate
  <2>2. calls' = calls /\ noPosix' \in {noPosix, 1}
    BY <1>9 DEF KtimerCreate
  <2>3. QED
    BY <2>1, <2>2 DEF MissingOK
<1>10. ASSUME NEW t \in Threads, LockList(t)
      PROVE  MissingOK'
  BY <1>10 DEF LockList, MissingOK
<1>11. ASSUME NEW t \in Threads, Push(t)
      PROVE  MissingOK'
  BY <1>11 DEF Push, MissingOK
<1>12. ASSUME NEW t \in Threads, NEW id \in Ids, DeleteCall(t, id)
      PROVE  MissingOK'
  BY <1>12 DEF DeleteCall, MissingOK
<1>13. ASSUME NEW t \in Threads, KtimerDelete(t)
      PROVE  MissingOK'
  <2>1. noPosix' = 1 /\ calls' = calls /\ \A l \in Kids : ktimer'[l] \in {ktimer[l], NULL}
    BY <1>13, Types DEF KtimerDelete, Forgotten
  <2>2. QED
    BY <2>1 DEF MissingOK
<1>14. ASSUME NEW t \in Threads, Unlink(t)
      PROVE  MissingOK'
  BY <1>14 DEF Unlink, MissingOK
<1>15. ASSUME NEW t \in Threads, ClearSlot(t)
      PROVE  MissingOK'
  BY <1>15 DEF ClearSlot, MissingOK
<1>16. ASSUME NEW t \in Threads, Free(t)
      PROVE  MissingOK'
  <2>1. ktimer' = ktimer /\ calls' = calls /\ (noPosix' = noPosix \/ "ktimer" \notin calls)
    BY <1>16 DEF Free
  <2>2. QED
    BY <2>1 DEF MissingOK
<1>17. ASSUME NEW t \in Threads, NEW id \in Ids, NEW on \in BOOLEAN, SetTime(t, id, on)
      PROVE  MissingOK'
  <2>1. \A l \in Kids : ktimer'[l] # NULL <=> ktimer[l] # NULL
    BY <1>17, LiveChain, ArmEffect DEF SetTime
  <2>2. noPosix' = 1 /\ calls' = calls
    BY <1>17 DEF SetTime
  <2>3. QED
    BY <2>1, <2>2 DEF MissingOK
<1>18. ASSUME NEW t \in Threads, NEW id \in Ids, Ask(t, id)
      PROVE  MissingOK'
  BY <1>18 DEF Ask, MissingOK
<1>19. ASSUME NEW t \in Threads, Fork(t)
      PROVE  MissingOK'
  BY <1>19 DEF Fork, MissingOK
<1>20. ASSUME NEW k \in Kids, NEW again \in BOOLEAN, Expire(k, again)
      PROVE  MissingOK'
  <2>1. \A l \in Kids : ktimer'[l] # NULL <=> ktimer[l] # NULL
    BY <1>20, ArmEffect DEF Expire
  <2>2. noPosix' = noPosix /\ calls' = calls
    BY <1>20 DEF Expire
  <2>3. QED
    BY <2>1, <2>2 DEF MissingOK
<1>21. ASSUME HelperAnnounce
      PROVE  MissingOK'
  BY <1>21 DEF HelperAnnounce, MissingOK
<1>22. ASSUME HelperWait
      PROVE  MissingOK'
  BY <1>22 DEF HelperWait, MissingOK
<1>23. ASSUME HelperLock
      PROVE  MissingOK'
  BY <1>23 DEF HelperLock, MissingOK
<1>24. ASSUME HelperRun
      PROVE  MissingOK'
  BY <1>24 DEF HelperRun, MissingOK
<1>25. ASSUME HelperCancelled
      PROVE  MissingOK'
  BY <1>25 DEF HelperCancelled, MissingOK
<1>26. CASE UNCHANGED vars
  BY <1>26 DEF MissingOK, MissingOK
<1>27. QED
  BY <1>1, <1>2, <1>3, <1>4, <1>5, <1>6, <1>7, <1>8, <1>9, <1>10, <1>11, <1>12, <1>13,
     <1>14, <1>15, <1>16, <1>17, <1>18, <1>19, <1>20, <1>21, <1>22, <1>23, <1>24, <1>25,
     <1>26 DEF Next, Call, Continue, HelperStep

(* On a kernel that has all of the calls or none, the generic code is never  *)
(* left once it has been chosen.                                             *)
THEOREM MissingCallsStayMissing ==
  ASSUME \A K \in Kernels : "clock_getres" \in K <=> "ktimer" \in K
  PROVE  Spec => MissingCallsAreNotRetried
<1>1. Init => MissingOK
  BY DEF Init, MissingOK
<1>2. IInv /\ MissingOK /\ [Next]_vars => MissingOK'
  BY MissingStep
<1>3. ASSUME IInv, MissingOK, [Next]_vars, noPosix = -1
      PROVE  noPosix' = -1
  <2>1. ASSUME NEW t \in Threads, Probe(t)
        PROVE  noPosix' = -1
    BY <1>3, <2>1 DEF Probe, Probed, MissingOK, IInv, TypeOK
  <2>2. ASSUME NEW t \in Threads, KtimerCreate(t)
        PROVE  noPosix' = -1
    BY <1>3, <2>2 DEF KtimerCreate, MissingOK
  <2>3. ASSUME NEW t \in Threads, KtimerDelete(t)
        PROVE  FALSE
    <3>1. pc[t] = "ktimerDelete" /\ Chained(ptr[t])
      BY <1>3, <2>3 DEF KtimerDelete, IInv, KernelOK
    <3>2. QED
      BY <1>3, <3>1 DEF Chained, MissingOK
  <2>4. ASSUME NEW t \in Threads, Free(t)
        PROVE  noPosix' = -1
    BY <1>3, <2>4 DEF Free
  <2>5. ASSUME NEW t \in Threads, NEW k \in Kinds, CreateCall(t, k)
        PROVE  noPosix' = -1
    BY <1>3, <2>5 DEF CreateCall
  <2>6. ASSUME NEW t \in Threads, Once(t)
        PROVE  noPosix' = -1
    BY <1>3, <2>6 DEF Once
  <2>7. ASSUME NEW t \in Threads, StartHelper(t)
        PROVE  noPosix' = -1
    BY <1>3, <2>7 DEF StartHelper
  <2>8. ASSUME NEW t \in Threads, SemWait(t)
        PROVE  noPosix' = -1
    BY <1>3, <2>8 DEF SemWait
  <2>9. ASSUME NEW t \in Threads, AtFork(t)
        PROVE  noPosix' = -1
    BY <1>3, <2>9 DEF AtFork
  <2>10. ASSUME NEW t \in Threads, Malloc(t)
        PROVE  noPosix' = -1
    BY <1>3, <2>10 DEF Malloc
  <2>11. ASSUME NEW t \in Threads, Scan(t)
        PROVE  noPosix' = -1
    BY <1>3, <2>11 DEF Scan
  <2>12. ASSUME NEW t \in Threads, LockList(t)
        PROVE  noPosix' = -1
    BY <1>3, <2>12 DEF LockList
  <2>13. ASSUME NEW t \in Threads, Push(t)
        PROVE  noPosix' = -1
    BY <1>3, <2>13 DEF Push
  <2>14. ASSUME NEW t \in Threads, NEW id \in Ids, DeleteCall(t, id)
        PROVE  noPosix' = -1
    BY <1>3, <2>14 DEF DeleteCall
  <2>15. ASSUME NEW t \in Threads, Unlink(t)
        PROVE  noPosix' = -1
    BY <1>3, <2>15 DEF Unlink
  <2>16. ASSUME NEW t \in Threads, ClearSlot(t)
        PROVE  noPosix' = -1
    BY <1>3, <2>16 DEF ClearSlot
  <2>17. ASSUME NEW t \in Threads, NEW id \in Ids, NEW on \in BOOLEAN, SetTime(t, id, on)
        PROVE  noPosix' = -1
    BY <1>3, <2>17 DEF SetTime
  <2>18. ASSUME NEW t \in Threads, NEW id \in Ids, Ask(t, id)
        PROVE  noPosix' = -1
    BY <1>3, <2>18 DEF Ask
  <2>19. ASSUME NEW t \in Threads, Fork(t)
        PROVE  noPosix' = -1
    BY <1>3, <2>19 DEF Fork
  <2>20. ASSUME NEW k \in Kids, NEW again \in BOOLEAN, Expire(k, again)
        PROVE  noPosix' = -1
    BY <1>3, <2>20 DEF Expire
  <2>21. ASSUME HelperAnnounce
        PROVE  noPosix' = -1
    BY <1>3, <2>21 DEF HelperAnnounce
  <2>22. ASSUME HelperWait
        PROVE  noPosix' = -1
    BY <1>3, <2>22 DEF HelperWait
  <2>23. ASSUME HelperLock
        PROVE  noPosix' = -1
    BY <1>3, <2>23 DEF HelperLock
  <2>24. ASSUME HelperRun
        PROVE  noPosix' = -1
    BY <1>3, <2>24 DEF HelperRun
  <2>25. ASSUME HelperCancelled
        PROVE  noPosix' = -1
    BY <1>3, <2>25 DEF HelperCancelled
  <2>26. CASE UNCHANGED vars
    BY <1>3, <2>26
  <2>27. QED
    BY <1>3, <2>1, <2>2, <2>3, <2>4, <2>5, <2>6, <2>7, <2>8, <2>9, <2>10, <2>11,
       <2>12, <2>13, <2>14, <2>15, <2>16, <2>17, <2>18, <2>19, <2>20, <2>21, <2>22,
       <2>23, <2>24, <2>25, <2>26 DEF Next, Call, Continue, HelperStep
<1>4. QED
  BY <1>1, <1>2, <1>3, Invariance, PTL DEF Spec, MissingCallsAreNotRetried

-----------------------------------------------------------------------------
(* The refinement of TimerService.  A struct nobody will free is still on    *)
(* the list after a fork: that the helper never takes its signal is not in   *)
(* IInv, nor that a timer which has no id yet cannot have been set.          *)
Signalled(a) == \/ Named(a)
                \/ \E i \in 1 .. Len(pending) : pending[i].addr = a
                \/ si # NULL /\ si.addr = a

SilentOK == \A a \in Addrs : Listed(a) /\ Abandoned(a) => ~Signalled(a)

FreshOK == \A t \in Threads :
             pc[t] \in {"lock.push", "push"} => ~ktimer[heap[ptr[t]].ktimerid].armed

Mapped == <<Shown, Leaving, Gone, ran>>

(* No thread takes or gives up a struct, dies, or has made a timer. *)
Steady == \A u \in Threads :
            /\ ptr'[u] = ptr[u] /\ (pc'[u] = "gone" <=> pc[u] = "gone")
            /\ pc'[u] \in {"lock.push", "push"} => pc[u] \in {"lock.push", "push"}

USE DEF Steady

(* What a step of PosixTimers has to be, seen from TimerService. *)
Faithful == (Service!Next \/ UNCHANGED Mapped) /\ SilentOK' /\ FreshOK'

(* Membership in the sets of functions, said with addresses. *)
LEMMA InLeaving ==
  \A f : f \in Leaving <=> \E a \in Addrs : Listed(a) /\ Held(a) /\ heap[a].fn = f
BY DEF Leaving

(* The functions that are gone: freed, or left where no id leads. *)
LEMMA InGone ==
  \A f : f \in Gone <=> f \in deleted \/ \E a \in Addrs : Abandoned(a) /\ heap[a].fn = f
BY DEF Gone

(* The timers the application is shown, one id at a time. *)
LEMMA ShownAt ==
  /\ DOMAIN Shown = live
  /\ \A id \in live : /\ Shown[id].kind = heap[allTimers[id]].notify
                      /\ Shown[id].fn = heap[allTimers[id]].fn
                      /\ Shown[id].armed = ktimer[heap[allTimers[id]].ktimerid].armed
BY DEF Shown

(* The same of the functions: those of the timers shown. *)
LEMMA InFunctions ==
  \A ks, f : f \in Service!Functions(ks) <=>
    \E id \in live : /\ heap[allTimers[id]].notify \in ks
                     /\ heap[allTimers[id]].fn = f
BY ShownAt DEF Service!Functions, Service!Named

(* An id that leads to the same struct and kernel timer shows the same.      *)
LEMMA StaysShown ==
  ASSUME NEW id, id \in live, id \in live', NEW a, a = allTimers[id], allTimers'[id] = a,
         NEW k, k = heap[a].ktimerid, heap'[a].ktimerid = k,
         heap'[a].notify = heap[a].notify, heap'[a].fn = heap[a].fn,
         ktimer'[k].armed = ktimer[k].armed
  PROVE  Shown'[id] = Shown[id]
BY DEF Shown

(* All ids show the same if each does. *)
LEMMA ShownKept ==
  ASSUME live' = live, \A id \in live : Shown'[id] = Shown[id]
  PROVE  Shown' = Shown
BY DEF Shown

(* A struct belongs to one id or one call, if it is not abandoned.           *)
LEMMA LiveNotHeld ==
  ASSUME IInv, NEW id \in live
  PROVE  /\ id \in Ids /\ allTimers[id] \in Addrs /\ heap[allTimers[id]] # NULL
         /\ heap[allTimers[id]].ktimerid \in Kids
         /\ ktimer[heap[allTimers[id]].ktimerid] # NULL
         /\ ktimer[heap[allTimers[id]].ktimerid].addr = allTimers[id]
         /\ heap[allTimers[id]].notify = "thread" <=> Listed(allTimers[id])
         /\ \A t \in Threads : ptr[t] # allTimers[id]
         /\ ~Held(allTimers[id])
<1>1. id \in Ids /\ Reaches(id)
  BY Types, Reaching DEF IInv
<1>2. QED
  BY <1>1, LiveChain DEF Reaches, Held

(* A call under way has its struct for itself. *)
LEMMA HoldsOne ==
  ASSUME IInv, NEW t \in Threads, pc[t] \in Holding
  PROVE  /\ ptr[t] \in Addrs /\ heap[ptr[t]] # NULL /\ Held(ptr[t])
         /\ \A id \in live : allTimers[id] # ptr[t]
         /\ \A u \in Threads : u # t => ptr[u] # ptr[t]
         /\ ~Abandoned(ptr[t])
<1>1. ptr[t] \in Addrs /\ heap[ptr[t]] # NULL /\ \A u \in Threads : u # t => ptr[u] # ptr[t]
  BY Types DEF IInv, PtrsOK
<1>2. pc[t] # "gone"
  BY DEF Holding, Loose
<1>3. QED
  BY <1>1, <1>2, LiveNotHeld DEF Held, Abandoned

(* How steps change who holds a struct. *)
LEMMA HeldKept ==
  ASSUME \A u \in Threads : ptr'[u] = ptr[u] /\ (pc'[u] = "gone" <=> pc[u] = "gone")
  PROVE  \A a \in Addrs : Held(a)' <=> Held(a)
BY DEF Held

(* A call that returns holds nothing. *)
LEMMA HeldDropped ==
  ASSUME IInv, NEW t \in Threads, pc[t] # "gone", ptr' = [ptr EXCEPT ![t] = NULL],
         NEW l, l # "gone", pc' = [pc EXCEPT ![t] = l]
  PROVE  \A a \in Addrs : Held(a)' <=> Held(a) /\ a # ptr[t]
<1>1. /\ \A u \in Threads : u # t => ptr'[u] = ptr[u] /\ pc'[u] = pc[u]
      /\ ptr'[t] = NULL /\ \A a \in Addrs : a # NULL
  BY Types
<1>2. \A u \in Threads : ptr[u] = ptr[t] /\ ptr[t] # NULL => u = t
  BY DEF IInv, PtrsOK
<1>3. QED
  BY <1>1, <1>2 DEF Held

(* A call that has a struct now. *)
LEMMA HeldTaken ==
  ASSUME IInv, NEW t \in Threads, pc[t] # "gone", ptr[t] = NULL, NEW b \in Addrs,
         ptr' = [ptr EXCEPT ![t] = b], NEW l, l # "gone", pc' = [pc EXCEPT ![t] = l]
  PROVE  \A a \in Addrs : Held(a)' <=> Held(a) \/ a = b
<1>1. /\ \A u \in Threads : u # t => ptr'[u] = ptr[u] /\ pc'[u] = pc[u]
      /\ ptr'[t] = b /\ pc'[t] # "gone" /\ \A a \in Addrs : a # NULL
  BY Types
<1>2. QED
  BY <1>1 DEF Held

(* Steps that change no struct's owner, place on the list or function.       *)
LEMMA SetsKept ==
  ASSUME deleted' = deleted, live' = live,
         \A id \in live : allTimers'[id] = allTimers[id],
         \A a \in Addrs : /\ Listed(a)' <=> Listed(a)
                          /\ Held(a)' <=> Held(a)
                          /\ heap'[a] = NULL <=> heap[a] = NULL
                          /\ heap'[a].fn = heap[a].fn
  PROVE  /\ Leaving' = Leaving /\ Gone' = Gone
         /\ \A a \in Addrs : Abandoned(a)' <=> Abandoned(a)
<1>1. \A a \in Addrs : Abandoned(a)' <=> Abandoned(a)
  BY DEF Abandoned
<1>2. \A f : f \in Leaving' <=> f \in Leaving
  BY DEF Leaving
<1>3. \A f : f \in Gone' <=> f \in Gone
  BY <1>1 DEF Gone
<1>4. QED
  BY <1>1, <1>2, <1>3

(* No signal for an abandoned struct on the list comes from nowhere. *)
LEMMA SilentFrom ==
  ASSUME SilentOK,
         \A a \in Addrs : Listed(a)' /\ Abandoned(a)' /\ Signalled(a)'
                            => Listed(a) /\ Abandoned(a) /\ Signalled(a)
  PROVE  SilentOK'
BY DEF SilentOK

(* Steps the application does not see. *)
LEMMA Unseen ==
  ASSUME IInv, SilentOK, FreshOK,
         live' = live, allTimers' = allTimers, heap' = heap, ktimer' = ktimer,
         active' = active, deleted' = deleted,
         Steady,
         \A a \in Addrs : Signalled(a)' => Signalled(a)
  PROVE  /\ Shown' = Shown /\ Leaving' = Leaving /\ Gone' = Gone
         /\ SilentOK' /\ FreshOK'
<1>1. \A a \in Addrs : Held(a)' <=> Held(a)
  BY HeldKept
<1>2. \A a \in Addrs : Listed(a)' <=> Listed(a)
  BY DEF Listed
<1>3. Leaving' = Leaving /\ Gone' = Gone /\ \A a \in Addrs : Abandoned(a)' <=> Abandoned(a)
  BY <1>1, <1>2, SetsKept
<1>4. Shown' = Shown
  BY DEF Shown
<1>5. SilentOK'
  BY <1>2, <1>3, SilentFrom
<1>6. FreshOK'
  BY DEF FreshOK
<1>7. QED
  BY <1>3, <1>4, <1>5, <1>6

(* The same, if the signals stay as they are too. *)
LEMMA Quiet ==
  ASSUME IInv, SilentOK, FreshOK,
         live' = live, allTimers' = allTimers, heap' = heap, ktimer' = ktimer,
         active' = active, deleted' = deleted, pending' = pending, si' = si, ran' = ran,
         Steady
  PROVE  Faithful
<1>1. \A a \in Addrs : Signalled(a)' => Signalled(a)
  BY DEF Signalled, Named
<1>2. QED
  BY <1>1, Unseen DEF Faithful, Mapped

(* LiveChain after a step, as the provers need it. *)
LEMMA LiveChainNext ==
  ASSUME IInv', NEW id \in Ids, id \in live'
  PROVE  (heap[allTimers[id]].ktimerid \in Kids /\ ktimer[heap[allTimers[id]].ktimerid] # NULL)'
<1>1. /\ (LiveTimersReachTheirKernelTimer)'
      /\ allTimers' \in [Ids -> Addrs \cup {NULL}] /\ heap' \in [Addrs -> TimerRecords \cup {NULL}]
  BY DEF IInv, TypeOK
<1>2. /\ allTimers'[id] # NULL /\ heap'[allTimers'[id]] # NULL
      /\ heap'[allTimers'[id]].ktimerid # NULL /\ ktimer'[heap'[allTimers'[id]].ktimerid] # NULL
  BY <1>1 DEF LiveTimersReachTheirKernelTimer
<1>3. heap'[allTimers'[id]] \in TimerRecords
  BY <1>1, <1>2
<1>4. QED
  BY <1>2, <1>3 DEF TimerRecords

(* A struct gets an id: what the application then has is new, and as it was  *)
(* asked for.  Another struct keeps what it is.                              *)
LEMMA BecomesLive ==
  ASSUME IInv, IInv', SilentOK, FreshOK,
         NEW t \in Threads, pc[t] \in {"ktimer", "push"},
         pc' = [pc EXCEPT ![t] = "idle"], ptr' = [ptr EXCEPT ![t] = NULL],
         NEW a \in Addrs, a = ptr[t], NEW id \in Ids, allTimers[id] = a,
         live' = live \cup {id}, allTimers' = allTimers,
         deleted' = deleted, ran' = ran, pending' = pending, si' = si,
         heap'[a] # NULL, heap'[a].fn = heap[a].fn, heap'[a].notify \in Kinds,
         ~ktimer'[heap'[a].ktimerid].armed,
         \A b \in Addrs \ {a} : heap'[b] = heap[b],
         \A k \in Kids : ktimer[k] # NULL => ktimer'[k] = ktimer[k],
         \A k \in Kids : ktimer[k] = NULL /\ ktimer'[k] # NULL => ktimer'[k].addr = a,
         \A b \in Addrs \ {a} : Listed(b)' <=> Listed(b)
  PROVE  Faithful
<1>1. /\ heap[a] # NULL /\ Held(a) /\ ~Abandoned(a) /\ ~Listed(a)
      /\ \A j \in live : allTimers[j] # a
      /\ \A u \in Threads : u # t => ptr[u] # a
  BY HoldsOne DEF Holding, Loose, IInv, ListOK
<1>2. id \notin live /\ id \in live' /\ heap'[a].fn \in Fns
  <2>1. heap' \in [Addrs -> TimerRecords \cup {NULL}]
    BY DEF IInv, TypeOK
  <2>2. heap'[a] \in TimerRecords
    BY <2>1
  <2>3. QED
    BY <1>1, <2>2 DEF TimerRecords
<1>3. ~Held(a)' /\ \A b \in Addrs \ {a} : Held(b)' <=> Held(b)
  BY HeldDropped
<1>4. ~Abandoned(a)' /\ \A b \in Addrs \ {a} : Abandoned(b)' <=> Abandoned(b)
  BY <1>1, <1>2, <1>3 DEF Abandoned
<1>5. Leaving' = Leaving
  <2>1. \A f : f \in Leaving' <=> f \in Leaving
    BY <1>1, <1>3 DEF Leaving
  <2>2. QED
    BY <2>1
<1>6. Gone' = Gone
  <2>1. \A f : f \in Gone' <=> f \in Gone
    BY <1>1, <1>4 DEF Gone
  <2>2. QED
    BY <2>1
<1>7. ASSUME NEW j \in live
      PROVE  Shown'[j] = Shown[j]
  <2>1. /\ j \in live' /\ allTimers[j] \in Addrs \ {a}
        /\ heap[allTimers[j]].ktimerid \in Kids /\ ktimer[heap[allTimers[j]].ktimerid] # NULL
    BY <1>1, LiveNotHeld
  <2>2. QED
    BY <2>1, StaysShown
<1>8. Shown'[id] \in Service!Timers /\ Shown'[id].fn = heap[a].fn /\ ~Shown'[id].armed
  <2>1. Shown'[id] = [kind |-> heap'[a].notify, fn |-> heap'[a].fn,
                      armed |-> ktimer'[heap'[a].ktimerid].armed]
    BY <1>2 DEF Shown
  <2>2. ktimer'[heap'[a].ktimerid].armed \in BOOLEAN
    <3>1. id \in Ids /\ id \in live' /\ IInv'
      BY <1>2
    <3>2. /\ heap'[a].ktimerid \in Kids /\ ktimer'[heap'[a].ktimerid] # NULL
          /\ ktimer' \in [Kids -> KTimerRecords \cup {NULL}]
      <4>1. (heap[allTimers[id]].ktimerid \in Kids /\ ktimer[heap[allTimers[id]].ktimerid] # NULL)'
        BY <3>1, LiveChainNext
      <4>2. QED
        BY <4>1 DEF IInv, TypeOK
    <3>3. ktimer'[heap'[a].ktimerid] \in KTimerRecords
      BY <3>2
    <3>4. QED
      BY <3>3 DEF KTimerRecords
  <2>3. QED
    BY <1>2, <2>1, <2>2 DEF Service!Timers, Service!Kinds, Kinds, Fns
<1>9. heap[a].fn \notin Service!Functions(Service!Kinds) \cup Leaving \cup Gone
  <2>1. \A b \in Addrs : heap[b] # NULL /\ b # a => heap[b].fn # heap[a].fn
    BY <1>1 DEF IInv, FnsOK
  <2>2. heap[a].fn \notin deleted
    BY <1>1 DEF IInv, FnsOK
  <2>3. heap[a].fn \notin Service!Functions(Service!Kinds)
    BY <1>1, <2>1, InFunctions, LiveNotHeld
  <2>4. heap[a].fn \notin Leaving
    <3>1. \A b \in Addrs : Listed(b) => heap[b] # NULL /\ b # a
      BY <1>1, OnList
    <3>2. QED
      BY <2>1, <3>1, InLeaving
  <2>5. heap[a].fn \notin Gone
    <3>1. \A b \in Addrs : Abandoned(b) => heap[b] # NULL /\ b # a
      BY <1>1 DEF Abandoned
    <3>2. QED
      BY <2>1, <2>2, <3>1, InGone
  <2>6. QED
    BY <2>3, <2>4, <2>5
<1>10. Service!Create(id)
  BY <1>2, <1>5, <1>6, <1>7, <1>8, <1>9, ShownAt DEF Service!Create, Service!OthersStay, Shown
<1>11. SilentOK'
  <2>1. ASSUME NEW b \in Addrs, Listed(b)', Abandoned(b)', Signalled(b)'
        PROVE  Listed(b) /\ Abandoned(b) /\ Signalled(b)
    <3>1. b # a /\ Listed(b) /\ Abandoned(b)
      BY <1>4, <2>1
    <3>2. Named(b)' => Named(b)
      BY <3>1 DEF Named
    <3>3. QED
      BY <2>1, <3>1, <3>2 DEF Signalled
  <2>2. QED
    BY <2>1, SilentFrom
<1>12. FreshOK'
  <2>1. ASSUME NEW u \in Threads, pc'[u] \in {"lock.push", "push"}
        PROVE  ~ktimer'[heap'[ptr'[u]].ktimerid].armed
    <3>1. u # t /\ pc[u] = pc'[u] /\ ptr'[u] = ptr[u]
      BY <2>1, Types
    <3>2. /\ ptr[u] \in Addrs \ {a} /\ heap[ptr[u]].ktimerid \in Kids
          /\ ktimer[heap[ptr[u]].ktimerid] # NULL
      BY <1>1, <2>1, <3>1, HoldsOne DEF Holding, IInv, KernelOK, Chained
    <3>3. QED
      BY <2>1, <3>1, <3>2 DEF FreshOK
  <2>2. QED
    BY <2>1 DEF FreshOK
<1>13. QED
  BY <1>10, <1>11, <1>12 DEF Faithful, Service!Next

(* A thread gives up its struct, to free or, when the table is full, to      *)
(* nobody: the function is gone either way.                                  *)
LEMMA GivenUp ==
  ASSUME IInv, SilentOK, FreshOK, NEW t \in Threads, pc[t] \in Loose,
         pc' = [pc EXCEPT ![t] = "idle"], ptr' = [ptr EXCEPT ![t] = NULL],
         NEW a \in Addrs, a = ptr[t], live' = live,
         \A id \in live : allTimers'[id] = allTimers[id],
         active' = active, ktimer' = ktimer, pending' = pending, si' = si, ran' = ran,
         \A b \in Addrs \ {a} : heap'[b] = heap[b],
         \/ heap' = heap /\ deleted' = deleted
         \/ heap'[a] = NULL /\ deleted' = deleted \cup {heap[a].fn}
  PROVE  Faithful
<1>1. /\ heap[a] # NULL /\ Held(a) /\ ~Abandoned(a) /\ ~Listed(a)
      /\ \A j \in live : allTimers[j] # a
      /\ \A u \in Threads : u # t => ptr[u] # a
  BY HoldsOne DEF Holding, Loose, IInv, ListOK
<1>2. ~Held(a)' /\ \A b \in Addrs \ {a} : Held(b)' <=> Held(b)
  BY HeldDropped DEF Loose
<1>3. \A b \in Addrs : Listed(b)' <=> Listed(b)
  BY DEF Listed
<1>4. \A b \in Addrs \ {a} : Abandoned(b)' <=> Abandoned(b)
  BY <1>2 DEF Abandoned
<1>5. Leaving' = Leaving
  <2>1. \A f : f \in Leaving' <=> f \in Leaving
    BY <1>1, <1>2, <1>3 DEF Leaving
  <2>2. QED
    BY <2>1
<1>6. Gone' = Gone \cup {heap[a].fn}
  <2>1. CASE heap' = heap /\ deleted' = deleted
    <3>1. Abandoned(a)'
      BY <1>1, <1>2, <2>1 DEF Abandoned
    <3>2. \A f : f \in Gone' <=> f \in Gone \/ f = heap[a].fn
      BY <1>1, <1>4, <2>1, <3>1 DEF Gone
    <3>3. QED
      BY <3>2
  <2>2. CASE heap'[a] = NULL /\ deleted' = deleted \cup {heap[a].fn}
    <3>1. ~Abandoned(a)'
      BY <2>2 DEF Abandoned
    <3>2. \A f : f \in Gone' <=> f \in Gone \/ f = heap[a].fn
      BY <1>1, <1>4, <2>2, <3>1 DEF Gone
    <3>3. QED
      BY <3>2
  <2>3. QED
    BY <2>1, <2>2
<1>7. Shown' = Shown
  <2>1. ASSUME NEW j \in live
        PROVE  Shown'[j] = Shown[j]
    <3>1. j \in live' /\ allTimers[j] \in Addrs \ {a}
      BY <1>1, LiveNotHeld
    <3>2. QED
      BY <3>1, StaysShown
  <2>2. QED
    BY <2>1, ShownKept
<1>8. heap[a].fn \notin Service!Functions(Service!Kinds) \cup Leaving
  <2>1. \A b \in Addrs : heap[b] # NULL /\ b # a => heap[b].fn # heap[a].fn
    BY <1>1 DEF IInv, FnsOK
  <2>2. heap[a].fn \notin Service!Functions(Service!Kinds)
    BY <1>1, <2>1, InFunctions, LiveNotHeld
  <2>3. \A b \in Addrs : Listed(b) => heap[b] # NULL /\ b # a
    BY <1>1, OnList
  <2>4. QED
    BY <2>1, <2>2, <2>3, InLeaving
<1>9. Service!Retire
  BY <1>5, <1>6, <1>7, <1>8 DEF Service!Retire
<1>10. SilentOK'
  <2>1. ASSUME NEW b \in Addrs, Listed(b)', Abandoned(b)', Signalled(b)'
        PROVE  Listed(b) /\ Abandoned(b) /\ Signalled(b)
    BY <1>1, <1>3, <1>4, <2>1 DEF Signalled, Named
  <2>2. QED
    BY <2>1, SilentFrom
<1>11. FreshOK'
  <2>1. ASSUME NEW u \in Threads, pc'[u] \in {"lock.push", "push"}
        PROVE  ~ktimer'[heap'[ptr'[u]].ktimerid].armed
    <3>1. u # t /\ pc[u] = pc'[u] /\ ptr'[u] = ptr[u]
      BY <2>1, Types
    <3>2. ptr[u] \in Addrs \ {a}
      BY <1>1, <2>1, <3>1, HoldsOne DEF Holding
    <3>3. QED
      BY <2>1, <3>1, <3>2 DEF FreshOK
  <2>2. QED
    BY <2>1 DEF FreshOK
<1>12. QED
  BY <1>9, <1>10, <1>11 DEF Faithful, Service!Next

(* Setting a timer and its expiry change the one kernel timer, and what the  *)
(* application sees of the one id.                                           *)
LEMMA Armed ==
  ASSUME IInv, SilentOK, FreshOK, NEW k \in Kids, ktimer[k] # NULL, NEW on \in BOOLEAN,
         ktimer' = [ktimer EXCEPT ![k] =
                      KTimer(ktimer[k].addr, ktimer[k].notify, ktimer[k].fn, on)],
         ktimer[k].armed \/ \E id \in live : heap[allTimers[id]].ktimerid = k,
         live' = live, allTimers' = allTimers, heap' = heap, active' = active,
         deleted' = deleted, ran' = ran, si' = si, ptr' = ptr, pc' = pc,
         \A a \in Addrs : Signalled(a)' => Signalled(a)
  PROVE  Faithful
<1>1. /\ ktimer'[k].armed = on /\ ktimer'[k].addr = ktimer[k].addr
      /\ \A l \in Kids \ {k} : ktimer'[l] = ktimer[l]
  <2>1. ktimer \in [Kids -> KTimerRecords \cup {NULL}]
    BY DEF IInv, TypeOK
  <2>2. ktimer'[k] = KTimer(ktimer[k].addr, ktimer[k].notify, ktimer[k].fn, on)
    BY <2>1
  <2>3. QED
    BY <2>1, <2>2 DEF KTimer
<1>2. \A a \in Addrs : (Held(a)' <=> Held(a)) /\ (Listed(a)' <=> Listed(a))
  BY DEF Held, Listed
<1>3. /\ Leaving' = Leaving /\ Gone' = Gone
      /\ \A a \in Addrs : Abandoned(a)' <=> Abandoned(a)
  BY <1>2, SetsKept
<1>4. Service!Next \/ UNCHANGED Mapped
  <2>1. CASE \E id \in live : heap[allTimers[id]].ktimerid = k
    <3>1. PICK id \in live : heap[allTimers[id]].ktimerid = k
      BY <2>1
    <3>2. ASSUME NEW j \in live, j # id
          PROVE  Shown'[j] = Shown[j]
      <4>1. /\ j \in Ids /\ id \in Ids /\ j \in live'
            /\ heap[allTimers[j]].ktimerid \in Kids
            /\ ktimer[heap[allTimers[j]].ktimerid].addr = allTimers[j]
            /\ ktimer[k].addr = allTimers[id] /\ heap[allTimers[id]] # NULL
            /\ allTimers[id] \in Addrs
        BY <3>1, <3>2, LiveNotHeld
      <4>2. allTimers[j] # allTimers[id]
        BY <3>2, <4>1, ConstantsOK DEF IInv, SlotsOK
      <4>2a. heap[allTimers[j]].ktimerid \in Kids \ {k}
        BY <4>1, <4>2
      <4>3. QED
        BY <1>1, <4>1, <4>2a, StaysShown
    <3>3. Shown'[id] = [kind |-> Shown[id].kind, fn |-> Shown[id].fn, armed |-> on]
      BY <1>1, <3>1 DEF Shown
    <3>4. Service!Arm(id) /\ id \in Ids
      BY <1>3, <3>2, <3>3, ShownAt, LiveNotHeld DEF Service!Arm, Service!OthersStay, Shown
    <3>5. QED
      BY <3>4 DEF Service!Next
  <2>2. CASE \A id \in live : heap[allTimers[id]].ktimerid # k
    <3>1. ASSUME NEW j \in live
          PROVE  Shown'[j] = Shown[j]
      <4>1. heap[allTimers[j]].ktimerid \in Kids \ {k} /\ j \in live'
        BY <2>2, LiveNotHeld
      <4>2. QED
        BY <1>1, <4>1, StaysShown
    <3>2. Shown' = Shown
      BY <3>1, ShownKept
    <3>3. QED
      BY <1>3, <3>2 DEF Mapped
  <2>3. QED
    BY <2>1, <2>2
<1>5. SilentOK'
  BY <1>2, <1>3, SilentFrom
<1>6. FreshOK'
  <2>1. ASSUME NEW u \in Threads, pc[u] \in {"lock.push", "push"}
        PROVE  ~ktimer'[heap[ptr[u]].ktimerid].armed
    <3>1. /\ ptr[u] \in Addrs /\ heap[ptr[u]].ktimerid \in Kids
          /\ ktimer[heap[ptr[u]].ktimerid].addr = ptr[u]
          /\ \A id \in live : allTimers[id] # ptr[u]
      BY <2>1, HoldsOne DEF Holding, IInv, KernelOK, Chained
    <3>2. ~ktimer[heap[ptr[u]].ktimerid].armed
      BY <2>1 DEF FreshOK
    <3>3. heap[ptr[u]].ktimerid # k
      BY <3>1, <3>2, LiveNotHeld
    <3>4. QED
      BY <1>1, <3>1, <3>2, <3>3
  <2>2. QED
    BY <2>1 DEF FreshOK
<1>7. QED
  BY <1>4, <1>5, <1>6 DEF Faithful

(* timer_delete takes over what the id led to. *)
LEMMA Taken ==
  ASSUME IInv, SilentOK, FreshOK, NEW t \in Threads, NEW id \in Ids, DeleteCall(t, id)
  PROVE  Faithful
<1>1. /\ pc[t] = "idle" /\ id \in live /\ live' = live \ {id}
      /\ ptr' = [ptr EXCEPT ![t] = allTimers[id]] /\ pc' = [pc EXCEPT ![t] = "ktimerDelete"]
      /\ allTimers' = allTimers /\ heap' = heap /\ active' = active /\ ktimer' = ktimer
      /\ pending' = pending /\ si' = si /\ ran' = ran /\ deleted' = deleted
  BY DEF DeleteCall
<1>2. PICK a \in Addrs :
      /\ a = allTimers[id] /\ heap[a] # NULL /\ ~Held(a) /\ (heap[a].notify = "thread" <=> Listed(a))
      /\ ptr[t] = NULL
  BY <1>1, LiveNotHeld DEF IInv, PtrsOK, Holding, Loose
<1>3. ASSUME NEW j \in live, j # id
      PROVE  allTimers[j] # a
  BY <1>1, <1>2, <1>3, LiveNotHeld, ConstantsOK DEF IInv, SlotsOK
<1>4. \A b \in Addrs : Held(b)' <=> Held(b) \/ b = a
  BY <1>1, <1>2, HeldTaken
<1>5. \A b \in Addrs : Listed(b)' <=> Listed(b)
  BY <1>1 DEF Listed
<1>6. \A b \in Addrs : Abandoned(b)' <=> Abandoned(b)
  <2>1. ASSUME NEW b \in Addrs, b # a
        PROVE  Abandoned(b)' <=> Abandoned(b)
    BY <1>1, <1>2, <1>4, <2>1 DEF Abandoned
  <2>2. ~Abandoned(a) /\ ~Abandoned(a)'
    BY <1>1, <1>2, <1>4 DEF Abandoned
  <2>3. QED
    BY <2>1, <2>2
<1>7. Gone' = Gone
  <2>1. \A f : f \in Gone' <=> f \in Gone
    BY <1>1, <1>6 DEF Gone
  <2>2. QED
    BY <2>1
<1>8. Leaving' = Leaving \cup (IF heap[a].notify = "thread" THEN {heap[a].fn} ELSE {})
  <2>1. \A f : f \in Leaving' <=> f \in Leaving \/ (Listed(a) /\ f = heap[a].fn)
    BY <1>1, <1>2, <1>4, <1>5 DEF Leaving
  <2>2. QED
    BY <1>2, <2>1
<1>9. Service!Delete(id)
  <2>1. ASSUME NEW j \in live \ {id}
        PROVE  Shown'[j] = Shown[j]
    BY <1>1, <2>1, StaysShown
  <2>2. Shown[id].kind = heap[a].notify /\ Shown[id].fn = heap[a].fn
    BY <1>1, <1>2, ShownAt
  <2>3. DOMAIN Shown = live /\ DOMAIN Shown' = live \ {id}
    BY <1>1 DEF Shown
  <2>4. QED
    BY <1>1, <1>7, <1>8, <2>1, <2>2, <2>3 DEF Service!Delete, Service!OthersStay
<1>10. SilentOK'
  <2>1. \A b \in Addrs : Signalled(b)' <=> Signalled(b)
    BY <1>1 DEF Signalled, Named
  <2>2. QED
    BY <1>5, <1>6, <2>1, SilentFrom
<1>11. FreshOK'
  <2>1. ASSUME NEW u \in Threads, pc'[u] \in {"lock.push", "push"}
        PROVE  u # t /\ pc[u] = pc'[u] /\ ptr'[u] = ptr[u]
    BY <1>1, <2>1, Types
  <2>2. QED
    BY <1>1, <2>1 DEF FreshOK
<1>12. QED
  BY <1>9, <1>10, <1>11 DEF Faithful, Service!Next

(* The list loses a timer, and the helper can no longer find it. *)
LEMMA Left ==
  ASSUME IInv, SilentOK, FreshOK, NEW t \in Threads, Unlink(t)
  PROVE  Faithful
<1>1. /\ pc[t] = "unlink" /\ pc' = [pc EXCEPT ![t] = "clear"] /\ ptr' = ptr
      /\ allTimers' = allTimers /\ heap' = heap /\ ktimer' = ktimer /\ live' = live
      /\ pending' = pending /\ si' = si /\ ran' = ran /\ deleted' = deleted
  BY DEF Unlink
<1>2. PICK i \in 1 .. Len(active) : active[i] = ptr[t] /\ active' = Without(active, i)
  BY DEF Unlink
<1>3. PICK a \in Addrs : /\ a = ptr[t] /\ heap[a] # NULL /\ Held(a) /\ ~Abandoned(a)
                         /\ Listed(a)
  BY <1>1, HoldsOne DEF Holding, Loose, IInv, ListOK
<1>4. \A b \in Addrs : Listed(b)' <=> Listed(b) /\ b # a
  BY <1>2, <1>3, Dropped
<1>5. \A b \in Addrs : Held(b)' <=> Held(b)
  <2>1. \A u \in Threads : ptr'[u] = ptr[u] /\ (pc'[u] = "gone" <=> pc[u] = "gone")
    BY <1>1, Types
  <2>2. QED
    BY <2>1, HeldKept
<1>6. \A b \in Addrs : Abandoned(b)' <=> Abandoned(b)
  BY <1>1, <1>5 DEF Abandoned
<1>7. Gone' = Gone
  <2>1. \A f : f \in Gone' <=> f \in Gone
    BY <1>1, <1>6 DEF Gone
  <2>2. QED
    BY <2>1
<1>8. Shown' = Shown
  BY <1>1 DEF Shown
<1>9. heap[a].fn \in Leaving /\ Leaving' = Leaving \ {heap[a].fn}
  <2>1. \A b \in Addrs : Listed(b) /\ b # a => heap[b].fn # heap[a].fn
    BY <1>3, OnList DEF IInv, FnsOK
  <2>2. \A f : f \in Leaving' <=> f \in Leaving /\ f # heap[a].fn
    BY <1>1, <1>4, <1>5, <2>1 DEF Leaving
  <2>3. heap[a].fn \in Leaving
    BY <1>3, InLeaving
  <2>4. QED
    BY <2>2, <2>3
<1>10. Service!Leave
  BY <1>1, <1>7, <1>8, <1>9 DEF Service!Leave
<1>11. SilentOK'
  <2>1. \A b \in Addrs : Signalled(b)' <=> Signalled(b)
    BY <1>1 DEF Signalled, Named
  <2>2. QED
    BY <1>4, <1>6, <2>1, SilentFrom
<1>12. FreshOK'
  <2>1. \A u \in Threads : pc'[u] \in {"lock.push", "push"} => pc[u] = pc'[u]
    BY <1>1, Types
  <2>2. QED
    BY <1>1, <2>1 DEF FreshOK
<1>13. QED
  BY <1>10, <1>11, <1>12 DEF Faithful, Service!Next

(* The helper starts a function: of a timer the application has, or of one   *)
(* that is being deleted; an abandoned one is never signalled.               *)
LEMMA Started ==
  ASSUME IInv, SilentOK, FreshOK, HelperRun
  PROVE  Faithful
<1>1. /\ helper = "run" /\ si' = NULL /\ pc' = pc /\ ptr' = ptr /\ live' = live
      /\ allTimers' = allTimers /\ heap' = heap /\ ktimer' = ktimer /\ active' = active
      /\ deleted' = deleted /\ pending' = pending
      /\ (Listed(si.addr) /\ ran' = Contents(si.addr, si.fn)) \/ ran' = ran
  BY DEF HelperRun, Search
<1>2. \A a \in Addrs : Signalled(a)' => Signalled(a)
  BY <1>1 DEF Signalled, Named
<1>3. Shown' = Shown /\ Leaving' = Leaving /\ Gone' = Gone /\ SilentOK' /\ FreshOK'
  BY <1>1, <1>2, Unseen
<1>4. ASSUME Listed(si.addr), ran' = Contents(si.addr, si.fn)
      PROVE  Service!Run
  <2>1. PICK a \in Addrs : a = si.addr /\ Listed(a)
    BY <1>4, Types DEF Listed
  <2>2. heap[a] # NULL /\ heap[a].notify = "thread" /\ ran' = heap[a].fn
    BY <1>4, <2>1, OnList DEF Contents
  <2>3. Signalled(a)
    BY <1>1, <2>1 DEF Signalled, IInv, HelperOK
  <2>4. ~Abandoned(a)
    BY <2>1, <2>3 DEF SilentOK
  <2>5. Held(a) \/ \E id \in live : allTimers[id] = a
    BY <2>2, <2>4 DEF Abandoned
  <2>6. ran' \in Service!Functions({"thread"}) \cup Leaving
    BY <2>1, <2>2, <2>5, InFunctions, InLeaving
  <2>7. QED
    BY <1>3, <2>6 DEF Service!Run
<1>5. QED
  BY <1>1, <1>3, <1>4 DEF Faithful, Service!Next, Mapped

(* In the child of a fork every struct of a timer or of a call under way is  *)
(* abandoned, and no signal for one is left.                                 *)
LEMMA Forked ==
  ASSUME IInv, SilentOK, FreshOK, NEW t \in Threads, Fork(t)
  PROVE  Faithful
<1>1. /\ pc[t] = "idle" /\ pc' = [u \in Threads |-> IF u = t THEN "idle" ELSE "gone"]
      /\ si' = NULL /\ ktimer' = [k \in Kids |-> NULL] /\ pending' = <<>> /\ live' = {}
      /\ allTimers' = allTimers /\ heap' = heap /\ active' = active /\ ptr' = ptr
      /\ deleted' = deleted /\ ran' = ran
  BY DEF Fork
<1>2. ptr[t] = NULL /\ \A b \in Addrs : b # NULL
  BY <1>1, Types DEF IInv, PtrsOK, Holding, Loose
<1>3. \A b \in Addrs : ~Held(b)'
  BY <1>1, <1>2 DEF Held
<1>4. \A b \in Addrs : Abandoned(b)' <=> heap[b] # NULL
  BY <1>1, <1>3 DEF Abandoned
<1>5. DOMAIN Shown' = {}
  BY <1>1 DEF Shown
<1>6. Leaving' = {}
  <2>1. \A f : f \notin Leaving'
    BY <1>3 DEF Leaving
  <2>2. QED
    BY <2>1
<1>7. \A f : f \in Gone' <=> f \in deleted \/ \E b \in Addrs : heap[b] # NULL /\ heap[b].fn = f
  BY <1>1, <1>4 DEF Gone
<1>8. Gone \cup Service!Functions(Service!Kinds) \cup Leaving \subseteq Gone'
  <2>1. Gone \subseteq Gone'
    <3>1. \A b \in Addrs : Abandoned(b) => heap[b] # NULL
      BY DEF Abandoned
    <3>2. QED
      BY <1>7, <3>1, InGone
  <2>2. Service!Functions(Service!Kinds) \subseteq Gone'
    BY <1>7, InFunctions, LiveNotHeld
  <2>3. Leaving \subseteq Gone'
    BY <1>7, InLeaving, OnList
  <2>4. QED
    BY <2>1, <2>2, <2>3
<1>9. Service!Fork
  BY <1>1, <1>5, <1>6, <1>8 DEF Service!Fork
<1>10. SilentOK'
  BY <1>1 DEF SilentOK, Signalled, Named
<1>11. FreshOK'
  BY <1>1 DEF FreshOK
<1>12. QED
  BY <1>9, <1>10, <1>11 DEF Faithful, Service!Next

(* Steps the application does not see, that change a struct, a slot or a     *)
(* kernel timer which no id leads to.                                        *)
LEMMA Inside ==
  ASSUME IInv, SilentOK, FreshOK', live' = live, deleted' = deleted, ran' = ran,
         \A id \in live : allTimers'[id] = allTimers[id] /\ Shown'[id] = Shown[id],
         \A a \in Addrs : /\ Listed(a)' <=> Listed(a)
                          /\ Held(a)' <=> Held(a)
                          /\ heap'[a] = NULL <=> heap[a] = NULL
                          /\ heap'[a].fn = heap[a].fn
                          /\ Signalled(a)' => Signalled(a) \/ ~Abandoned(a)
  PROVE  Faithful
<1>1. Leaving' = Leaving /\ Gone' = Gone /\ \A a \in Addrs : Abandoned(a)' <=> Abandoned(a)
  BY SetsKept
<1>2. Shown' = Shown
  BY ShownKept
<1>3. SilentOK'
  BY <1>1, SilentFrom
<1>4. QED
  BY <1>1, <1>2, <1>3 DEF Faithful, Mapped

(* malloc hands out what nobody holds. *)
LEMMA Allocated ==
  ASSUME IInv, SilentOK, FreshOK, NEW t \in Threads, Malloc(t)
  PROVE  Faithful
<1>1. /\ pc[t] = "malloc" /\ allTimers' = allTimers /\ active' = active /\ ktimer' = ktimer
      /\ live' = live /\ pending' = pending /\ si' = si /\ ran' = ran /\ deleted' = deleted
  BY DEF Malloc
<1>2. ptr[t] = NULL
  BY <1>1 DEF IInv, PtrsOK, Holding, Loose
<1>3. CASE heap' = heap /\ pc' = [pc EXCEPT ![t] = "idle"] /\ ptr' = [ptr EXCEPT ![t] = NULL]
  <2>1. Steady
    BY <1>1, <1>2, <1>3, Types
  <2>2. QED
    BY <1>1, <1>3, <2>1, Quiet
<1>4. CASE \E a \in Addrs : /\ heap[a] = NULL
                            /\ heap' = [heap EXCEPT ![a] = Timer("unset", NULL, created + 1)]
                            /\ ptr' = [ptr EXCEPT ![t] = a] /\ pc' = [pc EXCEPT ![t] = "scan"]
  <2>1. PICK a \in Addrs : /\ heap[a] = NULL
                           /\ heap' = [heap EXCEPT ![a] = Timer("unset", NULL, created + 1)]
                           /\ ptr' = [ptr EXCEPT ![t] = a] /\ pc' = [pc EXCEPT ![t] = "scan"]
    BY <1>4
  <2>2. /\ \A b \in Addrs \ {a} : heap'[b] = heap[b]
        /\ ~Listed(a) /\ ~Abandoned(a)
    BY <2>1, MallocEffect, OnList DEF Abandoned
  <2>3. \A b \in Addrs : Held(b)' <=> Held(b) \/ b = a
    BY <1>1, <1>2, <2>1, HeldTaken
  <2>4. \A b \in Addrs : (Abandoned(b)' <=> Abandoned(b)) /\ (Listed(b)' <=> Listed(b))
    BY <1>1, <2>2, <2>3 DEF Abandoned, Listed
  <2>5. Leaving' = Leaving
    <3>1. \A f : f \in Leaving' <=> f \in Leaving
      BY <2>2, <2>3, <2>4 DEF Leaving
    <3>2. QED
      BY <3>1
  <2>6. Gone' = Gone
    <3>1. \A f : f \in Gone' <=> f \in Gone
      BY <1>1, <2>2, <2>4 DEF Gone
    <3>2. QED
      BY <3>1
  <2>7. Shown' = Shown
    <3>1. ASSUME NEW j \in live
          PROVE  Shown'[j] = Shown[j]
      <4>1. allTimers[j] \in Addrs \ {a} /\ j \in live'
        BY <1>1, <2>1, LiveNotHeld
      <4>2. QED
        BY <1>1, <2>2, <4>1, StaysShown
    <3>2. QED
      BY <1>1, <3>1, ShownKept
  <2>8. SilentOK'
    <3>1. \A b \in Addrs : Signalled(b)' <=> Signalled(b)
      BY <1>1 DEF Signalled, Named
    <3>2. QED
      BY <2>4, <3>1, SilentFrom
  <2>9. FreshOK'
    <3>1. ASSUME NEW u \in Threads, pc'[u] \in {"lock.push", "push"}
          PROVE  ~ktimer'[heap'[ptr'[u]].ktimerid].armed
      <4>1. u # t /\ pc[u] = pc'[u] /\ ptr'[u] = ptr[u]
        BY <2>1, <3>1, Types
      <4>2. ptr[u] \in Addrs \ {a}
        BY <2>1, <3>1, <4>1, HoldsOne DEF Holding
      <4>3. QED
        BY <1>1, <2>2, <3>1, <4>1, <4>2 DEF FreshOK
    <3>2. QED
      BY <3>1 DEF FreshOK
  <2>10. QED
    BY <1>1, <2>5, <2>6, <2>7, <2>8, <2>9 DEF Faithful, Mapped
<1>5. QED
  BY <1>3, <1>4 DEF Malloc

(* A slot that is filled or emptied is not one of the application's ids.     *)
LEMMA SlotSet ==
  ASSUME IInv, SilentOK, FreshOK, NEW t \in Threads, pc[t] \in Holding,
         NEW l, l \notin {"gone", "lock.push", "push"}, pc' = [pc EXCEPT ![t] = l],
         NEW i \in Ids, i \notin live, NEW v, allTimers' = [allTimers EXCEPT ![i] = v],
         live' = live, ptr' = ptr, heap' = heap, active' = active, ktimer' = ktimer,
         pending' = pending, si' = si, ran' = ran, deleted' = deleted
  PROVE  Faithful
<1>1. Steady
  BY Types DEF Holding, Loose
<1>2. \A id \in live : allTimers'[id] = allTimers[id] /\ Shown'[id] = Shown[id]
  <2>1. \A id \in live : allTimers'[id] = allTimers[id]
    BY Types
  <2>2. QED
    BY <2>1, StaysShown
<1>3. \A a \in Addrs : /\ Listed(a)' <=> Listed(a)
                       /\ Held(a)' <=> Held(a)
                       /\ Signalled(a)' => Signalled(a)
  BY <1>1, HeldKept DEF Listed, Signalled, Named
<1>4. FreshOK'
  BY <1>1 DEF FreshOK
<1>5. QED
  BY <1>2, <1>3, <1>4, Inside

(* The scan takes a slot, goes on, or gives up. *)
LEMMA Scanned ==
  ASSUME IInv, SilentOK, FreshOK, NEW t \in Threads, Scan(t)
  PROVE  Faithful
<1>1. /\ pc[t] = "scan" /\ active' = active /\ ktimer' = ktimer /\ heap' = heap
      /\ live' = live /\ pending' = pending /\ si' = si /\ ran' = ran /\ deleted' = deleted
      /\ pc[t] \in Holding /\ pc[t] \in Loose
  BY DEF Scan, Holding, Loose
<1>2. CASE /\ allTimers[idx[t]] = NULL /\ allTimers' = [allTimers EXCEPT ![idx[t]] = ptr[t]]
           /\ pc' = [pc EXCEPT ![t] = "ktimer"] /\ ptr' = ptr
  <2>1. idx[t] \in Ids /\ idx[t] \notin live
    BY <1>2, LiveNotHeld, Types
  <2>2. QED
    BY <1>1, <1>2, <2>1, SlotSet
<1>3. CASE allTimers' = allTimers /\ pc' = pc /\ ptr' = ptr
  BY <1>1, <1>3, Quiet
<1>4. CASE /\ allTimers' = allTimers /\ pc' = [pc EXCEPT ![t] = "idle"]
           /\ ptr' = [ptr EXCEPT ![t] = NULL]
  <2>1. PICK a \in Addrs : a = ptr[t]
    BY <1>1, HoldsOne
  <2>2. QED
    BY <1>1, <1>4, <2>1, GivenUp
<1>5. QED
  BY <1>2, <1>3, <1>4 DEF Scan

(* The slot that is emptied is the one of the struct that goes. *)
LEMMA Cleared ==
  ASSUME IInv, SilentOK, FreshOK, NEW t \in Threads, ClearSlot(t)
  PROVE  Faithful
<1>1. /\ pc[t] = "clear" /\ pc' = [pc EXCEPT ![t] = "free"] /\ pc[t] \in Holding
      /\ allTimers' = [allTimers EXCEPT ![ptr2id(ptr[t])] = NULL] /\ live' = live
      /\ ptr' = ptr /\ active' = active /\ ktimer' = ktimer /\ heap' = heap
      /\ pending' = pending /\ si' = si /\ ran' = ran /\ deleted' = deleted
  BY DEF ClearSlot, Holding
<1>2. ptr[t] \in Addrs /\ Slotted(ptr[t]) /\ \A id \in live : allTimers[id] # ptr[t]
  BY <1>1, HoldsOne DEF IInv, SlotsOK, Loose
<1>3. PICK i \in Ids : i = ptr2id(ptr[t]) /\ allTimers[i] = ptr[t]
  BY <1>2, SlotFound
<1>4. i \notin live
  BY <1>2, <1>3
<1>5. QED
  BY <1>1, <1>3, <1>4, SlotSet

(* What is left in the queue was in it. *)
LEMMA ShorterQueue ==
  ASSUME NEW i \in 1 .. Len(pending), pending' = Withdrawn(i), pending \in Seq(SignalRecords)
  PROVE  \A j \in 1 .. Len(pending') : \E m \in 1 .. Len(pending) : pending'[j] = pending[m]
<1>1. /\ DOMAIN pending' = 1 .. Len(pending) - 1
      /\ \A j \in 1 .. Len(pending) - 1 : pending'[j] = pending[IF j < i THEN j ELSE j + 1]
  BY DEF Withdrawn
<1>2. Len(pending) \in Nat /\ Len(pending) - 1 \in Nat /\ Len(pending') = Len(pending) - 1
  <2>1. Len(pending) \in Nat /\ Len(pending) - 1 \in Nat
    BY LenProperties
  <2>2. Len(pending') = Len(pending) - 1
    BY <2>1 DEF Withdrawn
  <2>3. QED
    BY <2>1, <2>2
<1>3. \A j \in 1 .. Len(pending) - 1 : j \in 1 .. Len(pending) /\ j + 1 \in 1 .. Len(pending)
  BY <1>2
<1>4. QED
  BY <1>1, <1>2, <1>3

(* ktimer_delete takes away a kernel timer no id leads to any more. *)
LEMMA Stopped ==
  ASSUME IInv, SilentOK, FreshOK, NEW t \in Threads, KtimerDelete(t)
  PROVE  Faithful
<1>1. /\ pc[t] = "ktimerDelete" /\ pc[t] \in Holding /\ live' = live /\ ptr' = ptr
      /\ allTimers' = allTimers /\ active' = active /\ heap' = heap
      /\ si' = si /\ ran' = ran /\ deleted' = deleted
      /\ ktimer' = [ktimer EXCEPT ![heap[ptr[t]].ktimerid] = NULL]
      /\ \E l \in {"lock.unlink", "clear"} : pc' = [pc EXCEPT ![t] = l]
      /\ pending' = pending \/ \E i \in 1 .. Len(pending) : pending' = Withdrawn(i)
  BY DEF KtimerDelete, Holding, Forgotten, AfterKtimerDelete
<1>2. PICK k \in Kids : /\ k = heap[ptr[t]].ktimerid /\ ktimer[k] # NULL
                        /\ ktimer[k].addr = ptr[t] /\ ptr[t] \in Addrs
                        /\ \A id \in live : allTimers[id] # ptr[t]
                        /\ \A u \in Threads : u # t => ptr[u] # ptr[t]
  BY <1>1, HoldsOne DEF IInv, KernelOK, Chained
<1>3. ktimer'[k] = NULL /\ \A l \in Kids \ {k} : ktimer'[l] = ktimer[l]
  BY <1>1, <1>2, Types
<1>4. \A u \in Threads : /\ ptr'[u] = ptr[u] /\ (pc'[u] = "gone" <=> pc[u] = "gone")
                         /\ pc'[u] \in {"lock.push", "push"} => pc[u] \in {"lock.push", "push"}
                                                                /\ u # t
  BY <1>1, Types
<1>5. ASSUME NEW id \in live
      PROVE  Shown'[id] = Shown[id]
  <2>1. heap[allTimers[id]].ktimerid \in Kids \ {k}
    BY <1>2, LiveNotHeld
  <2>2. QED
    BY <1>1, <1>3, <2>1, StaysShown
<1>6. ASSUME NEW a \in Addrs, Signalled(a)'
      PROVE  Signalled(a)
  <2>1. CASE Named(a)'
    BY <1>3, <2>1 DEF Signalled, Named
  <2>2. CASE \E i \in 1 .. Len(pending') : pending'[i].addr = a
    <3>1. CASE pending' = pending
      BY <2>2, <3>1 DEF Signalled
    <3>2. CASE \E i \in 1 .. Len(pending) : pending' = Withdrawn(i)
      <4>1. PICK i \in 1 .. Len(pending) : pending' = Withdrawn(i)
        BY <3>2
      <4>2. pending \in Seq(SignalRecords)
        BY DEF IInv, TypeOK
      <4>3. \A j \in 1 .. Len(pending') : \E m \in 1 .. Len(pending) : pending'[j] = pending[m]
        BY <4>1, <4>2, ShorterQueue
      <4>4. QED
        BY <2>2, <4>3 DEF Signalled
    <3>3. QED
      BY <1>1, <3>1, <3>2
  <2>3. CASE si' # NULL /\ si'.addr = a
    BY <1>1, <2>3 DEF Signalled
  <2>4. QED
    BY <1>6, <2>1, <2>2, <2>3 DEF Signalled
<1>7. FreshOK'
  <2>1. ASSUME NEW u \in Threads, pc'[u] \in {"lock.push", "push"}
        PROVE  ~ktimer'[heap'[ptr'[u]].ktimerid].armed
    <3>1. /\ u # t /\ pc[u] \in {"lock.push", "push"} /\ ptr'[u] = ptr[u]
          /\ ptr[u] # ptr[t]
      BY <1>2, <1>4, <2>1
    <3>2. heap[ptr[u]].ktimerid \in Kids \ {k}
      BY <1>2, <3>1 DEF IInv, KernelOK, Chained
    <3>3. QED
      BY <1>1, <1>3, <3>1, <3>2 DEF FreshOK
  <2>2. QED
    BY <2>1 DEF FreshOK
<1>8. \A a \in Addrs : (Listed(a)' <=> Listed(a)) /\ (Held(a)' <=> Held(a))
  BY <1>1, <1>4, HeldKept DEF Listed
<1>9. QED
  BY <1>1, <1>5, <1>6, <1>7, <1>8, Inside

(* ktimer_create makes a timer that is not set; if it was for a signal the   *)
(* application has it now, and if it failed the struct goes back.            *)
LEMMA MadeUnarmed ==
  ASSUME IInv, NEW t \in Threads, pc[t] = "ktimer", Made(t)
  PROVE  \E k \in Kids :
           /\ ktimer[k] = NULL /\ ktimer'[k] # NULL /\ ktimer'[k].addr = ptr[t]
           /\ ~ktimer'[k].armed
           /\ \A l \in Kids \ {k} : ktimer'[l] = ktimer[l]
           /\ heap'[ptr[t]] # NULL /\ heap'[ptr[t]].fn = heap[ptr[t]].fn
           /\ heap'[ptr[t]].notify = kind[t] /\ heap'[ptr[t]].ktimerid = k
           /\ \A b \in Addrs \ {ptr[t]} : heap'[b] = heap[b]
<1>1. PICK k \in Kids :
        /\ ktimer[k] = NULL
        /\ ktimer' = [ktimer EXCEPT ![k] =
                        KTimer(ptr[t], kind[t], heap[ptr[t]].fn, FALSE)]
        /\ heap' = [heap EXCEPT ![ptr[t]] = Timer(kind[t], k, heap[ptr[t]].fn)]
  BY DEF Made
<1>2. ktimer'[k] = KTimer(ptr[t], kind[t], heap[ptr[t]].fn, FALSE)
  BY <1>1, Types
<1>3. ~ktimer'[k].armed
  BY <1>2 DEF KTimer
<1>4. QED
  BY <1>1, <1>3, CreateEffect

(* ktimer_create, with its three outcomes. *)
LEMMA Created ==
  ASSUME IInv, IInv', SilentOK, FreshOK, NEW t \in Threads, KtimerCreate(t)
  PROVE  Faithful
<1>1. /\ pc[t] = "ktimer" /\ allTimers' = allTimers /\ active' = active /\ pending' = pending
      /\ si' = si /\ ran' = ran /\ deleted' = deleted
  BY DEF KtimerCreate
<1>2. PICK a \in Addrs : /\ a = ptr[t] /\ heap[a] # NULL /\ Held(a) /\ ~Abandoned(a)
                         /\ Slotted(a) /\ \A id \in live : allTimers[id] # a
                         /\ \A u \in Threads : u # t => ptr[u] # a
  BY <1>1, HoldsOne DEF Holding, IInv, SlotsOK, Loose
<1>3. CASE MadeNothing(t)
  <2>1. Steady
    BY <1>1, <1>3, Types DEF MadeNothing
  <2>2. QED
    BY <1>1, <1>3, <2>1, Quiet DEF MadeNothing
<1>4. ASSUME Made(t)
      PROVE  \E k \in Kids :
               /\ ktimer[k] = NULL /\ ktimer'[k] # NULL /\ ktimer'[k].addr = a
               /\ ~ktimer'[k].armed
               /\ \A l \in Kids \ {k} : ktimer'[l] = ktimer[l]
               /\ heap'[a] # NULL /\ heap'[a].fn = heap[a].fn
               /\ heap'[a].notify = kind[t] /\ heap'[a].ktimerid = k
               /\ \A b \in Addrs \ {a} : heap'[b] = heap[b]
  BY <1>1, <1>2, <1>4, MadeUnarmed
<1>5. CASE MadeSignal(t)
  <2>1. PICK k \in Kids :
          /\ ktimer[k] = NULL /\ ktimer'[k] # NULL /\ ktimer'[k].addr = a /\ ~ktimer'[k].armed
          /\ \A l \in Kids \ {k} : ktimer'[l] = ktimer[l]
          /\ heap'[a] # NULL /\ heap'[a].fn = heap[a].fn
          /\ heap'[a].notify = kind[t] /\ heap'[a].ktimerid = k
          /\ \A b \in Addrs \ {a} : heap'[b] = heap[b]
    BY <1>4, <1>5 DEF MadeSignal
  <2>2. PICK id \in Ids : id = ptr2id(a) /\ allTimers[id] = a
    BY <1>2, SlotFound
  <2>3. /\ live' = live \cup {id} /\ pc' = [pc EXCEPT ![t] = "idle"]
        /\ ptr' = [ptr EXCEPT ![t] = NULL]
    BY <1>2, <1>5, <2>2 DEF MadeSignal
  <2>4. kind[t] \in Kinds /\ \A b \in Addrs : Listed(b)' <=> Listed(b)
    BY <1>1, Types DEF Listed
  <2>5. /\ ~ktimer'[heap'[a].ktimerid].armed
        /\ \A l \in Kids : ktimer[l] # NULL => ktimer'[l] = ktimer[l]
        /\ \A l \in Kids : ktimer[l] = NULL /\ ktimer'[l] # NULL => ktimer'[l].addr = a
    BY <2>1
  <2>6. QED
    BY <1>1, <1>2, <2>1, <2>2, <2>3, <2>4, <2>5, BecomesLive
<1>6. CASE MadeThread(t)
  <2>1. PICK k \in Kids :
          /\ ktimer[k] = NULL /\ ktimer'[k] # NULL /\ ktimer'[k].addr = a /\ ~ktimer'[k].armed
          /\ \A l \in Kids \ {k} : ktimer'[l] = ktimer[l]
          /\ heap'[a] # NULL /\ heap'[a].fn = heap[a].fn
          /\ heap'[a].notify = kind[t] /\ heap'[a].ktimerid = k
          /\ \A b \in Addrs \ {a} : heap'[b] = heap[b]
    BY <1>4, <1>6 DEF MadeThread
  <2>2. live' = live /\ pc' = [pc EXCEPT ![t] = "lock.push"] /\ ptr' = ptr
    BY <1>6 DEF MadeThread
  <2>3. \A u \in Threads : ptr'[u] = ptr[u] /\ (pc'[u] = "gone" <=> pc[u] = "gone")
    BY <1>1, <2>2, Types
  <2>4. ASSUME NEW id \in live
        PROVE  allTimers'[id] = allTimers[id] /\ Shown'[id] = Shown[id]
    <3>1. /\ allTimers[id] \in Addrs \ {a} /\ id \in live'
          /\ heap[allTimers[id]].ktimerid \in Kids \ {k}
      BY <1>2, <2>1, <2>2, LiveNotHeld
    <3>2. QED
      BY <1>1, <2>1, <3>1, StaysShown
  <2>5. \A b \in Addrs : /\ Listed(b)' <=> Listed(b)
                         /\ Held(b)' <=> Held(b)
                         /\ heap'[b] = NULL <=> heap[b] = NULL
                         /\ heap'[b].fn = heap[b].fn
    BY <1>1, <1>2, <2>1, <2>3, HeldKept DEF Listed
  <2>6. ASSUME NEW b \in Addrs, Signalled(b)'
        PROVE  Signalled(b) \/ ~Abandoned(b)
    <3>1. CASE b = a
      BY <1>2, <3>1
    <3>2. CASE b # a
      BY <1>1, <2>1, <2>6, <3>2 DEF Signalled, Named
    <3>3. QED
      BY <3>1, <3>2
  <2>7. FreshOK'
    <3>1. ASSUME NEW u \in Threads, pc'[u] \in {"lock.push", "push"}
          PROVE  ~ktimer'[heap'[ptr'[u]].ktimerid].armed
      <4>1. CASE u = t
        BY <1>2, <2>1, <2>2, <4>1
      <4>2. CASE u # t
        <5>1. pc[u] = pc'[u] /\ ptr'[u] = ptr[u]
          BY <2>2, <4>2, Types
        <5>2. /\ ptr[u] \in Addrs \ {a} /\ heap[ptr[u]].ktimerid \in Kids
              /\ ktimer[heap[ptr[u]].ktimerid] # NULL
          BY <1>2, <3>1, <4>2, <5>1, HoldsOne DEF Holding, IInv, KernelOK, Chained
        <5>3. heap[ptr[u]].ktimerid # k
          BY <2>1, <5>2
        <5>4. QED
          BY <2>1, <3>1, <5>1, <5>2, <5>3 DEF FreshOK
      <4>3. QED
        BY <4>1, <4>2
    <3>2. QED
      BY <3>1 DEF FreshOK
  <2>8. QED
    BY <1>1, <2>2, <2>4, <2>5, <2>6, <2>7, Inside
<1>7. QED
  BY <1>3, <1>5, <1>6, Outcomes

(* A thread timer becomes the application's as it is put on the list. *)
LEMMA PushedLive ==
  ASSUME IInv, IInv', SilentOK, FreshOK, NEW t \in Threads, Push(t)
  PROVE  Faithful
<1>1. /\ pc[t] = "push" /\ allTimers' = allTimers /\ active' = <<ptr[t]>> \o active
      /\ heap' = heap /\ ktimer' = ktimer /\ ptr' = [ptr EXCEPT ![t] = NULL]
      /\ pc' = [pc EXCEPT ![t] = "idle"] /\ live' = live \cup {ptr2id(ptr[t])}
      /\ pending' = pending /\ si' = si /\ ran' = ran /\ deleted' = deleted
  BY DEF Push
<1>2. PICK a \in Addrs : /\ a = ptr[t] /\ heap[a] # NULL /\ Slotted(a)
                         /\ heap[a].notify = "thread" /\ ~ktimer[heap[a].ktimerid].armed
  BY <1>1, HoldsOne DEF Holding, IInv, SlotsOK, ListOK, Loose, FreshOK
<1>3. PICK id \in Ids : id = ptr2id(a) /\ allTimers[id] = a
  BY <1>2, SlotFound
<1>4. \A b \in Addrs : Listed(b)' <=> Listed(b) \/ b = a
  BY <1>1, <1>2, Pushed
<1>5. QED
  BY <1>1, <1>2, <1>3, <1>4, Zero, BecomesLive

(* Every step is one of the service, or one it does not see. *)
LEMMA StepsAreFaithful ==
  ASSUME IInv, IInv', SilentOK, FreshOK, [Next]_vars
  PROVE  Faithful
<1>1. ASSUME NEW t \in Threads, NEW k \in Kinds, CreateCall(t, k)
      PROVE  Faithful
  <2>1. Steady
    BY <1>1, Types DEF CreateCall
  <2>2. QED
    BY <1>1, <2>1, Quiet DEF CreateCall
<1>2. ASSUME NEW t \in Threads, Probe(t)
      PROVE  Faithful
  <2>1. Steady
    BY <1>2, Types DEF Probe
  <2>2. QED
    BY <1>2, <2>1, Quiet DEF Probe
<1>3. ASSUME NEW t \in Threads, Once(t)
      PROVE  Faithful
  <2>1. Steady
    <3>1. pc[t] = "once" /\ ptr[t] = NULL
      BY <1>3 DEF Once, IInv, PtrsOK, Holding, Loose
    <3>2. /\ ptr' = ptr \/ ptr' = [ptr EXCEPT ![t] = NULL]
          /\ \E l \in {"start", "malloc", "idle"} : pc' = [pc EXCEPT ![t] = l]
      BY <1>3 DEF Once
    <3>3. QED
      BY <3>1, <3>2, Types
  <2>2. QED
    BY <1>3, <2>1, Quiet DEF Once
<1>4. ASSUME NEW t \in Threads, StartHelper(t)
      PROVE  Faithful
  <2>1. Steady
    BY <1>4, Types DEF StartHelper
  <2>2. QED
    BY <1>4, <2>1, Quiet DEF StartHelper
<1>5. ASSUME NEW t \in Threads, SemWait(t)
      PROVE  Faithful
  <2>1. Steady
    BY <1>5, Types DEF SemWait
  <2>2. QED
    BY <1>5, <2>1, Quiet DEF SemWait
<1>6. ASSUME NEW t \in Threads, AtFork(t)
      PROVE  Faithful
  <2>1. Steady
    BY <1>6, Types DEF AtFork
  <2>2. QED
    BY <1>6, <2>1, Quiet DEF AtFork
<1>7. ASSUME NEW t \in Threads, Malloc(t)
      PROVE  Faithful
  BY <1>7, Allocated
<1>8. ASSUME NEW t \in Threads, Scan(t)
      PROVE  Faithful
  BY <1>8, Scanned
<1>9. ASSUME NEW t \in Threads, KtimerCreate(t)
      PROVE  Faithful
  BY <1>9, Created
<1>10. ASSUME NEW t \in Threads, LockList(t)
       PROVE  Faithful
  <2>1. Steady
    BY <1>10, Types DEF LockList
  <2>2. QED
    BY <1>10, <2>1, Quiet DEF LockList
<1>11. ASSUME NEW t \in Threads, Push(t)
       PROVE  Faithful
  BY <1>11, PushedLive
<1>12. ASSUME NEW t \in Threads, NEW id \in Ids, DeleteCall(t, id)
       PROVE  Faithful
  BY <1>12, Taken
<1>13. ASSUME NEW t \in Threads, KtimerDelete(t)
       PROVE  Faithful
  BY <1>13, Stopped
<1>14. ASSUME NEW t \in Threads, Unlink(t)
       PROVE  Faithful
  BY <1>14, Left
<1>15. ASSUME NEW t \in Threads, ClearSlot(t)
       PROVE  Faithful
  BY <1>15, Cleared
<1>16. ASSUME NEW t \in Threads, Free(t)
       PROVE  Faithful
  <2>1. /\ pc[t] = "free" /\ pc[t] \in Loose /\ pc[t] \in Holding
        /\ deleted' = deleted \cup {heap[ptr[t]].fn} /\ heap' = [heap EXCEPT ![ptr[t]] = NULL]
        /\ pc' = [pc EXCEPT ![t] = "idle"] /\ ptr' = [ptr EXCEPT ![t] = NULL]
        /\ live' = live /\ allTimers' = allTimers /\ active' = active /\ ktimer' = ktimer
        /\ pending' = pending /\ si' = si /\ ran' = ran
    BY <1>16 DEF Free, Loose, Holding
  <2>2. PICK a \in Addrs : a = ptr[t]
    BY <2>1, HoldsOne
  <2>3. /\ heap'[a] = NULL /\ deleted' = deleted \cup {heap[a].fn}
        /\ \A b \in Addrs \ {a} : heap'[b] = heap[b]
    BY <2>1, <2>2, Types
  <2>4. QED
    BY <2>1, <2>2, <2>3, GivenUp
<1>17. ASSUME NEW t \in Threads, NEW id \in Ids, NEW on \in BOOLEAN, SetTime(t, id, on)
       PROVE  Faithful
  <2>1. PICK k \in Kids : /\ k = heap[allTimers[id]].ktimerid /\ ktimer[k] # NULL /\ id \in live
    BY <1>17, LiveNotHeld DEF SetTime
  <2>2. /\ ktimer' = [ktimer EXCEPT ![k] =
                        KTimer(ktimer[k].addr, ktimer[k].notify, ktimer[k].fn, on)]
        /\ live' = live /\ allTimers' = allTimers /\ heap' = heap /\ active' = active
        /\ deleted' = deleted /\ ran' = ran /\ si' = si /\ ptr' = ptr /\ pc' = pc
        /\ pending' = pending
    BY <1>17, <2>1 DEF SetTime
  <2>3. \A l \in Kids : /\ ktimer'[l] # NULL <=> ktimer[l] # NULL
                        /\ ktimer[l] # NULL => ktimer'[l].addr = ktimer[l].addr
    BY <2>1, <2>2, ArmEffect
  <2>4. \A a \in Addrs : Signalled(a)' => Signalled(a)
    BY <2>2, <2>3 DEF Signalled, Named
  <2>5. QED
    BY <2>1, <2>2, <2>4, Armed
<1>18. ASSUME NEW t \in Threads, NEW id \in Ids, Ask(t, id)
       PROVE  Faithful
  BY <1>18, Quiet DEF Ask
<1>19. ASSUME NEW t \in Threads, Fork(t)
       PROVE  Faithful
  BY <1>19, Forked
<1>20. ASSUME NEW k \in Kids, NEW again \in BOOLEAN, Expire(k, again)
       PROVE  Faithful
  <2>1. /\ ktimer[k] # NULL /\ ktimer[k].armed
        /\ ktimer' = [ktimer EXCEPT ![k] =
                        KTimer(ktimer[k].addr, ktimer[k].notify, ktimer[k].fn, again)]
        /\ live' = live /\ allTimers' = allTimers /\ heap' = heap /\ active' = active
        /\ deleted' = deleted /\ ran' = ran /\ si' = si /\ ptr' = ptr /\ pc' = pc
        /\ \/ pending' = pending
           \/ pending' = Append(pending, Signal(ktimer[k].addr, ktimer[k].fn))
    BY <1>20 DEF Expire
  <2>2. \A l \in Kids : /\ ktimer'[l] # NULL <=> ktimer[l] # NULL
                        /\ ktimer[l] # NULL => ktimer'[l].addr = ktimer[l].addr
    BY <2>1, ArmEffect
  <2>3. ASSUME NEW a \in Addrs, \E i \in 1 .. Len(pending') : pending'[i].addr = a
        PROVE  Signalled(a)
    <3>1. CASE pending' = pending
      BY <2>3, <3>1 DEF Signalled
    <3>2. CASE pending' = Append(pending, Signal(ktimer[k].addr, ktimer[k].fn))
      <4>1. /\ Len(pending) \in Nat /\ Len(pending') = Len(pending) + 1
            /\ \A i \in 1 .. Len(pending) : pending'[i] = pending[i]
            /\ pending'[Len(pending) + 1] = Signal(ktimer[k].addr, ktimer[k].fn)
        <5>1. pending \in Seq(SignalRecords)
          BY DEF IInv, TypeOK
        <5>2. QED
          BY <3>2, <5>1
      <4>2. PICK i \in 1 .. Len(pending') : pending'[i].addr = a
        BY <2>3
      <4>3. CASE i \in 1 .. Len(pending)
        BY <4>1, <4>2, <4>3 DEF Signalled
      <4>4. CASE i = Len(pending) + 1
        <5>1. ktimer[k].addr = a
          BY <4>1, <4>2, <4>4 DEF Signal
        <5>2. QED
          BY <2>1, <5>1 DEF Signalled, Named
      <4>5. QED
        BY <4>1, <4>2, <4>3, <4>4
    <3>3. QED
      BY <2>1, <3>1, <3>2
  <2>4. \A a \in Addrs : Signalled(a)' => Signalled(a)
    BY <2>1, <2>2, <2>3 DEF Signalled, Named
  <2>5. QED
    BY <2>1, <2>4, Armed
<1>21. ASSUME HelperAnnounce
       PROVE  Faithful
  BY <1>21, Quiet DEF HelperAnnounce
<1>22. ASSUME HelperWait
       PROVE  Faithful
  <2>1. /\ pending # <<>> /\ si' = Head(pending) /\ pending' = Tail(pending)
        /\ live' = live /\ allTimers' = allTimers /\ heap' = heap /\ ktimer' = ktimer
        /\ active' = active /\ deleted' = deleted /\ ran' = ran /\ ptr' = ptr /\ pc' = pc
    BY <1>22 DEF HelperWait
  <2>2. /\ Len(pending) \in Nat \ {0} /\ si' = pending[1]
        /\ \A i \in 1 .. Len(pending') : i + 1 \in 1 .. Len(pending) /\ pending'[i] = pending[i + 1]
    <3>1. pending \in Seq(SignalRecords)
      BY DEF IInv, TypeOK
    <3>2. QED
      BY <2>1, <3>1
  <2>3. \A a \in Addrs : Signalled(a)' => Signalled(a)
    BY <2>1, <2>2 DEF Signalled, Named
  <2>4. QED
    BY <2>1, <2>3, Unseen DEF Faithful, Mapped
<1>23. ASSUME HelperLock
       PROVE  Faithful
  <2>1. /\ ran' = 0 /\ si' = si /\ pending' = pending
        /\ live' = live /\ allTimers' = allTimers /\ heap' = heap /\ ktimer' = ktimer
        /\ active' = active /\ deleted' = deleted /\ ptr' = ptr /\ pc' = pc
    BY <1>23 DEF HelperLock
  <2>2. \A a \in Addrs : Signalled(a)' => Signalled(a)
    BY <2>1 DEF Signalled, Named
  <2>3. QED
    BY <2>1, <2>2, Unseen DEF Faithful, Service!Next, Service!Rest
<1>24. ASSUME HelperRun
       PROVE  Faithful
  BY <1>24, Started
<1>25. ASSUME HelperCancelled
       PROVE  Faithful
  BY <1>25, Quiet DEF HelperCancelled
<1>26. CASE UNCHANGED vars
  BY <1>26, Quiet
<1>27. QED
  BY <1>1, <1>2, <1>3, <1>4, <1>5, <1>6, <1>7, <1>8, <1>9, <1>10, <1>11, <1>12, <1>13,
     <1>14, <1>15, <1>16, <1>17, <1>18, <1>19, <1>20, <1>21, <1>22, <1>23, <1>24, <1>25,
     <1>26 DEF Next, Call, Continue, HelperStep

(* Both libraries, with every fault and a fork, give the application the     *)
(* timers of TimerService: what one call does never shows in another timer,  *)
(* and in the child of a fork no function of the parent's timers is started. *)
THEOREM TimersAreTheService ==
  Spec => ImplementsTimerService
<1>1. Init => IInv /\ SilentOK /\ FreshOK
  BY Start DEF Init, SilentOK, FreshOK, Listed
<1>2. Init => Service!Init
  <2>1. ASSUME Init
        PROVE  Service!Init
    <3>1. /\ active = <<>> /\ live = {} /\ deleted = {} /\ ran = 0
          /\ \A a \in Addrs : heap[a] = NULL
      BY <2>1 DEF Init
    <3>2. DOMAIN Shown = {}
      BY <3>1 DEF Shown
    <3>3. \A f : f \notin Leaving
      BY <3>1 DEF Leaving, Listed
    <3>4. \A f : f \notin Gone
      BY <3>1 DEF Gone, Abandoned
    <3>5. QED
      BY <3>1, <3>2, <3>3, <3>4 DEF Service!Init
  <2>2. QED
    BY <2>1
<1>3. IInv /\ IInv' /\ SilentOK /\ FreshOK /\ [Next]_vars
        => SilentOK' /\ FreshOK' /\ [Service!Next]_Mapped
  BY StepsAreFaithful DEF Faithful
<1>4. QED
  BY <1>1, <1>2, <1>3, Invariance, PTL DEF Spec, ImplementsTimerService, Service!Spec, Mapped
=============================================================================

