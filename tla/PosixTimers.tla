---------------------------- MODULE PosixTimers ----------------------------
(***************************************************************************)
(* POSIX timers on the kernel's ktimer_* calls (nptl/timer_*.c and         *)
(* linuxthreads/timer_*.c, and their kernel-posix-timers.h): the table     *)
(* that turns small timer ids into pointers, the list of SIGEV_THREAD      *)
(* timers and its mutex, and the helper thread that turns SIGTIMER into a  *)
(* thread running the user's function.  The two differ in how the helper's *)
(* id becomes known.                                                       *)
(*                                                                         *)
(* Malloc may hand out an address again once it is freed, and the kernel   *)
(* may hand out a timer id again once it is deleted.  A number fn stands   *)
(* for the function and value given to one timer_create call, so that two  *)
(* timers at one address can be told apart.                                *)
(***************************************************************************)
EXTENDS Integers, Sequences, FiniteSets

CONSTANTS Threads,      \* the application's threads
          Addrs,        \* what malloc can return for a struct timer
          Kids,         \* the kernel's timer ids
          TimerMax,     \* TIMER_MAX
          MaxCreates,   \* bound: no timer_create starts after this many
          Kernels,      \* the sets of calls a kernel may have
          Faults,       \* what may go wrong: a subset of AllFaults
          Lib,          \* "nptl" or "linuxthreads"
          Helper, NULL  \* the helper thread; no value

SysCalls == {"clock_getres", "ktimer"}
AllFaults == {"malloc", "thread", "ktimer", "cancel", "lateSignal", "fork"}

ASSUME ConstantsOK == /\ TimerMax \in Nat \ {0}
                      /\ MaxCreates \in Nat
                      /\ Kernels \subseteq SUBSET SysCalls /\ Faults \subseteq AllFaults
                      /\ Lib \in {"nptl", "linuxthreads"}
                      /\ NULL \notin Addrs \cup Kids \cup Threads \cup {Helper}
                      /\ Helper \notin Threads

Ids == 0 .. TimerMax - 1
Kinds == {"signal", "thread"}       \* sigev_notify: SIGEV_THREAD, or any other

VARIABLES
  allTimers,  \* __all_timers
  heap,       \* struct timer at each address, NULL where nothing is allocated
  active,     \* __active_timer_sigev_thread, head first
  lock,       \* owner of __active_timer_sigev_thread_lock, or NULL
  once,       \* __helper_once
  helperTid,  \* __helper_tid # 0
  sem,        \* __helper_tid_semaphore (linuxthreads)
  atfork,     \* reset_helper_control is registered
  noPosix,    \* __no_posix_timers
  helper, si, \* where the helper thread is, and the signal it has taken
  pc, kind, ptr, idx,   \* per thread: label, sigev_notify, newp or kt, i
  calls,      \* the calls the running kernel has
  ktimer,     \* the kernel's timers
  pending,    \* SIGTIMER signals queued for the helper, oldest first
  live,       \* timer ids the application holds
  created, expired, deleted, ran  \* history: calls counted, timers that have
                                  \* expired, are deleted, and what ran last

table == <<allTimers, live>>
list == <<active, lock>>
start == <<sem, atfork>>
help == <<once, helperTid, start, helper, si, ran>>
locals == <<kind, ptr, idx>>
kern == <<calls, ktimer, pending, expired>>
vars == <<table, heap, list, help, noPosix, pc, locals, kern, created, deleted>>

Fns == Nat \ {0}
TimerRecords == [notify : Kinds \cup {"unset"}, ktimerid : Kids \cup {NULL}, fn : Fns]
KTimerRecords == [addr : Addrs, notify : Kinds, fn : Fns, armed : BOOLEAN]
SignalRecords == [addr : Addrs, fn : Fns]

ASSUME NullOK == NULL \notin TimerRecords \cup KTimerRecords \cup SignalRecords

Timer(n, k, f) == [notify |-> n, ktimerid |-> k, fn |-> f]
KTimer(a, n, f, on) == [addr |-> a, notify |-> n, fn |-> f, armed |-> on]
Signal(a, f) == [addr |-> a, fn |-> f]

Listed(a) == \E i \in 1 .. Len(active) : active[i] = a

Queued(s) == \E i \in 1 .. Len(pending) : pending[i] = s

(* __kfreebsd_timer_ptr2id: the first slot that holds the pointer. *)
ptr2id(a) == CHOOSE i \in Ids : /\ allTimers[i] = a
                                /\ \A j \in Ids : j < i => allTimers[j] # a

Init == /\ allTimers = [i \in Ids |-> NULL]
        /\ heap = [a \in Addrs |-> NULL]
        /\ active = <<>> /\ lock = NULL
        /\ once = "no" /\ helperTid = FALSE /\ noPosix = 0
        /\ sem = 0 /\ atfork = FALSE
        /\ helper = "none" /\ si = NULL
        /\ pc = [t \in Threads |-> "idle"]
        /\ kind = [t \in Threads |-> "signal"]
        /\ ptr = [t \in Threads |-> NULL]
        /\ idx = [t \in Threads |-> 0]
        /\ calls \in Kernels
        /\ ktimer = [k \in Kids |-> NULL]
        /\ pending = <<>>
        /\ live = {}
        /\ created = 0 /\ expired = {} /\ deleted = {} /\ ran = 0

Goto(t, l) == pc' = [pc EXCEPT ![t] = l]

(* A call returns: the thread's locals are dead. *)
Return(t) == /\ Goto(t, "idle")
             /\ kind' = [kind EXCEPT ![t] = "signal"]
             /\ ptr' = [ptr EXCEPT ![t] = NULL]
             /\ idx' = [idx EXCEPT ![t] = 0]

-----------------------------------------------------------------------------
(* timer_create.  With __no_posix_timers < 0 every call goes to the generic  *)
(* code of the C library, which is not in this repository: no action here.   *)

CreateCall(t, k) ==
  /\ pc[t] = "idle" /\ created < MaxCreates /\ noPosix >= 0
  /\ kind' = [kind EXCEPT ![t] = k]
  /\ Goto(t, IF k = "signal" THEN "malloc" ELSE IF noPosix = 0 THEN "probe" ELSE "once")
  /\ UNCHANGED <<table, heap, list, help, noPosix, ptr, idx, kern, created, deleted>>

(* Mutant: the result of the call is not looked at. *)
MutProbed == 1

Probed == IF "clock_getres" \in calls THEN 1 ELSE -1

(* "Make sure we have the necessary kernel support": clock_getres is tried. *)
Probe(t) ==
  /\ pc[t] = "probe"
  /\ noPosix' = Probed
  /\ Goto(t, "once")
  /\ UNCHANGED <<table, heap, list, help, locals, kern, created, deleted>>

(* pthread_once, the test of __helper_tid, and the way to the generic code. *)
Once(t) ==
  /\ pc[t] = "once"
  /\ \/ noPosix > 0 /\ once = "no" /\ once' = "running"
          /\ Goto(t, "start") /\ UNCHANGED locals
     \/ noPosix > 0 /\ once = "done" /\ helperTid
          /\ Goto(t, "malloc") /\ UNCHANGED <<once, locals>>
     \/ (noPosix <= 0 \/ (once = "done" /\ ~helperTid))
          /\ Return(t) /\ UNCHANGED once
  /\ UNCHANGED <<table, heap, list, helperTid, start, helper, si, ran, noPosix,
                 kern, created, deleted>>

(* __start_helper_thread: once done it is never called again.  In nptl the   *)
(* creator stores the helper's id; in linuxthreads it waits until the helper *)
(* has done so.                                                              *)
StartHelper(t) ==
  /\ pc[t] = "start" /\ sem' = 0
  /\ \/ Lib = "nptl" /\ helperTid' = TRUE /\ helper' = "wait" /\ Goto(t, "atfork")
     \/ Lib = "linuxthreads" /\ helper' = "new" /\ Goto(t, "semwait")
          /\ UNCHANGED helperTid
     \/ "thread" \in Faults /\ Goto(t, "atfork") /\ UNCHANGED <<helperTid, helper>>
  /\ UNCHANGED <<table, heap, list, once, atfork, si, ran, noPosix, locals, kern,
                 created, deleted>>

(* Mutant: the helper tells nobody. *)
MutSemPost == UNCHANGED sem

SemPost == sem' = sem + 1

(* The helper's first steps in linuxthreads: thr_self and sem_post. *)
HelperAnnounce ==
  /\ helper = "new" /\ helper' = "wait"
  /\ helperTid' = TRUE /\ SemPost
  /\ UNCHANGED <<table, heap, list, once, atfork, si, ran, noPosix, pc, locals, kern,
                 created, deleted>>

SemWait(t) ==
  /\ pc[t] = "semwait" /\ sem > 0 /\ sem' = sem - 1
  /\ Goto(t, "atfork")
  /\ UNCHANGED <<table, heap, list, once, helperTid, atfork, helper, si, ran, noPosix,
                 locals, kern, created, deleted>>

(* pthread_atfork, and the end of pthread_once. *)
AtFork(t) ==
  /\ pc[t] = "atfork" /\ atfork' = TRUE /\ once' = "done"
  /\ Goto(t, "once")
  /\ UNCHANGED <<table, heap, list, helperTid, sem, helper, si, ran, noPosix, locals,
                 kern, created, deleted>>

(* malloc in __kfreebsd_timer_alloc.  A NULL from malloc falls through the   *)
(* scan without changing a slot, and timer_create fails.                     *)
Malloc(t) ==
  /\ pc[t] = "malloc"
  /\ \/ \E a \in Addrs :
          /\ heap[a] = NULL
          /\ heap' = [heap EXCEPT ![a] = Timer("unset", NULL, created + 1)]
          /\ created' = created + 1
          /\ ptr' = [ptr EXCEPT ![t] = a]
          /\ idx' = [idx EXCEPT ![t] = 0]
          /\ Goto(t, "scan") /\ UNCHANGED kind
     \/ /\ "malloc" \in Faults \/ \A a \in Addrs : heap[a] # NULL
        /\ Return(t) /\ UNCHANGED <<heap, created>>
  /\ UNCHANGED <<table, list, help, noPosix, kern, deleted>>

(* Mutant: the loop goes one slot too far. *)
MutMoreSlots(i) == i < TimerMax

MoreSlots(i) == i + 1 < TimerMax

(* One compare-and-swap on one slot.  When the last one fails the struct is  *)
(* not freed: it stays allocated and nothing points to it any more.          *)
Scan(t) ==
  /\ pc[t] = "scan"
  /\ \/ /\ allTimers[idx[t]] = NULL
        /\ allTimers' = [allTimers EXCEPT ![idx[t]] = ptr[t]]
        /\ Goto(t, "ktimer") /\ UNCHANGED locals
     \/ /\ allTimers[idx[t]] # NULL /\ MoreSlots(idx[t])
        /\ idx' = [idx EXCEPT ![t] = @ + 1]
        /\ UNCHANGED <<allTimers, pc, kind, ptr>>
     \/ /\ allTimers[idx[t]] # NULL /\ ~MoreSlots(idx[t])
        /\ Return(t) /\ UNCHANGED allTimers
  /\ UNCHANGED <<live, heap, list, help, noPosix, kern, created, deleted>>

(* Mutant: the struct and its slot are not given back. *)
MutCreateFailed(t) == Return(t)

CreateFailed(t) == Goto(t, "clear") /\ UNCHANGED locals

(* Filling in the struct and ktimer_create, which for a thread timer names   *)
(* the helper as the target and the struct's address as the signal's value.  *)
KtimerCreate(t) ==
  LET a == ptr[t]  f == heap[a].fn  IN
  /\ pc[t] = "ktimer"
  /\ \/ \E k \in Kids :
          /\ "ktimer" \in calls /\ ktimer[k] = NULL
          /\ ktimer' = [ktimer EXCEPT ![k] = KTimer(a, kind[t], f, FALSE)]
          /\ heap' = [heap EXCEPT ![a] = Timer(kind[t], k, f)]
          /\ IF kind[t] = "thread"
               THEN Goto(t, "lock.push") /\ UNCHANGED <<locals, live>>
               ELSE Return(t) /\ live' = live \cup {ptr2id(a)}
     \/ /\ "ktimer" \notin calls \/ "ktimer" \in Faults \/ \A k \in Kids : ktimer[k] # NULL
        /\ CreateFailed(t)
        /\ UNCHANGED <<ktimer, heap, live>>
  /\ noPosix' = (IF kind[t] = "signal" /\ "ktimer" \in calls THEN 1 ELSE noPosix)
  /\ UNCHANGED <<allTimers, list, help, calls, pending, expired, created, deleted>>

(* pthread_mutex_lock, for the two uses of the list. *)
LockList(t) ==
  /\ pc[t] \in {"lock.push", "lock.unlink"} /\ lock = NULL /\ lock' = t
  /\ Goto(t, IF pc[t] = "lock.push" THEN "push" ELSE "unlink")
  /\ UNCHANGED <<table, heap, active, help, noPosix, locals, kern, created, deleted>>

(* Mutant: the mutex is left locked. *)
MutUnlockList == UNCHANGED lock

UnlockList == lock' = NULL

Push(t) ==
  /\ pc[t] = "push"
  /\ active' = <<ptr[t]>> \o active /\ UnlockList
  /\ live' = live \cup {ptr2id(ptr[t])}
  /\ Return(t)
  /\ UNCHANGED <<allTimers, heap, help, noPosix, kern, created, deleted>>

-----------------------------------------------------------------------------
(* timer_delete, timer_settime, timer_gettime and timer_getoverrun.  The     *)
(* application uses an id only between timer_create and timer_delete; then   *)
(* the slot is never empty and the kernel knows the timer.                   *)

DeleteCall(t, id) ==
  /\ pc[t] = "idle" /\ noPosix >= 0 /\ id \in live
  /\ live' = live \ {id}
  /\ ptr' = [ptr EXCEPT ![t] = allTimers[id]]
  /\ Goto(t, "ktimerDelete")
  /\ UNCHANGED <<allTimers, heap, list, help, noPosix, kind, idx, kern, created, deleted>>

(* Mutant: the timer stays on the list. *)
MutAfterKtimerDelete(notify) == "clear"

AfterKtimerDelete(notify) == IF notify = "thread" THEN "lock.unlink" ELSE "clear"

(* Mutant: the struct goes, the kernel's timer stays. *)
MutForgotten(k) == ktimer

Forgotten(k) == [ktimer EXCEPT ![k] = NULL]

(* The kernel may or may not take back a signal that is still queued; there  *)
(* is one for each timer at most.                                            *)
Withdrawn(i) == [j \in 1 .. Len(pending) - 1 |-> pending[IF j < i THEN j ELSE j + 1]]

KtimerDelete(t) ==
  LET tm == heap[ptr[t]]  s == Signal(ptr[t], tm.fn)  IN
  /\ pc[t] = "ktimerDelete"
  /\ ktimer' = Forgotten(tm.ktimerid)
  /\ \/ \E i \in 1 .. Len(pending) : pending[i] = s /\ pending' = Withdrawn(i)
     \/ (~Queued(s) \/ "lateSignal" \in Faults) /\ UNCHANGED pending
  /\ noPosix' = 1
  /\ Goto(t, AfterKtimerDelete(tm.notify))
  /\ UNCHANGED <<table, heap, list, help, locals, calls, expired, created, deleted>>

(* Mutant: what follows the timer is dropped from the list with it. *)
MutWithout(s, i) == SubSeq(s, 1, i - 1)

Without(s, i) == SubSeq(s, 1, i - 1) \o SubSeq(s, i + 1, Len(s))

Unlink(t) ==
  /\ pc[t] = "unlink" /\ UnlockList
  /\ \E i \in 1 .. Len(active) : active[i] = ptr[t] /\ active' = Without(active, i)
  /\ Goto(t, "clear")
  /\ UNCHANGED <<table, heap, help, noPosix, locals, kern, created, deleted>>

(* __kfreebsd_timer_free: the slot first, then the memory. *)
ClearSlot(t) ==
  /\ pc[t] = "clear"
  /\ allTimers' = [allTimers EXCEPT ![ptr2id(ptr[t])] = NULL]
  /\ Goto(t, "free")
  /\ UNCHANGED <<live, heap, list, help, noPosix, locals, kern, created, deleted>>

Free(t) ==
  /\ pc[t] = "free"
  /\ deleted' = deleted \cup {heap[ptr[t]].fn}
  /\ heap' = [heap EXCEPT ![ptr[t]] = NULL]
  /\ noPosix' = (IF kind[t] = "signal" /\ "ktimer" \notin calls THEN -1 ELSE noPosix)
  /\ Return(t)
  /\ UNCHANGED <<table, list, help, kern, created>>

SetTime(t, id, on) ==
  LET k == heap[allTimers[id]].ktimerid  kt == ktimer[k]  IN
  /\ pc[t] = "idle" /\ noPosix >= 0 /\ id \in live
  /\ ktimer' = [ktimer EXCEPT ![k] = KTimer(kt.addr, kt.notify, kt.fn, on)]
  /\ noPosix' = 1
  /\ UNCHANGED <<table, heap, list, help, pc, locals, calls, pending, expired,
                 created, deleted>>

(* timer_gettime and timer_getoverrun *)
Ask(t, id) ==
  /\ pc[t] = "idle" /\ noPosix >= 0 /\ id \in live
  /\ noPosix' = 1
  /\ UNCHANGED <<table, heap, list, help, pc, locals, kern, created, deleted>>

-----------------------------------------------------------------------------
(* The kernel: a timer expires, once or again and again.  One signal is      *)
(* queued per timer, however often it expires.                               *)
Expire(k, again) ==
  LET kt == ktimer[k] IN
  /\ kt # NULL /\ kt.armed
  /\ ktimer' = [ktimer EXCEPT ![k] = KTimer(kt.addr, kt.notify, kt.fn, again)]
  /\ expired' = expired \cup {kt.fn}
  /\ pending' = IF kt.notify = "thread" /\ ~Queued(Signal(kt.addr, kt.fn))
                  THEN Append(pending, Signal(kt.addr, kt.fn)) ELSE pending
  /\ UNCHANGED <<table, heap, list, help, noPosix, pc, locals, calls, created, deleted>>

(* timer_helper_thread *)
HelperWait ==
  /\ helper = "wait" /\ pending # <<>>
  /\ si' = Head(pending) /\ pending' = Tail(pending)
  /\ helper' = "got"
  /\ UNCHANGED <<table, heap, list, once, helperTid, start, ran, noPosix, pc, locals,
                 calls, ktimer, expired, created, deleted>>

(* SI_LWP or SI_USER: the thread exits; __helper_tid keeps its value. *)
HelperCancelled ==
  /\ "cancel" \in Faults /\ helper = "wait" /\ helper' = "none"
  /\ UNCHANGED <<table, heap, list, once, helperTid, start, si, ran, noPosix, pc,
                 locals, kern, created, deleted>>

HelperLock ==
  /\ helper = "got" /\ lock = NULL /\ lock' = Helper /\ helper' = "run" /\ ran' = 0
  /\ UNCHANGED <<table, heap, active, once, helperTid, start, si, noPosix, pc, locals,
                 kern, created, deleted>>

(* Mutant: the search does not follow the links. *)
MutSearch(a) == active # <<>> /\ Head(active) = a

Search(a) == Listed(a)

(* What the memory holds: after free, what it held before. *)
Contents(a, f) == IF heap[a] = NULL THEN f ELSE heap[a].fn

(* The search of the list for the address, and pthread_create. *)
HelperRun ==
  /\ helper = "run" /\ helper' = "wait" /\ si' = NULL /\ UnlockList
  /\ \/ Search(si.addr) /\ ran' = Contents(si.addr, si.fn)
     \/ (~Search(si.addr) \/ "malloc" \in Faults) /\ UNCHANGED ran
  /\ UNCHANGED <<table, heap, active, once, helperTid, start, noPosix, pc, locals,
                 kern, created, deleted>>

(* Mutant: the child believes it has the helper of its parent. *)
MutResetHelperControl == UNCHANGED <<once, helperTid, sem>>

(* reset_helper_control *)
ResetHelperControl == once' = "no" /\ helperTid' = FALSE /\ sem' = 0

(* pthread_once starts again what the fork has interrupted. *)
OnceAfterFork == once' = (IF once = "running" THEN "no" ELSE once)

(* fork, seen from the child: one thread, no kernel timers, no helper, and   *)
(* the handler has run if it was registered.  The ids of the parent are not  *)
(* the child's.                                                              *)
Fork(t) ==
  /\ "fork" \in Faults /\ pc[t] = "idle" /\ \A u \in Threads : pc[u] # "gone"
  /\ pc' = [u \in Threads |-> IF u = t THEN "idle" ELSE "gone"]
  /\ \/ atfork /\ ResetHelperControl
     \/ ~atfork /\ OnceAfterFork /\ UNCHANGED <<helperTid, sem>>
  /\ helper' = "none" /\ si' = NULL
  /\ ktimer' = [k \in Kids |-> NULL] /\ pending' = <<>> /\ live' = {}
  /\ UNCHANGED <<allTimers, heap, list, atfork, ran, noPosix, locals, calls, expired,
                 created, deleted>>

-----------------------------------------------------------------------------
Continue(t) == \/ Probe(t) \/ Once(t) \/ StartHelper(t) \/ SemWait(t) \/ AtFork(t)
               \/ Malloc(t) \/ Scan(t) \/ KtimerCreate(t) \/ Push(t) \/ KtimerDelete(t) \/ Unlink(t)
               \/ ClearSlot(t) \/ Free(t)

Call(t) == \/ \E k \in Kinds : CreateCall(t, k)
           \/ \E id \in Ids : DeleteCall(t, id)
           \/ \E id \in Ids, on \in BOOLEAN : SetTime(t, id, on)
           \/ \E id \in Ids : Ask(t, id)

HelperStep == HelperAnnounce \/ HelperWait \/ HelperLock \/ HelperRun

Next == \/ \E t \in Threads : Call(t) \/ Continue(t) \/ LockList(t) \/ Fork(t)
        \/ \E k \in Kids, again \in BOOLEAN : Expire(k, again)
        \/ HelperStep \/ HelperCancelled

Spec == Init /\ [][Next]_vars

(* Threads run, the helper runs, and the mutex starves nobody. *)
FairSpec == Spec /\ \A t \in Threads : WF_vars(Continue(t)) /\ SF_vars(LockList(t))
                 /\ WF_vars(HelperStep)
-----------------------------------------------------------------------------
Labels == {"idle", "probe", "once", "start", "semwait", "atfork", "malloc", "scan", "ktimer",
           "lock.push", "push", "ktimerDelete", "lock.unlink", "unlink",
           "clear", "free", "gone"}

(* The types of everything above. *)
TypeOK ==
  /\ allTimers \in [Ids -> Addrs \cup {NULL}] /\ live \subseteq Ids
  /\ heap \in [Addrs -> TimerRecords \cup {NULL}]
  /\ active \in Seq(Addrs) /\ lock \in Threads \cup {Helper, NULL}
  /\ once \in {"no", "running", "done"} /\ helperTid \in BOOLEAN
  /\ sem \in {0, 1} /\ atfork \in BOOLEAN
  /\ noPosix \in {-1, 0, 1}
  /\ helper \in {"none", "new", "wait", "got", "run"}
  /\ si \in SignalRecords \cup {NULL}
  /\ pc \in [Threads -> Labels] /\ kind \in [Threads -> Kinds]
  /\ ptr \in [Threads -> Addrs \cup {NULL}] /\ idx \in [Threads -> Ids]
  /\ calls \in Kernels
  /\ ktimer \in [Kids -> KTimerRecords \cup {NULL}]
  /\ pending \in Seq(SignalRecords)
  /\ created \in Nat /\ expired \subseteq Fns /\ deleted \subseteq Fns
  /\ ran \in Nat

(* Two threads that reserve slots at the same time, or while a third frees   *)
(* one, never end up with one timer in two slots; and a slot in use is known *)
(* to the application or to a call that is still under way.                  *)
SlotsAccountedFor ==
  /\ \A i, j \in Ids : allTimers[i] = allTimers[j] /\ allTimers[i] # NULL => i = j
  /\ \A i \in Ids : allTimers[i] # NULL =>
       i \in live \/ \E t \in Threads : ptr[t] = allTimers[i]

(* The ids the application holds lead to an allocated struct, which leads to *)
(* a kernel timer made for that very struct: no later create, delete or      *)
(* reuse of an address or kernel id has cut or crossed the chain.            *)
LiveTimersReachTheirKernelTimer ==
  \A id \in live :
    LET a == allTimers[id] IN
    /\ a # NULL /\ heap[a] # NULL /\ heap[a].ktimerid # NULL
    /\ LET kt == ktimer[heap[a].ktimerid] IN
         kt # NULL /\ kt.addr = a /\ kt.fn = heap[a].fn
    /\ heap[a].notify = "thread" <=> Listed(a)
    /\ \A t \in Threads : ptr[t] # a

(* The kernel never holds a timer that names memory that is free, or that no *)
(* struct names back: the signal it sends leads to a struct.                 *)
KernelTimersHaveStructs ==
  \A k \in Kids : ktimer[k] # NULL =>
    LET a == ktimer[k].addr IN
    heap[a] # NULL /\ heap[a].ktimerid = k /\ heap[a].fn = ktimer[k].fn

(* What the helper may read under the lock is allocated and is a thread      *)
(* timer, and the list holds no timer twice: unlinking one leaves none.      *)
ListedTimersAreAllocated ==
  /\ \A i, j \in 1 .. Len(active) : active[i] = active[j] => i = j
  /\ \A i \in 1 .. Len(active) :
       heap[active[i]] # NULL /\ heap[active[i]].notify = "thread"

(* The list's mutex has an owner that is running: it will be unlocked. *)
LockOwnerIsRunning ==
  lock # NULL => \/ lock = Helper /\ helper = "run"
                 \/ lock \in Threads /\ pc[lock] \in {"push", "unlink"}

(* A timer that runs its function in a thread has a helper to start it, in   *)
(* the child of a fork too, as long as nobody cancels the helper and the     *)
(* child can start threads.                                                  *)
ThreadTimersHaveAHelper ==
  \A id \in live : heap[allTimers[id]].notify = "thread" => helper # "none"

(* After timer_delete has freed a timer its function is never started again, *)
(* even by a helper that took the signal before.                             *)
DeletedTimersNeverRun == [][ran' # ran => ran' \notin deleted]_vars

(* "Check the timer is still used": what the helper starts has expired. *)
OnlyExpiredTimersRun == ran # 0 => ran \in expired

(* "Make sure we do not try to use it again." *)
MissingCallsAreNotRetried == [][noPosix = -1 => noPosix' = -1]_vars

(* What the timers are for the application.  A struct is held while a call   *)
(* that will give it an id or free it is under way; without that or an id it *)
(* is abandoned: timer_create found the table full, or a fork came between.  *)
Held(a) == \E t \in Threads : pc[t] # "gone" /\ ptr[t] = a

Abandoned(a) == heap[a] # NULL /\ ~Held(a) /\ \A id \in live : allTimers[id] # a

Shown ==
  [id \in live |->
     LET tm == heap[allTimers[id]]
     IN  [kind |-> tm.notify, fn |-> tm.fn, armed |-> ktimer[tm.ktimerid].armed]]

Leaving == {heap[a].fn : a \in {b \in Addrs : Listed(b) /\ Held(b)}}

Gone == deleted \cup {heap[a].fn : a \in {b \in Addrs : Abandoned(b)}}

Service == INSTANCE TimerService
             WITH timers <- Shown, leaving <- Leaving, gone <- Gone

(* Whatever the table, the list, the helper and the kernel do, the           *)
(* application sees timers that are what TimerService says: a call for one   *)
(* id never changes another timer, no timer that is deleted comes back with  *)
(* a reused id, address or signal, and the child of a fork runs no function  *)
(* of its parent's timers.                                                   *)
ImplementsTimerService == Service!Spec

(* Every call that starts returns. *)
CallsReturn == \A t \in Threads : pc[t] # "idle" ~> pc[t] = "idle"

(* An expiry leads to the function being run, or to a deleted timer. *)
ExpiryIsServed ==
  \A a \in Addrs :
    (\E i \in 1 .. Len(pending) : pending[i].addr = a)
      ~> (heap[a] # NULL /\ ran = heap[a].fn) \/ ~Listed(a)
=============================================================================
