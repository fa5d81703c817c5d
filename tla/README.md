# A verification of the kFreeBSD side of the C library

The repository is the Debian packaging for DragonFly and kFreeBSD. Most of it
is build rules, maintainer scripts and patches to code that lives elsewhere.
The program of its own is `src/glibc-ports/kfreebsd`: the part of the GNU C
library that turns POSIX and Linux interfaces into what this kernel offers.
This directory models that part in TLA+, checks the models with TLC on small
instances, and proves the main theorems with TLAPS.

## 1. The system

### Inventory

| Component | State | Operations | What is hard | Correct means |
|---|---|---|---|---|
| rtld multi-reader lock (`rtld-lowlevel.h`, `linuxthreads/lowlevellock.h`) | one word: reader count, WRITER, RWAIT, WWAIT | lock, unlock, change, done | several atomic accesses to one word, stale copies, kernel wait and wake, signals | exclusion, no lost wakeup, the writer is not starved |
| POSIX timers (`nptl/timer_*.c`, `linuxthreads/timer_*.c`, their `kernel-posix-timers.h`) | `__all_timers`, the list of thread timers and its mutex, `__helper_once`, `__helper_tid` and in linuxthreads its semaphore, `__no_posix_timers`, the kernel's timers | create, delete, settime, gettime, getoverrun, the helper thread, the fork handler | slots taken without a lock, a helper that gets addresses in signals, memory reuse, fork, missing system calls | ids lead to the right kernel timer, nothing freed is used, deleted timers do not run, expiries are served |
| \*at calls and `fexecve` (16 files) | `__have_atfcts`; the descriptor table and the names, which belong to the kernel and to everybody | openat, mkdirat, unlinkat, linkat, renameat, ... | a path read from sysctl and used later, while descriptors, working directory and names change | a call acts where the kernel's own call would have |
| interface and mount enumeration (`if_index.c`, `ifaddrs.c`, `ifreq.c`, `getmntinfo*.c`) | the static buffer of getmntinfo and its size; the kernel's lists, which change at any time | getifaddrs, if_nameindex, if_nametoindex, if_indextoname, `__ifreq`, getmntinfo | the list grows between the call that measures it and the one that reads it; a second pass trusts the first; a buffer kept from call to call | the complete list of one moment or an error, no buffer overrun, an end |
| utmp compatibility (`utmp-compat/`) | the utmp file, which other processes write too | convert records, put one (`pututxline`), look one up (`getutxline`) | which record a new one replaces, sessions that die, records changing during a lookup, a pid hidden in another field | one record for a line, the one of the session that is there |
| terminals (`getpt.c`, `ptsname.c`, `ttyname*.c`, `getlogin*.c`) | which terminals are open belongs to the kernel; a cached name | search for a free master, name lookups | devices taken and given back by others during the search | a failure only if there was nothing to get |
| processes (`clone.c`, `getosreldate.c`, `start_thread.S`, `init-first.c`) | the version of the kernel, once asked for; masks and stacks of two processes | translate the flags, bring the child from one stack to another | signals between any two instructions, shared memory, two architectures, kernels that name the signal differently | the handlers', the program's and the parent's view of the child are the ones asked for |
| conversions (`statfsconv.c`, `stat16conv.c`, `getdirentries.c`) | none | copy fields | widths | no value changed silently |
| other wrappers | none | one system call each | nothing with state | |
| packaging (the other directories of `src/`) | | scripts and data | | not modelled |

### How the parts interact

They meet in three places. **Missing system calls**: `init-first.c` ignores
SIGSYS, so that a call the kernel lacks returns ENOSYS; timers and \*at calls
remember the answer in a global that all threads read and write without a
lock; clone remembers the version of the kernel. **Callbacks**: the kernel sends SIGTIMER with the address of a
`struct timer` to the helper thread, which starts the user's function in a
thread of its own; `fork` runs `reset_helper_control` in the child. **Shared
state outside the process**: the descriptor table, the working directory and
the names of directories change while a \*at call is under way; terminals and
the utmp file are shared with every session on the machine.

Terminals and utmp meet in a session, which opens a terminal and enters itself
under its name; `Sessions` composes the two. The other components do not call
one another, so each is modelled with the part of the kernel it talks to.

## 2. The modules

| Module | Models | Role |
|---|---|---|
| `ReadersWriter` | what a multi-reader lock promises | abstract specification |
| `MrLock` | the four macros and umtx | implements `ReadersWriter` |
| `MrLock_proofs` | | theorems about `MrLock` |
| `TimerService` | what the timers of a process promise | abstract specification |
| `PosixTimers` | the timers of both thread libraries, helper, fork and kernel timers | implements `TimerService` |
| `MCPosixTimers` | | symmetry for TLC |
| `PosixTimers_proofs` | | theorems about `PosixTimers` |
| `AtEmulation` | \*at calls on the descriptor table | |
| `MCAtEmulation` | | the calls TLC makes |
| `AtEmulation_proofs` | | theorems about `AtEmulation` |
| `IfList` | the kernel's report of the interfaces, the passes over it, and what they should find | pure operators |
| `SizedQuery` | the functions that read such a report, or the mounted file systems, into a buffer | uses `IfList` |
| `MCSizedQuery` | | the lists TLC uses |
| `SequenceFolds` | | lemmas: what folds over a sequence compute |
| `IfList_proofs` | | theorems about `IfList`, with `SequenceFolds` |
| `SizedQuery_proofs` | | theorems about `SizedQuery`, with those of `IfList_proofs` |
| `Clone` | clone and `__start_thread` in parent and child | |
| `MCClone` | | the calls TLC makes |
| `Clone_proofs` | | theorems about `Clone` |
| `Utmp` | the conversions of records and which one replaces which | pure operators |
| `Directory` | what the utmp file promises | abstract specification |
| `Sessions` | getpt, ptsname, pututxline and getutxline in sessions that come and go | uses `Utmp`, implements `Directory` |
| `MCSessions` | | names, hosts and records for TLC |
| `Sessions_proofs` | | theorems about `Sessions` |

Definitions named `Mut...` are deliberate faults, each next to the definition it
would replace; a property is worth checking only if such a fault breaks it.

### MrLock

`lv` is the word with its fields kept apart; `oldval` and `tries` are the
locals of the macros, `pc` says where each thread is. One action is one access
to the word or one system call, with the local computation after it:

| Code | Action |
|---|---|
| `oldval = (lock).iv` and the test (52-57) | `LockLoad` |
| compare-and-swap, and the test again when it fails (58-66) | `LockCas` |
| end of the `for` loop (67-68) | `NextTry` |
| `atomic_or RWAIT` (71-72) | `LockSetRWait` |
| `lll_futex_wait` (74) | `LockWait`, to `lock.sleep` if the word still is `oldval` |
| `unlock`, `done`: the add (82, 125) | `Unlock`, `Done` |
| `lll_futex_wake` (88, 127) | `WakeAll` |
| `change` (101-117) | `ChangeLoad`, `ChangeCas`, `ChangeSetWWait`, `ChangeWait` |

A reader's compare-and-swap drops RWAIT (line 58 keeps the reader bits only);
the model does the same. `ChangeStart` has the guard the comment in line 92
demands of the callers: one thread at a time asks for exclusive access. A lock
holder calls none of the macros but the one that releases. The reader count is
a natural number: 2^28 readers do not occur.

`MCMrLock.cfg` checks all of it at once on three threads and two tries: two
readers and a writer, or three readers; two tries are enough to leave the spin
loop and to go round it.

Fairness: weak fairness of each thread's own steps. The code justifies it: a
thread inside a macro is running or is woken, and the holder of the lock
releases it. Nobody is obliged to ask for the lock and no signal is owed to
anybody (`LockStart`, `ChangeStart` and `Interrupted` have none). Under it the
writer gets the lock (`WriterGetsLock`), which `ReadersWriter` states as strong
fairness of `GetExcl`. Readers are promised nothing: a writer may come back
again and again. `SleepersWake` says that at least they do not sleep forever.

### PosixTimers

| Variable | In the code |
|---|---|
| `allTimers`, `active`, `lock` | `__all_timers`, the list through `next`, its mutex |
| `once`, `helperTid`, `noPosix` | `__helper_once`, `__helper_tid # 0`, `__no_posix_timers` |
| `sem`, `atfork` | `__helper_tid_semaphore`; `reset_helper_control` is registered |
| `heap` | the `struct timer` at each address malloc may return |
| `helper`, `si` | the helper thread and its local `si` |
| `pc`, `kind`, `ptr`, `idx` | the application threads: the step, `sigev_notify`, `newp` or `kt`, `i` |
| `calls`, `ktimer`, `pending` | the kernel: which calls it has, its timers, the helper's signal queue |
| `live` | the ids the application may use |
| `created`, `expired`, `deleted`, `ran` | history |

timer_create is `CreateCall`, `Probe`, `Once`, `StartHelper`, `AtFork`, `Malloc`, `Scan`
(one step per slot: each is one compare-and-swap), `KtimerCreate`, `LockList`
and `Push`, on failure `ClearSlot` and `Free`; timer_delete is `DeleteCall`,
`KtimerDelete`, `LockList`, `Unlink`, `ClearSlot` and `Free`. timer_settime
touches shared state once and is one action; timer_gettime and
timer_getoverrun store the same 1 in `__no_posix_timers` and nothing else. The
helper is `HelperWait`, `HelperLock` and `HelperRun`. What happens under the
mutex is one step, since nobody else looks.

The two libraries differ in how the helper's id becomes known, which the
constant `Lib` selects: with nptl the creator has it at once; with linuxthreads
the helper stores it and posts a semaphore (`HelperAnnounce`), and the creator
waits for that (`SemWait`). In both the fork handler is registered only then
(`AtFork`), so a fork may come in between (`Fork`, with `OnceAfterFork` for what
the child finds in the once control).

Assumed of the environment: an application uses an id only between the create
that returned it and the delete (what POSIX demands), does not use a parent's
ids in a child, and does not call these functions in the child before the fork
handler has run. The kernel queues one signal per timer, oldest first
(`HelperWait`), and may or may not withdraw it when the timer is deleted.
malloc and the kernel reuse addresses and ids at once. What may go wrong is a
constant, `Faults`: malloc, pthread_create and ktimer_create may fail, the
helper may be cancelled, a signal may outlive its timer, the process may fork.

`TimerService` says what all this amounts to, with no table, list, mutex,
helper or signal: an id names one timer, a call for one id changes no other
timer, a function is started only for a timer that is there or is just being
deleted, a deleted timer never comes back, and the child of a fork starts
nothing of its parent's. The mapping: a timer is what an id of `live` leads to
through the table and the struct (`Shown`); being deleted are the structs on
the list that a call still holds (`Leaving`); gone are the timers deleted and
the structs that neither a call nor an id leads to (`Gone`): those of a fork,
and of a create that found the table full. Both kinds
of leftovers are never freed; those of a fork stay on the child's list and in
its table, and the mapping shows that no later timer is taken for one of them. The
service does not promise that a timer has expired before its function runs:
`timers_stray` shows that it may not have.

| Run | Shows | Bounds |
|---|---|---|
| `timers` | nptl: the safety properties and `TimerService`, with every fault but fork, on a kernel with all the calls or none | 2 threads, 2 addresses, 2 slots, 2 kernel ids; creates start until 2 structs have been allocated, so that up to 3 timers exist one after another and addresses are reused; 475 thousand states |
| `timers_fork` | linuxthreads, with a fork at any moment: `TimerService`, and every thread timer has a helper | 3 addresses for 2 slots: the full table; 3 structs; 619 thousand states |
| `timers_live` | linuxthreads: every call returns, every expiry is served | 2 threads, 2 timers, no faults; 150 thousand states |
| `timers_stray`, `timers_fork_lock` | findings, with nptl | the smallest that show them |

Two threads are enough because the code's steps involve a thread, the helper
and at most one other thread that interferes; two timers because the list and
the table distinguish first from other. TLC's deadlock check is off: the model
bounds the creates and the application may then stop. Symmetry permutes
threads, addresses and kernel ids; the run with liveness does without.

Fairness: weak for each thread's steps and for the helper, strong for taking the mutex
(a pthread mutex is handed on). Callers have none, nor has the kernel's `Expire`.

### AtEmulation

A call is a sequence of steps: try the kernel's call (`TryKernel`), or find it
missing and test the arguments (`FallBack`), measure the table (`TableSize`),
copy it and build the paths (`TableRead`), make the plain call (`PlainCall`).
What the plain call does at its destination is the same with and without the
emulation, so the model records only what a call *acts on*: the directories its
paths start from; for `fexecve` the file. `openat` stands for the calls without
flags (mkdirat, symlinkat, readlinkat, xmknodat), `unlinkat` for those that
refuse unknown flags (fchmodat, fchownat, fxstatat, faccessat). Errors are one
value; only the ENOSYS of a failing sysctl is kept apart.

`moments` is a history variable: what the kernel's own call would have acted on
at each moment of the call. `CallsAreAtomic` says that the result is one of
them: the fallback is as atomic as the system call it replaces, for both paths
of a link or rename at once, whatever is done to descriptors and working
directory, as long as nothing is renamed meanwhile. `Refused` names the calls
the fallback turns down where the kernel would not.

`at` makes one call of every kind with every mix of good, bad, closed and
unused descriptors, relative, absolute and empty paths, and lets two changes
happen in the middle; two suffice to close and reopen a descriptor or to put
one directory in another's place. Calls share no state but `__have_atfcts`,
whose only transition is to -1, so one thread and a hostile environment cover
what another caller could do. Changes between calls are covered by starting
from every table and every placement.

### IfList and SizedQuery

| Code | Action |
|---|---|
| `getifaddrs`: the sysctl for the size, and `malloc` (126-129) | `Measure` |
| the sysctl for the list, the retry, and the two passes (130-352) | `Read` |
| `getmntinfo`: the count, and a larger buffer (35-59) | `MntCount` |
| the list, and the test of the count (61-76) | `MntFill` |
| `if_iterate`: a sysctl, and its functions on the result (46-108) | `Iterate` |
| `__ifreq`: realloc and SIOCGIFCONF (62-77) | `IfConf` |

One action is one system call with the computation after it, since only the
kernel's list can change in between (`Change`). The two passes of getifaddrs
are folds over the sequence of messages the kernel reports (`Count`, `Fill`);
the first adds up the entries and the data, the second lays them out. Sizes are
in words of `sizeof(long)`. `ALIGN` rounds to two of them, the harder of the
values `ALIGNBYTES` may have, and the entries end on an odd word: only then
does the alignment of `ifa_data` take the room that the first pass allows for it.

`moments` is a history variable: the lists there were during the call.
`Wanted` says what a call should return for a list, from the list itself
and not from the messages; `ResultsAreSnapshots` says that what is returned is
what is wanted for one of the moments. `writes` records the size of
every write and the room there was, for the kernel's writes and for those of
the second pass.

Assumed of the kernel: `sysctl` fails with ENOMEM when the buffer is short and
leaves `bufsize` as it was; SIOCGIFCONF copies the records that fit; no record
is larger than `RQ_MAXSIZE` (what line 45 of `ifreq.c` assumes); getfsstat
returns how many file systems there are even if the buffer holds fewer, as the
test in line 72 of `getmntinfo.c` presumes. Messages follow their interface, in order.

What the operators on a list compute (the passes agree, the names are found,
what the kernel copies fits) is proved for every list in `IfList_proofs`; the
proofs about `SizedQuery` cite it.

The run `sized` uses six lists: none, one and two named interfaces, and up to
four with one that has no name (RTA_IFP is missing), among them addresses
without any mask, with an empty netmask and with a full one. Two changes during
a call are enough to exhaust the two tries of `MAX_SYSCTL_TRY`; the code's five
are the same loop. `BufSize` and `RQ_IFS` are small enough that the first guess
fails. Calls follow one another, and the buffer of getmntinfo survives them.
Fairness: weak fairness of the caller's own steps; the bound on the changes
says that the list does not change forever, without which no end is promised.

### Clone

| Code | Action |
|---|---|
| `clone`: the tests, `__kernel_getosreldate`, the flags (`clone.c`) | `CallRefused`, `Call` |
| `__start_thread`, caller: the arguments on the child's stack, the mask, rfork | `Args`, `Block`, `Copy`, `RforkFails`, `Rfork`, `Unmask` |
| `__start_thread`, child: the stack, the function, the mask, the call of the function | `Switch`, `Load`, `Restore`, `Start` |
| the program and the kernel | `Exit`, `Kill`, `Deliver`, `SetMask` |

A flag word is the set of the positions of its bits, and a signal the set of
the bits of its number: the properties are about bits that get lost or land in
another field. The two architectures take the same steps in different orders
(`AfterArgs`, `AfterSwitch`, `AfterLoad`, `AfterRestore`). Without RFMEM the
two processes have memories of their own and nobody touches a mask. With it,
the child comes out of rfork on its parent's stack: `clobbered` records that a
handler has run there. `wanted` is the mask the program has chosen, `asked` the
call that made a process; both are history.

`MCClone.cfg` runs two processes on old (802500) and new (900000) kernels and
both architectures: a process, a vforked one, a thread without a signal and one
with signal 128, which fits the new kernel's field only, and one call for each
way to be refused; 11 thousand states. There is nobody left for the child to
create: one generation shows all that is done between a parent and a child (the
proofs are for any number of processes). Signal 2 may come at any time, SIGCHLD and
128 come from children. Deadlock is not checked: everybody may have exited.

Fairness: weak for the steps inside clone, since a process runs; strong for
`Deliver`, since a signal that the mask lets through is taken before the next
instruction of the program. A program need not exit, nor call clone.

### Utmp, Sessions and Directory

| Code | Action |
|---|---|
| `__posix_openpt`: one name per step (`getpt.c`) | `OpenPt`, `TryNext`, `Opened`, `OpenFails` |
| `__ptsname_r` (`ptsname.c`) | `PtsName` |
| `pututxline`: `__utmpx_to_utmp` and the record it replaces | `Login`, `Logout`, `ForeignPut` |
| `getutxline`: a record per step, `__utmp_to_utmpx` | `LookUp`, `GetUtxEnt`, `LookReturns` |
| what the kernel does for a session that ends | `Close`, `Die` |

`Utmp` has the two conversions (`ToUtmp`, `ToUtmpx`) and the match
(`UtmpEqual`) as operators. A conversion may have several results: the
structure is not initialised, and what follows a field that is not ended by a
NUL is anybody's; `Beyond` bounds how far the next NUL is. The pid hidden
behind the host is modelled with its arithmetic, on `size_t` modulo `SIZE_T`.
Lines keep what the code distinguishes: whether they begin with `tty`, and the
four characters an identifier has. The generic code of the library locks the
file and reads and writes it record by record, and records never move; it is not in
the repository.

A session that dies leaves its record (`Die`): nobody cleans it up but the next
session on that line. `Directory` says what all this amounts to: for each line
somebody enters, leaves or dies, and what is shown is right at every moment. The refinement
maps `on` to the session of a line and `who` to what getutxline would read
there.

The run `sessions` has three sessions for two terminals, so that one finds both
taken. A third name has no device and ends the search; one terminal has no
other side. There are two hosts, of 13 and of 16 characters (one for which a pid
fits but would not be found, one that fills its field), one record of init, and
a reader that looks for one line; 326 thousand states. What happens after a write past the end
of a record (`overrun`) is not defined, and `Next` ends there; `utmp_room`
shows that it happens. Deadlock is not checked for that reason. There is no
liveness: nothing here waits.

## 3. What is found

| Run | Finding |
|---|---|
| `timers_stray` | a new timer at the address of a deleted one inherits the signal the helper had already taken: its function runs though it never expired |
| `timers_fork_lock` | fork while the list's mutex is held: the child can never create a thread timer |
| `at_pairs` | linkat and renameat fail with EBADF when one path is relative to a descriptor and the other to AT_FDCWD |
| `utmp_room` | a host that fills `ut_host` has no NUL; strlen runs on, the room for the pid wraps round, and strncpy writes far beyond the record |

Four more are in what the models do, and the properties are stated around them:

- On a kernel with clock_getres but without ktimer_create the probe of one
  thread undoes the -1 another has stored in `__no_posix_timers`: calls known
  to be missing are tried again. `MissingCallsAreNotRetried` is checked and
  proved for kernels with both or neither.
- A fork between the start of the helper and the registration of the fork
  handler leaves the child with the helper id of its parent. The child runs
  pthread_once again; if pthread_create then fails there, the old id stays and the thread timers of
  the child signal nobody. `ThreadTimersHaveAHelper` excludes that failure.
- When sysctl fails, if_nameindex returns an empty list as if there were no
  interface, instead of NULL.
- When the directory of a \*at call is renamed between the sysctl and the plain
  call and another takes its place, the call acts there. `CallsAreAtomic`
  excepts calls during which something is renamed.

## 4. What is proved

Every proof follows one pattern: an inductive invariant, one step per action,
and the properties from it. What is said below is what the invariant adds to
the properties, and why it has to.

`MrLock_proofs` proves for every finite set of threads and every number of tries,
from `ThreadsFinite` and `TriesPositive`:

- `LockInvariant`: `Spec => []LockInv`. Neither the agreement of word and
  threads nor exclusion is inductive alone. What is missing is `OneWriter`, that
  WWAIT is only set while its writer is there, and `CopyMatchesLabel`: a thread
  about to compare-and-swap, set a bit or sleep holds a copy of the word that
  passed the test in front of that step. Since the swap succeeds only on an
  equal word, the test then holds of the word itself.
- `TypeCorrect`, `WordIsRight`, `Excludes` follow; `DoorIsShut` (an action
  property) follows from the invariant and the reader's test.
- `WakeupsAreNotLost`: `NoLostWakeup` is inductive relative to `LockInv`.
- `Implements`: initial states map to initial states and every step to a step
  of `ReadersWriter` or to a stutter.

`AtEmulation_proofs` proves for every set of threads, descriptors, objects and
calls, every kernel and every number of changes, from `ConstantsOK`:

- `AtInvariant`: `Spec => []AtInv`. `CallsAreAtomic` speaks of the end of a
  call; what makes it inductive is said of the middle: the history holds what
  the kernel's call would act on *now*; the table is read only after the tests
  on the arguments have passed; and the paths a call still holds lead, as long
  as nothing was renamed, to an answer that is in the history. A change of
  descriptors or of the working directory adds the new answer to the history
  and does not move what an absolute path leads to, so the paths keep what
  they are worth.
- `AtTypes` and `Atomic` follow.

`Clone_proofs` proves for every set of processes, calls, kernels, faults and
signals, from `ConstantsOK`:

- `Invariance`: `Spec => []IInv`. None of the four properties is inductive:
  each speaks of the moment a process is back in the program's code. The
  invariant says at every label on whose stack a process is, that on a foreign
  stack of the same memory it blocks everything, which of mask and function is
  already on the child's stack or taken off again (the two architectures
  differ there), that nobody but its creator and itself touches a stack, and
  that the flags are those of the call.
- `Typed`, `OwnStacks`, `MasksRestored`, `OwnFunctions`, `ExitSignals` follow.

`PosixTimers_proofs` proves for every number of threads, addresses, slots,
kernel ids and creates, both libraries, every kernel and every set of faults,
fork included, from `ConstantsOK` and `NullOK`:

- `Invariance`: `Spec => []IInv`. The properties fail to be inductive because
  they do not say who owns a struct between malloc and free. `PtrsOK` says
  that each thread in a call holds one of its own; `SlotsOK`, `ListOK` and
  `KernelOK` at which labels a slot, an entry in the list and a kernel timer
  belong to it; `LiveTimersReachTheirKernelTimer` is needed at the start of
  timer_delete, which takes over what the id led to; `FnsOK` tells the timers
  that have used one address apart; `HelperOK` says what the helper holds.
- `Typed`, `LiveTimersAreReached`, `KernelTimersAreBacked`, `ListIsAllocated`,
  `OneSlotForEachTimer` and `DeletedNeverRun` follow.
- Without fork, `MutexIsReleased` and `NoSlotIsLost`: a child inherits a mutex
  and slots whose owners are gone (`timers_fork_lock`). `OwnedOK` adds to the
  invariant who is inside the mutex, `SlotsKnown` that each slot is the
  application's or some thread's.
- Without the faults `thread` and `cancel`, `ThreadTimersAreServed`, with fork. `StarterOK` says that one thread at a time is
  in the once control, `StartsOK` that whoever is past it has a helper.
- On kernels with both calls or neither, `MissingCallsStayMissing`;
  `MissingOK` adds that without ktimer there is no kernel timer.
- `TimersAreTheService`, the refinement: for both libraries and all faults
  every step maps to a step of `TimerService` or to a stutter. Two facts are
  needed that the properties never mention. `SilentOK`: after a fork, structs
  that nobody will free are on the child's list, but no kernel timer and no
  signal names them, so the helper never starts one. `FreshOK`: a timer
  whose create has not returned has not been set.

`Sessions_proofs` proves for any users, names, terminals, hosts and records of
others, from `UtmpConstants` and `SessionsConstants`:

- `SearchesAreFair`, from `SearchOK`: each name a search has passed is in its history.
- `SessionsTyped` and `OneEach`, from `BooksOK`. The lemmas on the way are
  about `Utmp`: what is converted is a record of the other kind.
- `LookupsAreRight`, for records of others that are not on lines of terminals
  (`ForeignElsewhere`; else anybody could overwrite a session). A lookup is
  right because of `LookTells`: it has found the session's record, or the
  record is still ahead of it. That needs `ShownOK`: every session that is in
  has its record, and a terminal is in one session only.
- `FileIsDirectory`, the refinement, under the same condition.

`SequenceFolds` and `IfList_proofs` are about data, not behaviour. What a fold
computes for every sequence needs induction, and the library's induction
theorems take an operator, which the provers cannot instantiate. Here a
statement becomes a *set*, the sequences for which it holds: `SeqInduct` says
that a set with the empty sequence that is closed under `Append` has all of
them, `ListInduct` the same of lists of interfaces, closed under one more
interface and under one more address of the last one. The community modules'
folds choose a function by its equation; `SequenceFolds` shows that such a
function exists and is determined (`FoldedAppend`, `FlattenFold`,
`FlatMapAppend`), so that a fold over `Append(s, e)` is one step more. Then, for
every list:

- `SecondPassFits`: what the second pass of getifaddrs writes is what the
  first has counted, entry by entry, and never more data; and what it finds
  are the interfaces and addresses of the list, under their names. The
  invariant of the two passes (`Abreast`) is that after each message the
  second has used as many entries as the first has counted, and no more data
  with the room for alignment each time; `Within` says that both
  know the interface whose addresses come, and whether it has a name.
- `IterationFindsNames`: if_iterate meets each named interface once, in order.
- `CopiedRecordsFit`: what SIOCGIFCONF copies fits, and it is all of the
  records if the space left would have held another.

`SizedQuery_proofs` proves for any lists, sizes, tries, faults and changes,
from the assumptions on constants alone:

- `CallsHaveTypes`, from which answers each function can give and what is in
  the static buffer.
- `TriesAreUsed`: in every try that is over, and in the one under way if it
  falls short, the list has grown (`TriesOK`).
- `BuffersHold`: the static buffer is as large as its size says, and as the
  second system call is told (`BufferOK`); `SecondPassFits` covers the writes
  of the second pass.
- `ListsAreWhole`: a result is complete for a list of the call.

Only checked by TLC: all liveness and fairness, the fairness part of the first
refinement included (out of the prover's reach). Every invariant, every action
property and the safety part of every refinement that a passing run checks is
also proved.

## 5. Not modelled, and why

The repository's lines are for the most part not program. About half of the C
lines are headers of the kernel's and the library's data (`sys/`, `net/`,
`netinet/`, `bits/`), and a part of every file is its licence. What is
left and not modelled:

- The generic `compat_timer_*` code, pthread_once, mutexes, malloc, the kernel:
  not in the repository; modelled by what the code here relies on.
- \*at calls: the layout of `struct kinfo_file`, the alloca'd buffer and string
  lengths; the empty path that sysctl may report; `futimesat` with a NULL path;
  faccessat's second lookup, for root, and its permission bits, which would
  need a model of files and modes that no other call has use for.
- Enumeration: if_nameindex's growing arrays, the space getifaddrs takes for
  names, the last realloc of `__ifreq`, the size of the stack; two threads in
  getmntinfo, which its comment excludes. `getmntinfo64.c` is `getmntinfo.c`
  with another type.
- clone: the argument of the function, and what RFTHREAD does when a leader
  exits. `vfork.S`, `start.S` and `makecontext.S` set up registers and make one
  call or none.
- utmp: times, addresses and exit status, which are copied; `getutxid`,
  `updwtmpx`; the generic code that locks and walks the file. Terminals: the
  controlling terminal, `ttyname` and `getlogin`, a system call and a string.
- Conversions (`statfsconv.c`, `stat16conv.c`, `getdirentries.c`) copy one
  structure to another field by field, without state, order or failure: a
  model would repeat the assignments.
- The other wrappers make one system call each, after a test of the arguments
  (`sigaction.c`), a shorter length for a socket's address (`connect.c`,
  `bind.c`, `sendto.c`) or a choice of the kernel's generation (`pread.c`,
  `mmap.c`). `pselect.c` and `getcwd.c` fall back on generic code that is not in
  the repository. `shm_open.c` has a fallback of its own, three calls on a
  descriptor only the caller knows; by reading it, one error (line 43:
  O_WRONLY) returns EINVAL itself, a positive number, and not -1.
- `dl-origin.c` and `readonly-area.c` read one thing from the kernel, once.
- Packaging: build rules, maintainer scripts, patches to code that is not
  in the tree.

## 6. Plan

Done: `MrLock` with its abstract specification and proofs; `PosixTimers` for
both thread libraries, with its abstract specification and proofs;
`AtEmulation` with proofs; `IfList` and `SizedQuery` with proofs; `Clone` with
proofs; `Utmp`, `Sessions` and `Directory`, with proofs.

Left, in this order:

1. Lemmas that give the liveness properties their safety half: who will wake
   each sleeper of `MrLock` and post each semaphore of `PosixTimers`.
2. `AtEmulation`: faccessat's second lookup, with the modes of files.
3. `Sessions`: the controlling terminal, and `getutxid` beside `getutxline`.
4. `SizedQuery`: if_nameindex's arrays and the last realloc of `__ifreq`.
