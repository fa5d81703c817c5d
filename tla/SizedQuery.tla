----------------------------- MODULE SizedQuery -----------------------------
(***************************************************************************)
(* Reading a list from the kernel into a buffer that must be large enough, *)
(* while the list changes: getifaddrs (ifaddrs.c) measures, allocates and  *)
(* reads, a few times; if_iterate (if_index.c) and __ifreq (ifreq.c) guess *)
(* and double; getmntinfo.c keeps its buffer from call to call.            *)
(*                                                                         *)
(* One caller: the functions share no state, except getmntinfo, which is   *)
(* "inherently not multithread-safe".  `list' is what the kernel would     *)
(* list for the call under way: interfaces, or mounted file systems.       *)
(***************************************************************************)
EXTENDS IfList

CONSTANTS Lists,            \* what the kernel's list can be
          Args,             \* names and indices asked for
          MAX_SYSCTL_TRY,   \* the tries of getifaddrs (5 in the code)
          BufSize,          \* the first guess of if_iterate
          RQ_IFS,           \* the first guess of __ifreq, without the slack
          RQ_MAXSIZE,       \* the assumed size of the largest record
          Faults,           \* subset of {"malloc", "kernel"}: what may fail
          NULL, Failure,    \* no value; NULL, 0 or -1 returned as an error
          MaxChanges        \* bound: changes of the list during a call

ASSUME QueryOK == /\ \A l \in Lists : l \in Seq(Interface)
                  /\ {MAX_SYSCTL_TRY, BufSize, RQ_IFS, RQ_MAXSIZE} \subseteq Nat \ {0}
                  /\ \A l \in Lists : \A k \in DOMAIN Records(l) :
                       Records(l)[k].len <= RQ_MAXSIZE
                  /\ MaxChanges \in Nat /\ 0 \in Args
                  /\ \A l \in Lists : Failure # Entries(l)

Iterators == {"if_nameindex", "if_nametoindex", "if_indextoname"}
Ops == Iterators \cup {"getifaddrs", "getmntinfo", "__ifreq"}

VARIABLES list,             \* the kernel's list
          mntbuf,           \* static: room behind the pointer, 0 for NULL
          mntbufsize,       \* static
          pc, op, arg,      \* the step, the function and its argument
          needed,           \* needed, bufsize, rq_len or count
          ntry,             \* of getifaddrs
          result,           \* what the call returns
          writes,           \* history: sizes written, and the room there was
          moments,          \* history: the lists since the call began
          grown, failed,    \* history: growths since then; a fault happened
          changes           \* bounded by MaxChanges

static == <<mntbuf, mntbufsize>>
vars == <<list, static, pc, op, arg, needed, ntry, result, writes, moments, grown,
          failed, changes>>

(* What a call needs room for. *)
Size(o, l) == IF o = "getmntinfo" THEN Len(l)
              ELSE IF o = "__ifreq" THEN Bytes(Records(l))
              ELSE Len(Messages(l))

Init == /\ list \in Lists /\ mntbuf = 0 /\ mntbufsize = 0
        /\ pc = "idle" /\ op = NULL /\ arg = 0 /\ needed = 0 /\ ntry = 0
        /\ result = NULL /\ writes = {} /\ moments = {} /\ grown = 0
        /\ failed = FALSE /\ changes = 0

First(o) == IF o = "getifaddrs" THEN "measure"
            ELSE IF o = "getmntinfo" THEN "count"
            ELSE IF o = "__ifreq" THEN "ioctl" ELSE "iterate"

(* Whatever changed between two calls is covered by the choice of the list. *)
Begin(o, a, l) ==
  /\ pc = "idle" /\ pc' = First(o) /\ op' = o /\ arg' = a
  /\ o \notin {"if_nametoindex", "if_indextoname"} => a = 0
  /\ list' = l /\ moments' = {l}
  /\ needed' = IF o = "__ifreq" THEN RQ_IFS + RQ_MAXSIZE
               ELSE IF o \in Iterators THEN BufSize ELSE 0
  /\ UNCHANGED <<static, ntry, result, writes, grown, failed, changes>>

Answer(r) == pc' = "done" /\ result' = r

(* A fault of the given kind, and what the call makes of it. *)
Fails(kinds, r) == kinds \cap Faults # {} /\ failed' = TRUE /\ Answer(r)

Wrote(size, room) == writes' = writes \cup {[size |-> size, room |-> room]}

-----------------------------------------------------------------------------
(* getifaddrs. *)

(* Mutant: one try less. *)
MutGiveUp(n) == n >= MAX_SYSCTL_TRY - 1

GiveUp(n) == n >= MAX_SYSCTL_TRY

(* The first sysctl, and malloc. *)
Measure ==
  /\ pc = "measure"
  /\ \/ Fails({"kernel", "malloc"}, Failure) /\ UNCHANGED needed
     \/ /\ needed' = Size(op, list) /\ pc' = "read" /\ UNCHANGED <<result, failed>>
  /\ UNCHANGED <<list, static, op, arg, ntry, writes, moments, grown, changes>>

(* The second: the report is there, or it has become too large. *)
Read ==
  LET c == Count(list)  f == Fill(list) IN
  /\ pc = "read"
  /\ \/ Fails({"kernel", "malloc"}, Failure) /\ UNCHANGED <<ntry, writes>>
     \/ /\ Size(op, list) <= needed
        /\ writes' = writes \cup
             {[size |-> Size(op, list), room |-> needed],
              [size |-> Len(f.ift), room |-> c.icnt],
              [size |-> f.data - HDR * c.icnt, room |-> c.dcnt]}
        /\ Answer(IF c.bad \/ f.bad THEN Failure ELSE f.ift)
        /\ UNCHANGED <<ntry, failed>>
     \/ /\ Size(op, list) > needed
        /\ ntry' = ntry + 1
        /\ IF GiveUp(ntry + 1) THEN Answer(Failure) ELSE pc' = "measure" /\ UNCHANGED result
        /\ UNCHANGED <<writes, failed>>
  /\ UNCHANGED <<list, static, op, arg, needed, moments, grown, changes>>

-----------------------------------------------------------------------------
(* getmntinfo. *)

(* Mutant: mntbufsize keeps its value when the buffer is gone. *)
MutReleased(size) == size

Released(size) == 0

(* The number of file systems, and a larger buffer if it takes one. *)
MntCount ==
  /\ pc = "count"
  /\ \/ Fails({"kernel"}, Failure) /\ UNCHANGED <<static, needed>>
     \/ Len(list) = 0 /\ Answer(<<>>) /\ UNCHANGED <<static, needed, failed>>
     \/ /\ Len(list) > mntbufsize
        /\ mntbuf' = Len(list) /\ mntbufsize' = Len(list)
        /\ needed' = Len(list) /\ pc' = "fill" /\ UNCHANGED <<result, failed>>
     \/ /\ Len(list) > mntbufsize
        /\ Fails({"malloc"}, Failure)
        /\ mntbuf' = 0 /\ mntbufsize' = Released(mntbufsize) /\ UNCHANGED needed
     \/ /\ 0 < Len(list) /\ Len(list) <= mntbufsize
        /\ needed' = Len(list) /\ pc' = "fill" /\ UNCHANGED <<static, result, failed>>
  /\ UNCHANGED <<list, op, arg, ntry, writes, moments, grown, changes>>

(* Mutant: a buffer that is just large enough is too small. *)
MutEnough(count2, count) == count2 < count

Enough(count2, count) == count2 <= count

(* The kernel fills count entries and returns how many there are. *)
MntFill ==
  /\ pc = "fill"
  /\ \/ Fails({"kernel"}, Failure) /\ UNCHANGED writes
     \/ /\ Wrote(needed, mntbuf) /\ UNCHANGED failed
        /\ IF Enough(Len(list), needed) THEN Answer(list) ELSE pc' = "count" /\ UNCHANGED result
  /\ UNCHANGED <<list, static, op, arg, needed, ntry, moments, grown, changes>>

-----------------------------------------------------------------------------
(* if_iterate and __ifreq. *)

(* The first match, for the functions that look for one. *)
Lookup(l, key, answer, a) ==
  LET found == {k \in DOMAIN l : l[k][key] = a}
  IN  IF found = {} THEN Failure ELSE <<l[Min(found)][answer]>>

FromPairs(o, l, a) ==
  IF o = "if_nametoindex" THEN Lookup(l, "name", "index", a)
  ELSE IF o = "if_indextoname" THEN Lookup(l, "index", "name", a)
  ELSE l

(* Mutant: ENOMEM is one of the other errors.                               *)
MutIterate ==
  /\ pc = "iterate"
  /\ \/ Size(op, list) <= needed /\ Wrote(Size(op, list), needed)
        /\ Answer(FromPairs(op, Iterated(list), arg))
     \/ Size(op, list) > needed /\ Answer(FromPairs(op, <<>>, arg)) /\ UNCHANGED writes
  /\ UNCHANGED <<list, static, op, arg, needed, failed, ntry, moments, grown, changes>>

(* sysctl, again with twice the buffer on ENOMEM; other errors end the     *)
(* iteration, and only the caller's own memory makes if_nameindex fail.    *)
Iterate ==
  /\ pc = "iterate"
  /\ \/ Fails({"kernel"}, FromPairs(op, <<>>, arg)) /\ UNCHANGED <<needed, writes>>
     \/ /\ Size(op, list) <= needed
        /\ Wrote(Size(op, list), needed)
        /\ Answer(FromPairs(op, Iterated(list), arg)) /\ UNCHANGED <<needed, failed>>
     \/ /\ Size(op, list) > needed
        /\ needed' = 2 * needed /\ UNCHANGED <<pc, result, writes, failed>>
     \/ /\ op = "if_nameindex" /\ (Size(op, list) <= needed \/ "kernel" \in Faults)
        /\ Fails({"malloc"}, Failure) /\ UNCHANGED <<needed, writes>>
  /\ UNCHANGED <<list, static, op, arg, ntry, moments, grown, changes>>

Complete(used, len) == used + RQ_MAXSIZE <= len

(* realloc and SIOCGIFCONF, which copies what fits. *)
IfConf ==
  LET copied == Fitting(Records(list), needed) IN
  /\ pc = "ioctl"
  /\ \/ Fails({"kernel", "malloc"}, Failure) /\ UNCHANGED <<needed, writes>>
     \/ /\ Complete(Bytes(copied), needed)
        /\ Wrote(Bytes(copied), needed)
        /\ Answer(copied) /\ UNCHANGED <<needed, failed>>
     \/ /\ ~Complete(Bytes(copied), needed)
        /\ Wrote(Bytes(copied), needed)
        /\ needed' = 2 * needed /\ UNCHANGED <<pc, result, failed>>
  /\ UNCHANGED <<list, static, op, arg, ntry, moments, grown, changes>>

-----------------------------------------------------------------------------
Return ==
  /\ pc = "done" /\ pc' = "idle" /\ op' = NULL /\ arg' = 0 /\ needed' = 0
  /\ ntry' = 0 /\ result' = NULL /\ writes' = {} /\ moments' = {} /\ grown' = 0
  /\ failed' = FALSE /\ changes' = 0
  /\ UNCHANGED <<list, static>>

(* Interfaces or file systems come and go. *)
Change(l) ==
  /\ pc \notin {"idle", "done"} /\ changes < MaxChanges /\ l # list
  /\ list' = l /\ moments' = moments \cup {l} /\ changes' = changes + 1
  /\ grown' = IF Size(op, l) > Size(op, list) THEN grown + 1 ELSE grown
  /\ UNCHANGED <<static, pc, op, arg, needed, ntry, result, writes, failed>>

Work == Measure \/ Read \/ MntCount \/ MntFill \/ Iterate \/ IfConf

Next == \/ Work \/ Return
        \/ \E o \in Ops, a \in Args, l \in Lists : Begin(o, a, l)
        \/ \E l \in Lists : Change(l)

Spec == Init /\ [][Next]_vars

FairSpec == Spec /\ WF_vars(Work)

-----------------------------------------------------------------------------
(* The form of what a function returns. *)
Answers == IF op = "getifaddrs" THEN Seq(Entry)
           ELSE IF op = "getmntinfo" THEN Seq(Interface)
           ELSE IF op = "__ifreq" THEN Seq(Record)
           ELSE IF op = "if_nameindex" THEN Seq(Pair)
           ELSE Seq(Nat)

(* The static buffer and its size, the call and its answer, which has the form *)
(* its function promises, and the history.                                     *)
TypeOK ==
  /\ list \in Lists /\ mntbuf \in Nat /\ mntbufsize \in {0, mntbuf}
  /\ pc \in {"idle", "measure", "read", "count", "fill", "iterate", "ioctl", "done"}
  /\ op \in Ops \cup {NULL} /\ arg \in Args /\ needed \in Nat
  /\ ntry \in 0 .. MAX_SYSCTL_TRY
  /\ pc # "done" => result = NULL
  /\ pc = "done" => result = Failure \/ result \in Answers
  /\ \A w \in writes : w.size \in Nat /\ w.room \in Nat
  /\ moments \subseteq Lists /\ grown \in 0 .. changes /\ failed \in BOOLEAN
  /\ changes \in 0 .. MaxChanges

(* What the call returns if the list is l all the time. *)
Wanted(l) == IF op = "getifaddrs" THEN Entries(l)
             ELSE IF op = "getmntinfo" THEN l
             ELSE IF op = "__ifreq" THEN Records(l)
             ELSE FromPairs(op, NameIndex(l), arg)

(* A list returned is the whole list of one moment of the call: no entry is   *)
(* missing because the buffer was short, none belongs to another moment, and  *)
(* every address has the name of its interface.  (if_nameindex: see below.)   *)
ResultsAreSnapshots ==
  pc = "done" /\ result # Failure /\ ~(op = "if_nameindex" /\ failed)
    => \E l \in moments : result = Wanted(l)

(* No buffer is written beyond its end: not by the kernel, which is told a    *)
(* size, not by the second pass of getifaddrs, which trusts the first; and    *)
(* the static buffer is as large as its size says after any sequence of calls *)
(* and failures.                                                              *)
WritesStayInBuffers == \A w \in writes : w.size <= w.room

(* "We'll try to get addresses several times": without a fault getifaddrs     *)
(* fails only if the list has grown as many times as it tries.                *)
GivesUpOnlyWhenGrowing ==
  pc = "done" /\ op = "getifaddrs" /\ result = Failure /\ ~failed
    => grown >= MAX_SYSCTL_TRY

(* Every call ends, if the list does not change forever. *)
CallsEnd == pc \notin {"idle", "done"} ~> pc = "done"
=============================================================================
