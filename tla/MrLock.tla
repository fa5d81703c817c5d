------------------------------- MODULE MrLock -------------------------------
(***************************************************************************)
(* The multi-reader lock of the run-time linker (rtld-lowlevel.h), on the  *)
(* kernel's umtx wait and wake (linuxthreads/lowlevellock.h).              *)
(*                                                                         *)
(* The lock is one word.  The model keeps its four fields apart: the       *)
(* reader count (the word in units of __RTLD_MRLOCK_INC) and the bits      *)
(* WRITER, RWAIT and WWAIT.  Each action is one atomic access to the word, *)
(* or one system call, with the local computation that follows it.         *)
(***************************************************************************)
EXTENDS Integers, FiniteSets

CONSTANTS Threads,      \* the threads of the process
          Tries         \* __RTLD_MRLOCK_TRIES, 5 in the code

ASSUME ThreadsFinite == IsFiniteSet(Threads)
ASSUME TriesPositive == Tries \in Nat \ {0}

VARIABLES lv,           \* the lock word
          pc,           \* where each thread is in the four macros
          oldval,       \* each thread's local copy of the word
          tries         \* each thread's loop counter

vars == <<lv, pc, oldval, tries>>

Word == [rd : Nat, writer : BOOLEAN, rwait : BOOLEAN, wwait : BOOLEAN]

Fields(r, w, rw, ww) == [rd |-> r, writer |-> w, rwait |-> rw, wwait |-> ww]

Free == Fields(0, FALSE, FALSE, FALSE)

ReaderWaits == {"lock.load", "lock.cas", "lock.or", "lock.wait", "lock.sleep"}
WriterWaits == {"change.load", "change.cas", "change.or", "change.wait",
                "change.sleep"}
Asleep == {"lock.sleep", "change.sleep"}
Waking == {"unlock.wake", "done.wake"}
Labels == ReaderWaits \cup WriterWaits \cup Waking \cup {"idle", "shared", "excl"}

At(L) == {t \in Threads : pc[t] \in L}

Init == /\ lv = Free
        /\ pc = [t \in Threads |-> "idle"]
        /\ oldval = [t \in Threads |-> Free]
        /\ tries = [t \in Threads |-> 0]

-----------------------------------------------------------------------------
(* The tests and the new values the macros compute from a copy of the word. *)

(* Mutants: a reader comes in beside the writer, or past one that waits. *)
MutReaderIgnoresWriter(w) == ~w.wwait
MutReaderPassesWriter(w) == ~w.writer

ReaderMayEnter(w) == ~w.writer /\ ~w.wwait

(* Mutant: the count is set, not incremented. *)
MutReaderEntered(w) == Fields(1, FALSE, FALSE, FALSE)

ReaderEntered(w) == Fields(w.rd + 1, FALSE, FALSE, FALSE)

ReaderLeft(w) == Fields(w.rd - 1, w.writer, w.rwait, w.wwait)

WriterMayEnter(w) == w.rd = 0

(* Mutants: RWAIT is lost with WWAIT, or WWAIT stays. *)
MutWriterDropsRWait(w) == Fields(0, TRUE, FALSE, FALSE)
MutWriterKeepsWWait(w) == Fields(0, TRUE, w.rwait, w.wwait)

WriterEntered(w) == Fields(0, TRUE, w.rwait, FALSE)

WriterLeft(w) == Fields(w.rd, FALSE, w.rwait, w.wwait)

WithRWait(w) == Fields(w.rd, w.writer, TRUE, w.wwait)

(* Mutant: the writer sets the readers' bit. *)
MutWithWWait(w) == WithRWait(w)

WithWWait(w) == Fields(w.rd, w.writer, w.rwait, TRUE)

(* Mutant: the old value is taken for the new one. *)
MutLastReaderMustWake(w) == w.rd = 0 /\ w.wwait

LastReaderMustWake(w) == w.rd = 1 /\ w.wwait

WriterMustWake(w) == w.rwait

(* The thread's locals once it is out of the loop: dead, so set to zero. *)
Leave(t, label) == /\ pc' = [pc EXCEPT ![t] = label]
                   /\ oldval' = [oldval EXCEPT ![t] = Free]
                   /\ tries' = [tries EXCEPT ![t] = 0]

(* Mutant: one turn too many. *)
MutNextTry(t, again, giveUp) ==
  /\ pc' = [pc EXCEPT ![t] = IF tries[t] < Tries THEN again ELSE giveUp]
  /\ tries' = [tries EXCEPT ![t] = IF @ < Tries THEN @ + 1 ELSE 0]

(* After atomic_delay: another turn of the for loop, or on to the wait. *)
NextTry(t, again, giveUp) ==
  IF tries[t] + 1 < Tries
    THEN /\ pc' = [pc EXCEPT ![t] = again]
         /\ tries' = [tries EXCEPT ![t] = @ + 1]
    ELSE /\ pc' = [pc EXCEPT ![t] = giveUp]
         /\ tries' = [tries EXCEPT ![t] = 0]

(* oldval becomes the word just read, and the inner loop's test is made. *)
Examine(t, mayEnter, cas, again, giveUp) ==
  /\ oldval' = [oldval EXCEPT ![t] = lv]
  /\ IF mayEnter
       THEN pc' = [pc EXCEPT ![t] = cas] /\ UNCHANGED tries
       ELSE NextTry(t, again, giveUp)
  /\ UNCHANGED lv

(* UMTX_OP_WAIT: sleep only if the word still is oldval. *)
FutexWait(t, sleep, again) ==
  /\ Leave(t, IF lv = oldval[t] THEN sleep ELSE again)
  /\ UNCHANGED lv

-----------------------------------------------------------------------------
(* __rtld_mrlock_lock and __rtld_mrlock_unlock *)

LockStart(t) == /\ pc[t] = "idle"
                /\ pc' = [pc EXCEPT ![t] = "lock.load"]
                /\ UNCHANGED <<lv, oldval, tries>>

LockExamine(t) == Examine(t, ReaderMayEnter(lv), "lock.cas", "lock.load",
                          IF lv.rwait THEN "lock.wait" ELSE "lock.or")

LockLoad(t) == pc[t] = "lock.load" /\ LockExamine(t)

LockCas(t) == /\ pc[t] = "lock.cas"
              /\ \/ /\ lv = oldval[t]
                    /\ lv' = ReaderEntered(oldval[t])
                    /\ Leave(t, "shared")
                 \/ /\ lv # oldval[t]
                    /\ LockExamine(t)

LockSetRWait(t) == /\ pc[t] = "lock.or"
                   /\ lv' = WithRWait(lv)
                   /\ oldval' = [oldval EXCEPT ![t] = WithRWait(@)]
                   /\ pc' = [pc EXCEPT ![t] = "lock.wait"]
                   /\ UNCHANGED tries

LockWait(t) == pc[t] = "lock.wait" /\ FutexWait(t, "lock.sleep", "lock.load")

Unlock(t) == /\ pc[t] = "shared"
             /\ lv' = ReaderLeft(lv)
             /\ Leave(t, IF LastReaderMustWake(lv) THEN "unlock.wake" ELSE "idle")

-----------------------------------------------------------------------------
(* __rtld_mrlock_change and __rtld_mrlock_done *)

(* "There can only ever be one thread trying to get the exclusive lock." *)
ChangeStart(t) == /\ pc[t] = "idle"
                  /\ At(WriterWaits \cup {"excl"}) = {}
                  /\ pc' = [pc EXCEPT ![t] = "change.load"]
                  /\ UNCHANGED <<lv, oldval, tries>>

ChangeExamine(t) == Examine(t, WriterMayEnter(lv), "change.cas", "change.load",
                            "change.or")

ChangeLoad(t) == pc[t] = "change.load" /\ ChangeExamine(t)

ChangeCas(t) == /\ pc[t] = "change.cas"
                /\ \/ /\ lv = oldval[t]
                      /\ lv' = WriterEntered(oldval[t])
                      /\ Leave(t, "excl")
                   \/ /\ lv # oldval[t]
                      /\ ChangeExamine(t)

ChangeSetWWait(t) == /\ pc[t] = "change.or"
                     /\ lv' = WithWWait(lv)
                     /\ oldval' = [oldval EXCEPT ![t] = WithWWait(@)]
                     /\ pc' = [pc EXCEPT ![t] = "change.wait"]
                     /\ UNCHANGED tries

ChangeWait(t) ==
  pc[t] = "change.wait" /\ FutexWait(t, "change.sleep", "change.load")

Done(t) == /\ pc[t] = "excl"
           /\ lv' = WriterLeft(lv)
           /\ Leave(t, IF WriterMustWake(lv) THEN "done.wake" ELSE "idle")

-----------------------------------------------------------------------------
(* lll_futex_wake (lock, 0x7fffffff): every sleeper starts its loop again. *)
WakeAll(t) ==
  /\ pc[t] \in Waking
  /\ pc' = [u \in Threads |-> IF u = t THEN "idle"
                              ELSE IF pc[u] = "lock.sleep" THEN "lock.load"
                              ELSE IF pc[u] = "change.sleep" THEN "change.load"
                              ELSE pc[u]]
  /\ UNCHANGED <<lv, oldval, tries>>

(* A signal ends the wait; its result is not looked at. *)
Interrupted(t) ==
  /\ \/ pc[t] = "lock.sleep" /\ pc' = [pc EXCEPT ![t] = "lock.load"]
     \/ pc[t] = "change.sleep" /\ pc' = [pc EXCEPT ![t] = "change.load"]
  /\ UNCHANGED <<lv, oldval, tries>>

Step(t) == \/ LockLoad(t)   \/ LockCas(t)   \/ LockSetRWait(t)   \/ LockWait(t)
           \/ ChangeLoad(t) \/ ChangeCas(t) \/ ChangeSetWWait(t) \/ ChangeWait(t)
           \/ Unlock(t)     \/ Done(t)      \/ WakeAll(t)

Next == \E t \in Threads :
          LockStart(t) \/ ChangeStart(t) \/ Step(t) \/ Interrupted(t)

Spec == Init /\ [][Next]_vars

(* A thread inside a macro runs on, and a holder releases the lock; nothing *)
(* makes a thread ask for the lock, and no signal is owed to a sleeper.     *)
FairSpec == Spec /\ \A t \in Threads : WF_vars(Step(t))

-----------------------------------------------------------------------------
(* The types of the word, the labels and the locals of every thread. *)
TypeOK == /\ lv \in Word
          /\ pc \in [Threads -> Labels]
          /\ oldval \in [Threads -> Word]
          /\ tries \in [Threads -> 0 .. Tries - 1]

(* The writer runs alone: no reader is inside with it, nor another writer. *)
MutualExclusion == At({"excl"}) # {} => /\ At({"shared"}) = {}
                                        /\ Cardinality(At({"excl"})) = 1

(* The word says who is inside: no update of one field by a compare-and-  *)
(* swap, an or, or an add has lost what another thread wrote in between.  *)
WordMatchesHolders == /\ lv.rd = Cardinality(At({"shared"}))
                      /\ lv.writer <=> At({"excl"}) # {}

(* No lost wakeup: a thread asleep on the word either is about to be woken,  *)
(* or its wait bit is set and whoever clears the way for it is still to come *)
(* and will see that bit.                                                    *)
WakeupComing(t) ==
  \/ At(Waking) # {}
  \/ pc[t] = "change.sleep" /\ lv.wwait /\ At({"shared"}) # {}
  \/ pc[t] = "lock.sleep" /\ lv.rwait
       /\ (At({"excl"}) # {} \/ (lv.wwait /\ At(WriterWaits) # {}))

NoLostWakeup == \A t \in At(Asleep) : WakeupComing(t)

(* What makes the two invariants above inductive: the claim on the exclusive *)
(* lock is held by one thread from the first read of the word to Done, WWAIT *)
(* is set by that thread only, and a copy of the word that led a thread to a *)
(* compare-and-swap, an or, or a wait still satisfies the test that led there. *)
CopyMatchesLabel(t) ==
  /\ pc[t] = "lock.cas" => ReaderMayEnter(oldval[t])
  /\ pc[t] = "lock.or" => ~ReaderMayEnter(oldval[t])
  /\ pc[t] = "lock.wait" => ~ReaderMayEnter(oldval[t]) /\ oldval[t].rwait
  /\ pc[t] = "change.cas" => WriterMayEnter(oldval[t])
  /\ pc[t] = "change.or" => ~WriterMayEnter(oldval[t])
  /\ pc[t] = "change.wait" => ~WriterMayEnter(oldval[t]) /\ oldval[t].wwait

OneWriter == \A t, u \in At(WriterWaits \cup {"excl"}) : t = u

LockInv == /\ TypeOK
           /\ WordMatchesHolders
           /\ OneWriter
           /\ lv.writer => lv.rd = 0
           /\ lv.wwait => At(WriterWaits) # {}
           /\ \A t \in Threads : CopyMatchesLabel(t)

(* WWAIT shuts the door: while it is set no reader comes in, whatever its   *)
(* copy of the word says, so that the readers inside can only grow fewer.   *)
WaitingWriterShutsOutReaders ==
  [][lv.wwait => At({"shared"})' \subseteq At({"shared"})]_vars

(* The thread that asks for the exclusive lock gets it. *)
WriterGetsLock ==
  \A t \in Threads : pc[t] = "change.load" ~> pc[t] = "excl"

(* Every sleeper wakes up again, without the help of a signal. *)
SleepersWake == \A t \in Threads : pc[t] \in Asleep ~> pc[t] \notin Asleep

-----------------------------------------------------------------------------
(* The lock implements ReadersWriter: a thread holds the lock from its       *)
(* successful compare-and-swap to its atomic subtraction.                    *)
Mode(l) == IF l \in ReaderWaits THEN "wantShared"
           ELSE IF l \in WriterWaits THEN "wantExcl"
           ELSE IF l \in {"shared", "excl"} THEN l
           ELSE "out"

Abstract == INSTANCE ReadersWriter WITH mode <- [t \in Threads |-> Mode(pc[t])]

(* Every behaviour of the lock, fairness included, is one ReadersWriter allows. *)
ImplementsReadersWriter == Abstract!Spec
=============================================================================
