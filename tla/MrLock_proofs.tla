--------------------------- MODULE MrLock_proofs ---------------------------
(***************************************************************************)
(* Proofs about MrLock, for every finite set of threads and every number   *)
(* of tries: the lock excludes, its word counts its holders, no wakeup is  *)
(* lost, and it implements the safety part of ReadersWriter.               *)
(***************************************************************************)
EXTENDS MrLock, FiniteSetTheorems, TLAPS

(* Moving one thread to another label adds it to, or takes it from, a set *)
(* of threads given by their labels.                                      *)
LEMMA MoveOne ==
  ASSUME pc \in [Threads -> Labels], NEW t \in Threads, NEW l, NEW L,
         pc' = [pc EXCEPT ![t] = l]
  PROVE  At(L)' = IF l \in L THEN At(L) \cup {t} ELSE At(L) \ {t}
  BY DEF At

(* The number of readers inside when one comes in, one goes out, or neither. *)
LEMMA CountReaders ==
  ASSUME pc \in [Threads -> Labels], NEW t \in Threads, NEW l,
         pc' = [pc EXCEPT ![t] = l]
  PROVE  /\ IsFiniteSet(At({"shared"}))
         /\ Cardinality(At({"shared"})) \in Nat
         /\ (Cardinality(At({"shared"})) = 0) = (At({"shared"}) = {})
         /\ l = "shared" /\ pc[t] # "shared" =>
              Cardinality(At({"shared"}))' = Cardinality(At({"shared"})) + 1
         /\ l # "shared" /\ pc[t] = "shared" =>
              Cardinality(At({"shared"}))' = Cardinality(At({"shared"})) - 1
         /\ l # "shared" /\ pc[t] # "shared" =>
              Cardinality(At({"shared"}))' = Cardinality(At({"shared"}))
<1> DEFINE S == At({"shared"})
<1>1. S \in SUBSET Threads /\ (t \in S) = (pc[t] = "shared")
  BY DEF At
<1>2. IsFiniteSet(S)
  BY <1>1, FS_Subset, ThreadsFinite
<1>3. Cardinality(S) \in Nat /\ (Cardinality(S) = 0) = (S = {})
  BY <1>2, FS_CardinalityType, FS_EmptySet
<1>4. S' = IF l = "shared" THEN S \cup {t} ELSE S \ {t}
  BY MoveOne
<1>5. /\ Cardinality(S \cup {t}) = IF t \in S THEN Cardinality(S) ELSE Cardinality(S) + 1
      /\ Cardinality(S \ {t}) = IF t \in S THEN Cardinality(S) - 1 ELSE Cardinality(S)
  BY <1>2, FS_AddElement, FS_RemoveElement
<1>6. Cardinality(S)' = Cardinality(S')
  OBVIOUS
<1>7. QED
  BY <1>1, <1>2, <1>3, <1>4, <1>5, <1>6

-----------------------------------------------------------------------------
(* The labels a thread has in each of its classes. *)
LEMMA LabelClasses ==
  /\ "shared" \notin ReaderWaits \cup WriterWaits
  /\ "excl" \notin ReaderWaits \cup WriterWaits
  /\ "shared" \in Labels /\ "excl" \in Labels /\ "idle" \in Labels
  /\ ReaderWaits \cap WriterWaits = {}
  /\ Waking \subseteq Labels /\ Waking \cap ReaderWaits = {}
  /\ Waking \cap WriterWaits = {} /\ "excl" \notin Waking /\ "shared" \notin Waking
  /\ ReaderWaits \subseteq Labels /\ WriterWaits \subseteq Labels
  BY DEF ReaderWaits, WriterWaits, Labels, Waking

(* The parts of LockInv that speak of the word and of who is where. *)
Holders == /\ WordMatchesHolders
           /\ OneWriter
           /\ lv.writer => lv.rd = 0
           /\ lv.wwait => At(WriterWaits) # {}

(* A step inside a waiting loop disturbs none of them. *)
LEMMA QuietStep ==
  ASSUME LockInv, NEW t \in Threads, NEW l \in Labels,
         pc' = [pc EXCEPT ![t] = l],
         l \notin {"shared", "excl"}, pc[t] \notin {"shared", "excl"},
         (l \in WriterWaits) <=> (pc[t] \in WriterWaits),
         lv'.rd = lv.rd, lv'.writer = lv.writer,
         lv'.wwait => lv.wwait \/ l \in WriterWaits
  PROVE  Holders'
<1>1. pc \in [Threads -> Labels] /\ pc[t] \in Labels
  BY DEF LockInv, TypeOK
<1>2. At({"excl"})' = At({"excl"}) /\ At(WriterWaits)' = At(WriterWaits)
      /\ At(WriterWaits \cup {"excl"})' = At(WriterWaits \cup {"excl"})
  BY <1>1 DEF At
<1>3. Cardinality(At({"shared"}))' = Cardinality(At({"shared"}))
  BY <1>1, CountReaders
<1>4. l \in WriterWaits => At(WriterWaits) # {}
  BY <1>1 DEF At
<1>5. QED
  BY <1>2, <1>3, <1>4 DEF LockInv, Holders, WordMatchesHolders, OneWriter

(* Every other thread's copy and label are as before, so its claim stands. *)
LEMMA OthersCopies ==
  ASSUME LockInv, NEW t \in Threads, NEW l, NEW w,
         pc' = [pc EXCEPT ![t] = l], oldval' = [oldval EXCEPT ![t] = w],
         CopyMatchesLabel(t)'
  PROVE  \A u \in Threads : CopyMatchesLabel(u)'
  BY DEF LockInv, TypeOK, CopyMatchesLabel

(* Every thread is at a label of the lock. *)
LEMMA PcType == LockInv => pc \in [Threads -> Labels]
  BY DEF LockInv, TypeOK

(* The word of a free lock is a word. *)
LEMMA FreeIsWord == Free \in Word
  BY DEF Free, Fields, Word

(* Reading the word again, and what the loops do next, keeps the invariant. *)
LEMMA LockExamineStep ==
  ASSUME LockInv, NEW t \in Threads, pc[t] \in ReaderWaits, LockExamine(t)
  PROVE  LockInv'
<1>1. PICK l \in {"lock.cas", "lock.load", "lock.wait", "lock.or"} :
        /\ pc' = [pc EXCEPT ![t] = l]
        /\ l = "lock.cas" => ReaderMayEnter(lv)
        /\ l = "lock.wait" => lv.rwait /\ ~ReaderMayEnter(lv)
        /\ l = "lock.or" => ~ReaderMayEnter(lv)
        /\ tries' \in [Threads -> 0 .. Tries - 1]
  BY TriesPositive DEF LockExamine, Examine, NextTry, LockInv, TypeOK
<1>2. oldval' = [oldval EXCEPT ![t] = lv] /\ lv' = lv
  BY DEF LockExamine, Examine
<1>3. /\ l \in ReaderWaits /\ l \notin {"shared", "excl"} /\ l \notin WriterWaits
      /\ pc[t] \notin {"shared", "excl"} /\ pc[t] \notin WriterWaits
  BY DEF ReaderWaits, WriterWaits
<1>4. TypeOK'
  BY <1>1, <1>2, <1>3, LabelClasses DEF LockInv, TypeOK
<1>5. Holders'
  BY <1>1, <1>2, <1>3, QuietStep, LabelClasses
<1>6. CopyMatchesLabel(t)'
  BY <1>1, <1>2 DEF CopyMatchesLabel, LockInv, TypeOK
<1>7. \A u \in Threads : CopyMatchesLabel(u)'
  BY <1>1, <1>2, <1>6, OthersCopies
<1>8. QED
  BY <1>4, <1>5, <1>7 DEF LockInv, Holders

(* The same for a writer that reads the word. *)
LEMMA ChangeExamineStep ==
  ASSUME LockInv, NEW t \in Threads, pc[t] \in WriterWaits, ChangeExamine(t)
  PROVE  LockInv'
<1>1. PICK l \in {"change.cas", "change.load", "change.or"} :
        /\ pc' = [pc EXCEPT ![t] = l]
        /\ l = "change.cas" => WriterMayEnter(lv)
        /\ l = "change.or" => ~WriterMayEnter(lv)
        /\ tries' \in [Threads -> 0 .. Tries - 1]
  BY TriesPositive DEF ChangeExamine, Examine, NextTry, LockInv, TypeOK
<1>2. oldval' = [oldval EXCEPT ![t] = lv] /\ lv' = lv
  BY DEF ChangeExamine, Examine
<1>3. /\ l \in WriterWaits /\ l \notin {"shared", "excl"}
      /\ pc[t] \notin {"shared", "excl"}
  BY DEF WriterWaits
<1>4. TypeOK'
  BY <1>1, <1>2, <1>3, LabelClasses DEF LockInv, TypeOK
<1>5. Holders'
  BY <1>1, <1>2, <1>3, QuietStep, LabelClasses
<1>6. CopyMatchesLabel(t)'
  BY <1>1, <1>2 DEF CopyMatchesLabel, LockInv, TypeOK
<1>7. \A u \in Threads : CopyMatchesLabel(u)'
  BY <1>1, <1>2, <1>6, OthersCopies
<1>8. QED
  BY <1>4, <1>5, <1>7 DEF LockInv, Holders

(* UMTX_OP_WAIT changes no word: the thread sleeps or starts its loop again. *)
LEMMA FutexWaitStep ==
  ASSUME LockInv, NEW t \in Threads,
         \/ pc[t] = "lock.wait" /\ FutexWait(t, "lock.sleep", "lock.load")
         \/ pc[t] = "change.wait" /\ FutexWait(t, "change.sleep", "change.load")
  PROVE  LockInv'
<1>1. PICK l \in {"lock.sleep", "lock.load", "change.sleep", "change.load"} :
        /\ pc' = [pc EXCEPT ![t] = l]
        /\ (l \in {"lock.sleep", "lock.load"}) <=> (pc[t] = "lock.wait")
        /\ pc[t] \in {"lock.wait", "change.wait"}
  BY DEF FutexWait, Leave
<1>2. /\ oldval' = [oldval EXCEPT ![t] = Free] /\ lv' = lv
      /\ tries' = [tries EXCEPT ![t] = 0]
  BY DEF FutexWait, Leave
<1>3. /\ l \in Labels /\ l \notin {"shared", "excl"}
      /\ (l \in WriterWaits) <=> (pc[t] \in WriterWaits)
  BY <1>1 DEF Labels, ReaderWaits, WriterWaits
<1>4. TypeOK'
  BY <1>1, <1>2, <1>3, FreeIsWord, TriesPositive DEF LockInv, TypeOK
<1>5. Holders'
  BY <1>1, <1>2, <1>3, QuietStep
<1>6. CopyMatchesLabel(t)'
  BY <1>1, <1>2 DEF CopyMatchesLabel, LockInv, TypeOK
<1>7. \A u \in Threads : CopyMatchesLabel(u)'
  BY <1>1, <1>2, <1>6, OthersCopies
<1>8. QED
  BY <1>4, <1>5, <1>7 DEF LockInv, Holders

(* Setting a wait bit in the word and in the copy. *)
LEMMA SetBitStep ==
  ASSUME LockInv, NEW t \in Threads, LockSetRWait(t) \/ ChangeSetWWait(t)
  PROVE  LockInv'
<1>1. CASE LockSetRWait(t)
  <2>1. /\ pc' = [pc EXCEPT ![t] = "lock.wait"] /\ pc[t] = "lock.or"
        /\ lv' = WithRWait(lv) /\ lv' \in Word
        /\ oldval' = [oldval EXCEPT ![t] = WithRWait(oldval[t])]
        /\ WithRWait(oldval[t]) \in Word
        /\ tries' = tries
    BY <1>1 DEF LockSetRWait, LockInv, TypeOK, Word, WithRWait, Fields
  <2>2. TypeOK'
    BY <2>1 DEF LockInv, TypeOK, Labels, ReaderWaits
  <2>3. Holders'
    <3>1. lv'.rd = lv.rd /\ lv'.writer = lv.writer /\ (lv'.wwait => lv.wwait)
      BY <2>1 DEF WithRWait, Fields
    <3>2. "lock.wait" \in Labels /\ "lock.wait" \notin WriterWaits /\ "lock.or" \notin WriterWaits
      BY DEF Labels, ReaderWaits, WriterWaits
    <3>3. QED
      BY <2>1, <3>1, <3>2, QuietStep
  <2>4. CopyMatchesLabel(t)'
    BY <2>1 DEF CopyMatchesLabel, LockInv, TypeOK, WithRWait, Fields, ReaderMayEnter
  <2>5. \A u \in Threads : CopyMatchesLabel(u)'
    BY <2>1, <2>4, OthersCopies
  <2>6. QED
    BY <2>2, <2>3, <2>5 DEF LockInv, Holders
<1>2. CASE ChangeSetWWait(t)
  <2>1. /\ pc' = [pc EXCEPT ![t] = "change.wait"] /\ pc[t] = "change.or"
        /\ lv' = WithWWait(lv) /\ lv' \in Word
        /\ oldval' = [oldval EXCEPT ![t] = WithWWait(oldval[t])]
        /\ WithWWait(oldval[t]) \in Word
        /\ tries' = tries
    BY <1>2 DEF ChangeSetWWait, LockInv, TypeOK, Word, WithWWait, Fields
  <2>2. TypeOK'
    BY <2>1 DEF LockInv, TypeOK, Labels, WriterWaits
  <2>3. Holders'
    <3>1. lv'.rd = lv.rd /\ lv'.writer = lv.writer
      BY <2>1 DEF WithWWait, Fields
    <3>2. "change.wait" \in Labels /\ "change.wait" \in WriterWaits /\ "change.or" \in WriterWaits
      BY DEF Labels, WriterWaits
    <3>3. QED
      BY <2>1, <3>1, <3>2, QuietStep
  <2>4. CopyMatchesLabel(t)'
    BY <2>1 DEF CopyMatchesLabel, LockInv, TypeOK, WithWWait, Fields, WriterMayEnter
  <2>5. \A u \in Threads : CopyMatchesLabel(u)'
    BY <2>1, <2>4, OthersCopies
  <2>6. QED
    BY <2>2, <2>3, <2>5 DEF LockInv, Holders
<1>3. QED
  BY <1>1, <1>2
(* A reader starts its loop, or a signal ends a sleep. *)
LEMMA StartStep ==
  ASSUME LockInv, NEW t \in Threads, LockStart(t) \/ Interrupted(t)
  PROVE  LockInv'
<1>1. PICK l \in {"lock.load", "change.load"} :
        /\ pc' = [pc EXCEPT ![t] = l]
        /\ pc[t] \in {"idle", "lock.sleep", "change.sleep"}
        /\ l = "change.load" <=> pc[t] = "change.sleep"
  BY DEF LockStart, Interrupted
<1>2. lv' = lv /\ oldval' = oldval /\ tries' = tries
  BY DEF LockStart, Interrupted
<1>3. /\ l \in Labels /\ l \notin {"shared", "excl"}
      /\ (l \in WriterWaits) <=> (pc[t] \in WriterWaits)
  BY <1>1 DEF Labels, ReaderWaits, WriterWaits
<1>4. TypeOK'
  BY <1>1, <1>2, <1>3 DEF LockInv, TypeOK
<1>5. Holders'
  BY <1>1, <1>2, <1>3, QuietStep
<1>6. \A u \in Threads : CopyMatchesLabel(u)'
  BY <1>1, <1>2 DEF CopyMatchesLabel, LockInv, TypeOK
<1>7. QED
  BY <1>4, <1>5, <1>6 DEF LockInv, Holders

(* A thread claims the exclusive lock: nobody else does. *)
LEMMA ChangeStartStep ==
  ASSUME LockInv, NEW t \in Threads, ChangeStart(t)
  PROVE  LockInv'
<1>1. /\ pc' = [pc EXCEPT ![t] = "change.load"] /\ pc[t] = "idle"
      /\ lv' = lv /\ oldval' = oldval /\ tries' = tries
      /\ At(WriterWaits \cup {"excl"}) = {}
  BY DEF ChangeStart
<1>2. "change.load" \in Labels /\ "change.load" \in WriterWaits
  BY DEF Labels, WriterWaits
<1>3. TypeOK'
  BY <1>1, <1>2 DEF LockInv, TypeOK
<1>4. At(WriterWaits)' = {t} /\ At(WriterWaits \cup {"excl"})' = {t}
      /\ At({"excl"})' = At({"excl"})
  BY <1>1, <1>2 DEF At, LockInv, TypeOK
<1>5. Cardinality(At({"shared"}))' = Cardinality(At({"shared"}))
  <2>1. "change.load" # "shared" /\ pc[t] # "shared"
    BY <1>1
  <2>2. QED
    BY <1>1, <2>1, CountReaders, PcType
<1>6. Holders'
  BY <1>1, <1>4, <1>5 DEF LockInv, Holders, WordMatchesHolders, OneWriter
<1>7. \A u \in Threads : CopyMatchesLabel(u)'
  BY <1>1 DEF CopyMatchesLabel, LockInv, TypeOK
<1>8. QED
  BY <1>3, <1>6, <1>7 DEF LockInv, Holders

(* The compare-and-swap that lets a reader in. *)
LEMMA ReaderEntersStep ==
  ASSUME LockInv, NEW t \in Threads, pc[t] = "lock.cas", lv = oldval[t],
         lv' = ReaderEntered(oldval[t]), Leave(t, "shared")
  PROVE  LockInv'
<1>1. /\ pc' = [pc EXCEPT ![t] = "shared"]
      /\ oldval' = [oldval EXCEPT ![t] = Free]
      /\ tries' = [tries EXCEPT ![t] = 0]
  BY DEF Leave
<1>2. /\ lv' \in Word /\ lv'.rd = lv.rd + 1
      /\ ~lv'.writer /\ ~lv'.wwait
  BY DEF ReaderEntered, Fields, LockInv, TypeOK, Word
<1>3. ~lv.writer
  BY DEF LockInv, CopyMatchesLabel, ReaderMayEnter
<1>4. TypeOK'
  BY <1>1, <1>2, FreeIsWord, TriesPositive, LabelClasses DEF LockInv, TypeOK
<1>5. Cardinality(At({"shared"}))' = Cardinality(At({"shared"})) + 1
  BY <1>1, CountReaders, PcType
<1>6. At({"excl"})' = At({"excl"}) /\ At({"excl"}) = {}
  BY <1>1, <1>3 DEF At, LockInv, TypeOK, WordMatchesHolders
<1>7. At(WriterWaits \cup {"excl"})' \subseteq At(WriterWaits \cup {"excl"})
  BY <1>1, LabelClasses DEF At, LockInv, TypeOK
<1>8. Holders'
  BY <1>2, <1>5, <1>6, <1>7 DEF Holders, LockInv, WordMatchesHolders, OneWriter
<1>9. \A u \in Threads : CopyMatchesLabel(u)'
  BY <1>1 DEF CopyMatchesLabel, LockInv, TypeOK
<1>10. QED
  BY <1>4, <1>8, <1>9 DEF LockInv, Holders

(* The atomic subtraction that lets a reader out. *)
LEMMA UnlockStep ==
  ASSUME LockInv, NEW t \in Threads, Unlock(t)
  PROVE  LockInv'
<1>1. PICK l \in {"unlock.wake", "idle"} :
        /\ pc' = [pc EXCEPT ![t] = l] /\ pc[t] = "shared"
        /\ oldval' = [oldval EXCEPT ![t] = Free]
        /\ tries' = [tries EXCEPT ![t] = 0]
        /\ lv' = ReaderLeft(lv)
  BY DEF Unlock, Leave
<1>2. l \in Labels /\ l \notin WriterWaits \cup {"excl", "shared"}
  BY DEF Labels, WriterWaits, Waking
<1>3. /\ Cardinality(At({"shared"}))' = Cardinality(At({"shared"})) - 1
      /\ Cardinality(At({"shared"})) \in Nat
      /\ Cardinality(At({"shared"})) # 0
  <2>1. At({"shared"}) # {}
    BY <1>1 DEF At
  <2>2. QED
    BY <1>1, <1>2, <2>1, CountReaders, PcType
<1>4. /\ lv' \in Word /\ lv'.rd = lv.rd - 1
      /\ lv'.writer <=> lv.writer
      /\ lv'.wwait <=> lv.wwait
  <2>1. lv \in Word /\ lv.rd \in Nat /\ lv.rd # 0
    BY <1>3 DEF LockInv, TypeOK, Word, WordMatchesHolders
  <2>2. lv' = Fields(lv.rd - 1, lv.writer, lv.rwait, lv.wwait)
    BY <1>1 DEF ReaderLeft
  <2>3. lv.rd - 1 \in Nat
    BY <2>1
  <2>4. QED
    BY <2>1, <2>2, <2>3 DEF Fields, Word
<1>5. TypeOK'
  BY <1>1, <1>2, <1>4, FreeIsWord, TriesPositive DEF LockInv, TypeOK
<1>6. At({"excl"})' = At({"excl"}) /\ At(WriterWaits)' = At(WriterWaits)
      /\ At(WriterWaits \cup {"excl"})' = At(WriterWaits \cup {"excl"})
  BY <1>1, <1>2, LabelClasses DEF At, LockInv, TypeOK
<1>7. ~lv.writer
  BY <1>3 DEF LockInv, WordMatchesHolders
<1>8. Holders'
  BY <1>3, <1>4, <1>6, <1>7 DEF Holders, LockInv, WordMatchesHolders, OneWriter
<1>9. \A u \in Threads : CopyMatchesLabel(u)'
  BY <1>1 DEF CopyMatchesLabel, LockInv, TypeOK
<1>10. QED
  BY <1>5, <1>8, <1>9 DEF LockInv, Holders

(* The compare-and-swap that lets the writer in: there is no reader inside. *)
LEMMA WriterEntersStep ==
  ASSUME LockInv, NEW t \in Threads, pc[t] = "change.cas", lv = oldval[t],
         lv' = WriterEntered(oldval[t]), Leave(t, "excl")
  PROVE  LockInv'
<1>1. /\ pc' = [pc EXCEPT ![t] = "excl"]
      /\ oldval' = [oldval EXCEPT ![t] = Free]
      /\ tries' = [tries EXCEPT ![t] = 0]
  BY DEF Leave
<1>2. lv' \in Word /\ lv'.rd = 0 /\ lv'.writer /\ ~lv'.wwait
  BY DEF WriterEntered, Fields, LockInv, TypeOK, Word
<1>3. lv.rd = 0
  BY DEF LockInv, CopyMatchesLabel, WriterMayEnter
<1>4. TypeOK'
  BY <1>1, <1>2, FreeIsWord, TriesPositive, LabelClasses DEF LockInv, TypeOK
<1>5. Cardinality(At({"shared"}))' = Cardinality(At({"shared"}))
  <2>1. "excl" # "shared" /\ pc[t] # "shared"
    OBVIOUS
  <2>2. QED
    BY <1>1, <2>1, CountReaders, PcType
<1>6. "change.cas" \in WriterWaits
  BY DEF WriterWaits
<1>7. /\ At({"excl"})' # {}
      /\ At(WriterWaits \cup {"excl"})' = At(WriterWaits \cup {"excl"})
  BY <1>1, <1>6 DEF At, LockInv, TypeOK
<1>8. Holders'
  BY <1>2, <1>3, <1>5, <1>7 DEF Holders, LockInv, WordMatchesHolders, OneWriter
<1>9. \A u \in Threads : CopyMatchesLabel(u)'
  BY <1>1 DEF CopyMatchesLabel, LockInv, TypeOK
<1>10. QED
  BY <1>4, <1>8, <1>9 DEF LockInv, Holders

(* The atomic subtraction that lets the writer out. *)
LEMMA DoneStep ==
  ASSUME LockInv, NEW t \in Threads, Done(t)
  PROVE  LockInv'
<1>1. PICK l \in {"done.wake", "idle"} :
        /\ pc' = [pc EXCEPT ![t] = l] /\ pc[t] = "excl"
        /\ oldval' = [oldval EXCEPT ![t] = Free]
        /\ tries' = [tries EXCEPT ![t] = 0]
        /\ lv' = WriterLeft(lv)
  BY DEF Done, Leave
<1>2. l \in Labels /\ l \notin WriterWaits \cup {"excl", "shared"}
  BY DEF Labels, WriterWaits, Waking
<1>3. Cardinality(At({"shared"}))' = Cardinality(At({"shared"}))
  BY <1>1, <1>2, CountReaders, PcType
<1>4. lv' \in Word /\ lv'.rd = lv.rd /\ ~lv'.writer /\ (lv'.wwait <=> lv.wwait)
  BY <1>1 DEF WriterLeft, Fields, LockInv, TypeOK, Word
<1>5. TypeOK'
  BY <1>1, <1>2, <1>4, FreeIsWord, TriesPositive DEF LockInv, TypeOK
<1>6. /\ At(WriterWaits)' = At(WriterWaits)
      /\ At(WriterWaits \cup {"excl"})' \subseteq At(WriterWaits \cup {"excl"})
  BY <1>1, <1>2, LabelClasses DEF At, LockInv, TypeOK
<1>7. At({"excl"})' = {}
  BY <1>1, <1>2 DEF At, LockInv, TypeOK, OneWriter
<1>8. Holders'
  BY <1>3, <1>4, <1>6, <1>7 DEF Holders, LockInv, WordMatchesHolders, OneWriter
<1>9. \A u \in Threads : CopyMatchesLabel(u)'
  BY <1>1 DEF CopyMatchesLabel, LockInv, TypeOK
<1>10. QED
  BY <1>5, <1>8, <1>9 DEF LockInv, Holders

(* A wake moves threads within their classes only. *)
LEMMA WakeStep ==
  ASSUME LockInv, NEW t \in Threads, WakeAll(t)
  PROVE  LockInv'
<1>1. lv' = lv /\ oldval' = oldval /\ tries' = tries /\ pc[t] \in Waking
  BY DEF WakeAll
<1>2. /\ pc' \in [Threads -> Labels]
      /\ \A u \in Threads :
           \/ pc'[u] = pc[u] /\ u # t
           \/ pc[u] = "lock.sleep" /\ pc'[u] = "lock.load"
           \/ pc[u] = "change.sleep" /\ pc'[u] = "change.load"
           \/ u = t /\ pc[u] \in Waking /\ pc'[u] = "idle"
  BY DEF WakeAll, LockInv, TypeOK, Labels, ReaderWaits, WriterWaits, Waking
<1>3. TypeOK'
  BY <1>1, <1>2 DEF LockInv, TypeOK
<1>4. /\ At({"shared"})' = At({"shared"}) /\ At({"excl"})' = At({"excl"})
      /\ At(WriterWaits)' = At(WriterWaits)
      /\ At(WriterWaits \cup {"excl"})' = At(WriterWaits \cup {"excl"})
  BY <1>2 DEF At, Waking, WriterWaits
<1>5. Holders'
  BY <1>1, <1>4 DEF Holders, LockInv, WordMatchesHolders, OneWriter
<1>6. \A u \in Threads : CopyMatchesLabel(u)'
  BY <1>1, <1>2 DEF CopyMatchesLabel, LockInv
<1>7. QED
  BY <1>3, <1>5, <1>6 DEF LockInv, Holders
-----------------------------------------------------------------------------
(* The lock starts out free, with nobody inside. *)
LEMMA InitInv == Init => LockInv
<1> SUFFICES ASSUME Init PROVE LockInv
  OBVIOUS
<1>1. \A L : "idle" \notin L => At(L) = {}
  BY DEF Init, At
<1>2. At({"shared"}) = {} /\ At({"excl"}) = {} /\ At(WriterWaits \cup {"excl"}) = {}
  BY <1>1 DEF WriterWaits
<1>3. TypeOK
  BY FreeIsWord, LabelClasses, TriesPositive DEF Init, TypeOK
<1>4. WordMatchesHolders /\ OneWriter /\ ~lv.writer /\ ~lv.wwait
  BY <1>2, FS_EmptySet DEF Init, Free, Fields, WordMatchesHolders, OneWriter
<1>5. \A t \in Threads : CopyMatchesLabel(t)
  BY DEF Init, CopyMatchesLabel
<1>6. QED
  BY <1>3, <1>4, <1>5 DEF LockInv

(* No step of any thread breaks the invariant. *)
LEMMA NextInv == LockInv /\ [Next]_vars => LockInv'
<1> SUFFICES ASSUME LockInv, [Next]_vars PROVE LockInv'
  OBVIOUS
<1>1. CASE UNCHANGED vars
  BY <1>1 DEF vars, LockInv, TypeOK, WordMatchesHolders, OneWriter, At,
              CopyMatchesLabel
<1>2. ASSUME NEW t \in Threads,
             LockStart(t) \/ ChangeStart(t) \/ Step(t) \/ Interrupted(t)
      PROVE  LockInv'
  <2>0. "lock.load" \in ReaderWaits /\ "lock.cas" \in ReaderWaits
        /\ "change.load" \in WriterWaits /\ "change.cas" \in WriterWaits
    BY DEF ReaderWaits, WriterWaits
  <2>1. CASE LockStart(t) \/ Interrupted(t)
    BY <2>1, StartStep
  <2>2. CASE ChangeStart(t)
    BY <2>2, ChangeStartStep
  <2>3. CASE LockLoad(t)
    BY <2>0, <2>3, LockExamineStep DEF LockLoad
  <2>4. CASE LockCas(t)
    BY <2>0, <2>4, LockExamineStep, ReaderEntersStep DEF LockCas
  <2>5. CASE LockSetRWait(t) \/ ChangeSetWWait(t)
    BY <2>5, SetBitStep
  <2>6. CASE LockWait(t) \/ ChangeWait(t)
    BY <2>6, FutexWaitStep DEF LockWait, ChangeWait
  <2>7. CASE ChangeLoad(t)
    BY <2>0, <2>7, ChangeExamineStep DEF ChangeLoad
  <2>8. CASE ChangeCas(t)
    BY <2>0, <2>8, ChangeExamineStep, WriterEntersStep DEF ChangeCas
  <2>9. CASE Unlock(t)
    BY <2>9, UnlockStep
  <2>10. CASE Done(t)
    BY <2>10, DoneStep
  <2>11. CASE WakeAll(t)
    BY <2>11, WakeStep
  <2>12. QED
    BY <1>2, <2>1, <2>2, <2>3, <2>4, <2>5, <2>6, <2>7, <2>8, <2>9, <2>10, <2>11
       DEF Step
<1>3. QED
  BY <1>1, <1>2 DEF Next

(* Every reachable state satisfies the inductive invariant. *)
THEOREM LockInvariant == Spec => []LockInv
  BY InitInv, NextInv, PTL DEF Spec

(* The word, the labels and the locals keep their types; above all, the  *)
(* reader count never goes below zero.                                   *)
THEOREM TypeCorrect == Spec => []TypeOK
<1>1. LockInv => TypeOK
  BY DEF LockInv
<1>2. QED
  BY <1>1, LockInvariant, PTL

(* The word counts the readers inside and shows the writer inside. *)
THEOREM WordIsRight == Spec => []WordMatchesHolders
<1>1. LockInv => WordMatchesHolders
  BY DEF LockInv
<1>2. QED
  BY <1>1, LockInvariant, PTL

(* The invariant excludes: the word has one state, so has who is inside. *)
LEMMA InvExcludes == LockInv => MutualExclusion
<1> SUFFICES ASSUME LockInv, NEW t \in At({"excl"})
             PROVE  At({"shared"}) = {} /\ Cardinality(At({"excl"})) = 1
  BY DEF MutualExclusion
<1>1. Cardinality(At({"shared"})) = 0
  BY DEF LockInv, WordMatchesHolders
<1>2. At({"shared"}) \in SUBSET Threads
  BY DEF At
<1>3. At({"shared"}) = {}
  BY <1>1, <1>2, ThreadsFinite, FS_Subset, FS_EmptySet
<1>4. At({"excl"}) = {t}
  BY DEF LockInv, OneWriter, At
<1>5. QED
  BY <1>3, <1>4, FS_Singleton

(* A writer inside is alone inside. *)
THEOREM Excludes == Spec => []MutualExclusion
  BY InvExcludes, LockInvariant, PTL
-----------------------------------------------------------------------------
(* A sleeper's wakeup is still to come after a step that clears no wait bit  *)
(* and takes nobody away from those it waits for.                            *)
LEMMA WakeupStillComing ==
  ASSUME NEW u \in Threads, WakeupComing(u), pc'[u] = pc[u],
         lv.rwait => lv'.rwait, lv.wwait => lv'.wwait,
         At(Waking) \subseteq At(Waking)',
         At({"shared"}) \subseteq At({"shared"})',
         At({"excl"}) \subseteq At({"excl"})',
         At(WriterWaits) \subseteq At(WriterWaits)'
  PROVE  WakeupComing(u)'
  BY DEF WakeupComing

(* The word after a step inside a loop, seen from the wait bits. *)
LEMMA QuietWakeups ==
  ASSUME LockInv, NoLostWakeup, NEW t \in Threads, NEW l \in Labels,
         pc' = [pc EXCEPT ![t] = l],
         pc[t] \notin {"shared", "excl"} \cup Waking,
         l \notin Asleep, pc[t] \in WriterWaits => l \in WriterWaits,
         lv.rwait => lv'.rwait, lv.wwait => lv'.wwait
  PROVE  NoLostWakeup'
<1> SUFFICES ASSUME NEW u \in At(Asleep)' PROVE WakeupComing(u)'
  BY DEF NoLostWakeup
<1>1. u \in Threads /\ u # t /\ pc'[u] = pc[u] /\ u \in At(Asleep)
  BY PcType DEF At
<1>2. /\ At(Waking) \subseteq At(Waking)'
      /\ At({"shared"}) \subseteq At({"shared"})'
      /\ At({"excl"}) \subseteq At({"excl"})'
      /\ At(WriterWaits) \subseteq At(WriterWaits)'
  BY PcType DEF At
<1>3. WakeupComing(u)
  BY <1>1 DEF NoLostWakeup
<1>4. QED
  BY <1>1, <1>2, <1>3, WakeupStillComing

(* A thread goes to sleep only on a word that owes it a wakeup. *)
LEMMA SleepOwed ==
  ASSUME LockInv, NoLostWakeup, NEW t \in Threads,
         \/ pc[t] = "lock.wait" /\ FutexWait(t, "lock.sleep", "lock.load")
         \/ pc[t] = "change.wait" /\ FutexWait(t, "change.sleep", "change.load")
  PROVE  NoLostWakeup'
<1> SUFFICES ASSUME NEW u \in At(Asleep)' PROVE WakeupComing(u)'
  BY DEF NoLostWakeup
<1>1. PICK l \in {"lock.sleep", "lock.load", "change.sleep", "change.load"} :
        /\ pc' = [pc EXCEPT ![t] = l]
        /\ l \in {"lock.sleep", "lock.load"} <=> pc[t] = "lock.wait"
        /\ pc[t] \in {"lock.wait", "change.wait"}
        /\ l \in Asleep => lv = oldval[t]
  BY DEF FutexWait, Leave, Asleep
<1>2. lv' = lv
  BY DEF FutexWait
<1>3. /\ At(Waking) \subseteq At(Waking)'
      /\ At({"shared"}) \subseteq At({"shared"})'
      /\ At({"excl"}) \subseteq At({"excl"})'
      /\ At(WriterWaits) \subseteq At(WriterWaits)'
  BY <1>1, PcType DEF At, Waking, WriterWaits
<1>4. u \in Threads /\ pc'[u] \in Asleep
  BY DEF At
<1>5. CASE u # t
  <2>1. pc'[u] = pc[u] /\ u \in At(Asleep)
    BY <1>1, <1>4, <1>5, PcType DEF At
  <2>2. QED
    BY <1>2, <1>3, <1>4, <2>1, WakeupStillComing DEF NoLostWakeup
<1>6. CASE u = t /\ pc[t] = "change.wait"
  <2>1. pc'[u] = "change.sleep" /\ lv = oldval[t]
    BY <1>1, <1>4, <1>6, PcType DEF Asleep
  <2>2. lv.wwait /\ lv.rd # 0
    BY <2>1, <1>6 DEF LockInv, CopyMatchesLabel, WriterMayEnter
  <2>3. At({"shared"}) # {}
    BY <2>2, FS_EmptySet DEF LockInv, WordMatchesHolders
  <2>4. QED
    BY <1>2, <1>3, <1>6, <2>1, <2>2, <2>3 DEF WakeupComing
<1>7. CASE u = t /\ pc[t] = "lock.wait"
  <2>1. pc'[u] = "lock.sleep" /\ lv = oldval[t]
    BY <1>1, <1>4, <1>7, PcType DEF Asleep
  <2>2. lv.rwait /\ (lv.writer \/ lv.wwait)
    BY <2>1, <1>7 DEF LockInv, CopyMatchesLabel, ReaderMayEnter
  <2>3. At({"excl"}) # {} \/ (lv.wwait /\ At(WriterWaits) # {})
    BY <2>2 DEF LockInv, WordMatchesHolders
  <2>4. QED
    BY <1>2, <1>3, <1>7, <2>1, <2>2, <2>3 DEF WakeupComing
<1>8. QED
  BY <1>1, <1>5, <1>6, <1>7

(* The last reader out sees WWAIT and wakes; any other leaves a reader inside. *)
LEMMA UnlockWakes ==
  ASSUME LockInv, NoLostWakeup, NEW t \in Threads, Unlock(t)
  PROVE  NoLostWakeup'
<1> SUFFICES ASSUME NEW u \in At(Asleep)' PROVE WakeupComing(u)'
  BY DEF NoLostWakeup
<1>1. PICK l \in {"unlock.wake", "idle"} :
        /\ pc' = [pc EXCEPT ![t] = l] /\ pc[t] = "shared"
        /\ l = "unlock.wake" <=> LastReaderMustWake(lv)
        /\ lv' = ReaderLeft(lv)
  BY DEF Unlock, Leave
<1>2. /\ u \in Threads /\ u # t /\ pc'[u] = pc[u] /\ u \in At(Asleep)
      /\ WakeupComing(u)
  BY <1>1, PcType DEF At, Asleep, NoLostWakeup
<1>3. /\ lv'.rwait <=> lv.rwait
      /\ lv'.wwait <=> lv.wwait
  BY <1>1 DEF ReaderLeft, Fields
<1>4. /\ At(Waking) \subseteq At(Waking)'
      /\ At({"excl"}) \subseteq At({"excl"})'
      /\ At(WriterWaits) \subseteq At(WriterWaits)'
  BY <1>1, PcType, LabelClasses DEF At
<1>5. CASE l = "unlock.wake"
  BY <1>1, <1>5, PcType DEF At, Waking, WakeupComing
<1>6. CASE l = "idle" /\ lv.wwait
  <2>1. lv.rd # 1
    BY <1>1, <1>6 DEF LastReaderMustWake
  <2>2. Cardinality(At({"shared"})) # 1
    BY <2>1 DEF LockInv, WordMatchesHolders
  <2>3. At({"shared"}) # {t}
    BY <2>2, FS_Singleton
  <2>4. t \in At({"shared"})
    BY <1>1 DEF At
  <2>5. At({"shared"})' # {}
    BY <1>1, <2>3, <2>4, PcType DEF At
  <2>6. QED
    BY <1>2, <1>3, <1>4, <2>5 DEF WakeupComing
<1>7. CASE ~lv.wwait
  BY <1>2, <1>3, <1>4, <1>7 DEF WakeupComing
<1>8. QED
  BY <1>1, <1>5, <1>6, <1>7
(* The writer on its way out wakes if a reader left RWAIT in the word. *)
LEMMA DoneWakes ==
  ASSUME LockInv, NoLostWakeup, NEW t \in Threads, Done(t)
  PROVE  NoLostWakeup'
<1> SUFFICES ASSUME NEW u \in At(Asleep)' PROVE WakeupComing(u)'
  BY DEF NoLostWakeup
<1>1. PICK l \in {"done.wake", "idle"} :
        /\ pc' = [pc EXCEPT ![t] = l] /\ pc[t] = "excl"
        /\ l = "done.wake" <=> WriterMustWake(lv)
  BY DEF Done, Leave
<1>2. /\ u \in Threads /\ u # t /\ pc'[u] = pc[u] /\ pc[u] \in Asleep
      /\ WakeupComing(u)
  BY <1>1, PcType DEF At, Asleep, NoLostWakeup
<1>3. CASE l = "done.wake"
  BY <1>1, <1>3, PcType DEF At, Waking, WakeupComing
<1>4. CASE At(Waking) # {}
  <2>1. At(Waking) \subseteq At(Waking)'
    BY <1>1, PcType, LabelClasses DEF At
  <2>2. QED
    BY <1>4, <2>1 DEF WakeupComing
<1>5. pc[u] # "change.sleep"
  BY <1>1, <1>2 DEF LockInv, OneWriter, At, WriterWaits
<1>6. QED
  BY <1>1, <1>2, <1>3, <1>4, <1>5 DEF WakeupComing, WriterMustWake

(* A reader comes in, and clears RWAIT, only when no sleeper relies on it. *)
LEMMA ReaderEntersWakes ==
  ASSUME LockInv, NoLostWakeup, NEW t \in Threads, pc[t] = "lock.cas",
         lv = oldval[t], Leave(t, "shared")
  PROVE  NoLostWakeup'
<1> SUFFICES ASSUME NEW u \in At(Asleep)' PROVE WakeupComing(u)'
  BY DEF NoLostWakeup
<1>1. pc' = [pc EXCEPT ![t] = "shared"]
  BY DEF Leave
<1>2. /\ u \in Threads /\ WakeupComing(u)
  BY <1>1, PcType DEF At, Asleep, NoLostWakeup
<1>3. ~lv.writer /\ ~lv.wwait
  BY DEF LockInv, CopyMatchesLabel, ReaderMayEnter
<1>4. At(Waking) # {}
  BY <1>2, <1>3 DEF LockInv, WordMatchesHolders, WakeupComing
<1>5. At(Waking) \subseteq At(Waking)'
  BY <1>1, PcType, LabelClasses DEF At, Waking
<1>6. QED
  BY <1>4, <1>5 DEF WakeupComing

(* The writer comes in and keeps RWAIT; no other writer is asleep. *)
LEMMA WriterEntersWakes ==
  ASSUME LockInv, NoLostWakeup, NEW t \in Threads, pc[t] = "change.cas",
         lv = oldval[t], lv' = WriterEntered(oldval[t]), Leave(t, "excl")
  PROVE  NoLostWakeup'
<1> SUFFICES ASSUME NEW u \in At(Asleep)' PROVE WakeupComing(u)'
  BY DEF NoLostWakeup
<1>1. pc' = [pc EXCEPT ![t] = "excl"] /\ (lv'.rwait <=> lv.rwait)
  BY DEF Leave, WriterEntered, Fields
<1>2. /\ u \in Threads /\ WakeupComing(u) /\ u # t /\ pc'[u] = pc[u]
      /\ pc[u] \in Asleep
  BY <1>1, PcType DEF At, Asleep, NoLostWakeup
<1>3. At(Waking) \subseteq At(Waking)' /\ At({"excl"})' # {}
  BY <1>1, PcType, LabelClasses DEF At, Waking
<1>4. pc[u] # "change.sleep"
  BY <1>2 DEF LockInv, OneWriter, At, WriterWaits
<1>5. QED
  BY <1>1, <1>2, <1>3, <1>4 DEF WakeupComing

(* No step of any thread leaves a sleeper that nobody owes a wakeup. *)
LEMMA WakeupInv == LockInv /\ NoLostWakeup /\ [Next]_vars => NoLostWakeup'
<1> SUFFICES ASSUME LockInv, NoLostWakeup, [Next]_vars PROVE NoLostWakeup'
  OBVIOUS
<1>1. CASE UNCHANGED vars
  BY <1>1 DEF vars, NoLostWakeup, WakeupComing, At
<1>2. ASSUME NEW t \in Threads,
             LockStart(t) \/ ChangeStart(t) \/ Step(t) \/ Interrupted(t)
      PROVE  NoLostWakeup'
  <2>1. CASE \/ LockStart(t) \/ ChangeStart(t) \/ Interrupted(t)
             \/ LockSetRWait(t) \/ ChangeSetWWait(t)
             \/ pc[t] = "lock.load" /\ LockExamine(t)
             \/ pc[t] = "lock.cas" /\ LockExamine(t)
             \/ pc[t] = "change.load" /\ ChangeExamine(t)
             \/ pc[t] = "change.cas" /\ ChangeExamine(t)
    <3>1. PICK l \in {"lock.load", "lock.cas", "lock.or", "lock.wait",
                      "change.load", "change.cas", "change.or", "change.wait"} :
            /\ pc' = [pc EXCEPT ![t] = l]
            /\ pc[t] \notin {"shared", "excl", "unlock.wake", "done.wake"}
            /\ pc[t] \in {"change.load", "change.cas", "change.or", "change.sleep"} =>
                 l \in {"change.load", "change.cas", "change.or", "change.wait"}
            /\ pc[t] # "change.wait"
      BY <2>1 DEF LockStart, ChangeStart, Interrupted, LockSetRWait,
         ChangeSetWWait, LockExamine, ChangeExamine, Examine, NextTry
    <3>2. /\ l \in Labels /\ l \notin Asleep
          /\ pc[t] \notin {"shared", "excl"} \cup Waking
          /\ pc[t] \in WriterWaits => l \in WriterWaits
      BY <3>1 DEF Labels, ReaderWaits, WriterWaits, Asleep, Waking
    <3>3. (lv.rwait => lv'.rwait) /\ (lv.wwait => lv'.wwait)
      BY <2>1 DEF LockStart, ChangeStart, Interrupted, LockSetRWait,
         ChangeSetWWait, LockExamine, ChangeExamine, Examine, WithRWait,
         WithWWait, Fields
    <3>4. QED
      BY <3>1, <3>2, <3>3, QuietWakeups
  <2>2. CASE LockWait(t) \/ ChangeWait(t)
    BY <2>2, SleepOwed DEF LockWait, ChangeWait
  <2>3. CASE LockCas(t) \/ LockLoad(t)
    BY <2>1, <2>3, ReaderEntersWakes DEF LockCas, LockLoad
  <2>4. CASE ChangeCas(t) \/ ChangeLoad(t)
    BY <2>1, <2>4, WriterEntersWakes DEF ChangeCas, ChangeLoad
  <2>5. CASE Unlock(t)
    BY <2>5, UnlockWakes
  <2>6. CASE Done(t)
    BY <2>6, DoneWakes
  <2>7. CASE WakeAll(t)
    <3>1. At(Asleep)' = {}
      BY <2>7 DEF WakeAll, At, Asleep, Waking
    <3>2. QED
      BY <3>1 DEF NoLostWakeup
  <2>8. QED
    BY <1>2, <2>1, <2>2, <2>3, <2>4, <2>5, <2>6, <2>7 DEF Step
<1>3. QED
  BY <1>1, <1>2 DEF Next

(* No wakeup is lost, however the word changed while a thread made up its *)
(* mind to sleep.                                                         *)
THEOREM WakeupsAreNotLost == Spec => []NoLostWakeup
<1>1. Init => NoLostWakeup
  BY DEF Init, NoLostWakeup, At, Asleep
<1>2. QED
  BY <1>1, WakeupInv, LockInvariant, PTL DEF Spec
-----------------------------------------------------------------------------
(* While WWAIT is set, no step brings a reader in. *)
THEOREM DoorIsShut == Spec => WaitingWriterShutsOutReaders
<1>1. LockInv /\ [Next]_vars =>
        [lv.wwait => At({"shared"})' \subseteq At({"shared"})]_vars
  <2> SUFFICES ASSUME LockInv, Next, lv.wwait, NEW u \in At({"shared"})'
               PROVE  u \in At({"shared"})
    BY DEF vars
  <2>1. PICK t \in Threads :
          LockStart(t) \/ ChangeStart(t) \/ Step(t) \/ Interrupted(t)
    BY DEF Next
  <2>2. u \in Threads /\ pc'[u] = "shared"
    BY DEF At
  <2>3. CASE LockCas(t) /\ lv = oldval[t]
    BY <2>3 DEF LockCas, LockInv, CopyMatchesLabel, ReaderMayEnter
  <2>4. CASE WakeAll(t)
    BY <2>2, <2>4 DEF WakeAll, At
  <2>5. CASE ~(LockCas(t) /\ lv = oldval[t]) /\ ~WakeAll(t)
    <3>1. PICK l : pc' = [pc EXCEPT ![t] = l] /\ l # "shared"
      BY <2>1, <2>5 DEF LockStart, ChangeStart, Interrupted, Step, LockLoad,
         LockCas, LockSetRWait, LockWait, ChangeLoad, ChangeCas,
         ChangeSetWWait, ChangeWait, Unlock, Done, FutexWait, Leave,
         LockExamine, ChangeExamine, Examine, NextTry
    <3>2. QED
      BY <2>2, <3>1, PcType DEF At
  <2>6. QED
    BY <2>3, <2>4, <2>5
<1>2. QED
  BY <1>1, LockInvariant, PTL DEF Spec, WaitingWriterShutsOutReaders

-----------------------------------------------------------------------------
(* The lock implements ReadersWriter. *)

Mapped == [t \in Threads |-> Mode(pc[t])]

(* What the abstract lock sees of each label. *)
LEMMA ModeValues ==
  /\ Mode("idle") = "out" /\ Mode("shared") = "shared" /\ Mode("excl") = "excl"
  /\ Mode("unlock.wake") = "out" /\ Mode("done.wake") = "out"
  /\ \A l \in ReaderWaits : Mode(l) = "wantShared"
  /\ \A l \in WriterWaits : Mode(l) = "wantExcl"
  /\ "lock.load" \in ReaderWaits /\ "lock.cas" \in ReaderWaits
  /\ "change.load" \in WriterWaits /\ "change.cas" \in WriterWaits
  BY DEF Mode, ReaderWaits, WriterWaits

(* A step of one thread moves that thread's mode, or none. *)
LEMMA ModeMoves ==
  ASSUME LockInv, NEW t \in Threads, NEW l, pc' = [pc EXCEPT ![t] = l]
  PROVE  Mapped' = [Mapped EXCEPT ![t] = Mode(l)]
  BY PcType DEF Mapped

(* The sets of threads the abstract lock speaks of, in labels. *)
LEMMA ModesAreLabels ==
  /\ Abstract!In("shared") = At({"shared"})
  /\ Abstract!In("excl") = At({"excl"})
  /\ Abstract!In("wantExcl") = At(WriterWaits)
  BY LabelClasses DEF Abstract!In, At, Mode, ReaderWaits, WriterWaits

(* Every step is a step of the abstract lock, or one it does not see. *)
LEMMA StepsImplement ==
  LockInv /\ [Next]_vars => [Abstract!Next]_Mapped
<1> SUFFICES ASSUME LockInv, [Next]_vars PROVE [Abstract!Next]_Mapped
  OBVIOUS
<1>1. CASE UNCHANGED vars
  BY <1>1 DEF vars, Mapped, Mode
<1>2. ASSUME NEW t \in Threads,
             LockStart(t) \/ ChangeStart(t) \/ Step(t) \/ Interrupted(t)
      PROVE  [Abstract!Next]_Mapped
  <2>1. CASE LockStart(t)
    <3>0. pc[t] = "idle" /\ pc' = [pc EXCEPT ![t] = "lock.load"]
      BY <2>1 DEF LockStart
    <3>1. Mode(pc[t]) = "out" /\ Mapped' = [Mapped EXCEPT ![t] = "wantShared"]
      <4>1. Mapped' = [Mapped EXCEPT ![t] = Mode("lock.load")]
        BY <3>0, ModeMoves
      <4>2. QED
        BY <3>0, <4>1, ModeValues
    <3>2. Abstract!WantShared(t)
      BY <3>1 DEF Abstract!WantShared, Abstract!Move, Mapped
    <3>3. QED
      BY <3>2 DEF Abstract!Next
  <2>2. CASE ChangeStart(t)
    <3>0. pc[t] = "idle" /\ pc' = [pc EXCEPT ![t] = "change.load"]
      BY <2>2 DEF ChangeStart
    <3>1. Mode(pc[t]) = "out" /\ Mapped' = [Mapped EXCEPT ![t] = "wantExcl"]
      <4>1. Mapped' = [Mapped EXCEPT ![t] = Mode("change.load")]
        BY <3>0, ModeMoves
      <4>2. QED
        BY <3>0, <4>1, ModeValues
    <3>2. At(WriterWaits) \cup At({"excl"}) = {}
      BY <2>2 DEF ChangeStart, At
    <3>3. Abstract!WantExcl(t)
      BY <3>1, <3>2, ModesAreLabels DEF Abstract!WantExcl, Abstract!Move, Mapped
    <3>4. QED
      BY <3>3 DEF Abstract!Next
  <2>3. CASE LockCas(t) /\ lv = oldval[t]
    <3>1. pc[t] = "lock.cas" /\ pc' = [pc EXCEPT ![t] = "shared"]
      BY <2>3 DEF LockCas, LockExamine, Leave
    <3>2. Mode(pc[t]) = "wantShared" /\ Mapped' = [Mapped EXCEPT ![t] = "shared"]
      <4>1. Mapped' = [Mapped EXCEPT ![t] = Mode("shared")]
        BY <3>1, ModeMoves
      <4>2. QED
        BY <3>1, <4>1, ModeValues
    <3>3. At({"excl"}) = {}
      BY <2>3, <3>1 DEF LockInv, CopyMatchesLabel, ReaderMayEnter, WordMatchesHolders
    <3>4. Abstract!GetShared(t)
      BY <3>2, <3>3, ModesAreLabels DEF Abstract!GetShared, Abstract!Move, Mapped
    <3>5. QED
      BY <3>4 DEF Abstract!Next
  <2>4. CASE ChangeCas(t) /\ lv = oldval[t]
    <3>1. pc[t] = "change.cas" /\ pc' = [pc EXCEPT ![t] = "excl"]
      BY <2>4 DEF ChangeCas, ChangeExamine, Leave
    <3>2. Mode(pc[t]) = "wantExcl" /\ Mapped' = [Mapped EXCEPT ![t] = "excl"]
      <4>1. Mapped' = [Mapped EXCEPT ![t] = Mode("excl")]
        BY <3>1, ModeMoves
      <4>2. QED
        BY <3>1, <4>1, ModeValues
    <3>3. Cardinality(At({"shared"})) = 0
      BY <2>4, <3>1 DEF LockInv, CopyMatchesLabel, WriterMayEnter, WordMatchesHolders
    <3>4. At({"shared"}) = {}
      BY <3>1, <3>3, CountReaders, PcType
    <3>5. Abstract!GetExcl(t)
      BY <3>2, <3>4, ModesAreLabels DEF Abstract!GetExcl, Abstract!Move, Mapped
    <3>6. QED
      BY <3>5 DEF Abstract!Next
  <2>5. CASE Unlock(t)
    <3>1. PICK l \in {"unlock.wake", "idle"} :
            pc[t] = "shared" /\ pc' = [pc EXCEPT ![t] = l]
      BY <2>5 DEF Unlock, Leave
    <3>2. Mode(l) = "out" /\ Mode(pc[t]) = "shared"
      BY <3>1, ModeValues
    <3>3. Mapped' = [Mapped EXCEPT ![t] = "out"]
      BY <3>1, <3>2, ModeMoves
    <3>4. Abstract!PutShared(t)
      BY <3>2, <3>3 DEF Abstract!PutShared, Abstract!Move, Mapped
    <3>5. QED
      BY <3>4 DEF Abstract!Next
  <2>6. CASE Done(t)
    <3>1. PICK l \in {"done.wake", "idle"} :
            pc[t] = "excl" /\ pc' = [pc EXCEPT ![t] = l]
      BY <2>6 DEF Done, Leave
    <3>2. Mode(l) = "out" /\ Mode(pc[t]) = "excl"
      BY <3>1, ModeValues
    <3>3. Mapped' = [Mapped EXCEPT ![t] = "out"]
      BY <3>1, <3>2, ModeMoves
    <3>4. Abstract!PutExcl(t)
      BY <3>2, <3>3 DEF Abstract!PutExcl, Abstract!Move, Mapped
    <3>5. QED
      BY <3>4 DEF Abstract!Next
  <2>7. CASE WakeAll(t)
    <3>1. \A u \in Threads :
            \/ pc'[u] = pc[u]
            \/ pc[u] \in ReaderWaits /\ pc'[u] \in ReaderWaits
            \/ pc[u] \in WriterWaits /\ pc'[u] \in WriterWaits
            \/ pc[u] \in Waking /\ pc'[u] = "idle"
      BY <2>7 DEF WakeAll, ReaderWaits, WriterWaits
    <3>2. \A u \in Threads : Mode(pc'[u]) = Mode(pc[u])
      BY <3>1, LabelClasses DEF Mode, ReaderWaits, WriterWaits, Waking
    <3>3. QED
      BY <3>2 DEF Mapped
  <2>8. CASE \/ Interrupted(t) \/ LockLoad(t) \/ LockSetRWait(t) \/ LockWait(t)
             \/ ChangeLoad(t) \/ ChangeSetWWait(t) \/ ChangeWait(t)
             \/ (LockCas(t) \/ ChangeCas(t)) /\ lv # oldval[t]
    <3>1. PICK l \in ReaderWaits \cup WriterWaits :
            /\ pc' = [pc EXCEPT ![t] = l]
            /\ pc[t] \in ReaderWaits \cup WriterWaits
            /\ l \in ReaderWaits <=> pc[t] \in ReaderWaits
      BY <2>8 DEF Interrupted, LockLoad, LockCas, LockSetRWait, LockWait,
         ChangeLoad, ChangeCas, ChangeSetWWait, ChangeWait, FutexWait, Leave,
         LockExamine, ChangeExamine, Examine, NextTry, ReaderWaits, WriterWaits
    <3>2. Mode(l) = Mode(pc[t]) /\ Mapped' = [Mapped EXCEPT ![t] = Mode(l)]
      BY <3>1, ModeMoves, ModeValues
    <3>3. Mapped' = Mapped
      BY <3>2 DEF Mapped
    <3>4. QED
      BY <3>3
  <2>9. QED
    BY <1>2, <2>1, <2>2, <2>3, <2>4, <2>5, <2>6, <2>7, <2>8 DEF Step, LockCas, ChangeCas
<1>3. QED
  BY <1>1, <1>2 DEF Next

(* Every behaviour of the lock is one that ReadersWriter allows. *)
THEOREM Implements == Spec => Abstract!SafeSpec
<1>1. Init => Abstract!Init
  BY LabelClasses DEF Init, Abstract!Init, Mode, ReaderWaits, WriterWaits
<1>2. QED
  BY <1>1, StepsImplement, LockInvariant, PTL DEF Spec, Abstract!SafeSpec, Mapped
=============================================================================
