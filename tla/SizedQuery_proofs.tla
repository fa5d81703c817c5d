------------------------- MODULE SizedQuery_proofs -------------------------
(***************************************************************************)
(* Proofs about SizedQuery, for any lists, sizes, tries, faults and        *)
(* changes, with what IfList_proofs shows of a single list.                *)
(***************************************************************************)
EXTENDS SizedQuery, IfList_proofs

USE DEF static, vars, Answer, Fails, Wrote

-----------------------------------------------------------------------------
(* The constants, and one list. *)
LEMMA Limits ==
  /\ MAX_SYSCTL_TRY \in Nat /\ 1 <= MAX_SYSCTL_TRY /\ MaxChanges \in Nat /\ 0 \in Args
  /\ BufSize \in Nat /\ RQ_IFS \in Nat /\ RQ_MAXSIZE \in Nat
<1>1. \A n \in Nat \ {0} : n \in Nat /\ 1 <= n
  OBVIOUS
<1>2. QED
  BY <1>1, QueryOK

(* What the kernel lists are interfaces; a mounted file system is one for   *)
(* getmntinfo.                                                              *)
LEMMA ListsAreLists == \A l \in Lists : l \in Seq(Interface) /\ Len(l) \in Nat
<1>1. ASSUME NEW l \in Lists
      PROVE  l \in Seq(Interface)
  BY QueryOK
<1>2. QED
  BY <1>1, LenProperties

(* What a call needs room for is a number.                                  *)
LEMMA SizesAreNumbers == \A o \in Ops, l \in Lists : Size(o, l) \in Nat
<1>1. SUFFICES ASSUME NEW o \in Ops, NEW l \in Lists
               PROVE  Size(o, l) \in Nat
  OBVIOUS
<1>2. Len(l) \in Nat /\ Len(Messages(l)) \in Nat /\ Bytes(Records(l)) \in Nat
  BY ListsAreLists, ListSizes
<1>3. QED
  BY <1>2 DEF Size

(* What the passes of getifaddrs over a list in the report are to each other *)
(* and to the list.                                                          *)
Agree(l) ==
  /\ ~Count(l).bad /\ ~Fill(l).bad /\ Fill(l).ift = Entries(l) /\ Entries(l) # Failure
  /\ Entries(l) \in Seq(Entry) /\ Len(Fill(l).ift) \in Nat
  /\ Count(l).icnt \in Nat /\ Count(l).dcnt \in Nat
  /\ Len(Fill(l).ift) <= Count(l).icnt
  /\ Fill(l).data - HDR * Count(l).icnt \in Nat
  /\ Fill(l).data - HDR * Count(l).icnt <= Count(l).dcnt

(* The passes agree on every list the kernel may have (SecondPassFits).     *)
LEMMA PassesAgree == \A l \in Lists : Agree(l)
<1>1. SUFFICES ASSUME NEW l \in Lists
               PROVE  Agree(l)
  OBVIOUS
<1>2. l \in Seq(Interface) /\ Entries(l) # Failure
  BY ListsAreLists, QueryOK
<1>3. QED
  BY <1>2, SecondPassFits, EntriesByRows DEF Agree

(* if_iterate finds the names of every list (IterationFindsNames).          *)
LEMMA NamesFound ==
  ASSUME NEW l \in Lists
  PROVE  Iterated(l) = NameIndex(l) /\ NameIndex(l) \in Seq(Pair)
BY ListsAreLists, IterationFindsNames, NameIndexByRows

(* The functions that look for one name or index return one, or fail, and    *)
(* they fail where there is nothing to look at.                              *)
LEMMA LookupType ==
  ASSUME NEW l \in Seq(Pair), NEW a, NEW key, NEW answer \in {"index", "name"}
  PROVE  Lookup(l, key, answer, a) = Failure \/ Lookup(l, key, answer, a) \in Seq(Nat)
<1> DEFINE found == {k \in DOMAIN l : l[k][key] = a}
<1>1. DOMAIN l \subseteq Nat /\ \A k \in DOMAIN l : l[k] \in Pair
  BY LenProperties, ElementOfSeq
<1>2. CASE found = {}
  BY <1>2 DEF Lookup
<1>3. CASE found # {}
  <2>1. found \in SUBSET Nat
    BY <1>1
  <2>2. PICK k \in found : k = Min(found)
    <3> HIDE DEF found
    <3>1. QED
      BY <1>3, <2>1, MinOf
  <2>3. l[k][answer] \in Nat
    BY <1>1 DEF Pair
  <2>4. PICK x \in Nat : x = l[k][answer]
    BY <2>3
  <2>5. Lookup(l, key, answer, a) = <<x>>
    BY <1>3, <2>2, <2>4 DEF Lookup
  <2>6. QED
    BY <2>5
<1>4. QED
  BY <1>2, <1>3

(* Each function of if_index.c makes of the pairs what it promises; the     *)
(* two that look for one fail if there is none.                             *)
LEMMA FromPairsType ==
  ASSUME NEW o \in Iterators, NEW l \in Seq(Pair), NEW a
  PROVE  /\ o = "if_nameindex" => FromPairs(o, l, a) \in Seq(Pair)
         /\ o # "if_nameindex" => FromPairs(o, l, a) = Failure \/ FromPairs(o, l, a) \in Seq(Nat)
         /\ o # "if_nameindex" => FromPairs(o, <<>>, a) = Failure
<1>1. \A key, answer : Lookup(<<>>, key, answer, a) = Failure
  <2>1. DOMAIN <<>> = {}
    BY EmptySeq
  <2>2. QED
    BY <2>1 DEF Lookup
<1>2. CASE o = "if_nameindex"
  BY <1>2 DEF FromPairs
<1>3. CASE o = "if_nametoindex"
  <2>1. \A r : FromPairs(o, r, a) = Lookup(r, "name", "index", a)
    BY <1>3 DEF FromPairs
  <2>2. \/ Lookup(l, "name", "index", a) = Failure
        \/ Lookup(l, "name", "index", a) \in Seq(Nat)
    BY LookupType
  <2>3. QED
    BY <1>1, <1>3, <2>1, <2>2
<1>4. CASE o = "if_indextoname"
  <2>1. \A r : FromPairs(o, r, a) = Lookup(r, "index", "name", a)
    BY <1>4 DEF FromPairs
  <2>2. \/ Lookup(l, "index", "name", a) = Failure
        \/ Lookup(l, "index", "name", a) \in Seq(Nat)
    BY LookupType
  <2>3. QED
    BY <1>1, <1>4, <2>1, <2>2
<1>5. QED
  BY <1>2, <1>3, <1>4 DEF Iterators

(* After an error of sysctl there is nothing to find.                       *)
LEMMA EmptyPairs ==
  \A a : \A o \in {"if_nametoindex", "if_indextoname"} : FromPairs(o, <<>>, a) = Failure
BY EmptySeq, FromPairsType DEF Iterators

(* What is copied fits, and is everything if enough room is left.            *)
LEMMA CopiesFit ==
  ASSUME NEW l \in Lists, NEW room \in Nat, NEW copied, copied = Fitting(Records(l), room)
  PROVE  /\ copied \in Seq(Record) /\ Bytes(copied) \in Nat /\ Bytes(copied) <= room
         /\ Complete(Bytes(copied), room) => copied = Records(l)
<1>1. PICK r \in Seq(Record) : r = Records(l)
  BY ListsAreLists, RecordsType
<1>2. copied \in Seq(Record) /\ Bytes(copied) \in Nat /\ Bytes(copied) <= room
  BY <1>1, CopiedRecordsFit
<1>3. RQ_MAXSIZE \in Nat /\ \A k \in DOMAIN r : r[k].len <= RQ_MAXSIZE
  BY <1>1, QueryOK
<1>4. Complete(Bytes(copied), room) => copied = r
  BY <1>1, <1>3, CopiedRecordsFit DEF Complete
<1>5. QED
  BY <1>1, <1>2, <1>4

-----------------------------------------------------------------------------
(* The call of every label, and the numbers of a call.  The list is one of   *)
(* the possible ones, and a call of getifaddrs under way has a try left.     *)
CallOK ==
  /\ list \in Lists /\ arg \in Args /\ needed \in Nat
  /\ changes \in Nat /\ grown \in Nat /\ ntry \in Nat
  /\ changes <= MaxChanges /\ grown <= changes /\ ntry <= MAX_SYSCTL_TRY
  /\ pc \in {"idle", "measure", "read", "count", "fill", "iterate", "ioctl", "done"}
  /\ op \in Ops \cup {NULL} /\ moments \subseteq Lists
  /\ pc # "done" => result = NULL
  /\ pc # "idle" => op \in Ops /\ list \in moments
  /\ pc \in {"measure", "read"} => op = "getifaddrs" /\ ntry < MAX_SYSCTL_TRY
  /\ pc \in {"count", "fill"} => op = "getmntinfo"
  /\ pc = "iterate" => op \in Iterators
  /\ pc = "ioctl" => op = "__ifreq"
  /\ pc = "idle" => ntry = 0 /\ grown = 0 /\ ~failed /\ writes = {}

(* A call that is over has failed, or has an answer of its function's form.  *)
AnswerOK == pc = "done" => result = Failure \/ result \in Answers

FaultOK == failed \in BOOLEAN

(* What was written, and where, has a size. *)
RoomsOK == \A w \in writes : w.size \in Nat /\ w.room \in Nat

(* While a call of getifaddrs has not failed the list has grown in every try *)
(* that is over, and in this one too if it has outgrown what was measured.   *)
TriesOK ==
  /\ pc = "measure" => ntry <= grown
  /\ pc = "read" => ntry <= grown /\ (Size(op, list) > needed => ntry + 1 <= grown)
  /\ GivesUpOnlyWhenGrowing

(* The static buffer is as large as its size says, and large enough for what *)
(* the second system call is told.                                           *)
BufferOK ==
  /\ mntbuf \in Nat /\ mntbufsize \in {0, mntbuf}
  /\ pc = "fill" => needed <= mntbuf

(* No step takes a call to a label of another function, or beyond its       *)
(* tries.                                                                   *)
LEMMA CallStep ==
  ASSUME CallOK, [Next]_vars
  PROVE  CallOK'
<1> USE DEF CallOK
<1>1. \A l \in Lists : Size("getifaddrs", l) \in Nat /\ Size("getmntinfo", l) \in Nat
  BY SizesAreNumbers DEF Ops
<1>2. ASSUME Measure
      PROVE  CallOK'
  BY <1>1, <1>2 DEF Measure
<1>3. ASSUME Read
      PROVE  CallOK'
  BY <1>3, Limits DEF Read, GiveUp
<1>4. ASSUME MntCount
      PROVE  CallOK'
  <2>1. Len(list) \in Nat
    BY ListsAreLists
  <2>2. QED
    BY <1>4, <2>1 DEF MntCount
<1>5. ASSUME MntFill
      PROVE  CallOK'
  BY <1>5 DEF MntFill
<1>6. ASSUME Iterate
      PROVE  CallOK'
  BY <1>6 DEF Iterate
<1>7. ASSUME IfConf
      PROVE  CallOK'
  BY <1>7 DEF IfConf
<1>8. ASSUME Return
      PROVE  CallOK'
  BY <1>8, Limits DEF Return
<1>9. ASSUME NEW o \in Ops, NEW a \in Args, NEW l \in Lists, Begin(o, a, l)
      PROVE  CallOK'
  BY <1>9, Limits DEF Begin, First, Ops, Iterators
<1>10. ASSUME NEW l \in Lists, Change(l)
       PROVE  CallOK'
  <2>1. changes' \in Nat /\ changes' <= MaxChanges /\ grown' \in Nat /\ grown' <= changes'
    BY <1>10, Limits DEF Change
  <2>2. QED
    BY <1>10, <2>1 DEF Change
<1>11. ASSUME UNCHANGED vars
       PROVE  CallOK'
  BY <1>11
<1>12. QED
  BY <1>2, <1>3, <1>4, <1>5, <1>6, <1>7, <1>8, <1>9, <1>10, <1>11 DEF Next, Work

(* Each try that ends has seen the list grow.                               *)
LEMMA TriesStep ==
  ASSUME CallOK, TriesOK, [Next]_vars
  PROVE  TriesOK'
<1> USE DEF CallOK, TriesOK, GivesUpOnlyWhenGrowing
<1>1. \A l \in Lists : Size("getifaddrs", l) \in Nat
  BY SizesAreNumbers DEF Ops
<1>2. ASSUME Measure
      PROVE  TriesOK'
  <2>1. pc = "measure" /\ op = "getifaddrs" /\ ntry <= grown
    BY <1>2 DEF Measure
  <2>2. CASE failed' /\ pc' = "done"
    BY <2>2
  <2>3. CASE needed' = Size(op, list) /\ pc' = "read" /\ UNCHANGED <<result, failed>>
    <3>1. Size(op, list)' = Size(op, list) /\ ~(needed' < Size(op, list))
      BY <1>1, <1>2, <2>1, <2>3 DEF Measure, Size
    <3>2. QED
      BY <1>2, <2>1, <2>3, <3>1 DEF Measure
  <2>4. QED
    BY <1>2, <2>2, <2>3 DEF Measure
<1>3. ASSUME Read
      PROVE  TriesOK'
  <2>1. pc = "read" /\ op = "getifaddrs" /\ ntry <= grown /\ grown' = grown /\ op' = op
    BY <1>3 DEF Read
  <2>2. CASE failed' /\ pc' = "done"
    BY <2>2
  <2>3. CASE /\ pc' = "done" /\ failed' = failed
             /\ result' = IF Count(list).bad \/ Fill(list).bad THEN Failure ELSE Fill(list).ift
    BY <2>3, PassesAgree DEF Agree
  <2>4. CASE /\ Size(op, list) > needed /\ ntry' = ntry + 1 /\ failed' = failed
             /\ IF GiveUp(ntry + 1) THEN Answer(Failure) ELSE pc' = "measure"
    BY <2>1, <2>4, QueryOK DEF GiveUp
  <2>5. QED
    BY <1>3, <2>2, <2>3, <2>4 DEF Read
<1>4. ASSUME MntCount \/ MntFill \/ Iterate \/ IfConf
      PROVE  TriesOK'
  BY <1>4 DEF MntCount, MntFill, Iterate, IfConf, Iterators
<1>5. ASSUME Return
      PROVE  TriesOK'
  BY <1>5 DEF Return
<1>6. ASSUME NEW o \in Ops, NEW a \in Args, NEW l \in Lists, Begin(o, a, l)
      PROVE  TriesOK'
  BY <1>6 DEF Begin, First
<1>7. ASSUME NEW l \in Lists, Change(l)
      PROVE  TriesOK'
  <2>1. /\ pc' = pc /\ op' = op /\ needed' = needed /\ ntry' = ntry /\ list' = l
        /\ pc # "done" /\ grown' = IF Size(op, l) > Size(op, list) THEN grown + 1 ELSE grown
    BY <1>7 DEF Change
  <2>2. Size(op, list)' = Size(op, l)
    BY <2>1 DEF Size
  <2>3. CASE pc = "measure"
    BY <2>1, <2>3
  <2>4. CASE pc = "read"
    <3>1. op = "getifaddrs" /\ Size(op, l) \in Nat /\ Size(op, list) \in Nat
      BY <1>1, <2>4
    <3>2. QED
      BY <2>1, <2>2, <2>4, <3>1
  <2>5. QED
    BY <2>1, <2>3, <2>4
<1>8. ASSUME UNCHANGED vars
      PROVE  TriesOK'
  BY <1>8 DEF Size
<1>9. QED
  BY <1>2, <1>3, <1>4, <1>5, <1>6, <1>7, <1>8 DEF Next, Work

(* The size of the static buffer follows the buffer through every success   *)
(* and failure.                                                             *)
LEMMA BufferStep ==
  ASSUME CallOK, BufferOK, [Next]_vars
  PROVE  BufferOK'
<1> USE DEF CallOK, BufferOK
<1>1. ASSUME MntCount
      PROVE  BufferOK'
  <2>1. Len(list) \in Nat
    BY ListsAreLists
  <2>2. QED
    BY <1>1, <2>1 DEF MntCount, Released
<1>2. ASSUME Measure \/ Read \/ MntFill \/ Iterate \/ IfConf
      PROVE  BufferOK'
  BY <1>2 DEF Measure, Read, MntFill, Iterate, IfConf
<1>3. ASSUME Return
      PROVE  BufferOK'
  BY <1>3 DEF Return
<1>4. ASSUME NEW o \in Ops, NEW a \in Args, NEW l \in Lists, Begin(o, a, l)
      PROVE  BufferOK'
  BY <1>4 DEF Begin, First
<1>5. ASSUME NEW l \in Lists, Change(l)
      PROVE  BufferOK'
  BY <1>5 DEF Change
<1>6. QED
  BY <1>1, <1>2, <1>3, <1>4, <1>5 DEF Next, Work

(* What is written fits: the report in what was measured, the entries and   *)
(* their data in what the first pass counted, the file systems in the       *)
(* static buffer.                                                           *)
LEMMA WritesStep ==
  ASSUME CallOK, BufferOK, WritesStayInBuffers, [Next]_vars
  PROVE  WritesStayInBuffers'
<1> USE DEF CallOK, BufferOK, WritesStayInBuffers
<1>1. ASSUME Read
      PROVE  WritesStayInBuffers'
  BY <1>1, PassesAgree DEF Read, Agree
<1>2. ASSUME MntFill
      PROVE  WritesStayInBuffers'
  BY <1>2 DEF MntFill
<1>3. ASSUME Iterate
      PROVE  WritesStayInBuffers'
  BY <1>3 DEF Iterate
<1>4. ASSUME IfConf
      PROVE  WritesStayInBuffers'
  <2>1. Bytes(Fitting(Records(list), needed)) <= needed
    BY CopiesFit
  <2>2. QED
    BY <1>4, <2>1 DEF IfConf
<1>5. ASSUME Measure \/ MntCount \/ Return
      PROVE  WritesStayInBuffers'
  BY <1>5 DEF Measure, MntCount, Return
<1>6. ASSUME NEW o \in Ops, NEW a \in Args, NEW l \in Lists, Begin(o, a, l) \/ Change(l)
      PROVE  WritesStayInBuffers'
  BY <1>6 DEF Begin, Change
<1>7. ASSUME NEW l \in Lists, Change(l)
      PROVE  WritesStayInBuffers'
  BY <1>7 DEF Change
<1>8. QED
  BY <1>1, <1>2, <1>3, <1>4, <1>5, <1>6, <1>7 DEF Next, Work

(* A call that ends fails or has an answer of its function's form.          *)
LEMMA AnswerStep ==
  ASSUME CallOK, AnswerOK, [Next]_vars
  PROVE  AnswerOK'
<1> USE DEF CallOK, AnswerOK
<1>1. ASSUME Measure \/ Return
      PROVE  AnswerOK'
  BY <1>1 DEF Measure, Return
<1>2. ASSUME Read
      PROVE  AnswerOK'
  <2>1. op = "getifaddrs" /\ op' = op
    BY <1>2 DEF Read
  <2>2. Fill(list).ift \in Seq(Entry)
    BY PassesAgree DEF Agree
  <2>3. \/ pc' # "done" \/ result' = Failure \/ result' = Fill(list).ift
    BY <1>2 DEF Read
  <2>4. Answers' = Seq(Entry)
    BY <2>1 DEF Answers
  <2>5. QED
    BY <2>2, <2>3, <2>4
<1>3. ASSUME MntCount \/ MntFill
      PROVE  AnswerOK'
  <2>1. op = "getmntinfo" /\ op' = op
    BY <1>3 DEF MntCount, MntFill
  <2>2. list \in Seq(Interface) /\ <<>> \in Seq(Interface)
    BY ListsAreLists, EmptySeq
  <2>3. \/ pc' # "done" \/ result' = Failure \/ result' = list \/ result' = <<>>
    BY <1>3 DEF MntCount, MntFill
  <2>4. Answers' = Seq(Interface)
    BY <2>1 DEF Answers
  <2>5. QED
    BY <2>2, <2>3, <2>4
<1>4. ASSUME Iterate
      PROVE  AnswerOK'
  <2>1. op \in Iterators /\ op' = op
    BY <1>4 DEF Iterate
  <2>2. Iterated(list) \in Seq(Pair) /\ <<>> \in Seq(Pair)
    BY NamesFound, EmptySeq
  <2>3. \/ pc' # "done" \/ result' = Failure
        \/ \E l \in Seq(Pair) : result' = FromPairs(op, l, arg)
    BY <1>4, <2>2 DEF Iterate
  <2>4. Answers' = IF op = "if_nameindex" THEN Seq(Pair) ELSE Seq(Nat)
    BY <2>1 DEF Answers, Iterators
  <2>5. QED
    BY <2>1, <2>3, <2>4, FromPairsType
<1>5. ASSUME IfConf
      PROVE  AnswerOK'
  <2>1. op = "__ifreq" /\ op' = op
    BY <1>5 DEF IfConf
  <2>2. Fitting(Records(list), needed) \in Seq(Record)
    BY CopiesFit
  <2>3. \/ pc' # "done" \/ result' = Failure \/ result' = Fitting(Records(list), needed)
    BY <1>5 DEF IfConf
  <2>4. Answers' = Seq(Record)
    BY <2>1 DEF Answers
  <2>5. QED
    BY <2>2, <2>3, <2>4
<1>6. ASSUME NEW o \in Ops, NEW a \in Args, NEW l \in Lists, Begin(o, a, l) \/ Change(l)
      PROVE  AnswerOK'
  BY <1>6 DEF Begin, Change, First
<1>7. ASSUME NEW l \in Lists, Change(l)
      PROVE  AnswerOK'
  BY <1>7 DEF Change
<1>8. ASSUME UNCHANGED vars
      PROVE  AnswerOK'
  BY <1>8 DEF Answers
<1>9. QED
  BY <1>1, <1>2, <1>3, <1>4, <1>5, <1>6, <1>7, <1>8 DEF Next, Work

(* Only numbers are recorded as sizes.                                      *)
LEMMA RoomsStep ==
  ASSUME CallOK, BufferOK, RoomsOK, [Next]_vars
  PROVE  RoomsOK'
<1> USE DEF CallOK, BufferOK, RoomsOK
<1>1. ASSUME Read
      PROVE  RoomsOK'
  <2>1. Size(op, list) \in Nat
    BY <1>1, SizesAreNumbers DEF Read
  <2>2. QED
    BY <1>1, <2>1, PassesAgree DEF Read, Agree
<1>2. ASSUME MntFill
      PROVE  RoomsOK'
  BY <1>2 DEF MntFill
<1>3. ASSUME Iterate
      PROVE  RoomsOK'
  <2>1. Size(op, list) \in Nat
    BY <1>3, SizesAreNumbers DEF Iterate
  <2>2. QED
    BY <1>3, <2>1 DEF Iterate
<1>4. ASSUME IfConf
      PROVE  RoomsOK'
  <2>1. Bytes(Fitting(Records(list), needed)) \in Nat
    BY CopiesFit
  <2>2. QED
    BY <1>4, <2>1 DEF IfConf
<1>5. ASSUME Measure \/ MntCount \/ Return
      PROVE  RoomsOK'
  BY <1>5 DEF Measure, MntCount, Return
<1>6. ASSUME NEW o \in Ops, NEW a \in Args, NEW l \in Lists, Begin(o, a, l) \/ Change(l)
      PROVE  RoomsOK'
  BY <1>6 DEF Begin, Change
<1>7. ASSUME NEW l \in Lists, Change(l)
      PROVE  RoomsOK'
  BY <1>7 DEF Change
<1>8. QED
  BY <1>1, <1>2, <1>3, <1>4, <1>5, <1>6, <1>7 DEF Next, Work

(* A fault has happened or not.                                             *)
LEMMA FaultStep ==
  ASSUME FaultOK, [Next]_vars
  PROVE  FaultOK'
<1>1. \/ failed' = TRUE \/ failed' = FALSE \/ failed' = failed
  <2>1. CASE Work
    BY <2>1 DEF Work, Measure, Read, MntCount, MntFill, Iterate, IfConf
  <2>2. CASE Return \/ UNCHANGED vars
    BY <2>2 DEF Return
  <2>3. ASSUME NEW o \in Ops, NEW a \in Args, NEW l \in Lists, Begin(o, a, l)
        PROVE  failed' = failed
    BY <2>3 DEF Begin
  <2>4. ASSUME NEW l \in Lists, Change(l)
        PROVE  failed' = failed
    BY <2>4 DEF Change
  <2>5. QED
    BY <2>1, <2>2, <2>3, <2>4 DEF Next
<1>2. QED
  BY <1>1, Zenon DEF FaultOK

(* Each way to end a call answers with the list of the moment of its last   *)
(* system call.                                                             *)
LEMMA SnapshotsStep ==
  ASSUME CallOK, ResultsAreSnapshots, [Next]_vars
  PROVE  ResultsAreSnapshots'
<1> USE DEF CallOK, ResultsAreSnapshots
<1>1. ASSUME Read
      PROVE  ResultsAreSnapshots'
  <2>1. op = "getifaddrs" /\ op' = op /\ moments' = moments /\ list \in moments
    BY <1>1 DEF Read
  <2>2. CASE result' = Failure \/ pc' # "done"
    BY <2>2
  <2>3. CASE result' = Entries(list)
    BY <2>1, <2>3 DEF Wanted
  <2>4. QED
    BY <1>1, <2>2, <2>3, PassesAgree DEF Read, Agree
<1>2. ASSUME MntCount
      PROVE  ResultsAreSnapshots'
  <2>1. op = "getmntinfo" /\ op' = op /\ moments' = moments /\ list \in moments
    BY <1>2 DEF MntCount
  <2>2. CASE result' = Failure \/ pc' # "done"
    BY <2>2
  <2>3. CASE Len(list) = 0 /\ result' = <<>>
    <3>1. list = <<>>
      BY <2>3, QueryOK
    <3>2. QED
      BY <2>1, <2>3, <3>1 DEF Wanted
  <2>4. QED
    BY <1>2, <2>2, <2>3 DEF MntCount
<1>3. ASSUME MntFill
      PROVE  ResultsAreSnapshots'
  BY <1>3 DEF MntFill, Wanted
<1>4. ASSUME Iterate
      PROVE  ResultsAreSnapshots'
  <2>1. /\ op \in Iterators /\ op' = op /\ arg' = arg /\ moments' = moments
        /\ list \in moments
    BY <1>4 DEF Iterate
  <2>2. CASE result' = Failure \/ pc' # "done"
    BY <2>2
  <2>3. CASE result' = FromPairs(op, NameIndex(list), arg)
    BY <2>1, <2>3 DEF Wanted, Iterators
  <2>4. CASE failed' /\ result' = FromPairs(op, <<>>, arg)
    BY <2>1, <2>4, EmptyPairs DEF Iterators
  <2>5. QED
    BY <1>4, <2>2, <2>3, <2>4, NamesFound DEF Iterate
<1>5. ASSUME IfConf
      PROVE  ResultsAreSnapshots'
  <2>1. op = "__ifreq" /\ op' = op /\ moments' = moments /\ list \in moments
    BY <1>5 DEF IfConf
  <2>2. CASE result' = Failure \/ pc' # "done"
    BY <2>2
  <2>3. CASE result' = Records(list)
    BY <2>1, <2>3 DEF Wanted, Iterators
  <2>4. QED
    BY <1>5, <2>2, <2>3, CopiesFit DEF IfConf
<1>6. ASSUME Measure \/ Return
      PROVE  ResultsAreSnapshots'
  BY <1>6 DEF Measure, Return
<1>7. ASSUME NEW o \in Ops, NEW a \in Args, NEW l \in Lists, Begin(o, a, l)
      PROVE  ResultsAreSnapshots'
  BY <1>7 DEF Begin, First
<1>8. ASSUME NEW l \in Lists, Change(l)
      PROVE  ResultsAreSnapshots'
  BY <1>8 DEF Change
<1>9. ASSUME UNCHANGED vars
      PROVE  ResultsAreSnapshots'
  BY <1>9 DEF Wanted
<1>10. QED
  BY <1>1, <1>2, <1>3, <1>4, <1>5, <1>6, <1>7, <1>8, <1>9 DEF Next, Work

-----------------------------------------------------------------------------
(* Every variable keeps its type whatever is called, changed and fails: the  *)
(* static buffer is there or its size is 0, a call never tries more often    *)
(* than it may, and an answer has the form its function promises.            *)
THEOREM CallsHaveTypes ==
  Spec => []TypeOK
<1>1. Init => CallOK /\ BufferOK /\ AnswerOK /\ RoomsOK /\ FaultOK
  <2>1. Init => CallOK /\ BufferOK /\ AnswerOK /\ RoomsOK
    BY Limits DEF Init, CallOK, BufferOK, AnswerOK, RoomsOK
  <2>2. Init => FaultOK
    BY DEF Init, FaultOK
  <2>3. QED
    BY <2>1, <2>2
<1>2. CallOK /\ BufferOK /\ AnswerOK /\ RoomsOK /\ FaultOK /\ [Next]_vars
        => CallOK' /\ BufferOK' /\ AnswerOK' /\ RoomsOK' /\ FaultOK'
  BY CallStep, BufferStep, AnswerStep, RoomsStep, FaultStep
<1>3. CallOK /\ BufferOK /\ AnswerOK /\ RoomsOK /\ FaultOK => TypeOK
  <2>1. CallOK => grown \in 0 .. changes /\ changes \in 0 .. MaxChanges
                  /\ ntry \in 0 .. MAX_SYSCTL_TRY
    BY Limits DEF CallOK
  <2>2. QED
    BY <2>1 DEF CallOK, BufferOK, AnswerOK, RoomsOK, FaultOK, TypeOK
<1>4. QED
  BY <1>1, <1>2, <1>3, PTL DEF Spec

(* Without a fault getifaddrs gives up only after the list has grown as many *)
(* times as it tries, however the list changes, if the two passes over a     *)
(* list do not fail.                                                         *)
THEOREM TriesAreUsed ==
  Spec => []GivesUpOnlyWhenGrowing
<1>1. Init => CallOK /\ TriesOK
  BY Limits DEF Init, CallOK, TriesOK, GivesUpOnlyWhenGrowing
<1>2. CallOK /\ TriesOK /\ [Next]_vars => CallOK' /\ TriesOK'
  BY CallStep, TriesStep
<1>3. TriesOK => GivesUpOnlyWhenGrowing
  BY DEF TriesOK
<1>4. QED
  BY <1>1, <1>2, <1>3, PTL DEF Spec

(* No buffer is overrun, if the second pass over a list finds no more than   *)
(* the first and the kernel copies no more than fits: what the calls before  *)
(* left in the static buffer and its size, the changes of the list and the   *)
(* failures in between make no difference.                                   *)
THEOREM BuffersHold ==
  Spec => []WritesStayInBuffers
<1>1. Init => CallOK /\ BufferOK /\ WritesStayInBuffers
  BY Limits DEF Init, CallOK, BufferOK, WritesStayInBuffers
<1>2. CallOK /\ BufferOK /\ WritesStayInBuffers /\ [Next]_vars
        => CallOK' /\ BufferOK' /\ WritesStayInBuffers'
  BY CallStep, BufferStep, WritesStep
<1>3. QED
  BY <1>1, <1>2, PTL DEF Spec
(* What a call returns is the whole list of one moment of the call, if the   *)
(* operators are right for every single list: no order of changes, retries   *)
(* and failures makes it a mixture of two lists or cuts it off.              *)
THEOREM ListsAreWhole ==
  Spec => []ResultsAreSnapshots
<1>1. Init => CallOK /\ ResultsAreSnapshots
  BY Limits DEF Init, CallOK, ResultsAreSnapshots
<1>2. CallOK /\ ResultsAreSnapshots /\ [Next]_vars => CallOK' /\ ResultsAreSnapshots'
  BY CallStep, SnapshotsStep
<1>3. QED
  BY <1>1, <1>2, PTL DEF Spec

=============================================================================
