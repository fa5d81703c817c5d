---------------------------- MODULE IfList_proofs ----------------------------
(***************************************************************************)
(* Proofs about IfList, for every list of interfaces: sizes are numbers,   *)
(* the two passes of getifaddrs agree, if_iterate finds the names, and     *)
(* what the kernel copies fits.  Lists are taken apart by their last       *)
(* interface and that by its last address.                                 *)
(***************************************************************************)
EXTENDS IfList, SequenceFolds

Grown(i, a) == [i EXCEPT !.addrs = Append(i.addrs, a)]

(* An interface with one more address is an interface, the same in all      *)
(* else.                                                                    *)
LEMMA GrownFields ==
  ASSUME NEW i \in Interface, NEW a \in Address
  PROVE  /\ Grown(i, a) \in Interface
         /\ Grown(i, a).index = i.index /\ Grown(i, a).name = i.name
         /\ Grown(i, a).ifp = i.ifp /\ Grown(i, a).len = i.len
         /\ Grown(i, a).addrs = Append(i.addrs, a)
<1>1. i.addrs \in Seq(Address)
  BY DEF Interface
<1>2. Append(i.addrs, a) \in Seq(Address)
  BY <1>1, AppendProperties
<1>3. QED
  BY <1>2 DEF Grown, Interface

(* Induction: a set with the empty list that is closed under one more        *)
(* interface without addresses and one more address of the last interface    *)
(* has every list.                                                           *)
LEMMA ListInduct ==
  ASSUME NEW T, <<>> \in T,
         \A l \in Seq(Interface), i \in Interface :
           l \in T /\ i.addrs = <<>> => Append(l, i) \in T,
         \A l \in Seq(Interface), i \in Interface, a \in Address :
           Append(l, i) \in T => Append(l, Grown(i, a)) \in T
  PROVE  Seq(Interface) \subseteq T
<1>1. ASSUME NEW l \in Seq(Interface), l \in T, NEW i \in Interface
      PROVE  Append(l, i) \in T
  <2> DEFINE With(as) == [i EXCEPT !.addrs = as]
             U == {as \in Seq(Address) : Append(l, With(as)) \in T}
  <2>1. \A as \in Seq(Address) : With(as) \in Interface /\ With(as).addrs = as
    BY DEF Interface
  <2>2. <<>> \in U
    BY <1>1, <2>1, EmptySeq
  <2>3. ASSUME NEW as \in Seq(Address), as \in U, NEW a \in Address
        PROVE  Append(as, a) \in U
    <3>1. Append(l, Grown(With(as), a)) \in T
      BY <2>1, <2>3
    <3>2. Grown(With(as), a) = With(Append(as, a))
      BY DEF Grown, Interface
    <3>3. Append(as, a) \in Seq(Address)
      BY AppendProperties
    <3>4. QED
      BY <3>1, <3>2, <3>3
  <2>4. i.addrs \in Seq(Address) /\ With(i.addrs) = i
    BY DEF Interface
  <2> HIDE DEF U
  <2>5. Seq(Address) \subseteq U
    BY <2>2, <2>3, SeqInduct
  <2> USE DEF U
  <2>6. QED
    BY <2>4, <2>5
<1>2. QED
  BY <1>1, SeqInduct

(* What is listed for each interface, by rows. *)
LEMMA RowsNew ==
  ASSUME NEW X, NEW g \in [Interface -> Seq(X)], NEW l \in Seq(Interface), NEW i \in Interface,
         NEW p, p = Append(l, i)
  PROVE  FlatMap(g, p) = FlatMap(g, l) \o g[i]
BY FlatMapAppend

Longer(g, p, q, s) == FlatMap(g, q) = FlatMap(g, p) \o s

(* One more address of the last interface lengthens what is listed by what  *)
(* it adds to that interface.                                               *)
LEMMA RowsGrown ==
  ASSUME NEW X, NEW g \in [Interface -> Seq(X)], NEW l \in Seq(Interface), NEW i \in Interface,
         NEW a \in Address, NEW s \in Seq(X), g[Grown(i, a)] = g[i] \o s,
         NEW p, p = Append(l, i), NEW q, q = Append(l, Grown(i, a))
  PROVE  Longer(g, p, q, s)
<1>1. FlatMap(g, l) \in Seq(X) /\ g[i] \in Seq(X)
  BY FlatMapType
<1>2. PICK j \in Interface : j = Grown(i, a)
  BY GrownFields
<1>3. FlatMap(g, p) = FlatMap(g, l) \o g[i]
  BY RowsNew
<1>4. FlatMap(g, q) = FlatMap(g, l) \o g[j]
  BY <1>2, RowsNew
<1>5. Associates(FlatMap(g, l), g[i], s)
  BY <1>1, ConcatAssociates
<1>6. QED
  BY <1>2, <1>3, <1>4, <1>5 DEF Associates, Longer

-----------------------------------------------------------------------------
(* The kernel's messages. *)
Message == {IfInfo(i) : i \in Interface}
             \cup {NewAddr(i, a) : i \in Interface, a \in Address}

NewAddrs(i) == [a \in Address |-> NewAddr(i, a)]

ReportOf == [i \in Interface |-> Report(i)]

(* The report of an interface is a row: its own message, and one for each   *)
(* address.                                                                 *)
LEMMA ReportRow ==
  ASSUME NEW i \in Interface
  PROVE  /\ IfInfo(i) \in Message /\ NewAddrs(i) \in [Address -> Message]
         /\ i.addrs \in Seq(Address)
         /\ ReportOf[i] = Row(IfInfo(i), NewAddrs(i), i.addrs)
<1>1. IfInfo(i) \in Message /\ NewAddrs(i) \in [Address -> Message]
  BY DEF Message, NewAddrs
<1>2. i.addrs \in Seq(Address)
  BY DEF Interface
<1>3. SeqMap(NewAddrs(i), i.addrs) = [j \in DOMAIN i.addrs |-> NewAddr(i, i.addrs[j])]
  BY <1>2, LenProperties, ElementOfSeq DEF SeqMap, NewAddrs
<1>4. QED
  BY <1>1, <1>2, <1>3 DEF ReportOf, Report, Row

(* It consists of messages.                                                 *)
LEMMA ReportType == ReportOf \in [Interface -> Seq(Message)]
<1>1. \A i \in Interface : ReportOf[i] \in Seq(Message)
  BY ReportRow, RowType
<1>2. QED
  BY <1>1 DEF ReportOf

(* An interface without addresses is one message.                           *)
LEMMA ReportNew ==
  ASSUME NEW i \in Interface, i.addrs = <<>>
  PROVE  ReportOf[i] = <<IfInfo(i)>>
BY ReportRow, RowEmpty

(* One more address is one more message.                                    *)
LEMMA ReportGrown ==
  ASSUME NEW i \in Interface, NEW a \in Address
  PROVE  ReportOf[Grown(i, a)] = ReportOf[i] \o <<NewAddr(i, a)>>
<1>1. PICK j \in Interface : j = Grown(i, a)
  BY GrownFields
<1>2. PICK p : p = Append(i.addrs, a)
  OBVIOUS
<1>3. j.addrs = p /\ IfInfo(j) = IfInfo(i) /\ NewAddrs(j) = NewAddrs(i)
  BY <1>1, <1>2, GrownFields DEF IfInfo, NewAddr, NewAddrs
<1>4. RowStep(IfInfo(i), NewAddrs(i), i.addrs, a)
  <2>1. /\ IfInfo(i) \in Message /\ NewAddrs(i) \in [Address -> Message]
        /\ i.addrs \in Seq(Address)
    BY ReportRow
  <2>2. QED
    BY <2>1, RowAppend
<1>5. ReportOf[j] = Row(IfInfo(i), NewAddrs(i), p) /\ NewAddrs(i)[a] = NewAddr(i, a)
  BY <1>3, ReportRow DEF NewAddrs
<1>6. QED
  BY <1>1, <1>2, <1>4, <1>5, ReportRow DEF RowStep

(* The kernel's list is made of these reports.                              *)
LEMMA MessagesByRows ==
  ASSUME NEW l \in Seq(Interface)
  PROVE  Messages(l) = FlatMap(ReportOf, l) /\ Messages(l) \in Seq(Message)
<1>1. SeqMap(ReportOf, l) = [k \in DOMAIN l |-> Report(l[k])]
  BY LenProperties, ElementOfSeq DEF SeqMap, ReportOf
<1>2. Messages(l) = FlatMap(ReportOf, l)
  BY <1>1 DEF Messages, FlatMap
<1>3. FlatMap(ReportOf, l) \in Seq(Message)
  BY ReportType, FlatMapType
<1>4. QED
  BY <1>2, <1>3

(* No interfaces, no messages.                                              *)
LEMMA MessagesEmpty == Messages(<<>>) = <<>>
BY MessagesByRows, FlatMapEmpty, EmptySeq

(* A new interface without addresses: one more message.                     *)
LEMMA MessagesNew ==
  ASSUME NEW l \in Seq(Interface), NEW i \in Interface, i.addrs = <<>>, NEW p, p = Append(l, i)
  PROVE  Messages(p) = Append(Messages(l), IfInfo(i))
<1>1. p \in Seq(Interface)
  BY AppendProperties
<1>2. /\ Messages(l) = FlatMap(ReportOf, l) /\ Messages(p) = FlatMap(ReportOf, p)
      /\ Messages(l) \in Seq(Message)
  BY <1>1, MessagesByRows
<1>3. FlatMap(ReportOf, p) = FlatMap(ReportOf, l) \o ReportOf[i]
  BY ReportType, RowsNew
<1>4. ReportOf[i] = <<IfInfo(i)>> /\ IfInfo(i) \in Message
  BY ReportNew DEF Message
<1>5. QED
  BY <1>2, <1>3, <1>4, AppendIsConcat

Extended(p, q, m) == Messages(q) = Append(Messages(p), m)

(* One more address of the last interface: one more message.                *)
LEMMA MessagesGrown ==
  ASSUME NEW l \in Seq(Interface), NEW i \in Interface, NEW a \in Address,
         NEW p, p = Append(l, i), NEW q, q = Append(l, Grown(i, a))
  PROVE  Extended(p, q, NewAddr(i, a))
<1>1. p \in Seq(Interface) /\ q \in Seq(Interface)
  BY GrownFields, AppendProperties
<1>2. /\ Messages(p) = FlatMap(ReportOf, p) /\ Messages(q) = FlatMap(ReportOf, q)
      /\ Messages(p) \in Seq(Message)
  BY <1>1, MessagesByRows
<1>3. NewAddr(i, a) \in Message /\ <<NewAddr(i, a)>> \in Seq(Message)
  BY DEF Message
<1>4. FlatMap(ReportOf, q) = FlatMap(ReportOf, p) \o <<NewAddr(i, a)>>
  <2>1. PICK s \in Seq(Message) : s = <<NewAddr(i, a)>>
    BY <1>3
  <2>2. ReportOf[Grown(i, a)] = ReportOf[i] \o s
    BY <2>1, ReportGrown
  <2>3. Longer(ReportOf, p, q, s)
    BY <2>2, ReportType, RowsGrown
  <2>4. QED
    BY <2>1, <2>3 DEF Longer
<1>5. QED
  BY <1>2, <1>3, <1>4, AppendIsConcat DEF Extended

-----------------------------------------------------------------------------
(* The records of SIOCGIFCONF. *)
RecordHead(i) == [index |-> i.index, len |-> i.len]
RecordAddrs(i) == [a \in Address |-> [index |-> i.index, len |-> 1 + a.ifa]]
RecordRows == [i \in Interface |-> RecordsOf(i)]

(* What SIOCGIFCONF says of an interface are records.                       *)
LEMMA RecordsRow ==
  ASSUME NEW i \in Interface
  PROVE  RecordRows[i] \in Seq(Record)
<1>1. RecordHead(i) \in Record /\ RecordAddrs(i) \in [Address -> Record]
  BY DEF Record, RecordHead, RecordAddrs, Interface, Address
<1>2. i.addrs \in Seq(Address)
  BY DEF Interface
<1>3. SeqMap(RecordAddrs(i), i.addrs)
        = [j \in DOMAIN i.addrs |-> [index |-> i.index, len |-> 1 + i.addrs[j].ifa]]
  BY <1>2, LenProperties, ElementOfSeq DEF SeqMap, RecordAddrs
<1>4. RecordRows[i] = Row(RecordHead(i), RecordAddrs(i), i.addrs)
  BY <1>3 DEF RecordRows, RecordsOf, Row, RecordHead
<1>5. QED
  BY <1>1, <1>2, <1>4, RowType

(* So is all it says.                                                       *)
LEMMA RecordsType ==
  ASSUME NEW l \in Seq(Interface)
  PROVE  Records(l) \in Seq(Record)
<1>1. SeqMap(RecordRows, l) = [k \in DOMAIN l |-> RecordsOf(l[k])]
  BY LenProperties, ElementOfSeq DEF SeqMap, RecordRows
<1>2. Records(l) = FlatMap(RecordRows, l)
  BY <1>1 DEF Records, FlatMap
<1>3. RecordRows \in [Interface -> Seq(Record)]
  BY RecordsRow DEF RecordRows
<1>4. QED
  BY <1>2, <1>3, FlatMapType

-----------------------------------------------------------------------------
(* The names, and the entries of getifaddrs. *)
PairRows == [i \in Interface |-> PairOf(i)]

(* Each interface gives one name with its index, or none.                   *)
LEMMA PairRowsType == PairRows \in [Interface -> Seq(Pair)]
<1>1. \A i \in Interface : [index |-> i.index, name |-> i.name] \in Pair
  BY DEF Interface, Pair
<1>2. ASSUME NEW i \in Interface
      PROVE  PairOf(i) \in Seq(Pair)
  <2>1. <<[index |-> i.index, name |-> i.name]>> \in Seq(Pair)
    BY <1>1
  <2>2. QED
    BY <2>1, EmptySeq DEF PairOf
<1>3. QED
  BY <1>2 DEF PairRows

(* What if_iterate is to find is made of these.                             *)
LEMMA NameIndexByRows ==
  ASSUME NEW l \in Seq(Interface)
  PROVE  NameIndex(l) = FlatMap(PairRows, l) /\ NameIndex(l) \in Seq(Pair)
<1>1. SeqMap(PairRows, l) = [k \in DOMAIN l |-> PairOf(l[k])]
  BY LenProperties, ElementOfSeq DEF SeqMap, PairRows
<1>2. NameIndex(l) = FlatMap(PairRows, l)
  BY <1>1 DEF NameIndex, FlatMap
<1>3. QED
  BY <1>2, PairRowsType, FlatMapType

EntryHead(i) == [name |-> i.name, addr |-> <<>>]
EntryAddrs(i) == [a \in Address |-> AddrEntries(i.name, a)]
EntryRows == [i \in Interface |-> EntriesOf(i)]

(* The entries one more address adds. *)
Added(i, a) == IF i.ifp THEN AddrEntries(i.name, a) ELSE <<>>

(* The entries of an interface are a row, and those of an address a         *)
(* sequence, if there are any.                                              *)
LEMMA EntryTypes ==
  ASSUME NEW i \in Interface
  PROVE  /\ EntryHead(i) \in Entry /\ EntryAddrs(i) \in [Address -> Seq(Entry)]
         /\ \A a \in Address : Added(i, a) \in Seq(Entry)
         /\ EntriesOf(i) = IF ~i.ifp THEN <<>>
                           ELSE <<EntryHead(i)>> \o FlatMap(EntryAddrs(i), i.addrs)
<1>1. i.name \in Nat /\ i.addrs \in Seq(Address)
  BY DEF Interface
<1>2. EntryHead(i) \in Entry
  BY <1>1, EmptySeq DEF Entry, EntryHead
<1>3. \A a \in Address : AddrEntries(i.name, a) \in Seq(Entry)
  <2>1. SUFFICES ASSUME NEW a \in Address
                 PROVE  AddrEntries(i.name, a) \in Seq(Entry)
    OBVIOUS
  <2>2. <<a>> \in Seq(Address)
    OBVIOUS
  <2>3. [name |-> i.name, addr |-> <<a>>] \in Entry
    BY <1>1, <2>2 DEF Entry
  <2>4. <<[name |-> i.name, addr |-> <<a>>]>> \in Seq(Entry)
    BY <2>3
  <2>5. QED
    BY <2>4, EmptySeq DEF AddrEntries
<1>4. EntryAddrs(i) \in [Address -> Seq(Entry)]
  BY <1>3 DEF EntryAddrs
<1>5. \A a \in Address : Added(i, a) \in Seq(Entry)
  BY <1>3, EmptySeq DEF Added
<1>6. SeqMap(EntryAddrs(i), i.addrs)
        = [j \in DOMAIN i.addrs |-> AddrEntries(i.name, i.addrs[j])]
  BY <1>1, LenProperties, ElementOfSeq DEF SeqMap, EntryAddrs
<1>7. EntriesOf(i) = IF ~i.ifp THEN <<>>
                     ELSE <<EntryHead(i)>> \o FlatMap(EntryAddrs(i), i.addrs)
  BY <1>6 DEF EntriesOf, FlatMap, EntryHead
<1>8. QED
  BY <1>2, <1>4, <1>5, <1>7

(* They are entries.                                                        *)
LEMMA EntryRowsType == EntryRows \in [Interface -> Seq(Entry)]
<1>1. SUFFICES ASSUME NEW i \in Interface
               PROVE  EntriesOf(i) \in Seq(Entry)
  BY DEF EntryRows
<1>2. EntryHead(i) \in Entry /\ EntryAddrs(i) \in [Address -> Seq(Entry)]
  BY EntryTypes
<1>3. i.addrs \in Seq(Address)
  BY DEF Interface
<1>4. FlatMap(EntryAddrs(i), i.addrs) \in Seq(Entry)
  BY <1>2, <1>3, FlatMapType
<1>5. <<EntryHead(i)>> \in Seq(Entry)
  BY <1>2
<1>6. <<EntryHead(i)>> \o FlatMap(EntryAddrs(i), i.addrs) \in Seq(Entry)
  BY <1>4, <1>5, ConcatProperties
<1>7. QED
  BY <1>6, EntryTypes, EmptySeq

(* What getifaddrs is to find is made of these.                             *)
LEMMA EntriesByRows ==
  ASSUME NEW l \in Seq(Interface)
  PROVE  Entries(l) = FlatMap(EntryRows, l) /\ Entries(l) \in Seq(Entry)
<1>1. SeqMap(EntryRows, l) = [k \in DOMAIN l |-> EntriesOf(l[k])]
  BY LenProperties, ElementOfSeq DEF SeqMap, EntryRows
<1>2. Entries(l) = FlatMap(EntryRows, l)
  BY <1>1 DEF Entries, FlatMap
<1>3. QED
  BY <1>2, EntryRowsType, FlatMapType

(* A new interface without addresses adds its own entry if it has a name.   *)
LEMMA EntryRowsNew ==
  ASSUME NEW i \in Interface, i.addrs = <<>>
  PROVE  EntryRows[i] = IF i.ifp THEN <<EntryHead(i)>> ELSE <<>>
<1>1. <<EntryHead(i)>> \in Seq(Entry)
  <2>1. EntryHead(i) \in Entry
    BY EntryTypes
  <2>2. QED
    BY <2>1
<1>2. <<EntryHead(i)>> \o <<>> = <<EntryHead(i)>>
  BY <1>1, ConcatEmptySeq
<1>3. QED
  BY <1>2, EntryTypes, FlatMapEmpty DEF EntryRows

(* One more address adds what Added says.                                   *)
LEMMA EntryRowsGrown ==
  ASSUME NEW i \in Interface, NEW a \in Address
  PROVE  EntryRows[Grown(i, a)] = EntryRows[i] \o Added(i, a)
<1>1. PICK j \in Interface : j = Grown(i, a)
  BY GrownFields
<1>2. PICK p : p = Append(i.addrs, a)
  OBVIOUS
<1>3. /\ j.addrs = p /\ EntryHead(j) = EntryHead(i) /\ EntryAddrs(j) = EntryAddrs(i)
      /\ j.ifp = i.ifp
  BY <1>1, <1>2, GrownFields DEF EntryHead, EntryAddrs
<1>4. i.addrs \in Seq(Address)
  BY DEF Interface
<1>5. EntryAddrs(i)[a] = AddrEntries(i.name, a)
  BY DEF EntryAddrs
<1>6. CASE i.ifp
  <2>1. FlatMap(EntryAddrs(i), p) = FlatMap(EntryAddrs(i), i.addrs) \o EntryAddrs(i)[a]
    BY <1>2, <1>4, EntryTypes, FlatMapAppend
  <2>2. /\ <<EntryHead(i)>> \in Seq(Entry) /\ FlatMap(EntryAddrs(i), i.addrs) \in Seq(Entry)
        /\ Added(i, a) \in Seq(Entry)
    <3>1. /\ EntryHead(i) \in Entry /\ EntryAddrs(i) \in [Address -> Seq(Entry)]
          /\ Added(i, a) \in Seq(Entry)
      BY EntryTypes
    <3>2. <<EntryHead(i)>> \in Seq(Entry)
      BY <3>1
    <3>3. FlatMap(EntryAddrs(i), i.addrs) \in Seq(Entry)
      BY <1>4, <3>1, FlatMapType
    <3>4. QED
      BY <3>1, <3>2, <3>3
  <2>3. Associates(<<EntryHead(i)>>, FlatMap(EntryAddrs(i), i.addrs), Added(i, a))
    BY <2>2, ConcatAssociates
  <2>4. /\ EntryRows[i] = <<EntryHead(i)>> \o FlatMap(EntryAddrs(i), i.addrs)
        /\ EntryRows[j] = <<EntryHead(i)>> \o FlatMap(EntryAddrs(i), p)
    BY <1>3, <1>6, EntryTypes DEF EntryRows
  <2>5. QED
    BY <1>1, <1>5, <1>6, <2>1, <2>3, <2>4 DEF Added, Associates
<1>7. CASE ~i.ifp
  <2>1. EntryRows[i] = <<>> /\ EntryRows[j] = <<>> /\ Added(i, a) = <<>>
    BY <1>3, <1>7, EntryTypes DEF EntryRows, Added
  <2>2. <<>> \o <<>> = <<>>
    BY EmptySeq, ConcatEmptySeq
  <2>3. QED
    BY <1>1, <2>1, <2>2
<1>8. QED
  BY <1>6, <1>7

-----------------------------------------------------------------------------
(* The three folds: one step for one more record or message. *)
AddLen == [x \in Nat \X Record |-> x[1] + x[2].len]

(* Adding a length makes a number of a number.                              *)
LEMMA AddLenType == AddLen \in [Nat \X Record -> Nat] /\ 0 \in Nat
<1>1. \A e \in Record : e.len \in Nat
  BY DEF Record
<1>2. QED
  BY <1>1 DEF AddLen

(* Bytes is a fold in the sense of SequenceFolds,                           *)
LEMMA BytesFold ==
  ASSUME NEW r \in Seq(Record)
  PROVE  Bytes(r) = Folded(AddLen, Nat, 0, r)
<1> DEFINE IsIt(it) == it = [s \in SUBSET DOMAIN r |->
                               IF s = {} THEN 0 ELSE it[s \ {Max(s)}] + r[Max(s)].len]
<1>1. AddLen \in [Nat \X Record -> Nat] /\ 0 \in Nat
  BY AddLenType
<1>2. \A x \in Nat, e \in Record : AddLen[<<x, e>>] = x + e.len
  BY DEF AddLen
<1>3. DOMAIN r = 1 .. Len(r) /\ Len(r) \in Nat /\ \A k \in DOMAIN r : r[k] \in Record
  BY LenProperties, ElementOfSeq
<1>4. \A s \in SUBSET DOMAIN r : s # {} => Max(s) \in DOMAIN r
  BY <1>3, MaxOf
<1>5. \E it : IsIt(it)
  <2>1. PICK it \in [SUBSET DOMAIN r -> Nat] : IsIter(it, AddLen, 0, r)
    BY <1>1, IterExists
  <2>2. ASSUME NEW s \in SUBSET DOMAIN r
        PROVE  it[s] = IF s = {} THEN 0 ELSE it[s \ {Max(s)}] + r[Max(s)].len
    <3>1. CASE s = {}
      BY <2>1, <3>1 DEF IsIter
    <3>2. CASE s # {}
      <4>1. it[s \ {Max(s)}] \in Nat /\ r[Max(s)] \in Record
        BY <1>3, <1>4, <2>1, <3>2
      <4>2. it[s] = AddLen[<<it[s \ {Max(s)}], r[Max(s)]>>]
        BY <2>1, <3>2 DEF IsIter
      <4>3. QED
        BY <1>2, <3>2, <4>1, <4>2
    <3>3. QED
      BY <3>1, <3>2
  <2>3. IsIt(it)
    BY <2>1, <2>2
  <2> HIDE DEF IsIt
  <2>4. QED
    BY <2>3
<1>6. PICK it : IsIt(it) /\ Bytes(r) = it[DOMAIN r]
  BY <1>5 DEF Bytes, FoldLeft, MapThenFoldSet
<1>7. IterSteps(it, AddLen, Nat, 0, r)
  <2>1. it[{}] = 0
    BY <1>6
  <2>2. ASSUME NEW s \in SUBSET DOMAIN r, s # {}, it[s \ {Max(s)}] \in Nat
        PROVE  it[s] = AddLen[<<it[s \ {Max(s)}], r[Max(s)]>>]
    <3>1. r[Max(s)] \in Record
      BY <1>3, <1>4, <2>2
    <3>2. it[s] = it[s \ {Max(s)}] + r[Max(s)].len
      BY <1>6, <2>2
    <3>3. QED
      BY <1>2, <2>2, <3>1, <3>2
  <2>3. QED
    BY <2>1, <2>2 DEF IterSteps
<1> HIDE DEF IsIt
<1>8. it[DOMAIN r] = Folded(AddLen, Nat, 0, r) /\ it[DOMAIN r] \in Nat
  BY <1>1, <1>7, IterFolds
<1>9. QED
  BY <1>6, <1>8

(* so that it adds up record by record.                                     *)
LEMMA BytesFacts ==
  /\ Bytes(<<>>) = 0
  /\ \A r \in Seq(Record) : Bytes(r) \in Nat
  /\ \A r \in Seq(Record), e \in Record : Bytes(Append(r, e)) = Bytes(r) + e.len
<1>1. Bytes(<<>>) = 0
  BY AddLenType, BytesFold, FoldedEmpty, EmptySeq
<1>2. ASSUME NEW r \in Seq(Record)
      PROVE  Bytes(r) \in Nat
  <2>1. Folded(AddLen, Nat, 0, r) \in Nat
    BY AddLenType, FoldedType
  <2>2. QED
    BY <2>1, BytesFold
<1>3. ASSUME NEW r \in Seq(Record), NEW e \in Record
      PROVE  Bytes(Append(r, e)) = Bytes(r) + e.len
  <2>1. FoldStep(AddLen, Nat, 0, r, e)
    BY AddLenType, FoldedAppend
  <2>2. PICK p \in Seq(Record) : p = Append(r, e)
    BY AppendProperties
  <2>3. Bytes(p) = Folded(AddLen, Nat, 0, p) /\ Bytes(r) = Folded(AddLen, Nat, 0, r)
    BY BytesFold
  <2>4. QED
    BY <1>2, <2>1, <2>2, <2>3 DEF FoldStep, AddLen
<1>4. QED
  BY <1>1, <1>2, <1>3

(* The fields of a message are of the types the passes use them with.       *)
LEMMA MessageFields ==
  ASSUME NEW m \in Message
  PROVE  /\ m.type \in {"newaddr", "ifinfo"} /\ m.index \in Nat /\ m.name \in Nat
         /\ m.ifp \in BOOLEAN /\ m.len \in Nat /\ m.addr \in Seq(Address)
         /\ m.type = "newaddr" => m.addr[1] \in Address
<1>1. ASSUME NEW i \in Interface, m = IfInfo(i)
      PROVE  /\ m.type = "ifinfo" /\ m.index \in Nat /\ m.name \in Nat
             /\ m.ifp \in BOOLEAN /\ m.len \in Nat /\ m.addr = <<>>
  BY <1>1 DEF IfInfo, Interface
<1>2. ASSUME NEW i \in Interface, NEW a \in Address, m = NewAddr(i, a)
      PROVE  /\ m.type = "newaddr" /\ m.index \in Nat /\ m.name \in Nat
             /\ m.ifp \in BOOLEAN /\ m.len \in Nat /\ m.addr = <<a>> /\ m.addr[1] = a
  BY <1>2 DEF NewAddr, Interface
<1>3. <<>> \in Seq(Address) /\ \A a \in Address : <<a>> \in Seq(Address)
  BY EmptySeq
<1>4. CASE \E i \in Interface : m = IfInfo(i)
  <2>1. PICK i \in Interface : m = IfInfo(i)
    BY <1>4
  <2>2. QED
    BY <1>1, <1>3, <2>1
<1>5. CASE \E i \in Interface, a \in Address : m = NewAddr(i, a)
  <2>1. PICK i \in Interface, a \in Address : m = NewAddr(i, a)
    BY <1>5
  <2>2. QED
    BY <1>2, <1>3, <2>1
<1>6. QED
  BY <1>4, <1>5 DEF Message

(* The data of an address has a size.                                       *)
LEMMA AddrDataType ==
  ASSUME NEW a \in Address
  PROVE  AddrData(a) \in Nat
BY DEF AddrData, MaskData, Address

CountState == [icnt : Nat, dcnt : Nat, idx : Nat, bad : BOOLEAN]
CountStart == [icnt |-> 1, dcnt |-> 0, idx |-> 0, bad |-> FALSE]
Counted(ms) == FoldLeft(CountMsg, CountStart, ms)
CountOne == [x \in CountState \X Message |-> CountMsg(x[1], x[2])]

(* The first pass goes from states to states,                               *)
LEMMA CountMsgType ==
  ASSUME NEW s \in CountState, NEW m \in Message
  PROVE  CountMsg(s, m) \in CountState
<1>1. m.type = "newaddr" => AddrData(m.addr[1]) \in Nat
  BY MessageFields, AddrDataType
<1>2. LinkData(m) \in Nat
  BY MessageFields DEF LinkData, ALIGNBYTES
<1>3. m.index \in Nat
  BY MessageFields
<1>4. CASE s.bad \/ Stray(s, m)
  BY <1>4 DEF CountMsg, CountState
<1>5. CASE ~(s.bad \/ Stray(s, m)) /\ m.type = "newaddr"
  <2>1. CASE Ignored(s, m)
    BY <1>5, <2>1 DEF CountMsg
  <2>2. CASE ~Ignored(s, m)
    <3>1. PICK n \in Nat : n = AddrData(m.addr[1])
      BY <1>1, <1>5
    <3>2. PICK x \in Nat, y \in Nat : x = s.icnt + 1 /\ y = s.dcnt + n
      BY DEF CountState
    <3>3. CountMsg(s, m) = [s EXCEPT !.icnt = x, !.dcnt = y]
      BY <1>5, <2>2, <3>1, <3>2 DEF CountMsg
    <3>4. QED
      BY <3>3 DEF CountState
  <2>3. QED
    BY <2>1, <2>2
<1>6. CASE ~(s.bad \/ Stray(s, m)) /\ m.type # "newaddr"
  <2>1. ~Ignored(s, m)
    BY <1>6 DEF Ignored
  <2>2. CASE m.ifp
    <3>1. PICK n \in Nat : n = LinkData(m)
      BY <1>2
    <3>2. PICK x \in Nat, y \in Nat : x = s.icnt + 1 /\ y = s.dcnt + n
      BY DEF CountState
    <3>3. CountMsg(s, m) = [s EXCEPT !.icnt = x, !.dcnt = y, !.idx = m.index]
      BY <1>6, <2>1, <2>2, <3>1, <3>2 DEF CountMsg
    <3>4. QED
      BY <1>3, <3>3 DEF CountState
  <2>3. CASE ~m.ifp
    <3>1. CountMsg(s, m) = [s EXCEPT !.idx = 0]
      BY <1>6, <2>1, <2>3 DEF CountMsg
    <3>2. QED
      BY <3>1 DEF CountState
  <2>4. QED
    BY <2>2, <2>3
<1>7. QED
  BY <1>4, <1>5, <1>6

(* from one message to the next, and begins in one.                         *)
LEMMA CountOneType == CountOne \in [CountState \X Message -> CountState] /\ CountStart \in CountState
<1>1. CountStart \in CountState
  BY DEF CountStart, CountState
<1>2. QED
  BY <1>1, CountMsgType DEF CountOne

(* It is a fold in the sense of SequenceFolds,                              *)
LEMMA CountedFold ==
  ASSUME NEW r \in Seq(Message)
  PROVE  Counted(r) = Folded(CountOne, CountState, CountStart, r)
<1> DEFINE IsIt(it) == it = [s \in SUBSET DOMAIN r |->
                               IF s = {} THEN CountStart ELSE CountMsg(it[s \ {Max(s)}], r[Max(s)])]
<1>1. CountOne \in [CountState \X Message -> CountState] /\ CountStart \in CountState
  BY CountOneType
<1>2. \A x \in CountState, e \in Message : CountOne[<<x, e>>] = CountMsg(x, e)
  BY DEF CountOne
<1>3. DOMAIN r = 1 .. Len(r) /\ Len(r) \in Nat /\ \A k \in DOMAIN r : r[k] \in Message
  BY LenProperties, ElementOfSeq
<1>4. \A s \in SUBSET DOMAIN r : s # {} => Max(s) \in DOMAIN r
  BY <1>3, MaxOf
<1>5. \E it : IsIt(it)
  <2>1. PICK it \in [SUBSET DOMAIN r -> CountState] : IsIter(it, CountOne, CountStart, r)
    BY <1>1, IterExists
  <2>2. ASSUME NEW s \in SUBSET DOMAIN r
        PROVE  it[s] = IF s = {} THEN CountStart ELSE CountMsg(it[s \ {Max(s)}], r[Max(s)])
    <3>1. CASE s = {}
      BY <2>1, <3>1 DEF IsIter
    <3>2. CASE s # {}
      <4>1. it[s \ {Max(s)}] \in CountState /\ r[Max(s)] \in Message
        BY <1>3, <1>4, <2>1, <3>2
      <4>2. it[s] = CountOne[<<it[s \ {Max(s)}], r[Max(s)]>>]
        BY <2>1, <3>2 DEF IsIter
      <4>3. QED
        BY <1>2, <3>2, <4>1, <4>2
    <3>3. QED
      BY <3>1, <3>2
  <2>3. IsIt(it)
    BY <2>1, <2>2
  <2> HIDE DEF IsIt
  <2>4. QED
    BY <2>3
<1>6. PICK it : IsIt(it) /\ Counted(r) = it[DOMAIN r]
  BY <1>5 DEF Counted, FoldLeft, MapThenFoldSet
<1>7. IterSteps(it, CountOne, CountState, CountStart, r)
  <2>1. it[{}] = CountStart
    BY <1>6
  <2>2. ASSUME NEW s \in SUBSET DOMAIN r, s # {}, it[s \ {Max(s)}] \in CountState
        PROVE  it[s] = CountOne[<<it[s \ {Max(s)}], r[Max(s)]>>]
    <3>1. r[Max(s)] \in Message
      BY <1>3, <1>4, <2>2
    <3>2. it[s] = CountMsg(it[s \ {Max(s)}], r[Max(s)])
      BY <1>6, <2>2
    <3>3. QED
      BY <1>2, <2>2, <3>1, <3>2
  <2>3. QED
    BY <2>1, <2>2 DEF IterSteps
<1> HIDE DEF IsIt
<1>8. it[DOMAIN r] = Folded(CountOne, CountState, CountStart, r) /\ it[DOMAIN r] \in CountState
  BY <1>1, <1>7, IterFolds
<1>9. QED
  BY <1>6, <1>8

(* so that it goes message by message.                                      *)
LEMMA CountedFacts ==
  /\ Counted(<<>>) = CountStart
  /\ \A r \in Seq(Message) : Counted(r) \in CountState
  /\ \A r \in Seq(Message), m \in Message : Counted(Append(r, m)) = CountMsg(Counted(r), m)
<1>1. Counted(<<>>) = CountStart
  BY CountOneType, CountedFold, FoldedEmpty, EmptySeq
<1>2. ASSUME NEW r \in Seq(Message)
      PROVE  Counted(r) \in CountState
  <2>1. Folded(CountOne, CountState, CountStart, r) \in CountState
    BY CountOneType, FoldedType
  <2>2. QED
    BY <2>1, CountedFold
<1>3. ASSUME NEW r \in Seq(Message), NEW m \in Message
      PROVE  Counted(Append(r, m)) = CountMsg(Counted(r), m)
  <2>1. FoldStep(CountOne, CountState, CountStart, r, m)
    BY CountOneType, FoldedAppend
  <2>2. PICK p \in Seq(Message) : p = Append(r, m)
    BY AppendProperties
  <2>3. /\ Counted(p) = Folded(CountOne, CountState, CountStart, p)
        /\ Counted(r) = Folded(CountOne, CountState, CountStart, r)
    BY CountedFold
  <2>4. QED
    BY <1>2, <2>1, <2>2, <2>3 DEF FoldStep, CountOne
<1>4. QED
  BY <1>1, <1>2, <1>3
FillState == [ift : Seq(Entry), data : Nat, idx : Nat, cif : Nat, bad : BOOLEAN]
FillStart(d) == [ift |-> <<>>, data |-> d, idx |-> 0, cif |-> 0, bad |-> FALSE]
Filled(d, ms) == FoldLeft(FillMsg, FillStart(d), ms)
FillOne == [x \in FillState \X Message |-> FillMsg(x[1], x[2])]

(* Aligning adds a word at most.                                            *)
LEMMA AlignedType ==
  ASSUME NEW n \in Nat
  PROVE  ALIGN(n) \in Nat /\ n <= ALIGN(n) /\ ALIGN(n) <= n + 1
<1>1. n % 2 \in 0 .. 1
  OBVIOUS
<1>2. QED
  BY <1>1 DEF ALIGN

(* The second pass goes from states to states,                              *)
LEMMA FillMsgType ==
  ASSUME NEW s \in FillState, NEW m \in Message
  PROVE  FillMsg(s, m) \in FillState
<1>1. m.type = "newaddr" => AddrData(m.addr[1]) \in Nat
  BY MessageFields, AddrDataType
<1>2. /\ m.index \in Nat /\ m.name \in Nat /\ m.len \in Nat /\ m.addr \in Seq(Address)
      /\ <<>> \in Seq(Address)
  BY MessageFields, EmptySeq
<1>3. s.data \in Nat /\ s.ift \in Seq(Entry) /\ s.cif \in Nat
  BY DEF FillState
<1>4. CASE s.bad \/ Stray(s, m)
  BY <1>4 DEF FillMsg, FillState
<1>5. CASE ~(s.bad \/ Stray(s, m)) /\ m.type = "newaddr"
  <2>1. CASE Ignored(s, m)
    BY <1>5, <2>1 DEF FillMsg
  <2>2. CASE ~Ignored(s, m)
    <3>1. PICK e \in Entry : e = [name |-> s.cif, addr |-> m.addr]
      BY <1>2, <1>3 DEF Entry
    <3>2. PICK x \in Seq(Entry) : x = Append(s.ift, e)
      BY <1>3, AppendProperties
    <3>3. PICK y \in Nat : y = s.data + AddrData(m.addr[1])
      BY <1>1, <1>3, <1>5
    <3>4. FillMsg(s, m) = [s EXCEPT !.ift = x, !.data = y]
      BY <1>5, <2>2, <3>1, <3>2, <3>3 DEF FillMsg
    <3>5. QED
      BY <3>4 DEF FillState
  <2>3. QED
    BY <2>1, <2>2
<1>6. CASE ~(s.bad \/ Stray(s, m)) /\ m.type # "newaddr"
  <2>1. ~Ignored(s, m)
    BY <1>6 DEF Ignored
  <2>2. CASE m.ifp
    <3>1. PICK e \in Entry : e = [name |-> m.name, addr |-> <<>>]
      BY <1>2 DEF Entry
    <3>2. PICK x \in Seq(Entry) : x = Append(s.ift, e)
      BY <1>3, AppendProperties
    <3>3. PICK y \in Nat : y = ALIGN(s.data + m.len) + 1
      <4>1. PICK n \in Nat : n = s.data + m.len
        BY <1>2, <1>3
      <4>2. PICK k \in Nat : k = ALIGN(n)
        BY AlignedType
      <4>3. k + 1 \in Nat /\ k + 1 = ALIGN(s.data + m.len) + 1
        BY <4>1, <4>2
      <4>4. QED
        BY <4>3
    <3>4. FillMsg(s, m) = [s EXCEPT !.ift = x, !.data = y, !.idx = m.index, !.cif = m.name]
      BY <1>6, <2>1, <2>2, <3>1, <3>2, <3>3 DEF FillMsg
    <3>5. QED
      BY <1>2, <3>4 DEF FillState
  <2>3. CASE ~m.ifp
    <3>1. FillMsg(s, m) = [s EXCEPT !.idx = 0]
      BY <1>6, <2>1, <2>3 DEF FillMsg
    <3>2. QED
      BY <3>1 DEF FillState
  <2>4. QED
    BY <2>2, <2>3
<1>7. QED
  BY <1>4, <1>5, <1>6

(* from one message to the next, and begins in one.                         *)
LEMMA FillOneType ==
  ASSUME NEW d \in Nat
  PROVE  FillOne \in [FillState \X Message -> FillState] /\ FillStart(d) \in FillState
<1>1. FillStart(d) \in FillState
  BY EmptySeq DEF FillStart, FillState
<1>2. QED
  BY <1>1, FillMsgType DEF FillOne

(* It is a fold too, wherever the data begins,                              *)
LEMMA FilledFold ==
  ASSUME NEW d \in Nat, NEW r \in Seq(Message)
  PROVE  Filled(d, r) = Folded(FillOne, FillState, FillStart(d), r)
<1> DEFINE IsIt(it) == it = [s \in SUBSET DOMAIN r |->
                               IF s = {} THEN FillStart(d) ELSE FillMsg(it[s \ {Max(s)}], r[Max(s)])]
<1>1. FillOne \in [FillState \X Message -> FillState] /\ FillStart(d) \in FillState
  BY FillOneType
<1>2. \A x \in FillState, e \in Message : FillOne[<<x, e>>] = FillMsg(x, e)
  BY DEF FillOne
<1>3. DOMAIN r = 1 .. Len(r) /\ Len(r) \in Nat /\ \A k \in DOMAIN r : r[k] \in Message
  BY LenProperties, ElementOfSeq
<1>4. \A s \in SUBSET DOMAIN r : s # {} => Max(s) \in DOMAIN r
  BY <1>3, MaxOf
<1>5. \E it : IsIt(it)
  <2>1. PICK it \in [SUBSET DOMAIN r -> FillState] : IsIter(it, FillOne, FillStart(d), r)
    BY <1>1, IterExists
  <2>2. ASSUME NEW s \in SUBSET DOMAIN r
        PROVE  it[s] = IF s = {} THEN FillStart(d) ELSE FillMsg(it[s \ {Max(s)}], r[Max(s)])
    <3>1. CASE s = {}
      BY <2>1, <3>1 DEF IsIter
    <3>2. CASE s # {}
      <4>1. it[s \ {Max(s)}] \in FillState /\ r[Max(s)] \in Message
        BY <1>3, <1>4, <2>1, <3>2
      <4>2. it[s] = FillOne[<<it[s \ {Max(s)}], r[Max(s)]>>]
        BY <2>1, <3>2 DEF IsIter
      <4>3. QED
        BY <1>2, <3>2, <4>1, <4>2
    <3>3. QED
      BY <3>1, <3>2
  <2>3. IsIt(it)
    BY <2>1, <2>2
  <2> HIDE DEF IsIt
  <2>4. QED
    BY <2>3
<1>6. PICK it : IsIt(it) /\ Filled(d, r) = it[DOMAIN r]
  BY <1>5 DEF Filled, FoldLeft, MapThenFoldSet
<1>7. IterSteps(it, FillOne, FillState, FillStart(d), r)
  <2>1. it[{}] = FillStart(d)
    BY <1>6
  <2>2. ASSUME NEW s \in SUBSET DOMAIN r, s # {}, it[s \ {Max(s)}] \in FillState
        PROVE  it[s] = FillOne[<<it[s \ {Max(s)}], r[Max(s)]>>]
    <3>1. r[Max(s)] \in Message
      BY <1>3, <1>4, <2>2
    <3>2. it[s] = FillMsg(it[s \ {Max(s)}], r[Max(s)])
      BY <1>6, <2>2
    <3>3. QED
      BY <1>2, <2>2, <3>1, <3>2
  <2>3. QED
    BY <2>1, <2>2 DEF IterSteps
<1> HIDE DEF IsIt
<1>8. it[DOMAIN r] = Folded(FillOne, FillState, FillStart(d), r) /\ it[DOMAIN r] \in FillState
  BY <1>1, <1>7, IterFolds
<1>9. QED
  BY <1>6, <1>8

(* and goes message by message.                                             *)
LEMMA FilledFacts ==
  ASSUME NEW d \in Nat
  PROVE
  /\ Filled(d, <<>>) = FillStart(d)
  /\ \A r \in Seq(Message) : Filled(d, r) \in FillState
  /\ \A r \in Seq(Message), m \in Message : Filled(d, Append(r, m)) = FillMsg(Filled(d, r), m)
<1>1. Filled(d, <<>>) = FillStart(d)
  BY FillOneType, FilledFold, FoldedEmpty, EmptySeq
<1>2. ASSUME NEW r \in Seq(Message)
      PROVE  Filled(d, r) \in FillState
  <2>1. Folded(FillOne, FillState, FillStart(d), r) \in FillState
    BY FillOneType, FoldedType
  <2>2. QED
    BY <2>1, FilledFold
<1>3. ASSUME NEW r \in Seq(Message), NEW m \in Message
      PROVE  Filled(d, Append(r, m)) = FillMsg(Filled(d, r), m)
  <2>1. FoldStep(FillOne, FillState, FillStart(d), r, m)
    BY FillOneType, FoldedAppend
  <2>2. PICK p \in Seq(Message) : p = Append(r, m)
    BY AppendProperties
  <2>3. /\ Filled(d, p) = Folded(FillOne, FillState, FillStart(d), p)
        /\ Filled(d, r) = Folded(FillOne, FillState, FillStart(d), r)
    BY FilledFold
  <2>4. QED
    BY <1>2, <2>1, <2>2, <2>3 DEF FoldStep, FillOne
<1>4. QED
  BY <1>1, <1>2, <1>3
-----------------------------------------------------------------------------
(* The two passes, message by message: the states c and f they have reached *)
(* when es are the entries to be found so far, with the data behind d.      *)
Abreast(d, c, f, es) ==
  /\ c \in CountState /\ f \in FillState /\ ~c.bad /\ ~f.bad /\ f.idx = c.idx
  /\ f.ift = es /\ c.icnt = Len(es) + 1 /\ d <= f.data /\ f.data - d <= c.dcnt

(* The last interface is i. *)
Within(c, f, i) == c.idx = (IF i.ifp THEN i.index ELSE 0) /\ (i.ifp => f.cif = i.name)

(* To append an element is to concatenate a sequence of one.                *)
LEMMA AppendOne ==
  ASSUME NEW X, NEW s \in Seq(X), NEW x \in X
  PROVE  /\ s \o <<x>> = Append(s, x) /\ s \o <<x>> \in Seq(X)
         /\ Len(s \o <<x>>) = Len(s) + 1 /\ Len(s) \in Nat /\ s \o <<>> = s
<1>1. Append(s, x) = s \o <<x>>
  BY AppendIsConcat
<1>2. Append(s, x) \in Seq(X) /\ Len(Append(s, x)) = Len(s) + 1
  BY AppendProperties
<1>3. Len(s) \in Nat
  BY LenProperties
<1>4. s \o <<>> = s
  BY ConcatEmptySeq
<1>5. QED
  BY <1>1, <1>2, <1>3, <1>4

(* The message of an interface keeps the passes abreast and puts both at    *)
(* that interface. This is where the alignment has to fit in the word the   *)
(* first pass adds for it.                                                  *)
LEMMA HeadKept ==
  ASSUME NEW d \in Nat, NEW c, NEW f, NEW es \in Seq(Entry), Abreast(d, c, f, es),
         NEW i \in Interface, NEW m, m = IfInfo(i)
  PROVE  /\ Abreast(d, CountMsg(c, m), FillMsg(f, m),
                    es \o IF i.ifp THEN <<EntryHead(i)>> ELSE <<>>)
         /\ Within(CountMsg(c, m), FillMsg(f, m), i)
<1>1. /\ m.type = "ifinfo" /\ m.index = i.index /\ m.name = i.name /\ m.ifp = i.ifp
      /\ m.len = i.len
  BY DEF IfInfo
<1>2. /\ i.index \in Nat /\ i.name \in Nat /\ i.ifp \in BOOLEAN /\ i.len \in Nat
  BY DEF Interface
<1>3. /\ c \in CountState /\ f \in FillState /\ ~c.bad /\ ~f.bad /\ f.idx = c.idx
      /\ f.ift = es /\ c.icnt = Len(es) + 1 /\ d <= f.data /\ f.data - d <= c.dcnt
  BY DEF Abreast
<1>4. ~Stray(c, m) /\ ~Stray(f, m) /\ ~Ignored(c, m) /\ ~Ignored(f, m)
  BY <1>1 DEF Stray, Ignored
<1>5. EntryHead(i) \in Entry
  BY EntryTypes
<1>6. CASE i.ifp
  <2>1. PICK e \in Entry : e = EntryHead(i)
    BY <1>5
  <2>2. PICK es2 \in Seq(Entry) : es2 = es \o <<e>>
    BY AppendOne
  <2>3. Append(f.ift, [name |-> m.name, addr |-> <<>>]) = es2 /\ Len(es2) = Len(es) + 1
        /\ Len(es) \in Nat
    <3>1. [name |-> m.name, addr |-> <<>>] = e
      BY <1>1, <2>1 DEF EntryHead
    <3>2. Append(es, e) = es2 /\ Len(es2) = Len(es) + 1 /\ Len(es) \in Nat
      BY <2>2, AppendOne
    <3>3. QED
      BY <1>3, <3>1, <3>2
  <2>4. /\ f.data \in Nat /\ c.dcnt \in Nat /\ c.icnt \in Nat /\ f.cif \in Nat
    BY <1>3 DEF CountState, FillState
  <2>5. PICK n \in Nat : n = f.data + m.len
    BY <1>1, <1>2, <2>4
  <2>6. PICK k \in Nat : k = ALIGN(n) /\ n <= k /\ k <= n + 1
    BY AlignedType
  <2>7. PICK y \in Nat : y = k + 1
    OBVIOUS
  <2>8. PICK u \in Nat : u = c.icnt + 1
    BY <2>4
  <2>9. PICK v \in Nat : v = c.dcnt + LinkData(m)
    BY <1>1, <1>2, <2>4 DEF LinkData, ALIGNBYTES
  <2>10. FillMsg(f, m) = [f EXCEPT !.ift = es2, !.data = y, !.idx = i.index, !.cif = i.name]
    BY <1>1, <1>3, <1>4, <1>6, <2>3, <2>5, <2>6, <2>7 DEF FillMsg
  <2>11. CountMsg(c, m) = [c EXCEPT !.icnt = u, !.dcnt = v, !.idx = i.index]
    BY <1>1, <1>3, <1>4, <1>6, <2>8, <2>9 DEF CountMsg
  <2>12. PICK c2 \in CountState : c2 = CountMsg(c, m)
    BY <1>2, <1>3, <2>11 DEF CountState
  <2>13. PICK f2 \in FillState : f2 = FillMsg(f, m)
    BY <1>2, <1>3, <2>10 DEF FillState
  <2>14. ~c2.bad /\ c2.idx = i.index /\ c2.icnt = u /\ c2.dcnt = v
    BY <1>3, <2>11, <2>12 DEF CountState
  <2>15. ~f2.bad /\ f2.idx = i.index /\ f2.ift = es2 /\ f2.data = y /\ f2.cif = i.name
    BY <1>3, <2>10, <2>13 DEF FillState
  <2>16. d <= y /\ y - d <= v
    <3>1. PICK x \in Nat, w \in Nat, len \in Nat : x = f.data /\ w = c.dcnt /\ len = m.len
      BY <1>1, <1>2, <2>4
    <3>2. v = w + (len + 1 + 1)
      BY <2>9, <3>1 DEF LinkData, ALIGNBYTES
    <3>3. n = x + len /\ d <= x /\ x - d <= w
      BY <1>3, <2>5, <3>1
    <3>4. QED
      BY <2>6, <2>7, <3>2, <3>3
  <2>17. u = Len(es2) + 1
    BY <1>3, <2>3, <2>8
  <2>18. Abreast(d, c2, f2, es2) /\ Within(c2, f2, i)
    BY <1>6, <2>14, <2>15, <2>16, <2>17 DEF Abreast, Within
  <2>19. es2 = es \o (IF i.ifp THEN <<EntryHead(i)>> ELSE <<>>)
    BY <1>6, <2>1, <2>2
  <2>20. QED
    BY <2>12, <2>13, <2>18, <2>19
<1>7. CASE ~i.ifp
  <2>1. FillMsg(f, m) = [f EXCEPT !.idx = 0] /\ CountMsg(c, m) = [c EXCEPT !.idx = 0]
    BY <1>1, <1>3, <1>4, <1>7 DEF FillMsg, CountMsg
  <2>2. PICK c2 \in CountState : c2 = CountMsg(c, m)
    BY <1>3, <2>1 DEF CountState
  <2>3. PICK f2 \in FillState : f2 = FillMsg(f, m)
    BY <1>3, <2>1 DEF FillState
  <2>4. ~c2.bad /\ c2.idx = 0 /\ c2.icnt = c.icnt /\ c2.dcnt = c.dcnt
    BY <1>3, <2>1, <2>2 DEF CountState
  <2>5. ~f2.bad /\ f2.idx = 0 /\ f2.ift = es /\ f2.data = f.data
    BY <1>3, <2>1, <2>3 DEF FillState
  <2>6. Abreast(d, c2, f2, es) /\ Within(c2, f2, i)
    BY <1>3, <1>7, <2>4, <2>5 DEF Abreast, Within
  <2>7. es \o (IF i.ifp THEN <<EntryHead(i)>> ELSE <<>>) = es
    BY <1>7, ConcatEmptySeq
  <2>8. QED
    BY <2>2, <2>3, <2>6, <2>7
<1>8. QED
  BY <1>2, <1>6, <1>7

(* So does the message of an address of the interface they are at: both     *)
(* passes ignore it, or neither does.                                       *)
LEMMA AddrKept ==
  ASSUME NEW d \in Nat, NEW c, NEW f, NEW es \in Seq(Entry), Abreast(d, c, f, es),
         NEW i \in Interface, NEW a \in Address, Within(c, f, i), NEW m, m = NewAddr(i, a)
  PROVE  /\ Abreast(d, CountMsg(c, m), FillMsg(f, m), es \o Added(i, a))
         /\ Within(CountMsg(c, m), FillMsg(f, m), i)
<1>1. m.type = "newaddr" /\ m.index = i.index /\ m.addr = <<a>> /\ m.addr[1] = a
  BY DEF NewAddr
<1>2. i.index \in Nat \ {0} /\ i.name \in Nat /\ i.ifp \in BOOLEAN
  BY DEF Interface
<1>3. /\ c \in CountState /\ f \in FillState /\ ~c.bad /\ ~f.bad /\ f.idx = c.idx
      /\ f.ift = es /\ c.icnt = Len(es) + 1 /\ d <= f.data /\ f.data - d <= c.dcnt
  BY DEF Abreast
<1>4. c.idx = (IF i.ifp THEN i.index ELSE 0) /\ (i.ifp => f.cif = i.name)
  BY DEF Within
<1>5. ~Stray(c, m) /\ ~Stray(f, m)
  BY <1>1, <1>2, <1>3, <1>4 DEF Stray
<1>6. CASE ~i.ifp \/ NoMasks(a)
  <2>1. Ignored(c, m) /\ Ignored(f, m)
    BY <1>1, <1>2, <1>3, <1>4, <1>6 DEF Ignored
  <2>2. CountMsg(c, m) = c /\ FillMsg(f, m) = f
    BY <1>3, <1>5, <2>1 DEF CountMsg, FillMsg
  <2>3. Added(i, a) = <<>>
    BY <1>6 DEF Added, AddrEntries
  <2>4. es \o Added(i, a) = es
    BY <2>3, ConcatEmptySeq
  <2>5. QED
    BY <2>2, <2>4
<1>7. CASE i.ifp /\ ~NoMasks(a)
  <2>1. ~Ignored(c, m) /\ ~Ignored(f, m)
    BY <1>1, <1>2, <1>3, <1>4, <1>7 DEF Ignored
  <2>2. PICK e : e = [name |-> i.name, addr |-> <<a>>]
    OBVIOUS
  <2>3. e \in Entry
    <3>1. m \in Message
      BY DEF Message
    <3>2. m.addr \in Seq(Address)
      BY <3>1, MessageFields
    <3>3. QED
      BY <1>1, <1>2, <2>2, <3>2 DEF Entry
  <2>4. Added(i, a) = <<e>>
    BY <1>7, <2>2 DEF Added, AddrEntries
  <2>5. PICK es2 \in Seq(Entry) : es2 = es \o <<e>>
    BY <2>3, AppendOne
  <2>6. Append(f.ift, [name |-> f.cif, addr |-> m.addr]) = es2 /\ Len(es2) = Len(es) + 1
        /\ Len(es) \in Nat
    <3>1. [name |-> f.cif, addr |-> m.addr] = e
      BY <1>1, <1>4, <1>7, <2>2
    <3>2. Append(es, e) = es2 /\ Len(es2) = Len(es) + 1 /\ Len(es) \in Nat
      BY <2>3, <2>5, AppendOne
    <3>3. QED
      BY <1>3, <3>1, <3>2
  <2>7. /\ f.data \in Nat /\ c.dcnt \in Nat /\ c.icnt \in Nat
    BY <1>3 DEF CountState, FillState
  <2>8. PICK n \in Nat : n = AddrData(a)
    BY AddrDataType
  <2>9. PICK y \in Nat : y = f.data + n
    BY <2>7
  <2>10. PICK u \in Nat : u = c.icnt + 1
    BY <2>7
  <2>11. PICK v \in Nat : v = c.dcnt + n
    BY <2>7
  <2>12. FillMsg(f, m) = [f EXCEPT !.ift = es2, !.data = y]
    BY <1>1, <1>3, <1>5, <2>1, <2>6, <2>8, <2>9 DEF FillMsg
  <2>13. CountMsg(c, m) = [c EXCEPT !.icnt = u, !.dcnt = v]
    BY <1>1, <1>3, <1>5, <2>1, <2>8, <2>10, <2>11 DEF CountMsg
  <2>14. PICK c2 \in CountState : c2 = CountMsg(c, m)
    BY <1>3, <2>13 DEF CountState
  <2>15. PICK f2 \in FillState : f2 = FillMsg(f, m)
    BY <1>3, <2>12 DEF FillState
  <2>16. ~c2.bad /\ c2.idx = c.idx /\ c2.icnt = u /\ c2.dcnt = v
    BY <1>3, <2>13, <2>14 DEF CountState
  <2>17. ~f2.bad /\ f2.idx = f.idx /\ f2.ift = es2 /\ f2.data = y /\ f2.cif = f.cif
    BY <1>3, <2>12, <2>15 DEF FillState
  <2>18. d <= y /\ y - d <= v /\ u = Len(es2) + 1
    BY <1>3, <2>6, <2>7, <2>9, <2>10, <2>11
  <2>19. Abreast(d, c2, f2, es2) /\ Within(c2, f2, i)
    BY <1>3, <1>4, <2>16, <2>17, <2>18 DEF Abreast, Within
  <2>20. QED
    BY <2>4, <2>5, <2>14, <2>15, <2>19
<1>8. QED
  BY <1>2, <1>6, <1>7

(* After every report the passes are abreast, and at its last interface.      *)
LEMMA PassesAbreast ==
  ASSUME NEW d \in Nat, NEW r \in Seq(Interface)
  PROVE  Abreast(d, Counted(Messages(r)), Filled(d, Messages(r)), Entries(r))
<1> DEFINE OK(l) == Abreast(d, Counted(Messages(l)), Filled(d, Messages(l)), Entries(l))
           At(l, i) == Within(Counted(Messages(l)), Filled(d, Messages(l)), i)
           T == {l \in Seq(Interface) : OK(l) /\ \A k \in Seq(Interface), i \in Interface :
                                                   l = Append(k, i) => At(l, i)}
<1>1. <<>> \in T
  <2>1. <<>> \in Seq(Interface) /\ \A k \in Seq(Interface), i \in Interface : <<>> # Append(k, i)
    <3>1. <<>> \in Seq(Interface)
      BY EmptySeq
    <3>2. ASSUME NEW k \in Seq(Interface), NEW i \in Interface
          PROVE  <<>> # Append(k, i)
      BY AppendProperties
    <3>3. QED
      BY <3>1, <3>2
  <2>2. Counted(Messages(<<>>)) = CountStart
    BY MessagesEmpty, CountedFacts
  <2>3. Filled(d, Messages(<<>>)) = FillStart(d)
    BY MessagesEmpty, FilledFacts
  <2>4. Entries(<<>>) = <<>>
    BY <2>1, EntriesByRows, FlatMapEmpty
  <2>5. /\ Len(<<>>) = 0 /\ CountStart \in CountState /\ FillStart(d) \in FillState
    BY EmptySeq, CountOneType, FillOneType
  <2>6. Abreast(d, CountStart, FillStart(d), <<>>)
    <3>1. ~CountStart.bad /\ CountStart.idx = 0 /\ CountStart.icnt = 1 /\ CountStart.dcnt = 0
      BY DEF CountStart
    <3>2. /\ ~FillStart(d).bad /\ FillStart(d).idx = 0 /\ FillStart(d).ift = <<>>
          /\ FillStart(d).data = d
      BY DEF FillStart
    <3>3. QED
      BY <2>5, <3>1, <3>2 DEF Abreast
  <2>7. QED
    BY <2>1, <2>2, <2>3, <2>4, <2>6
<1>2. ASSUME NEW l \in Seq(Interface), NEW i \in Interface, l \in T, i.addrs = <<>>
      PROVE  Append(l, i) \in T
  <2>1. PICK p \in Seq(Interface) : p = Append(l, i)
    BY AppendProperties
  <2>2. PICK m \in Message : m = IfInfo(i)
    BY ReportRow
  <2>3. PICK ms \in Seq(Message) : ms = Messages(l)
    BY MessagesByRows
  <2>4. Messages(p) = Append(ms, m)
    BY <1>2, <2>1, <2>2, <2>3, MessagesNew
  <2>5. Counted(Messages(p)) = CountMsg(Counted(ms), m)
    BY <2>4, CountedFacts
  <2>6. Filled(d, Messages(p)) = FillMsg(Filled(d, ms), m)
    BY <2>4, FilledFacts
  <2>7. PICK es \in Seq(Entry) : es = Entries(l)
    BY EntriesByRows
  <2>8. Entries(p) = es \o IF i.ifp THEN <<EntryHead(i)>> ELSE <<>>
    <3>1. FlatMap(EntryRows, p) = FlatMap(EntryRows, l) \o EntryRows[i]
      BY <2>1, RowsNew, EntryRowsType
    <3>2. Entries(p) = FlatMap(EntryRows, p) /\ Entries(l) = FlatMap(EntryRows, l)
      BY EntriesByRows
    <3>3. EntryRows[i] = IF i.ifp THEN <<EntryHead(i)>> ELSE <<>>
      BY <1>2, EntryRowsNew
    <3>4. QED
      BY <2>7, <3>1, <3>2, <3>3
  <2>9. Abreast(d, Counted(ms), Filled(d, ms), es)
    BY <1>2, <2>3, <2>7
  <2>10. /\ Abreast(d, CountMsg(Counted(ms), m), FillMsg(Filled(d, ms), m),
                    es \o IF i.ifp THEN <<EntryHead(i)>> ELSE <<>>)
         /\ Within(CountMsg(Counted(ms), m), FillMsg(Filled(d, ms), m), i)
    BY <2>2, <2>9, HeadKept
  <2>11. OK(p) /\ At(p, i)
    BY <2>5, <2>6, <2>8, <2>10
  <2>12. ASSUME NEW k \in Seq(Interface), NEW j \in Interface, p = Append(k, j)
        PROVE  i = j
    <3>1. Append(l, i) = Append(k, j)
      BY <2>1, <2>12
    <3>2. QED
      BY <3>1, AppendInjective
  <2>13. QED
    BY <2>1, <2>11, <2>12
<1>3. ASSUME NEW l \in Seq(Interface), NEW i \in Interface, NEW a \in Address,
             Append(l, i) \in T
      PROVE  Append(l, Grown(i, a)) \in T
  <2>1. PICK p \in Seq(Interface) : p = Append(l, i)
    BY AppendProperties
  <2>2. PICK i2 \in Interface : i2 = Grown(i, a)
    BY GrownFields
  <2>3. PICK q \in Seq(Interface) : q = Append(l, i2)
    BY AppendProperties
  <2>4. PICK m \in Message : m = NewAddr(i, a)
    BY DEF Message
  <2>5. PICK ms \in Seq(Message) : ms = Messages(p)
    BY MessagesByRows
  <2>6. Messages(q) = Append(ms, m)
    <3>1. q = Append(l, Grown(i, a))
      BY <2>2, <2>3
    <3>2. Extended(p, q, NewAddr(i, a))
      BY <2>1, <3>1, MessagesGrown
    <3>3. QED
      BY <2>4, <2>5, <3>2 DEF Extended
  <2>7. Counted(Messages(q)) = CountMsg(Counted(ms), m)
    BY <2>6, CountedFacts
  <2>8. Filled(d, Messages(q)) = FillMsg(Filled(d, ms), m)
    BY <2>6, FilledFacts
  <2>9. PICK es \in Seq(Entry) : es = Entries(p)
    BY EntriesByRows
  <2>10. Entries(q) = es \o Added(i, a)
    <3>1. Added(i, a) \in Seq(Entry) /\ EntryRows[Grown(i, a)] = EntryRows[i] \o Added(i, a)
      BY EntryTypes, EntryRowsGrown
    <3>2. Longer(EntryRows, p, q, Added(i, a))
      BY <2>1, <2>2, <2>3, <3>1, RowsGrown, EntryRowsType
    <3>3. Entries(p) = FlatMap(EntryRows, p) /\ Entries(q) = FlatMap(EntryRows, q)
      BY EntriesByRows
    <3>4. QED
      BY <2>9, <3>2, <3>3 DEF Longer
  <2>11. Abreast(d, Counted(ms), Filled(d, ms), es) /\ Within(Counted(ms), Filled(d, ms), i)
    BY <1>3, <2>1, <2>5, <2>9
  <2>12. /\ Abreast(d, CountMsg(Counted(ms), m), FillMsg(Filled(d, ms), m), es \o Added(i, a))
         /\ Within(CountMsg(Counted(ms), m), FillMsg(Filled(d, ms), m), i)
    BY <2>4, <2>11, AddrKept
  <2>13. OK(q) /\ At(q, i)
    BY <2>7, <2>8, <2>10, <2>12
  <2>14. At(q, i2)
    <3>1. i2.ifp = i.ifp /\ i2.index = i.index /\ i2.name = i.name
      BY <2>2, GrownFields
    <3>2. QED
      BY <2>13, <3>1 DEF Within
  <2>15. ASSUME NEW k \in Seq(Interface), NEW j \in Interface, q = Append(k, j)
        PROVE  i2 = j
    <3>1. Append(l, i2) = Append(k, j)
      BY <2>3, <2>15
    <3>2. QED
      BY <3>1, AppendInjective
  <2>16. QED
    BY <2>2, <2>3, <2>13, <2>14, <2>15
<1>4. Seq(Interface) \subseteq T
  <2> HIDE DEF T
  <2>1. QED
    BY <1>1, <1>2, <1>3, ListInduct
<1>5. r \in T
  BY <1>4
<1>6. QED
  BY <1>5

(* The two passes of getifaddrs over one report: they neither fail nor part,  *)
(* the second makes the entries there are to be found, in the room the first  *)
(* has asked for, whatever that takes to align.                               *)
THEOREM SecondPassFits ==
  ASSUME NEW l \in Seq(Interface)
  PROVE  /\ ~Count(l).bad /\ ~Fill(l).bad /\ Fill(l).ift = Entries(l)
         /\ Len(Fill(l).ift) \in Nat /\ Count(l).icnt \in Nat /\ Count(l).dcnt \in Nat
         /\ Len(Fill(l).ift) <= Count(l).icnt
         /\ Fill(l).data - HDR * Count(l).icnt \in Nat
         /\ Fill(l).data - HDR * Count(l).icnt <= Count(l).dcnt
<1>1. Count(l) = Counted(Messages(l))
  BY DEF Count, Counted, CountStart
<1>2. Count(l) \in CountState
  BY <1>1, MessagesByRows, CountedFacts
<1>3. PICK d \in Nat : d = HDR * Count(l).icnt
  BY <1>2 DEF HDR, CountState
<1>4. Fill(l) = Filled(d, Messages(l))
  BY <1>3 DEF Fill, Filled, FillStart
<1>5. Abreast(d, Count(l), Fill(l), Entries(l))
  BY <1>1, <1>4, PassesAbreast
<1>6. Len(Entries(l)) \in Nat
  BY EntriesByRows, LenProperties
<1>7. /\ Count(l).icnt \in Nat /\ Count(l).dcnt \in Nat /\ Fill(l).data \in Nat
  BY <1>2, <1>5 DEF Abreast, CountState, FillState
<1>8. Fill(l).data - d \in Nat
  BY <1>5, <1>7 DEF Abreast
<1>9. QED
  BY <1>3, <1>5, <1>6, <1>7, <1>8 DEF Abreast
-----------------------------------------------------------------------------
(* if_iterate, message by message. *)
NamePairs == [m \in Message |->
  IF m.type = "ifinfo" /\ m.ifp THEN <<[index |-> m.index, name |-> m.name]>> ELSE <<>>]

(* if_iterate looks at the messages of interfaces only.                     *)
LEMMA NamePairsFacts ==
  /\ NamePairs \in [Message -> Seq(Pair)]
  /\ \A i \in Interface : NamePairs[IfInfo(i)] = PairOf(i)
  /\ \A i \in Interface, a \in Address : NamePairs[NewAddr(i, a)] = <<>>
<1>1. ASSUME NEW m \in Message
      PROVE  NamePairs[m] \in Seq(Pair)
  <2>1. m.index \in Nat /\ m.name \in Nat
    BY MessageFields
  <2>2. PICK e \in Pair : e = [index |-> m.index, name |-> m.name]
    BY <2>1 DEF Pair
  <2>3. <<e>> \in Seq(Pair) /\ <<>> \in Seq(Pair)
    BY EmptySeq
  <2>4. NamePairs[m] = <<e>> \/ NamePairs[m] = <<>>
    BY <2>2 DEF NamePairs
  <2>5. QED
    BY <2>3, <2>4
<1>2. NamePairs = [m \in Message |-> NamePairs[m]]
  BY DEF NamePairs
<1>3. ASSUME NEW i \in Interface
      PROVE  NamePairs[IfInfo(i)] = PairOf(i)
  BY ReportRow DEF NamePairs, IfInfo, PairOf
<1>4. ASSUME NEW i \in Interface, NEW a \in Address
      PROVE  NamePairs[NewAddr(i, a)] = <<>>
  <2>1. NewAddr(i, a) \in Message
    BY DEF Message
  <2>2. NewAddr(i, a).type = "newaddr"
    BY DEF NewAddr
  <2>3. QED
    BY <2>1, <2>2 DEF NamePairs
<1>5. QED
  BY <1>1, <1>2, <1>3, <1>4

(* What it finds is made of what it finds in each message.                  *)
LEMMA IteratedByMessages ==
  ASSUME NEW l \in Seq(Interface)
  PROVE  Iterated(l) = FlatMap(NamePairs, Messages(l))
<1>1. PICK ms \in Seq(Message) : ms = Messages(l)
  BY MessagesByRows
<1>2. \A k \in DOMAIN ms : ms[k] \in Message
  BY ElementOfSeq, LenProperties
<1>3. SeqMap(NamePairs, ms) =
        [k \in DOMAIN ms |-> IF ms[k].type = "ifinfo" /\ ms[k].ifp
                              THEN <<[index |-> ms[k].index, name |-> ms[k].name]>> ELSE <<>>]
  BY <1>2 DEF SeqMap, NamePairs
<1>4. QED
  BY <1>1, <1>3 DEF Iterated, FlatMap

(* if_iterate passes each name once, in order, with its own index, however   *)
(* many addresses are reported in between.                                   *)
THEOREM IterationFindsNames ==
  ASSUME NEW r \in Seq(Interface)
  PROVE  Iterated(r) = NameIndex(r)
<1> DEFINE T == {l \in Seq(Interface) : FlatMap(NamePairs, Messages(l)) = FlatMap(PairRows, l)}
<1>1. <<>> \in T
  BY EmptySeq, MessagesEmpty, FlatMapEmpty
<1>2. ASSUME NEW l \in Seq(Interface), NEW i \in Interface, l \in T, i.addrs = <<>>
      PROVE  Append(l, i) \in T
  <2>1. PICK p \in Seq(Interface) : p = Append(l, i)
    BY AppendProperties
  <2>2. PICK m \in Message : m = IfInfo(i)
    BY ReportRow
  <2>3. PICK ms \in Seq(Message) : ms = Messages(l)
    BY MessagesByRows
  <2>4. PICK mp \in Seq(Message) : mp = Messages(p) /\ mp = Append(ms, m)
    BY <1>2, <2>1, <2>2, <2>3, MessagesNew, MessagesByRows
  <2>5. FlatMap(NamePairs, mp) = FlatMap(NamePairs, ms) \o NamePairs[m]
    BY <2>4, NamePairsFacts, FlatMapAppend
  <2>6. FlatMap(PairRows, p) = FlatMap(PairRows, l) \o PairRows[i]
    BY <2>1, PairRowsType, RowsNew
  <2>7. NamePairs[m] = PairRows[i]
    BY <2>2, NamePairsFacts DEF PairRows
  <2>8. FlatMap(NamePairs, mp) = FlatMap(PairRows, p)
    BY <1>2, <2>3, <2>5, <2>6, <2>7
  <2>9. QED
    BY <2>1, <2>4, <2>8
<1>3. ASSUME NEW l \in Seq(Interface), NEW i \in Interface, NEW a \in Address,
             Append(l, i) \in T
      PROVE  Append(l, Grown(i, a)) \in T
  <2>1. PICK p \in Seq(Interface) : p = Append(l, i)
    BY AppendProperties
  <2>2. PICK q \in Seq(Interface) : q = Append(l, Grown(i, a))
    BY GrownFields, AppendProperties
  <2>3. PICK m \in Message : m = NewAddr(i, a)
    BY DEF Message
  <2>4. PICK ms \in Seq(Message) : ms = Messages(p)
    BY MessagesByRows
  <2>5. PICK mq \in Seq(Message) : mq = Messages(q) /\ mq = Append(ms, m)
    <3>1. Extended(p, q, NewAddr(i, a))
      BY <2>1, <2>2, MessagesGrown
    <3>2. QED
      BY <2>3, <2>4, <3>1, MessagesByRows DEF Extended
  <2>6. FlatMap(NamePairs, mq) = FlatMap(NamePairs, ms) \o NamePairs[m]
    BY <2>5, NamePairsFacts, FlatMapAppend
  <2>7. FlatMap(NamePairs, ms) \in Seq(Pair) /\ NamePairs[m] = <<>>
    BY <2>3, NamePairsFacts, FlatMapType
  <2>8. FlatMap(NamePairs, mq) = FlatMap(NamePairs, ms)
    BY <2>6, <2>7, ConcatEmptySeq
  <2>9. PairRows[Grown(i, a)] = PairRows[i] \o <<>>
    <3>1. PairRows[Grown(i, a)] = PairRows[i]
      BY GrownFields DEF PairRows, PairOf
    <3>2. PairRows[i] \in Seq(Pair)
      BY PairRowsType
    <3>3. QED
      BY <3>1, <3>2, ConcatEmptySeq
  <2>10. Longer(PairRows, p, q, <<>>)
    <3>1. PICK s \in Seq(Pair) : s = <<>>
      BY EmptySeq
    <3>2. PairRows[Grown(i, a)] = PairRows[i] \o s
      BY <2>9, <3>1
    <3>3. Longer(PairRows, p, q, s)
      BY <2>1, <2>2, <3>2, PairRowsType, RowsGrown
    <3>4. QED
      BY <3>1, <3>3
  <2>11. FlatMap(PairRows, q) = FlatMap(PairRows, p)
    <3>1. FlatMap(PairRows, p) \in Seq(Pair)
      BY PairRowsType, FlatMapType
    <3>2. FlatMap(PairRows, q) = FlatMap(PairRows, p) \o <<>>
      BY <2>10 DEF Longer
    <3>3. QED
      BY <3>1, <3>2, ConcatEmptySeq
  <2>12. FlatMap(NamePairs, ms) = FlatMap(PairRows, p)
    BY <1>3, <2>1, <2>4
  <2>13. QED
    BY <2>2, <2>5, <2>8, <2>11, <2>12
<1>4. Seq(Interface) \subseteq T
  <2> HIDE DEF T
  <2>1. QED
    BY <1>1, <1>2, <1>3, ListInduct
<1>5. r \in T
  BY <1>4
<1>6. QED
  BY <1>5, IteratedByMessages, NameIndexByRows
-----------------------------------------------------------------------------
(* What the kernel copies. *)

(* The bytes of the first n records: prefixes add up, and never shrink.      *)
LEMMA PrefixBytes ==
  ASSUME NEW r \in Seq(Record), NEW n \in 0 .. Len(r)
  PROVE  /\ SubSeq(r, 1, n) \in Seq(Record) /\ Bytes(SubSeq(r, 1, n)) \in Nat
         /\ SubSeq(r, 1, 0) = <<>> /\ SubSeq(r, 1, Len(r)) = r
         /\ n < Len(r) => /\ r[n + 1] \in Record
                          /\ Bytes(SubSeq(r, 1, n + 1)) = Bytes(SubSeq(r, 1, n)) + r[n + 1].len
<1>1. Len(r) \in Nat /\ n \in Nat /\ n <= Len(r)
  BY LenProperties
<1>2. SubSeq(r, 1, n) \in Seq(Record)
  BY <1>1, SubSeqProperties
<1>3. SubSeq(r, 1, 0) = <<>> /\ SubSeq(r, 1, Len(r)) = r
  BY <1>1, SubSeqEmpty, SubSeqFull
<1>4. ASSUME n < Len(r)
      PROVE  /\ r[n + 1] \in Record
             /\ Bytes(SubSeq(r, 1, n + 1)) = Bytes(SubSeq(r, 1, n)) + r[n + 1].len
  <2>1. r[n + 1] \in Record
    BY <1>1, <1>4, ElementOfSeq
  <2>2. SubSeq(r, 1, n + 1) = Append(SubSeq(r, 1, n), r[n + 1])
    <3>1. PICK k \in 1 .. Len(r) : k = n + 1
      BY <1>1, <1>4
    <3>2. 1 \in 1 .. Len(r) /\ k - 1 = n
      BY <1>1, <1>4, <3>1
    <3>3. SubSeq(r, 1, k) = SubSeq(r, 1, k - 1) \o <<r[k]>>
      BY <3>1, <3>2, SubSeqRecursiveSecond
    <3>4. SubSeq(r, 1, k) = SubSeq(r, 1, n) \o <<r[n + 1]>>
      BY <3>1, <3>2, <3>3
    <3>5. Append(SubSeq(r, 1, n), r[n + 1]) = SubSeq(r, 1, n) \o <<r[n + 1]>>
      BY <1>2, <2>1, AppendOne
    <3>6. QED
      BY <3>1, <3>4, <3>5
  <2>3. QED
    BY <1>2, <2>1, <2>2, BytesFacts
<1>5. QED
  BY <1>2, <1>3, <1>4, BytesFacts

(* Some number of records fits while one more would not, so that the choice  *)
(* in Fitting is of one that exists.                                         *)
LEMMA SomethingFits ==
  ASSUME NEW r \in Seq(Record), NEW room \in Nat
  PROVE  \E n \in 0 .. Len(r) : /\ Bytes(SubSeq(r, 1, n)) <= room
                                /\ n = Len(r) \/ Bytes(SubSeq(r, 1, n + 1)) > room
<1> DEFINE B(n) == Bytes(SubSeq(r, 1, n))
           Good(n) == B(n) <= room /\ (n = Len(r) \/ B(n + 1) > room)
           T == {n \in Nat : n <= Len(r) => B(n) <= room}
<1>1. Len(r) \in Nat
  BY LenProperties
<1>2. SUFFICES ASSUME \A n \in 0 .. Len(r) : ~Good(n)
               PROVE  FALSE
  OBVIOUS
<1>3. \A n \in 0 .. Len(r) : B(n) \in Nat
  BY PrefixBytes
<1>4. B(0) = 0
  <2>1. 0 \in 0 .. Len(r)
    BY <1>1
  <2>2. SubSeq(r, 1, 0) = <<>>
    BY <2>1, PrefixBytes
  <2>3. QED
    BY <2>2, BytesFacts
<1> HIDE DEF B
<1>5. 0 \in T
  BY <1>4
<1>6. ASSUME NEW n \in Nat, n \in T
      PROVE  n + 1 \in T
  <2>1. CASE n + 1 <= Len(r)
    <3>1. B(n) <= room /\ n # Len(r) /\ n \in 0 .. Len(r) /\ n + 1 \in 0 .. Len(r)
      BY <1>1, <1>6, <2>1
    <3>2. ~(B(n + 1) > room)
      BY <1>2, <3>1
    <3>3. B(n + 1) \in Nat
      BY <1>3, <3>1
    <3>4. QED
      BY <3>2, <3>3
  <2>2. QED
    BY <2>1
<1>7. Nat \subseteq T
  <2> HIDE DEF T
  <2>1. QED
    BY <1>5, <1>6, NatInduct
<1>8. Len(r) \in T
  BY <1>1, <1>7
<1>9. B(Len(r)) <= room /\ Len(r) \in 0 .. Len(r)
  BY <1>1, <1>8
<1>10. QED
  BY <1>2, <1>9

(* SIOCGIFCONF copies no more than there is room for; and where room for the *)
(* largest record is left over, which is what __ifreq looks at, it has       *)
(* copied every record.                                                      *)
THEOREM CopiedRecordsFit ==
  ASSUME NEW r \in Seq(Record), NEW room \in Nat
  PROVE  /\ Fitting(r, room) \in Seq(Record)
         /\ Bytes(Fitting(r, room)) \in Nat /\ Bytes(Fitting(r, room)) <= room
         /\ \A m \in Nat :
              (\A k \in DOMAIN r : r[k].len <= m) /\ Bytes(Fitting(r, room)) + m <= room
                => Fitting(r, room) = r
<1>1. PICK n : /\ n \in 0 .. Len(r) /\ Bytes(SubSeq(r, 1, n)) <= room
               /\ n = Len(r) \/ Bytes(SubSeq(r, 1, n + 1)) > room
               /\ Fitting(r, room) = SubSeq(r, 1, n)
  BY SomethingFits DEF Fitting
<1>2. Len(r) \in Nat /\ n \in Nat /\ n <= Len(r)
  BY <1>1, LenProperties
<1>3. SubSeq(r, 1, n) \in Seq(Record) /\ Bytes(SubSeq(r, 1, n)) \in Nat
  BY <1>1, PrefixBytes
<1>4. ASSUME NEW m \in Nat, \A k \in DOMAIN r : r[k].len <= m,
             Bytes(SubSeq(r, 1, n)) + m <= room
      PROVE  Fitting(r, room) = r
  <2>1. CASE n = Len(r)
    BY <1>1, <2>1, PrefixBytes
  <2>2. CASE n # Len(r)
    <3>1. n < Len(r) /\ n + 1 \in DOMAIN r
      BY <1>2, <2>2, LenProperties
    <3>2. /\ r[n + 1] \in Record
          /\ Bytes(SubSeq(r, 1, n + 1)) = Bytes(SubSeq(r, 1, n)) + r[n + 1].len
      BY <1>1, <3>1, PrefixBytes
    <3>3. PICK x \in Nat : x = r[n + 1].len
      BY <3>2 DEF Record
    <3>4. x <= m
      BY <1>4, <3>1, <3>3
    <3>5. PICK b \in Nat : b = Bytes(SubSeq(r, 1, n))
      BY <1>3
    <3>6. b + x > room /\ b + m <= room
      BY <1>1, <1>4, <2>2, <3>2, <3>3, <3>5
    <3>7. QED
      BY <3>4, <3>6
  <2>3. QED
    BY <2>1, <2>2
<1>5. QED
  BY <1>1, <1>3, <1>4

-----------------------------------------------------------------------------
(* What the calls count and what they return. *)
LEMMA ListSizes ==
  ASSUME NEW l \in Seq(Interface)
  PROVE  Len(l) \in Nat /\ Len(Messages(l)) \in Nat /\ Bytes(Records(l)) \in Nat
<1>1. Len(l) \in Nat /\ Len(Messages(l)) \in Nat
  BY MessagesByRows, LenProperties
<1>2. QED
  BY <1>1, RecordsType, BytesFacts
=============================================================================
