------------------------------- MODULE IfList -------------------------------
(***************************************************************************)
(* Lists of network interfaces: how the kernel reports one, and how        *)
(* getifaddrs (ifaddrs.c), if_iterate (if_index.c) and __ifreq (ifreq.c)   *)
(* read the report.  Sizes are counted in words of sizeof(long) bytes;     *)
(* ALIGN rounds up to two words, as where ALIGNBYTES is 15.                *)
(***************************************************************************)
EXTENDS Integers, Sequences, SequencesExt

(* mask: an address without netmask, with one of length zero, or with one; *)
(* ifa, brd: the length of the address and of the broadcast address, or 0. *)
Address == [mask : {"none", "zero", "full"}, ifa : Nat, brd : Nat]

(* ifp: RTA_IFP is set, so that the interface has a name. *)
Interface == [index : Nat \ {0}, name : Nat, ifp : BOOLEAN, len : Nat \ {0},
              addrs : Seq(Address)]

-----------------------------------------------------------------------------
(* The kernel's report, NET_RT_IFLIST: each interface and then its addresses. *)

NewAddr(i, a) == [type |-> "newaddr", index |-> i.index, name |-> 0,
                  ifp |-> FALSE, len |-> 0, addr |-> <<a>>]

IfInfo(i) == [type |-> "ifinfo", index |-> i.index, name |-> i.name,
              ifp |-> i.ifp, len |-> i.len, addr |-> <<>>]

Report(i) == <<IfInfo(i)>> \o [j \in DOMAIN i.addrs |-> NewAddr(i, i.addrs[j])]

Messages(l) == FlattenSeq([k \in DOMAIN l |-> Report(l[k])])

(* SIOCGIFCONF: records of different sizes, and those of them that fit. *)
Record == [index : Nat, len : Nat]

RecordsOf(i) ==
  <<[index |-> i.index, len |-> i.len]>> \o
  [j \in DOMAIN i.addrs |-> [index |-> i.index, len |-> 1 + i.addrs[j].ifa]]

Records(l) == FlattenSeq([k \in DOMAIN l |-> RecordsOf(l[k])])

Bytes(r) == FoldLeft(LAMBDA n, e : n + e.len, 0, r)

Fitting(r, room) ==
  LET n == CHOOSE n \in 0 .. Len(r) :
             /\ Bytes(SubSeq(r, 1, n)) <= room
             /\ n = Len(r) \/ Bytes(SubSeq(r, 1, n + 1)) > room
  IN  SubSeq(r, 1, n)

-----------------------------------------------------------------------------
(* getifaddrs.  One pass over the messages counts, a second one fills. *)

HDR == 7                                  \* sizeof(struct ifaddrs), in words
ALIGNBYTES == 1
ALIGN(n) == n + (n % 2)

NoMasks(a) == a.mask = "none" /\ a.ifa = 0 /\ a.brd = 0

(* A netmask of length zero becomes one as long as the address. *)
MaskData(a) == IF a.mask = "zero" THEN a.ifa ELSE IF a.mask = "full" THEN 1 ELSE 0

AddrData(a) == MaskData(a) + a.ifa + a.brd

(* Mutant: no room for the alignment of the data that follows. *)
MutLinkData(m) == m.len + 1

LinkData(m) == m.len + ALIGNBYTES + 1

(* An address whose index is not the interface's "cannot happen". *)
Stray(s, m) == m.type = "newaddr" /\ s.idx # 0 /\ m.index # s.idx

Ignored(s, m) == m.type = "newaddr" /\ (s.idx = 0 \/ NoMasks(m.addr[1]))

CountMsg(s, m) ==
  IF s.bad \/ Stray(s, m) THEN [s EXCEPT !.bad = TRUE]
  ELSE IF Ignored(s, m) THEN s
  ELSE IF m.type = "newaddr"
    THEN [s EXCEPT !.icnt = @ + 1, !.dcnt = @ + AddrData(m.addr[1])]
  ELSE IF m.ifp
    THEN [s EXCEPT !.icnt = @ + 1, !.dcnt = @ + LinkData(m), !.idx = m.index]
  ELSE [s EXCEPT !.idx = 0]

Count(l) == FoldLeft(CountMsg, [icnt |-> 1, dcnt |-> 0, idx |-> 0, bad |-> FALSE],
                     Messages(l))

FillMsg(s, m) ==
  IF s.bad \/ Stray(s, m) THEN [s EXCEPT !.bad = TRUE]
  ELSE IF Ignored(s, m) THEN s
  ELSE IF m.type = "newaddr"
    THEN [s EXCEPT !.ift = Append(@, [name |-> s.cif, addr |-> m.addr]),
                   !.data = @ + AddrData(m.addr[1])]
  ELSE IF m.ifp
    THEN [s EXCEPT !.ift = Append(@, [name |-> m.name, addr |-> <<>>]),
                   !.data = ALIGN(@ + m.len) + 1, !.idx = m.index, !.cif = m.name]
  ELSE [s EXCEPT !.idx = 0]

(* The data starts after icnt entries, aligned or not. *)
Fill(l) == FoldLeft(FillMsg, [ift |-> <<>>, data |-> HDR * Count(l).icnt,
                              idx |-> 0, cif |-> 0, bad |-> FALSE], Messages(l))

(* if_iterate: the indices and names it passes to its function. *)
Pair == [index : Nat, name : Nat]

Iterated(l) ==
  FlattenSeq([k \in DOMAIN Messages(l) |->
    LET m == Messages(l)[k]
    IN  IF m.type = "ifinfo" /\ m.ifp THEN <<[index |-> m.index, name |-> m.name]>>
        ELSE <<>>])

-----------------------------------------------------------------------------
(* What there is to be found, without reference to the messages: each        *)
(* interface that has a name, and under that name each of its addresses that *)
(* says anything.                                                            *)

Entry == [name : Nat, addr : Seq(Address)]

AddrEntries(n, a) == IF NoMasks(a) THEN <<>> ELSE <<[name |-> n, addr |-> <<a>>]>>

EntriesOf(i) ==
  IF ~i.ifp THEN <<>>
  ELSE <<[name |-> i.name, addr |-> <<>>]>> \o
       FlattenSeq([j \in DOMAIN i.addrs |-> AddrEntries(i.name, i.addrs[j])])

Entries(l) == FlattenSeq([k \in DOMAIN l |-> EntriesOf(l[k])])

PairOf(i) == IF i.ifp THEN <<[index |-> i.index, name |-> i.name]>> ELSE <<>>

NameIndex(l) == FlattenSeq([k \in DOMAIN l |-> PairOf(l[k])])
=============================================================================
