-------------------------- MODULE Sessions_proofs --------------------------
(***************************************************************************)
(* Proofs about Sessions, for any users, names, terminals, hosts and       *)
(* records of others: the search for a terminal, the records, the file,    *)
(* the lookups in it, and that it is the directory of Directory.           *)
(***************************************************************************)
EXTENDS Sessions, SequenceTheorems, WellFoundedInduction, TLAPS

USE DEF vars, Goto, Books

-----------------------------------------------------------------------------
(* The search.  A terminal that has been tried, and one that somebody holds, *)
(* is one the session could not have had at some moment of its search.       *)
SearchOK ==
  /\ pc \in [Users -> {"out", "search", "failed", "open", "named", "in", "closing"}]
  /\ at \in [Users -> Nat]
  /\ pty \in [Users -> Devices \cup {NULL}]
  /\ busy \in [Users -> SUBSET Devices]
  /\ \A s \in Users :
       /\ pc[s] \in {"out", "search", "failed"} => pty[s] = NULL
       /\ pc[s] = "search" => /\ at[s] > 0
                              /\ Taken \subseteq busy[s]
                              /\ \A k \in 1 .. at[s] - 1 : Order[k] \in busy[s]
       /\ pc[s] = "failed" => Reachable \subseteq busy[s]

(* A step that takes no terminal, and in which one session searches or not.  *)
LEMMA SearchKept ==
  ASSUME SearchOK, NEW s \in Users,
         pc' \in [Users -> {"out", "search", "failed", "open", "named", "in", "closing"}],
         at' \in [Users -> Nat], busy' \in [Users -> SUBSET Devices],
         pty' = pty \/ pty' = [pty EXCEPT ![s] = NULL],
         \A o \in Users \ {s} : pc'[o] = pc[o] /\ at'[o] = at[o] /\ busy'[o] = busy[o],
         pc'[s] \in {"out", "search", "failed"} => pty'[s] = NULL,
         pc'[s] = "search" => /\ at'[s] > 0
                              /\ Taken' \subseteq busy'[s]
                              /\ \A k \in 1 .. at'[s] - 1 : Order[k] \in busy'[s],
         pc'[s] = "failed" => Reachable \subseteq busy'[s]
  PROVE  SearchOK'
<1>1. pty' \in [Users -> Devices \cup {NULL}]
  BY DEF SearchOK
<1>2. Taken' \subseteq Taken
  <2>1. CASE pty' = pty
    BY <2>1 DEF Taken
  <2>2. CASE pty' = [pty EXCEPT ![s] = NULL]
    <3>1. \A o \in Users : pty'[o] = NULL \/ pty'[o] = pty[o]
      BY <2>2 DEF SearchOK
    <3>2. QED
      BY <3>1 DEF Taken
  <2>3. QED
    BY <2>1, <2>2
<1>3. ASSUME NEW o \in Users, o # s
      PROVE  /\ pc'[o] \in {"out", "search", "failed"} => pty'[o] = NULL
             /\ pc'[o] = "search" => /\ at'[o] > 0
                                     /\ Taken' \subseteq busy'[o]
                                     /\ \A k \in 1 .. at'[o] - 1 : Order[k] \in busy'[o]
             /\ pc'[o] = "failed" => Reachable \subseteq busy'[o]
  <2>1. pty'[o] = pty[o]
    BY <1>3 DEF SearchOK
  <2>2. pc'[o] = pc[o] /\ at'[o] = at[o] /\ busy'[o] = busy[o]
    BY <1>3
  <2>3. QED
    BY <1>2, <2>1, <2>2 DEF SearchOK
<1>4. Reachable' = Reachable
  BY DEF Reachable
<1>5. QED
  BY <1>1, <1>3, <1>4 DEF SearchOK

LEMMA SearchStep ==
  ASSUME SearchOK, [Next]_vars
  PROVE  SearchOK'
<1>1. ASSUME NEW s \in Users, OpenPt(s)
      PROVE  SearchOK'
  <2>1. pc'[s] = "search" /\ at'[s] = 1 /\ busy'[s] = Taken /\ pty' = pty /\ pty[s] = NULL
    BY <1>1 DEF OpenPt, SearchOK
  <2>2. Taken \subseteq Devices /\ Taken' = Taken
    BY <2>1 DEF Taken, SearchOK
  <2>3. QED
    BY <1>1, <2>1, <2>2, SearchKept DEF OpenPt, SearchOK
<1>2. ASSUME NEW s \in Users, TryNext(s)
      PROVE  SearchOK'
  <2>1. /\ pc' = pc /\ pty' = pty /\ busy' = busy /\ pc[s] = "search"
        /\ Order[at[s]] \in Taken /\ at' = [at EXCEPT ![s] = @ + 1]
    BY <1>2 DEF TryNext
  <2>2. at[s] \in Nat /\ at[s] > 0 /\ at'[s] = at[s] + 1
    BY <2>1 DEF SearchOK
  <2>3. Taken' = Taken /\ Taken \subseteq busy[s]
    BY <2>1 DEF Taken, SearchOK
  <2>4. \A k \in 1 .. at'[s] - 1 : Order[k] \in busy[s]
    <3>1. \A k \in 1 .. at'[s] - 1 : k = at[s] \/ k \in 1 .. at[s] - 1
      BY <2>2
    <3>2. QED
      BY <2>1, <2>3, <3>1 DEF SearchOK
  <2>5. at' \in [Users -> Nat]
    BY <2>1, <2>2 DEF SearchOK
  <2>6. at'[s] > 0
    BY <2>2
  <2>7. \A o \in Users \ {s} : at'[o] = at[o]
    BY <2>1 DEF SearchOK
  <2>8. QED
    BY <2>1, <2>3, <2>4, <2>5, <2>6, <2>7, SearchKept DEF SearchOK
<1>3. ASSUME NEW s \in Users, Opened(s)
      PROVE  SearchOK'
  <2> DEFINE d == Order[at[s]]
  <2>1. /\ d \in Devices /\ pty' = [pty EXCEPT ![s] = d] /\ at' = [at EXCEPT ![s] = 0]
        /\ pc' = [pc EXCEPT ![s] = "open"]
        /\ busy' = [o \in Users |-> IF o = s THEN {}
                                    ELSE IF pc[o] = "search" THEN busy[o] \cup {d}
                                    ELSE busy[o]]
    BY <1>3 DEF Opened
  <2> HIDE DEF d
  <2>2. Taken' \subseteq Taken \cup {d}
    BY <2>1 DEF Taken, SearchOK
  <2>3. /\ pc' \in [Users -> {"out", "search", "failed", "open", "named", "in", "closing"}]
        /\ at' \in [Users -> Nat] /\ pty' \in [Users -> Devices \cup {NULL}]
    BY <2>1 DEF SearchOK
  <2>4. busy' \in [Users -> SUBSET Devices]
    BY <2>1 DEF SearchOK
  <2>5. pc'[s] = "open"
    BY <2>1 DEF SearchOK
  <2>6. ASSUME NEW o \in Users, o # s
        PROVE  /\ pc'[o] = pc[o] /\ at'[o] = at[o] /\ pty'[o] = pty[o]
               /\ busy[o] \subseteq busy'[o]
               /\ pc[o] = "search" => d \in busy'[o]
    BY <2>1, <2>6 DEF SearchOK
  <2>7. Reachable' = Reachable
    BY DEF Reachable
  <2>8. ASSUME NEW o \in Users
        PROVE  /\ pc'[o] \in {"out", "search", "failed"} => pty'[o] = NULL
               /\ pc'[o] = "search" => /\ at'[o] > 0
                                       /\ Taken' \subseteq busy'[o]
                                       /\ \A k \in 1 .. at'[o] - 1 : Order[k] \in busy'[o]
               /\ pc'[o] = "failed" => Reachable \subseteq busy'[o]
    <3>1. CASE o = s
      BY <2>5, <3>1
    <3>2. CASE o # s /\ pc[o] = "search"
      BY <2>2, <2>6, <3>2 DEF SearchOK
    <3>3. CASE o # s /\ pc[o] # "search"
      BY <2>6, <3>3 DEF SearchOK
    <3>4. QED
      BY <3>1, <3>2, <3>3
  <2>9. QED
    BY <2>3, <2>4, <2>7, <2>8 DEF SearchOK
<1>4. ASSUME NEW s \in Users, OpenFails(s)
      PROVE  SearchOK'
  <2>1. /\ pc[s] = "search" /\ pc' = [pc EXCEPT ![s] = "failed"]
        /\ at' = at /\ pty' = pty /\ busy' = busy
        /\ at[s] > Len(Order) \/ Order[at[s]] \notin Devices
    BY <1>4 DEF OpenFails
  <2>2. Reachable \subseteq busy[s]
    <3>1. at[s] \in Nat /\ at[s] > 0 /\ \A k \in 1 .. at[s] - 1 : Order[k] \in busy[s]
      BY <2>1 DEF SearchOK
    <3>2. ASSUME NEW j \in DOMAIN Order, \A k \in 1 .. j : Order[k] \in Devices
          PROVE  Order[j] \in busy[s]
      <4>1. j \in 1 .. Len(Order) /\ Len(Order) \in Nat
        BY SessionsConstants
      <4>2. j < at[s]
        BY <2>1, <3>1, <3>2, <4>1
      <4>3. j \in 1 .. at[s] - 1
        BY <3>1, <4>1, <4>2
      <4>4. QED
        BY <3>1, <4>3
    <3>3. QED
      BY <3>2 DEF Reachable
  <2>3. QED
    BY <2>1, <2>2, SearchKept DEF SearchOK
<1>5. ASSUME NEW s \in Users, PtsName(s)
      PROVE  SearchOK'
  BY <1>5, SearchKept DEF PtsName, SearchOK
<1>6. ASSUME NEW s \in Users, Leaves(s)
      PROVE  SearchOK'
  <2>1. pc'[s] = "out" /\ pty' = [pty EXCEPT ![s] = NULL] /\ pty'[s] = NULL
    BY <1>6 DEF Leaves, SearchOK
  <2>2. /\ pc' \in [Users -> {"out", "search", "failed", "open", "named", "in", "closing"}]
        /\ at' \in [Users -> Nat] /\ busy' \in [Users -> SUBSET Devices]
        /\ \A o \in Users \ {s} : pc'[o] = pc[o] /\ at'[o] = at[o] /\ busy'[o] = busy[o]
    BY <1>6 DEF Leaves, SearchOK
  <2>3. QED
    BY <2>1, <2>2, SearchKept
<1>7. ASSUME NEW s \in Users, Login(s)
      PROVE  SearchOK'
  <2>1. CASE pc[s] = "named" /\ pc' = [pc EXCEPT ![s] = "in"] /\ UNCHANGED <<at, busy, pty>>
    BY <2>1, SearchKept DEF SearchOK
  <2>2. QED
    BY <1>6, <1>7, <2>1 DEF Login
<1>8. ASSUME NEW s \in Users, Logout(s)
      PROVE  SearchOK'
  BY <1>8, SearchKept DEF Logout, SearchOK
<1>9. ASSUME NEW s \in Users, Close(s) \/ Die(s)
      PROVE  SearchOK'
  BY <1>6, <1>9 DEF Close, Die
<1>10. ASSUME UNCHANGED <<pc, at, pty, busy>>
       PROVE  SearchOK'
  BY <1>10 DEF SearchOK, Taken, Reachable
<1>11. QED
  BY <1>1, <1>2, <1>3, <1>4, <1>5, <1>7, <1>8, <1>9, <1>10
  DEF Next, Session, ForeignPut, LookUp, GetUtxEnt, LookReturns

(* openpt says there is no terminal only when each one it could come to was  *)
(* in use at some moment of its search, however many sessions come and go.   *)
THEOREM SearchesAreFair ==
  Spec => []FailsOnlyWhenBusy
<1>1. Init => SearchOK
  BY DEF Init, SearchOK
<1>2. SearchOK /\ [Next]_vars => SearchOK'
  BY SearchStep
<1>3. SearchOK => FailsOnlyWhenBusy
  BY DEF SearchOK, FailsOnlyWhenBusy
<1>4. QED
  BY <1>1, <1>2, <1>3, PTL DEF Spec

-----------------------------------------------------------------------------
(* The records: what is written and read has the types it should have.       *)
LEMMA LineNames ==
  ASSUME NEW l \in Lines
  PROVE  l.name \in Names \cup Specials \cup {""}
<1>1. CASE l \in [tty : BOOLEAN, name : Names]
  BY <1>1
<1>2. CASE l \in {Line(FALSE, n) : n \in Specials \cup {""}}
  <2>1. PICK n \in Specials \cup {""} : l = Line(FALSE, n)
    BY <1>2
  <2>2. Line(FALSE, n).name = n
    BY DEF Line
  <2>3. l.name = n
    BY <2>1, <2>2, Zenon
  <2>4. QED
    BY <2>3
<1>3. QED
  BY <1>1, <1>2 DEF Lines

LEMMA UtmpxRecords ==
  ASSUME NEW t \in Types, NEW p \in Pids \cup {0}, NEW h \in Hosts \cup 0 .. UT_HOSTSIZE,
         NEW l \in Lines, NEW d \in Names \cup {""}, NEW n \in Users \cup Reserved
  PROVE  [type |-> t, pid |-> p, host |-> h, line |-> l, id |-> d, user |-> n] \in Utmpx
BY DEF Utmpx

LEMMA SystemLooks ==
  \A t \in SystemTypes : SystemLine[t] \in Specials /\ SystemName[t] \in Reserved
<1>1. /\ SystemLine["RUN_LVL"] = "~" /\ SystemLine["BOOT_TIME"] = "~"
      /\ SystemLine["ACCOUNTING"] = "~" /\ SystemLine["NEW_TIME"] = "{"
      /\ SystemLine["OLD_TIME"] = "|"
  BY DEF SystemLine
<1>2. /\ SystemName["RUN_LVL"] = "runlevel" /\ SystemName["BOOT_TIME"] = "reboot"
      /\ SystemName["ACCOUNTING"] = "acct" /\ SystemName["NEW_TIME"] = "date"
      /\ SystemName["OLD_TIME"] = "date"
  BY DEF SystemName
<1>3. QED
  BY <1>1, <1>2 DEF SystemTypes, Specials, Reserved

(* What a program asks to have written becomes a record.                     *)
LEMMA RecordsConvert ==
  ASSUME NEW ux \in Utmpx, NEW w \in ToUtmp(ux)
  PROVE  w.utmp \in Utmp
<1>1. PICK l \in LinesFor(ux), len \in StrLens(HostFor(ux)) :
        w.utmp = [line |-> l, name |-> NameFor(ux), host |-> HostFor(ux),
                  hidden |-> HiddenFor(ux, len)]
  BY DEF ToUtmp
<1>2. l \in Lines
  <2>1. ux.line \in Lines /\ NoLine \in Lines
    BY DEF Utmpx, Lines, Line, NoLine
  <2>2. ux.type \in SystemTypes => Line(FALSE, SystemLine[ux.type]) \in Lines
    <3>1. ux.type \in SystemTypes => SystemLine[ux.type] \in Specials
      BY SystemLooks
    <3>2. \A n \in Specials : Line(FALSE, n) \in Lines
      BY DEF Lines
    <3>3. QED
      BY <3>1, <3>2
  <2>3. \A n \in Names : Line(FALSE, n) \in [tty : BOOLEAN, name : Names]
    BY DEF Line
  <2>4. QED
    BY <1>1, <2>1, <2>2, <2>3 DEF LinesFor, Lines
<1>3. NameFor(ux) \in Users \cup Reserved
  <2>1. ux.user \in Users \cup Reserved
    BY DEF Utmpx
  <2>2. ux.type \in SystemTypes => SystemName[ux.type] \in Reserved
    BY SystemLooks
  <2>3. {"", "INIT", "LOGIN"} \subseteq Reserved
    BY DEF Reserved
  <2>4. QED
    BY <2>1, <2>2, <2>3 DEF NameFor
<1>4. HostFor(ux) \in 0 .. UT_HOSTSIZE
  <2>1. ux.host \in Nat
    <3>1. ux.host \in Hosts \cup 0 .. 16
      BY DEF Utmpx, UT_HOSTSIZE
    <3>2. Hosts \subseteq Nat
      BY UtmpConstants
    <3>3. \A h \in Hosts \cup 0 .. 16 : h \in Nat
      BY <3>2
    <3>4. QED
      BY <3>1, <3>3, Zenon
  <2>2. QED
    BY <2>1 DEF HostFor, UT_HOSTSIZE
<1>5. HiddenFor(ux, len) \in Pids \cup {0}
  BY DEF HiddenFor, Utmpx
<1>6. QED
  BY <1>1, <1>2, <1>3, <1>4, <1>5 DEF Utmp

LEMMA ProcessRecords ==
  ASSUME NEW u
  PROVE  TypeOf(u) \in ProcessTypes <=> ~IsEmpty(u) /\ ~IsSpecial(u)
<1>1. CASE IsEmpty(u)
  BY <1>1 DEF TypeOf, ProcessTypes
<1>2. CASE ~IsEmpty(u) /\ IsSpecial(u)
  <2> DEFINE S == {t \in SystemTypes : SystemLine[t] = u.line.name /\ SystemName[t] = u.name}
  <2>1. TypeOf(u) = IF S = {} THEN NULL ELSE CHOOSE t \in S : TRUE
    BY <1>2 DEF TypeOf
  <2>2. S # {} => (CHOOSE t \in S : TRUE) \in S
    OBVIOUS
  <2>3. TypeOf(u) \in SystemTypes \cup {NULL}
    BY <2>1, <2>2
  <2>4. QED
    BY <1>2, <2>3, UtmpConstants DEF SystemTypes, ProcessTypes, Types
<1>3. CASE ~IsEmpty(u) /\ ~IsSpecial(u)
  BY <1>3 DEF TypeOf, ProcessTypes
<1>4. QED
  BY <1>1, <1>2, <1>3

(* What a program reads is a record of its own again.                        *)
LEMMA RecordsComeBack ==
  ASSUME NEW u \in Utmp, TypeOf(u) \in {"LOGIN_PROCESS", "USER_PROCESS"}
  PROVE  ToUtmpx(u) \in Utmpx
<1>1. TypeOf(u) \in ProcessTypes /\ TypeOf(u) # "EMPTY" /\ TypeOf(u) \in Types
  BY DEF ProcessTypes, Types
<1>2. ~IsSpecial(u)
  BY <1>1, ProcessRecords
<1>3. LineOf(u) \in Lines
  BY DEF LineOf, Utmp, Lines, NoLine, Line
<1>4. IdOf(u) \in Names \cup {""}
  <2>1. u.line.name \in Names \cup Specials \cup {""}
    <3>1. u.line \in Lines
      BY DEF Utmp
    <3>2. QED
      BY <3>1, LineNames
  <2>2. QED
    BY <1>2, <2>1, UtmpConstants DEF IdOf, IsSpecial
<1>5. PidOf(u) \in Pids \cup {0} /\ u.name \in Users \cup Reserved /\ u.host \in 0 .. UT_HOSTSIZE
  BY DEF PidOf, Utmp
<1>6. ToUtmpx(u) = [type |-> TypeOf(u), pid |-> PidOf(u), host |-> u.host,
                    line |-> LineOf(u), id |-> IdOf(u), user |-> u.name]
  BY <1>1 DEF ToUtmpx
<1>7. QED
  <2>1. u.host \in Hosts \cup 0 .. UT_HOSTSIZE
    BY <1>5
  <2>2. [type |-> TypeOf(u), pid |-> PidOf(u), host |-> u.host,
         line |-> LineOf(u), id |-> IdOf(u), user |-> u.name] \in Utmpx
    BY <1>1, <1>3, <1>4, <1>5, <2>1, UtmpxRecords
  <2>3. QED
    BY <1>6, <2>2, Zenon

LEMMA LeastExists ==
  ASSUME NEW S \in SUBSET Nat, S # {}
  PROVE  Min(S) \in S
<1>1. PICK x \in S : \A y \in S : ~ (<<y, x>> \in OpToRel(<, Nat))
  BY NatLessThanWellFounded, WFMin
<1>2. \A y \in S : x <= y
  <2>1. \A y \in S : ~(y < x)
    BY <1>1 DEF OpToRel
  <2>2. QED
    BY <2>1
<1>3. QED
  BY <1>2 DEF Min

(* Putting a record changes one place of the file, where there was an equal  *)
(* one, or adds one if there was none.                                       *)
LEMMA PutOne ==
  ASSUME file \in Seq(Utmp), NEW u \in Utmp
  PROVE  /\ Put(u) \in Seq(Utmp) /\ Len(Put(u)) >= Len(file)
         /\ \E m \in DOMAIN Put(u) :
              /\ Put(u)[m] = u
              /\ \A i \in DOMAIN Put(u) \ {m} : i \in DOMAIN file /\ Put(u)[i] = file[i]
              /\ IF m \in DOMAIN file THEN UtmpEqual(file[m], u)
                 ELSE \A i \in DOMAIN file : ~UtmpEqual(file[i], u)
<1> DEFINE Same == {i \in DOMAIN file : UtmpEqual(file[i], u)}
<1>0. DOMAIN file = 1 .. Len(file) /\ Len(file) \in Nat
  OBVIOUS
<1>1. CASE Same = {}
  <2>1. Put(u) = Append(file, u)
    BY <1>1 DEF Put
  <2>2. /\ Append(file, u) \in Seq(Utmp) /\ Len(Append(file, u)) = Len(file) + 1
        /\ Append(file, u)[Len(file) + 1] = u
        /\ \A i \in 1 .. Len(file) : Append(file, u)[i] = file[i]
    OBVIOUS
  <2>3. DOMAIN Append(file, u) = 1 .. Len(file) + 1
    BY <2>2
  <2>4. Len(file) + 1 \notin DOMAIN file /\ Len(file) + 1 \in DOMAIN Append(file, u)
    BY <1>0, <2>3
  <2>5. \A i \in DOMAIN Append(file, u) \ {Len(file) + 1} : i \in 1 .. Len(file)
    BY <1>0, <2>3
  <2>6. QED
    BY <1>0, <1>1, <2>1, <2>2, <2>4, <2>5
<1>2. CASE Same # {}
  <2>1. Same \in SUBSET Nat
    BY <1>0
  <2>2. PICK m \in Same : m = Min(Same)
    BY <1>2, <2>1, LeastExists
  <2>3. Put(u) = [file EXCEPT ![m] = u]
    BY <1>2, <2>2 DEF Put
  <2>4. [file EXCEPT ![m] = u] \in Seq(Utmp) /\ Len([file EXCEPT ![m] = u]) = Len(file)
    BY <2>2
  <2>5. /\ DOMAIN [file EXCEPT ![m] = u] = DOMAIN file
        /\ [file EXCEPT ![m] = u][m] = u
        /\ \A i \in DOMAIN file \ {m} : [file EXCEPT ![m] = u][i] = file[i]
    BY <2>2
  <2>6. UtmpEqual(file[m], u) /\ m \in DOMAIN file
    BY <2>2
  <2> DEFINE P == [file EXCEPT ![m] = u]
  <2>7. \A i \in DOMAIN P \ {m} : i \in DOMAIN file /\ P[i] = file[i]
    BY <2>5
  <2>8. Len(P) >= Len(file)
    BY <1>0, <2>4
  <2>9. QED
    BY <2>3, <2>4, <2>5, <2>6, <2>7, <2>8
<1>3. QED
  BY <1>1, <1>2

-----------------------------------------------------------------------------
(* The file.                                                                 *)
LookRecords == [line : Devices \cup {NULL}, pos : Nat, steady : Users \cup {NULL},
                found : Utmpx \cup {NULL}]

LookOK == look \in LookRecords /\ (look.line # NULL => look.pos > 0)

BooksOK ==
  /\ \A s \in Users : at[s] <= Len(Order) + 1
  /\ \A s \in Users : pc[s] \in {"open", "named", "in"} => pty[s] # NULL
  /\ file \in Seq(Utmp) /\ OneRecordPerLine
  /\ foreign \in 0 .. MaxForeign /\ overrun \in BOOLEAN
  /\ LookOK

LEMMA PutKeepsOne ==
  ASSUME file \in Seq(Utmp), OneRecordPerLine, NEW u \in Utmp, file' = Put(u)
  PROVE  file' \in Seq(Utmp) /\ OneRecordPerLine'
<1>1. PICK m \in DOMAIN file' :
        /\ file'[m] = u
        /\ \A i \in DOMAIN file' \ {m} : i \in DOMAIN file /\ file'[i] = file[i]
        /\ IF m \in DOMAIN file THEN UtmpEqual(file[m], u)
           ELSE \A i \in DOMAIN file : ~UtmpEqual(file[i], u)
  BY PutOne
<1>2. ASSUME NEW i \in DOMAIN file' \ {m},
             TypeOf(file'[i]) \in ProcessTypes, TypeOf(u) \in ProcessTypes,
             file'[i].line = u.line
      PROVE  FALSE
  <2>1. i \in DOMAIN file /\ file'[i] = file[i]
    BY <1>1
  <2>2. UtmpEqual(file[i], u)
    BY <1>2, <2>1, ProcessRecords DEF UtmpEqual
  <2>3. m \in DOMAIN file /\ UtmpEqual(file[m], u)
    BY <1>1, <2>1, <2>2
  <2>4. TypeOf(file[m]) \in ProcessTypes /\ file[m].line = file[i].line
    BY <2>2, <2>3, ProcessRecords DEF UtmpEqual
  <2>5. TypeOf(file[i]) \in ProcessTypes
    BY <1>2, <2>1
  <2>6. QED
    BY <2>1, <2>3, <2>4, <2>5 DEF OneRecordPerLine
<1>3. ASSUME NEW i \in DOMAIN file', NEW j \in DOMAIN file',
             {TypeOf(file'[i]), TypeOf(file'[j])} \subseteq ProcessTypes,
             file'[i].line = file'[j].line
      PROVE  i = j
  <2>1. CASE i = m /\ j # m
    BY <1>1, <1>2, <1>3, <2>1
  <2>2. CASE i # m /\ j = m
    BY <1>1, <1>2, <1>3, <2>2
  <2>3. CASE i # m /\ j # m
    <3>1. i \in DOMAIN file /\ j \in DOMAIN file /\ file'[i] = file[i] /\ file'[j] = file[j]
      BY <1>1, <2>3
    <3>2. QED
      BY <1>3, <3>1 DEF OneRecordPerLine
  <2>4. QED
    BY <2>1, <2>2, <2>3
<1>4. file' \in Seq(Utmp)
  BY PutOne
<1>5. QED
  BY <1>3, <1>4 DEF OneRecordPerLine

LEMMA RecordTyped ==
  ASSUME NEW s \in Users, pty[s] \in Devices,
         NEW type \in {"USER_PROCESS", "DEAD_PROCESS"}, NEW h \in Hosts \cup {0}
  PROVE  Record(type, s, h) \in Utmpx
<1>1. pty[s] \in Names
  BY SessionsConstants
<1>2. Line(TRUE, pty[s]) \in Lines
  BY <1>1 DEF Lines, Line
<1>3. Short[pty[s]] \in Names /\ Pid[s] \in Pids
  BY <1>1, SessionsConstants, UtmpConstants
<1>4. (IF type = "USER_PROCESS" THEN s ELSE "") \in Users \cup Reserved
  BY DEF Reserved
<1>5. type \in Types /\ h \in Hosts \cup 0 .. UT_HOSTSIZE
  BY DEF Types, ProcessTypes, UT_HOSTSIZE
<1>6. QED
  BY <1>2, <1>3, <1>4, <1>5 DEF Record, Utmpx

LEMMA BooksStep ==
  ASSUME SearchOK, SearchOK', BooksOK, [Next]_vars
  PROVE  BooksOK'
<1> USE DEF SearchOK
<1>1. ASSUME NEW s \in Users, UNCHANGED Books,
             pc' = [pc EXCEPT ![s] = pc'[s]],
             pc'[s] \in {"open", "named", "in"} => pty'[s] # NULL,
             \A o \in Users \ {s} : pty'[o] = pty[o] /\ at'[o] = at[o],
             at'[s] <= Len(Order) + 1
      PROVE  BooksOK'
  BY <1>1 DEF BooksOK, OneRecordPerLine, LookOK
<1>2. ASSUME NEW s \in Users, OpenPt(s)
      PROVE  BooksOK'
  <2>1. Len(Order) \in Nat
    BY SessionsConstants
  <2>2. QED
    <3>1. UNCHANGED Books /\ pc' = [pc EXCEPT ![s] = "search"] /\ at'[s] = 1 /\ pty' = pty
      BY <1>2 DEF OpenPt
    <3>2. \A o \in Users \ {s} : at'[o] = at[o]
      BY <1>2 DEF OpenPt
    <3>3. pc' = [pc EXCEPT ![s] = pc'[s]] /\ at'[s] <= Len(Order) + 1 /\ pc'[s] = "search"
      BY <2>1, <3>1
    <3>4. QED
      BY <1>1, <3>1, <3>2, <3>3
<1>3. ASSUME NEW s \in Users, TryNext(s)
      PROVE  BooksOK'
  BY <1>1, <1>3, SessionsConstants DEF TryNext, BooksOK
<1>4. ASSUME NEW s \in Users, Opened(s)
      PROVE  BooksOK'
  <2>1. Len(Order) \in Nat
    BY SessionsConstants
  <2>0. NULL \notin Devices
    <3>1. NULL \notin Names
      BY UtmpConstants
    <3>2. QED
      BY <3>1, SessionsConstants
  <2>2. QED
    <3>1. UNCHANGED Books /\ pc' = [pc EXCEPT ![s] = "open"] /\ pty'[s] # NULL /\ at'[s] = 0
      BY <1>4, <2>0 DEF Opened
    <3>2. \A o \in Users \ {s} : pty'[o] = pty[o] /\ at'[o] = at[o]
      BY <1>4 DEF Opened
    <3>3. pc' = [pc EXCEPT ![s] = pc'[s]] /\ at'[s] <= Len(Order) + 1
      BY <2>1, <3>1
    <3>4. QED
      BY <1>1, <3>1, <3>2, <3>3
<1>5. ASSUME NEW s \in Users, OpenFails(s) \/ PtsName(s)
      PROVE  BooksOK'
  BY <1>1, <1>5 DEF OpenFails, PtsName, BooksOK
<1>6. ASSUME NEW s \in Users, Leaves(s), UNCHANGED <<file, foreign>>,
             overrun' \in BOOLEAN, LookOK'
      PROVE  BooksOK'
  <2>1. Len(Order) \in Nat
    BY SessionsConstants
  <2>2. QED
    BY <1>6, <2>1 DEF Leaves, BooksOK, OneRecordPerLine
<1>7. ASSUME NEW s \in Users, Away(s)
      PROVE  LookOK'
  BY <1>7 DEF Away, BooksOK, LookOK, LookRecords
<1>8. ASSUME NEW s \in Users, Login(s)
      PROVE  BooksOK'
  <2>1. pc[s] = "named" /\ pty[s] \in Devices /\ look' = look /\ foreign' = foreign
    BY <1>8 DEF Login, BooksOK
  <2>2. PICK h \in Hosts : \E w \in ToUtmp(Record("USER_PROCESS", s, h)) :
          \/ /\ file' = Put(w.utmp)
             /\ Goto(s, "in")
             /\ UNCHANGED <<at, busy, pty, overrun>>
          \/ /\ overrun' = TRUE
             /\ Leaves(s)
             /\ UNCHANGED file
    BY <1>8 DEF Login
  <2>3. PICK w \in ToUtmp(Record("USER_PROCESS", s, h)) :
          \/ /\ file' = Put(w.utmp)
             /\ Goto(s, "in")
             /\ UNCHANGED <<at, busy, pty, overrun>>
          \/ /\ overrun' = TRUE
             /\ Leaves(s)
             /\ UNCHANGED file
    BY <2>2
  <2>4. CASE file' = Put(w.utmp) /\ Goto(s, "in") /\ UNCHANGED <<at, busy, pty, overrun>>
    <3>1. w.utmp \in Utmp
      BY <2>1, RecordTyped, RecordsConvert
    <3>2. file' \in Seq(Utmp) /\ OneRecordPerLine'
      BY <2>4, <3>1, PutKeepsOne DEF BooksOK
    <3>3. QED
      BY <2>1, <2>4, <3>2 DEF BooksOK, LookOK
  <2>5. CASE overrun' = TRUE /\ Leaves(s) /\ UNCHANGED file
    BY <1>6, <2>1, <2>5 DEF BooksOK, LookOK
  <2>6. QED
    BY <2>3, <2>4, <2>5
<1>9. ASSUME NEW s \in Users, Logout(s)
      PROVE  BooksOK'
  <2>1. pc[s] = "in" /\ pty[s] \in Devices
    BY <1>9 DEF Logout, BooksOK
  <2>2. PICK w \in ToUtmp(Record("DEAD_PROCESS", s, 0)) : file' = Put(w.utmp)
    BY <1>9 DEF Logout
  <2>3. w.utmp \in Utmp
    BY <2>1, RecordTyped, RecordsConvert
  <2>4. file' \in Seq(Utmp) /\ OneRecordPerLine'
    BY <2>2, <2>3, PutKeepsOne DEF BooksOK
  <2>5. LookOK'
    BY <1>7, <1>9 DEF Logout
  <2>6. QED
    BY <1>9, <2>4, <2>5 DEF Logout, BooksOK
<1>10. ASSUME NEW s \in Users, Close(s) \/ Die(s)
       PROVE  BooksOK'
  BY <1>6, <1>7, <1>10 DEF Close, Die, BooksOK, LookOK
<1>11. ASSUME NEW ux \in Foreign, ForeignPut(ux)
       PROVE  BooksOK'
  <2>1. PICK w \in ToUtmp(ux) : file' = Put(w.utmp)
    BY <1>11 DEF ForeignPut
  <2>2. w.utmp \in Utmp
    BY SessionsConstants, RecordsConvert
  <2>3. file' \in Seq(Utmp) /\ OneRecordPerLine'
    BY <2>1, <2>2, PutKeepsOne DEF BooksOK
  <2>4. foreign' \in 0 .. MaxForeign
    BY <1>11, SessionsConstants DEF ForeignPut, BooksOK
  <2>5. QED
    BY <1>11, <2>3, <2>4 DEF ForeignPut, BooksOK, LookOK
<1>12. ASSUME NEW d \in Watched, LookUp(d)
       PROVE  BooksOK'
  <2>1. On(d) \in Users \cup {NULL}
    <3>1. LoggedIn(d) # {} => \E s \in Users : s \in LoggedIn(d)
      BY DEF LoggedIn
    <3>2. QED
      BY <3>1 DEF On
  <2>2. LookOK'
    BY <1>12, <2>1, SessionsConstants DEF LookUp, LookOK, LookRecords
  <2>3. QED
    BY <1>12, <2>2 DEF LookUp, BooksOK, OneRecordPerLine
<1>13. ASSUME GetUtxEnt \/ LookReturns
       PROVE  BooksOK'
  <2>1. CASE GetUtxEnt
    <3>1. look.pos \in Nat /\ look.pos <= Len(file) /\ look.pos > 0 /\ LookOK
      BY <2>1 DEF GetUtxEnt, BooksOK, LookOK, LookRecords
    <3>2. LookOK'
      <4>1. CASE Matches(file[look.pos])
        <5>1. file[look.pos] \in Utmp
          BY <3>1 DEF BooksOK
        <5>2. ToUtmpx(file[look.pos]) \in Utmpx
          BY <4>1, <5>1, RecordsComeBack DEF Matches
        <5>3. look' = [look EXCEPT !.found = ToUtmpx(file[look.pos])]
          BY <2>1, <4>1 DEF GetUtxEnt
        <5>4. QED
          BY <3>1, <5>2, <5>3 DEF LookOK, LookRecords
      <4>2. CASE ~Matches(file[look.pos])
        <5>1. look' = [look EXCEPT !.pos = @ + 1]
          BY <2>1, <4>2 DEF GetUtxEnt
        <5>2. look.pos + 1 \in Nat /\ look.pos + 1 > 0
          BY <3>1
        <5>3. QED
          BY <3>1, <5>1, <5>2 DEF LookOK, LookRecords
      <4>3. QED
        BY <4>1, <4>2
    <3>3. QED
      BY <2>1, <3>2 DEF GetUtxEnt, BooksOK, OneRecordPerLine
  <2>2. CASE LookReturns
    <3>1. LookOK'
      BY <2>2 DEF LookReturns, Idle, LookOK, LookRecords
    <3>2. QED
      BY <2>2, <3>1 DEF LookReturns, BooksOK, OneRecordPerLine
  <2>3. QED
    BY <1>13, <2>1, <2>2
<1>14. ASSUME UNCHANGED vars
       PROVE  BooksOK'
  BY <1>14 DEF BooksOK, OneRecordPerLine, LookOK
<1>15. QED
  BY <1>2, <1>3, <1>4, <1>5, <1>8, <1>9, <1>10, <1>11, <1>12, <1>13, <1>14
  DEF Next, Session

LEMMA BooksInvariance ==
  Spec => [](SearchOK /\ BooksOK)
<1>1. Init => SearchOK
  BY DEF Init, SearchOK
<1>2. Init => BooksOK
  <2>1. Len(Order) \in Nat /\ MaxForeign \in Nat
    BY SessionsConstants
  <2>2. Init => file \in Seq(Utmp) /\ OneRecordPerLine
    BY DEF Init, OneRecordPerLine
  <2>3. Init => LookOK
    BY DEF Init, Idle, LookOK, LookRecords
  <2>4. QED
    <3>1. Init => /\ \A s \in Users : at[s] <= Len(Order) + 1
                  /\ \A s \in Users : pc[s] \in {"open", "named", "in"} => pty[s] # NULL
      BY <2>1 DEF Init
    <3>2. Init => foreign \in 0 .. MaxForeign
      BY <2>1 DEF Init
    <3>3. Init => overrun \in BOOLEAN
      BY DEF Init
    <3>4. QED
      BY <2>2, <2>3, <3>1, <3>2, <3>3 DEF BooksOK
<1>3. SearchOK /\ BooksOK /\ [Next]_vars => SearchOK' /\ BooksOK'
  BY SearchStep, BooksStep
<1>4. QED
  BY <1>1, <1>2, <1>3, PTL DEF Spec

(* The variables keep their types.                                           *)
THEOREM SessionsTyped ==
  Spec => []TypeOK
<1>1. SearchOK /\ BooksOK => TypeOK
  <2>1. SearchOK /\ BooksOK => at \in [Users -> 0 .. Len(Order) + 1]
    BY SessionsConstants DEF SearchOK, BooksOK
  <2>2. QED
    BY <2>1 DEF SearchOK, BooksOK, LookOK, LookRecords, TypeOK
<1>2. QED
  BY <1>1, BooksInvariance, PTL

(* The file has at most one record of a process for a line.                  *)
THEOREM OneEach ==
  Spec => []OneRecordPerLine
<1>1. BooksOK => OneRecordPerLine
  BY DEF BooksOK
<1>2. QED
  BY <1>1, BooksInvariance, PTL

-----------------------------------------------------------------------------
(* The lookups.  What is asked of the records others write is that they do   *)
(* not use the lines of terminals, where only sessions write.                *)
ForeignElsewhere ==
  \A ux \in Foreign, d \in Devices : Line(TRUE, d) \notin LinesFor(ux)

(* The record is the one that session s has written on line d.               *)
Tells(u, s, d) ==
  /\ u.line = Line(TRUE, d) /\ u.name = s
  /\ u.host < UT_HOSTSIZE - 2 =>
       u.hidden = IF Digits(Pid[s]) <= UT_HOSTSIZE - u.host - 1 THEN Pid[s] ELSE 0

(* What the lookup in progress knows, given where sessions are.              *)
LookTells ==
  look.steady # NULL =>
    /\ look.line \in Devices /\ pc[look.steady] = "in" /\ pty[look.steady] = look.line
    /\ \/ /\ look.found = NULL
          /\ \E i \in DOMAIN file : i >= look.pos /\ Tells(file[i], look.steady, look.line)
       \/ /\ look.found # NULL /\ look.found.user = look.steady
          /\ look.found.pid = Kept(look.steady, look.found)

(* A terminal is open in one session; each session that is in has its        *)
(* record; and a lookup on its line has found it or has it still ahead.      *)
OnePerTerminal == \A s, t \in Users : pty[s] # NULL /\ pty[s] = pty[t] => s = t

ShownOK ==
  /\ OnePerTerminal
  /\ \A s \in Users : pc[s] = "in" => \E i \in DOMAIN file : Tells(file[i], s, pty[s])
  /\ LookTells

LEMMA TtyLines ==
  ASSUME NEW d \in Names, NEW n
  PROVE  Line(TRUE, d) # NoLine /\ (Line(TRUE, d) = Line(TRUE, n) => d = n)
<1>1. Line(TRUE, d).name = d /\ NoLine.name = "" /\ Line(TRUE, n).name = n
  BY DEF Line, NoLine
<1>2. d # ""
  BY UtmpConstants
<1>3. QED
  BY <1>1, <1>2, Zenon

LEMMA TtyRecords ==
  ASSUME NEW u, NEW d \in Names, u.line = Line(TRUE, d)
  PROVE  ~IsEmpty(u) /\ ~IsSpecial(u) /\ TypeOf(u) \in ProcessTypes
<1>1. u.line # NoLine
  BY TtyLines
<1>2. u.line.name = d
  <2>1. Line(TRUE, d).name = d
    BY DEF Line
  <2>2. QED
    BY <2>1, Zenon
<1>3. d \notin Specials
  BY UtmpConstants
<1>4. ~IsEmpty(u) /\ ~IsSpecial(u)
  BY <1>1, <1>2, <1>3 DEF IsEmpty, IsSpecial
<1>5. QED
  BY <1>4, ProcessRecords

(* The record of a session, read back.                                       *)
LEMMA SessionRecord ==
  ASSUME NEW u, NEW s \in Users, NEW d \in Devices, Tells(u, s, d)
  PROVE  /\ TypeOf(u) = "USER_PROCESS"
         /\ ToUtmpx(u).line = Line(TRUE, d) /\ ToUtmpx(u).user = s
         /\ ToUtmpx(u).pid = Kept(s, ToUtmpx(u))
<1>1. ~IsEmpty(u) /\ ~IsSpecial(u)
  BY SessionsConstants, TtyRecords DEF Tells
<1>2. s \notin Reserved
  BY UtmpConstants
<1>3. u.name # "INIT" /\ u.name # "LOGIN" /\ u.name # ""
  BY <1>2 DEF Tells, Reserved
<1>4. TypeOf(u) = "USER_PROCESS"
  BY <1>1, <1>3 DEF TypeOf
<1>5. u.line.tty = TRUE
  <2>1. Line(TRUE, d).tty = TRUE
    BY DEF Line
  <2>2. QED
    BY <2>1, Zenon DEF Tells
<1>6. LineOf(u) = Line(TRUE, d)
  BY <1>5, Zenon DEF LineOf, Tells
<1>7. /\ ToUtmpx(u).line = LineOf(u) /\ ToUtmpx(u).user = u.name
      /\ ToUtmpx(u).pid = PidOf(u) /\ ToUtmpx(u).host = u.host
  BY <1>4 DEF ToUtmpx, ProcessTypes
<1>8. PidOf(u) = Kept(s, ToUtmpx(u))
  BY <1>7 DEF PidOf, Kept, Tells
<1>9. QED
  BY <1>4, <1>6, <1>7, <1>8 DEF Tells

LEMMA LoginRecord ==
  ASSUME NEW s \in Users, pty[s] \in Devices, NEW h \in Hosts,
         NEW w \in ToUtmp(Record("USER_PROCESS", s, h))
  PROVE  Tells(w.utmp, s, pty[s])
<1> DEFINE ux == Record("USER_PROCESS", s, h)
<1>1. PICK l \in LinesFor(ux), len \in StrLens(HostFor(ux)) :
        w.utmp = [line |-> l, name |-> NameFor(ux), host |-> HostFor(ux),
                  hidden |-> HiddenFor(ux, len)]
  BY DEF ToUtmp
<1>2. /\ ux.type = "USER_PROCESS" /\ ux.line = Line(TRUE, pty[s]) /\ ux.user = s
      /\ ux.host = h /\ ux.pid = Pid[s]
  BY DEF Record
<1> HIDE DEF ux
<1>3. pty[s] \in Names
  BY SessionsConstants
<1>4. LinesFor(ux) = {Line(TRUE, pty[s])}
  <2>1. Line(TRUE, pty[s]) # NoLine
    BY <1>3, TtyLines
  <2>2. QED
    BY <1>2, <2>1 DEF LinesFor, SystemTypes
<1>5. NameFor(ux) = s
  BY <1>2 DEF NameFor, SystemTypes
<1>6. h \in Nat /\ Pid[s] # 0
  BY UtmpConstants, SessionsConstants
<1>7. HostFor(ux) = IF h < UT_HOSTSIZE THEN h ELSE UT_HOSTSIZE
  BY <1>2 DEF HostFor
<1>8. ASSUME HostFor(ux) < UT_HOSTSIZE - 2
      PROVE  HiddenFor(ux, len) =
               IF Digits(Pid[s]) <= UT_HOSTSIZE - HostFor(ux) - 1 THEN Pid[s] ELSE 0
  <2>1. HostFor(ux) = h /\ h < UT_HOSTSIZE - 2
    BY <1>6, <1>7, <1>8 DEF UT_HOSTSIZE
  <2>2. len = h
    BY <1>6, <2>1 DEF StrLens, UT_HOSTSIZE
  <2>3. SIZE_T \in Nat /\ SIZE_T > UT_HOSTSIZE
    <3>1. SIZE_T \in Nat /\ Beyond \in Nat /\ SIZE_T > 2 * UT_HOSTSIZE + Beyond
      BY UtmpConstants
    <3>2. QED
      BY <3>1 DEF UT_HOSTSIZE
  <2>4. Room(len) = UT_HOSTSIZE - h - 1
    BY <1>6, <2>1, <2>2, <2>3 DEF Room, UT_HOSTSIZE
  <2>5. QED
    BY <1>2, <1>6, <2>1, <2>4 DEF HiddenFor
<1>9. QED
  <2>1. /\ w.utmp.line = Line(TRUE, pty[s]) /\ w.utmp.name = s
        /\ w.utmp.host = HostFor(ux) /\ w.utmp.hidden = HiddenFor(ux, len)
    BY <1>1, <1>4, <1>5
  <2>2. QED
    BY <1>8, <2>1 DEF Tells

(* Writing on another line leaves the record of a session where it is.       *)
LEMMA PutElsewhere ==
  ASSUME file \in Seq(Utmp), NEW u \in Utmp, file' = Put(u),
         NEW l, u.line # l, NEW i \in DOMAIN file, file[i].line = l
  PROVE  i \in DOMAIN file' /\ file'[i] = file[i]
<1>1. PICK m \in DOMAIN file' :
        /\ \A j \in DOMAIN file' \ {m} : j \in DOMAIN file /\ file'[j] = file[j]
        /\ m \in DOMAIN file => UtmpEqual(file[m], u)
  BY PutOne
<1>2. Len(file') >= Len(file) /\ file' \in Seq(Utmp)
  BY PutOne
<1>3. DOMAIN file \subseteq DOMAIN file'
  BY <1>2
<1>4. i # m
  BY <1>1 DEF UtmpEqual
<1>5. QED
  BY <1>1, <1>3, <1>4

LEMMA TerminalsStep ==
  ASSUME SearchOK, OnePerTerminal, [Next]_vars
  PROVE  OnePerTerminal'
<1> USE DEF SearchOK, OnePerTerminal
<1>1. CASE pty' = pty
  BY <1>1
<1>2. ASSUME NEW s \in Users, pty' = [pty EXCEPT ![s] = NULL]
      PROVE  OnePerTerminal'
  BY <1>2
<1>3. ASSUME NEW s \in Users, Opened(s)
      PROVE  OnePerTerminal'
  <2>1. \A o \in Users : pty[o] = NULL \/ pty[o] \in Taken
    BY DEF Taken
  <2>2. QED
    BY <1>3, <2>1 DEF Opened
<1>4. QED
  BY <1>1, <1>2, <1>3 DEF Next, Session, OpenPt, TryNext, OpenFails, PtsName, Login, Logout,
     Close, Die, Leaves, ForeignPut, LookUp, GetUtxEnt, LookReturns

(* The records of the sessions that stay in, when one record is put on       *)
(* another line than theirs.                                                 *)
LEMMA TellsKept ==
  ASSUME file \in Seq(Utmp), NEW u \in Utmp, file' = Put(u),
         NEW s, NEW d, u.line # Line(TRUE, d), NEW i \in DOMAIN file, Tells(file[i], s, d)
  PROVE  i \in DOMAIN file' /\ Tells(file'[i], s, d)
BY PutElsewhere DEF Tells

Untouched(d) == \/ file' = file
                \/ \E u \in Utmp : file' = Put(u) /\ u.line # Line(TRUE, d)

(* A step in which whoever is in afterwards was in before and has its record *)
(* untouched, or has its record now; and the lookup goes on as it was, or    *)
(* has no session to find.                                                   *)
LEMMA ShownKept ==
  ASSUME BooksOK, ShownOK, OnePerTerminal',
         \A o \in Users :
           pc'[o] = "in" =>
             \/ pc[o] = "in" /\ pty'[o] = pty[o] /\ Untouched(pty[o])
             \/ pc[o] # "in" /\ \E i \in DOMAIN file' : Tells(file'[i], o, pty'[o]),
         look'.steady # NULL => look' = look /\ pc'[look.steady] = "in"
  PROVE  ShownOK'
<1>1. ASSUME NEW s, NEW d, Untouched(d), NEW i \in DOMAIN file, Tells(file[i], s, d)
      PROVE  i \in DOMAIN file' /\ Tells(file'[i], s, d)
  <2>1. file \in Seq(Utmp)
    BY DEF BooksOK
  <2>2. CASE file' = file
    BY <1>1, <2>2
  <2>3. ASSUME NEW u \in Utmp, file' = Put(u), u.line # Line(TRUE, d)
        PROVE  i \in DOMAIN file' /\ Tells(file'[i], s, d)
    BY <1>1, <2>1, <2>3, TellsKept
  <2>4. QED
    BY <1>1, <2>2, <2>3 DEF Untouched
<1>2. ASSUME NEW o \in Users, pc'[o] = "in"
      PROVE  \E i \in DOMAIN file' : Tells(file'[i], o, pty'[o])
  <2>1. CASE pc[o] = "in" /\ pty'[o] = pty[o] /\ Untouched(pty[o])
    <3>1. PICK i \in DOMAIN file : Tells(file[i], o, pty[o])
      BY <2>1 DEF ShownOK
    <3>2. QED
      BY <1>1, <2>1, <3>1
  <2>2. QED
    BY <1>2, <2>1
<1>3. ASSUME look'.steady # NULL
      PROVE  LookTells'
  <2>1. look' = look /\ pc'[look.steady] = "in" /\ look.steady # NULL
    BY <1>3
  <2>2. look.steady \in Users
    BY <2>1 DEF BooksOK, LookOK, LookRecords
  <2>3. /\ look.line \in Devices /\ pc[look.steady] = "in" /\ pty[look.steady] = look.line
        /\ \/ /\ look.found = NULL
              /\ \E i \in DOMAIN file : /\ i >= look.pos
                                       /\ Tells(file[i], look.steady, look.line)
           \/ /\ look.found # NULL /\ look.found.user = look.steady
              /\ look.found.pid = Kept(look.steady, look.found)
    BY <2>1 DEF ShownOK, LookTells
  <2>4. pty'[look.steady] = look.line /\ Untouched(look.line)
    BY <2>1, <2>2, <2>3
  <2>5. (\E i \in DOMAIN file : i >= look.pos /\ Tells(file[i], look.steady, look.line))
          => \E i \in DOMAIN file' : i >= look.pos /\ Tells(file'[i], look.steady, look.line)
    BY <1>1, <2>4
  <2>6. QED
    BY <2>1, <2>3, <2>4, <2>5 DEF LookTells, Kept
<1>4. QED
  BY <1>2, <1>3 DEF ShownOK, LookTells

LEMMA AwayKeeps ==
  ASSUME BooksOK, NEW s, Away(s), look'.steady # NULL
  PROVE  look' = look /\ look.steady # s
<1>1. look' = [look EXCEPT !.steady = IF @ = s THEN NULL ELSE @]
  BY DEF Away
<1>2. look \in LookRecords
  BY DEF BooksOK, LookOK
<1>3. look.steady # s
  BY <1>1, <1>2 DEF LookRecords
<1>4. look' = [look EXCEPT !.steady = look.steady]
  BY <1>1, <1>3
<1>5. QED
  BY <1>2, <1>3, <1>4 DEF LookRecords

LEMMA DeadRecord ==
  ASSUME NEW s \in Users, pty[s] \in Devices,
         NEW w \in ToUtmp(Record("DEAD_PROCESS", s, 0))
  PROVE  w.utmp.line = Line(TRUE, pty[s]) /\ w.utmp.name = ""
<1> DEFINE ux == Record("DEAD_PROCESS", s, 0)
<1>1. PICK l \in LinesFor(ux), len \in StrLens(HostFor(ux)) :
        w.utmp = [line |-> l, name |-> NameFor(ux), host |-> HostFor(ux),
                  hidden |-> HiddenFor(ux, len)]
  BY DEF ToUtmp
<1>2. ux.type = "DEAD_PROCESS" /\ ux.line = Line(TRUE, pty[s])
  BY DEF Record
<1> HIDE DEF ux
<1>3. Line(TRUE, pty[s]) # NoLine
  BY SessionsConstants, TtyLines
<1>4. LinesFor(ux) = {Line(TRUE, pty[s])} /\ NameFor(ux) = ""
  BY <1>2, <1>3 DEF LinesFor, NameFor, SystemTypes
<1>5. w.utmp.line = l /\ w.utmp.name = NameFor(ux)
  BY <1>1
<1>6. QED
  BY <1>4, <1>5

(* What a lookup that starts, and a read of the next record, come to.        *)
LEMMA LookUpShows ==
  ASSUME SearchOK, BooksOK, ShownOK, NEW d \in Watched, LookUp(d)
  PROVE  LookTells'
<1>1. /\ look' = [line |-> d, pos |-> 1, found |-> NULL, steady |-> On(d)]
      /\ UNCHANGED <<pc, pty, file>>
  BY DEF LookUp
<1>2. CASE On(d) = NULL
  BY <1>1, <1>2 DEF LookTells
<1>3. CASE On(d) # NULL
  <2>1. PICK s \in Users : s = On(d) /\ s \in LoggedIn(d)
    <3>1. LoggedIn(d) # {} /\ LoggedIn(d) \subseteq Users
      BY <1>3 DEF On, LoggedIn
    <3>2. QED
      BY <3>1 DEF On
  <2>2. pc[s] = "in" /\ pty[s] = d
    BY <2>1 DEF LoggedIn
  <2>3. PICK i \in DOMAIN file : Tells(file[i], s, d)
    BY <2>2 DEF ShownOK
  <2>4. i >= 1
    BY DEF BooksOK
  <2>5. d \in Devices
    BY SessionsConstants
  <2>6. QED
    BY <1>1, <2>1, <2>2, <2>3, <2>4, <2>5 DEF LookTells
<1>4. QED
  BY <1>2, <1>3

LEMMA ReadShows ==
  ASSUME SearchOK, BooksOK, ShownOK, GetUtxEnt
  PROVE  LookTells'
<1>1. /\ look.found = NULL /\ look.line # NULL
      /\ look' = IF Matches(file[look.pos]) THEN [look EXCEPT !.found = ToUtmpx(file[look.pos])]
                 ELSE [look EXCEPT !.pos = @ + 1]
      /\ UNCHANGED <<pc, pty, file>>
  BY DEF GetUtxEnt
<1>2. /\ look \in LookRecords /\ look.pos \in DOMAIN file /\ file[look.pos] \in Utmp
      /\ look.pos \in Nat
  BY DEF BooksOK, LookOK, LookRecords, GetUtxEnt
<1>3. /\ look'.steady = look.steady /\ look'.line = look.line
      /\ look'.found = IF Matches(file[look.pos]) THEN ToUtmpx(file[look.pos]) ELSE NULL
      /\ look'.pos = IF Matches(file[look.pos]) THEN look.pos ELSE look.pos + 1
  BY <1>1, <1>2 DEF LookRecords
<1>4. CASE look.steady = NULL
  BY <1>3, <1>4 DEF LookTells
<1>5. CASE look.steady # NULL
  <2> DEFINE s == look.steady
             d == look.line
  <2>1. s \in Users /\ d \in Devices /\ pc[s] = "in" /\ pty[s] = d
    BY <1>2, <1>5 DEF ShownOK, LookTells, LookRecords
  <2>2. PICK i \in DOMAIN file : i >= look.pos /\ Tells(file[i], s, d)
    BY <1>1, <1>5 DEF ShownOK, LookTells
  <2>3. /\ TypeOf(file[i]) = "USER_PROCESS" /\ ToUtmpx(file[i]).line = Line(TRUE, d)
        /\ ToUtmpx(file[i]).user = s /\ ToUtmpx(file[i]).pid = Kept(s, ToUtmpx(file[i]))
        /\ file[i].line = Line(TRUE, d)
    BY <2>1, <2>2, SessionRecord DEF Tells
  <2>4. CASE Matches(file[look.pos])
    <3>1. look.pos = i
      <4>1. /\ TypeOf(file[look.pos]) \in ProcessTypes
            /\ ToUtmpx(file[look.pos]).line = Line(TRUE, d)
        BY <2>4 DEF Matches, ProcessTypes
      <4>2. ToUtmpx(file[look.pos]).line = LineOf(file[look.pos])
        BY <4>1 DEF ToUtmpx, ProcessTypes
      <4>3. Line(TRUE, d) # NoLine
        BY <2>1, SessionsConstants, TtyLines
      <4>4. file[look.pos].line = Line(TRUE, d)
        BY <4>1, <4>2, <4>3 DEF LineOf
      <4>5. TypeOf(file[i]) \in ProcessTypes
        BY <2>3 DEF ProcessTypes
      <4>6. OneRecordPerLine
        BY DEF BooksOK
      <4>7. QED
        BY <1>2, <2>2, <2>3, <4>1, <4>4, <4>5, <4>6 DEF OneRecordPerLine
    <3>2. ToUtmpx(file[i]) \in Utmpx
      BY <1>2, <2>3, <3>1, RecordsComeBack
    <3>3. ToUtmpx(file[i]) # NULL
      BY <3>2, UtmpConstants
    <3>4. look'.found = ToUtmpx(file[i])
      BY <1>3, <2>4, <3>1
    <3>5. QED
      BY <1>1, <1>3, <2>1, <2>3, <3>3, <3>4 DEF LookTells, Kept
  <2>5. CASE ~Matches(file[look.pos])
    <3>1. look.pos # i
      BY <2>3, <2>5 DEF Matches
    <3>2. i >= look.pos + 1
      <4>1. i \in Nat
        BY DEF BooksOK
      <4>2. QED
        BY <1>2, <2>2, <3>1, <4>1
    <3>3. QED
      BY <1>1, <1>3, <2>1, <2>2, <2>5, <3>2 DEF LookTells
  <2>6. QED
    BY <2>4, <2>5
<1>6. QED
  BY <1>4, <1>5

LEMMA ShownStep ==
  ASSUME ForeignElsewhere, SearchOK, SearchOK', BooksOK, ShownOK, [Next]_vars
  PROVE  ShownOK'
<1>0. OnePerTerminal'
  BY TerminalsStep DEF ShownOK
<1>1. look.steady # NULL => look.steady \in Users /\ pc[look.steady] = "in"
  BY DEF BooksOK, LookOK, LookRecords, ShownOK, LookTells
<1>2. ASSUME NEW s \in Users, UNCHANGED Books,
             pc[s] # "in", pc'[s] # "in",
             \A o \in Users \ {s} : pc'[o] = pc[o] /\ pty'[o] = pty[o]
      PROVE  ShownOK'
  BY <1>0, <1>1, <1>2, ShownKept DEF Untouched
<1>3. ASSUME NEW s \in Users,
             OpenPt(s) \/ TryNext(s) \/ Opened(s) \/ OpenFails(s) \/ PtsName(s) \/ Close(s)
      PROVE  ShownOK'
  BY <1>2, <1>3 DEF OpenPt, TryNext, Opened, OpenFails, PtsName, Close, Leaves, SearchOK
<1>4. ASSUME NEW s \in Users, Login(s)
      PROVE  ShownOK'
  <2>1. /\ pc[s] = "named" /\ pty[s] \in Devices /\ look' = look
        /\ pty[s] \in Devices \cup {NULL}
    BY <1>4 DEF Login, BooksOK, SearchOK
  <2>2. PICK h \in Hosts : \E w \in ToUtmp(Record("USER_PROCESS", s, h)) :
          \/ file' = Put(w.utmp) /\ Goto(s, "in") /\ pty' = pty
          \/ Leaves(s) /\ UNCHANGED file
    BY <1>4 DEF Login
  <2>3. PICK w \in ToUtmp(Record("USER_PROCESS", s, h)) :
          \/ file' = Put(w.utmp) /\ Goto(s, "in") /\ pty' = pty
          \/ Leaves(s) /\ UNCHANGED file
    BY <2>2
  <2>4. CASE file' = Put(w.utmp) /\ Goto(s, "in") /\ pty' = pty
    <3>1. Record("USER_PROCESS", s, h) \in Utmpx
      BY <2>1, RecordTyped
    <3>2. w.utmp \in Utmp /\ Tells(w.utmp, s, pty[s])
      BY <2>1, <3>1, RecordsConvert, LoginRecord
    <3>3. \E i \in DOMAIN file' : Tells(file'[i], s, pty'[s])
      <4>1. PICK m \in DOMAIN file' : file'[m] = w.utmp
        BY <2>4, <3>2, PutOne DEF BooksOK
      <4>2. QED
        BY <2>4, <3>2, <4>1
    <3>4. ASSUME NEW o \in Users, o # s, pc'[o] = "in"
          PROVE  pc[o] = "in" /\ pty'[o] = pty[o] /\ Untouched(pty[o])
      <4>1. pc[o] = "in"
        BY <2>4, <3>4 DEF SearchOK
      <4>2. pty[o] # NULL /\ pty[o] \in Devices
        BY <4>1 DEF BooksOK, SearchOK
      <4>3. pty[o] # pty[s]
        BY <3>4, <4>2 DEF ShownOK, OnePerTerminal
      <4>4. Line(TRUE, pty[s]) # Line(TRUE, pty[o])
        BY <2>1, <4>2, <4>3, SessionsConstants, TtyLines
      <4>5. w.utmp.line # Line(TRUE, pty[o])
        BY <3>2, <4>4 DEF Tells
      <4>6. QED
        BY <2>4, <3>2, <4>1, <4>5 DEF Untouched
    <3>5. pc[s] # "in" /\ (look.steady # NULL => pc'[look.steady] = "in")
      BY <1>1, <2>1, <2>4 DEF SearchOK
    <3>6. QED
      BY <1>0, <2>1, <3>3, <3>4, <3>5, ShownKept
  <2>5. CASE Leaves(s) /\ UNCHANGED file
    <3>1. /\ pc[s] # "in" /\ pc'[s] # "in"
          /\ \A o \in Users \ {s} : pc'[o] = pc[o] /\ pty'[o] = pty[o]
      BY <2>1, <2>5 DEF Leaves, SearchOK
    <3>2. look.steady # NULL => pc'[look.steady] = "in"
      BY <1>1, <3>1
    <3>3. QED
      BY <1>0, <2>1, <2>5, <3>1, <3>2, ShownKept DEF Untouched
  <2>6. QED
    BY <2>3, <2>4, <2>5
<1>5. ASSUME NEW s \in Users, Away(s),
             \A o \in Users \ {s} : pc'[o] = pc[o] /\ pty'[o] = pty[o],
             pc'[s] # "in",
             \A o \in Users \ {s} : pc[o] = "in" => Untouched(pty[o])
      PROVE  ShownOK'
  <2>1. look'.steady # NULL => look' = look /\ pc'[look.steady] = "in"
    <3>1. look'.steady # NULL => look' = look /\ look.steady # s
      BY <1>5, AwayKeeps
    <3>2. QED
      BY <1>1, <1>5, <3>1
  <2>2. QED
    BY <1>0, <1>5, <2>1, ShownKept
<1>6. ASSUME NEW s \in Users, Logout(s)
      PROVE  ShownOK'
  <2>1. pc[s] = "in" /\ pty[s] \in Devices /\ pty' = pty /\ pc' = [pc EXCEPT ![s] = "closing"]
    BY <1>6 DEF Logout, BooksOK, SearchOK
  <2>2. PICK w \in ToUtmp(Record("DEAD_PROCESS", s, 0)) : file' = Put(w.utmp)
    BY <1>6 DEF Logout
  <2>3. w.utmp \in Utmp /\ w.utmp.line = Line(TRUE, pty[s])
    BY <2>1, RecordTyped, RecordsConvert, DeadRecord
  <2>4. ASSUME NEW o \in Users \ {s}, pc[o] = "in"
        PROVE  Untouched(pty[o])
    <3>1. pty[o] # NULL /\ pty[o] \in Devices
      BY <2>4 DEF BooksOK, SearchOK
    <3>2. pty[o] # pty[s]
      BY <2>4, <3>1 DEF ShownOK, OnePerTerminal
    <3>3. Line(TRUE, pty[s]) # Line(TRUE, pty[o])
      BY <2>1, <3>1, <3>2, SessionsConstants, TtyLines
    <3>4. QED
      BY <2>2, <2>3, <3>3 DEF Untouched
  <2>5. /\ pc'[s] # "in" /\ Away(s)
        /\ \A o \in Users \ {s} : pc'[o] = pc[o] /\ pty'[o] = pty[o]
    BY <1>6, <2>1 DEF Logout, SearchOK
  <2>6. QED
    BY <1>5, <2>4, <2>5
<1>7. ASSUME NEW s \in Users, Die(s)
      PROVE  ShownOK'
  BY <1>5, <1>7 DEF Die, Leaves, Untouched, SearchOK
<1>8. ASSUME NEW ux \in Foreign, ForeignPut(ux)
      PROVE  ShownOK'
  <2>1. PICK w \in ToUtmp(ux) : file' = Put(w.utmp)
    BY <1>8 DEF ForeignPut
  <2>2. w.utmp \in Utmp
    BY SessionsConstants, RecordsConvert
  <2>3. w.utmp.line \in LinesFor(ux)
    BY DEF ToUtmp
  <2>4. ASSUME NEW o \in Users, pc[o] = "in"
        PROVE  Untouched(pty[o])
    <3>1. pty[o] \in Devices
      BY <2>4 DEF BooksOK, SearchOK
    <3>2. w.utmp.line # Line(TRUE, pty[o])
      BY <2>3, <3>1 DEF ForeignElsewhere
    <3>3. QED
      BY <2>1, <2>2, <3>2 DEF Untouched
  <2>5. UNCHANGED <<pc, pty, look>>
    BY <1>8 DEF ForeignPut
  <2>6. QED
    BY <1>0, <1>1, <2>4, <2>5, ShownKept
<1>9. ASSUME UNCHANGED <<pc, pty, file>>, LookTells'
      PROVE  ShownOK'
  BY <1>0, <1>9 DEF ShownOK
<1>10. ASSUME NEW d \in Watched, LookUp(d)
       PROVE  ShownOK'
  <2>1. LookTells'
    BY <1>10, LookUpShows
  <2>2. QED
    BY <1>9, <1>10, <2>1 DEF LookUp
<1>11. ASSUME GetUtxEnt
       PROVE  ShownOK'
  <2>1. LookTells'
    BY <1>11, ReadShows
  <2>2. QED
    BY <1>9, <1>11, <2>1 DEF GetUtxEnt
<1>12. ASSUME LookReturns
       PROVE  ShownOK'
  <2>1. look'.steady = NULL /\ UNCHANGED <<pc, pty, file>>
    BY <1>12 DEF LookReturns, Idle
  <2>2. QED
    BY <1>9, <2>1 DEF LookTells
<1>13. ASSUME UNCHANGED vars
       PROVE  ShownOK'
  BY <1>0, <1>1, <1>13, ShownKept DEF Untouched
<1>14. QED
  BY <1>3, <1>4, <1>6, <1>7, <1>8, <1>10, <1>11, <1>12, <1>13 DEF Next, Session

LEMMA ShownInvariance ==
  ASSUME ForeignElsewhere
  PROVE  Spec => [](SearchOK /\ BooksOK /\ ShownOK)
<1>1. Init => ShownOK
  BY DEF Init, Idle, ShownOK, OnePerTerminal, LookTells
<1>2. SearchOK /\ SearchOK' /\ BooksOK /\ ShownOK /\ [Next]_vars => ShownOK'
  BY ShownStep
<1>3. QED
  BY <1>1, <1>2, BooksInvariance, PTL DEF Spec

(* A lookup finds the session that is on its line all the time, with its     *)
(* name and what is kept of its process.                                     *)
THEOREM LookupsAreRight ==
  ASSUME ForeignElsewhere
  PROVE  Spec => []LookupsFindTheSession
<1>1. SearchOK /\ BooksOK /\ ShownOK => LookupsFindTheSession
  <2> SUFFICES ASSUME SearchOK, BooksOK, ShownOK, LookEnded, look.steady # NULL
               PROVE  /\ look.found # NULL /\ look.found.user = look.steady
                      /\ look.found.pid = Kept(look.steady, look.found)
    BY DEF LookupsFindTheSession
  <2>1. CASE look.found = NULL
    <3>1. look.pos > Len(file) /\ look.pos \in Nat
      BY <2>1 DEF LookEnded, BooksOK, LookOK, LookRecords
    <3>2. PICK i \in DOMAIN file : i >= look.pos
      BY <2>1 DEF ShownOK, LookTells
    <3>3. i \in 1 .. Len(file) /\ Len(file) \in Nat
      BY DEF BooksOK
    <3>4. QED
      BY <3>1, <3>2, <3>3
  <2>2. QED
    BY <2>1 DEF ShownOK, LookTells
<1>2. QED
  BY <1>1, ShownInvariance, PTL
-----------------------------------------------------------------------------
(* The refinement.  Both sides of the mapping, for a file and a set of       *)
(* sessions, so that they can be used before and after a step.               *)
Shown(ux) == IF ux.type \in {"LOGIN_PROCESS", "USER_PROCESS"}
             THEN [user |-> ux.user, pid |-> ux.pid] ELSE NULL
EntryIn(f, d) == LET There == {i \in DOMAIN f : f[i].line = Line(TRUE, d)}
                 IN  IF There = {} THEN NULL ELSE Shown(ToUtmpx(f[Min(There)]))
OnIn(L) == IF L = {} THEN NULL ELSE CHOOSE s \in Users : s \in L

LEMMA MappingIs ==
  ASSUME NEW d
  PROVE  /\ Entry(d) = EntryIn(file, d) /\ Entry(d)' = EntryIn(file', d)
         /\ On(d) = OnIn(LoggedIn(d)) /\ On(d)' = OnIn(LoggedIn(d)')
BY DEF Entry, EntryIn, Shown, On, OnIn

LEMMA OnOne ==
  ASSUME NEW s \in Users
  PROVE  OnIn({s}) = s
BY DEF OnIn

LEMMA OnSome ==
  ASSUME NEW L \in SUBSET Users
  PROVE  OnIn(L) \in Users \cup {NULL}
BY DEF OnIn

LEMMA EntryIs ==
  ASSUME NEW f \in Seq(Utmp), NEW d \in Devices, NEW i \in DOMAIN f, f[i].line = Line(TRUE, d),
         \A a, b \in DOMAIN f :
           {TypeOf(f[a]), TypeOf(f[b])} \subseteq ProcessTypes /\ f[a].line = f[b].line => a = b
  PROVE  EntryIn(f, d) = Shown(ToUtmpx(f[i]))
<1> DEFINE There == {j \in DOMAIN f : f[j].line = Line(TRUE, d)}
<1>1. There \in SUBSET Nat /\ There # {}
  <2>1. DOMAIN f = 1 .. Len(f) /\ Len(f) \in Nat
    OBVIOUS
  <2>2. DOMAIN f \subseteq Nat
    BY <2>1
  <2>3. i \in There
    OBVIOUS
  <2>4. QED
    BY <2>2, <2>3
<1>2. Min(There) \in There
  BY <1>1, LeastExists
<1>3. ASSUME NEW j \in There
      PROVE  j = i
  <2>1. TypeOf(f[j]) \in ProcessTypes /\ TypeOf(f[i]) \in ProcessTypes
    BY <1>3, SessionsConstants, TtyRecords
  <2>2. QED
    BY <1>3, <2>1
<1>4. Min(There) = i
  BY <1>2, <1>3
<1>5. QED
  BY <1>1, <1>4 DEF EntryIn

LEMMA PutEntry ==
  ASSUME file \in Seq(Utmp), OneRecordPerLine, NEW u \in Utmp, file' = Put(u), NEW d \in Devices
  PROVE  Entry(d)' = IF u.line = Line(TRUE, d) THEN Shown(ToUtmpx(u)) ELSE Entry(d)
<1>1. file' \in Seq(Utmp) /\ OneRecordPerLine'
  BY PutKeepsOne
<1>2. PICK m \in DOMAIN file' :
        /\ file'[m] = u
        /\ \A i \in DOMAIN file' \ {m} : i \in DOMAIN file /\ file'[i] = file[i]
  BY PutOne
<1>3. CASE u.line = Line(TRUE, d)
  <2>1. EntryIn(file', d) = Shown(ToUtmpx(file'[m]))
    <3>1. file'[m].line = Line(TRUE, d)
      BY <1>2, <1>3
    <3>2. \A a, b \in DOMAIN file' :
            {TypeOf(file'[a]), TypeOf(file'[b])} \subseteq ProcessTypes
              /\ file'[a].line = file'[b].line => a = b
      BY <1>1 DEF OneRecordPerLine
    <3>3. QED
      BY <1>1, <3>1, <3>2, EntryIs
  <2>2. QED
    BY <1>2, <1>3, <2>1, MappingIs
<1>4. CASE u.line # Line(TRUE, d)
  <2>1. ASSUME NEW i \in DOMAIN file, file[i].line = Line(TRUE, d)
        PROVE  Entry(d)' = Entry(d)
    <3>1. i \in DOMAIN file' /\ file'[i] = file[i]
      BY <1>4, <2>1, PutElsewhere
    <3>2. EntryIn(file', d) = Shown(ToUtmpx(file'[i]))
      BY <1>1, <2>1, <3>1, EntryIs DEF OneRecordPerLine
    <3>3. EntryIn(file, d) = Shown(ToUtmpx(file[i]))
      BY <2>1, EntryIs DEF OneRecordPerLine
    <3>4. QED
      BY <3>1, <3>2, <3>3, MappingIs
  <2>2. ASSUME \A i \in DOMAIN file : file[i].line # Line(TRUE, d)
        PROVE  Entry(d)' = Entry(d)
    <3>1. \A i \in DOMAIN file' : file'[i].line # Line(TRUE, d)
      BY <1>2, <1>4, <2>2
    <3>2. EntryIn(file', d) = NULL /\ EntryIn(file, d) = NULL
      BY <2>2, <3>1 DEF EntryIn
    <3>3. QED
      BY <3>2, MappingIs
  <2>3. QED
    BY <1>4, <2>1, <2>2
<1>5. QED
  BY <1>3, <1>4

on == [d \in Devices |-> On(d)]
who == [d \in Devices |-> Entry(d)]

(* Who is on the lines does not change when nobody enters or leaves.         *)
LEMMA NobodyMoves ==
  ASSUME \A o \in Users : pc'[o] = "in" <=> pc[o] = "in",
         \A o \in Users : pc[o] = "in" => pty'[o] = pty[o],
         \A d \in Devices : Entry(d)' = Entry(d)
  PROVE  UNCHANGED <<on, who>>
<1>1. \A d : LoggedIn(d)' = LoggedIn(d)
  BY DEF LoggedIn
<1>2. \A d : On(d)' = On(d)
  BY <1>1, MappingIs
<1>3. QED
  BY <1>2 DEF on, who

LEMMA OneMoves ==
  ASSUME NEW d \in Devices, \A o \in Devices \ {d} : LoggedIn(o)' = LoggedIn(o),
         \A o \in Devices \ {d} : Entry(o)' = Entry(o)
  PROVE  /\ \A o \in Devices \ {d} : on'[o] = on[o] /\ who'[o] = who[o]
         /\ on' \in [Devices -> Users \cup {NULL}] /\ DOMAIN who' = Devices
         /\ on[d] = OnIn(LoggedIn(d)) /\ on'[d] = OnIn(LoggedIn(d)')
         /\ who[d] = Entry(d) /\ who'[d] = Entry(d)'
<1>1. \A o \in Devices \ {d} : On(o)' = On(o)
  BY MappingIs
<1>2. \A o : LoggedIn(o)' \in SUBSET Users
  BY DEF LoggedIn
<1>3. \A o : On(o)' \in Users \cup {NULL}
  BY <1>2, OnSome, MappingIs
<1>4. QED
  BY <1>1, <1>3, MappingIs DEF on, who

LEMMA DirectoryStep ==
  ASSUME ForeignElsewhere, SearchOK, SearchOK', BooksOK, ShownOK, [Next]_vars
  PROVE  [D!Next]_<<on, who>>
<1>1. ASSUME UNCHANGED file
      PROVE  \A d : Entry(d)' = Entry(d)
  BY <1>1, MappingIs
<1>2. ASSUME NEW s \in Users, UNCHANGED Books, pc[s] # "in", pc'[s] # "in",
             \A o \in Users \ {s} : pc'[o] = pc[o] /\ pty'[o] = pty[o]
      PROVE  UNCHANGED <<on, who>>
  BY <1>1, <1>2, NobodyMoves
<1>3. ASSUME NEW s \in Users,
             OpenPt(s) \/ TryNext(s) \/ Opened(s) \/ OpenFails(s) \/ PtsName(s) \/ Close(s)
      PROVE  UNCHANGED <<on, who>>
  BY <1>2, <1>3 DEF OpenPt, TryNext, Opened, OpenFails, PtsName, Close, Leaves, SearchOK
<1>4. ASSUME NEW d \in Devices, NEW u \in Utmp, file' = Put(u), u.line = Line(TRUE, d)
      PROVE  /\ Entry(d)' = Shown(ToUtmpx(u))
             /\ \A o \in Devices \ {d} : Entry(o)' = Entry(o)
  <2>1. file \in Seq(Utmp) /\ OneRecordPerLine
    BY DEF BooksOK
  <2>2. Entry(d)' = Shown(ToUtmpx(u))
    BY <1>4, <2>1, PutEntry
  <2>3. ASSUME NEW o \in Devices \ {d}
        PROVE  Entry(o)' = Entry(o)
    <3>1. Line(TRUE, d) # Line(TRUE, o)
      BY SessionsConstants, TtyLines
    <3>2. QED
      BY <1>4, <2>1, <3>1, PutEntry
  <2>4. QED
    BY <2>2, <2>3
<1>5. ASSUME NEW s \in Users, pc[s] = "in"
      PROVE  \E d \in Devices : pty[s] = d /\ LoggedIn(d) = {s}
  <2>1. pty[s] # NULL /\ pty[s] \in Devices
    BY <1>5 DEF BooksOK, SearchOK
  <2>2. QED
    BY <1>5, <2>1 DEF LoggedIn, ShownOK, OnePerTerminal
<1>6. ASSUME NEW s \in Users, Login(s)
      PROVE  [D!Next]_<<on, who>>
  <2>1. pc[s] = "named" /\ look' = look /\ \E d \in Devices : d = pty[s] /\ d # NULL
    BY <1>6 DEF Login, BooksOK, SearchOK
  <2>0. PICK d \in Devices : d = pty[s] /\ d # NULL
    BY <2>1
  <2>2. PICK h \in Hosts : \E w \in ToUtmp(Record("USER_PROCESS", s, h)) :
          \/ file' = Put(w.utmp) /\ Goto(s, "in") /\ pty' = pty
          \/ Leaves(s) /\ UNCHANGED file
    BY <1>6 DEF Login
  <2>3. PICK w \in ToUtmp(Record("USER_PROCESS", s, h)) :
          \/ file' = Put(w.utmp) /\ Goto(s, "in") /\ pty' = pty
          \/ Leaves(s) /\ UNCHANGED file
    BY <2>2
  <2>4. CASE file' = Put(w.utmp) /\ Goto(s, "in") /\ pty' = pty
    <3>1. Record("USER_PROCESS", s, h) \in Utmpx
      BY <2>0, RecordTyped
    <3>2. w.utmp \in Utmp /\ Tells(w.utmp, s, d)
      BY <2>0, <3>1, RecordsConvert, LoginRecord
    <3>3. /\ TypeOf(w.utmp) = "USER_PROCESS" /\ ToUtmpx(w.utmp).user = s
          /\ ToUtmpx(w.utmp) \in Utmpx
      BY <3>2, SessionRecord, RecordsComeBack
    <3>4. ToUtmpx(w.utmp).type = "USER_PROCESS" /\ ToUtmpx(w.utmp).pid \in Pids \cup {0}
      <4>1. ToUtmpx(w.utmp).type = TypeOf(w.utmp)
        BY <3>3 DEF ToUtmpx
      <4>2. QED
        BY <3>3, <4>1 DEF Utmpx
    <3>5. /\ Entry(d)' = [user |-> s, pid |-> ToUtmpx(w.utmp).pid]
          /\ \A o \in Devices \ {d} : Entry(o)' = Entry(o)
      <4>1. w.utmp.line = Line(TRUE, d)
        BY <3>2 DEF Tells
      <4>2. /\ Entry(d)' = Shown(ToUtmpx(w.utmp))
            /\ \A o \in Devices \ {d} : Entry(o)' = Entry(o)
        BY <1>4, <2>4, <3>2, <4>1
      <4>3. QED
        BY <3>3, <3>4, <4>2 DEF Shown
    <3>6. /\ LoggedIn(d) = {} /\ LoggedIn(d)' = {s}
          /\ \A o \in Devices \ {d} : LoggedIn(o)' = LoggedIn(o)
      <4>1. \A o \in Users : pty[o] = d => o = s
        BY <2>0 DEF ShownOK, OnePerTerminal
      <4>2. pc'[s] = "in" /\ \A o \in Users \ {s} : pc'[o] = pc[o]
        BY <2>4 DEF SearchOK
      <4>3. LoggedIn(d) = {}
        BY <2>1, <4>1 DEF LoggedIn
      <4>4. LoggedIn(d)' = {s}
        BY <2>0, <2>4, <4>1, <4>2 DEF LoggedIn
      <4>5. \A o \in Devices \ {d} : LoggedIn(o)' = LoggedIn(o)
        BY <2>0, <2>1, <2>4, <4>2 DEF LoggedIn
      <4>6. QED
        BY <4>3, <4>4, <4>5
    <3>7. /\ \A o \in Devices \ {d} : on'[o] = on[o] /\ who'[o] = who[o]
          /\ on' \in [Devices -> Users \cup {NULL}] /\ DOMAIN who' = Devices
          /\ on[d] = OnIn(LoggedIn(d)) /\ on'[d] = OnIn(LoggedIn(d)')
          /\ who'[d] = Entry(d)'
      BY <3>5, <3>6, OneMoves
    <3>8. on[d] = NULL /\ on'[d] = s
      BY <3>6, <3>7, OnOne DEF OnIn
    <3>9. D!Enter(d)
      BY <3>4, <3>5, <3>7, <3>8 DEF D!Enter, D!OthersStay, on, who
    <3>10. QED
      BY <3>7, <3>9 DEF D!Next, on, who
  <2>5. CASE Leaves(s) /\ UNCHANGED file
    <3>1. /\ pc'[s] # "in"
          /\ \A o \in Users \ {s} : pc'[o] = pc[o] /\ pty'[o] = pty[o]
      BY <2>5 DEF Leaves, SearchOK
    <3>2. UNCHANGED <<on, who>>
      BY <1>1, <2>1, <2>5, <3>1, NobodyMoves
    <3>3. QED
      BY <3>2
  <2>6. QED
    BY <2>3, <2>4, <2>5
<1>7. ASSUME NEW s \in Users, NEW d \in Devices, LoggedIn(d) = {s}, pc'[s] # "in",
             \A o \in Users \ {s} : pc'[o] = pc[o] /\ pty'[o] = pty[o],
             \A o \in Devices \ {d} : Entry(o)' = Entry(o),
             Entry(d)' \in {NULL, Entry(d)}
      PROVE  D!Next
  <2>1. pc[s] = "in" /\ pty[s] = d
    BY <1>7 DEF LoggedIn
  <2>2. LoggedIn(d)' = {}
    BY <1>7 DEF LoggedIn
  <2>3. \A o \in Devices \ {d} : LoggedIn(o)' = LoggedIn(o)
    BY <1>7, <2>1 DEF LoggedIn
  <2>4. /\ \A o \in Devices \ {d} : on'[o] = on[o] /\ who'[o] = who[o]
        /\ on' \in [Devices -> Users \cup {NULL}] /\ DOMAIN who' = Devices
        /\ on[d] = OnIn(LoggedIn(d)) /\ on'[d] = OnIn(LoggedIn(d)')
        /\ who[d] = Entry(d) /\ who'[d] = Entry(d)'
    BY <1>7, <2>3, OneMoves
  <2>5. on[d] # NULL /\ on'[d] = NULL
    <3>1. NULL \notin Users
      BY UtmpConstants
    <3>2. OnIn({s}) = s /\ OnIn({}) = NULL
      BY OnOne DEF OnIn
    <3>3. QED
      BY <1>7, <2>2, <2>4, <3>1, <3>2
  <2>6. D!Leave(d) \/ D!Crash(d)
    BY <1>7, <2>4, <2>5 DEF D!Leave, D!Crash, D!OthersStay, on, who
  <2>7. QED
    BY <1>7, <2>4, <2>6 DEF D!Next, on, who
<1>8. ASSUME NEW s \in Users, Logout(s)
      PROVE  D!Next
  <2>1. /\ pc[s] = "in" /\ pc'[s] # "in"
        /\ \A o \in Users \ {s} : pc'[o] = pc[o] /\ pty'[o] = pty[o]
    BY <1>8 DEF Logout, SearchOK
  <2>0. PICK d \in Devices : pty[s] = d /\ LoggedIn(d) = {s}
    BY <1>5, <2>1
  <2>2. PICK w \in ToUtmp(Record("DEAD_PROCESS", s, 0)) : file' = Put(w.utmp)
    BY <1>8 DEF Logout
  <2>3. w.utmp \in Utmp /\ w.utmp.line = Line(TRUE, d) /\ w.utmp.name = ""
    BY <2>0, RecordTyped, RecordsConvert, DeadRecord
  <2>4. TypeOf(w.utmp) = "DEAD_PROCESS"
    <3>1. ~IsEmpty(w.utmp) /\ ~IsSpecial(w.utmp)
      BY <2>3, SessionsConstants, TtyRecords
    <3>2. QED
      BY <2>3, <3>1 DEF TypeOf
  <2>5. Shown(ToUtmpx(w.utmp)) = NULL
    BY <2>4 DEF Shown, ToUtmpx
  <2>6. /\ Entry(d)' = NULL
        /\ \A o \in Devices \ {d} : Entry(o)' = Entry(o)
    BY <1>4, <2>2, <2>3, <2>5
  <2>7. QED
    BY <1>7, <2>0, <2>1, <2>6
<1>9. ASSUME NEW s \in Users, Die(s)
      PROVE  [D!Next]_<<on, who>>
  <2>1. /\ UNCHANGED file /\ pc'[s] # "in"
        /\ \A o \in Users \ {s} : pc'[o] = pc[o] /\ pty'[o] = pty[o]
    BY <1>9 DEF Die, Leaves, SearchOK
  <2>2. \A d : Entry(d)' = Entry(d)
    BY <1>1, <2>1
  <2>3. CASE pc[s] = "in"
    <3>1. PICK d \in Devices : pty[s] = d /\ LoggedIn(d) = {s}
      BY <1>5, <2>3
    <3>2. D!Next
      BY <1>7, <2>1, <2>2, <3>1
    <3>3. QED
      BY <3>2
  <2>4. CASE pc[s] # "in"
    <3>1. UNCHANGED <<on, who>>
      BY <2>1, <2>2, <2>4, NobodyMoves
    <3>2. QED
      BY <3>1
  <2>5. QED
    BY <2>3, <2>4
<1>10. ASSUME NEW ux \in Foreign, ForeignPut(ux)
       PROVE  UNCHANGED <<on, who>>
  <2>1. PICK w \in ToUtmp(ux) : file' = Put(w.utmp)
    BY <1>10 DEF ForeignPut
  <2>2. w.utmp \in Utmp
    BY SessionsConstants, RecordsConvert
  <2>3. w.utmp.line \in LinesFor(ux)
    BY DEF ToUtmp
  <2>4. \A d \in Devices : w.utmp.line # Line(TRUE, d)
    BY <2>3 DEF ForeignElsewhere
  <2>5. \A d \in Devices : Entry(d)' = Entry(d)
    BY <2>1, <2>2, <2>4, PutEntry DEF BooksOK
  <2>6. UNCHANGED <<pc, pty>>
    BY <1>10 DEF ForeignPut
  <2>7. QED
    BY <2>5, <2>6, NobodyMoves
<1>11. ASSUME UNCHANGED <<pc, pty, file>>
       PROVE  UNCHANGED <<on, who>>
  BY <1>1, <1>11, NobodyMoves
<1>12. QED
  BY <1>3, <1>6, <1>8, <1>9, <1>10, <1>11
  DEF Next, Session, LookUp, GetUtxEnt, LookReturns

(* The file shows every session that is on a line from its login to its      *)
(* logout, and nothing else happens to the line.                             *)
THEOREM FileIsDirectory ==
  ASSUME ForeignElsewhere
  PROVE  Spec => ImplementsDirectory
<1>1. Init => D!Init
  <2>1. Init => \A d : LoggedIn(d) = {} /\ EntryIn(file, d) = NULL
    BY DEF Init, LoggedIn, EntryIn
  <2>2. Init => \A d : On(d) = NULL /\ Entry(d) = NULL
    BY <2>1, MappingIs DEF OnIn
  <2>3. QED
    BY <2>2 DEF D!Init
<1>2. SearchOK /\ SearchOK' /\ BooksOK /\ ShownOK /\ [Next]_vars => [D!Next]_<<on, who>>
  BY DirectoryStep
<1>3. SearchOK /\ SearchOK' /\ BooksOK /\ ShownOK /\ [Next]_vars
        => [D!Next]_<<[d \in Devices |-> On(d)], [d \in Devices |-> Entry(d)]>>
  BY <1>2 DEF on, who
<1>4. QED
  BY <1>1, <1>3, ShownInvariance, PTL DEF Spec, ImplementsDirectory, D!Spec

=============================================================================
