---------------------------- MODULE SequenceFolds ----------------------------
(***************************************************************************)
(* What the folds of the community modules compute.  FoldLeft and          *)
(* FlattenSeq choose a function by the equation it satisfies; here such a  *)
(* function is shown to exist and to agree on the prefixes of a sequence,  *)
(* so that a fold over Append(s, e) is one step from the fold over s.      *)
(* The step is given as a function D on pairs and induction is over sets,  *)
(* because the provers cannot instantiate an operator.                     *)
(***************************************************************************)
EXTENDS Integers, Sequences, SequencesExt, SequenceTheorems, WellFoundedInduction, TLAPS

(* Induction: a set with 0 and all successors has every number, and a set    *)
(* closed under Append every sequence.                                       *)
LEMMA NatInduct ==
  ASSUME NEW T, 0 \in T, \A n \in Nat : n \in T => n + 1 \in T
  PROVE  Nat \subseteq T
<1> DEFINE Out == {n \in Nat : n \notin T}
<1>1. SUFFICES ASSUME Out # {}
               PROVE  FALSE
  OBVIOUS
<1>2. Out \subseteq Nat
  OBVIOUS
<1>3. PICK m \in Out : \A k \in Out : <<k, m>> \notin OpToRel(<, Nat)
  BY <1>1, <1>2, WFMin, NatLessThanWellFounded, Zenon
<1>4. \A k \in Out : ~(k < m)
  BY <1>2, <1>3, Zenon DEF OpToRel
<1>5. m # 0 /\ m - 1 \in Nat
  OBVIOUS
<1>6. m - 1 \notin Out
  BY <1>4, <1>5
<1>7. QED
  BY <1>5, <1>6

(* Every sequence is built from the empty one by Append.                    *)
LEMMA SeqInduct ==
  ASSUME NEW X, NEW T, <<>> \in T,
         \A s \in Seq(X) : s \in T => \A x \in X : Append(s, x) \in T
  PROVE  Seq(X) \subseteq T
<1> DEFINE U == {n \in Nat : \A s \in Seq(X) : Len(s) = n => s \in T}
<1>1. 0 \in U
  BY EmptySeq
<1>2. ASSUME NEW n \in Nat, n \in U
      PROVE  n + 1 \in U
  <2>1. SUFFICES ASSUME NEW s \in Seq(X), Len(s) = n + 1
                 PROVE  s \in T
    OBVIOUS
  <2>2. PICK r \in Seq(X), x \in X : s = Append(r, x)
    BY <2>1, SequenceEmptyOrAppend
  <2>3. Len(r) = n
    BY <2>1, <2>2, AppendProperties
  <2>4. QED
    BY <1>2, <2>2, <2>3
<1> HIDE DEF U
<1>3. Nat \subseteq U
  BY <1>1, <1>2, NatInduct
<1>4. QED
  BY <1>3, LenProperties DEF U

(* The function that folds D over the prefixes of a sequence. *)
IsRun(f, D, S, b, ms) ==
  /\ f \in [0 .. Len(ms) -> S] /\ f[0] = b
  /\ \A k \in 1 .. Len(ms) : f[k] = D[<<f[k-1], ms[k]>>]

Folded(D, S, b, ms) == (CHOOSE f : IsRun(f, D, S, b, ms))[Len(ms)]

(* There is such a function, for every sequence.                            *)
LEMMA RunExists ==
  ASSUME NEW S, NEW M, NEW b \in S, NEW D \in [S \X M -> S], NEW ms \in Seq(M)
  PROVE  \E f : IsRun(f, D, S, b, ms)
<1> DEFINE T == {s \in Seq(M) : \E f : IsRun(f, D, S, b, s)}
<1>1. <<>> \in T
  <2>1. IsRun([k \in {0} |-> b], D, S, b, <<>>)
    BY EmptySeq DEF IsRun
  <2>2. QED
    BY <2>1, EmptySeq
<1>2. ASSUME NEW s \in Seq(M), s \in T, NEW m \in M
      PROVE  Append(s, m) \in T
  <2>1. PICK f : IsRun(f, D, S, b, s)
    BY <1>2
  <2> DEFINE n == Len(s) + 1
             g == [k \in 0 .. n |-> IF k = n THEN D[<<f[Len(s)], m>>] ELSE f[k]]
  <2>2. /\ Append(s, m) \in Seq(M) /\ Len(Append(s, m)) = n /\ Len(s) \in Nat
        /\ \A k \in 1 .. Len(s) : Append(s, m)[k] = s[k] /\ s[k] \in M
        /\ Append(s, m)[n] = m
    BY AppendProperties, ElementOfSeq, LenProperties
  <2>3. g \in [0 .. n -> S] /\ g[0] = b
    BY <2>1, <2>2 DEF IsRun
  <2>4. ASSUME NEW k \in 1 .. n
        PROVE  g[k] = D[<<g[k-1], Append(s, m)[k]>>]
    <3>1. CASE k = n
      <4>1. g[n] = D[<<f[Len(s)], m>>] /\ g[n-1] = f[Len(s)]
        BY <2>2
      <4>2. QED
        BY <2>2, <3>1, <4>1
    <3>2. CASE k \in 1 .. Len(s)
      <4>1. g[k] = f[k] /\ g[k-1] = f[k-1]
        BY <2>2, <3>2
      <4>2. f[k] = D[<<f[k-1], s[k]>>]
        BY <2>1, <3>2 DEF IsRun
      <4>3. QED
        BY <2>2, <3>2, <4>1, <4>2
    <3> HIDE DEF g
    <3>3. Len(s) \in Nat
      BY <2>2
    <3>4. QED
      BY <3>1, <3>2, <3>3
  <2>5. QED
    BY <2>2, <2>3, <2>4 DEF IsRun
<1> HIDE DEF T
<1>3. Seq(M) \subseteq T
  BY <1>1, <1>2, SeqInduct
<1>4. QED
  BY <1>3 DEF T

(* The same without a domain and without a type. *)
Steps(f, D, S, b, ms) ==
  /\ f[0] = b
  /\ \A k \in 1 .. Len(ms) : f[k-1] \in S => f[k] = D[<<f[k-1], ms[k]>>]

(* Whatever behaves like the fold is the fold. *)
LEMMA FoldedIsUnique ==
  ASSUME NEW S, NEW M, NEW b \in S, NEW D \in [S \X M -> S], NEW ms \in Seq(M),
         NEW f, Steps(f, D, S, b, ms)
  PROVE  f[Len(ms)] = Folded(D, S, b, ms) /\ f[Len(ms)] \in S
<1> DEFINE g == CHOOSE g : IsRun(g, D, S, b, ms)
           T == {k \in Nat : k <= Len(ms) => f[k] = g[k] /\ f[k] \in S}
<1>1. IsRun(g, D, S, b, ms)
  BY RunExists
<1>2. Len(ms) \in Nat
  BY LenProperties
<1> HIDE DEF g
<1>3. 0 \in T
  BY <1>1 DEF IsRun, Steps
<1>4. ASSUME NEW k \in Nat, k \in T
      PROVE  k + 1 \in T
  <2>1. CASE k + 1 <= Len(ms)
    <3>1. k + 1 \in 1 .. Len(ms) /\ (k + 1) - 1 = k /\ f[k] = g[k] /\ f[k] \in S
      BY <1>2, <1>4, <2>1
    <3>2. f[k+1] = D[<<f[k], ms[k+1]>>] /\ g[k+1] = D[<<g[k], ms[k+1]>>]
      BY <1>1, <3>1 DEF IsRun, Steps
    <3>3. g[k+1] \in S
      BY <1>1, <3>1 DEF IsRun
    <3>4. QED
      BY <3>1, <3>2, <3>3
  <2>2. QED
    BY <2>1
<1> HIDE DEF T
<1>5. Nat \subseteq T
  BY <1>3, <1>4, NatInduct
<1>6. QED
  BY <1>2, <1>5 DEF T, g, Folded

(* The fold over no elements is where it began.                             *)
LEMMA FoldedEmpty ==
  ASSUME NEW S, NEW M, NEW b \in S, NEW D \in [S \X M -> S]
  PROVE  Folded(D, S, b, <<>>) = b
<1>1. <<>> \in Seq(M) /\ Len(<<>>) = 0
  BY EmptySeq
<1>2. \E f : IsRun(f, D, S, b, <<>>)
  BY <1>1, RunExists
<1>3. QED
  BY <1>1, <1>2 DEF Folded, IsRun

(* It stays in the set of its states.                                       *)
LEMMA FoldedType ==
  ASSUME NEW S, NEW M, NEW b \in S, NEW D \in [S \X M -> S], NEW ms \in Seq(M)
  PROVE  Folded(D, S, b, ms) \in S
<1>1. PICK g : IsRun(g, D, S, b, ms) /\ Folded(D, S, b, ms) = g[Len(ms)]
  BY RunExists DEF Folded
<1>2. Len(ms) \in Nat
  BY LenProperties
<1>3. QED
  BY <1>1, <1>2 DEF IsRun

FoldStep(D, S, b, ms, m) ==
  Folded(D, S, b, Append(ms, m)) = D[<<Folded(D, S, b, ms), m>>]

(* One more element is one more step of D.                                  *)
LEMMA FoldedAppend ==
  ASSUME NEW S, NEW M, NEW b \in S, NEW D \in [S \X M -> S], NEW ms \in Seq(M), NEW m \in M
  PROVE  FoldStep(D, S, b, ms, m)
<1> DEFINE n == Len(ms) + 1
<1>1. /\ Append(ms, m) \in Seq(M) /\ Len(Append(ms, m)) = n /\ Len(ms) \in Nat
      /\ \A k \in 1 .. Len(ms) : Append(ms, m)[k] = ms[k]
      /\ Append(ms, m)[n] = m
  BY AppendProperties, LenProperties
<1>2. PICK g : /\ IsRun(g, D, S, b, Append(ms, m))
               /\ Folded(D, S, b, Append(ms, m)) = g[Len(Append(ms, m))]
  BY <1>1, RunExists DEF Folded
<1>4. Steps(g, D, S, b, ms)
  BY <1>1, <1>2 DEF IsRun, Steps
<1>5. g[Len(ms)] = Folded(D, S, b, ms) /\ g[Len(ms)] \in S
  BY <1>4, FoldedIsUnique
<1>6. g[n] = D[<<g[n-1], Append(ms, m)[n]>>] /\ n - 1 = Len(ms)
  BY <1>1, <1>2 DEF IsRun
<1>7. QED
  BY <1>1, <1>2, <1>5, <1>6 DEF FoldStep

(* The largest of finitely many numbers. *)
LEMMA MaxOf ==
  ASSUME NEW n \in Nat, NEW s \in SUBSET (1 .. n), s # {}
  PROVE  Max(s) \in s /\ \A y \in s : Max(s) >= y
<1> DEFINE T == {n - x : x \in s}
<1>1. T # {} /\ T \subseteq Nat
  <2>1. \A x \in s : n - x \in Nat
    OBVIOUS
  <2>2. QED
    BY <2>1
<1>2. PICK m \in T : \A k \in T : <<k, m>> \notin OpToRel(<, Nat)
  BY <1>1, WFMin, NatLessThanWellFounded, Zenon
<1>3. \A k \in T : ~(k < m)
  BY <1>1, <1>2, Zenon DEF OpToRel
<1>4. n - m \in s /\ \A y \in s : n - m >= y
  BY <1>3
<1>5. \E x \in s : \A y \in s : x >= y
  BY <1>4
<1>6. QED
  BY <1>5 DEF Max

(* The smallest of some numbers. *)
LEMMA MinOf ==
  ASSUME NEW s \in SUBSET Nat, s # {}
  PROVE  Min(s) \in s /\ \A y \in s : Min(s) <= y
<1>1. PICK m \in s : \A k \in s : <<k, m>> \notin OpToRel(<, Nat)
  BY WFMin, NatLessThanWellFounded, Zenon
<1>2. \A k \in s : ~(k < m)
  BY <1>1, Zenon DEF OpToRel
<1>3. \A y \in s : m <= y
  BY <1>2
<1>4. QED
  BY <1>3 DEF Min

(* The last number of an interval that is in the set is its maximum.        *)
LEMMA MaxIs ==
  ASSUME NEW n \in Nat, NEW s \in SUBSET (1 .. n), n \in s
  PROVE  Max(s) = n
<1>1. Max(s) \in 1 .. n /\ Max(s) >= n
  BY MaxOf
<1>2. QED
  BY <1>1

(* What FoldLeft chooses, and what it folds. *)
IsIter(it, D, b, ms) ==
  \A s \in SUBSET DOMAIN ms :
    it[s] = IF s = {} THEN b ELSE D[<<it[s \ {Max(s)}], ms[Max(s)]>>]

(* What FoldLeft chooses exists: by induction, as one more element adds     *)
(* the subsets that contain its index.                                      *)
LEMMA IterExists ==
  ASSUME NEW S, NEW M, NEW b \in S, NEW D \in [S \X M -> S], NEW ms \in Seq(M)
  PROVE  \E it \in [SUBSET DOMAIN ms -> S] : IsIter(it, D, b, ms)
<1> DEFINE T == {q \in Seq(M) : \E it \in [SUBSET DOMAIN q -> S] : IsIter(it, D, b, q)}
<1>1. <<>> \in T
  <2>1. DOMAIN <<>> = {} /\ <<>> \in Seq(M)
    BY EmptySeq
  <2>2. [s \in SUBSET {} |-> b] \in [SUBSET {} -> S]
    OBVIOUS
  <2>3. IsIter([s \in SUBSET {} |-> b], D, b, <<>>)
    BY <2>1 DEF IsIter
  <2>4. QED
    BY <2>1, <2>2, <2>3
<1>2. ASSUME NEW q \in Seq(M), q \in T, NEW m \in M
      PROVE  Append(q, m) \in T
  <2> DEFINE n == Len(q) + 1
             p == Append(q, m)
  <2>1. PICK it \in [SUBSET DOMAIN q -> S] : IsIter(it, D, b, q)
    BY <1>2
  <2> DEFINE jt == [s \in SUBSET (1 .. n) |->
                      IF n \in s THEN D[<<it[s \ {n}], m>>] ELSE it[s]]
  <2>2. /\ p \in Seq(M) /\ DOMAIN p = 1 .. n /\ Len(q) \in Nat /\ DOMAIN q = 1 .. Len(q)
        /\ \A k \in 1 .. Len(q) : p[k] = q[k]
        /\ p[n] = m
    BY AppendProperties, LenProperties
  <2> HIDE DEF p
  <2>3. \A s \in SUBSET (1 .. n) :
          /\ s \ {n} \in SUBSET DOMAIN q
          /\ n \notin s => s \in SUBSET DOMAIN q
    <3>1. \A k \in 1 .. n : k = n \/ k \in DOMAIN q
      BY <2>2
    <3>2. QED
      BY <3>1
  <2>4. jt \in [SUBSET (1 .. n) -> S]
    BY <2>1, <2>3
  <2>5. ASSUME NEW s \in SUBSET (1 .. n)
        PROVE  jt[s] = IF s = {} THEN b ELSE D[<<jt[s \ {Max(s)}], p[Max(s)]>>]
    <3>1. CASE n \in s
      <4>1. Max(s) = n
        BY <2>2, <3>1, MaxIs
      <4>2. jt[s] = D[<<it[s \ {n}], m>>] /\ jt[s \ {n}] = it[s \ {n}]
        BY <3>1
      <4>3. QED
        BY <2>2, <3>1, <4>1, <4>2
    <3>2. CASE n \notin s
      <4>1. s \in SUBSET (1 .. Len(q)) /\ jt[s] = it[s]
        BY <2>2, <2>3, <3>2
      <4>2. CASE s # {}
        <5>1. Max(s) \in s /\ Max(s) \in 1 .. Len(q)
          BY <2>2, <4>1, <4>2, MaxOf
        <5>2. jt[s \ {Max(s)}] = it[s \ {Max(s)}] /\ p[Max(s)] = q[Max(s)]
          BY <2>2, <3>2, <5>1
        <5>3. it[s] = D[<<it[s \ {Max(s)}], q[Max(s)]>>]
          BY <2>1, <2>2, <4>1, <4>2 DEF IsIter
        <5>4. QED
          BY <4>1, <4>2, <5>2, <5>3
      <4>3. CASE s = {}
        <5>1. it[s] = b
          BY <2>1, <2>2, <4>1, <4>3 DEF IsIter
        <5>2. QED
          BY <4>1, <4>3, <5>1
      <4>4. QED
        BY <4>2, <4>3
    <3>3. QED
      BY <3>1, <3>2
  <2> HIDE DEF jt
  <2>6. IsIter(jt, D, b, p)
    BY <2>2, <2>5 DEF IsIter
  <2>7. QED
    BY <2>2, <2>4, <2>6 DEF p
<1> HIDE DEF T
<1>3. Seq(M) \subseteq T
  BY <1>1, <1>2, SeqInduct
<1>4. QED
  BY <1>3 DEF T

(* The same without a type. *)
IterSteps(it, D, S, b, ms) ==
  /\ it[{}] = b
  /\ \A s \in SUBSET DOMAIN ms :
       s # {} /\ it[s \ {Max(s)}] \in S => it[s] = D[<<it[s \ {Max(s)}], ms[Max(s)]>>]

(* Whatever satisfies that equation has the fold at the set of all          *)
(* indices.                                                                 *)
LEMMA IterFolds ==
  ASSUME NEW S, NEW M, NEW b \in S, NEW D \in [S \X M -> S], NEW ms \in Seq(M),
         NEW it, IterSteps(it, D, S, b, ms)
  PROVE  it[DOMAIN ms] = Folded(D, S, b, ms) /\ it[DOMAIN ms] \in S
<1>0. PICK f : f = [k \in 0 .. Len(ms) |-> it[1 .. k]]
  OBVIOUS
<1>1. DOMAIN ms = 1 .. Len(ms) /\ Len(ms) \in Nat
  BY LenProperties
<1>2. f[0] = b /\ f[Len(ms)] = it[DOMAIN ms]
  <2>1. 1 .. 0 = {}
    OBVIOUS
  <2>2. QED
    BY <1>0, <1>1, <2>1 DEF IterSteps
<1>3. ASSUME NEW k \in 1 .. Len(ms), f[k-1] \in S
      PROVE  f[k] = D[<<f[k-1], ms[k]>>]
  <2>1. Max(1 .. k) = k
    BY <1>1, MaxIs
  <2>2. (1 .. k) \ {k} = 1 .. (k-1) /\ 1 .. k # {} /\ 1 .. k \in SUBSET DOMAIN ms
    <3>1. \A x : x \in (1 .. k) \ {k} <=> x \in 1 .. (k-1)
      BY <1>1
    <3>2. k \in 1 .. k /\ \A x \in 1 .. k : x \in 1 .. Len(ms)
      BY <1>1
    <3>3. QED
      BY <1>1, <3>1, <3>2
  <2>3. f[k] = it[1 .. k] /\ f[k-1] = it[1 .. (k-1)]
    BY <1>0, <1>1
  <2>4. QED
    BY <1>3, <2>1, <2>2, <2>3 DEF IterSteps
<1>4. Steps(f, D, S, b, ms)
  BY <1>2, <1>3 DEF Steps
<1>5. f[Len(ms)] = Folded(D, S, b, ms) /\ f[Len(ms)] \in S
  BY <1>4, FoldedIsUnique
<1>6. QED
  BY <1>2, <1>5

(* A function on 1 .. n is a sequence of n elements.                        *)
LEMMA FunctionIsSeq ==
  ASSUME NEW n \in Nat, NEW S, NEW s \in [1 .. n -> S]
  PROVE  s \in Seq(S) /\ Len(s) = n
<1>1. s \in Seq(S)
  BY SeqDef
<1>2. QED
  BY <1>1, LenProperties

(* FlattenSeq: a fold that concatenates. *)
LEMMA FlattenFold ==
  ASSUME NEW X, NEW ss \in Seq(Seq(X))
  PROVE  /\ FlattenSeq(ss) = Folded([x \in Seq(X) \X Seq(X) |-> x[1] \o x[2]], Seq(X), <<>>, ss)
         /\ FlattenSeq(ss) \in Seq(X)
<1>0. PICK D : D = [x \in Seq(X) \X Seq(X) |-> x[1] \o x[2]]
  OBVIOUS
<1>1. D \in [Seq(X) \X Seq(X) -> Seq(X)] /\ <<>> \in Seq(X)
  BY <1>0, ConcatProperties, EmptySeq
<1>2. \A s, t \in Seq(X) : D[<<s, t>>] = s \o t
  BY <1>0
<1>3. Len(ss) \in Nat /\ \A k \in 1 .. Len(ss) : ss[k] \in Seq(X)
  BY LenProperties, ElementOfSeq
<1> DEFINE IsFlat(f) == f = [i \in 1 .. Len(ss) |->
                               IF i = 1 THEN ss[i] ELSE f[i-1] \o ss[i]]
<1>4. \E f : IsFlat(f)
  <2>1. PICK g : IsRun(g, D, Seq(X), <<>>, ss)
    BY <1>1, RunExists
  <2>2. PICK f : f = [i \in 1 .. Len(ss) |-> g[i]]
    OBVIOUS
  <2>3. ASSUME NEW i \in 1 .. Len(ss)
        PROVE  f[i] = IF i = 1 THEN ss[i] ELSE f[i-1] \o ss[i]
    <3>1. i - 1 \in 0 .. Len(ss) /\ (i # 1 => i - 1 \in 1 .. Len(ss))
      BY <1>3
    <3>2. g[i-1] \in Seq(X) /\ g[i] = D[<<g[i-1], ss[i]>>]
      BY <2>1, <3>1 DEF IsRun
    <3>3. f[i] = g[i-1] \o ss[i]
      BY <1>2, <1>3, <2>2, <3>2
    <3>4. CASE i = 1
      <4>1. g[0] = <<>>
        BY <2>1 DEF IsRun
      <4>2. <<>> \o ss[i] = ss[i]
        BY <1>3, ConcatEmptySeq
      <4>3. i - 1 = 0 /\ g[i-1] = <<>>
        BY <3>4, <4>1
      <4>4. f[i] = ss[i]
        BY <3>3, <4>2, <4>3
      <4>5. QED
        BY <3>4, <4>4
    <3>5. CASE i # 1
      BY <2>2, <3>1, <3>3, <3>5
    <3>6. QED
      BY <3>4, <3>5
  <2>4. IsFlat(f)
    BY <2>2, <2>3
  <2> HIDE DEF IsFlat
  <2>5. QED
    BY <2>4
<1>5. CASE Len(ss) = 0
  <2>1. ss = <<>>
    BY <1>5, EmptySeq
  <2>2. FlattenSeq(ss) = <<>>
    BY <1>5, <2>1 DEF FlattenSeq
  <2>3. QED
    BY <1>0, <1>1, <2>1, <2>2, FoldedEmpty
<1>6. CASE Len(ss) # 0
  <2>1. PICK f : IsFlat(f) /\ FlattenSeq(ss) = f[Len(ss)]
    BY <1>4, <1>6 DEF FlattenSeq
  <2>2. PICK g : g = [i \in 0 .. Len(ss) |-> IF i = 0 THEN <<>> ELSE f[i]]
    OBVIOUS
  <2>3. ASSUME NEW k \in 1 .. Len(ss), g[k-1] \in Seq(X)
        PROVE  g[k] = D[<<g[k-1], ss[k]>>]
    <3>1. g[k] = f[k] /\ (k # 1 => g[k-1] = f[k-1]) /\ (k = 1 => g[k-1] = <<>>)
      BY <1>3, <2>2
    <3>2. f[k] = IF k = 1 THEN ss[k] ELSE f[k-1] \o ss[k]
      BY <2>1
    <3>3. CASE k = 1
      BY <1>1, <1>2, <1>3, <3>1, <3>2, <3>3, ConcatEmptySeq
    <3>4. CASE k # 1
      BY <1>2, <1>3, <2>3, <3>1, <3>2, <3>4
    <3>5. QED
      BY <3>3, <3>4
  <2>4. g[0] = <<>> /\ g[Len(ss)] = f[Len(ss)]
    BY <1>3, <1>6, <2>2
  <2>5. Steps(g, D, Seq(X), <<>>, ss)
    BY <2>3, <2>4 DEF Steps
  <2>6. g[Len(ss)] = Folded(D, Seq(X), <<>>, ss) /\ g[Len(ss)] \in Seq(X)
    BY <1>1, <2>5, FoldedIsUnique
  <2>7. QED
    BY <1>0, <2>1, <2>4, <2>6
<1>7. QED
  BY <1>5, <1>6

Associates(r, s, t) == r \o (s \o t) = (r \o s) \o t

(* Concatenation is associative.                                            *)
LEMMA ConcatAssociates ==
  ASSUME NEW X, NEW r \in Seq(X), NEW s \in Seq(X), NEW t \in Seq(X)
  PROVE  Associates(r, s, t)
BY ConcatAssociative DEF Associates

(* Every element of a sequence replaced by a value. *)
SeqMap(h, l) == [k \in DOMAIN l |-> h[l[k]]]

(* The values are elements of the new sequence.                             *)
LEMMA SeqMapType ==
  ASSUME NEW A, NEW B, NEW h \in [A -> B], NEW l \in Seq(A)
  PROVE  SeqMap(h, l) \in Seq(B)
<1>1. Len(l) \in Nat /\ DOMAIN l = 1 .. Len(l) /\ \A k \in 1 .. Len(l) : l[k] \in A
  BY LenProperties, ElementOfSeq
<1>2. SeqMap(h, l) \in [1 .. Len(l) -> B]
  BY <1>1 DEF SeqMap
<1>3. QED
  BY <1>1, <1>2, FunctionIsSeq

(* It is as long as the old one.                                            *)
LEMMA SeqMapLen ==
  ASSUME NEW A, NEW h, NEW l \in Seq(A)
  PROVE  Len(SeqMap(h, l)) = Len(l)
<1>1. Len(l) \in Nat /\ DOMAIN l = 1 .. Len(l)
  BY LenProperties
<1>2. PICK B : B = {h[x] : x \in A}
  OBVIOUS
<1>3. \A k \in 1 .. Len(l) : h[l[k]] \in B
  BY <1>2, ElementOfSeq
<1>4. SeqMap(h, l) \in [1 .. Len(l) -> B]
  BY <1>1, <1>3 DEF SeqMap
<1>5. QED
  BY <1>1, <1>4, FunctionIsSeq

(* Nothing becomes nothing.                                                 *)
LEMMA SeqMapEmpty ==
  ASSUME NEW h
  PROVE  SeqMap(h, <<>>) = <<>>
BY DEF SeqMap

(* One more element gives one more value.                                   *)
LEMMA SeqMapAppend ==
  ASSUME NEW A, NEW B, NEW h \in [A -> B], NEW l \in Seq(A), NEW a \in A,
         NEW p, p = Append(l, a)
  PROVE  SeqMap(h, p) = SeqMap(h, l) \o <<h[a]>>
<1>1. Len(l) \in Nat /\ DOMAIN l = 1 .. Len(l)
  BY LenProperties
<1>2. /\ p \in Seq(A) /\ Len(p) = Len(l) + 1
      /\ \A k \in 1 .. Len(l) : p[k] = l[k]
      /\ p[Len(l) + 1] = a
  BY AppendProperties
<1>3. DOMAIN p = 1 .. (Len(l) + 1)
  BY <1>2, LenProperties
<1>4. /\ SeqMap(h, l) \in Seq(B) /\ Len(SeqMap(h, l)) = Len(l)
      /\ SeqMap(h, p) \in Seq(B) /\ Len(SeqMap(h, p)) = Len(l) + 1
  <2>1. SeqMap(h, l) \in Seq(B) /\ SeqMap(h, p) \in Seq(B)
    BY <1>2, SeqMapType
  <2>2. Len(SeqMap(h, l)) = Len(l) /\ Len(SeqMap(h, p)) = Len(p)
    BY <1>2, SeqMapLen
  <2>3. QED
    BY <1>2, <2>1, <2>2
<1>5. h[a] \in B
  OBVIOUS
<1>6. PICK q : q = Append(SeqMap(h, l), h[a])
  OBVIOUS
<1>7. /\ q \in Seq(B) /\ Len(q) = Len(l) + 1
      /\ \A k \in 1 .. Len(l) : q[k] = SeqMap(h, l)[k]
      /\ q[Len(l) + 1] = h[a]
  BY <1>4, <1>5, <1>6, AppendProperties
<1>8. ASSUME NEW k \in 1 .. (Len(l) + 1)
      PROVE  SeqMap(h, p)[k] = q[k]
  <2>1. SeqMap(h, p)[k] = h[p[k]]
    BY <1>3 DEF SeqMap
  <2>2. CASE k \in 1 .. Len(l)
    <3>1. SeqMap(h, l)[k] = h[l[k]]
      BY <1>1, <2>2 DEF SeqMap
    <3>2. QED
      BY <1>2, <1>7, <2>1, <2>2, <3>1
  <2>3. CASE k = Len(l) + 1
    BY <1>2, <1>7, <2>1, <2>3
  <2>4. k \in 1 .. Len(l) \/ k = Len(l) + 1
    BY <1>1
  <2>5. QED
    BY <2>2, <2>3, <2>4
<1>9. SeqMap(h, p) = q
  BY <1>4, <1>7, <1>8, SeqEqual
<1>10. PICK s \in Seq(B), b \in B : s = SeqMap(h, l) /\ b = h[a]
  BY <1>4, <1>5
<1>11. Append(s, b) = s \o <<b>>
  BY AppendIsConcat
<1>12. QED
  BY <1>6, <1>9, <1>10, <1>11

(* The same behind a first element. *)
Row(e, h, l) == <<e>> \o SeqMap(h, l)

(* A row is a sequence,                                                     *)
LEMMA RowType ==
  ASSUME NEW A, NEW B, NEW e \in B, NEW h \in [A -> B], NEW l \in Seq(A)
  PROVE  Row(e, h, l) \in Seq(B)
BY SeqMapType, ConcatProperties DEF Row

(* of one element if the sequence behind it is empty,                       *)
LEMMA RowEmpty ==
  ASSUME NEW B, NEW e \in B, NEW h
  PROVE  Row(e, h, <<>>) = <<e>>
<1>1. <<e>> \in Seq(B)
  OBVIOUS
<1>2. QED
  BY <1>1, SeqMapEmpty, ConcatEmptySeq DEF Row

RowStep(e, h, l, a) == Row(e, h, Append(l, a)) = Row(e, h, l) \o <<h[a]>>

(* and one more element of that one makes it longer by its value.           *)
LEMMA RowAppend ==
  ASSUME NEW A, NEW B, NEW e \in B, NEW h \in [A -> B], NEW l \in Seq(A), NEW a \in A
  PROVE  RowStep(e, h, l, a)
<1>0. PICK p : p = Append(l, a)
  OBVIOUS
<1>1. PICK r \in Seq(B), t \in Seq(B) : r = <<e>> /\ t = <<h[a]>>
  <2>1. PICK b \in B : b = h[a]
    OBVIOUS
  <2>2. <<e>> \in Seq(B) /\ <<b>> \in Seq(B)
    OBVIOUS
  <2>3. QED
    BY <2>1, <2>2
<1>2. SeqMap(h, l) \in Seq(B)
  BY SeqMapType
<1>3. SeqMap(h, p) = SeqMap(h, l) \o t
  BY <1>0, <1>1, SeqMapAppend
<1>4. Associates(r, SeqMap(h, l), t)
  BY <1>2, ConcatAssociates
<1>5. QED
  BY <1>0, <1>1, <1>3, <1>4 DEF Row, RowStep, Associates

(* Every element of a sequence replaced by a sequence. *)
FlatMap(g, l) == FlattenSeq(SeqMap(g, l))

(* The sequences are joined to one of the same kind.                        *)
LEMMA FlatMapType ==
  ASSUME NEW A, NEW X, NEW g \in [A -> Seq(X)], NEW l \in Seq(A)
  PROVE  FlatMap(g, l) \in Seq(X)
BY SeqMapType, FlattenFold DEF FlatMap

(* Nothing is joined to nothing.                                            *)
LEMMA FlatMapEmpty ==
  ASSUME NEW g
  PROVE  FlatMap(g, <<>>) = <<>>
BY SeqMapEmpty, EmptySeq DEF FlatMap, FlattenSeq

(* One more element appends its sequence.                                   *)
LEMMA FlatMapAppend ==
  ASSUME NEW A, NEW X, NEW g \in [A -> Seq(X)], NEW l \in Seq(A), NEW a \in A,
         NEW p, p = Append(l, a)
  PROVE  FlatMap(g, p) = FlatMap(g, l) \o g[a]
<1>1. PICK ss : ss = SeqMap(g, l)
  OBVIOUS
<1>2. PICK tt : tt = SeqMap(g, p)
  OBVIOUS
<1>3. g[a] \in Seq(X)
  OBVIOUS
<1>4. ss \in Seq(Seq(X)) /\ tt = Append(ss, g[a])
  <2>1. ss \in Seq(Seq(X))
    BY <1>1, SeqMapType
  <2>2. tt = ss \o <<g[a]>>
    BY <1>1, <1>2, SeqMapAppend
  <2>3. PICK b \in Seq(X) : b = g[a]
    BY <1>3
  <2>4. Append(ss, b) = ss \o <<b>>
    BY <2>1, AppendIsConcat
  <2>5. QED
    BY <2>1, <2>2, <2>3, <2>4
<1>5. PICK D : D = [x \in Seq(X) \X Seq(X) |-> x[1] \o x[2]]
  OBVIOUS
<1>6. D \in [Seq(X) \X Seq(X) -> Seq(X)] /\ <<>> \in Seq(X)
  BY <1>5, ConcatProperties, EmptySeq
<1>7. FlattenSeq(ss) = Folded(D, Seq(X), <<>>, ss) /\ FlattenSeq(ss) \in Seq(X)
  BY <1>4, <1>5, FlattenFold
<1>8. tt \in Seq(Seq(X))
  BY <1>3, <1>4, AppendProperties
<1>9. FlattenSeq(tt) = Folded(D, Seq(X), <<>>, tt)
  BY <1>5, <1>8, FlattenFold
<1>10. FoldStep(D, Seq(X), <<>>, ss, g[a])
  BY <1>3, <1>4, <1>6, FoldedAppend
<1>11. FlattenSeq(tt) = FlattenSeq(ss) \o g[a]
  BY <1>3, <1>4, <1>5, <1>7, <1>9, <1>10 DEF FoldStep
<1>12. QED
  BY <1>1, <1>2, <1>11 DEF FlatMap
====
