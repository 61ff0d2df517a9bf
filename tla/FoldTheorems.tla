----------------------------- MODULE FoldTheorems -----------------------------
(***************************************************************************)
(* Facts about folding a sequence from the left with an operator Op, for   *)
(* the proofs about models that are built with FoldLeft.                   *)
(***************************************************************************)
EXTENDS Integers, SequencesExt, WellFoundedInduction, SequenceTheorems, TLAPS

CONSTANT Op(_, _)

Fold(base, seq) == FoldLeft(Op, base, seq)

(* Every set of natural numbers that has an element has a least one. *)
LEMMA LeastNatural ==
  ASSUME NEW T \in SUBSET Nat, T # {}
  PROVE  \E m \in T : \A n \in T : m <= n
<1> DEFINE R == OpToRel(<, Nat)
<1>1. IsWellFoundedOn(R, Nat)
  BY NatLessThanWellFounded
<1>2. R = {p \in Nat \X Nat : p[1] < p[2]}
  BY DEF OpToRel
<1> HIDE DEF R
<1>3. PICK x \in T : \A y \in T : ~ (<<y, x>> \in R)
  BY <1>1, WFMin
<1>4. ASSUME NEW n \in T PROVE x <= n
  <2>1. <<n, x>> \notin R /\ n \in Nat /\ x \in Nat
    BY <1>3
  <2>2. ~ (n < x)
    BY <1>2, <2>1
  <2>3. QED
    BY <2>1, <2>2
<1>5. QED
  BY <1>4

(* Induction over a set of natural numbers. *)
LEMMA InductionOnSet ==
  ASSUME NEW T, 0 \in T, \A n \in Nat : n \in T => n + 1 \in T
  PROVE  Nat \subseteq T
<1> DEFINE U == {n \in Nat : n \notin T}
<1>1. SUFFICES ASSUME U # {} PROVE FALSE
  OBVIOUS
<1>2. PICK m \in U : \A n \in U : m <= n
  BY <1>1, LeastNatural
<1>3. m # 0 /\ m \in Nat
  OBVIOUS
<1>4. m - 1 \in Nat /\ m - 1 \notin U
  BY <1>2, <1>3
<1>5. QED
  BY <1>3, <1>4

(* Induction over the sequences of a set, by what is appended. *)
LEMMA InductionOnSequences ==
  ASSUME NEW S, NEW T, <<>> \in T,
         \A s \in Seq(S), e \in S : s \in T => Append(s, e) \in T
  PROVE  Seq(S) \subseteq T
<1> DEFINE U == {n \in Nat : \A s \in Seq(S) : Len(s) = n => s \in T}
<1>1. 0 \in U
  <2>1. ASSUME NEW s \in Seq(S), Len(s) = 0 PROVE s = <<>>
    BY <2>1, EmptySeq
  <2>2. QED
    BY <2>1
<1>2. ASSUME NEW n \in Nat, n \in U PROVE n + 1 \in U
  <2>1. ASSUME NEW s \in Seq(S), Len(s) = n + 1 PROVE s \in T
    <3>1. s # <<>>
      BY <2>1
    <3>2. PICK r \in Seq(S), e \in S : s = Append(r, e)
      BY <3>1, SequenceEmptyOrAppend
    <3>3. Len(r) \in Nat /\ Len(s) = Len(r) + 1
      BY <3>2
    <3>4. Len(r) = n
      BY <2>1, <3>3
    <3>5. r \in T
      BY <1>2, <3>4
    <3>6. QED
      BY <3>2, <3>5
  <2>2. QED
    BY <2>1
<1> HIDE DEF U
<1>3. Nat \subseteq U
  BY <1>1, <1>2, InductionOnSet
<1>4. QED
  <2>1. ASSUME NEW s \in Seq(S) PROVE s \in T
    <3>1. Len(s) \in U
      BY <1>3, LenProperties
    <3>2. QED
      BY <3>1 DEF U
  <2>2. QED
    BY <2>1

-----------------------------------------------------------------------------
(* The iteration by which FoldLeft is defined, over the sets of indices.   *)
Iterates(g, base, seq, D) ==
  g = [s \in SUBSET D |->
         IF s = {} THEN base ELSE Op(g[s \ {Max(s)}], seq[Max(s)])]

(* The greatest element of a set of indices that has the last one. *)
LEMMA MaxOfSegment ==
  ASSUME NEW k \in Nat, NEW s \in SUBSET (1 .. k + 1), k + 1 \in s
  PROVE  Max(s) = k + 1
<1>1. \A y \in s : k + 1 >= y
  OBVIOUS
<1>2. \A x \in s : (\A y \in s : x >= y) => x = k + 1
  <2>1. ASSUME NEW x \in s, \A y \in s : x >= y PROVE x = k + 1
    <3>1. x >= k + 1 /\ x \in Int /\ x <= k + 1
      BY <2>1
    <3>2. QED
      BY <3>1
  <2>2. QED
    BY <2>1
<1>3. QED
  BY <1>1, <1>2 DEF Max

(* That iteration exists: the definition of FoldLeft is not vacuous. *)
LEMMA IterationExists ==
  ASSUME NEW base, NEW seq, NEW n \in Nat
  PROVE  \E g : Iterates(g, base, seq, 1 .. n)
<1> DEFINE T == {k \in Nat : \E g : Iterates(g, base, seq, 1 .. k)}
<1>1. 0 \in T
  <2> DEFINE g == [s \in SUBSET (1 .. 0) |-> base]
  <2>1. \A s \in SUBSET (1 .. 0) : s = {}
    OBVIOUS
  <2>2. Iterates(g, base, seq, 1 .. 0)
    BY <2>1 DEF Iterates
  <2>3. QED
    BY <2>2
<1>2. ASSUME NEW k \in Nat, k \in T PROVE k + 1 \in T
  <2>1. PICK g : Iterates(g, base, seq, 1 .. k)
    BY <1>2
  <2> DEFINE val(s) == IF s = {} THEN base
                       ELSE IF k + 1 \in s
                       THEN Op(g[s \ {k + 1}], seq[k + 1]) ELSE g[s]
             h == [s \in SUBSET (1 .. k + 1) |-> val(s)]
  <2>2. ASSUME NEW s \in SUBSET (1 .. k + 1)
        PROVE  val(s) = IF s = {} THEN base
                        ELSE Op(h[s \ {Max(s)}], seq[Max(s)])
    <3>1. CASE s = {}
      BY <3>1
    <3>2. CASE k + 1 \in s
      <4>1. Max(s) = k + 1
        BY <3>2, MaxOfSegment
      <4>2. s \ {k + 1} \in SUBSET (1 .. k)
        OBVIOUS
      <4>3. h[s \ {k + 1}] = g[s \ {k + 1}]
        <5>1. s \ {k + 1} \in SUBSET (1 .. k + 1) /\ k + 1 \notin s \ {k + 1}
          OBVIOUS
        <5>2. s \ {k + 1} = {} => g[s \ {k + 1}] = base
          BY <2>1, <4>2 DEF Iterates
        <5>3. QED
          BY <5>1, <5>2
      <4>4. QED
        BY <3>2, <4>1, <4>3
    <3>3. CASE s # {} /\ k + 1 \notin s
      <4>1. s \in SUBSET (1 .. k)
        BY <3>3
      <4>2. g[s] = Op(g[s \ {Max(s)}], seq[Max(s)])
        BY <2>1, <3>3, <4>1 DEF Iterates
      <4>3. s \ {Max(s)} \in SUBSET (1 .. k + 1) /\ k + 1 \notin s \ {Max(s)}
        BY <3>3
      <4>4. s \ {Max(s)} = {} => g[s \ {Max(s)}] = base
        BY <2>1, <4>1 DEF Iterates
      <4>5. h[s \ {Max(s)}] = g[s \ {Max(s)}]
        BY <4>3, <4>4
      <4>6. QED
        BY <3>3, <4>2, <4>5
    <3>4. QED
      BY <3>1, <3>2, <3>3
  <2>3. h = [s \in SUBSET (1 .. k + 1) |->
               IF s = {} THEN base ELSE Op(h[s \ {Max(s)}], seq[Max(s)])]
    BY <2>2
  <2>4. Iterates(h, base, seq, 1 .. k + 1)
    BY <2>3 DEF Iterates
  <2>5. QED
    BY <2>4
<1>3. n \in T
  <2> HIDE DEF T
  <2>1. Nat \subseteq T
    BY <1>1, <1>2, InductionOnSet
  <2>2. QED
    BY <2>1
<1>4. QED
  BY <1>3

(* The values a fold takes on the prefixes of a sequence. *)
Values(v, base, seq) ==
  /\ v[0] = base
  /\ \A k \in 1 .. Len(seq) : v[k] = Op(v[k - 1], seq[k])

(* A fold takes its values one after the other, along the sequence. *)
LEMMA FoldHasValues ==
  ASSUME NEW base, NEW S, NEW seq \in Seq(S)
  PROVE  \E v : Values(v, base, seq) /\ Fold(base, seq) = v[Len(seq)]
<1> DEFINE n == Len(seq)
           g == CHOOSE g : Iterates(g, base, seq, 1 .. n)
           v == [k \in 0 .. n |-> g[1 .. k]]
<1>1. n \in Nat /\ DOMAIN seq = 1 .. n
  BY LenProperties
<1>2. Iterates(g, base, seq, 1 .. n)
  BY <1>1, IterationExists
<1>3. Fold(base, seq) = g[1 .. n]
  BY <1>1 DEF Fold, FoldLeft, MapThenFoldSet, Iterates
<1> HIDE DEF g, n
<1>4. v[0] = base
  BY <1>1, <1>2 DEF Iterates
<1>5. ASSUME NEW k \in 1 .. n PROVE v[k] = Op(v[k - 1], seq[k])
  <2>1. k - 1 \in Nat /\ 1 .. k \in SUBSET (1 .. (k - 1) + 1) /\ (k - 1) + 1 \in 1 .. k
    BY <1>1
  <2>2. Max(1 .. k) = (k - 1) + 1
    BY <2>1, MaxOfSegment
  <2>3. (1 .. k) \ {k} = 1 .. (k - 1) /\ 1 .. k # {} /\ 1 .. k \in SUBSET (1 .. n)
    BY <1>1
  <2>4. (k - 1) + 1 = k
    BY <1>1
  <2>5. g[1 .. k] = Op(g[1 .. (k - 1)], seq[k])
    BY <1>2, <2>2, <2>3, <2>4 DEF Iterates
  <2>6. QED
    BY <1>1, <2>5
<1>6. v[n] = g[1 .. n]
  BY <1>1
<1>7. QED
  BY <1>3, <1>4, <1>5, <1>6 DEF Values, n

(* Two runs of the fold over one sequence agree. *)
LEMMA SameValues ==
  ASSUME NEW v, NEW w, NEW base, NEW seq, Len(seq) \in Nat,
         Values(v, base, seq), Values(w, base, seq)
  PROVE  v[Len(seq)] = w[Len(seq)]
<1> DEFINE n == Len(seq)
           T == {k \in Nat : k <= n => v[k] = w[k]}
<1>1. 0 \in T
  BY DEF Values
<1>2. ASSUME NEW k \in Nat, k \in T PROVE k + 1 \in T
  <2>1. CASE k + 1 <= n
    <3>1. k + 1 \in 1 .. n /\ (k + 1) - 1 = k /\ v[k] = w[k]
      BY <1>2, <2>1
    <3>2. v[k + 1] = Op(v[k], seq[k + 1]) /\ w[k + 1] = Op(w[k], seq[k + 1])
      BY <3>1 DEF Values
    <3>3. QED
      BY <3>1, <3>2
  <2>2. QED
    BY <2>1
<1> HIDE DEF T
<1>3. Nat \subseteq T
  BY <1>1, <1>2, InductionOnSet
<1>4. QED
  BY <1>3 DEF T

(* Whatever takes those values ends with that of the fold. *)
LEMMA FoldIsLastValue ==
  ASSUME NEW base, NEW S, NEW seq \in Seq(S), NEW v, Values(v, base, seq)
  PROVE  Fold(base, seq) = v[Len(seq)]
<1>1. PICK w : Values(w, base, seq) /\ Fold(base, seq) = w[Len(seq)]
  BY FoldHasValues
<1>2. Len(seq) \in Nat
  BY LenProperties
<1>3. v[Len(seq)] = w[Len(seq)]
  BY <1>1, <1>2, SameValues
<1>4. QED
  BY <1>1, <1>3

(* Nothing to fold leaves the base. *)
THEOREM FoldOfEmpty ==
  ASSUME NEW base
  PROVE  Fold(base, <<>>) = base
<1>1. <<>> \in Seq({}) /\ Len(<<>>) = 0
  OBVIOUS
<1>2. PICK w : Values(w, base, <<>>) /\ Fold(base, <<>>) = w[Len(<<>>)]
  BY <1>1, FoldHasValues
<1>3. QED
  BY <1>1, <1>2 DEF Values

(* An element behind a sequence is folded last. *)
THEOREM FoldOfAppend ==
  ASSUME NEW base, NEW S, NEW seq \in Seq(S), NEW e \in S
  PROVE  Fold(base, Append(seq, e)) = Op(Fold(base, seq), e)
<1> DEFINE a == Append(seq, e)
           n == Len(seq)
<1>1. /\ a \in Seq(S) /\ Len(a) = n + 1 /\ a[n + 1] = e
      /\ \A i \in 1 .. n : a[i] = seq[i]
  BY AppendProperties
<1>2. n \in Nat
  BY LenProperties
<1>3. PICK v : Values(v, base, a) /\ Fold(base, a) = v[Len(a)]
  BY <1>1, FoldHasValues
<1> HIDE DEF a
<1>4. Values(v, base, seq)
  BY <1>1, <1>2, <1>3 DEF Values
<1>5. Fold(base, seq) = v[n]
  BY <1>4, FoldIsLastValue
<1>6. n + 1 \in 1 .. Len(a) /\ (n + 1) - 1 = n
  BY <1>1, <1>2
<1> HIDE DEF n
<1>7. v[n + 1] = Op(v[n], e)
  BY <1>1, <1>3, <1>6 DEF Values
<1>8. QED
  BY <1>1, <1>3, <1>5, <1>7 DEF a

(* Two sequences are folded one after the other. *)
LEMMA FoldOfConcat ==
  ASSUME NEW base, NEW S, NEW s \in Seq(S), NEW t \in Seq(S)
  PROVE  Fold(base, s \o t) = Fold(Fold(base, s), t)
<1> DEFINE c == s \o t
           m == Len(s)
           n == Len(t)
<1>1. /\ c \in Seq(S) /\ Len(c) = m + n
      /\ \A i \in 1 .. m + n : c[i] = IF i <= m THEN s[i] ELSE t[i - m]
  BY ConcatProperties
<1>2. m \in Nat /\ n \in Nat
  BY LenProperties
<1>3. PICK v : Values(v, base, c) /\ Fold(base, c) = v[Len(c)]
  BY <1>1, FoldHasValues
<1> HIDE DEF c, m, n
<1>4. Values(v, base, s)
  <2>1. ASSUME NEW k \in 1 .. m PROVE v[k] = Op(v[k - 1], s[k])
    BY <1>1, <1>2, <1>3 DEF Values
  <2>2. QED
    BY <1>3, <2>1 DEF Values, m
<1>5. Fold(base, s) = v[m]
  BY <1>4, FoldIsLastValue DEF m
<1> DEFINE w == [k \in 0 .. n |-> v[m + k]]
<1>6. Values(w, v[m], t)
  <2>1. w[0] = v[m] /\ w[n] = v[m + n]
    BY <1>2
  <2>2. ASSUME NEW k \in 1 .. n PROVE w[k] = Op(w[k - 1], t[k])
    <3>1. /\ m + k \in 1 .. Len(c) /\ ~(m + k <= m) /\ (m + k) - m = k
          /\ (m + k) - 1 = m + (k - 1) /\ k \in 0 .. n /\ k - 1 \in 0 .. n
      BY <1>1, <1>2
    <3>2. c[m + k] = t[k]
      BY <1>1, <3>1
    <3>3. v[m + k] = Op(v[m + (k - 1)], t[k])
      BY <1>3, <3>1, <3>2 DEF Values
    <3>4. QED
      BY <3>1, <3>3
  <2>3. QED
    BY <2>1, <2>2 DEF Values, n
<1>7. Fold(v[m], t) = w[n]
  BY <1>6, FoldIsLastValue DEF n
<1>8. w[n] = v[m + n]
  BY <1>2
<1> HIDE DEF w
<1>9. QED
  BY <1>1, <1>3, <1>5, <1>7, <1>8 DEF c

(* One element is folded by one use of the operator. *)
THEOREM FoldOfOne ==
  ASSUME NEW base, NEW e
  PROVE  Fold(base, <<e>>) = Op(base, e)
<1>1. <<>> \in Seq({e}) /\ Append(<<>>, e) = <<e>>
  OBVIOUS
<1>2. Fold(base, Append(<<>>, e)) = Op(Fold(base, <<>>), e)
  BY <1>1, FoldOfAppend
<1>3. QED
  BY <1>1, <1>2, FoldOfEmpty

(* What every step keeps, the fold keeps. *)
THEOREM FoldStays ==
  ASSUME NEW T, NEW S, NEW base \in T, NEW seq \in Seq(S),
         \A a \in T, e \in S : Op(a, e) \in T
  PROVE  Fold(base, seq) \in T
<1> DEFINE n == Len(seq)
<1>1. n \in Nat /\ \A k \in 1 .. n : seq[k] \in S
  BY LenProperties, ElementOfSeq
<1>2. PICK v : Values(v, base, seq) /\ Fold(base, seq) = v[Len(seq)]
  BY FoldHasValues
<1> HIDE DEF n
<1> DEFINE U == {k \in Nat : k <= n => v[k] \in T}
<1>3. 0 \in U
  BY <1>2 DEF Values
<1>4. ASSUME NEW k \in Nat, k \in U PROVE k + 1 \in U
  <2>1. CASE k + 1 <= n
    <3>1. k + 1 \in 1 .. n /\ (k + 1) - 1 = k /\ v[k] \in T
      BY <1>1, <1>4, <2>1
    <3>2. v[k + 1] = Op(v[k], seq[k + 1])
      BY <1>2, <3>1 DEF Values, n
    <3>3. v[k + 1] \in T
      BY <1>1, <3>1, <3>2
    <3>4. QED
      BY <3>3
  <2>2. QED
    BY <1>1, <2>1
<1> HIDE DEF U
<1>5. Nat \subseteq U
  BY <1>3, <1>4, InductionOnSet
<1>6. QED
  BY <1>1, <1>2, <1>5 DEF U, n
===============================================================================
