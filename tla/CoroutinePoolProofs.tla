------------------------- MODULE CoroutinePoolProofs -------------------------
(***************************************************************************)
(* Proofs about the coroutine pool, for any number of contexts.            *)
(***************************************************************************)
EXTENDS CoroutinePool, FiniteSetTheorems, SequenceTheorems, WellFoundedInduction, TLAPS

(* The listening event is out of the loop exactly when start-up is over and *)
(* the counter is down to zero.                                            *)
StopMatchesCount ==
  /\ listener_event_stop <=> (created = Context /\ context_count = 0)
  /\ held # {} => created = Context

Inv == TypeOK /\ ListIntegrity /\ StopMatchesCount

(* A list without repetition is no longer than there are contexts.         *)
LEMMA ListBound ==
  ASSUME NEW n \in Nat, NEW s \in [1 .. n -> Context],
         \A i, j \in 1 .. n : s[i] = s[j] => i = j
  PROVE  n \in 0 .. Cardinality(Context)
<1>1. IsFiniteSet(Context) BY ContextAssumption
<1>2. s \in Injection(1 .. n, Context)
  BY DEF Injection, IsInjective
<1>3. Cardinality(1 .. n) <= Cardinality(Context)
  BY <1>1, <1>2, FS_Injection
<1>4. Cardinality(1 .. n) = n
  BY FS_Interval
<1>5. Cardinality(Context) \in Nat
  BY <1>1, FS_CardinalityType
<1> QED BY <1>3, <1>4, <1>5


-----------------------------------------------------------------------------
(* The links from a head on determine the list.                            *)

(* s, of length n, follows the links nx from the head first.               *)
Chain(s, n, first, nx) ==
  /\ first = IF n = 0 THEN Null ELSE s[1]
  /\ \A i \in 1 .. n : nx[s[i]] = IF i = n THEN Null ELSE s[i + 1]

(* Of two lists with one head, each is as long as the other and agrees     *)
(* with it: the first place where they do not would be behind one where    *)
(* they do.                                                                *)
LEMMA ChainsAgree ==
  ASSUME NEW n \in Nat, NEW s \in [1 .. n -> Context],
         NEW m \in Nat, NEW r \in [1 .. m -> Context], NEW first, NEW nx,
         Chain(s, n, first, nx), Chain(r, m, first, nx)
  PROVE  \A i \in 1 .. n : i <= m /\ s[i] = r[i]
<1> DEFINE U == {i \in 1 .. n : ~(i <= m /\ s[i] = r[i])}
           R == OpToRel(<, Nat)
<1>1. SUFFICES ASSUME U # {} PROVE FALSE
  OBVIOUS
<1>2. IsWellFoundedOn(R, Nat) /\ R = {p \in Nat \X Nat : p[1] < p[2]}
  BY NatLessThanWellFounded DEF OpToRel
<1> HIDE DEF R
<1>3. PICK i \in U : \A j \in U : ~(<<j, i>> \in R)
  <2>1. U \subseteq Nat OBVIOUS
  <2> HIDE DEF U
  <2> QED BY <1>1, <1>2, <2>1, WFMin
<1>4. i \in 1 .. n /\ i \in Nat /\ ~(i <= m /\ s[i] = r[i]) OBVIOUS
<1>5. CASE i = 1
  <2>1. first = s[1] /\ s[1] # Null BY <1>4, <1>5, ContextAssumption DEF Chain
  <2>2. m # 0 /\ first = r[1] BY <2>1 DEF Chain
  <2> QED BY <1>4, <1>5, <2>1, <2>2
<1>6. CASE i # 1
  <2> DEFINE j == i - 1
  <2>1. j \in 1 .. n /\ j \in Nat /\ j # n /\ j + 1 = i BY <1>4, <1>6
  <2>2. <<j, i>> \in R BY <1>2, <1>4, <2>1
  <2>3. j \notin U BY <1>3, <2>2
  <2>4. j <= m /\ s[j] = r[j] /\ j \in 1 .. m BY <2>1, <2>3
  <2>5. nx[s[j]] = s[i] /\ s[i] # Null
    BY <1>4, <2>1, ContextAssumption DEF Chain
  <2>6. nx[r[j]] = IF j = m THEN Null ELSE r[i] BY <2>1, <2>4 DEF Chain
  <2>7. j # m /\ s[i] = r[i] BY <2>4, <2>5, <2>6
  <2> QED BY <1>4, <2>1, <2>4, <2>7
<1> QED BY <1>5, <1>6

LEMMA ChainIsUnique ==
  ASSUME NEW n \in Nat, NEW s \in [1 .. n -> Context],
         NEW m \in Nat, NEW r \in [1 .. m -> Context], NEW first, NEW nx,
         Chain(s, n, first, nx), Chain(r, m, first, nx)
  PROVE  n = m /\ s = r
<1>1. \A i \in 1 .. n : i <= m /\ s[i] = r[i] BY ChainsAgree
<1>2. \A i \in 1 .. m : i <= n /\ r[i] = s[i] BY ChainsAgree
<1>3. n <= m /\ m <= n
  <2>1. n = 0 \/ n \in 1 .. n OBVIOUS
  <2>2. m = 0 \/ m \in 1 .. m OBVIOUS
  <2> QED BY <1>1, <1>2, <2>1, <2>2
<1> QED BY <1>1, <1>3

(* A list is what its links are read as.                                   *)
Unique(first) ==
  \A n \in 0 .. Cardinality(Context) : \A s \in [1 .. n -> Context] :
    Represents(s, n, first) => Listed(first) = s

LEMMA ListedIs == Unique(pool) /\ Unique(use)
<1>1. ASSUME NEW first, NEW n \in 0 .. Cardinality(Context),
             NEW s \in [1 .. n -> Context], Represents(s, n, first)
      PROVE  Listed(first) = s
  <2>1. Cardinality(Context) \in Nat /\ n \in Nat
    BY ContextAssumption, FS_CardinalityType
  <2>2. s \in Lists /\ Len(s) = n
    BY <2>1 DEF Lists
  <2> DEFINE r == Listed(first)
  <2>3. r \in Lists /\ Represents(r, Len(r), first)
    BY <1>1, <2>2 DEF Listed
  <2> HIDE DEF r
  <2>4. PICK m \in 0 .. Cardinality(Context) : r \in [1 .. m -> Context]
    BY <2>3 DEF Lists
  <2>5. m \in Nat /\ Len(r) = m
    BY <2>1, <2>4
  <2>6. Chain(s, n, first, next) /\ Chain(r, m, first, next)
    BY <1>1, <2>3, <2>5 DEF Represents, Chain
  <2>7. r = s
    BY <2>1, <2>4, <2>5, <2>6, ChainIsUnique
  <2> QED BY <2>7 DEF r
<1> QED BY <1>1 DEF Unique

LEMMA ListedIsNext == Unique(pool)' /\ Unique(use)'
BY ListedIs, PTL

(* The operators on sequences, on lists of contexts.                       *)
LEMMA ListOperators ==
  ASSUME NEW n \in Nat, NEW s \in [1 .. n -> Context], NEW c \in Context
  PROVE  /\ Len(s) = n
         /\ <<c>> \o s = [i \in 1 .. n + 1 |-> IF i = 1 THEN c ELSE s[i - 1]]
         /\ Append(s, c) = [i \in 1 .. n + 1 |-> IF i = n + 1 THEN c ELSE s[i]]
         /\ n # 0 => /\ Head(s) = s[1]
                     /\ Tail(s) = [i \in 1 .. n - 1 |-> s[i + 1]]
         /\ s = <<>> <=> n = 0
<1>1. s \in Seq(Context) /\ Len(s) = n
  OBVIOUS
<1>2. <<c>> \o s = [i \in 1 .. n + 1 |-> IF i = 1 THEN c ELSE s[i - 1]]
  BY <1>1
<1>3. Append(s, c) = [i \in 1 .. n + 1 |-> IF i = n + 1 THEN c ELSE s[i]]
  <2> DEFINE a == Append(s, c)
             b == [i \in 1 .. n + 1 |-> IF i = n + 1 THEN c ELSE s[i]]
  <2>1. /\ a \in Seq(Context) /\ Len(a) = n + 1 /\ a[n + 1] = c
        /\ \A i \in 1 .. n : a[i] = s[i]
    BY <1>1, AppendProperties
  <2>2. b \in [1 .. n + 1 -> Context] OBVIOUS
  <2>3. b \in Seq(Context) /\ Len(b) = n + 1 BY <2>2
  <2> HIDE DEF a
  <2>4. \A i \in 1 .. Len(a) : a[i] = b[i] BY <2>1
  <2> HIDE DEF b
  <2>5. a = b BY <2>1, <2>3, <2>4, SeqEqual
  <2> QED BY <2>5 DEF a, b
<1>4. n # 0 => Head(s) = s[1] /\ Tail(s) = [i \in 1 .. n - 1 |-> s[i + 1]]
  <2> SUFFICES ASSUME n # 0
               PROVE  Head(s) = s[1] /\ Tail(s) = [i \in 1 .. n - 1 |-> s[i + 1]]
    OBVIOUS
  <2> DEFINE a == Tail(s)
             b == [i \in 1 .. n - 1 |-> s[i + 1]]
  <2>1. s # <<>> BY <1>1
  <2>2. /\ Head(s) = s[1] /\ a \in Seq(Context) /\ Len(a) = n - 1
        /\ \A i \in 1 .. n - 1 : a[i] = s[i + 1]
    BY <1>1, <2>1, HeadTailProperties
  <2>3. b \in [1 .. n - 1 -> Context] OBVIOUS
  <2>4. b \in Seq(Context) /\ Len(b) = n - 1 BY <2>3
  <2> HIDE DEF a
  <2>5. \A i \in 1 .. Len(a) : a[i] = b[i] BY <2>2
  <2> HIDE DEF b
  <2>6. a = b BY <2>2, <2>4, <2>5, SeqEqual
  <2> QED BY <2>2, <2>6 DEF a, b
<1>5. s = <<>> <=> n = 0
  BY <1>1, EmptySeq
<1> QED BY <1>1, <1>2, <1>3, <1>4, <1>5

LEMMA InitInv == Init => Inv
<1> SUFFICES ASSUME Init PROVE Inv OBVIOUS
<1> USE DEF Init
<1>1. Cardinality(Context) \in Nat
  BY ContextAssumption, FS_CardinalityType
<1>2. TypeOK
  <2>1. context_count \in 0 .. Cardinality(Context) BY <1>1
  <2>2. next \in [Context -> Pointer] /\ prev \in [Context -> Pointer]
    BY DEF Pointer
  <2>3. created \subseteq Context /\ held \subseteq created OBVIOUS
  <2> QED BY <2>1, <2>2, <2>3 DEF TypeOK, Pointer
<1> DEFINE e == [i \in 1 .. 0 |-> Null]
<1>3. e \in [1 .. 0 -> Context] OBVIOUS
<1>4. 0 \in 0 .. Cardinality(Context) BY <1>1
<1>5. Members(e) = {} BY DEF Members
<1>6. PoolIsList
  <2>1. Represents(e, 0, pool) BY DEF Represents
  <2> QED BY <1>3, <1>4, <1>5, <2>1 DEF PoolIsList
<1>7. UseIsList
  <2>1. Represents(e, 0, use) BY DEF Represents
  <2> QED BY <1>3, <1>4, <1>5, <2>1 DEF UseIsList
<1>8. StopMatchesCount BY ContextAssumption DEF StopMatchesCount
<1> QED BY <1>2, <1>6, <1>7, <1>8 DEF Inv, ListIntegrity

(* A context that is built comes first.                                    *)
LEMMA InitContextInv ==
  ASSUME Inv, NEW c \in Context, InitContext(c)
  PROVE  Inv' /\ Listed(pool)' = <<c>> \o Listed(pool)
<1> USE DEF Inv, ListIntegrity, InitContext, Store
<1>0. Cardinality(Context) \in Nat
  BY ContextAssumption, FS_CardinalityType
<1>1. PICK n \in 0 .. Cardinality(Context) : \E s \in [1 .. n -> Context] :
        /\ Represents(s, n, pool)
        /\ pool_end = IF n = 0 THEN Null ELSE s[n]
        /\ Members(s) = created \ held
        /\ context_count = n
  BY DEF PoolIsList
<1>2. PICK s \in [1 .. n -> Context] :
        /\ Represents(s, n, pool)
        /\ pool_end = IF n = 0 THEN Null ELSE s[n]
        /\ Members(s) = created \ held
        /\ context_count = n
  BY <1>1
<1>3. PICK m \in 0 .. Cardinality(Context) : \E u \in [1 .. m -> Context] :
        /\ Represents(u, m, use)
        /\ Members(u) = held
  BY DEF UseIsList
<1>4. PICK u \in [1 .. m -> Context] :
        /\ Represents(u, m, use)
        /\ Members(u) = held
  BY <1>3
<1> DEFINE s2 == [i \in 1 .. n + 1 |-> IF i = 1 THEN c ELSE s[i - 1]]
<1>5. n \in Nat /\ m \in Nat BY <1>0
<1>6. s2 \in [1 .. n + 1 -> Context] BY <1>5
<1>7. \A i \in 1 .. n : s[i] \in created /\ s[i] # c
  BY <1>2 DEF Members
<1>8. \A i \in 1 .. m : u[i] \in held /\ u[i] # c
  BY <1>4 DEF Members, TypeOK
<1>9. \A i \in 1 .. n : \A j \in 1 .. m : s[i] # u[j]
  BY <1>2, <1>4 DEF Members
<1>10. \A i, j \in 1 .. n + 1 : s2[i] = s2[j] => i = j
  <2> SUFFICES ASSUME NEW i \in 1 .. n + 1, NEW j \in 1 .. n + 1, s2[i] = s2[j]
               PROVE  i = j
    OBVIOUS
  <2>1. CASE i = 1 \/ j = 1 BY <1>5, <1>7, <2>1
  <2>2. CASE i # 1 /\ j # 1
    <3>1. i - 1 \in 1 .. n /\ j - 1 \in 1 .. n BY <1>5, <2>2
    <3>2. s[i - 1] = s[j - 1] BY <2>2
    <3>3. i - 1 = j - 1 BY <1>2, <3>1, <3>2 DEF Represents
    <3> QED BY <3>3, <1>5
  <2> QED BY <2>1, <2>2
<1>11. n + 1 \in 0 .. Cardinality(Context)
  <2> HIDE DEF s2
  <2>1. n + 1 \in Nat BY <1>5
  <2> QED BY <2>1, <1>6, <1>10, ListBound
<1>12. TypeOK'
  BY <1>2, <1>11 DEF TypeOK, Pointer
<1>13. Represents(s2, n + 1, pool)'
  <2> USE DEF Represents
  <2>1. pool' = IF n + 1 = 0 THEN Null ELSE s2[1] BY <1>5
  <2>2. ASSUME NEW i \in 1 .. n + 1
        PROVE  /\ next'[s2[i]] = IF i = n + 1 THEN Null ELSE s2[i + 1]
               /\ prev'[s2[i]] = IF i = 1 THEN Null ELSE s2[i - 1]
    <3>1. CASE i = 1
      <4>1. s2[i] = c BY <3>1
      <4>2. pool = IF i = n + 1 THEN Null ELSE s2[i + 1]
        BY <1>2, <1>5, <3>1
      <4>3. pool # c BY <1>2, <1>5, <1>7, ContextAssumption
      <4> QED BY <4>1, <4>2, <4>3, <3>1
    <3>2. CASE i # 1
      <4>1. s2[i] = s[i - 1] /\ i - 1 \in 1 .. n BY <1>5, <3>2
      <4>2. s2[i] # c /\ s2[i] \in Context BY <1>7, <4>1
      <4>3. next'[s2[i]] = next[s[i - 1]] BY <4>1, <4>2
      <4>4. next[s[i - 1]] = IF i - 1 = n THEN Null ELSE s[i]
        BY <1>2, <4>1
      <4>5. i # n + 1 => s2[i + 1] = s[i] BY <1>5, <3>2
      <4>6. next'[s2[i]] = IF i = n + 1 THEN Null ELSE s2[i + 1]
        BY <4>3, <4>4, <4>5, <1>5
      <4>7. pool = s[1] BY <1>2, <4>1, <1>5
      <4>8. CASE i = 2
        <5>1. s2[i] = pool /\ pool \in Context BY <4>1, <4>2, <4>7, <4>8
        <5>2. prev'[s2[i]] = c BY <5>1
        <5> QED BY <4>6, <4>8, <5>2
      <4>9. CASE i # 2
        <5>1. s[i - 1] # s[1] BY <1>2, <4>1, <4>9, <1>5
        <5>2. prev'[s2[i]] = prev[s[i - 1]] BY <4>1, <4>2, <4>7, <5>1
        <5>3. prev[s[i - 1]] = s[i - 2] BY <1>2, <4>1, <4>9, <1>5
        <5>4. s2[i - 1] = s[i - 2] BY <3>2, <4>9, <1>5
        <5> QED BY <5>2, <5>3, <5>4, <3>2, <4>6
      <4> QED BY <4>6, <4>8, <4>9
    <3> QED BY <3>1, <3>2
  <2> QED BY <2>1, <2>2, <1>10
<1>14. PoolIsList'
  <2>1. pool_end' = s2[n + 1]
    <3>1. CASE n = 0 BY <3>1, <1>2 DEF Represents
    <3>2. CASE n # 0
      <4>1. pool \in Context /\ pool_end = s[n] BY <3>2, <1>2, <1>5 DEF Represents
      <4>2. s2[n + 1] = s[n] BY <3>2, <1>5
      <4> QED BY <4>1, <4>2, ContextAssumption
    <3> QED BY <3>1, <3>2
  <2>2. Members(s2) = (created \ held)'
    <3>1. \A x : x \in Members(s2) => x \in created' \ held'
      BY <1>2, <1>5, <1>7 DEF Members, TypeOK
    <3>2. ASSUME NEW x \in created' \ held' PROVE x \in Members(s2)
      <4>1. CASE x = c BY <4>1, <1>5 DEF Members
      <4>2. CASE x # c
        <5>1. PICK i \in 1 .. n : x = s[i] BY <4>2, <1>2 DEF Members
        <5>2. i + 1 \in 1 .. n + 1 /\ s2[i + 1] = x BY <5>1, <1>5
        <5> QED BY <5>2 DEF Members
      <4> QED BY <4>1, <4>2
    <3> QED BY <3>1, <3>2
  <2>3. pool_end' = IF n + 1 = 0 THEN Null ELSE s2[n + 1] BY <1>5, <2>1
  <2>4. context_count' = n + 1 BY <1>2
  <2> HIDE DEF s2, Inv, ListIntegrity, InitContext, Store
  <2> QED BY <1>6, <1>11, <1>13, <2>2, <2>3, <2>4 DEF PoolIsList
<1>15. UseIsList'
  <2>1. Represents(u, m, use)'
    <3> USE DEF Represents
    <3>1. \A i \in 1 .. m : next'[u[i]] = next[u[i]] /\ prev'[u[i]] = prev[u[i]]
      <4>1. pool = Null \/ \E k \in 1 .. n : pool = s[k] BY <1>2, <1>5
      <4>2. \A i \in 1 .. m : u[i] # pool BY <4>1, <1>9, ContextAssumption
      <4> QED BY <4>2, <1>8
    <3> QED BY <3>1, <1>4
  <2> QED BY <1>4, <2>1 DEF UseIsList
<1>16. StopMatchesCount'
  <2>1. created # Context BY DEF StopMatchesCount
  <2> QED BY <2>1, <1>2, <1>5 DEF StopMatchesCount, TypeOK
<1>17. Listed(pool)' = <<c>> \o Listed(pool)
  <2>1. Listed(pool) = s BY <1>2, ListedIs DEF Unique
  <2>2. s2 = <<c>> \o s BY <1>5, ListOperators
  <2> HIDE DEF s2
  <2>3. Listed(pool)' = s2 BY <1>6, <1>11, <1>13, ListedIsNext DEF Unique
  <2> QED BY <2>1, <2>2, <2>3
<1> QED BY <1>12, <1>14, <1>15, <1>16, <1>17

(* The first context is taken, and the others stay in their order.         *)
LEMMA UseContextInv ==
  ASSUME Inv, created = Context, UseContext
  PROVE  /\ Inv'
         /\ Listed(pool) # <<>> /\ pool = Head(Listed(pool))
         /\ Listed(pool)' = Tail(Listed(pool))
         /\ listener_event_stop' = (Tail(Listed(pool)) = <<>>)
<1> USE DEF Inv, ListIntegrity
<1>0. Cardinality(Context) \in Nat
  BY ContextAssumption, FS_CardinalityType
<1>1. PICK n \in 0 .. Cardinality(Context) : \E s \in [1 .. n -> Context] :
        /\ Represents(s, n, pool)
        /\ pool_end = IF n = 0 THEN Null ELSE s[n]
        /\ Members(s) = created \ held
        /\ context_count = n
  BY DEF PoolIsList
<1>2. PICK s \in [1 .. n -> Context] :
        /\ Represents(s, n, pool)
        /\ pool_end = IF n = 0 THEN Null ELSE s[n]
        /\ Members(s) = created \ held
        /\ context_count = n
  BY <1>1
<1>3. PICK m \in 0 .. Cardinality(Context) : \E u \in [1 .. m -> Context] :
        /\ Represents(u, m, use)
        /\ Members(u) = held
  BY DEF UseIsList
<1>4. PICK u \in [1 .. m -> Context] :
        /\ Represents(u, m, use)
        /\ Members(u) = held
  BY <1>3
<1>5. n \in Nat /\ m \in Nat BY <1>0
<1>6. \A i \in 1 .. n : s[i] \in created \ held BY <1>2 DEF Members
<1>7. \A i \in 1 .. m : u[i] \in held BY <1>4 DEF Members
<1>8. \A i \in 1 .. n : \A j \in 1 .. m : s[i] # u[j]
  BY <1>2, <1>4 DEF Members
<1> DEFINE s2 == [i \in 1 .. n - 1 |-> s[i + 1]]
           u2 == [i \in 1 .. m + 1 |-> IF i = 1 THEN s[1] ELSE u[i - 1]]
<1>9. n >= 1 /\ 1 \in 1 .. n BY <1>2, <1>5 DEF UseContext
<1>10. pool = s[1] /\ pool \in Context BY <1>2, <1>5, <1>9 DEF Represents
<1>11. next[pool] = IF n = 1 THEN Null ELSE s[2]
  BY <1>2, <1>9, <1>10 DEF Represents
<1>12. use = IF m = 0 THEN Null ELSE u[1] BY <1>4 DEF Represents
<1>13. \A x \in Context : next'[x] = IF x = pool THEN use ELSE next[x]
  BY DEF UseContext, Store
<1>14. \A x \in Context :
         prev'[x] = IF x = use THEN pool
                    ELSE IF x = pool THEN Null
                    ELSE IF x = next[pool] THEN Null ELSE prev[x]
  BY DEF UseContext, Store
<1>15. s2 \in [1 .. n - 1 -> Context] /\ u2 \in [1 .. m + 1 -> Context]
  BY <1>5, <1>9
<1>16. \A i, j \in 1 .. m + 1 : u2[i] = u2[j] => i = j
  <2> SUFFICES ASSUME NEW i \in 1 .. m + 1, NEW j \in 1 .. m + 1, u2[i] = u2[j]
               PROVE  i = j
    OBVIOUS
  <2>1. CASE i = 1 \/ j = 1 BY <1>5, <1>8, <1>9, <2>1
  <2>2. CASE i # 1 /\ j # 1
    <3>1. i - 1 \in 1 .. m /\ j - 1 \in 1 .. m BY <1>5, <2>2
    <3>2. u[i - 1] = u[j - 1] BY <2>2
    <3>3. i - 1 = j - 1 BY <1>4, <3>1, <3>2 DEF Represents
    <3> QED BY <3>3, <1>5
  <2> QED BY <2>1, <2>2
<1>17. m + 1 \in 0 .. Cardinality(Context)
  <2> HIDE DEF u2
  <2>1. m + 1 \in Nat BY <1>5
  <2> QED BY <2>1, <1>15, <1>16, ListBound
<1>18. n - 1 \in 0 .. Cardinality(Context) BY <1>0, <1>9
<1>19. Represents(s2, n - 1, pool)'
  <2> USE DEF Represents
  <2>1. pool' = IF n - 1 = 0 THEN Null ELSE s2[1]
    BY <1>9, <1>11, <1>5 DEF UseContext
  <2>2. ASSUME NEW i \in 1 .. n - 1
        PROVE  /\ next'[s2[i]] = IF i = n - 1 THEN Null ELSE s2[i + 1]
               /\ prev'[s2[i]] = IF i = 1 THEN Null ELSE s2[i - 1]
    <3>1. s2[i] = s[i + 1] /\ i + 1 \in 1 .. n /\ s2[i] \in Context BY <1>5
    <3>2. s2[i] # pool BY <3>1, <1>2, <1>10, <1>9
    <3>3. next'[s2[i]] = next[s[i + 1]] BY <3>1, <3>2, <1>13
    <3>4. next'[s2[i]] = IF i = n - 1 THEN Null ELSE s2[i + 1]
      BY <3>1, <3>3, <1>2, <1>5
    <3>5. s2[i] # use
      <4>1. CASE m = 0 BY <4>1, <1>12, <3>1, ContextAssumption
      <4>2. CASE m # 0 BY <4>2, <1>12, <1>8, <3>1, <1>5
      <4> QED BY <4>1, <4>2
    <3>6. CASE i = 1
      <4>1. s2[i] = next[pool] BY <3>6, <3>1, <1>11, <1>5
      <4> QED BY <4>1, <3>1, <3>2, <3>4, <3>5, <3>6, <1>14
    <3>7. CASE i # 1
      <4>1. n # 1 /\ 2 \in 1 .. n BY <3>7, <1>5
      <4>2. s2[i] # next[pool] BY <4>1, <3>1, <3>7, <1>2, <1>11, <1>5
      <4>3. prev'[s2[i]] = prev[s[i + 1]]
        BY <4>2, <3>1, <3>2, <3>5, <1>14
      <4>4. prev[s[i + 1]] = s[i] BY <3>1, <3>7, <1>2, <1>5
      <4>5. s2[i - 1] = s[i] BY <3>7, <1>5
      <4> QED BY <4>3, <4>4, <4>5, <3>4, <3>7
    <3> QED BY <3>6, <3>7
  <2>3. ASSUME NEW i \in 1 .. n - 1, NEW j \in 1 .. n - 1, s2[i] = s2[j]
        PROVE  i = j
    <3>1. i + 1 \in 1 .. n /\ j + 1 \in 1 .. n BY <1>5
    <3>2. s[i + 1] = s[j + 1] BY <2>3
    <3>3. i + 1 = j + 1 BY <3>1, <3>2, <1>2
    <3> QED BY <3>3
  <2> QED BY <2>1, <2>2, <2>3
<1>20. PoolIsList'
  <2>1. pool_end' = IF n - 1 = 0 THEN Null ELSE s2[n - 1]
    <3>1. CASE n = 1 BY <3>1, <1>11 DEF UseContext
    <3>2. CASE n # 1
      <4>1. next[pool] # Null
        <5>1. 2 \in 1 .. n BY <3>2, <1>9
        <5> QED BY <5>1, <3>2, <1>11, ContextAssumption
      <4>2. s2[n - 1] = s[n] BY <3>2, <1>5, <1>9
      <4> QED BY <4>1, <4>2, <3>2, <1>2, <1>9, <1>5 DEF UseContext
    <3> QED BY <3>1, <3>2
  <2>2. Members(s2) = (created \ held)'
    <3>1. ASSUME NEW i \in 1 .. n - 1
          PROVE  s2[i] \in created' \ held'
      <4>1. s2[i] = s[i + 1] /\ i + 1 \in 1 .. n BY <1>5
      <4>2. s2[i] # s[1] BY <4>1, <1>2, <1>9 DEF Represents
      <4> QED BY <4>1, <4>2, <1>6, <1>10 DEF UseContext
    <3>2. ASSUME NEW x \in created' \ held' PROVE x \in Members(s2)
      <4>1. x \in created \ held /\ x # s[1] BY <3>2, <1>10 DEF UseContext
      <4>2. PICK i \in 1 .. n : x = s[i] BY <4>1, <1>2 DEF Members
      <4>3. i - 1 \in 1 .. n - 1 /\ s2[i - 1] = x BY <4>1, <4>2, <1>5
      <4> QED BY <4>3 DEF Members
    <3> QED BY <3>1, <3>2 DEF Members
  <2>3. context_count' = n - 1 BY <1>2 DEF UseContext
  <2> QED BY <1>15, <1>18, <1>19, <2>1, <2>2, <2>3 DEF PoolIsList
<1>21. Represents(u2, m + 1, use)'
  <2> USE DEF Represents
  <2>1. use' = IF m + 1 = 0 THEN Null ELSE u2[1]
    BY <1>5, <1>10 DEF UseContext
  <2>2. ASSUME NEW i \in 1 .. m + 1
        PROVE  /\ next'[u2[i]] = IF i = m + 1 THEN Null ELSE u2[i + 1]
               /\ prev'[u2[i]] = IF i = 1 THEN Null ELSE u2[i - 1]
    <3>1. CASE i = 1
      <4>1. u2[i] = pool BY <3>1, <1>10
      <4>2. pool # use
        <5>1. CASE m = 0 BY <5>1, <1>12, <1>10, ContextAssumption
        <5>2. CASE m # 0 BY <5>2, <1>12, <1>8, <1>9, <1>10, <1>5
        <5> QED BY <5>1, <5>2
      <4>3. next'[u2[i]] = use BY <4>1, <1>10, <1>13
      <4>4. prev'[u2[i]] = Null BY <4>1, <4>2, <1>10, <1>14
      <4> QED BY <3>1, <4>3, <4>4, <1>12, <1>5
    <3>2. CASE i # 1
      <4>1. u2[i] = u[i - 1] /\ i - 1 \in 1 .. m /\ u2[i] \in Context
        BY <3>2, <1>5
      <4>2. u2[i] # pool BY <4>1, <1>8, <1>9, <1>10
      <4>3. next'[u2[i]] = next[u[i - 1]] BY <4>1, <4>2, <1>13
      <4>4. next'[u2[i]] = IF i = m + 1 THEN Null ELSE u2[i + 1]
        BY <4>1, <4>3, <1>4, <1>5, <3>2
      <4>5. u2[i] # next[pool]
        <5>1. CASE n = 1 BY <5>1, <4>1, <1>11, ContextAssumption
        <5>2. CASE n # 1
          <6>1. 2 \in 1 .. n BY <5>2, <1>9
          <6> QED BY <6>1, <5>2, <4>1, <1>8, <1>11
        <5> QED BY <5>1, <5>2
      <4>6. m # 0 /\ use = u[1] /\ 1 \in 1 .. m BY <4>1, <1>12, <1>5
      <4>7. CASE i = 2
        <5>1. u2[i] = use BY <4>7, <4>1, <4>6
        <5>2. prev'[u2[i]] = pool BY <5>1, <4>1, <1>14
        <5>3. u2[i - 1] = pool BY <4>7, <1>10, <1>5
        <5> QED BY <5>2, <5>3, <4>4, <3>2
      <4>8. CASE i # 2
        <5>1. u2[i] # use BY <4>8, <4>1, <4>6, <1>4
        <5>2. prev'[u2[i]] = prev[u[i - 1]]
          BY <5>1, <4>1, <4>2, <4>5, <1>14
        <5>3. prev[u[i - 1]] = u[i - 2] BY <4>1, <4>8, <1>4, <1>5
        <5>4. u2[i - 1] = u[i - 2] BY <3>2, <4>8, <1>5
        <5> QED BY <5>2, <5>3, <5>4, <4>4, <3>2
      <4> QED BY <4>7, <4>8
    <3> QED BY <3>1, <3>2
  <2> QED BY <2>1, <2>2, <1>16
<1>22. UseIsList'
  <2>1. Members(u2) = held'
    <3>1. ASSUME NEW i \in 1 .. m + 1 PROVE u2[i] \in held'
      BY <1>5, <1>7, <1>10 DEF UseContext
    <3>2. ASSUME NEW x \in held' PROVE x \in Members(u2)
      <4>1. CASE x = pool BY <4>1, <1>10, <1>5 DEF Members
      <4>2. CASE x # pool
        <5>1. x \in held BY <4>2, <3>2 DEF UseContext
        <5>2. PICK i \in 1 .. m : x = u[i] BY <5>1, <1>4 DEF Members
        <5>3. i + 1 \in 1 .. m + 1 /\ u2[i + 1] = x BY <5>2, <1>5
        <5> QED BY <5>3 DEF Members
      <4> QED BY <4>1, <4>2
    <3> QED BY <3>1, <3>2 DEF Members
  <2> QED BY <1>15, <1>17, <1>21, <2>1 DEF UseIsList
<1>23. StopMatchesCount'
  <2>1. listener_event_stop = FALSE
    BY <1>2, <1>9, <1>5 DEF StopMatchesCount, TypeOK
  <2>2. listener_event_stop' <=> context_count - 1 < 1
    BY <2>1 DEF UseContext, StopIfEmpty
  <2>3. context_count - 1 < 1 <=> context_count' = 0
    BY <1>2, <1>5, <1>9 DEF UseContext
  <2>4. created' = Context BY DEF UseContext
  <2> QED BY <2>2, <2>3, <2>4 DEF StopMatchesCount
<1>24. TypeOK'
  <2>1. held' \subseteq created' BY <1>6, <1>9, <1>10 DEF UseContext, TypeOK
  <2>2. pool' \in Pointer /\ pool_end' \in Pointer /\ use' \in Pointer
    BY <1>10 DEF UseContext, TypeOK, Pointer
  <2>3. next' \in [Context -> Pointer]
    BY DEF UseContext, Store, TypeOK, Pointer
  <2>4. prev' \in [Context -> Pointer]
    BY <1>10 DEF UseContext, Store, TypeOK, Pointer
  <2>5. context_count' \in 0 .. Cardinality(Context)
    BY <1>2, <1>18 DEF UseContext
  <2>6. listener_event_stop' \in BOOLEAN BY DEF UseContext, StopIfEmpty
  <2>7. created' \subseteq Context BY DEF UseContext, TypeOK
  <2> QED BY <2>1, <2>2, <2>3, <2>4, <2>5, <2>6, <2>7 DEF TypeOK
<1>25. /\ Listed(pool) # <<>> /\ pool = Head(Listed(pool))
       /\ Listed(pool)' = Tail(Listed(pool))
       /\ listener_event_stop' = (Tail(Listed(pool)) = <<>>)
  <2>1. Listed(pool) = s BY <1>2, ListedIs DEF Unique
  <2>2. s # <<>> /\ Head(s) = pool /\ Tail(s) = s2
    <3>1. n \in Nat /\ n # 0 /\ pool \in Context BY <1>5, <1>9, <1>10
    <3>2. Head(s) = s[1] /\ Tail(s) = s2 /\ s # <<>>
      BY ONLY <3>1, s \in [1 .. n -> Context], ListOperators
    <3> QED BY <3>2, <1>10
  <2>3. s2 = <<>> <=> n - 1 = 0
    <3> HIDE DEF s2
    <3>1. n - 1 \in Nat BY <1>5, <1>9
    <3> QED BY <1>10, <1>15, <3>1, ListOperators
  <2> HIDE DEF s2
  <2>4. Listed(pool)' = s2 BY <1>15, <1>18, <1>19, ListedIsNext DEF Unique
  <2>5. listener_event_stop' \in BOOLEAN /\ (listener_event_stop' <=> n - 1 = 0)
    BY <1>2, <1>23, <1>24 DEF UseContext, StopMatchesCount, TypeOK
  <2> QED BY <2>1, <2>2, <2>3, <2>4, <2>5
<1> QED BY <1>20, <1>22, <1>23, <1>24, <1>25

(* The context that is given back comes last.                              *)
LEMMA FreeContextInv ==
  ASSUME Inv, NEW c \in held, FreeContext(c)
  PROVE  /\ Inv'
         /\ Listed(pool)' = Append(Listed(pool), c)
         /\ listener_event_stop' = FALSE
<1> USE DEF Inv, ListIntegrity
<1>0. Cardinality(Context) \in Nat
  BY ContextAssumption, FS_CardinalityType
<1>1. PICK n \in 0 .. Cardinality(Context) : \E s \in [1 .. n -> Context] :
        /\ Represents(s, n, pool)
        /\ pool_end = IF n = 0 THEN Null ELSE s[n]
        /\ Members(s) = created \ held
        /\ context_count = n
  BY DEF PoolIsList
<1>2. PICK s \in [1 .. n -> Context] :
        /\ Represents(s, n, pool)
        /\ pool_end = IF n = 0 THEN Null ELSE s[n]
        /\ Members(s) = created \ held
        /\ context_count = n
  BY <1>1
<1>3. PICK m \in 0 .. Cardinality(Context) : \E u \in [1 .. m -> Context] :
        /\ Represents(u, m, use)
        /\ Members(u) = held
  BY DEF UseIsList
<1>4. PICK u \in [1 .. m -> Context] :
        /\ Represents(u, m, use)
        /\ Members(u) = held
  BY <1>3
<1>5. n \in Nat /\ m \in Nat BY <1>0
<1>6. \A i \in 1 .. n : s[i] \in created \ held BY <1>2 DEF Members
<1>7. \A i \in 1 .. m : u[i] \in held BY <1>4 DEF Members
<1>8. \A i \in 1 .. n : \A j \in 1 .. m : s[i] # u[j]
  BY <1>2, <1>4 DEF Members
<1>9. PICK k \in 1 .. m : u[k] = c BY <1>4 DEF Members
<1> DEFINE s2 == [i \in 1 .. n + 1 |-> IF i = n + 1 THEN c ELSE s[i]]
           u2 == [i \in 1 .. m - 1 |-> IF i < k THEN u[i] ELSE u[i + 1]]
<1>10. c \in Context /\ c \in created BY DEF TypeOK
<1>11. /\ next[c] = IF k = m THEN Null ELSE u[k + 1]
       /\ prev[c] = IF k = 1 THEN Null ELSE u[k - 1]
  BY <1>4, <1>9 DEF Represents
<1>12. /\ n = 0 => pool_end = Null /\ pool = Null
       /\ n # 0 => pool_end = s[n] /\ pool = s[1] /\ n \in 1 .. n /\ 1 \in 1 .. n
  BY <1>2, <1>5 DEF Represents
<1>13. c # pool_end /\ c # pool /\ prev[c] # c /\ next[c] # c
  <2>1. c # pool_end /\ c # pool
    BY <1>6, <1>10, <1>12, ContextAssumption
  <2>2. prev[c] # c
    <3>1. CASE k = 1 BY <3>1, <1>10, <1>11, ContextAssumption
    <3>2. CASE k # 1
      <4>1. k - 1 \in 1 .. m BY <3>2, <1>5
      <4> QED BY <4>1, <3>2, <1>4, <1>9, <1>11 DEF Represents
    <3> QED BY <3>1, <3>2
  <2>3. next[c] # c
    <3>1. CASE k = m BY <3>1, <1>10, <1>11, ContextAssumption
    <3>2. CASE k # m
      <4>1. k + 1 \in 1 .. m BY <3>2, <1>5
      <4> QED BY <4>1, <3>2, <1>4, <1>9, <1>11 DEF Represents
    <3> QED BY <3>1, <3>2
  <2> QED BY <2>1, <2>2, <2>3
<1>14. \A x \in Context :
         next'[x] = IF x = c THEN Null
                    ELSE IF x = pool_end THEN c
                    ELSE IF x = prev[c] THEN next[c] ELSE next[x]
  <2>1. CASE pool_end = Null
    BY <2>1, <1>13, ContextAssumption
    DEF FreeContext, UnlinkedNext, Store
  <2>2. CASE pool_end # Null
    BY <2>2, <1>13, ContextAssumption
    DEF FreeContext, UnlinkedNext, Store
  <2> QED BY <2>1, <2>2
<1>15. \A x \in Context :
         prev'[x] = IF x = c THEN pool_end
                    ELSE IF x = next[c] THEN prev[c] ELSE prev[x]
  <2>1. CASE pool_end = Null
    BY <2>1, <1>13 DEF FreeContext, UnlinkedPrev, Store
  <2>2. CASE pool_end # Null
    BY <2>2, <1>13 DEF FreeContext, UnlinkedPrev, Store
  <2> QED BY <2>1, <2>2
<1>16. s2 \in [1 .. n + 1 -> Context] /\ u2 \in [1 .. m - 1 -> Context]
  BY <1>5, <1>10
<1>17. \A i, j \in 1 .. n + 1 : s2[i] = s2[j] => i = j
  <2> SUFFICES ASSUME NEW i \in 1 .. n + 1, NEW j \in 1 .. n + 1, s2[i] = s2[j]
               PROVE  i = j
    OBVIOUS
  <2>1. CASE i = n + 1 \/ j = n + 1
    BY <1>5, <1>6, <2>1
  <2>2. CASE i # n + 1 /\ j # n + 1
    <3>1. i \in 1 .. n /\ j \in 1 .. n BY <1>5, <2>2
    <3> QED BY <3>1, <2>2, <1>2 DEF Represents
  <2> QED BY <2>1, <2>2
<1>18. n + 1 \in 0 .. Cardinality(Context)
  <2> HIDE DEF s2
  <2>1. n + 1 \in Nat BY <1>5
  <2> QED BY <2>1, <1>16, <1>17, ListBound
<1>19. m - 1 \in 0 .. Cardinality(Context) BY <1>0, <1>5
<1>20. Represents(s2, n + 1, pool)'
  <2> USE DEF Represents
  <2>1. pool' = IF n + 1 = 0 THEN Null ELSE s2[1]
    <3>1. CASE n = 0 BY <3>1, <1>12, <1>5 DEF FreeContext
    <3>2. CASE n # 0
      <4>1. pool_end # Null BY <3>2, <1>12, ContextAssumption
      <4> QED BY <4>1, <3>2, <1>12, <1>5 DEF FreeContext
    <3> QED BY <3>1, <3>2
  <2>2. ASSUME NEW i \in 1 .. n + 1
        PROVE  /\ next'[s2[i]] = IF i = n + 1 THEN Null ELSE s2[i + 1]
               /\ prev'[s2[i]] = IF i = 1 THEN Null ELSE s2[i - 1]
    <3>1. CASE i = n + 1
      <4>1. s2[i] = c BY <3>1
      <4>2. pool_end = IF i = 1 THEN Null ELSE s2[i - 1]
        BY <3>1, <1>5, <1>12
      <4> QED BY <3>1, <4>1, <4>2, <1>10, <1>14, <1>15
    <3>2. CASE i # n + 1
      <4>1. i \in 1 .. n /\ n # 0 /\ s2[i] = s[i] /\ s[i] \in Context
        BY <3>2, <1>5
      <4>2. s[i] # c BY <4>1, <1>6
      <4>3. s[i] # prev[c]
        <5>1. CASE k = 1 BY <5>1, <4>1, <1>11, ContextAssumption
        <5>2. CASE k # 1
          <6>1. k - 1 \in 1 .. m BY <5>2, <1>5
          <6> QED BY <6>1, <5>2, <4>1, <1>8, <1>11
        <5> QED BY <5>1, <5>2
      <4>4. s[i] # next[c]
        <5>1. CASE k = m BY <5>1, <4>1, <1>11, ContextAssumption
        <5>2. CASE k # m
          <6>1. k + 1 \in 1 .. m BY <5>2, <1>5
          <6> QED BY <6>1, <5>2, <4>1, <1>8, <1>11
        <5> QED BY <5>1, <5>2
      <4>5. prev'[s2[i]] = IF i = 1 THEN Null ELSE s2[i - 1]
        <5>1. prev'[s2[i]] = prev[s[i]] BY <4>1, <4>2, <4>4, <1>15
        <5>2. prev[s[i]] = IF i = 1 THEN Null ELSE s[i - 1] BY <4>1, <1>2
        <5>3. i # 1 => s2[i - 1] = s[i - 1] BY <4>1, <1>5
        <5> QED BY <5>1, <5>2, <5>3
      <4>6. CASE i = n
        <5>1. next'[s2[i]] = c BY <4>1, <4>2, <4>6, <1>12, <1>14
        <5>2. s2[i + 1] = c BY <4>6, <1>5
        <5> QED BY <5>1, <5>2, <3>2, <4>5
      <4>7. CASE i # n
        <5>1. s[i] # s[n] BY <4>1, <4>7, <1>2, <1>12
        <5>2. next'[s2[i]] = next[s[i]]
          BY <5>1, <4>1, <4>2, <4>3, <1>12, <1>14
        <5>3. next[s[i]] = s[i + 1] BY <4>1, <4>7, <1>2
        <5>4. s2[i + 1] = s[i + 1] BY <4>1, <4>7, <1>5
        <5> QED BY <5>2, <5>3, <5>4, <3>2, <4>5
      <4> QED BY <4>6, <4>7
    <3> QED BY <3>1, <3>2
  <2> QED BY <2>1, <2>2, <1>17
<1>21. PoolIsList'
  <2>1. pool_end' = IF n + 1 = 0 THEN Null ELSE s2[n + 1]
    BY <1>5 DEF FreeContext
  <2>2. Members(s2) = (created \ held)'
    <3>1. ASSUME NEW i \in 1 .. n + 1 PROVE s2[i] \in created' \ held'
      BY <1>5, <1>6, <1>10 DEF FreeContext
    <3>2. ASSUME NEW x \in created' \ held' PROVE x \in Members(s2)
      <4>1. CASE x = c
        <5>1. n + 1 \in 1 .. n + 1 /\ s2[n + 1] = c BY <1>5
        <5> QED BY <4>1, <5>1 DEF Members
      <4>2. CASE x # c
        <5>1. x \in created \ held BY <4>2, <3>2 DEF FreeContext
        <5>2. PICK i \in 1 .. n : x = s[i] BY <5>1, <1>2 DEF Members
        <5>3. i \in 1 .. n + 1 /\ s2[i] = x BY <5>2, <1>5
        <5> QED BY <5>3 DEF Members
      <4> QED BY <4>1, <4>2
    <3> QED BY <3>1, <3>2 DEF Members
  <2>3. context_count' = n + 1 BY <1>2 DEF FreeContext
  <2> HIDE DEF s2
  <2> QED BY <1>16, <1>18, <1>20, <2>1, <2>2, <2>3 DEF PoolIsList
<1>22. \A i \in 1 .. m - 1 :
         /\ i < k => u2[i] = u[i] /\ i \in 1 .. m
         /\ i >= k => u2[i] = u[i + 1] /\ i + 1 \in 1 .. m
  BY <1>5
<1>23. \A i, j \in 1 .. m - 1 : u2[i] = u2[j] => i = j
  <2> SUFFICES ASSUME NEW i \in 1 .. m - 1, NEW j \in 1 .. m - 1, u2[i] = u2[j]
               PROVE  i = j
    OBVIOUS
  <2> DEFINE a == IF i < k THEN i ELSE i + 1
             b == IF j < k THEN j ELSE j + 1
  <2>1. a \in 1 .. m /\ b \in 1 .. m /\ u2[i] = u[a] /\ u2[j] = u[b]
    BY <1>5, <1>22
  <2>2. a = b BY <2>1, <1>4 DEF Represents
  <2> QED BY <2>2, <1>5
<1>24. Represents(u2, m - 1, use)'
  <2> USE DEF Represents
  <2>1. use' = IF m - 1 = 0 THEN Null ELSE u2[1]
    <3>1. use' = IF prev[c] = Null THEN next[c] ELSE use BY DEF FreeContext
    <3>2. use = u[1] /\ 1 \in 1 .. m BY <1>4, <1>5
    <3>3. CASE k = 1
      BY <3>1, <3>3, <1>5, <1>11, <1>22
    <3>4. CASE k # 1
      <4>1. k - 1 \in 1 .. m /\ 1 \in 1 .. m - 1 BY <3>4, <1>5
      <4>2. prev[c] # Null BY <3>4, <4>1, <1>11, ContextAssumption
      <4>3. u2[1] = u[1] BY <3>4, <4>1, <1>22, <1>5
      <4> QED BY <3>1, <3>2, <4>1, <4>2, <4>3
    <3> QED BY <3>3, <3>4
  <2>2. ASSUME NEW i \in 1 .. m - 1
        PROVE  /\ next'[u2[i]] = IF i = m - 1 THEN Null ELSE u2[i + 1]
               /\ prev'[u2[i]] = IF i = 1 THEN Null ELSE u2[i - 1]
    <3> DEFINE a == IF i < k THEN i ELSE i + 1
    <3>1. a \in 1 .. m /\ a # k /\ u2[i] = u[a] BY <1>5, <1>22
    <3>2. u[a] # c /\ u[a] \in Context BY <3>1, <1>4, <1>9
    <3>3. u[a] # pool_end BY <3>1, <3>2, <1>8, <1>12, ContextAssumption
    <3>4. next'[u[a]] = IF u[a] = prev[c] THEN next[c] ELSE next[u[a]]
      BY <3>2, <3>3, <1>14
    <3>5. prev'[u[a]] = IF u[a] = next[c] THEN prev[c] ELSE prev[u[a]]
      BY <3>2, <1>15
    <3>6. next'[u[a]] = IF i = m - 1 THEN Null ELSE u2[i + 1]
      <4>1. CASE a = k - 1
        <5>1. u[a] = prev[c] BY <4>1, <3>1, <1>11, <1>5
        <5>2. next'[u[a]] = IF k = m THEN Null ELSE u[k + 1]
          BY <5>1, <3>4, <1>11
        <5>3. i = k - 1 BY <4>1, <1>5
        <5>4. k # m => i + 1 \in 1 .. m - 1 /\ u2[i + 1] = u[k + 1]
          BY <5>3, <1>5, <1>22
        <5> QED BY <5>2, <5>3, <5>4, <1>5
      <4>2. CASE a # k - 1
        <5>1. u[a] # prev[c]
          <6>1. CASE k = 1 BY <6>1, <3>2, <1>11, ContextAssumption
          <6>2. CASE k # 1
            <7>1. k - 1 \in 1 .. m BY <6>2, <1>5
            <7> QED BY <7>1, <6>2, <4>2, <3>1, <1>4, <1>11
          <6> QED BY <6>1, <6>2
        <5>2. next'[u[a]] = IF a = m THEN Null ELSE u[a + 1]
          BY <5>1, <3>1, <3>4, <1>4
        <5>3. a = m <=> i = m - 1 BY <4>2, <3>1, <1>5
        <5>4. a # m => i + 1 \in 1 .. m - 1 /\ u2[i + 1] = u[a + 1]
          BY <4>2, <5>3, <3>1, <1>5, <1>22
        <5> QED BY <5>2, <5>3, <5>4
      <4> QED BY <4>1, <4>2
    <3>7. prev'[u[a]] = IF i = 1 THEN Null ELSE u2[i - 1]
      <4>1. CASE a = k + 1
        <5>1. u[a] = next[c] BY <4>1, <3>1, <1>11, <1>5
        <5>2. prev'[u[a]] = IF k = 1 THEN Null ELSE u[k - 1]
          BY <5>1, <3>5, <1>11
        <5>3. i = k BY <4>1, <1>5
        <5>4. k # 1 => i - 1 \in 1 .. m - 1 /\ u2[i - 1] = u[k - 1]
          BY <5>3, <1>5, <1>22
        <5> QED BY <5>2, <5>3, <5>4
      <4>2. CASE a # k + 1
        <5>1. u[a] # next[c]
          <6>1. CASE k = m BY <6>1, <3>2, <1>11, ContextAssumption
          <6>2. CASE k # m
            <7>1. k + 1 \in 1 .. m BY <6>2, <1>5
            <7> QED BY <7>1, <6>2, <4>2, <3>1, <1>4, <1>11
          <6> QED BY <6>1, <6>2
        <5>2. prev'[u[a]] = IF a = 1 THEN Null ELSE u[a - 1]
          BY <5>1, <3>1, <3>5, <1>4
        <5>3. a = 1 <=> i = 1 BY <4>2, <3>1, <1>5
        <5>4. a # 1 => i - 1 \in 1 .. m - 1 /\ u2[i - 1] = u[a - 1]
          BY <4>2, <5>3, <3>1, <1>5, <1>22
        <5> QED BY <5>2, <5>3, <5>4
      <4> QED BY <4>1, <4>2
    <3> QED BY <3>1, <3>6, <3>7
  <2> QED BY <2>1, <2>2, <1>23
<1>25. UseIsList'
  <2>1. Members(u2) = held'
    <3>1. ASSUME NEW i \in 1 .. m - 1 PROVE u2[i] \in held'
      <4> DEFINE a == IF i < k THEN i ELSE i + 1
      <4>1. a \in 1 .. m /\ a # k /\ u2[i] = u[a] BY <1>5, <1>22
      <4>2. u[a] # c BY <4>1, <1>4, <1>9 DEF Represents
      <4> QED BY <4>1, <4>2, <1>7 DEF FreeContext
    <3>2. ASSUME NEW x \in held' PROVE x \in Members(u2)
      <4>1. x \in held /\ x # c BY <3>2 DEF FreeContext
      <4>2. PICK j \in 1 .. m : x = u[j] BY <4>1, <1>4 DEF Members
      <4>3. j # k BY <4>1, <4>2, <1>9
      <4> DEFINE i == IF j < k THEN j ELSE j - 1
      <4>4. i \in 1 .. m - 1 /\ u2[i] = x BY <4>2, <4>3, <1>5
      <4> QED BY <4>4 DEF Members
    <3> QED BY <3>1, <3>2 DEF Members
  <2> QED BY <1>16, <1>19, <1>24, <2>1 DEF UseIsList
<1>26. StopMatchesCount'
  <2>1. context_count + 1 > 0 BY <1>2, <1>5
  <2>2. ~listener_event_stop'
    <3>1. listener_event_stop' <=> listener_event_stop /\ context_count + 1 <= 0
      BY DEF FreeContext, ContinueIfAny
    <3>2. ~(context_count + 1 <= 0) BY <1>2, <1>5
    <3> QED BY <3>1, <3>2
  <2>3. context_count' # 0 BY <2>1 DEF FreeContext
  <2>4. created' = Context BY DEF FreeContext, StopMatchesCount
  <2> QED BY <2>2, <2>3, <2>4 DEF StopMatchesCount
<1>27. TypeOK'
  <2>1. held' \subseteq created' /\ created' \subseteq Context
    BY DEF FreeContext, TypeOK
  <2>2. pool' \in Pointer /\ pool_end' \in Pointer /\ use' \in Pointer
    BY <1>10 DEF FreeContext, TypeOK, Pointer
  <2>3. next' \in [Context -> Pointer]
    BY <1>10 DEF FreeContext, UnlinkedNext, Store, TypeOK, Pointer
  <2>4. prev' \in [Context -> Pointer]
    BY <1>10 DEF FreeContext, UnlinkedPrev, Store, TypeOK, Pointer
  <2>5. context_count' \in 0 .. Cardinality(Context)
    BY <1>2, <1>18 DEF FreeContext
  <2>6. listener_event_stop' \in BOOLEAN BY DEF FreeContext, ContinueIfAny
  <2> QED BY <2>1, <2>2, <2>3, <2>4, <2>5, <2>6 DEF TypeOK
<1>28. Listed(pool)' = Append(Listed(pool), c)
  <2>1. Listed(pool) = s BY <1>2, ListedIs DEF Unique
  <2>2. s2 = Append(s, c) BY <1>5, <1>10, ListOperators
  <2> HIDE DEF s2
  <2>3. Listed(pool)' = s2 BY <1>16, <1>18, <1>20, ListedIsNext DEF Unique
  <2> QED BY <2>1, <2>2, <2>3
<1>29. listener_event_stop' = FALSE
  <2>1. ~(context_count + 1 <= 0) BY <1>2, <1>5
  <2>2. listener_event_stop' = (listener_event_stop /\ context_count + 1 <= 0)
    BY DEF FreeContext, ContinueIfAny
  <2> QED BY <2>1, <2>2
<1> QED BY <1>21, <1>25, <1>26, <1>27, <1>28, <1>29

(* A step that does not touch the pool.                                    *)
LEMMA UnchangedInv ==
  ASSUME Inv, UNCHANGED poolVars
  PROVE  Inv'
<1> USE DEF poolVars, listVars
<1>1. TypeOK' BY DEF Inv, TypeOK
<1>2. PoolIsList'
  <2>1. PoolIsList BY DEF Inv, ListIntegrity
  <2>2. \A n, s : Represents(s, n, pool)' <=> Represents(s, n, pool)
    BY DEF Represents
  <2> QED BY <2>1, <2>2 DEF PoolIsList
<1>3. UseIsList'
  <2>1. UseIsList BY DEF Inv, ListIntegrity
  <2>2. \A n, s : Represents(s, n, use)' <=> Represents(s, n, use)
    BY DEF Represents
  <2> QED BY <2>1, <2>2 DEF UseIsList
<1>4. StopMatchesCount' BY DEF Inv, StopMatchesCount
<1> QED BY <1>1, <1>2, <1>3, <1>4 DEF Inv, ListIntegrity

(* With a positive count there is a head, and nobody holds it.             *)
LEMMA HeadIsIdle ==
  ASSUME Inv, context_count > 0
  PROVE  pool \in created \ held
<1>1. PICK n \in 0 .. Cardinality(Context) : \E s \in [1 .. n -> Context] :
        /\ Represents(s, n, pool)
        /\ Members(s) = created \ held
        /\ context_count = n
  BY DEF Inv, ListIntegrity, PoolIsList
<1>2. PICK s \in [1 .. n -> Context] :
        /\ Represents(s, n, pool)
        /\ Members(s) = created \ held
        /\ context_count = n
  BY <1>1
<1>3. n # 0 /\ 1 \in 1 .. n
  BY <1>2, ContextAssumption, FS_CardinalityType
<1> QED BY <1>2, <1>3 DEF Represents, Members

-----------------------------------------------------------------------------
(* The inductive invariant: the lists as sequences, and the flag that       *)
(* follows the counter.  (Every function of fpm_coroutine.c keeps it.)      *)
THEOREM Invariance == Spec => []Inv
<1>1. ASSUME Inv, [Next]_poolVars PROVE Inv'
  <2>1. ASSUME NEW c \in Context, InitContext(c) PROVE Inv'
    BY <1>1, <2>1, InitContextInv
  <2>2. ASSUME created = Context, UseContext PROVE Inv'
    BY <1>1, <2>2, UseContextInv
  <2>3. ASSUME NEW c \in held, FreeContext(c) PROVE Inv'
    BY <1>1, <2>3, FreeContextInv
  <2>4. CASE UNCHANGED poolVars
    BY <1>1, <2>4, UnchangedInv
  <2> QED BY <1>1, <2>1, <2>2, <2>3, <2>4 DEF Next
<1> QED BY InitInv, <1>1, PTL DEF Spec

(* Type correctness; the bound on context_count is the substantial part:   *)
(* use_coroutine_context and free_coroutine_context keep the counter within *)
(* the number of contexts main() built.                                    *)
THEOREM TypeCorrectness == Spec => []TypeOK
<1>1. Inv => TypeOK BY DEF Inv
<1> QED BY Invariance, <1>1, PTL

(* Whatever the interleaving of use_coroutine_context and                  *)
(* free_coroutine_context, the next and prev fields link exactly the idle  *)
(* contexts into the pool and exactly the held ones into the use list.     *)
THEOREM ListsAreIntact == Spec => []ListIntegrity
<1>1. Inv => ListIntegrity BY DEF Inv
<1> QED BY Invariance, <1>1, PTL

(* asser_event_stop and asser_event_continue keep the listening event in   *)
(* the loop exactly while some context is idle.                            *)
THEOREM ListenerIsExact == Spec => []ListenerMatchesPool
<1>1. ASSUME Inv PROVE ListenerMatchesPool
  <2> SUFFICES ASSUME created = Context
               PROVE  listener_event_stop <=> held = Context
    BY DEF ListenerMatchesPool
  <2>1. listener_event_stop <=> context_count = 0
    BY <1>1 DEF Inv, StopMatchesCount
  <2>2. PICK n \in 0 .. Cardinality(Context) : \E s \in [1 .. n -> Context] :
          Members(s) = created \ held /\ context_count = n
    BY <1>1 DEF Inv, ListIntegrity, PoolIsList
  <2>3. PICK s \in [1 .. n -> Context] :
          Members(s) = created \ held /\ context_count = n
    BY <2>2
  <2>4. CASE n = 0
    <3>1. Members(s) = {} BY <2>4 DEF Members
    <3>2. held = Context BY <1>1, <2>3, <3>1 DEF Inv, TypeOK
    <3> QED BY <2>1, <2>3, <2>4, <3>2
  <2>5. CASE n # 0
    <3>1. 1 \in 1 .. n
      BY <2>5, ContextAssumption, FS_CardinalityType
    <3>2. s[1] \in Context \ held BY <2>3, <3>1 DEF Members
    <3> QED BY <2>1, <2>3, <2>5, <3>2
  <2> QED BY <2>4, <2>5
<1> QED BY Invariance, <1>1, PTL

(* use_coroutine_context hands out a context that no connection has.       *)
THEOREM HandsOutFreshContexts == Spec => TakeIsFresh
<1>1. ASSUME Inv, [Next]_poolVars
      PROVE  [context_count' < context_count => pool \in created \ held]_poolVars
  <2> SUFFICES ASSUME Next, context_count' < context_count
               PROVE  pool \in created \ held
    BY <1>1
  <2>1. context_count \in Int BY <1>1, ContextAssumption, FS_CardinalityType
                              DEF Inv, TypeOK
  <2>2. \A c \in Context : ~InitContext(c) BY <2>1 DEF InitContext
  <2>3. \A c \in held : ~FreeContext(c) BY <2>1 DEF FreeContext
  <2>4. UseContext BY <2>2, <2>3 DEF Next
  <2> QED BY <1>1, <2>4, HeadIsIdle DEF UseContext
<1> QED BY Invariance, <1>1, PTL DEF Spec, TakeIsFresh

-----------------------------------------------------------------------------
(* What the lists are read as.                                             *)
ReadOff ==
  /\ Members(Listed(use)) = held
  /\ Members(Listed(pool)) = created \ held
  /\ listener_event_stop <=> created = Context /\ context_count = 0

LEMMA ListsAreRead == Inv => ReadOff
<1> SUFFICES ASSUME Inv PROVE ReadOff OBVIOUS
<1>1. PICK n \in 0 .. Cardinality(Context) : \E s \in [1 .. n -> Context] :
        Represents(s, n, pool) /\ Members(s) = created \ held
  BY DEF Inv, ListIntegrity, PoolIsList
<1>2. PICK s \in [1 .. n -> Context] :
        Represents(s, n, pool) /\ Members(s) = created \ held
  BY <1>1
<1>3. PICK m \in 0 .. Cardinality(Context) : \E u \in [1 .. m -> Context] :
        Represents(u, m, use) /\ Members(u) = held
  BY DEF Inv, ListIntegrity, UseIsList
<1>4. PICK u \in [1 .. m -> Context] :
        Represents(u, m, use) /\ Members(u) = held
  BY <1>3
<1>5. Listed(pool) = s /\ Listed(use) = u
  BY <1>2, <1>4, ListedIs DEF Unique
<1> QED BY <1>2, <1>4, <1>5 DEF Inv, StopMatchesCount, ReadOff

LEMMA ListsAreReadNext == (Inv => ReadOff)'
BY ListsAreRead, PTL

(* Every step on the lists is a step of the queue, or leaves it.           *)
LEMMA FifoStep ==
  ASSUME Inv, Inv', [Next]_poolVars
  PROVE  [Fifo!Next]_(Fifo!fifoVars)
<1>1. ReadOff /\ ReadOff' BY ListsAreRead, ListsAreReadNext
<1>2. Fifo!Known = created
  BY <1>1 DEF ReadOff, Fifo!Known, Members, Inv, TypeOK
<1>3. ASSUME NEW c \in Context, InitContext(c) PROVE Fifo!Add(c)
  <2>1. Listed(pool)' = <<c>> \o Listed(pool) BY <1>3, InitContextInv
  <2>2. c \notin Fifo!Known BY <1>2, <1>3 DEF InitContext
  <2>3. Members(Listed(use))' = Members(Listed(use))
        /\ listener_event_stop' = listener_event_stop
    BY <1>1, <1>3 DEF ReadOff, InitContext
  <2> QED BY <2>1, <2>2, <2>3 DEF Fifo!Add
<1>4. ASSUME created = Context, UseContext PROVE Fifo!Take
  <2>1. /\ Listed(pool) # <<>> /\ pool = Head(Listed(pool))
        /\ Listed(pool)' = Tail(Listed(pool))
        /\ listener_event_stop' = (Tail(Listed(pool)) = <<>>)
    BY <1>4, UseContextInv
  <2>2. Members(Listed(use))' = Members(Listed(use)) \cup {pool}
    BY <1>1, <1>4 DEF ReadOff, UseContext
  <2> QED BY <1>2, <1>4, <2>1, <2>2 DEF Fifo!Take
<1>5. ASSUME NEW c \in held, FreeContext(c) PROVE Fifo!Give(c)
  <2>1. Listed(pool)' = Append(Listed(pool), c) /\ listener_event_stop' = FALSE
    BY <1>5, FreeContextInv
  <2>2. /\ c \in Members(Listed(use))
        /\ Members(Listed(use))' = Members(Listed(use)) \ {c}
    BY <1>1, <1>5 DEF ReadOff, FreeContext
  <2> QED BY <2>1, <2>2 DEF Fifo!Give
<1>6. CASE UNCHANGED poolVars
  <2>1. Listed(pool)' = Listed(pool) /\ Listed(use)' = Listed(use)
    BY <1>6 DEF poolVars, listVars, Listed, Represents
  <2> QED BY <1>6, <2>1 DEF Fifo!fifoVars, poolVars, Members
<1>7. held \subseteq Context BY DEF Inv, TypeOK
<1> QED BY <1>3, <1>4, <1>5, <1>6, <1>7 DEF Next, Fifo!Next

(* The lists, their counter and the listening event implement a first-in   *)
(* first-out queue: what free_coroutine_context appends at the end of the  *)
(* pool, use_coroutine_context takes from its head after all that was idle *)
(* before, for any number of contexts.                                     *)
THEOREM PoolIsFifo == Spec => ImplementsFifo
<1>1. Init => Fifo!Init
  <2> SUFFICES ASSUME Init PROVE Fifo!Init OBVIOUS
  <2> DEFINE e == [i \in 1 .. 0 |-> Null]
  <2>1. e \in [1 .. 0 -> Context] OBVIOUS
  <2>2. 0 \in 0 .. Cardinality(Context) BY ContextAssumption, FS_CardinalityType
  <2>3. Represents(e, 0, pool) /\ Represents(e, 0, use) BY DEF Init, Represents
  <2>4. Listed(pool) = e /\ Listed(use) = e
    BY <2>1, <2>2, <2>3, ListedIs DEF Unique
  <2>5. e = <<>> /\ Members(e) = {} BY DEF Members
  <2> QED BY <2>4, <2>5 DEF Init, Fifo!Init
<1>2. Inv /\ Inv' /\ [Next]_poolVars => [Fifo!Next]_(Fifo!fifoVars)
  BY FifoStep
<1> QED BY Invariance, <1>1, <1>2, PTL DEF Spec, ImplementsFifo, Fifo!Spec
=============================================================================
