------------------------ MODULE ParallelTasksProofs ------------------------
(***************************************************************************)
(* What is proved of ParallelTasks for any number of workers, tasks and    *)
(* keys.  ExecutorInvariant is inductive; one lemma for each group of      *)
(* actions shows that a step preserves it and takes no task a second time. *)
(* DeliveryInvariant is inductive too; a second lemma for each group shows *)
(* that a step loses no task that waits and no wake-up.  With both, every  *)
(* step is one of the pool of keyed tasks that the module implements.  The *)
(* last section is about executors whose input factory gives out one task  *)
(* for each call, as those of pages and checkpoints do.                    *)
(***************************************************************************)
EXTENDS ParallelTasksRefinement, SequenceTheorems, FiniteSetTheorems, WellFoundedInduction, TLAPS

-----------------------------------------------------------------------------
(* Sequences and sets of numbers *)

(* What the operators return that the models are built from.  Several lemmas argue by *)
(* a least counterexample where one would write an induction. *)

\* A prefix or a suffix of a sequence is a sequence over the same set.
LEMMA SubSeqType ==
  ASSUME NEW S, NEW s \in Seq(S), NEW m \in Nat \ {0}, NEW n \in Int, n <= Len(s)
  PROVE  /\ SubSeq(s, m, n) \in Seq(S)
         /\ \A i \in 1..n : m = 1 => SubSeq(s, m, n)[i] = s[i]
         /\ Len(SubSeq(s, m, n)) = IF m <= n THEN n - m + 1 ELSE 0
<1>1. Len(s) \in Nat
  BY LenProperties
<1>2. \A i \in m..n : i \in 1..Len(s)
  BY <1>1
<1>3. \A i \in m..n : s[i] \in S
  BY <1>2, ElementOfSeq
<1>4. /\ SubSeq(s, m, n) \in Seq(S)
      /\ Len(SubSeq(s, m, n)) = IF m <= n THEN n - m + 1 ELSE 0
      /\ \A i \in 1 .. n - m + 1 : SubSeq(s, m, n)[i] = s[m + i - 1]
  BY <1>3, SubSeqProperties
<1>5. ASSUME NEW i \in 1..n, m = 1
      PROVE  SubSeq(s, m, n)[i] = s[i]
  <2>1. i \in 1 .. n - m + 1 /\ m + i - 1 = i
    BY <1>5
  <2> QED BY <1>4, <2>1
<1> QED BY <1>4, <1>5

\* Reversing keeps the elements.
LEMMA ReverseType ==
  ASSUME NEW S, NEW s \in Seq(S)
  PROVE  /\ Reverse(s) \in Seq(S)
         /\ Len(Reverse(s)) = Len(s)
         /\ \A i \in 1..Len(s) : Reverse(s)[i] = s[Len(s) - i + 1]
<1>1. Len(s) \in Nat /\ s \in [1..Len(s) -> S]
  BY LenProperties
<1>2. \A i \in 1..Len(s) : (Len(s) - i) + 1 \in 1..Len(s)
  BY <1>1
<1>3. \A i \in 1..Len(s) : s[(Len(s) - i) + 1] \in S
  BY <1>1, <1>2
<1>4. Reverse(s) \in [1..Len(s) -> S]
  BY <1>3 DEF Reverse
<1> QED BY <1>1, <1>4 DEF Reverse

\* The elements of a sequence are its values on 1..Len(s).
LEMMA ElementsOfSeq ==
  ASSUME NEW S, NEW s \in Seq(S)
  PROVE  /\ ToSet(s) = {s[i] : i \in 1..Len(s)}
         /\ ToSet(s) \in SUBSET S
BY LenProperties, ElementOfSeq DEF ToSet

\* A concatenation has the elements of both its parts.
LEMMA ElementsOfConcat ==
  ASSUME NEW S, NEW s \in Seq(S), NEW t \in Seq(S)
  PROVE  /\ s \o t \in Seq(S)
         /\ ToSet(s \o t) = ToSet(s) \cup ToSet(t)
<1>1. Len(s) \in Nat /\ Len(t) \in Nat
  BY LenProperties
<1>2. /\ s \o t \in Seq(S)
      /\ Len(s \o t) = Len(s) + Len(t)
      /\ \A i \in 1 .. Len(s) + Len(t) :
           (s \o t)[i] = IF i <= Len(s) THEN s[i] ELSE t[i - Len(s)]
  BY ConcatProperties
<1>3. /\ ToSet(s) = {s[i] : i \in 1..Len(s)} /\ ToSet(t) = {t[i] : i \in 1..Len(t)}
      /\ ToSet(s \o t) = {(s \o t)[i] : i \in 1 .. Len(s) + Len(t)}
  BY <1>2, ElementsOfSeq
<1>4. ASSUME NEW x \in ToSet(s \o t)
      PROVE  x \in ToSet(s) \cup ToSet(t)
  <2>1. PICK i \in 1 .. Len(s) + Len(t) : x = (s \o t)[i]
    BY <1>3
  <2>2. CASE i <= Len(s)
    <3>1. i \in 1..Len(s) /\ x = s[i]
      BY <1>1, <1>2, <2>1, <2>2
    <3> QED BY <1>3, <3>1
  <2>3. CASE ~(i <= Len(s))
    <3>1. i - Len(s) \in 1..Len(t) /\ x = t[i - Len(s)]
      BY <1>1, <1>2, <2>1, <2>3
    <3> QED BY <1>3, <3>1
  <2> QED BY <2>2, <2>3
<1>5. ASSUME NEW i \in 1..Len(s)
      PROVE  s[i] \in ToSet(s \o t)
  <2>1. i \in 1 .. Len(s) + Len(t) /\ s[i] = (s \o t)[i]
    BY <1>1, <1>2
  <2> QED BY <1>3, <2>1
<1>6. ASSUME NEW i \in 1..Len(t)
      PROVE  t[i] \in ToSet(s \o t)
  <2>1. i + Len(s) \in 1 .. Len(s) + Len(t) /\ ~(i + Len(s) <= Len(s)) /\ (i + Len(s)) - Len(s) = i
    BY <1>1
  <2>2. t[i] = (s \o t)[i + Len(s)]
    BY <1>2, <2>1
  <2> QED BY <1>3, <2>1, <2>2
<1> QED BY <1>2, <1>3, <1>4, <1>5, <1>6

\* A nonempty set of natural numbers has a least element.
LEMMA LeastElement ==
  ASSUME NEW T \in SUBSET Nat, T # {}
  PROVE  \E m \in T : \A k \in T : m <= k
<1> DEFINE R == OpToRel(<, Nat)
<1>1. IsWellFoundedOn(R, Nat)
  BY NatLessThanWellFounded
<1> HIDE DEF R
<1>2. PICK m \in T : \A k \in T : <<k, m>> \notin R
  BY <1>1, WFMin
<1>3. \A k \in T : ~(k < m)
  BY <1>2 DEF R, OpToRel
<1> QED BY <1>3

\* Min returns it.
LEMMA MinIsLeast ==
  ASSUME NEW T \in SUBSET Nat, T # {}
  PROVE  Min(T) \in T /\ \A k \in T : Min(T) <= k
BY LeastElement DEF Min

\* A nonempty set of numbers up to n has a greatest element, and Max returns it.
LEMMA MaxIsGreatest ==
  ASSUME NEW n \in Nat, NEW T \in SUBSET (1..n), T # {}
  PROVE  Max(T) \in T /\ \A k \in T : k <= Max(T)
<1> DEFINE U == {n - k : k \in T}
<1>0. \A k \in T : k \in Nat /\ n - k \in Nat
  OBVIOUS
<1>1. U \in SUBSET Nat /\ U # {}
  <2>1. PICK k \in T : TRUE
    OBVIOUS
  <2>2. n - k \in U
    OBVIOUS
  <2> QED BY <1>0, <2>2
<1>2. PICK m \in U : \A k \in U : m <= k
  BY <1>1, LeastElement
<1>3. PICK g \in T : m = n - g
  OBVIOUS
<1>4. \A k \in T : k <= g
  <2>1. SUFFICES ASSUME NEW k \in T PROVE k <= g
    OBVIOUS
  <2>2. n - k \in U
    OBVIOUS
  <2>3. n - g <= n - k
    BY <1>2, <1>3, <2>2
  <2>4. k \in Nat /\ g \in Nat
    BY <1>0
  <2> HIDE DEF U
  <2> QED BY <2>3, <2>4
<1> QED BY <1>0, <1>4 DEF Max

\* f is what the recursion inside FlattenSeq(ss) computes on 1..n.
Unroll(ss, f, n) == f = [i \in 1..n |-> IF i = 1 THEN ss[i] ELSE f[i - 1] \o ss[i]]

\* The recursion inside FlattenSeq() has a solution, whatever its length.
LEMMA FlattenExists ==
  ASSUME NEW ss, NEW n \in Nat
  PROVE  \E f : Unroll(ss, f, n)
<1> DEFINE T == {m \in Nat : ~ \E f : Unroll(ss, f, m)}
<1>1. SUFFICES ASSUME n \in T PROVE FALSE
  OBVIOUS
<1>2. PICK m \in T : \A k \in T : m <= k
  BY <1>1, LeastElement
<1>3. CASE m = 0
  <2> DEFINE g == [i \in 1..0 |-> ss[i]]
  <2>1. Unroll(ss, g, 0)
    BY DEF Unroll
  <2> QED BY <1>3, <2>1
<1>4. CASE m # 0
  <2>1. m - 1 \in Nat /\ m - 1 \notin T
    BY <1>2, <1>4
  <2>2. PICK f : Unroll(ss, f, m - 1)
    BY <2>1
  <2> DEFINE g == [i \in 1..m |->
                     IF i < m THEN f[i] ELSE IF m = 1 THEN ss[1] ELSE f[m - 1] \o ss[m]]
  <2>3. \A i \in 1 .. m - 1 : f[i] = IF i = 1 THEN ss[i] ELSE f[i - 1] \o ss[i]
    BY <2>1, <2>2 DEF Unroll
  <2>4. \A i \in 1..m : g[i] = IF i = 1 THEN ss[i] ELSE g[i - 1] \o ss[i]
    <3>1. SUFFICES ASSUME NEW i \in 1..m
                   PROVE  g[i] = IF i = 1 THEN ss[i] ELSE g[i - 1] \o ss[i]
      OBVIOUS
    <3>2. m \in Nat
      OBVIOUS
    <3>3. CASE i < m
      BY <2>3, <3>2, <3>3
    <3>4. CASE i = m
      BY <3>4, <3>2, <1>4
    <3> QED BY <3>3, <3>4, <3>2
  <2>5. g = [i \in 1..m |-> IF i = 1 THEN ss[i] ELSE g[i - 1] \o ss[i]]
    BY <2>4
  <2> QED BY <2>5 DEF Unroll
<1> QED BY <1>3, <1>4

\* F holds what FlattenSeq(ss) has gathered at each of n elements.
Gathers(ss, F, n) ==
  /\ FlattenSeq(ss) = F[n]
  /\ \A i \in 1..n : F[i] = IF i = 1 THEN ss[i] ELSE F[i - 1] \o ss[i]

LEMMA FlattenUnrolls ==
  ASSUME NEW S, NEW n \in Nat \ {0}, NEW ss \in [1..n -> Seq(S)]
  PROVE  \E F : Gathers(ss, F, n)
<1> DEFINE F == CHOOSE f : Unroll(ss, f, n)
<1>1. Len(ss) = n /\ ss \in Seq(Seq(S)) /\ n # 0
  OBVIOUS
<1>2. Unroll(ss, F, n)
  BY FlattenExists
<1>3. FlattenSeq(ss) = F[n]
  BY <1>1 DEF FlattenSeq, Unroll
<1> HIDE DEF F
<1>4. \A i \in 1..n : F[i] = IF i = 1 THEN ss[i] ELSE F[i - 1] \o ss[i]
  BY <1>2 DEF Unroll
<1> QED BY <1>3, <1>4 DEF Gathers

\* The concatenation of sequences over S is a sequence over S, and has their elements.
LEMMA FlattenType ==
  ASSUME NEW S, NEW n \in Nat, NEW ss \in [1..n -> Seq(S)]
  PROVE  /\ FlattenSeq(ss) \in Seq(S)
         /\ ToSet(FlattenSeq(ss)) = UNION {ToSet(ss[i]) : i \in 1..n}
<1>1. Len(ss) = n /\ ss \in Seq(Seq(S))
  OBVIOUS
<1>2. CASE n = 0
  <2>1. ss = << >>
    BY <1>2
  <2>2. FlattenSeq(ss) = << >>
    BY <1>1, <1>2, <2>1 DEF FlattenSeq
  <2>3. ToSet(<< >>) = {} /\ 1..n = {}
    BY <1>2 DEF ToSet
  <2> QED BY <2>2, <2>3
<1>3. CASE n # 0
  <2>1. PICK F : Gathers(ss, F, n)
    <3>1. n \in Nat \ {0}
      BY <1>3
    <3> QED BY <3>1, FlattenUnrolls
  <2> DEFINE Flat(m) == /\ F[m] \in Seq(S)
                        /\ ToSet(F[m]) = UNION {ToSet(ss[i]) : i \in 1..m}
             T == {m \in 1..n : ~Flat(m)}
  <2>2. FlattenSeq(ss) = F[n]
    BY <2>1 DEF Gathers
  <2>3. \A i \in 1..n : F[i] = IF i = 1 THEN ss[i] ELSE F[i - 1] \o ss[i]
    BY <2>1 DEF Gathers
  <2>4. SUFFICES ASSUME T # {} PROVE FALSE
    <3>1. n \in 1..n
      BY <1>3
    <3>2. T = {} => Flat(n)
      BY <3>1
    <3> QED BY <2>2, <3>2
  <2>5. T \in SUBSET Nat
    OBVIOUS
  <2>6. PICK m \in T : \A k \in T : m <= k
    BY <2>4, <2>5, LeastElement
  <2>7. m \in 1..n /\ ~Flat(m) /\ ss[m] \in Seq(S)
    OBVIOUS
  <2>8. CASE m = 1
    <3>1. F[m] = ss[m] /\ 1..m = {1}
      BY <2>3, <2>7, <2>8
    <3> QED BY <2>7, <2>8, <3>1
  <2>9. CASE m # 1
    <3>1. m - 1 \in 1..n /\ m - 1 \notin T
      <4> HIDE DEF Flat
      <4> QED BY <2>6, <2>7, <2>9
    <3>2. Flat(m - 1)
      BY <3>1
    <3>3. F[m] = F[m - 1] \o ss[m]
      BY <2>3, <2>7, <2>9
    <3>4. F[m - 1] \o ss[m] \in Seq(S) /\ ToSet(F[m - 1] \o ss[m]) = ToSet(F[m - 1]) \cup ToSet(ss[m])
      BY <2>7, <3>2, ElementsOfConcat
    <3>5. 1..m = 1..(m - 1) \cup {m}
      BY <2>7, <2>9
    <3>6. UNION {ToSet(ss[i]) : i \in 1..m} = (UNION {ToSet(ss[i]) : i \in 1..(m - 1)}) \cup ToSet(ss[m])
      BY <3>5
    <3> QED BY <2>7, <3>2, <3>3, <3>4, <3>6
  <2> QED BY <2>8, <2>9
<1> QED BY <1>2, <1>3

\* s has the values of f, each once, in an order that puts none later than its place
\* among 1..n.
KeepsOrder(s, f, n) ==
  /\ Len(s) = Cardinality(DOMAIN f)
  /\ \E pos \in [1..Len(s) -> DOMAIN f] :
       /\ \A j \in 1..Len(s) : s[j] = f[pos[j]] /\ j <= pos[j]
       /\ \A i \in DOMAIN f : \E j \in 1..Len(s) : pos[j] = i
       /\ DOMAIN f = 1..n => \A j \in 1..Len(s) : pos[j] = j

\* Flattening sequences of at most one element keeps the elements there are, each once,
\* and none later than where it stood.
LEMMA FlattenKeeps ==
  ASSUME NEW S, NEW n \in Nat, NEW ss \in [1..n -> Seq(S)],
         \A i \in 1..n : Len(ss[i]) <= 1
  PROVE  /\ FlattenSeq(ss) \in Seq(S)
         /\ KeepsOrder(FlattenSeq(ss), [i \in {k \in 1..n : ss[k] # << >>} |-> ss[i][1]], n)
<1> DEFINE kept(m) == {i \in 1..m : ss[i] # << >>}
           Places(f, m, pos) ==
             /\ pos \in [1..Len(f) -> kept(m)]
             /\ \A j \in 1..Len(f) : f[j] = ss[pos[j]][1] /\ j <= pos[j]
             /\ \A i \in kept(m) : \E j \in 1..Len(f) : pos[j] = i
             /\ kept(m) = 1..m => \A j \in 1..Len(f) : pos[j] = j
           Keeps(f, m) == /\ f \in Seq(S) /\ Len(f) = Cardinality(kept(m))
                          /\ \E pos : Places(f, m, pos)
<1>1. Keeps(<< >>, 0)
  <2>1. kept(0) = {} /\ Cardinality({}) = 0
    BY FS_EmptySet
  <2>2. 1..Len(<< >>) = {} /\ << >> \in Seq(S) /\ Len(<< >>) = 0
    OBVIOUS
  <2>3. Places(<< >>, 0, [j \in {} |-> j])
    BY <2>1, <2>2
  <2> QED BY <2>1, <2>2, <2>3
<1>2. ASSUME NEW f, NEW m \in 1..n, Keeps(f, m - 1)
      PROVE  Keeps(f \o ss[m], m)
  <2>1. m \in Nat /\ m - 1 \in Nat /\ ss[m] \in Seq(S) /\ f \in Seq(S) /\ Len(f) \in Nat
    BY <1>2, LenProperties
  <2>2. PICK pos : Places(f, m - 1, pos)
    BY <1>2
  <2>3. /\ IsFiniteSet(kept(m - 1)) /\ Cardinality(kept(m - 1)) = Len(f)
        /\ Len(f) <= m - 1 /\ (kept(m - 1) = 1..(m - 1) => Len(f) = m - 1)
    <3>1. IsFiniteSet(1..(m - 1)) /\ Cardinality(1..(m - 1)) = m - 1
      <4>1. 1 \in Int /\ m - 1 \in Int
        BY <2>1
      <4>2. /\ IsFiniteSet(1..(m - 1))
            /\ Cardinality(1..(m - 1)) = IF 1 > m - 1 THEN 0 ELSE m - 1 - 1 + 1
        BY <4>1, FS_Interval
      <4> QED BY <2>1, <4>2
    <3>2. kept(m - 1) \in SUBSET (1..(m - 1))
      OBVIOUS
    <3> HIDE DEF kept
    <3> QED BY <1>2, <3>1, <3>2, FS_Subset
  <2>4. CASE ss[m] = << >>
    <3>1. f \o ss[m] = f
      BY <2>1, <2>4, ConcatEmptySeq
    <3>2. kept(m) = kept(m - 1) /\ m \notin kept(m)
      BY <2>1, <2>4
    <3>3. kept(m) # 1..m
      BY <2>1, <3>2
    <3> HIDE DEF kept
    <3>4. Places(f, m, pos)
      BY <2>2, <3>2, <3>3
    <3>5. f \in Seq(S) /\ Len(f) = Cardinality(kept(m))
      BY <1>2, <3>2
    <3> HIDE DEF Places
    <3> QED BY <3>1, <3>4, <3>5
  <2>5. CASE ss[m] # << >>
    <3>1. PICK x \in S : ss[m] = <<x>>
      <4>1. Len(ss[m]) = 1
        <5>1. PICK l \in Nat \ {0} : Len(ss[m]) = l
          BY <2>1, <2>5, EmptySeq
        <5>2. l <= 1
          BY <5>1
        <5>3. l = 1
          BY <5>1, <5>2
        <5> QED BY <5>1, <5>3
      <4>2. ss[m][1] \in S
        <5>1. 1 \in 1..Len(ss[m])
          BY <4>1
        <5> QED BY <2>1, <5>1, ElementOfSeq
      <4>3. \A i \in 1..Len(ss[m]) : ss[m][i] = <<ss[m][1]>>[i]
        BY <4>1
      <4>4. <<ss[m][1]>> \in Seq(S) /\ Len(ss[m]) = Len(<<ss[m][1]>>)
        BY <4>1, <4>2
      <4>5. ss[m] = <<ss[m][1]>>
        BY <2>1, <4>3, <4>4, SeqEqual
      <4> QED BY <4>2, <4>5
    <3>2. /\ f \o <<x>> \in Seq(S) /\ Len(f \o <<x>>) = Len(f) + 1
          /\ \A j \in 1..Len(f) : (f \o <<x>>)[j] = f[j]
          /\ (f \o <<x>>)[Len(f) + 1] = x
      BY <2>1
    <3>3. kept(m) = kept(m - 1) \cup {m} /\ m \notin kept(m - 1) /\ kept(m - 1) \in SUBSET (1..(m - 1))
      BY <2>1, <2>5
    <3>4. kept(m) = 1..m => kept(m - 1) = 1..(m - 1)
      BY <2>1, <3>3
    <3> DEFINE g == f \o <<x>>
               c == Len(f)
               new == [j \in 1..(c + 1) |-> IF j = c + 1 THEN m ELSE pos[j]]
    <3> HIDE DEF kept
    <3>5. Cardinality(kept(m)) = c + 1
      BY <2>3, <3>3, FS_AddElement
    <3>6. /\ pos \in [1..c -> kept(m - 1)]
          /\ \A j \in 1..c : f[j] = ss[pos[j]][1] /\ j <= pos[j]
          /\ \A i \in kept(m - 1) : \E j \in 1..c : pos[j] = i
          /\ kept(m - 1) = 1..(m - 1) => \A j \in 1..c : pos[j] = j
      BY <2>2
    <3>7. Len(g) = c + 1 /\ (\A j \in 1..c : g[j] = f[j]) /\ g[c + 1] = x
      BY <3>2
    <3> HIDE DEF g, c
    <3>8. c \in Nat /\ c <= m - 1 /\ (kept(m - 1) = 1..(m - 1) => c = m - 1)
      BY <2>1, <2>3 DEF c
    <3>9. \A j \in 1..(c + 1) : j = c + 1 \/ j \in 1..c
      BY <3>8
    <3>10. new \in [1..(c + 1) -> kept(m)]
      BY <3>3, <3>6, <3>9
    <3>11. \A j \in 1..(c + 1) : g[j] = ss[new[j]][1] /\ j <= new[j]
      <4>1. SUFFICES ASSUME NEW j \in 1..(c + 1)
                     PROVE  g[j] = ss[new[j]][1] /\ j <= new[j]
        OBVIOUS
      <4>2. CASE j = c + 1
        BY <2>1, <3>1, <3>7, <3>8, <4>2
      <4>3. CASE j # c + 1
        <5>1. j \in 1..c
          BY <3>9, <4>3
        <5> QED BY <3>6, <3>7, <4>3, <5>1
      <4> QED BY <4>2, <4>3
    <3>12. \A i \in kept(m) : \E j \in 1..(c + 1) : new[j] = i
      <4>1. SUFFICES ASSUME NEW i \in kept(m)
                     PROVE  \E j \in 1..(c + 1) : new[j] = i
        OBVIOUS
      <4>2. CASE i = m
        <5>1. c + 1 \in 1..(c + 1)
          BY <3>8
        <5> QED BY <4>2, <5>1
      <4>3. CASE i # m
        <5>1. PICK j \in 1..c : pos[j] = i
          BY <3>3, <3>6, <4>3
        <5>2. j \in 1..(c + 1) /\ j # c + 1
          BY <3>8
        <5> QED BY <5>1, <5>2
      <4> QED BY <4>2, <4>3
    <3>13. kept(m) = 1..m => \A j \in 1..(c + 1) : new[j] = j
      BY <2>1, <3>4, <3>6, <3>8, <3>9
    <3> HIDE DEF new
    <3>14. Places(g, m, new)
      BY <3>7, <3>10, <3>11, <3>12, <3>13
    <3>15. f \o ss[m] = g /\ g \in Seq(S)
      BY <3>1, <3>2 DEF g
    <3> HIDE DEF Places
    <3> QED BY <3>5, <3>7, <3>14, <3>15
  <2> QED BY <2>4, <2>5
<1>3. Keeps(FlattenSeq(ss), n)
  <2>1. CASE n = 0
    <3>1. ss = << >> /\ Len(ss) = 0
      BY <2>1
    <3>2. FlattenSeq(ss) = << >>
      BY <3>1 DEF FlattenSeq
    <3> HIDE DEF Keeps
    <3> QED BY <1>1, <2>1, <3>2
  <2>2. CASE n # 0
    <3>1. PICK F : Gathers(ss, F, n)
      <4>1. n \in Nat \ {0}
        BY <2>2
      <4> QED BY <4>1, FlattenUnrolls
    <3> HIDE DEF Keeps
    <3> DEFINE T == {m \in 1..n : ~Keeps(F[m], m)}
    <3>2. SUFFICES ASSUME T # {} PROVE FALSE
      <4>1. n \in 1..n
        BY <2>2
      <4> QED BY <3>1, <4>1 DEF Gathers
    <3>3. PICK m \in T : \A k \in T : m <= k
      <4>1. T \in SUBSET Nat
        OBVIOUS
      <4> QED BY <3>2, <4>1, LeastElement
    <3>4. m \in 1..n /\ ~Keeps(F[m], m) /\ ss[m] \in Seq(S)
      OBVIOUS
    <3>5. CASE m = 1
      <4>1. F[m] = << >> \o ss[m] /\ m - 1 = 0
        BY <3>1, <3>4, <3>5, ConcatEmptySeq DEF Gathers
      <4>2. Keeps(<< >>, m - 1)
        BY <1>1, <4>1
      <4> QED BY <1>2, <3>4, <4>1, <4>2
    <3>6. CASE m # 1
      <4>1. m - 1 \in 1..n /\ m - 1 \notin T
        BY <3>3, <3>4, <3>6
      <4>2. Keeps(F[m - 1], m - 1)
        BY <4>1
      <4>3. F[m] = F[m - 1] \o ss[m]
        BY <3>1, <3>4, <3>6 DEF Gathers
      <4> QED BY <1>2, <3>4, <4>2, <4>3
    <3> QED BY <3>5, <3>6
  <2> QED BY <2>1, <2>2
<1>4. /\ FlattenSeq(ss) \in Seq(S) /\ Len(FlattenSeq(ss)) = Cardinality(kept(n))
      /\ \E pos : Places(FlattenSeq(ss), n, pos)
  BY <1>3
<1> DEFINE flat == FlattenSeq(ss)
           f == [i \in {k \in 1..n : ss[k] # << >>} |-> ss[i][1]]
<1>5. DOMAIN f = kept(n) /\ \A i \in kept(n) : f[i] = ss[i][1]
  OBVIOUS
<1> HIDE DEF flat, f, kept
<1>6. PICK pos : Places(flat, n, pos)
  BY <1>4 DEF flat
<1>7. /\ pos \in [1..Len(flat) -> DOMAIN f]
      /\ \A j \in 1..Len(flat) : flat[j] = f[pos[j]] /\ j <= pos[j]
      /\ \A i \in DOMAIN f : \E j \in 1..Len(flat) : pos[j] = i
      /\ DOMAIN f = 1..n => \A j \in 1..Len(flat) : pos[j] = j
  BY <1>5, <1>6
<1>8. KeepsOrder(flat, f, n)
  BY <1>4, <1>5, <1>7 DEF KeepsOrder, flat
<1> QED BY <1>4, <1>8 DEF flat, f

-----------------------------------------------------------------------------
(* The executor *)

\* What a step does to the tasks taken: none is forgotten, and a task that is held
\* after the step and was taken before it was held before it.
NoneRetaken ==
  /\ visitedTaskIndexes \subseteq visitedTaskIndexes'
  /\ Held' \cap visitedTaskIndexes \subseteq Held

HoldingStages == {"chosen", "running", "failed", "orphaned"}

-----------------------------------------------------------------------------
(* Types of the helpers *)

LEMMA ProducedTasks == ASSUME TypeOK PROVE Produced \subseteq Task
<1>1. baseI \in 0..TaskCount
  BY DEF TypeOK
<1> QED BY <1>1, TaskCountAssumption DEF Produced, Task

LEMMA NoTaskIsNoTask == NoTask \notin Task
<1>1. Task \subseteq Nat
  BY TaskCountAssumption DEF Task
<1> QED BY <1>1, NoTaskAssumption

LEMMA KeysType ==
  ASSUME TypeOK, NEW t \in Task
  PROVE  keysOf[t] \in Seq(Key) /\ KeysOf(t) \in SUBSET Key
<1>1. keysOf[t] \in Seq(Key)
  BY KeyListsAssumption DEF TypeOK
<1>2. \A i \in 1..Len(keysOf[t]) : keysOf[t][i] \in Key
  BY <1>1, ElementOfSeq
<1> QED BY <1>1, <1>2 DEF KeysOf

LEMMA CandidatesType ==
  ASSUME TypeOK, NEW t \in Task \cup {NoTask}
  PROVE  /\ Candidates(t) \in Seq(Task)
         /\ Len(Candidates(t)) - 1 <= Len(incompleteTasks)
<1>1. incompleteTasks \in Seq(Task)
  BY DEF TypeOK
<1>2. Reverse(incompleteTasks) \in Seq(Task) /\ Len(Reverse(incompleteTasks)) = Len(incompleteTasks)
  BY <1>1, ReverseType
<1>3. t # NoTask => t \in Task
  OBVIOUS
<1> QED BY <1>1, <1>2, <1>3, LenProperties DEF Candidates

\* A task is skipped onto the lists of the keys it has, unless it was taken.
LEMMA ParkedTasks ==
  ASSUME TypeOK, NEW s \in Seq(Task), NEW k \in Key
  PROVE  /\ Parked(s, k) \in Seq(Task)
         /\ ToSet(Parked(s, k)) = {t \in ToSet(s) : t \notin visitedTaskIndexes /\ k \in KeysOf(t)}
<1> DEFINE Uses(p) == {i \in 1..Len(keysOf[s[p]]) : keysOf[s[p]][i] = k}
           Part(p) == IF s[p] \in visitedTaskIndexes THEN << >>
                      ELSE [n \in 1..Cardinality(Uses(p)) |-> s[p]]
           ss == [p \in 1..Len(s) |-> Part(p)]
<1>1. Len(s) \in Nat /\ \A p \in 1..Len(s) : s[p] \in Task
  BY LenProperties, ElementOfSeq
<1>2. ASSUME NEW p \in 1..Len(s)
      PROVE  /\ Part(p) \in Seq(Task)
             /\ ToSet(Part(p)) =
                  {t \in {s[p]} : t \notin visitedTaskIndexes /\ k \in KeysOf(t)}
  <2>1. s[p] \in Task /\ Len(keysOf[s[p]]) \in Nat
    BY <1>1, KeysType, LenProperties
  <2>2. IsFiniteSet(1..Len(keysOf[s[p]]))
    BY <2>1, FS_Interval
  <2>3. IsFiniteSet(Uses(p)) /\ Cardinality(Uses(p)) \in Nat
    BY <2>2, FS_Subset, FS_CardinalityType
  <2>4. Cardinality(Uses(p)) = 0 <=> k \notin KeysOf(s[p])
    <3>1. Cardinality(Uses(p)) = 0 <=> Uses(p) = {}
      BY <2>3, FS_EmptySet
    <3>2. Uses(p) = {} <=> k \notin KeysOf(s[p])
      BY DEF KeysOf
    <3> QED BY <3>1, <3>2
  <2> HIDE DEF Uses
  <2>5. CASE s[p] \in visitedTaskIndexes
    <3>1. Part(p) = << >> /\ ToSet(<< >>) = {} /\ << >> \in Seq(Task)
      BY <2>5 DEF ToSet
    <3> QED BY <2>5, <3>1
  <2>6. CASE s[p] \notin visitedTaskIndexes
    <3> DEFINE c == Cardinality(Uses(p))
               copies == [n \in 1..c |-> s[p]]
    <3>1. Part(p) = copies
      BY <2>6
    <3> HIDE DEF c
    <3>2. c \in Nat
      BY <2>3 DEF c
    <3>3. copies \in Seq(Task) /\ Len(copies) = c /\ \A n \in 1..c : copies[n] = s[p]
      BY <2>1, <3>2
    <3>4. ToSet(copies) = {copies[n] : n \in 1..c}
      BY <3>3, ElementsOfSeq
    <3>5. ToSet(copies) = IF c = 0 THEN {} ELSE {s[p]}
      <4>1. c = 0 => 1..c = {}
        OBVIOUS
      <4>2. c # 0 => 1 \in 1..c
        BY <3>2
      <4> QED BY <3>3, <3>4, <4>1, <4>2
    <3>6. c = 0 <=> k \notin KeysOf(s[p])
      BY <2>4 DEF c
    <3> QED BY <2>6, <3>1, <3>3, <3>5, <3>6
  <2> QED BY <2>5, <2>6
<1> HIDE DEF Part
<1>3. ss \in [1..Len(s) -> Seq(Task)]
  BY <1>2
<1>4. /\ FlattenSeq(ss) \in Seq(Task)
      /\ ToSet(FlattenSeq(ss)) = UNION {ToSet(ss[p]) : p \in 1..Len(s)}
  BY <1>1, <1>3, FlattenType
<1>5. Parked(s, k) = FlattenSeq(ss)
  BY DEF Parked, Part
<1>6. UNION {ToSet(ss[p]) : p \in 1..Len(s)}
        = {t \in ToSet(s) : t \notin visitedTaskIndexes /\ k \in KeysOf(t)}
  <2>1. ToSet(s) = {s[p] : p \in 1..Len(s)}
    BY ElementsOfSeq
  <2> QED BY <1>2, <2>1
<1> QED BY <1>4, <1>5, <1>6

LEMMA ParkType ==
  ASSUME TypeOK, NEW s \in Seq(Task), Park(s)
  PROVE  waitingConcurrentTasks' \in [Key -> Seq(Task)]
BY ParkedTasks, ConcatProperties DEF Park, TypeOK

-----------------------------------------------------------------------------
(* The tasks held *)

\* A step that changes neither who holds which task nor the reservations keeps the
\* facts about them.
LEMMA HeldUnchanged ==
  ASSUME ExecutorInvariant,
         UNCHANGED <<keysOf, currentParellelTaskKeys, visitedTaskIndexes>>,
         \A x \in Worker : (pc'[x] \in HoldingStages /\ hand'[x] # NoTask) <=> Holds(x),
         \A x \in Worker : Holds(x) => hand'[x] = hand[x]
  PROVE  HeldTasksAreApart' /\ ReservedKeysAreHeld' /\ NoneRetaken
<1>1. \A x \in Worker : Holds(x)' <=> Holds(x)
  BY DEF Holds, HoldingStages
<1>2. Held' = Held
  BY <1>1 DEF Held
<1>3. \A t : KeysOf(t)' = KeysOf(t)
  BY DEF KeysOf
<1>4. HeldTasksAreApart'
  BY <1>1, <1>2, <1>3 DEF ExecutorInvariant, HeldTasksAreApart
<1>5. UNION {KeysOf(t)' : t \in Held'} = UNION {KeysOf(t) : t \in Held}
  BY <1>2, <1>3
<1>6. ReservedKeysAreHeld'
  BY <1>5 DEF ExecutorInvariant, ReservedKeysAreHeld
<1> QED BY <1>2, <1>4, <1>6 DEF NoneRetaken

\* A worker that moves between stages in which no request of it is pending leaves
\* the requests of the others as they are.
LEMMA OneWorkerMoves ==
  ASSUME ExecutorInvariant,
         NEW w \in Worker, pc[w] # "queued",
         NEW s \in Stage \ {"factory", "queued"}, pc' = [pc EXCEPT ![w] = s],
         NEW t \in Task \cup {NoTask}, hand' = [hand EXCEPT ![w] = t],
         s = "timer" => t = NoTask,
         s \in {"running", "failed"} => t # NoTask,
         UNCHANGED <<requestTasksQueue, isFulfillingTask>>
  PROVE  HandsAgree' /\ QueueAgrees' /\ FactoryCallIsFlagged' /\ OneFactoryCallAtATime'
<1>1. /\ pc \in [Worker -> Stage]
      /\ hand \in [Worker -> Task \cup {NoTask}]
      /\ requestTasksQueue \in Seq(Worker)
  BY DEF ExecutorInvariant, TypeOK
<1>2. /\ pc'[w] = s /\ hand'[w] = t
      /\ \A x \in Worker : x # w => pc'[x] = pc[x] /\ hand'[x] = hand[x]
  BY <1>1
<1>3. HandsAgree'
  BY <1>2 DEF ExecutorInvariant, HandsAgree
<1>4. \A i \in 1..Len(requestTasksQueue) : requestTasksQueue[i] \in Worker
  BY <1>1, ElementOfSeq
<1>5. QueueAgrees'
  BY <1>2, <1>4 DEF ExecutorInvariant, QueueAgrees
<1>6. OneFactoryCallAtATime'
  BY <1>2 DEF ExecutorInvariant, OneFactoryCallAtATime
<1>7. FactoryCallIsFlagged'
  BY <1>2 DEF ExecutorInvariant, FactoryCallIsFlagged, OneFactoryCallAtATime
<1> QED BY <1>3, <1>5, <1>6, <1>7

-----------------------------------------------------------------------------
(* fulfillRequestMoreTasks() *)

\* The first `served' workers of a line are handed something; the next one, if
\* there is one, calls the factory; the others stay where they are.
HandedOut(line, stack, served) ==
  /\ stack = << >> => served = 1
  /\ stack # << >> => served <= Len(stack)
  /\ incompleteTasks' \in Seq(Task)
  /\ incompleteTasks' = SubSeq(stack, 1, Len(stack) - served)
  /\ pc' \in [Worker -> Stage]
  /\ hand' \in [Worker -> Task \cup {NoTask}]
  /\ isFulfillingTask' = (Len(line) > served)
  /\ \A i \in 1..Len(line) :
       /\ i <= served =>
            /\ pc'[line[i]] = "handed"
            /\ hand'[line[i]] = IF stack = << >> THEN NoTask ELSE stack[Len(stack) - i + 1]
       /\ i = served + 1 => pc'[line[i]] = "factory"
       /\ i > served => hand'[line[i]] = hand[line[i]]
       /\ i > served + 1 => pc'[line[i]] = pc[line[i]]
  /\ \A x \in Worker :
       (\A i \in 1..Len(line) : line[i] # x) => pc'[x] = pc[x] /\ hand'[x] = hand[x]

LEMMA HandOutEffect ==
  ASSUME ExecutorInvariant,
         NEW line \in Seq(Worker), Len(line) >= 1,
         \A i, j \in 1..Len(line) : line[i] = line[j] => i = j,
         NEW stack \in Seq(Task),
         HandOut(line, stack)
  PROVE  \E served \in 1..Len(line) : HandedOut(line, stack, served)
<1> DEFINE served == IF stack = << >> THEN 1 ELSE Min({Len(line), Len(stack)})
           gift(i) == IF stack = << >> THEN NoTask ELSE stack[Len(stack) - i + 1]
           turn(x) == {i \in 1..Len(line) : line[i] = x}
<1>1. Len(line) \in Nat /\ Len(stack) \in Nat /\ (stack # << >> => Len(stack) >= 1)
  BY LenProperties, EmptySeq
<1>2. served \in 1..Len(line) /\ (stack # << >> => served <= Len(stack))
  <2>1. CASE stack = << >>
    BY <1>1, <2>1
  <2>2. CASE stack # << >>
    <3>1. /\ Min({Len(line), Len(stack)}) \in {Len(line), Len(stack)}
          /\ \A k \in {Len(line), Len(stack)} : Min({Len(line), Len(stack)}) <= k
      BY <1>1, MinIsLeast
    <3> QED BY <1>1, <2>2, <3>1
  <2> QED BY <2>1, <2>2
<1>3. \A i \in 1..served : gift(i) \in Task \cup {NoTask}
  <2>1. SUFFICES ASSUME NEW i \in 1..served, stack # << >>
                 PROVE  stack[Len(stack) - i + 1] \in Task
    OBVIOUS
  <2>2. Len(stack) - i + 1 \in 1..Len(stack)
    BY <1>1, <1>2, <2>1
  <2> QED BY <2>2, ElementOfSeq
<1>4. /\ incompleteTasks' = SubSeq(stack, 1, Len(stack) - served)
      /\ hand' = [x \in Worker |->
           IF turn(x) \cap 1..served = {} THEN hand[x] ELSE gift(Min(turn(x)))]
      /\ pc' = [x \in Worker |->
           IF turn(x) \cap 1..served # {} THEN "handed"
           ELSE IF served + 1 \in turn(x) THEN "factory" ELSE pc[x]]
      /\ isFulfillingTask' = (Len(line) > served)
  BY Zenon DEF HandOut
<1>5. pc \in [Worker -> Stage] /\ hand \in [Worker -> Task \cup {NoTask}]
  BY DEF ExecutorInvariant, TypeOK
<1>6. served \in Nat
  BY <1>1, <1>2
<1> HIDE DEF served, gift
<1>7. \A i \in 1..Len(line) : line[i] \in Worker /\ turn(line[i]) = {i}
  BY ElementOfSeq
<1>8. \A x \in Worker : turn(x) \cap 1..served # {} => gift(Min(turn(x))) \in Task \cup {NoTask}
  <2>1. SUFFICES ASSUME NEW x \in Worker, turn(x) \cap 1..served # {}
                 PROVE  gift(Min(turn(x))) \in Task \cup {NoTask}
    OBVIOUS
  <2>2. PICK i \in turn(x) : i \in 1..served
    BY <2>1
  <2>3. turn(x) \in SUBSET Nat /\ turn(x) # {}
    BY <1>1, <2>2
  <2>4. Min(turn(x)) \in turn(x) /\ Min(turn(x)) <= i
    BY <2>2, <2>3, MinIsLeast
  <2>5. Min(turn(x)) \in 1..served
    BY <1>6, <2>2, <2>4
  <2> QED BY <1>3, <2>5
<1>9. pc' \in [Worker -> Stage]
  BY <1>4, <1>5 DEF Stage
<1>10. hand' \in [Worker -> Task \cup {NoTask}]
  BY <1>4, <1>5, <1>8
<1>11. incompleteTasks' \in Seq(Task)
  <2>1. Len(stack) - served \in Int /\ Len(stack) - served <= Len(stack)
    BY <1>1, <1>6
  <2> QED BY <1>4, <2>1, SubSeqType
<1>12. \A x \in Worker :
         (\A i \in 1..Len(line) : line[i] # x) => pc'[x] = pc[x] /\ hand'[x] = hand[x]
  BY <1>4, <1>6
<1>13. ASSUME NEW i \in 1..Len(line)
       PROVE  /\ i <= served => pc'[line[i]] = "handed" /\ hand'[line[i]] = gift(i)
              /\ i = served + 1 => pc'[line[i]] = "factory"
              /\ i > served => hand'[line[i]] = hand[line[i]]
              /\ i > served + 1 => pc'[line[i]] = pc[line[i]]
  <2>1. line[i] \in Worker /\ turn(line[i]) = {i}
    BY <1>7
  <2> HIDE DEF turn
  <2>2. i <= served <=> turn(line[i]) \cap 1..served # {}
    BY <1>1, <1>6, <2>1
  <2>3. i = served + 1 <=> served + 1 \in turn(line[i])
    BY <1>1, <1>6, <2>1
  <2>4. i \in Nat /\ {i} \in SUBSET Nat /\ {i} # {}
    BY <1>1
  <2>5. Min({i}) = i
    BY <2>4, MinIsLeast
  <2>6. hand'[line[i]] = IF turn(line[i]) \cap 1..served = {} THEN hand[line[i]]
                         ELSE gift(Min(turn(line[i])))
    BY <1>4, <2>1
  <2>7. pc'[line[i]] = IF turn(line[i]) \cap 1..served # {} THEN "handed"
                       ELSE IF served + 1 \in turn(line[i]) THEN "factory" ELSE pc[line[i]]
    BY <1>4, <2>1
  <2>8. i <= served => pc'[line[i]] = "handed" /\ hand'[line[i]] = gift(i)
    BY <2>1, <2>2, <2>5, <2>6, <2>7
  <2>9. i > served => hand'[line[i]] = hand[line[i]]
    BY <1>1, <1>6, <2>2, <2>6
  <2>10. /\ i = served + 1 => pc'[line[i]] = "factory"
         /\ i > served + 1 => pc'[line[i]] = pc[line[i]]
    BY <1>1, <1>6, <2>2, <2>3, <2>7
  <2> QED BY <2>8, <2>9, <2>10
<1>14. \A i \in 1..Len(line) :
         gift(i) = IF stack = << >> THEN NoTask ELSE stack[Len(stack) - i + 1]
  BY DEF gift
<1>15. /\ stack = << >> => served = 1
       /\ stack # << >> => served <= Len(stack)
  BY <1>2 DEF served
<1>16. \A i \in 1..Len(line) :
         /\ i <= served =>
              /\ pc'[line[i]] = "handed"
              /\ hand'[line[i]] = IF stack = << >> THEN NoTask ELSE stack[Len(stack) - i + 1]
         /\ i = served + 1 => pc'[line[i]] = "factory"
         /\ i > served => hand'[line[i]] = hand[line[i]]
         /\ i > served + 1 => pc'[line[i]] = pc[line[i]]
  BY <1>13, <1>14
<1>17. HandedOut(line, stack, served)
  BY <1>4, <1>9, <1>10, <1>11, <1>12, <1>15, <1>16, Zenon DEF HandedOut
<1> QED BY <1>2, <1>17

\* The line made of a worker that awaits the factory and of the queue from its end.
LEMMA RequestLine ==
  ASSUME ExecutorInvariant, NEW w \in Worker, pc[w] = "factory"
  PROVE  LET n == Len(requestTasksQueue)
             line == <<w>> \o Reverse(requestTasksQueue)
         IN /\ line \in Seq(Worker)
            /\ n \in Nat /\ Len(line) = n + 1
            /\ line[1] = w
            /\ \A i \in 1..n : line[n - i + 2] = requestTasksQueue[i]
            /\ \A i, j \in 1 .. n + 1 : line[i] = line[j] => i = j
            /\ \A i \in 2 .. n + 1 : pc[line[i]] = "queued"
<1> DEFINE q == requestTasksQueue
           n == Len(q)
           line == <<w>> \o Reverse(q)
<1>1. q \in Seq(Worker) /\ n \in Nat
  BY LenProperties DEF ExecutorInvariant, TypeOK
<1>2. /\ Reverse(q) \in Seq(Worker)
      /\ Len(Reverse(q)) = n
      /\ \A i \in 1..n : Reverse(q)[i] = q[n - i + 1]
  BY <1>1, ReverseType
<1>3. <<w>> \in Seq(Worker) /\ Len(<<w>>) = 1 /\ <<w>>[1] = w
  OBVIOUS
<1>4. /\ line \in Seq(Worker)
      /\ Len(line) = n + 1
      /\ \A i \in 1 .. n + 1 : line[i] = IF i <= 1 THEN <<w>>[i] ELSE Reverse(q)[i - 1]
  BY <1>1, <1>2, <1>3, ConcatProperties
<1> HIDE DEF line
<1>5. line[1] = w
  BY <1>1, <1>3, <1>4
<1>6. \A i \in 2 .. n + 1 : n - i + 2 \in 1..n /\ line[i] = q[n - i + 2]
  <2>1. SUFFICES ASSUME NEW i \in 2 .. n + 1
                 PROVE  n - i + 2 \in 1..n /\ line[i] = q[n - i + 2]
    OBVIOUS
  <2>2. i \in 1 .. n + 1 /\ ~(i <= 1) /\ i - 1 \in 1..n /\ n - (i - 1) + 1 = n - i + 2
    BY <1>1
  <2>3. line[i] = Reverse(q)[i - 1]
    BY <1>4, <2>2
  <2>4. Reverse(q)[i - 1] = q[n - i + 2]
    BY <1>2, <2>2
  <2> QED BY <1>1, <2>3, <2>4
<1>7. \A i \in 1..n : line[n - i + 2] = q[i]
  <2>1. SUFFICES ASSUME NEW i \in 1..n PROVE line[n - i + 2] = q[i]
    OBVIOUS
  <2>2. n - i + 2 \in 2 .. n + 1 /\ n - (n - i + 2) + 2 = i
    BY <1>1
  <2> QED BY <1>6, <2>2
<1>8. /\ \A i \in 1..n : pc[q[i]] = "queued"
      /\ \A i, j \in 1..n : q[i] = q[j] => i = j
  BY DEF ExecutorInvariant, QueueAgrees
<1>9. \A i \in 2 .. n + 1 : pc[line[i]] = "queued" /\ line[i] # w
  BY <1>6, <1>8
<1>10. ASSUME NEW i \in 1 .. n + 1, NEW j \in 1 .. n + 1, line[i] = line[j]
       PROVE  i = j
  <2>1. CASE i = 1 \/ j = 1
    BY <1>1, <1>5, <1>9, <1>10, <2>1
  <2>2. CASE i # 1 /\ j # 1
    <3>1. i \in 2 .. n + 1 /\ j \in 2 .. n + 1
      BY <1>1, <2>2
    <3>2. /\ n - i + 2 \in 1..n /\ n - j + 2 \in 1..n
          /\ q[n - i + 2] = q[n - j + 2]
      BY <1>6, <1>10, <3>1
    <3>3. n - i + 2 = n - j + 2
      BY <1>8, <3>2
    <3> QED BY <1>1, <3>1, <3>3
  <2> QED BY <2>1, <2>2
<1> QED BY <1>1, <1>4, <1>5, <1>7, <1>9, <1>10 DEF line

\* The requests served are those of a line that starts with the worker answered.
LEMMA ServedLine ==
  ASSUME ExecutorInvariant, NEW w \in Worker, pc[w] = "factory",
         NEW stack \in Seq(Task), ServeRequests(w, stack)
  PROVE  \E line \in Seq(Worker) :
           /\ line[1] = w
           /\ \A i \in 1..Len(line) : pc[line[i]] \in {"factory", "queued"}
           /\ \E served \in 1..Len(line) : HandedOut(line, stack, served)
<1>1. CASE waitsBetweenRequests
  <2> DEFINE line == <<w>>
  <2>1. HandOut(line, stack)
    BY <1>1 DEF ServeRequests
  <2>2. /\ line \in Seq(Worker) /\ Len(line) = 1 /\ line[1] = w
        /\ \A i \in 1..Len(line) : pc[line[i]] \in {"factory", "queued"}
        /\ \A i, j \in 1..Len(line) : line[i] = line[j] => i = j
    OBVIOUS
  <2> HIDE DEF line
  <2>3. Len(line) >= 1
    BY <2>2
  <2>4. \E served \in 1..Len(line) : HandedOut(line, stack, served)
    BY <2>1, <2>2, <2>3, HandOutEffect
  <2> QED BY <2>2, <2>4
<1>2. CASE ~waitsBetweenRequests
  <2> DEFINE line == <<w>> \o Reverse(requestTasksQueue)
             n == Len(requestTasksQueue)
  <2>1. HandOut(line, stack)
    BY <1>2 DEF ServeRequests
  <2>2. /\ line \in Seq(Worker) /\ n \in Nat /\ Len(line) = n + 1 /\ line[1] = w
        /\ \A i, j \in 1 .. n + 1 : line[i] = line[j] => i = j
        /\ \A i \in 2 .. n + 1 : pc[line[i]] = "queued"
    BY RequestLine
  <2> HIDE DEF line, n
  <2>3. Len(line) >= 1 /\ \A i, j \in 1..Len(line) : line[i] = line[j] => i = j
    BY <2>2
  <2>4. \E served \in 1..Len(line) : HandedOut(line, stack, served)
    BY <2>1, <2>2, <2>3, HandOutEffect
  <2>5. \A i \in 1..Len(line) : i = 1 \/ i \in 2 .. n + 1
    BY <2>2
  <2>6. \A i \in 1..Len(line) : pc[line[i]] \in {"factory", "queued"}
    BY <2>2, <2>5
  <2> QED BY <2>2, <2>4, <2>6
<1> QED BY <1>1, <1>2

\* Serving the requests keeps every part of the invariant.
LEMMA ServeRequestsStep ==
  ASSUME ExecutorInvariant, NEW w \in Worker, pc[w] = "factory",
         NEW stack \in Seq(Task), ServeRequests(w, stack),
         baseI' \in 0..TaskCount, isOutOfTasks' \in BOOLEAN,
         UNCHANGED <<inputs, reservations, results>>
  PROVE  ExecutorInvariant' /\ NoneRetaken
<1> DEFINE q == requestTasksQueue
           n == Len(q)
<1>1. /\ q \in Seq(Worker) /\ n \in Nat
      /\ pc \in [Worker -> Stage]
      /\ hand \in [Worker -> Task \cup {NoTask}]
      /\ requestWaits \in Nat
  BY LenProperties DEF ExecutorInvariant, TypeOK
<1>2. \A i \in 1..n : q[i] \in Worker /\ pc[q[i]] = "queued"
  BY <1>1, ElementOfSeq DEF ExecutorInvariant, QueueAgrees
<1>3. \A x \in Worker : pc[x] = "factory" => x = w
  BY DEF ExecutorInvariant, OneFactoryCallAtATime
<1>4. \A x \in Worker : pc[x] \in {"factory", "queued"} => hand[x] = NoTask
  BY DEF ExecutorInvariant, HandsAgree
\* What has to be shown of the requests and of the workers.
<1> DEFINE Served ==
      /\ incompleteTasks' \in Seq(Task)
      /\ requestTasksQueue' \in Seq(Worker)
      /\ requestWaits' \in Nat
      /\ isFulfillingTask' \in BOOLEAN
      /\ pc' \in [Worker -> Stage]
      /\ hand' \in [Worker -> Task \cup {NoTask}]
      /\ \A x \in Worker :
           \/ pc'[x] = pc[x] /\ hand'[x] = hand[x] /\ pc[x] # "factory"
           \/ pc[x] \in {"factory", "queued"} /\ pc'[x] = "handed"
           \/ /\ pc[x] \in {"factory", "queued"} /\ pc'[x] = "factory"
              /\ hand'[x] = hand[x] /\ isFulfillingTask' = TRUE
      /\ QueueAgrees'
      /\ OneFactoryCallAtATime'
<1>5. Served
  <2>1. CASE waitsBetweenRequests
    <3> DEFINE line == <<w>>
    <3>1. HandOut(line, stack) /\ requestWaits' = requestWaits + 1 /\ requestTasksQueue' = q
      BY <2>1 DEF ServeRequests
    <3>2. /\ line \in Seq(Worker) /\ Len(line) = 1 /\ line[1] = w
          /\ \A i, j \in 1..Len(line) : line[i] = line[j] => i = j
      OBVIOUS
    <3> HIDE DEF line
    <3>3. /\ incompleteTasks' \in Seq(Task)
          /\ pc' \in [Worker -> Stage]
          /\ hand' \in [Worker -> Task \cup {NoTask}]
          /\ isFulfillingTask' \in BOOLEAN
          /\ pc'[w] = "handed"
          /\ \A x \in Worker : x # w => pc'[x] = pc[x] /\ hand'[x] = hand[x]
      <4>1. PICK served \in 1..Len(line) : HandedOut(line, stack, served)
        <5>1. Len(line) >= 1
          BY <3>2
        <5> QED BY <3>1, <3>2, <5>1, HandOutEffect
      <4> QED BY <3>2, <4>1 DEF HandedOut
    <3>4. QueueAgrees'
      BY <1>2, <3>1, <3>3 DEF ExecutorInvariant, QueueAgrees
    <3>5. OneFactoryCallAtATime'
      BY <1>3, <3>3 DEF OneFactoryCallAtATime
    <3> QED BY <1>1, <1>3, <3>1, <3>3, <3>4, <3>5
  <2>2. CASE ~waitsBetweenRequests
    <3> DEFINE line == <<w>> \o Reverse(q)
               popped == IF stack = << >> THEN 1 ELSE Len(stack)
    <3>1. /\ HandOut(line, stack)
          /\ requestTasksQueue' = SubSeq(q, 1, n - popped)
          /\ requestWaits' = requestWaits
      BY <2>2 DEF ServeRequests
    <3>2. /\ line \in Seq(Worker)
          /\ Len(line) = n + 1
          /\ line[1] = w
          /\ \A i \in 1..n : line[n - i + 2] = q[i]
          /\ \A i, j \in 1 .. n + 1 : line[i] = line[j] => i = j
          /\ \A i \in 2 .. n + 1 : pc[line[i]] = "queued"
      BY RequestLine
    <3> HIDE DEF line
    <3>3. PICK served \in 1..Len(line) : HandedOut(line, stack, served)
      <4>1. n \in Nat
        BY <1>1
      <4>2. Len(line) >= 1
        BY <3>2, <4>1
      <4>3. \A i, j \in 1..Len(line) : line[i] = line[j] => i = j
        BY <3>2
      <4> QED BY <3>1, <3>2, <4>2, <4>3, HandOutEffect
    <3>4. Len(stack) \in Nat /\ served \in Nat
      BY <1>1, <3>2, LenProperties
    <3>5. popped \in Nat /\ served <= popped
      BY <3>3, <3>4 DEF HandedOut
    <3> HIDE DEF popped
    <3>6. \A i \in 1..Len(line) : line[i] \in Worker /\ pc[line[i]] \in {"factory", "queued"}
      <4>1. SUFFICES ASSUME NEW i \in 1..Len(line)
                     PROVE  line[i] \in Worker /\ pc[line[i]] \in {"factory", "queued"}
        OBVIOUS
      <4>2. i = 1 \/ i \in 2 .. n + 1
        BY <1>1, <3>2
      <4> QED BY <3>2, <4>2, ElementOfSeq
    <3>7. \A x \in Worker :
            \/ pc'[x] = pc[x] /\ hand'[x] = hand[x] /\ pc[x] # "factory"
            \/ pc[x] \in {"factory", "queued"} /\ pc'[x] = "handed"
            \/ /\ pc[x] \in {"factory", "queued"} /\ pc'[x] = "factory"
               /\ hand'[x] = hand[x] /\ isFulfillingTask' = TRUE
      <4>1. SUFFICES ASSUME NEW x \in Worker
                     PROVE
                       \/ pc'[x] = pc[x] /\ hand'[x] = hand[x] /\ pc[x] # "factory"
                       \/ pc[x] \in {"factory", "queued"} /\ pc'[x] = "handed"
                       \/ /\ pc[x] \in {"factory", "queued"} /\ pc'[x] = "factory"
                          /\ hand'[x] = hand[x] /\ isFulfillingTask' = TRUE
        OBVIOUS
      <4>2. CASE \E i \in 1..Len(line) : line[i] = x
        <5>1. PICK i \in 1..Len(line) : line[i] = x
          BY <4>2
        <5>2. CASE i <= served
          BY <3>3, <3>6, <5>1, <5>2 DEF HandedOut
        <5>3. CASE i = served + 1
          <6>1. Len(line) > served
            BY <1>1, <3>2, <3>4, <5>3
          <6>2. isFulfillingTask' = TRUE
            BY <3>3, <6>1 DEF HandedOut
          <6>3. pc'[x] = "factory" /\ hand'[x] = hand[x]
            BY <3>3, <3>4, <5>1, <5>3 DEF HandedOut
          <6> QED BY <3>6, <5>1, <6>2, <6>3
        <5>4. CASE i > served + 1
          <6>1. i > served /\ i \in 2 .. n + 1
            BY <1>1, <3>2, <3>4, <5>4
          <6> QED BY <3>2, <3>3, <5>1, <5>4, <6>1 DEF HandedOut
        <5>5. i <= served \/ i = served + 1 \/ i > served + 1
          BY <1>1, <3>2, <3>4
        <5> QED BY <5>2, <5>3, <5>4, <5>5
      <4>3. CASE \A i \in 1..Len(line) : line[i] # x
        <5>1. x # w
          BY <1>1, <3>2, <4>3
        <5> QED BY <1>3, <3>3, <4>3, <5>1 DEF HandedOut
      <4> QED BY <4>2, <4>3
    <3>8. /\ requestTasksQueue' \in Seq(Worker)
          /\ Len(requestTasksQueue') = IF 1 <= n - popped THEN n - popped ELSE 0
          /\ \A i \in 1 .. n - popped : requestTasksQueue'[i] = q[i]
      <4>1. n - popped \in Int /\ n - popped <= n
        BY <1>1, <3>5
      <4>2. /\ SubSeq(q, 1, n - popped) \in Seq(Worker)
            /\ \A i \in 1 .. n - popped : SubSeq(q, 1, n - popped)[i] = q[i]
            /\ Len(SubSeq(q, 1, n - popped)) = IF 1 <= n - popped THEN n - popped - 1 + 1 ELSE 0
        BY <1>1, <4>1, SubSeqType
      <4> QED BY <1>1, <3>1, <3>5, <4>2
    <3>9. \A i \in 1..Len(requestTasksQueue') :
            i \in 1..n /\ requestTasksQueue'[i] = q[i] /\ pc'[q[i]] = "queued"
      <4>1. SUFFICES ASSUME NEW i \in 1..Len(requestTasksQueue')
                     PROVE  /\ i \in 1..n
                            /\ requestTasksQueue'[i] = q[i]
                            /\ pc'[q[i]] = "queued"
        OBVIOUS
      <4>2. i \in 1..n /\ i <= n - popped /\ requestTasksQueue'[i] = q[i]
        BY <1>1, <3>5, <3>8
      <4>3. n - i + 2 \in 1..Len(line) /\ n - i + 2 > served + 1
        BY <1>1, <3>2, <3>4, <3>5, <4>2
      <4>4. pc'[line[n - i + 2]] = pc[line[n - i + 2]]
        BY <3>3, <4>3 DEF HandedOut
      <4> QED BY <1>2, <3>2, <4>2, <4>4
    <3>10. QueueAgrees'
      <4>1. QueueAgrees
        BY Zenon DEF ExecutorInvariant
      <4>2. \A i, j \in 1..n : q[i] = q[j] => i = j
        BY <4>1, Zenon DEF QueueAgrees
      <4>3. ASSUME NEW i \in 1..Len(requestTasksQueue'), NEW j \in 1..Len(requestTasksQueue'),
                   requestTasksQueue'[i] = requestTasksQueue'[j]
            PROVE  i = j
        <5>1. i \in 1..n /\ j \in 1..n /\ q[i] = q[j]
          BY <3>9, <4>3, Zenon
        <5> QED BY <4>2, <5>1, Zenon
      <4>4. ASSUME NEW i \in 1..Len(requestTasksQueue')
            PROVE  pc'[requestTasksQueue'[i]] = "queued"
        BY <3>9, Zenon
      <4> QED BY <4>3, <4>4, Zenon DEF QueueAgrees
    <3>11. OneFactoryCallAtATime'
      <4>1. SUFFICES ASSUME NEW x \in Worker, pc'[x] = "factory"
                     PROVE  served + 1 \in 1..Len(line) /\ x = line[served + 1]
        BY DEF OneFactoryCallAtATime
      <4>2. PICK i \in 1..Len(line) : line[i] = x
        <5>1. pc[x] = "factory" \/ pc'[x] # pc[x]
          BY <4>1
        <5>2. x = w \/ \E i \in 1..Len(line) : line[i] = x
          BY <1>3, <3>3, <5>1 DEF HandedOut
        <5> QED BY <1>1, <3>2, <5>2
      <4>3. ~(i <= served)
        BY <3>3, <4>1, <4>2 DEF HandedOut
      <4>4. ~(i > served + 1)
        <5>1. SUFFICES ASSUME i > served + 1 PROVE FALSE
          OBVIOUS
        <5>2. i \in 2 .. n + 1
          BY <1>1, <3>2, <3>4, <5>1
        <5> QED BY <3>2, <3>3, <4>1, <4>2, <5>1, <5>2 DEF HandedOut
      <4>5. i = served + 1
        BY <1>1, <3>2, <3>4, <4>3, <4>4
      <4> QED BY <4>2, <4>5
    <3> QED BY <1>1, <3>1, <3>3, <3>7, <3>8, <3>10, <3>11 DEF HandedOut
  <2> QED BY <2>1, <2>2
<1> HIDE DEF Served
<1>6. TypeOK'
  BY <1>5 DEF Served, ExecutorInvariant, TypeOK, inputs, reservations, results
<1>7. HandsAgree'
  BY <1>4, <1>5 DEF Served, ExecutorInvariant, HandsAgree
<1>8. FactoryCallIsFlagged'
  <2>1. \A x \in Worker : pc'[x] = "factory" => isFulfillingTask'
    BY <1>5 DEF Served
  <2> QED BY <2>1 DEF FactoryCallIsFlagged
<1>9. HeldTasksAreApart' /\ ReservedKeysAreHeld' /\ NoneRetaken
  <2>1. \A x \in Worker : (pc'[x] \in HoldingStages /\ hand'[x] # NoTask) <=> Holds(x)
    BY <1>5 DEF Served, HoldingStages, Holds
  <2>2. \A x \in Worker : Holds(x) => hand'[x] = hand[x]
    BY <1>5 DEF Served, Holds
  <2>3. UNCHANGED <<keysOf, currentParellelTaskKeys, visitedTaskIndexes>>
    BY DEF inputs, reservations
  <2> QED BY <2>1, <2>2, <2>3, HeldUnchanged
<1>10. QueueAgrees' /\ OneFactoryCallAtATime'
  BY <1>5 DEF Served
<1> QED BY <1>6, <1>7, <1>8, <1>9, <1>10 DEF ExecutorInvariant

LEMMA FactoryAnswersStep ==
  ASSUME ExecutorInvariant, NEW w \in Worker, FactoryAnswers(w)
  PROVE  ExecutorInvariant' /\ NoneRetaken
<1>1. CASE FactoryReturnsTasks(w)
  <2>1. PICK n \in 0 .. (TaskCount - baseI) :
          baseI' = baseI + n /\ ServeRequests(w, NewTasks(n) \o incompleteTasks)
    BY <1>1 DEF FactoryReturnsTasks
  <2>2. baseI \in 0..TaskCount /\ incompleteTasks \in Seq(Task) /\ isOutOfTasks \in BOOLEAN
    BY DEF ExecutorInvariant, TypeOK
  <2>3. n \in Nat /\ baseI + n \in 0..TaskCount
    BY <2>2, TaskCountAssumption
  <2>4. \A i \in 1..n : baseI + n - i \in Task
    BY <2>2, <2>3, TaskCountAssumption DEF Task
  <2>5. NewTasks(n) \in Seq(Task)
    BY <2>3, <2>4 DEF NewTasks
  <2>6. NewTasks(n) \o incompleteTasks \in Seq(Task)
    BY <2>2, <2>5, ConcatProperties
  <2>7. UNCHANGED <<inputs, isOutOfTasks, reservations, results>> /\ pc[w] = "factory"
    BY <1>1 DEF FactoryReturnsTasks
  <2> QED BY <2>1, <2>2, <2>3, <2>6, <2>7, ServeRequestsStep
<1>2. CASE FactoryReturnsNull(w)
  <2>1. /\ ServeRequests(w, incompleteTasks) /\ isOutOfTasks' = TRUE
        /\ UNCHANGED <<inputs, baseI, reservations, results>> /\ pc[w] = "factory"
    BY <1>2 DEF FactoryReturnsNull
  <2>2. baseI \in 0..TaskCount /\ incompleteTasks \in Seq(Task)
    BY DEF ExecutorInvariant, TypeOK
  <2> QED BY <2>1, <2>2, ServeRequestsStep
<1>3. CASE FactoryRejects(w)
  <2>1. /\ pc[w] = "factory" /\ pc' = [pc EXCEPT ![w] = "orphaned"]
        /\ UNCHANGED <<inputs, requests, incompleteTasks, reservations, results, hand>>
    BY <1>3 DEF FactoryRejects
  <2>2. pc \in [Worker -> Stage] /\ hand \in [Worker -> Task \cup {NoTask}]
    BY DEF ExecutorInvariant, TypeOK
  <2>3. hand[w] = NoTask /\ hand' = [hand EXCEPT ![w] = NoTask]
    BY <2>1, <2>2 DEF ExecutorInvariant, HandsAgree
  <2>4. HandsAgree' /\ QueueAgrees' /\ FactoryCallIsFlagged' /\ OneFactoryCallAtATime'
    <3>1. "orphaned" \in Stage \ {"factory", "queued"}
      BY DEF Stage
    <3>2. UNCHANGED <<requestTasksQueue, isFulfillingTask>>
      BY <2>1 DEF requests
    <3>3. /\ pc[w] # "queued" /\ NoTask \in Task \cup {NoTask}
          /\ "orphaned" \notin {"running", "failed"}
      BY <2>1
    <3> QED BY <2>1, <2>3, <3>1, <3>2, <3>3, OneWorkerMoves
  <2>5. TypeOK'
    BY <2>1, <2>2 DEF ExecutorInvariant, TypeOK, inputs, requests, reservations, results, Stage
  <2>6. HeldTasksAreApart' /\ ReservedKeysAreHeld' /\ NoneRetaken
    <3>1. \A x \in Worker : (pc'[x] \in HoldingStages /\ hand'[x] # NoTask) <=> Holds(x)
      BY <2>1, <2>2, <2>3 DEF Holds, HoldingStages
    <3>2. UNCHANGED <<keysOf, currentParellelTaskKeys, visitedTaskIndexes>>
      BY <2>1 DEF inputs, reservations
    <3> QED BY <2>1, <3>1, <3>2, HeldUnchanged
  <2> QED BY <2>4, <2>5, <2>6 DEF ExecutorInvariant
<1> QED BY <1>1, <1>2, <1>3 DEF FactoryAnswers

LEMMA RequestWaitElapsesStep ==
  ASSUME ExecutorInvariant, RequestWaitElapses
  PROVE  ExecutorInvariant' /\ NoneRetaken
<1> DEFINE q == requestTasksQueue
           n == Len(q)
           w == Last(q)
<1>1. /\ q \in Seq(Worker) /\ n \in Nat
      /\ pc \in [Worker -> Stage]
      /\ hand \in [Worker -> Task \cup {NoTask}]
      /\ incompleteTasks \in Seq(Task)
      /\ requestWaits \in Nat
  BY LenProperties DEF ExecutorInvariant, TypeOK
<1>2. requestWaits > 0 /\ UNCHANGED <<inputs, baseI, isOutOfTasks, reservations, results>>
  BY DEF RequestWaitElapses
<1>3. \A i \in 1..n : q[i] \in Worker /\ pc[q[i]] = "queued"
  BY <1>1, ElementOfSeq DEF ExecutorInvariant, QueueAgrees
<1>4. CASE isFulfillingTask \/ q = << >>
  <2>1. /\ requestWaits' = requestWaits - 1
        /\ UNCHANGED <<requestTasksQueue, isFulfillingTask, incompleteTasks, pc, hand>>
    BY <1>4 DEF RequestWaitElapses
  <2>2. TypeOK'
    BY <1>1, <1>2, <2>1 DEF ExecutorInvariant, TypeOK, inputs, reservations, results
  <2>3. HandsAgree' /\ QueueAgrees' /\ FactoryCallIsFlagged' /\ OneFactoryCallAtATime'
    BY <2>1 DEF ExecutorInvariant, HandsAgree, QueueAgrees, FactoryCallIsFlagged,
                OneFactoryCallAtATime
  <2>4. HeldTasksAreApart' /\ ReservedKeysAreHeld' /\ NoneRetaken
    BY <1>2, <2>1, HeldUnchanged DEF inputs, reservations, Holds, HoldingStages
  <2> QED BY <2>2, <2>3, <2>4 DEF ExecutorInvariant
<1>5. CASE ~isFulfillingTask /\ q # << >>
  <2>1. n >= 1 /\ w \in Worker /\ w = q[n] /\ pc[w] = "queued" /\ hand[w] = NoTask
    <3>1. n >= 1
      BY <1>1, <1>5, EmptySeq
    <3>2. w = q[n] /\ n \in 1..n
      BY <1>1, <3>1 DEF Last
    <3> QED BY <1>3, <3>1, <3>2 DEF ExecutorInvariant, HandsAgree
  <2>2. requestTasksQueue' = SubSeq(q, 1, n - 1)
    BY <1>5 DEF RequestWaitElapses, Front
  <2>3. /\ requestTasksQueue' \in Seq(Worker)
        /\ Len(requestTasksQueue') = n - 1
        /\ \A i \in 1 .. n - 1 : requestTasksQueue'[i] = q[i] /\ q[i] # w
    <3>1. n - 1 \in Int /\ n - 1 <= n
      BY <1>1
    <3>2. /\ SubSeq(q, 1, n - 1) \in Seq(Worker)
          /\ \A i \in 1 .. n - 1 : SubSeq(q, 1, n - 1)[i] = q[i]
          /\ Len(SubSeq(q, 1, n - 1)) = IF 1 <= n - 1 THEN n - 1 - 1 + 1 ELSE 0
      BY <1>1, <3>1, SubSeqType
    <3>3. \A i, j \in 1..n : q[i] = q[j] => i = j
      BY DEF ExecutorInvariant, QueueAgrees
    <3>4. \A i \in 1 .. n - 1 : q[i] # w
      BY <1>1, <2>1, <3>3
    <3>5. Len(requestTasksQueue') = n - 1
      <4> HIDE DEF n
      <4>1. n \in Nat /\ n >= 1
        BY <1>1, <2>1
      <4> QED BY <2>2, <3>2, <4>1
    <3> QED BY <2>2, <3>2, <3>4, <3>5
  <2>4. \A x \in Worker : pc[x] # "factory"
    BY <1>5 DEF ExecutorInvariant, FactoryCallIsFlagged
  \* In both cases only w moves.
  <2> DEFINE Served ==
        /\ incompleteTasks' \in Seq(Task)
        /\ requestWaits' \in Nat
        /\ isFulfillingTask' \in BOOLEAN
        /\ pc' \in [Worker -> Stage]
        /\ hand' \in [Worker -> Task \cup {NoTask}]
        /\ \/ pc'[w] = "handed"
           \/ pc'[w] = "factory" /\ hand'[w] = NoTask /\ isFulfillingTask' = TRUE
        /\ \A x \in Worker : x # w => pc'[x] = pc[x] /\ hand'[x] = hand[x]
  <2>5. Served
    <3>1. CASE incompleteTasks # << >>
      <4> DEFINE line == <<w>>
      <4>1. HandOut(line, incompleteTasks) /\ requestWaits' = requestWaits
        BY <1>5, <3>1 DEF RequestWaitElapses
      <4>2. /\ line \in Seq(Worker) /\ Len(line) = 1 /\ line[1] = w
            /\ \A i, j \in 1..Len(line) : line[i] = line[j] => i = j
        BY <2>1
      <4> HIDE DEF line, w
      <4>3. PICK served \in 1..Len(line) : HandedOut(line, incompleteTasks, served)
        <5>1. Len(line) >= 1
          BY <4>2
        <5> QED BY <1>1, <4>1, <4>2, <5>1, HandOutEffect
      <4> QED BY <1>1, <4>1, <4>2, <4>3 DEF HandedOut
    <3>2. CASE incompleteTasks = << >>
      <4>1. /\ isFulfillingTask' = TRUE
            /\ pc' = [pc EXCEPT ![w] = "factory"]
            /\ requestWaits' = requestWaits - 1
            /\ UNCHANGED <<incompleteTasks, hand>>
        BY <1>5, <3>2 DEF RequestWaitElapses
      <4> HIDE DEF w
      <4> QED BY <1>1, <1>2, <2>1, <4>1 DEF Stage
    <3> QED BY <3>1, <3>2
  <2> HIDE DEF w
  <2>8. TypeOK'
    BY <1>2, <2>3, <2>5 DEF ExecutorInvariant, TypeOK, inputs, reservations, results
  <2>9. HandsAgree'
    BY <2>5 DEF ExecutorInvariant, HandsAgree
  <2>10. QueueAgrees'
    <3>1. \A i \in 1..Len(requestTasksQueue') : i \in 1 .. n - 1 /\ i \in 1..n
      BY <1>1, <2>3
    <3>2. \A i \in 1..Len(requestTasksQueue') :
            requestTasksQueue'[i] = q[i] /\ pc'[q[i]] = "queued"
      BY <1>3, <2>3, <2>5, <3>1
    <3> QED BY <3>1, <3>2 DEF ExecutorInvariant, QueueAgrees
  <2>11. FactoryCallIsFlagged' /\ OneFactoryCallAtATime'
    <3>1. \A x \in Worker : pc'[x] = "factory" => x = w /\ isFulfillingTask' = TRUE
      BY <2>4, <2>5
    <3> QED BY <3>1 DEF FactoryCallIsFlagged, OneFactoryCallAtATime
  <2>12. HeldTasksAreApart' /\ ReservedKeysAreHeld' /\ NoneRetaken
    <3>1. \A x \in Worker : (pc'[x] \in HoldingStages /\ hand'[x] # NoTask) <=> Holds(x)
      BY <2>1, <2>5 DEF HoldingStages, Holds
    <3>2. \A x \in Worker : Holds(x) => hand'[x] = hand[x]
      BY <2>1, <2>5 DEF Holds
    <3>3. UNCHANGED <<keysOf, currentParellelTaskKeys, visitedTaskIndexes>>
      BY <1>2 DEF inputs, reservations
    <3> QED BY <3>1, <3>2, <3>3, HeldUnchanged
  <2> QED BY <2>8, <2>9, <2>10, <2>11, <2>12 DEF ExecutorInvariant
<1> QED BY <1>4, <1>5

-----------------------------------------------------------------------------
(* getNextTask() *)

LEMMA TakeTaskStep ==
  ASSUME ExecutorInvariant, NEW w \in Worker, pc[w] \in {"timer", "handed"},
         NEW t \in Task \cup {NoTask}, TakeTask(w, Candidates(t)),
         UNCHANGED <<inputs, results>>
  PROVE  ExecutorInvariant' /\ NoneRetaken
<1> DEFINE cands == Candidates(t)
<1>1. cands \in Seq(Task) /\ Len(cands) \in Nat /\ Len(cands) - 1 <= Len(incompleteTasks)
  BY CandidatesType, LenProperties DEF ExecutorInvariant
<1> HIDE DEF cands
<1>2. PICK p \in 1..Len(cands) :
        /\ Runnable(cands[p])
        /\ incompleteTasks' = SubSeq(incompleteTasks, 1, Len(cands) - p)
        /\ Park(SubSeq(cands, 1, p - 1))
        /\ currentParellelTaskKeys' = currentParellelTaskKeys \cup KeysOf(cands[p])
        /\ visitedTaskIndexes' = visitedTaskIndexes \cup {cands[p]}
        /\ hand' = [hand EXCEPT ![w] = cands[p]]
  BY DEF TakeTask, cands
<1>3. pc' = [pc EXCEPT ![w] = "chosen"] /\ UNCHANGED <<requests, inputs, results>>
  BY DEF TakeTask
<1>4. /\ pc \in [Worker -> Stage]
      /\ hand \in [Worker -> Task \cup {NoTask}]
      /\ incompleteTasks \in Seq(Task) /\ Len(incompleteTasks) \in Nat
      /\ currentParellelTaskKeys \in SUBSET Key
      /\ visitedTaskIndexes \in SUBSET Task
  BY LenProperties DEF ExecutorInvariant, TypeOK
<1>5. PICK u \in Task : u = cands[p]
  BY <1>1, ElementOfSeq
<1>6. u # NoTask
  BY NoTaskAssumption, TaskCountAssumption DEF Task
<1>7. KeysOf(u) \in SUBSET Key
  BY KeysType DEF ExecutorInvariant
<1>8. TypeOK'
  <2>1. incompleteTasks' \in Seq(Task)
    <3>1. Len(cands) - p \in Int /\ Len(cands) - p <= Len(incompleteTasks)
      BY <1>1, <1>4
    <3> QED BY <1>2, <1>4, <3>1, SubSeqType
  <2>2. waitingConcurrentTasks' \in [Key -> Seq(Task)]
    <3>1. p - 1 \in Int /\ p - 1 <= Len(cands)
      BY <1>1
    <3>2. SubSeq(cands, 1, p - 1) \in Seq(Task)
      BY <1>1, <3>1, SubSeqType
    <3> QED BY <1>2, <3>2, ParkType DEF ExecutorInvariant
  <2>3. pc' \in [Worker -> Stage] /\ hand' \in [Worker -> Task \cup {NoTask}]
    BY <1>2, <1>3, <1>4, <1>5 DEF Stage
  <2>4. currentParellelTaskKeys' \in SUBSET Key /\ visitedTaskIndexes' \in SUBSET Task
    BY <1>2, <1>4, <1>5, <1>7
  <2> QED BY <1>3, <2>1, <2>2, <2>3, <2>4
          DEF ExecutorInvariant, TypeOK, inputs, requests, results
<1>9. HandsAgree' /\ QueueAgrees' /\ FactoryCallIsFlagged' /\ OneFactoryCallAtATime'
  <2>1. "chosen" \in Stage \ {"factory", "queued"} /\ pc[w] # "queued"
    BY DEF Stage
  <2>2. UNCHANGED <<requestTasksQueue, isFulfillingTask>>
    BY <1>3 DEF requests
  <2>3. hand' = [hand EXCEPT ![w] = u] /\ u \in Task \cup {NoTask}
    BY <1>2, <1>5
  <2> QED BY <1>3, <2>1, <2>2, <2>3, OneWorkerMoves
\* w holds u now; whatever was held is as it was.
<1>10. /\ Holds(w)' /\ hand'[w] = u /\ ~Holds(w)
       /\ \A x \in Worker : x # w => (Holds(x)' <=> Holds(x)) /\ hand'[x] = hand[x]
  BY <1>2, <1>3, <1>4, <1>5, <1>6 DEF Holds
<1>11. Held' = Held \cup {u}
  BY <1>10 DEF Held
<1>12. \A x : KeysOf(x)' = KeysOf(x)
  BY <1>3 DEF KeysOf, inputs
<1>13. u \notin visitedTaskIndexes /\ KeysOf(u) \cap currentParellelTaskKeys = {}
  BY <1>2, <1>5 DEF Runnable
<1>14. \A x \in Worker : Holds(x) =>
         hand[x] \in visitedTaskIndexes /\ KeysOf(hand[x]) \subseteq currentParellelTaskKeys
  <2>1. \A x \in Worker : Holds(x) => hand[x] \in Held
    BY DEF Held
  <2> QED BY <2>1 DEF ExecutorInvariant, HeldTasksAreApart, ReservedKeysAreHeld
<1>15. HeldTasksAreApart'
  <2>1. Held' \subseteq visitedTaskIndexes'
    BY <1>2, <1>5, <1>11 DEF ExecutorInvariant, HeldTasksAreApart
  <2>2. ASSUME NEW v \in Worker, NEW x \in Worker, v # x, Holds(v)', Holds(x)'
        PROVE  hand'[v] # hand'[x] /\ KeysOf(hand'[v]) \cap KeysOf(hand'[x]) = {}
    <3>1. CASE v = w
      BY <1>10, <1>13, <1>14, <2>2, <3>1
    <3>2. CASE x = w
      BY <1>10, <1>13, <1>14, <2>2, <3>2
    <3>3. CASE v # w /\ x # w
      BY <1>10, <2>2, <3>3 DEF ExecutorInvariant, HeldTasksAreApart
    <3> QED BY <3>1, <3>2, <3>3
  <2> QED BY <1>12, <2>1, <2>2 DEF HeldTasksAreApart
<1>16. ReservedKeysAreHeld'
  <2>1. UNION {KeysOf(x)' : x \in Held'} = (UNION {KeysOf(x) : x \in Held}) \cup KeysOf(u)
    BY <1>11, <1>12
  <2> QED BY <1>2, <1>5, <2>1 DEF ExecutorInvariant, ReservedKeysAreHeld
<1>17. NoneRetaken
  BY <1>2, <1>11, <1>13 DEF NoneRetaken
<1> QED BY <1>8, <1>9, <1>15, <1>16, <1>17 DEF ExecutorInvariant

LEMMA GetNextTaskStep ==
  ASSUME ExecutorInvariant, NEW w \in Worker, pc[w] \in {"timer", "handed"},
         NEW t \in Task \cup {NoTask}, NEW awaited \in BOOLEAN, GetNextTask(w, t, awaited),
         UNCHANGED <<inputs, results>>
  PROVE  ExecutorInvariant' /\ NoneRetaken
<1> DEFINE cands == Candidates(t)
<1>1. CASE TakeTask(w, cands)
  BY <1>1, TakeTaskStep
<1>2. ASSUME ParkAll(w, cands),
             \/ pc' = [pc EXCEPT ![w] = "chosen"] /\ UNCHANGED requests
             \/ CallOrQueue(w) /\ UNCHANGED <<baseI, isOutOfTasks, requestWaits>>
      PROVE  ExecutorInvariant' /\ NoneRetaken
  <2>1. cands \in Seq(Task)
    BY CandidatesType DEF ExecutorInvariant
  <2> HIDE DEF cands
  <2>2. /\ incompleteTasks' = << >> /\ Park(cands)
        /\ hand' = [hand EXCEPT ![w] = NoTask]
        /\ UNCHANGED <<currentParellelTaskKeys, visitedTaskIndexes>>
    BY <1>2 DEF ParkAll
  <2>3. waitingConcurrentTasks' \in [Key -> Seq(Task)]
    BY <2>1, <2>2, ParkType DEF ExecutorInvariant
  <2>4. /\ pc \in [Worker -> Stage]
        /\ hand \in [Worker -> Task \cup {NoTask}]
        /\ requestTasksQueue \in Seq(Worker) /\ Len(requestTasksQueue) \in Nat
    BY LenProperties DEF ExecutorInvariant, TypeOK
  <2>5. hand' \in [Worker -> Task \cup {NoTask}] /\ hand'[w] = NoTask
    BY <2>2, <2>4
  <2>6. \/ pc' = [pc EXCEPT ![w] = "chosen"] /\ UNCHANGED <<isFulfillingTask, requestTasksQueue>>
        \/ /\ pc' = [pc EXCEPT ![w] = "factory"] /\ isFulfillingTask = FALSE
           /\ isFulfillingTask' = TRUE /\ UNCHANGED requestTasksQueue
        \/ /\ pc' = [pc EXCEPT ![w] = "queued"] /\ UNCHANGED isFulfillingTask
           /\ requestTasksQueue' = Append(requestTasksQueue, w)
    BY <1>2 DEF CallOrQueue, CallFactory, QueueRequest, requests, ExecutorInvariant, TypeOK
  <2>7. UNCHANGED <<baseI, isOutOfTasks, requestWaits>>
    BY <1>2 DEF requests
  <2>8. pc' \in [Worker -> Stage] /\ \A x \in Worker : x # w => pc'[x] = pc[x]
    BY <2>4, <2>6 DEF Stage
  <2>9. \A x \in Worker : x # w => hand'[x] = hand[x]
    BY <2>2, <2>4
  <2>10. isFulfillingTask' \in BOOLEAN /\ requestTasksQueue' \in Seq(Worker)
    <3>1. isFulfillingTask' \in BOOLEAN
      <4>1. isFulfillingTask \in BOOLEAN
        BY DEF ExecutorInvariant, TypeOK
      <4> QED BY <2>6, <4>1
    <3>2. Append(requestTasksQueue, w) \in Seq(Worker)
      BY <2>4, AppendProperties
    <3>3. requestTasksQueue' \in Seq(Worker)
      BY <2>4, <2>6, <3>2
    <3> QED BY <3>1, <3>3
  <2>11. TypeOK'
    <3>1. << >> \in Seq(Task)
      OBVIOUS
    <3> QED BY <2>2, <2>3, <2>5, <2>7, <2>8, <2>10, <3>1
            DEF ExecutorInvariant, TypeOK, inputs, results
  <2>12. HandsAgree'
    <3>1. pc'[w] \in {"chosen", "factory", "queued"}
      BY <2>4, <2>6
    <3> QED BY <2>5, <2>8, <2>9, <3>1 DEF ExecutorInvariant, HandsAgree
  <2>13. QueueAgrees'
    <3>1. \A i \in 1..Len(requestTasksQueue) :
            /\ requestTasksQueue[i] \in Worker
            /\ pc[requestTasksQueue[i]] = "queued"
            /\ requestTasksQueue[i] # w
      BY <2>4, ElementOfSeq DEF ExecutorInvariant, QueueAgrees
    <3>2. CASE requestTasksQueue' = requestTasksQueue
      BY <2>8, <3>1, <3>2 DEF ExecutorInvariant, QueueAgrees
    <3>3. CASE /\ pc' = [pc EXCEPT ![w] = "queued"]
               /\ requestTasksQueue' = Append(requestTasksQueue, w)
      <4>1. /\ Len(requestTasksQueue') = Len(requestTasksQueue) + 1
            /\ \A i \in 1..Len(requestTasksQueue) : requestTasksQueue'[i] = requestTasksQueue[i]
            /\ requestTasksQueue'[Len(requestTasksQueue) + 1] = w
        BY <2>4, <3>3, AppendProperties
      <4>2. pc'[w] = "queued"
        BY <2>4, <3>3
      <4>3. \A i \in 1..Len(requestTasksQueue') :
              i \in 1..Len(requestTasksQueue) \/ i = Len(requestTasksQueue) + 1
        BY <2>4, <4>1
      <4>4. \A i \in 1..Len(requestTasksQueue') : pc'[requestTasksQueue'[i]] = "queued"
        BY <2>8, <3>1, <4>1, <4>2, <4>3
      <4>5. \A i, j \in 1..Len(requestTasksQueue') :
              requestTasksQueue'[i] = requestTasksQueue'[j] => i = j
        BY <3>1, <4>1, <4>3 DEF ExecutorInvariant, QueueAgrees
      <4> QED BY <4>4, <4>5 DEF QueueAgrees
    <3> QED BY <2>6, <3>2, <3>3
  <2>14. FactoryCallIsFlagged' /\ OneFactoryCallAtATime'
    <3>1. CASE pc' = [pc EXCEPT ![w] = "factory"] /\ isFulfillingTask = FALSE /\ isFulfillingTask' = TRUE
      <4>1. \A x \in Worker : pc'[x] = "factory" => x = w
        BY <2>4, <3>1 DEF ExecutorInvariant, FactoryCallIsFlagged
      <4> QED BY <3>1, <4>1 DEF FactoryCallIsFlagged, OneFactoryCallAtATime
    <3>2. CASE pc'[w] # "factory" /\ isFulfillingTask' = isFulfillingTask
      BY <2>8, <3>2 DEF ExecutorInvariant, FactoryCallIsFlagged, OneFactoryCallAtATime
    <3>3. pc' = [pc EXCEPT ![w] = "chosen"] \/ pc' = [pc EXCEPT ![w] = "queued"] => pc'[w] # "factory"
      BY <2>4
    <3> QED BY <2>6, <3>1, <3>2, <3>3
  <2>15. HeldTasksAreApart' /\ ReservedKeysAreHeld' /\ NoneRetaken
    <3>1. \A x \in Worker : (pc'[x] \in HoldingStages /\ hand'[x] # NoTask) <=> Holds(x)
      BY <2>5, <2>8, <2>9 DEF HoldingStages, Holds
    <3>2. \A x \in Worker : Holds(x) => hand'[x] = hand[x]
      BY <2>9 DEF Holds
    <3> QED BY <2>2, <3>1, <3>2, HeldUnchanged DEF inputs
  <2> QED BY <2>11, <2>12, <2>13, <2>14, <2>15 DEF ExecutorInvariant
<1>3. CASE FindNothing(w, cands, awaited)
  BY <1>2, <1>3 DEF FindNothing
<1>4. CASE RequestMoreTasks(w, cands, awaited)
  BY <1>2, <1>4 DEF RequestMoreTasks
<1> QED BY <1>1, <1>3, <1>4 DEF GetNextTask

-----------------------------------------------------------------------------
(* dispatchNextPromise() *)

\* A worker changes its stage and keeps its task, or its having none.
LEMMA StageChanges ==
  ASSUME ExecutorInvariant, NEW w \in Worker, pc[w] \in {"timer", "chosen", "running"},
         NEW s \in Stage \ {"timer", "factory", "queued"}, pc' = [pc EXCEPT ![w] = s],
         s \in {"running", "failed"} => hand[w] # NoTask,
         hand[w] # NoTask => s \in HoldingStages /\ pc[w] \in HoldingStages,
         UNCHANGED <<inputs, requests, incompleteTasks, reservations, hand>>,
         currentRunIndex' \in Nat, finishedParallels' \in Nat,
         hasEncounteredFailure' \in BOOLEAN,
         outcome' \in {"pending", "resolved", "rejected"}
  PROVE  ExecutorInvariant' /\ NoneRetaken
<1>1. pc \in [Worker -> Stage] /\ hand \in [Worker -> Task \cup {NoTask}]
  BY DEF ExecutorInvariant, TypeOK
<1>2. hand' = [hand EXCEPT ![w] = hand[w]] /\ hand[w] \in Task \cup {NoTask}
  BY <1>1
<1>3. HandsAgree' /\ QueueAgrees' /\ FactoryCallIsFlagged' /\ OneFactoryCallAtATime'
  <2>1. UNCHANGED <<requestTasksQueue, isFulfillingTask>> /\ pc[w] # "queued"
    BY DEF requests
  <2> QED BY <1>2, <2>1, OneWorkerMoves
<1>4. TypeOK'
  BY <1>1 DEF ExecutorInvariant, TypeOK, inputs, requests, reservations
<1>5. HeldTasksAreApart' /\ ReservedKeysAreHeld' /\ NoneRetaken
  <2>1. \A x \in Worker : (pc'[x] \in HoldingStages /\ hand'[x] # NoTask) <=> Holds(x)
    BY <1>1 DEF Holds, HoldingStages
  <2>2. UNCHANGED <<keysOf, currentParellelTaskKeys, visitedTaskIndexes>>
    BY DEF inputs, reservations
  <2> QED BY <2>1, <2>2, HeldUnchanged
<1> QED BY <1>3, <1>4, <1>5 DEF ExecutorInvariant

LEMMA ProceedStep ==
  ASSUME ExecutorInvariant, NEW w \in Worker, Proceed(w)
  PROVE  ExecutorInvariant' /\ NoneRetaken
<1>1. /\ pc \in [Worker -> Stage]
      /\ hand \in [Worker -> Task \cup {NoTask}]
      /\ currentRunIndex \in Nat /\ finishedParallels \in Nat
      /\ hasEncounteredFailure \in BOOLEAN
      /\ outcome \in {"pending", "resolved", "rejected"}
      /\ pc[w] = "timer" => hand[w] = NoTask
  BY DEF ExecutorInvariant, TypeOK, HandsAgree
<1>2. CASE Dispatch(w)
  <2>1. pc[w] = "timer" /\ UNCHANGED <<inputs, results>>
    BY <1>2 DEF Dispatch
  <2>2. CASE GetNextTask(w, NoTask, FALSE)
    BY <2>1, <2>2, GetNextTaskStep
  <2>3. CASE /\ pc' = [pc EXCEPT ![w] = "halted"]
             /\ UNCHANGED <<requests, incompleteTasks, reservations, hand>>
    <3>1. "halted" \in Stage \ {"timer", "factory", "queued"} /\ "halted" \notin {"running", "failed"}
      BY DEF Stage
    <3>2. /\ currentRunIndex' \in Nat /\ finishedParallels' \in Nat
          /\ hasEncounteredFailure' \in BOOLEAN
          /\ outcome' \in {"pending", "resolved", "rejected"}
      BY <1>1, <2>1 DEF results
    <3> QED BY <1>1, <2>1, <2>3, <3>1, <3>2, StageChanges
  <2> QED BY <1>2, <2>2, <2>3 DEF Dispatch
<1>3. CASE ResumeGetNextTask(w)
  BY <1>1, <1>3, GetNextTaskStep DEF ResumeGetNextTask
<1>4. CASE StartTask(w)
  <2>1. "running" \in Stage \ {"timer", "factory", "queued"} /\ "running" \in HoldingStages
    BY DEF Stage, HoldingStages
  <2>2. "chosen" \in HoldingStages
    BY DEF HoldingStages
  <2>3. /\ currentRunIndex' \in Nat /\ finishedParallels' \in Nat
        /\ hasEncounteredFailure' \in BOOLEAN
        /\ outcome' \in {"pending", "resolved", "rejected"}
    BY <1>1, <1>4 DEF StartTask
  <2>4. /\ pc[w] = "chosen" /\ hand[w] # NoTask /\ pc' = [pc EXCEPT ![w] = "running"]
        /\ UNCHANGED <<inputs, requests, incompleteTasks, reservations, hand>>
    BY <1>4 DEF StartTask
  <2> QED BY <2>1, <2>2, <2>3, <2>4, StageChanges
<1>5. CASE TaskFactoryThrows(w)
  <2>1. "orphaned" \in Stage \ {"timer", "factory", "queued"} /\ "orphaned" \in HoldingStages
    BY DEF Stage, HoldingStages
  <2>2. "chosen" \in HoldingStages
    BY DEF HoldingStages
  <2>3. /\ currentRunIndex' \in Nat /\ finishedParallels' \in Nat
        /\ hasEncounteredFailure' \in BOOLEAN
        /\ outcome' \in {"pending", "resolved", "rejected"}
    BY <1>1, <1>5 DEF TaskFactoryThrows, results
  <2>4. /\ pc[w] = "chosen" /\ hand[w] # NoTask /\ pc' = [pc EXCEPT ![w] = "orphaned"]
        /\ UNCHANGED <<inputs, requests, incompleteTasks, reservations, hand>>
    BY <1>5 DEF TaskFactoryThrows
  <2> QED BY <2>1, <2>2, <2>3, <2>4, StageChanges
<1>6. CASE FinishParallel(w)
  <2>1. "finished" \in Stage \ {"timer", "factory", "queued"} /\ "finished" \notin {"running", "failed"}
    BY DEF Stage
  <2>2. /\ currentRunIndex' \in Nat /\ finishedParallels' \in Nat
        /\ hasEncounteredFailure' \in BOOLEAN
        /\ outcome' \in {"pending", "resolved", "rejected"}
    BY <1>1, <1>6 DEF FinishParallel
  <2>3. /\ pc[w] = "chosen" /\ hand[w] = NoTask /\ pc' = [pc EXCEPT ![w] = "finished"]
        /\ UNCHANGED <<inputs, requests, incompleteTasks, reservations, hand>>
    BY <1>6 DEF FinishParallel
  <2> QED BY <2>1, <2>2, <2>3, StageChanges
<1> QED BY <1>2, <1>3, <1>4, <1>5, <1>6 DEF Proceed

-----------------------------------------------------------------------------
(* onTaskCompleted() *)

\* Releasing the keys of a task leaves sequences of tasks.
LEMMA ReleaseKeysType ==
  ASSUME TypeOK, NEW keys \in Seq(Key), ReleaseKeys(keys)
  PROVE  /\ incompleteTasks' \in Seq(Task)
         /\ waitingConcurrentTasks' \in [Key -> Seq(Task)]
         /\ currentParellelTaskKeys' = currentParellelTaskKeys \ {keys[i] : i \in 1..Len(keys)}
<1> DEFINE n == Len(keys)
<1>1. n \in Nat /\ \A i \in 1..n : keys[i] \in Key
  BY LenProperties, ElementOfSeq
<1>2. PICK moved \in [1..n -> Task \cup {NoTask}] :
        /\ \A i \in 1..n : moved[i] = FirstWaiting(keys[i], {moved[j] : j \in 1..(i - 1)})
        /\ incompleteTasks' = incompleteTasks \o
             FlattenSeq([i \in 1..n |-> IF moved[i] = NoTask THEN << >> ELSE <<moved[i]>>])
        /\ waitingConcurrentTasks' = [k \in Key |->
             LET turns == {i \in 1..n : keys[i] = k} IN
             IF turns = {} THEN waitingConcurrentTasks[k] ELSE LeftWaiting(k, moved[Max(turns)])]
        /\ currentParellelTaskKeys' = KeysReleased(keys)
  BY DEF ReleaseKeys
<1> HIDE DEF n
<1>3. incompleteTasks' \in Seq(Task)
  <2> DEFINE ss == [i \in 1..n |-> IF moved[i] = NoTask THEN << >> ELSE <<moved[i]>>]
  <2>1. ss \in [1..n -> Seq(Task)]
    <3>1. SUFFICES ASSUME NEW i \in 1..n
                   PROVE  (IF moved[i] = NoTask THEN << >> ELSE <<moved[i]>>) \in Seq(Task)
      OBVIOUS
    <3>2. moved[i] \in Task \cup {NoTask}
      BY <1>2
    <3>3. << >> \in Seq(Task) /\ \A x \in Task : <<x>> \in Seq(Task)
      OBVIOUS
    <3> QED BY <3>2, <3>3
  <2>2. FlattenSeq(ss) \in Seq(Task)
    BY <1>1, <2>1, FlattenType
  <2> HIDE DEF ss
  <2>3. incompleteTasks \o FlattenSeq(ss) \in Seq(Task)
    BY <2>2, ConcatProperties DEF TypeOK
  <2> QED BY <1>2, <2>3 DEF ss
<1>4. ASSUME NEW k \in Key, NEW i \in 1..n, keys[i] = k
      PROVE  LeftWaiting(k, moved[i]) \in Seq(Task)
  <2> DEFINE s == waitingConcurrentTasks[k]
             M == {moved[j] : j \in 1..(i - 1)}
             eligible == {p \in 1..Len(s) : s[p] \notin visitedTaskIndexes \cup M}
             P == {p \in 1..Len(s) : s[p] = moved[i]}
  <2>1. s \in Seq(Task) /\ Len(s) \in Nat
    BY LenProperties DEF TypeOK
  <2>2. moved[i] = FirstWaiting(k, M)
    BY <1>2, <1>4
  <2> HIDE DEF M
  <2>3. CASE moved[i] = NoTask
    <3>1. << >> \in Seq(Task)
      OBVIOUS
    <3> QED BY <2>3, <3>1 DEF LeftWaiting
  <2>4. CASE moved[i] # NoTask
    <3>1. eligible # {} /\ moved[i] = s[Min(eligible)]
      BY <2>2, <2>4 DEF FirstWaiting
    <3>2. eligible \in SUBSET Nat
      BY <2>1
    <3>3. Min(eligible) \in eligible
      BY <3>1, <3>2, MinIsLeast
    <3>4. P # {} /\ P \in SUBSET Nat
      <4>1. PICK p \in eligible : moved[i] = s[p]
        BY <3>1, <3>3
      <4>2. p \in 1..Len(s)
        OBVIOUS
      <4>3. p \in P
        BY <4>1, <4>2
      <4>4. P \in SUBSET (1..Len(s))
        OBVIOUS
      <4> QED BY <2>1, <4>3, <4>4
    <3>5. Min(P) \in P
      BY <3>4, MinIsLeast
    <3>6. Min(P) + 1 \in Nat \ {0} /\ Len(s) \in Int /\ Len(s) <= Len(s)
      BY <2>1, <3>5
    <3> HIDE DEF P
    <3>7. SubSeq(s, Min(P) + 1, Len(s)) \in Seq(Task)
      BY <2>1, <3>6, SubSeqType
    <3> QED BY <2>4, <3>7 DEF LeftWaiting, P
  <2> QED BY <2>3, <2>4
<1>5. waitingConcurrentTasks' \in [Key -> Seq(Task)]
  <2>1. SUFFICES ASSUME NEW k \in Key
                 PROVE  waitingConcurrentTasks'[k] \in Seq(Task)
    BY <1>2
  <2> DEFINE turns == {i \in 1..n : keys[i] = k}
  <2>2. CASE turns = {}
    BY <1>2, <2>2 DEF TypeOK
  <2>3. CASE turns # {}
    <3>1. turns \in SUBSET (1..n)
      OBVIOUS
    <3>2. Max(turns) \in turns
      BY <1>1, <2>3, <3>1, MaxIsGreatest
    <3>3. waitingConcurrentTasks'[k] = LeftWaiting(k, moved[Max(turns)])
      BY <1>2, <2>3
    <3> QED BY <1>4, <3>2, <3>3
  <2> QED BY <2>2, <2>3
<1> QED BY <1>2, <1>3, <1>5 DEF KeysReleased, n

LEMMA TaskSucceedsStep ==
  ASSUME ExecutorInvariant, NEW w \in Worker, TaskSucceeds(w)
  PROVE  ExecutorInvariant' /\ NoneRetaken
<1> DEFINE u == hand[w]
<1>1. /\ pc \in [Worker -> Stage]
      /\ hand \in [Worker -> Task \cup {NoTask}]
      /\ currentParellelTaskKeys \in SUBSET Key
  BY DEF ExecutorInvariant, TypeOK
<1>2. /\ pc[w] = "running" /\ ReleaseKeys(keysOf[u])
      /\ pc' = [pc EXCEPT ![w] = "timer"]
      /\ hand' = [hand EXCEPT ![w] = NoTask]
      /\ UNCHANGED <<inputs, requests, visitedTaskIndexes, results>>
  BY DEF TaskSucceeds
<1>3. u \in Task /\ u # NoTask
  BY <1>1, <1>2 DEF ExecutorInvariant, HandsAgree
<1> HIDE DEF u
<1>4. keysOf[u] \in Seq(Key)
  BY <1>3, KeysType DEF ExecutorInvariant
<1>5. /\ incompleteTasks' \in Seq(Task)
      /\ waitingConcurrentTasks' \in [Key -> Seq(Task)]
      /\ currentParellelTaskKeys' = currentParellelTaskKeys \ KeysOf(u)
  BY <1>2, <1>4, ReleaseKeysType DEF ExecutorInvariant, KeysOf
<1>6. TypeOK'
  BY <1>1, <1>2, <1>5 DEF ExecutorInvariant, TypeOK, inputs, requests, results, Stage
<1>7. HandsAgree' /\ QueueAgrees' /\ FactoryCallIsFlagged' /\ OneFactoryCallAtATime'
  <2>1. "timer" \in Stage \ {"factory", "queued"} /\ "timer" \notin {"running", "failed"}
    BY DEF Stage
  <2>2. UNCHANGED <<requestTasksQueue, isFulfillingTask>> /\ pc[w] # "queued"
    BY <1>2 DEF requests
  <2>3. NoTask \in Task \cup {NoTask}
    OBVIOUS
  <2> QED BY <1>2, <2>1, <2>2, <2>3, OneWorkerMoves
\* w held u and holds nothing now; whatever else was held is as it was.
<1>8. /\ Holds(w) /\ hand[w] = u /\ ~Holds(w)'
      /\ \A x \in Worker : x # w => (Holds(x)' <=> Holds(x)) /\ hand'[x] = hand[x]
  BY <1>1, <1>2, <1>3 DEF Holds, u
<1>9. \A x : KeysOf(x)' = KeysOf(x)
  BY <1>2 DEF KeysOf, inputs
<1>10. \A x \in Worker : x # w /\ Holds(x) =>
         hand[x] # u /\ KeysOf(hand[x]) \cap KeysOf(u) = {}
  BY <1>8 DEF ExecutorInvariant, HeldTasksAreApart
<1>11. u \in Held /\ Held' = Held \ {u}
  BY <1>8, <1>10 DEF Held
<1>12. \A x \in Held' : KeysOf(x) \cap KeysOf(u) = {}
  <2>1. \A x \in Held' : \E v \in Worker : v # w /\ Holds(v) /\ hand[v] = x
    BY <1>8, <1>11 DEF Held
  <2> QED BY <1>10, <2>1
<1>13. HeldTasksAreApart'
  BY <1>2, <1>8, <1>9, <1>11 DEF ExecutorInvariant, HeldTasksAreApart
<1>14. ReservedKeysAreHeld'
  <2>1. UNION {KeysOf(x)' : x \in Held'} = UNION {KeysOf(x) : x \in Held'}
    BY <1>9
  <2>2. UNION {KeysOf(x) : x \in Held} = (UNION {KeysOf(x) : x \in Held'}) \cup KeysOf(u)
    BY <1>11
  <2>3. UNION {KeysOf(x) : x \in Held'} = (UNION {KeysOf(x) : x \in Held}) \ KeysOf(u)
    BY <1>12, <2>2
  <2> QED BY <1>5, <2>1, <2>3 DEF ExecutorInvariant, ReservedKeysAreHeld
<1>15. NoneRetaken
  BY <1>2, <1>11 DEF NoneRetaken
<1> QED BY <1>6, <1>7, <1>13, <1>14, <1>15 DEF ExecutorInvariant

LEMMA TaskSettlesStep ==
  ASSUME ExecutorInvariant, NEW w \in Worker, TaskSettles(w)
  PROVE  ExecutorInvariant' /\ NoneRetaken
<1>1. CASE TaskSucceeds(w)
  BY <1>1, TaskSucceedsStep
<1>2. CASE TaskFails(w)
  <2>1. /\ pc[w] = "running" /\ pc' = [pc EXCEPT ![w] = "failed"]
        /\ UNCHANGED <<inputs, requests, incompleteTasks, reservations, hand>>
    BY <1>2 DEF TaskFails
  <2>2. /\ currentRunIndex' \in Nat /\ finishedParallels' \in Nat
        /\ hasEncounteredFailure' \in BOOLEAN
        /\ outcome' \in {"pending", "resolved", "rejected"}
    BY <1>2 DEF TaskFails, ExecutorInvariant, TypeOK
  <2>3. hand[w] # NoTask
    BY <2>1 DEF ExecutorInvariant, HandsAgree
  <2>4. /\ "failed" \in Stage \ {"timer", "factory", "queued"}
        /\ "failed" \in HoldingStages /\ "running" \in HoldingStages
    BY DEF Stage, HoldingStages
  <2> QED BY <2>1, <2>2, <2>3, <2>4, StageChanges
<1> QED BY <1>1, <1>2 DEF TaskSettles

-----------------------------------------------------------------------------
(* The inductive invariant *)

LEMMA InitialInvariant == Init => ExecutorInvariant
<1> SUFFICES ASSUME Init PROVE ExecutorInvariant
  OBVIOUS
<1>1. 0 \in Worker /\ "factory" \in Stage /\ "queued" \in Stage
  BY MaxParallelAssumption DEF Worker, Stage
<1>2. \A x \in Worker : pc[x] = (IF x = 0 THEN "factory" ELSE "queued") /\ hand[x] = NoTask
  BY DEF Init
<1>3. /\ requestTasksQueue \in Seq(Worker)
      /\ Len(requestTasksQueue) = MaxParallel - 1
      /\ \A i \in 1..(MaxParallel - 1) : requestTasksQueue[i] = i
  <2>1. MaxParallel - 1 \in Nat
    BY MaxParallelAssumption
  <2>2. \A i \in 1..(MaxParallel - 1) : i \in Worker
    BY MaxParallelAssumption DEF Worker
  <2>3. requestTasksQueue = [i \in 1..(MaxParallel - 1) |-> i]
    BY DEF Init
  <2> QED BY <2>1, <2>2, <2>3
<1>4. TypeOK
  <2>1. << >> \in Seq(Task) /\ 0 \in 0..TaskCount
    BY TaskCountAssumption
  <2>2. pc \in [Worker -> Stage] /\ hand \in [Worker -> Task \cup {NoTask}]
    BY <1>1 DEF Init
  <2> QED BY <1>3, <2>1, <2>2 DEF Init, TypeOK
<1>5. HandsAgree
  BY <1>2 DEF HandsAgree
<1>6. QueueAgrees
  <2>1. \A i \in 1..Len(requestTasksQueue) :
          i \in Worker /\ i # 0 /\ requestTasksQueue[i] = i
    BY <1>3, MaxParallelAssumption DEF Worker
  <2> QED BY <1>2, <2>1 DEF QueueAgrees
<1>7. FactoryCallIsFlagged /\ OneFactoryCallAtATime
  BY <1>2 DEF Init, FactoryCallIsFlagged, OneFactoryCallAtATime
<1>8. Held = {} /\ \A x \in Worker : ~Holds(x)
  BY <1>2 DEF Held, Holds
<1>9. HeldTasksAreApart /\ ReservedKeysAreHeld
  BY <1>8 DEF Init, HeldTasksAreApart, ReservedKeysAreHeld
<1> QED BY <1>4, <1>5, <1>6, <1>7, <1>9 DEF ExecutorInvariant

LEMMA InvariantStep ==
  ExecutorInvariant /\ [Next]_vars => ExecutorInvariant' /\ NoneRetaken
<1> SUFFICES ASSUME ExecutorInvariant, [Next]_vars
             PROVE  ExecutorInvariant' /\ NoneRetaken
  OBVIOUS
<1>1. CASE \E w \in Worker : Proceed(w)
  BY <1>1, ProceedStep
<1>2. CASE \E w \in Worker : FactoryAnswers(w)
  BY <1>2, FactoryAnswersStep
<1>3. CASE \E w \in Worker : TaskSettles(w)
  BY <1>3, TaskSettlesStep
<1>4. CASE RequestWaitElapses
  BY <1>4, RequestWaitElapsesStep
<1>5. CASE UNCHANGED vars
  <2>1. UNCHANGED <<keysOf, waitsBetweenRequests, incompleteTasks, baseI, isOutOfTasks,
                    isFulfillingTask, requestTasksQueue, requestWaits, currentRunIndex,
                    finishedParallels, hasEncounteredFailure, currentParellelTaskKeys,
                    visitedTaskIndexes, waitingConcurrentTasks, outcome, pc, hand>>
    BY <1>5 DEF vars, inputs, requests, reservations, results
  <2>2. TypeOK'
    BY <2>1 DEF ExecutorInvariant, TypeOK
  <2>3. HandsAgree' /\ QueueAgrees' /\ FactoryCallIsFlagged' /\ OneFactoryCallAtATime'
    BY <2>1 DEF ExecutorInvariant, HandsAgree, QueueAgrees, FactoryCallIsFlagged,
                OneFactoryCallAtATime
  <2>4. HeldTasksAreApart' /\ ReservedKeysAreHeld' /\ NoneRetaken
    BY <2>1, HeldUnchanged DEF Holds, HoldingStages
  <2> QED BY <2>2, <2>3, <2>4 DEF ExecutorInvariant
<1>6. CASE Stop
  BY <1>5, <1>6 DEF Stop
<1> QED BY <1>1, <1>2, <1>3, <1>4, <1>5, <1>6 DEF Next

\* Every reachable state satisfies the inductive invariant, for any number of
\* workers and tasks, any keys and any key lists, repeats included.
THEOREM InvariantHolds == Spec => []ExecutorInvariant
<1>1. ExecutorInvariant /\ [Next]_vars => ExecutorInvariant'
  BY InvariantStep
<1> QED BY InitialInvariant, <1>1, PTL DEF Spec

\* The executor's variables always hold values of their types: in particular the
\* stack, the parked tasks and the tasks handed over are tasks given out, never
\* undefined.
THEOREM TypeCorrect == Spec => []TypeOK
<1>1. ExecutorInvariant => TypeOK
  BY DEF ExecutorInvariant
<1> QED BY InvariantHolds, <1>1, PTL

\* Two tasks that share a key never run at the same time.
THEOREM KeysExclude == Spec => []KeyExclusion
<1>1. ExecutorInvariant => KeyExclusion
  <2>1. SUFFICES ASSUME ExecutorInvariant, NEW v \in Worker, NEW w \in Worker, v # w,
                        pc[v] = "running", pc[w] = "running"
                 PROVE  KeysOf(hand[v]) \cap KeysOf(hand[w]) = {}
    BY DEF KeyExclusion
  <2>2. Holds(v) /\ Holds(w)
    BY <2>1 DEF Holds, ExecutorInvariant, HandsAgree
  <2> QED BY <2>1, <2>2 DEF ExecutorInvariant, HeldTasksAreApart
<1> QED BY InvariantHolds, <1>1, PTL

\* The keys reserved are those of the tasks taken and not resolved.
THEOREM ReservationsExact == Spec => []ReservedKeysAreHeld
<1>1. ExecutorInvariant => ReservedKeysAreHeld
  BY DEF ExecutorInvariant
<1> QED BY InvariantHolds, <1>1, PTL

\* The input factory is never called while an earlier call is awaited.
THEOREM FactoryCallsDoNotOverlap == Spec => []OneFactoryCallAtATime
<1>1. ExecutorInvariant => OneFactoryCallAtATime
  BY DEF ExecutorInvariant
<1> QED BY InvariantHolds, <1>1, PTL

\* A task that has run is never taken again.
THEOREM TasksRunOnce == Spec => CompletedTasksStayCompleted
<1>1. ExecutorInvariant /\ [Next]_vars
        => [\A t \in Task : t \in Completed => t \in Completed']_vars
  <2>1. SUFFICES ASSUME ExecutorInvariant, [Next]_vars,
                        NEW t \in Task, t \in Completed
                 PROVE  t \in Completed'
    OBVIOUS
  <2>2. NoneRetaken
    BY <2>1, InvariantStep
  <2> QED BY <2>1, <2>2 DEF Completed, NoneRetaken
<1> QED BY InvariantHolds, <1>1, PTL DEF Spec, CompletedTasksStayCompleted

-----------------------------------------------------------------------------
(* Tasks that are coming, and tasks that are parked *)

\* The tasks handed to workers that have not resumed.
Handed == {hand[w] : w \in {v \in Worker : pc[v] = "handed"}}

\* What the two parts of the invariant about waiting tasks come to after a step.
DeliveryKept == TasksAreParked' /\ NoTasksAreStuck'

\* A step that takes and parks nothing, by which no coming task is lost and the tasks
\* given out are all coming, keeps what is said of waiting tasks.
LEMMA ComingGrows ==
  ASSUME TasksAreParked, NoTasksAreStuck,
         UNCHANGED <<keysOf, reservations>>,
         Produced \subseteq Produced',
         Coming \cup (Produced' \ Produced) \subseteq Coming',
         Coming' \subseteq Produced'
  PROVE  DeliveryKept
<1>1. UNCHANGED <<currentParellelTaskKeys, visitedTaskIndexes, waitingConcurrentTasks>>
  BY DEF reservations
<1>2. \A t : KeysOf(t)' = KeysOf(t)
  BY DEF KeysOf
<1>3. Untaken' = Untaken \cup (Produced' \ (Produced \cup visitedTaskIndexes))
  BY <1>1 DEF Untaken
<1>4. Untaken' \ Coming' \subseteq Untaken \ Coming
  BY <1>3
<1>5. TasksAreParked'
  BY <1>1, <1>2, <1>4 DEF TasksAreParked
<1>6. ASSUME NEW group \in SUBSET Untaken', group # {},
             \A t \in group, u \in Untaken' : KeysOf(t) \cap KeysOf(u) # {} => u \in group
      PROVE  \E t \in group : t \in Coming' \/ KeysOf(t) \cap currentParellelTaskKeys # {}
  <2>1. CASE group \subseteq Untaken
    <3>1. \E t \in group : t \in Coming \/ KeysOf(t) \cap currentParellelTaskKeys # {}
      BY <1>3, <1>6, <2>1 DEF NoTasksAreStuck
    <3> QED BY <3>1
  <2>2. CASE ~(group \subseteq Untaken)
    <3>1. PICK t \in group : t \notin Untaken
      BY <2>2
    <3>2. t \in Produced' \ Produced
      BY <1>3, <3>1
    <3> QED BY <3>2
  <2> QED BY <2>1, <2>2
<1>7. NoTasksAreStuck'
  BY <1>1, <1>2, <1>6 DEF NoTasksAreStuck
<1> QED BY <1>5, <1>7 DEF DeliveryKept

\* The tasks of s are parked and those of T, at most one, taken.  A task that is
\* parked has a reserved key, and so has any that shares one with the task taken.
LEMMA ParkingKeeps ==
  ASSUME TypeOK, TasksAreParked, NoTasksAreStuck,
         NEW s \in Seq(Task), ToSet(s) \subseteq Coming, \A t \in ToSet(s) : ~Runnable(t), Park(s),
         NEW T \in SUBSET (Coming \cap Task),
         visitedTaskIndexes' = visitedTaskIndexes \cup T,
         currentParellelTaskKeys' = currentParellelTaskKeys \cup UNION {KeysOf(t) : t \in T},
         UNCHANGED <<keysOf, baseI>>,
         Coming \subseteq Coming' \cup ToSet(s) \cup T, Coming' \subseteq Coming
  PROVE  DeliveryKept
<1>1. Produced' = Produced /\ Untaken' = Untaken \ T
  BY DEF Produced, Untaken
<1>2. \A t : KeysOf(t)' = KeysOf(t)
  BY DEF KeysOf
<1>3. \A k \in Key : ToSet(waitingConcurrentTasks'[k]) = ToSet(waitingConcurrentTasks[k])
        \cup {t \in ToSet(s) : t \notin visitedTaskIndexes /\ k \in KeysOf(t)}
  <2>1. SUFFICES ASSUME NEW k \in Key
                 PROVE  ToSet(waitingConcurrentTasks'[k]) = ToSet(waitingConcurrentTasks[k])
                          \cup {t \in ToSet(s) : t \notin visitedTaskIndexes /\ k \in KeysOf(t)}
    OBVIOUS
  <2>2. waitingConcurrentTasks'[k] = waitingConcurrentTasks[k] \o Parked(s, k)
    BY DEF Park
  <2>3. waitingConcurrentTasks[k] \in Seq(Task)
    BY DEF TypeOK
  <2> QED BY <2>2, <2>3, ParkedTasks, ElementsOfConcat
<1>4. Untaken \subseteq Task
  BY ProducedTasks DEF Untaken
<1>5. \A t \in Task : KeysOf(t) \subseteq Key
  BY KeysType
<1>6. \A t \in ToSet(s) : t \in visitedTaskIndexes \/ KeysOf(t) \cap currentParellelTaskKeys # {}
  BY DEF Runnable
<1>7. TasksAreParked'
  <2>1. visitedTaskIndexes' \subseteq Produced' /\ Coming' \subseteq Produced'
    BY <1>1 DEF TasksAreParked
  <2>2. \A k \in Key : \A t \in ToSet(waitingConcurrentTasks'[k]) : t \in Produced' /\ k \in KeysOf(t)'
    BY <1>1, <1>2, <1>3 DEF TasksAreParked
  <2>3. ASSUME NEW t \in Untaken' \ Coming'
        PROVE  KeysOf(t)' # {} /\ \A k \in KeysOf(t)' : t \in ToSet(waitingConcurrentTasks'[k])
    <3>1. t \in Untaken /\ t \in Task /\ t \notin visitedTaskIndexes /\ (t \notin Coming \/ t \in ToSet(s))
      BY <1>1, <1>4 DEF Untaken
    <3>2. CASE t \notin Coming
      <4>1. KeysOf(t) # {} /\ \A k \in KeysOf(t) : t \in ToSet(waitingConcurrentTasks[k])
        BY <3>1, <3>2 DEF TasksAreParked
      <4> QED BY <1>2, <1>3, <1>5, <3>1, <4>1
    <3>3. CASE t \in ToSet(s)
      <4>1. KeysOf(t) # {}
        BY <1>6, <3>1, <3>3
      <4> QED BY <1>2, <1>3, <1>5, <3>1, <3>3, <4>1
    <3> QED BY <3>1, <3>2, <3>3
  <2> QED BY <2>1, <2>2, <2>3 DEF TasksAreParked
<1>8. ASSUME NEW group \in SUBSET Untaken', group # {},
             \A t \in group, u \in Untaken' : KeysOf(t) \cap KeysOf(u) # {} => u \in group
      PROVE  \E t \in group : t \in Coming' \/ KeysOf(t) \cap currentParellelTaskKeys' # {}
  <2>1. SUFFICES ASSUME \A t \in group : KeysOf(t) \cap currentParellelTaskKeys' = {}
                 PROVE  \E t \in group : t \in Coming'
    OBVIOUS
  <2>2. \A t \in group : t \notin ToSet(s) /\ t \notin T
    BY <1>1, <1>6, <2>1 DEF Untaken
  <2>3. \A t \in group, u \in T : KeysOf(t) \cap KeysOf(u) = {}
    BY <2>1
  <2>4. \A t \in group, u \in Untaken : KeysOf(t) \cap KeysOf(u) # {} => u \in group
    BY <1>1, <1>8, <2>3
  <2>5. group \in SUBSET Untaken
    BY <1>1
  <2>6. \E t \in group : t \in Coming \/ KeysOf(t) \cap currentParellelTaskKeys # {}
    BY <1>8, <2>4, <2>5 DEF NoTasksAreStuck
  <2> QED BY <2>1, <2>2, <2>6
<1>9. NoTasksAreStuck'
  BY <1>2, <1>8 DEF NoTasksAreStuck
<1> QED BY <1>7, <1>9 DEF DeliveryKept

-----------------------------------------------------------------------------
(* What fulfillRequestMoreTasks() hands over is coming *)

\* What is handed out of the stack is held by the workers it is handed to.
LEMMA HandedOutIsComing ==
  ASSUME ExecutorInvariant,
         NEW line \in Seq(Worker), NEW stack \in Seq(Task),
         \A i \in 1..Len(line) : pc[line[i]] \in {"factory", "queued"},
         NEW served \in 1..Len(line), HandedOut(line, stack, served)
  PROVE  /\ Coming' = (ToSet(stack) \cup Handed) \ {NoTask}
         /\ \A x \in Worker :
              pc'[x] = pc[x] \/ (pc[x] \in {"factory", "queued"} /\ pc'[x] \in {"handed", "factory"})
<1> DEFINE Gift(i) == IF stack = << >> THEN NoTask ELSE stack[Len(stack) - i + 1]
           Gifts == {Gift(i) : i \in 1..served}
<1>1. Len(line) \in Nat /\ Len(stack) \in Nat /\ served \in Nat /\ served >= 1
  BY LenProperties
<1>2. \A i \in 1..Len(line) : line[i] \in Worker
  BY ElementOfSeq
<1>3. /\ stack = << >> => served = 1
      /\ stack # << >> => served <= Len(stack)
      /\ incompleteTasks' = SubSeq(stack, 1, Len(stack) - served)
      /\ pc' \in [Worker -> Stage]
      /\ \A i \in 1..Len(line) :
           /\ i <= served => pc'[line[i]] = "handed" /\ hand'[line[i]] = Gift(i)
           /\ i = served + 1 => pc'[line[i]] = "factory"
           /\ i > served + 1 => pc'[line[i]] = pc[line[i]]
      /\ \A x \in Worker :
           (\A i \in 1..Len(line) : line[i] # x) => pc'[x] = pc[x] /\ hand'[x] = hand[x]
  BY Zenon DEF HandedOut
<1> HIDE DEF Gift
<1>4. ASSUME NEW i \in 1..Len(line)
      PROVE  \/ i <= served /\ pc'[line[i]] = "handed" /\ hand'[line[i]] = Gift(i)
             \/ i > served /\ pc'[line[i]] \in {"factory", "queued"}
  <2>1. i <= served \/ i = served + 1 \/ i > served + 1
    BY <1>1
  <2>2. i = served + 1 \/ i > served + 1 => i > served
    BY <1>1
  <2> QED BY <1>3, <2>1, <2>2
<1>5. \A x \in Worker :
        pc'[x] = pc[x] \/ (pc[x] \in {"factory", "queued"} /\ pc'[x] \in {"handed", "factory"})
  <2>1. SUFFICES ASSUME NEW x \in Worker, NEW i \in 1..Len(line), line[i] = x
                 PROVE  pc'[x] = pc[x] \/ pc'[x] \in {"handed", "factory"}
    BY <1>3
  <2>2. i <= served \/ i = served + 1 \/ i > served + 1
    BY <1>1
  <2> QED BY <1>3, <2>1, <2>2
<1>6. Handed' = Handed \cup Gifts
  <2>1. ASSUME NEW x \in Worker, pc'[x] = "handed"
        PROVE  hand'[x] \in Handed \cup Gifts
    <3>1. CASE \E i \in 1..Len(line) : line[i] = x
      <4>1. PICK i \in 1..Len(line) : line[i] = x
        BY <3>1
      <4>2. i \in 1..served /\ hand'[x] = Gift(i)
        BY <1>1, <1>4, <2>1, <4>1
      <4> QED BY <4>2
    <3>2. CASE \A i \in 1..Len(line) : line[i] # x
      BY <1>3, <2>1, <3>2 DEF Handed
    <3> QED BY <3>1, <3>2
  <2>2. ASSUME NEW x \in Worker, pc[x] = "handed"
        PROVE  hand[x] \in Handed'
    <3>1. \A i \in 1..Len(line) : line[i] # x
      BY <2>2
    <3> QED BY <1>3, <2>2, <3>1 DEF Handed
  <2>3. ASSUME NEW i \in 1..served
        PROVE  Gift(i) \in Handed'
    <3>1. i \in 1..Len(line) /\ ~(i > served)
      BY <1>1
    <3> QED BY <1>2, <1>4, <3>1 DEF Handed
  <2>4. Handed' \subseteq Handed \cup Gifts
    BY <2>1 DEF Handed
  <2>5. Handed \subseteq Handed'
    BY <2>2 DEF Handed
  <2> QED BY <2>3, <2>4, <2>5
<1>7. Gifts \cup ToSet(incompleteTasks') \cup {NoTask} = ToSet(stack) \cup {NoTask}
  <2>1. CASE stack = << >>
    <3>1. Gifts = {NoTask}
      BY <1>1, <2>1 DEF Gift
    <3>2. incompleteTasks' = << >>
      BY <1>3, <2>1
    <3> QED BY <2>1, <3>1, <3>2
  <2>2. CASE stack # << >>
    <3>1. Len(stack) - served \in Nat /\ Len(stack) - served <= Len(stack) /\ served <= Len(stack)
      BY <1>1, <1>3, <2>2
    <3>2. /\ incompleteTasks' \in Seq(Task)
          /\ \A i \in 1 .. Len(stack) - served : incompleteTasks'[i] = stack[i]
          /\ Len(incompleteTasks') = Len(stack) - served
      <4> DEFINE n == Len(stack) - served
      <4> HIDE DEF n
      <4>1. n \in Nat /\ n \in Int /\ n <= Len(stack)
        BY <3>1 DEF n
      <4>2. /\ SubSeq(stack, 1, n) \in Seq(Task)
            /\ \A i \in 1..n : SubSeq(stack, 1, n)[i] = stack[i]
            /\ Len(SubSeq(stack, 1, n)) = IF 1 <= n THEN n - 1 + 1 ELSE 0
        BY <4>1, SubSeqType
      <4>3. Len(SubSeq(stack, 1, n)) = n
        BY <4>1, <4>2
      <4> QED BY <1>3, <4>2, <4>3 DEF n
    <3>3. ToSet(incompleteTasks') = {stack[i] : i \in 1 .. Len(stack) - served}
      <4>1. ToSet(incompleteTasks') = {incompleteTasks'[i] : i \in 1..Len(incompleteTasks')}
        BY <3>2, ElementsOfSeq
      <4> DEFINE left == 1 .. Len(stack) - served
      <4>2. 1..Len(incompleteTasks') = left /\ \A i \in left : incompleteTasks'[i] = stack[i]
        BY <3>2
      <4> HIDE DEF left
      <4>3. ToSet(incompleteTasks') = {incompleteTasks'[i] : i \in left}
        BY <4>1, <4>2
      <4>4. {incompleteTasks'[i] : i \in left} = {stack[i] : i \in left}
        BY <4>2
      <4> QED BY <4>3, <4>4 DEF left
    <3>4. Gifts = {stack[i] : i \in Len(stack) - served + 1 .. Len(stack)}
      <4>1. ASSUME NEW i \in 1..served
            PROVE  \E j \in Len(stack) - served + 1 .. Len(stack) : Gift(i) = stack[j]
        <5>1. Len(stack) - i + 1 \in Len(stack) - served + 1 .. Len(stack)
          BY <1>1, <3>1
        <5> QED BY <2>2, <5>1 DEF Gift
      <4>2. ASSUME NEW j \in Len(stack) - served + 1 .. Len(stack)
            PROVE  \E i \in 1..served : Gift(i) = stack[j]
        <5>1. Len(stack) - j + 1 \in 1..served /\ Len(stack) - (Len(stack) - j + 1) + 1 = j
          BY <1>1, <3>1
        <5>2. Gift(Len(stack) - j + 1) = stack[j]
          BY <2>2, <5>1 DEF Gift
        <5> QED BY <5>1, <5>2
      <4> DEFINE Top == {stack[i] : i \in Len(stack) - served + 1 .. Len(stack)}
      <4>3. Gifts \subseteq Top
        BY <4>1, Zenon
      <4>4. Top \subseteq Gifts
        BY <4>2, Zenon
      <4> QED BY <4>3, <4>4
    <3>5. 1..Len(stack) = (1 .. Len(stack) - served) \cup (Len(stack) - served + 1 .. Len(stack))
      BY <1>1, <3>1
    <3>6. ToSet(stack) = {stack[i] : i \in 1..Len(stack)}
      BY ElementsOfSeq
    <3> QED BY <3>3, <3>4, <3>5, <3>6
  <2> QED BY <2>1, <2>2
<1>8. Coming' = (ToSet(incompleteTasks') \cup Handed') \ {NoTask}
  BY DEF Coming, Handed
<1>9. Coming' = (ToSet(stack) \cup Handed) \ {NoTask}
  BY <1>6, <1>7, <1>8
<1> QED BY <1>5, <1>9

-----------------------------------------------------------------------------
(* The steps that park nothing *)

\* What a step has to keep beyond ExecutorInvariant.
StepDelivers == DeliveryKept /\ WorkersFinishLast'

\* As long as no worker finishes, it is enough that the stack is empty or that some
\* worker is not about to finish.
LEMMA NoneFinishes ==
  ASSUME WorkersFinishLast,
         finishedParallels' = finishedParallels,
         outcome' = "resolved" => outcome = "resolved",
         \A x \in Worker : pc'[x] = "finished" <=> pc[x] = "finished",
         \/ incompleteTasks' = << >>
         \/ \E w \in Worker : pc'[w] # "finished" /\ ~(pc'[w] = "chosen" /\ hand'[w] = NoTask)
  PROVE  WorkersFinishLast'
<1>1. {x \in Worker : pc'[x] = "finished"} = {x \in Worker : pc[x] = "finished"}
  OBVIOUS
<1>2. finishedParallels' = Cardinality({x \in Worker : pc'[x] = "finished"})
  BY <1>1 DEF WorkersFinishLast
<1>3. outcome' = "resolved" => \A x \in Worker : pc'[x] = "finished"
  BY DEF WorkersFinishLast
<1> QED BY <1>2, <1>3 DEF WorkersFinishLast

\* A worker moves on and leaves what is handed to the others.
LEMMA OthersHanded ==
  ASSUME NEW w \in Worker, pc'[w] # "handed",
         \A x \in Worker : x # w => pc'[x] = pc[x] /\ hand'[x] = hand[x]
  PROVE  Handed = Handed' \cup (IF pc[w] = "handed" THEN {hand[w]} ELSE {})
<1>1. Handed' \subseteq Handed
  BY DEF Handed
<1>2. pc[w] = "handed" => hand[w] \in Handed
  BY DEF Handed
<1>3. ASSUME NEW x \in Worker, pc[x] = "handed"
      PROVE  hand[x] \in Handed' \/ x = w
  BY <1>3 DEF Handed
<1>4. Handed \subseteq Handed' \cup (IF pc[w] = "handed" THEN {hand[w]} ELSE {})
  BY <1>3 DEF Handed
<1> QED BY <1>1, <1>2, <1>4

\* A worker that has nothing handed over changes its stage.
LEMMA StageDelivers ==
  ASSUME DeliveryInvariant, NEW w \in Worker, pc[w] \notin {"handed", "finished"},
         NEW s \in Stage \ {"chosen", "handed", "finished"}, pc' = [pc EXCEPT ![w] = s],
         UNCHANGED <<keysOf, baseI, reservations, incompleteTasks, hand, finishedParallels>>,
         outcome' = "resolved" => outcome = "resolved"
  PROVE  StepDelivers
<1>1. pc \in [Worker -> Stage] /\ TasksAreParked /\ NoTasksAreStuck /\ WorkersFinishLast
  BY DEF DeliveryInvariant, ExecutorInvariant, TypeOK
<1>2. pc'[w] = s /\ \A x \in Worker : x # w => pc'[x] = pc[x] /\ hand'[x] = hand[x]
  BY <1>1
<1>3. Handed' = Handed
  BY <1>2, OthersHanded
<1>4. Coming' = Coming /\ Produced' = Produced
  BY <1>3 DEF Coming, Handed, Produced
<1>5. DeliveryKept
  BY <1>1, <1>4, ComingGrows DEF TasksAreParked
<1>6. WorkersFinishLast'
  BY <1>1, <1>2, NoneFinishes
<1> QED BY <1>5, <1>6 DEF StepDelivers

\* The workers of a line are served from a stack that holds the old one and the
\* tasks that have just been given out.
LEMMA LineDelivers ==
  ASSUME DeliveryInvariant,
         NEW line \in Seq(Worker), NEW stack \in Seq(Task),
         \A i \in 1..Len(line) : pc[line[i]] \in {"factory", "queued"},
         NEW served \in 1..Len(line), HandedOut(line, stack, served),
         Produced \subseteq Produced',
         ToSet(stack) = ToSet(incompleteTasks) \cup (Produced' \ Produced),
         UNCHANGED <<keysOf, reservations, results>>
  PROVE  StepDelivers
<1>1. /\ ExecutorInvariant /\ TasksAreParked /\ NoTasksAreStuck /\ WorkersFinishLast
      /\ incompleteTasks \in Seq(Task) /\ baseI \in 0..TaskCount
  BY DEF DeliveryInvariant, ExecutorInvariant, TypeOK
<1>2. /\ Coming' = (ToSet(stack) \cup Handed) \ {NoTask}
      /\ \A x \in Worker :
           pc'[x] = pc[x] \/ (pc[x] \in {"factory", "queued"} /\ pc'[x] \in {"handed", "factory"})
  BY <1>1, HandedOutIsComing
<1>3. NoTask \notin Produced'
  <2>1. NoTask \notin ToSet(stack) /\ NoTask \notin Produced
    <3>1. ToSet(stack) \subseteq Task /\ Produced \subseteq Task
      BY <1>1, ElementsOfSeq, ProducedTasks DEF ExecutorInvariant
    <3> QED BY <3>1, NoTaskIsNoTask
  <2> QED BY <2>1
<1>4. Coming = (ToSet(incompleteTasks) \cup Handed) \ {NoTask}
  BY DEF Coming, Handed
<1>5. Coming' = Coming \cup (Produced' \ Produced)
  BY <1>2, <1>3, <1>4
<1>6. Coming' \subseteq Produced'
  BY <1>1, <1>5 DEF TasksAreParked
<1>7. DeliveryKept
  BY <1>1, <1>5, <1>6, ComingGrows
<1>8. WorkersFinishLast'
  <2>1. 1 \in 1..Len(line) /\ line[1] \in Worker
    BY LenProperties, ElementOfSeq
  <2>2. pc'[line[1]] = "handed"
    <3>1. 1 <= served
      OBVIOUS
    <3> QED BY <2>1, <3>1 DEF HandedOut
  <2> QED BY <1>1, <1>2, <2>1, <2>2, NoneFinishes DEF results
<1> QED BY <1>7, <1>8 DEF StepDelivers

LEMMA FactoryAnswersDelivers ==
  ASSUME DeliveryInvariant, NEW w \in Worker, FactoryAnswers(w)
  PROVE  StepDelivers
<1>1. /\ ExecutorInvariant /\ incompleteTasks \in Seq(Task) /\ baseI \in 0..TaskCount
      /\ TaskCount \in Nat
  BY TaskCountAssumption DEF DeliveryInvariant, ExecutorInvariant, TypeOK
<1>2. CASE FactoryReturnsTasks(w)
  <2>1. PICK n \in 0 .. (TaskCount - baseI) :
          baseI' = baseI + n /\ ServeRequests(w, NewTasks(n) \o incompleteTasks)
    BY <1>2 DEF FactoryReturnsTasks
  <2>2. pc[w] = "factory" /\ UNCHANGED <<keysOf, reservations, results>>
    BY <1>2 DEF FactoryReturnsTasks, inputs
  <2>3. n \in Nat /\ \A i \in 1..n : baseI + n - i \in Task
    BY <1>1 DEF Task
  <2>4. /\ NewTasks(n) \in Seq(Task) /\ Len(NewTasks(n)) = n
        /\ \A i \in 1..n : NewTasks(n)[i] = baseI + n - i
    BY <2>3 DEF NewTasks
  <2>5. ToSet(NewTasks(n)) = Produced' \ Produced /\ Produced \subseteq Produced'
    <3>1. ToSet(NewTasks(n)) = {NewTasks(n)[i] : i \in 1..Len(NewTasks(n))}
      BY <2>4, ElementsOfSeq
    <3>2. ToSet(NewTasks(n)) = {baseI + n - i : i \in 1..n}
      BY <2>4, <3>1, Zenon
    <3>3. Produced = 0 .. baseI - 1 /\ Produced' = 0 .. baseI' - 1 /\ baseI' = baseI + n
      BY <2>1 DEF Produced
    <3>4. ASSUME NEW j \in Produced' \ Produced
          PROVE  \E i \in 1..n : j = baseI + n - i
      <4>1. baseI + n - j \in 1..n /\ j = baseI + n - (baseI + n - j)
        BY <1>1, <2>3, <3>3
      <4> QED BY <4>1
    <3>5. \A i \in 1..n : baseI + n - i \in Produced' \ Produced
      BY <1>1, <2>3, <3>3
    <3>6. Produced \subseteq Produced'
      BY <1>1, <2>3, <3>3
    <3> QED BY <3>2, <3>4, <3>5, <3>6
  <2> DEFINE stack == NewTasks(n) \o incompleteTasks
  <2>6. stack \in Seq(Task) /\ ToSet(stack) = ToSet(incompleteTasks) \cup (Produced' \ Produced)
    BY <1>1, <2>4, <2>5, ElementsOfConcat
  <2>7. ServeRequests(w, stack)
    BY <2>1
  <2> HIDE DEF stack
  <2>8. PICK line \in Seq(Worker) :
          /\ \A i \in 1..Len(line) : pc[line[i]] \in {"factory", "queued"}
          /\ \E served \in 1..Len(line) : HandedOut(line, stack, served)
    BY <1>1, <2>2, <2>6, <2>7, ServedLine
  <2> QED BY <2>2, <2>5, <2>6, <2>8, LineDelivers
<1>3. CASE FactoryReturnsNull(w)
  <2>1. /\ pc[w] = "factory" /\ ServeRequests(w, incompleteTasks)
        /\ UNCHANGED <<keysOf, baseI, reservations, results>>
    BY <1>3 DEF FactoryReturnsNull, inputs
  <2>2. PICK line \in Seq(Worker) :
          /\ \A i \in 1..Len(line) : pc[line[i]] \in {"factory", "queued"}
          /\ \E served \in 1..Len(line) : HandedOut(line, incompleteTasks, served)
    BY <1>1, <2>1, ServedLine
  <2>3. Produced' = Produced
    BY <2>1 DEF Produced
  <2> QED BY <1>1, <2>1, <2>2, <2>3, LineDelivers
<1>4. CASE FactoryRejects(w)
  <2>1. "orphaned" \in Stage \ {"chosen", "handed", "finished"}
    BY DEF Stage
  <2> QED BY <1>4, <2>1, StageDelivers DEF FactoryRejects, inputs, requests, results
<1> QED BY <1>2, <1>3, <1>4 DEF FactoryAnswers

LEMMA RequestWaitElapsesDelivers ==
  ASSUME DeliveryInvariant, RequestWaitElapses
  PROVE  StepDelivers
<1> DEFINE q == requestTasksQueue
           w == Last(q)
<1>1. /\ ExecutorInvariant /\ TasksAreParked /\ NoTasksAreStuck /\ WorkersFinishLast
      /\ q \in Seq(Worker) /\ Len(q) \in Nat
      /\ incompleteTasks \in Seq(Task)
  BY LenProperties DEF DeliveryInvariant, ExecutorInvariant, TypeOK
<1>2. UNCHANGED <<keysOf, baseI, reservations, results>> /\ Produced' = Produced
  BY DEF RequestWaitElapses, inputs, Produced
<1>3. CASE isFulfillingTask \/ q = << >>
  <2>1. UNCHANGED <<incompleteTasks, pc, hand>>
    BY <1>3 DEF RequestWaitElapses
  <2>2. Coming' = Coming
    BY <2>1 DEF Coming
  <2>3. DeliveryKept
    BY <1>1, <1>2, <2>2, ComingGrows DEF TasksAreParked
  <2>4. WorkersFinishLast'
    BY <1>1, <1>2, <2>1 DEF WorkersFinishLast, results
  <2> QED BY <2>3, <2>4 DEF StepDelivers
<1>4. CASE ~isFulfillingTask /\ q # << >>
  <2>1. w \in Worker /\ pc[w] = "queued"
    <3>1. Len(q) >= 1 /\ w = q[Len(q)]
      BY <1>1, <1>4, EmptySeq DEF Last
    <3>2. Len(q) \in 1..Len(q)
      BY <1>1, <3>1
    <3> QED BY <1>1, <3>1, <3>2, ElementOfSeq DEF ExecutorInvariant, QueueAgrees
  <2>2. CASE incompleteTasks # << >>
    <3> DEFINE line == <<w>>
    <3>1. HandOut(line, incompleteTasks)
      BY <1>4, <2>2 DEF RequestWaitElapses
    <3>2. /\ line \in Seq(Worker) /\ Len(line) = 1
          /\ \A i \in 1..Len(line) : pc[line[i]] \in {"factory", "queued"}
          /\ \A i, j \in 1..Len(line) : line[i] = line[j] => i = j
      BY <2>1
    <3> HIDE DEF line, w
    <3>3. Len(line) >= 1
      BY <3>2
    <3>4. PICK served \in 1..Len(line) : HandedOut(line, incompleteTasks, served)
      BY <1>1, <3>1, <3>2, <3>3, HandOutEffect
    <3> QED BY <1>1, <1>2, <3>2, <3>4, LineDelivers
  <2>3. CASE incompleteTasks = << >>
    <3>1. pc' = [pc EXCEPT ![w] = "factory"] /\ UNCHANGED <<incompleteTasks, hand>>
      BY <1>4, <2>3 DEF RequestWaitElapses
    <3>2. "factory" \in Stage \ {"chosen", "handed", "finished"}
      BY DEF Stage
    <3> HIDE DEF w
    <3> QED BY <1>2, <2>1, <3>1, <3>2, StageDelivers DEF results
  <2> QED BY <2>2, <2>3
<1> QED BY <1>3, <1>4

-----------------------------------------------------------------------------
(* What getNextTask() skips is parked *)

\* The loop looks at the task handed over and at the whole stack; behind the first
\* candidate it goes down the stack.
LEMMA CandidatesAreComing ==
  ASSUME TypeOK, NEW t \in Task \cup {NoTask}
  PROVE  /\ ToSet(Candidates(t)) = (ToSet(incompleteTasks) \cup {t}) \ {NoTask}
         /\ Len(Candidates(t)) = Len(incompleteTasks) + (IF t = NoTask THEN 0 ELSE 1)
         /\ \A i \in 1..Len(Candidates(t)) :
              t = NoTask \/ i > 1 =>
                /\ Len(Candidates(t)) - i + 1 \in 1..Len(incompleteTasks)
                /\ Candidates(t)[i] = incompleteTasks[Len(Candidates(t)) - i + 1]
<1> DEFINE stack == incompleteTasks
           rev == Reverse(stack)
           n == Len(stack)
<1>1. stack \in Seq(Task) /\ n \in Nat /\ ToSet(stack) \subseteq Task
  BY LenProperties, ElementsOfSeq DEF TypeOK
<1>2. rev \in Seq(Task) /\ Len(rev) = n /\ \A i \in 1..n : rev[i] = stack[n - i + 1]
  BY <1>1, ReverseType
<1> HIDE DEF rev, n
<1>3. ToSet(rev) = ToSet(stack)
  <2>1. ToSet(rev) = {rev[i] : i \in 1..n} /\ ToSet(stack) = {stack[i] : i \in 1..n}
    <3>1. ToSet(rev) = {rev[i] : i \in 1..Len(rev)} /\ ToSet(stack) = {stack[i] : i \in 1..Len(stack)}
      BY <1>1, <1>2, ElementsOfSeq
    <3> QED BY <1>2, <3>1, Zenon DEF n
  <2>2. \A i \in 1..n : n - i + 1 \in 1..n /\ n - (n - i + 1) + 1 = i
    BY <1>1
  <2>3. \A i \in 1..n : rev[n - i + 1] = stack[i]
    BY <1>2, <2>2
  <2>4. \A i \in 1..n : \E j \in 1..n : rev[i] = stack[j]
    BY <1>2, <2>2, Zenon
  <2>5. \A i \in 1..n : \E j \in 1..n : stack[i] = rev[j]
    BY <2>2, <2>3, Zenon
  <2>6. {rev[i] : i \in 1..n} = {stack[i] : i \in 1..n}
    <3>1. {rev[i] : i \in 1..n} \subseteq {stack[i] : i \in 1..n}
      BY <2>4
    <3>2. {stack[i] : i \in 1..n} \subseteq {rev[i] : i \in 1..n}
      BY <2>5
    <3> QED BY <3>1, <3>2, Zenon
  <2> QED BY <2>1, <2>6, Zenon
<1>4. CASE t = NoTask
  <2>1. Candidates(t) = rev
    <3>1. << >> \o rev = rev
      BY <1>2
    <3> QED BY <1>4, <3>1 DEF Candidates, rev
  <2>2. NoTask \notin ToSet(stack)
    BY <1>1, NoTaskIsNoTask
  <2>3. \A i \in 1..n : n - i + 1 \in 1..n
    BY <1>1
  <2> QED BY <1>1, <1>2, <1>3, <1>4, <2>1, <2>2, <2>3 DEF n
<1>5. CASE t # NoTask
  <2>1. Candidates(t) = <<t>> \o rev
    BY <1>5 DEF Candidates, rev
  <2>2. t \in Task /\ <<t>> \in Seq(Task) /\ Len(<<t>>) = 1 /\ <<t>>[1] = t
    BY <1>5
  <2>3. ToSet(<<t>>) = {t}
    <3>1. ToSet(<<t>>) = {<<t>>[i] : i \in 1..Len(<<t>>)}
      BY <2>2, ElementsOfSeq
    <3>2. 1..Len(<<t>>) = {1}
      BY <2>2
    <3> QED BY <3>1, <3>2
  <2>4. ToSet(Candidates(t)) = (ToSet(stack) \cup {t}) \ {NoTask}
    <3>1. ToSet(<<t>> \o rev) = {t} \cup ToSet(stack)
      <4>1. ToSet(<<t>> \o rev) = ToSet(<<t>>) \cup ToSet(rev)
        <5> DEFINE one == <<t>>
        <5>1. one \in Seq(Task) /\ rev \in Seq(Task)
          BY <1>2, <2>2, Zenon
        <5> HIDE DEF one
        <5>2. ToSet(one \o rev) = ToSet(one) \cup ToSet(rev)
          BY ONLY <5>1, ElementsOfConcat
        <5> QED BY <5>2, Zenon DEF one
      <4> QED BY <1>3, <2>3, <4>1, Zenon
    <3>2. NoTask \notin ToSet(stack)
      BY <1>1, NoTaskIsNoTask
    <3> QED BY <1>5, <2>1, <3>1, <3>2
  <2>5. /\ Len(Candidates(t)) = 1 + n
        /\ \A i \in 1 .. 1 + n : Candidates(t)[i] = IF i <= 1 THEN <<t>>[i] ELSE rev[i - 1]
    BY <1>2, <2>1, <2>2, ConcatProperties
  <2>6. ASSUME NEW i \in 1..Len(Candidates(t)), i > 1
        PROVE  /\ Len(Candidates(t)) - i + 1 \in 1..n
               /\ Candidates(t)[i] = stack[Len(Candidates(t)) - i + 1]
    <3>1. /\ i \in 1 .. 1 + n /\ ~(i <= 1) /\ i - 1 \in 1..n
          /\ n - (i - 1) + 1 = (1 + n) - i + 1 /\ (1 + n) - i + 1 \in 1..n
      BY <1>1, <2>5, <2>6
    <3>2. Candidates(t)[i] = rev[i - 1] /\ rev[i - 1] = stack[n - (i - 1) + 1]
      BY <1>2, <2>5, <3>1
    <3> QED BY <2>5, <3>1, <3>2
  <2> QED BY <1>1, <1>5, <2>4, <2>5, <2>6 DEF n
<1> QED BY <1>4, <1>5

LEMMA TakeTaskDelivers ==
  ASSUME DeliveryInvariant, NEW w \in Worker, pc[w] \in {"timer", "handed"},
         NEW t \in Task \cup {NoTask}, t = hand[w],
         TakeTask(w, Candidates(t)), UNCHANGED <<inputs, results>>
  PROVE  StepDelivers
<1> DEFINE cands == Candidates(t)
           n == Len(cands)
           stack == incompleteTasks
<1>1. /\ TypeOK /\ HandsAgree /\ TasksAreParked /\ NoTasksAreStuck /\ WorkersFinishLast
      /\ pc \in [Worker -> Stage] /\ hand \in [Worker -> Task \cup {NoTask}]
      /\ stack \in Seq(Task) /\ Len(stack) \in Nat
  BY LenProperties DEF DeliveryInvariant, ExecutorInvariant, TypeOK
<1>2. cands \in Seq(Task) /\ n \in Nat /\ n - 1 <= Len(stack)
  BY <1>1, CandidatesType, LenProperties
<1>3. /\ ToSet(cands) = (ToSet(stack) \cup {t}) \ {NoTask}
      /\ \A i \in 1..n : i > 1 => n - i + 1 \in 1..Len(stack) /\ cands[i] = stack[n - i + 1]
  BY <1>1, CandidatesAreComing
<1> HIDE DEF cands
<1>4. PICK p \in 1..n :
        /\ Runnable(cands[p])
        /\ \A q \in 1..(p - 1) : ~Runnable(cands[q])
        /\ stack' = SubSeq(stack, 1, n - p)
        /\ Park(SubSeq(cands, 1, p - 1))
        /\ currentParellelTaskKeys' = currentParellelTaskKeys \cup KeysOf(cands[p])
        /\ visitedTaskIndexes' = visitedTaskIndexes \cup {cands[p]}
        /\ hand' = [hand EXCEPT ![w] = cands[p]]
  BY DEF TakeTask, cands
<1>5. pc' = [pc EXCEPT ![w] = "chosen"] /\ UNCHANGED <<requests, inputs, results>>
  BY DEF TakeTask
<1> DEFINE s == SubSeq(cands, 1, p - 1)
           T == {cands[p]}
<1>6. /\ s \in Seq(Task)
      /\ \A i \in 1 .. p - 1 : s[i] = cands[i]
      /\ Len(s) = p - 1
  <2> DEFINE m == p - 1
  <2>1. m \in Nat /\ m \in Int /\ m <= n
    BY <1>2
  <2> HIDE DEF m
  <2>2. /\ SubSeq(cands, 1, m) \in Seq(Task)
        /\ \A i \in 1..m : SubSeq(cands, 1, m)[i] = cands[i]
        /\ Len(SubSeq(cands, 1, m)) = IF 1 <= m THEN m - 1 + 1 ELSE 0
    BY <1>2, <2>1, SubSeqType
  <2>3. Len(SubSeq(cands, 1, m)) = m
    BY <2>1, <2>2
  <2> QED BY <2>2, <2>3 DEF m
<1> HIDE DEF s
<1>7. ToSet(s) = {cands[i] : i \in 1 .. p - 1} /\ ToSet(cands) = {cands[i] : i \in 1..n}
  <2>1. ToSet(s) = {s[i] : i \in 1..Len(s)} /\ ToSet(cands) = {cands[i] : i \in 1..Len(cands)}
    BY <1>2, <1>6, ElementsOfSeq
  <2>2. ToSet(s) = {s[i] : i \in 1 .. p - 1}
    BY <1>6, <2>1, Zenon
  <2> QED BY <1>6, <2>1, <2>2
<1>8. /\ ToSet(stack') = {stack[i] : i \in 1 .. n - p}
      /\ n - p <= Len(stack)
  <2> DEFINE m == n - p
  <2>1. m \in Nat /\ m \in Int /\ m <= Len(stack)
    BY <1>1, <1>2
  <2> HIDE DEF m
  <2>2. /\ SubSeq(stack, 1, m) \in Seq(Task)
        /\ \A i \in 1..m : SubSeq(stack, 1, m)[i] = stack[i]
        /\ Len(SubSeq(stack, 1, m)) = IF 1 <= m THEN m - 1 + 1 ELSE 0
    BY <1>1, <2>1, SubSeqType
  <2>3. Len(SubSeq(stack, 1, m)) = m
    BY <2>1, <2>2
  <2>4. stack' = SubSeq(stack, 1, m)
    BY <1>4 DEF m
  <2>5. ToSet(SubSeq(stack, 1, m)) = {SubSeq(stack, 1, m)[i] : i \in 1..Len(SubSeq(stack, 1, m))}
    BY <2>2, ElementsOfSeq
  <2>6. ToSet(stack') = {stack[i] : i \in 1..m}
    BY <2>2, <2>3, <2>4, <2>5
  <2> QED BY <2>1, <2>6 DEF m
<1>9. ToSet(cands) \subseteq ToSet(s) \cup T \cup ToSet(stack')
  <2>1. SUFFICES ASSUME NEW i \in 1..n
                 PROVE  cands[i] \in ToSet(s) \cup T \cup ToSet(stack')
    BY <1>7
  <2>2. CASE i \in 1 .. p - 1
    BY <1>7, <2>2
  <2>3. CASE i = p
    BY <2>3
  <2>4. CASE i > p
    <3>1. i > 1 /\ n - i + 1 \in 1 .. n - p
      BY <1>2, <2>4
    <3>2. cands[i] = stack[n - i + 1]
      BY <1>3, <3>1
    <3> QED BY <1>8, <3>1, <3>2
  <2>5. i \in 1 .. p - 1 \/ i = p \/ i > p
    BY <1>2
  <2> QED BY <2>2, <2>3, <2>4, <2>5
<1>10. /\ pc'[w] = "chosen" /\ hand'[w] = cands[p]
       /\ \A x \in Worker : x # w => pc'[x] = pc[x] /\ hand'[x] = hand[x]
  BY <1>1, <1>4, <1>5
<1>11. Handed = Handed' \cup (IF pc[w] = "handed" THEN {t} ELSE {})
  BY <1>10, OthersHanded
<1>12. pc[w] = "handed" \/ t = NoTask
  BY <1>1 DEF HandsAgree
<1>13. /\ Coming = (ToSet(stack) \cup Handed) \ {NoTask}
       /\ Coming' = (ToSet(stack') \cup Handed') \ {NoTask}
  BY DEF Coming, Handed
<1>14. ToSet(stack') \subseteq ToSet(stack)
  <2>1. \A i \in 1 .. n - p : i \in 1..Len(stack)
    BY <1>1, <1>2, <1>8
  <2>2. ToSet(stack) = {stack[i] : i \in 1..Len(stack)}
    BY <1>1, ElementsOfSeq
  <2> QED BY <1>8, <2>1, <2>2
<1>15. /\ ToSet(cands) \subseteq Coming
       /\ Coming \subseteq Coming' \cup ToSet(s) \cup T
       /\ Coming' \subseteq Coming
  BY <1>3, <1>9, <1>11, <1>12, <1>13, <1>14
<1>16. /\ ToSet(s) \subseteq ToSet(cands)
       /\ cands[p] \in ToSet(cands) /\ cands[p] \in Task
  <2>1. \A i \in 1 .. p - 1 : i \in 1..n
    BY <1>2
  <2> QED BY <1>2, <1>7, <2>1, ElementOfSeq
<1>17. \A x \in ToSet(s) : ~Runnable(x)
  BY <1>4, <1>7
<1>18. /\ T \in SUBSET (Coming \cap Task)
       /\ visitedTaskIndexes' = visitedTaskIndexes \cup T
       /\ currentParellelTaskKeys' = currentParellelTaskKeys \cup UNION {KeysOf(x) : x \in T}
       /\ Park(s)
  BY <1>4, <1>15, <1>16 DEF s
<1>19. UNCHANGED <<keysOf, baseI>>
  BY <1>5 DEF inputs, requests
<1>20. DeliveryKept
  <2> HIDE DEF T
  <2> QED BY <1>1, <1>6, <1>15, <1>16, <1>17, <1>18, <1>19, ParkingKeeps
<1>21. WorkersFinishLast'
  <2>1. hand'[w] # NoTask
    BY <1>10, <1>16, NoTaskIsNoTask
  <2>2. \A x \in Worker : pc'[x] = "finished" <=> pc[x] = "finished"
    BY <1>10
  <2> QED BY <1>1, <1>5, <1>10, <2>1, <2>2, NoneFinishes DEF results
<1> QED BY <1>20, <1>21 DEF StepDelivers

LEMMA GetNextTaskDelivers ==
  ASSUME DeliveryInvariant, NEW w \in Worker, pc[w] \in {"timer", "handed"},
         NEW t \in Task \cup {NoTask}, t = hand[w],
         NEW awaited \in BOOLEAN, GetNextTask(w, t, awaited),
         UNCHANGED <<inputs, results>>
  PROVE  StepDelivers
<1> DEFINE cands == Candidates(t)
<1>1. CASE TakeTask(w, cands)
  BY <1>1, TakeTaskDelivers
<1>2. ASSUME ParkAll(w, cands), UNCHANGED baseI,
             NEW s \in {"chosen", "factory", "queued"}, pc' = [pc EXCEPT ![w] = s]
      PROVE  StepDelivers
  <2>1. /\ TypeOK /\ HandsAgree /\ TasksAreParked /\ NoTasksAreStuck /\ WorkersFinishLast
        /\ pc \in [Worker -> Stage] /\ hand \in [Worker -> Task \cup {NoTask}]
    BY DEF DeliveryInvariant, ExecutorInvariant, TypeOK
  <2>2. cands \in Seq(Task) /\ ToSet(cands) = (ToSet(incompleteTasks) \cup {t}) \ {NoTask}
    BY <2>1, CandidatesType, CandidatesAreComing
  <2> HIDE DEF cands
  <2>3. /\ \A p \in 1..Len(cands) : ~Runnable(cands[p])
        /\ incompleteTasks' = << >> /\ Park(cands)
        /\ hand' = [hand EXCEPT ![w] = NoTask]
        /\ UNCHANGED <<currentParellelTaskKeys, visitedTaskIndexes>>
    BY <1>2 DEF ParkAll
  <2>4. pc'[w] = s /\ \A x \in Worker : x # w => pc'[x] = pc[x] /\ hand'[x] = hand[x]
    BY <1>2, <2>1, <2>3
  <2>5. Handed = Handed' \cup (IF pc[w] = "handed" THEN {t} ELSE {})
    BY <2>4, OthersHanded
  <2>6. pc[w] = "handed" \/ t = NoTask
    BY <2>1 DEF HandsAgree
  <2>7. /\ Coming = (ToSet(incompleteTasks) \cup Handed) \ {NoTask}
        /\ Coming' = (ToSet(<< >>) \cup Handed') \ {NoTask}
    BY <2>3 DEF Coming, Handed
  <2>8. ToSet(<< >>) = {}
    BY DEF ToSet
  <2>9. /\ ToSet(cands) \subseteq Coming
        /\ Coming \subseteq Coming' \cup ToSet(cands) \cup {}
        /\ Coming' \subseteq Coming
    BY <2>2, <2>5, <2>6, <2>7, <2>8
  <2>10. \A x \in ToSet(cands) : ~Runnable(x)
    <3>1. ToSet(cands) = {cands[p] : p \in 1..Len(cands)}
      BY <2>2, ElementsOfSeq
    <3> QED BY <2>3, <3>1
  <2>11. /\ {} \in SUBSET (Coming \cap Task)
         /\ visitedTaskIndexes' = visitedTaskIndexes \cup {}
         /\ currentParellelTaskKeys' = currentParellelTaskKeys \cup UNION {KeysOf(x) : x \in {}}
    BY <2>3
  <2>12. UNCHANGED <<keysOf, baseI>>
    BY <1>2 DEF inputs
  <2>13. DeliveryKept
    BY <2>1, <2>2, <2>3, <2>9, <2>10, <2>11, <2>12, ParkingKeeps
  <2>14. WorkersFinishLast'
    <3>1. \A x \in Worker : pc'[x] = "finished" <=> pc[x] = "finished"
      BY <2>4
    <3> QED BY <2>1, <2>3, <3>1, NoneFinishes DEF results
  <2> QED BY <2>13, <2>14 DEF StepDelivers
<1>3. CASE FindNothing(w, cands, awaited)
  <2>1. ParkAll(w, cands) /\ UNCHANGED baseI /\ pc' = [pc EXCEPT ![w] = "chosen"]
    BY <1>3 DEF FindNothing, requests
  <2> QED BY <1>2, <2>1
<1>4. CASE RequestMoreTasks(w, cands, awaited)
  <2>1. /\ ParkAll(w, cands) /\ UNCHANGED baseI
        /\ pc' = [pc EXCEPT ![w] = "factory"] \/ pc' = [pc EXCEPT ![w] = "queued"]
    BY <1>4 DEF RequestMoreTasks, CallOrQueue, CallFactory, QueueRequest
  <2> QED BY <1>2, <2>1
<1> QED BY <1>1, <1>3, <1>4 DEF GetNextTask

-----------------------------------------------------------------------------
(* A completed task wakes those parked for its keys *)

\* What is moved for the i-th key is a task parked for it that was neither taken nor
\* moved before; and every task parked for that key that is dropped from its list was
\* taken, or is moved by then.
LEMMA FirstWaitingIsMoved ==
  ASSUME TypeOK, NEW k \in Key, NEW before \in SUBSET (Task \cup {NoTask}), NEW u,
         u = FirstWaiting(k, before)
  PROVE  /\ u # NoTask =>
              u \in ToSet(waitingConcurrentTasks[k]) /\ u \notin visitedTaskIndexes
         /\ LeftWaiting(k, u) \in Seq(Task)
         /\ ToSet(LeftWaiting(k, u)) \subseteq ToSet(waitingConcurrentTasks[k])
         /\ \A t \in ToSet(waitingConcurrentTasks[k]) :
              t \in visitedTaskIndexes \/ t \in before \/ t = u \/ t \in ToSet(LeftWaiting(k, u))
         /\ u = NoTask =>
              \A t \in ToSet(waitingConcurrentTasks[k]) : t \in visitedTaskIndexes \/ t \in before
<1> DEFINE s == waitingConcurrentTasks[k]
           eligible == {p \in 1..Len(s) : s[p] \notin visitedTaskIndexes \cup before}
           P == {p \in 1..Len(s) : s[p] = u}
<1>1. s \in Seq(Task) /\ Len(s) \in Nat
  BY LenProperties DEF TypeOK
<1>2. \A p \in 1..Len(s) : s[p] \in Task /\ s[p] # NoTask
  BY <1>1, ElementOfSeq, NoTaskIsNoTask
<1>3. ToSet(s) = {s[p] : p \in 1..Len(s)}
  BY <1>1, ElementsOfSeq
<1>4. u = IF eligible = {} THEN NoTask ELSE s[Min(eligible)]
  BY DEF FirstWaiting
<1>5. LeftWaiting(k, u) = IF u = NoTask THEN << >> ELSE SubSeq(s, Min(P) + 1, Len(s))
  BY DEF LeftWaiting
<1> HIDE DEF s
<1>6. CASE eligible = {}
  <2>1. u = NoTask /\ LeftWaiting(k, u) = << >> /\ << >> \in Seq(Task) /\ ToSet(<< >>) = {}
    BY <1>4, <1>5, <1>6 DEF ToSet
  <2>2. \A p \in 1..Len(s) : s[p] \in visitedTaskIndexes \/ s[p] \in before
    BY <1>6
  <2>3. \A t \in ToSet(s) : t \in visitedTaskIndexes \/ t \in before
    BY <1>3, <2>2
  <2> QED BY <2>1, <2>3 DEF s
<1>7. CASE eligible # {}
  <2> DEFINE e == Min(eligible)
             m == Min(P)
  <2>1. e \in eligible /\ \A p \in eligible : e <= p
    <3>1. eligible \in SUBSET Nat
      BY <1>1
    <3> HIDE DEF eligible
    <3> QED BY <1>7, <3>1, MinIsLeast
  <2> HIDE DEF e
  <2>2. e \in 1..Len(s) /\ u = s[e] /\ u \notin visitedTaskIndexes \cup before
    BY <1>4, <1>7, <2>1 DEF e
  <2>3. P \in SUBSET Nat /\ e \in P
    BY <1>1, <2>2
  <2>4. m \in P /\ m <= e
    BY <2>3, MinIsLeast
  <2> HIDE DEF m
  <2>5. m \in 1..Len(s) /\ s[m] = u
    BY <2>4
  <2> DEFINE left == SubSeq(s, m + 1, Len(s))
  <2>6. LeftWaiting(k, u) = left
    BY <1>2, <1>5, <2>2 DEF m
  <2>7. /\ left \in Seq(Task)
        /\ Len(left) = Len(s) - m
        /\ \A i \in 1 .. Len(s) - m : left[i] = s[m + i]
    <3>1. \A i \in m + 1 .. Len(s) : s[i] \in Task
      BY <1>2, <2>5
    <3>2. m + 1 \in Int /\ Len(s) \in Int
      BY <1>1, <2>5
    <3>3. /\ left \in Seq(Task)
          /\ Len(left) = IF m + 1 <= Len(s) THEN Len(s) - (m + 1) + 1 ELSE 0
          /\ \A i \in 1 .. Len(s) - (m + 1) + 1 : left[i] = s[m + 1 + i - 1]
      BY <3>1, <3>2, SubSeqProperties
    <3>4. /\ Len(s) - (m + 1) + 1 = Len(s) - m
          /\ \A i \in 1 .. Len(s) - m : m + 1 + i - 1 = m + i
          /\ (IF m + 1 <= Len(s) THEN Len(s) - (m + 1) + 1 ELSE 0) = Len(s) - m
      BY <1>1, <2>5
    <3> HIDE DEF left
    <3> QED BY <3>3, <3>4
  <2> HIDE DEF left
  <2>8. ToSet(left) = {left[i] : i \in 1..Len(left)}
    BY <2>7, ElementsOfSeq
  <2>9. ToSet(left) \subseteq ToSet(s)
    <3>1. \A i \in 1..Len(left) : m + i \in 1..Len(s) /\ left[i] = s[m + i]
      BY <1>1, <2>5, <2>7
    <3> QED BY <1>3, <2>8, <3>1
  <2>10. ASSUME NEW p \in 1..Len(s)
         PROVE  s[p] \in visitedTaskIndexes \/ s[p] \in before \/ s[p] = u \/ s[p] \in ToSet(left)
    <3>1. CASE p > m
      <4>1. p - m \in 1..Len(left) /\ left[p - m] = s[m + (p - m)] /\ m + (p - m) = p
        BY <1>1, <2>5, <2>7, <3>1
      <4> QED BY <2>8, <4>1
    <3>2. CASE p = m
      BY <2>5, <3>2
    <3>3. CASE p < m
      <4>1. ~(e <= p)
        BY <1>1, <2>2, <2>4, <2>5, <3>3
      <4>2. p \notin eligible
        BY <2>1, <4>1
      <4> QED BY <4>2
    <3>4. p > m \/ p = m \/ p < m
      BY <1>1, <2>5
    <3> QED BY <3>1, <3>2, <3>3, <3>4
  <2>11. \A t \in ToSet(s) :
           t \in visitedTaskIndexes \/ t \in before \/ t = u \/ t \in ToSet(left)
    BY <1>3, <2>10
  <2>12. u \in ToSet(s) /\ u # NoTask
    BY <1>2, <1>3, <2>2
  <2> QED BY <2>2, <2>6, <2>7, <2>9, <2>11, <2>12 DEF s
<1> QED BY <1>6, <1>7

LEMMA TaskSucceedsDelivers ==
  ASSUME DeliveryInvariant, NEW w \in Worker, TaskSucceeds(w)
  PROVE  StepDelivers
<1> DEFINE keys == keysOf[hand[w]]
           n == Len(keys)
<1>1. /\ TypeOK /\ TasksAreParked /\ NoTasksAreStuck /\ WorkersFinishLast
      /\ pc \in [Worker -> Stage] /\ hand \in [Worker -> Task \cup {NoTask}]
      /\ incompleteTasks \in Seq(Task)
  BY DEF DeliveryInvariant, ExecutorInvariant, TypeOK
<1>2. /\ pc[w] = "running" /\ ReleaseKeys(keys)
      /\ pc' = [pc EXCEPT ![w] = "timer"]
      /\ hand' = [hand EXCEPT ![w] = NoTask]
      /\ UNCHANGED <<inputs, requests, visitedTaskIndexes, results>>
  BY DEF TaskSucceeds
<1>3. hand[w] \in Task
  <2>1. hand[w] # NoTask
    BY <1>2 DEF DeliveryInvariant, ExecutorInvariant, HandsAgree
  <2> QED BY <1>1, <2>1
<1>4. keys \in Seq(Key) /\ n \in Nat /\ \A i \in 1..n : keys[i] \in Key
  BY <1>1, <1>3, KeysType, LenProperties, ElementOfSeq
<1>5. KeysOf(hand[w]) = {keys[i] : i \in 1..n}
  BY DEF KeysOf
<1> HIDE DEF keys
<1>6. PICK moved \in [1..n -> Task \cup {NoTask}] :
        /\ \A i \in 1..n : moved[i] = FirstWaiting(keys[i], {moved[j] : j \in 1..(i - 1)})
        /\ incompleteTasks' = incompleteTasks \o
             FlattenSeq([i \in 1..n |-> IF moved[i] = NoTask THEN << >> ELSE <<moved[i]>>])
        /\ waitingConcurrentTasks' = [k \in Key |->
             LET turns == {i \in 1..n : keys[i] = k} IN
             IF turns = {} THEN waitingConcurrentTasks[k] ELSE LeftWaiting(k, moved[Max(turns)])]
        /\ currentParellelTaskKeys' = KeysReleased(keys)
  BY <1>2 DEF ReleaseKeys
<1> HIDE DEF n
<1> DEFINE Moved == {moved[i] : i \in 1..n} \ {NoTask}
\* The tasks moved are coming now.
<1>7. ToSet(incompleteTasks') = ToSet(incompleteTasks) \cup Moved
  <2> DEFINE ss == [i \in 1..n |-> IF moved[i] = NoTask THEN << >> ELSE <<moved[i]>>]
  <2>1. ASSUME NEW i \in 1..n
        PROVE  ss[i] \in Seq(Task) /\ ToSet(ss[i]) = {moved[i]} \ {NoTask}
    <3>1. CASE moved[i] = NoTask
      <4>1. ss[i] = << >> /\ << >> \in Seq(Task) /\ ToSet(<< >>) = {}
        BY <3>1 DEF ToSet
      <4> QED BY <3>1, <4>1
    <3>2. CASE moved[i] # NoTask
      <4>1. ss[i] = <<moved[i]>> /\ moved[i] \in Task
        BY <3>2
      <4>2. <<moved[i]>> \in Seq(Task) /\ Len(<<moved[i]>>) = 1 /\ <<moved[i]>>[1] = moved[i]
        BY <4>1
      <4>3. ToSet(<<moved[i]>>) = {<<moved[i]>>[j] : j \in 1..1}
        BY <4>2, ElementsOfSeq
      <4>4. ToSet(<<moved[i]>>) = {moved[i]}
        BY <4>2, <4>3
      <4> QED BY <3>2, <4>1, <4>2, <4>4
    <3> QED BY <3>1, <3>2
  <2>2. ss \in [1..n -> Seq(Task)]
    BY <2>1
  <2>3. /\ FlattenSeq(ss) \in Seq(Task)
        /\ ToSet(FlattenSeq(ss)) = UNION {ToSet(ss[i]) : i \in 1..n}
    BY <1>4, <2>2, FlattenType DEF n
  <2>4. incompleteTasks' = incompleteTasks \o FlattenSeq(ss)
    BY <1>6
  <2> HIDE DEF ss
  <2>5. UNION {ToSet(ss[i]) : i \in 1..n} = Moved
    <3>1. ASSUME NEW t \in Moved
          PROVE  \E i \in 1..n : t \in ToSet(ss[i])
      <4>1. PICK i \in 1..n : t = moved[i] /\ t # NoTask
        OBVIOUS
      <4> QED BY <2>1, <4>1
    <3>2. ASSUME NEW i \in 1..n, NEW t \in ToSet(ss[i])
          PROVE  t \in Moved
      BY <2>1
    <3> HIDE DEF Moved
    <3> QED BY <3>1, <3>2, Zenon
  <2>6. ToSet(incompleteTasks \o FlattenSeq(ss)) = ToSet(incompleteTasks) \cup ToSet(FlattenSeq(ss))
    BY <1>1, <2>3, ElementsOfConcat
  <2> QED BY <2>3, <2>4, <2>5, <2>6
<1>8. /\ pc'[w] = "timer"
      /\ \A x \in Worker : x # w => pc'[x] = pc[x] /\ hand'[x] = hand[x]
  BY <1>1, <1>2
<1>9. Handed' = Handed
  <2>1. Handed = Handed' \cup (IF pc[w] = "handed" THEN {hand[w]} ELSE {})
    BY <1>8, OthersHanded
  <2> QED BY <1>2, <2>1
<1>10. Coming' = Coming \cup Moved
  <2>1. /\ Coming = (ToSet(incompleteTasks) \cup Handed) \ {NoTask}
        /\ Coming' = (ToSet(incompleteTasks') \cup Handed') \ {NoTask}
    BY DEF Coming, Handed
  <2> QED BY <1>7, <1>9, <2>1
<1>11. Produced' = Produced /\ Untaken' = Untaken /\ \A t : KeysOf(t)' = KeysOf(t)
  BY <1>2 DEF Produced, Untaken, KeysOf, requests, inputs
<1>12. Untaken \subseteq Task /\ \A t \in Task : KeysOf(t) \subseteq Key /\ t # NoTask
  BY <1>1, ProducedTasks, KeysType, NoTaskIsNoTask DEF Untaken
\* For each turn: what it moves, and what it leaves parked.
<1>13. ASSUME NEW i \in 1..n
       PROVE  LET k == keys[i]
                  old == ToSet(waitingConcurrentTasks[k])
                  left == ToSet(LeftWaiting(k, moved[i]))
              IN /\ moved[i] # NoTask => moved[i] \in old /\ moved[i] \in Untaken
                 /\ LeftWaiting(k, moved[i]) \in Seq(Task) /\ left \subseteq old
                 /\ \A t \in old \cap Untaken : t \in Moved \/ t \in left
                 /\ moved[i] = NoTask => old \cap Untaken \subseteq Moved
  <2> DEFINE before == {moved[j] : j \in 1..(i - 1)}
  <2>1. before \in SUBSET (Task \cup {NoTask}) /\ before \subseteq {moved[j] : j \in 1..n}
    <3>1. \A j \in 1..(i - 1) : j \in 1..n
      BY <1>4 DEF n
    <3> QED BY <3>1
  <2>2. moved[i] = FirstWaiting(keys[i], before) /\ keys[i] \in Key
    BY <1>4, <1>6 DEF n
  <2> HIDE DEF before
  <2>3. \A t \in Untaken : t \notin visitedTaskIndexes /\ t # NoTask
    BY <1>12 DEF Untaken
  <2> DEFINE k == keys[i]
             old == ToSet(waitingConcurrentTasks[k])
             left == ToSet(LeftWaiting(k, moved[i]))
  <2>4. /\ moved[i] # NoTask => moved[i] \in old /\ moved[i] \notin visitedTaskIndexes
        /\ LeftWaiting(k, moved[i]) \in Seq(Task)
        /\ left \subseteq old
        /\ \A t \in old : t \in visitedTaskIndexes \/ t \in before \/ t = moved[i] \/ t \in left
        /\ moved[i] = NoTask => \A t \in old : t \in visitedTaskIndexes \/ t \in before
    BY <1>1, <2>1, <2>2, FirstWaitingIsMoved
  <2>5. old \subseteq Produced
    BY <1>1, <2>2 DEF TasksAreParked
  <2> HIDE DEF old, left
  <2>6. moved[i] # NoTask => moved[i] \in old /\ moved[i] \in Untaken
    BY <2>4, <2>5 DEF Untaken
  <2>7. \A t \in old \cap Untaken : t \in Moved \/ t \in left
    BY <2>1, <2>3, <2>4
  <2>8. moved[i] = NoTask => old \cap Untaken \subseteq Moved
    BY <2>1, <2>3, <2>4
  <2> QED BY <2>4, <2>6, <2>7, <2>8 DEF old, left
<1>14. Moved \subseteq Untaken
  BY <1>13
<1>15. ASSUME NEW k \in Key
       PROVE  /\ ToSet(waitingConcurrentTasks'[k]) \subseteq ToSet(waitingConcurrentTasks[k])
              /\ \A t \in ToSet(waitingConcurrentTasks[k]) \cap Untaken :
                   t \in Moved \/ t \in ToSet(waitingConcurrentTasks'[k])
  <2> DEFINE turns == {i \in 1..n : keys[i] = k}
  <2>1. waitingConcurrentTasks'[k] =
          IF turns = {} THEN waitingConcurrentTasks[k] ELSE LeftWaiting(k, moved[Max(turns)])
    BY <1>6
  <2>2. CASE turns = {}
    BY <2>1, <2>2
  <2>3. CASE turns # {}
    <3>1. turns \in SUBSET (1..n)
      OBVIOUS
    <3>2. Max(turns) \in turns
      BY <1>4, <2>3, <3>1, MaxIsGreatest DEF n
    <3>3. PICK i \in 1..n : i = Max(turns) /\ keys[i] = k
      BY <3>2
    <3>4. waitingConcurrentTasks'[k] = LeftWaiting(k, moved[i])
      BY <2>1, <2>3, <3>3
    <3> QED BY <1>13, <3>3, <3>4
  <2> QED BY <2>2, <2>3
<1>16. TasksAreParked'
  <2>1. visitedTaskIndexes' \subseteq Produced' /\ Coming' \subseteq Produced'
    BY <1>1, <1>2, <1>10, <1>11, <1>14 DEF TasksAreParked, Untaken
  <2>2. \A k \in Key : \A t \in ToSet(waitingConcurrentTasks'[k]) : t \in Produced' /\ k \in KeysOf(t)'
    BY <1>1, <1>11, <1>15 DEF TasksAreParked
  <2>3. ASSUME NEW t \in Untaken' \ Coming'
        PROVE  KeysOf(t)' # {} /\ \A k \in KeysOf(t)' : t \in ToSet(waitingConcurrentTasks'[k])
    <3>1. t \in Untaken \ Coming /\ t \notin Moved /\ t \in Task
      BY <1>10, <1>11, <1>12
    <3>2. KeysOf(t) # {} /\ \A k \in KeysOf(t) : k \in Key /\ t \in ToSet(waitingConcurrentTasks[k])
      BY <1>1, <1>12, <3>1 DEF TasksAreParked
    <3> QED BY <1>11, <1>15, <3>1, <3>2
  <2> QED BY <2>1, <2>2, <2>3 DEF TasksAreParked
<1>17. ASSUME NEW group \in SUBSET Untaken, group # {},
              \A t \in group, u \in Untaken : KeysOf(t) \cap KeysOf(u) # {} => u \in group
       PROVE  \E t \in group : t \in Coming' \/ KeysOf(t) \cap currentParellelTaskKeys' # {}
  <2>1. PICK t \in group : t \in Coming \/ KeysOf(t) \cap currentParellelTaskKeys # {}
    BY <1>1, <1>17 DEF NoTasksAreStuck
  <2>2. CASE t \in Coming
    BY <1>10, <2>2
  <2>3. CASE t \notin Coming
    <3>1. PICK k \in KeysOf(t) : k \in currentParellelTaskKeys
      BY <2>1, <2>3
    <3>2. t \in Untaken /\ k \in Key /\ t \in ToSet(waitingConcurrentTasks[k])
      BY <1>1, <1>12, <2>3, <3>1 DEF TasksAreParked
    <3>3. CASE \E i \in 1..n : keys[i] = k
      <4>1. PICK i \in 1..n : keys[i] = k
        BY <3>3
      <4>2. CASE moved[i] = NoTask
        <5>1. t \in Moved
          BY <1>13, <3>2, <4>1, <4>2
        <5> QED BY <1>10, <5>1
      <4>3. CASE moved[i] # NoTask
        <5>1. moved[i] \in ToSet(waitingConcurrentTasks[k]) /\ moved[i] \in Untaken
          BY <1>13, <4>1, <4>3
        <5>2. k \in KeysOf(moved[i])
          BY <1>1, <3>2, <5>1 DEF TasksAreParked
        <5>3. moved[i] \in group
          BY <1>17, <3>1, <5>1, <5>2
        <5>4. moved[i] \in Coming'
          BY <1>10, <4>3
        <5> QED BY <5>3, <5>4
      <4> QED BY <4>2, <4>3
    <3>4. CASE \A i \in 1..n : keys[i] # k
      <4>1. k \in currentParellelTaskKeys'
        BY <1>6, <3>1, <3>4 DEF KeysReleased, n
      <4> QED BY <3>1, <4>1
    <3> QED BY <3>3, <3>4
  <2> QED BY <2>2, <2>3
<1>18. NoTasksAreStuck'
  BY <1>11, <1>17 DEF NoTasksAreStuck
<1>19. WorkersFinishLast'
  <2>1. \A x \in Worker : pc'[x] = "finished" <=> pc[x] = "finished"
    BY <1>2, <1>8
  <2> QED BY <1>1, <1>2, <1>8, <2>1, NoneFinishes DEF results
<1> QED BY <1>16, <1>18, <1>19 DEF StepDelivers, DeliveryKept

-----------------------------------------------------------------------------
(* The last worker to finish *)

LEMMA FinishParallelDelivers ==
  ASSUME DeliveryInvariant, NEW w \in Worker, FinishParallel(w)
  PROVE  StepDelivers
<1> DEFINE Finished == {x \in Worker : pc[x] = "finished"}
<1>1. /\ TypeOK /\ TasksAreParked /\ NoTasksAreStuck /\ WorkersFinishLast
      /\ pc \in [Worker -> Stage] /\ outcome \in {"pending", "resolved", "rejected"}
  BY DEF DeliveryInvariant, ExecutorInvariant, TypeOK
<1>2. /\ pc[w] = "chosen" /\ hand[w] = NoTask
      /\ pc' = [pc EXCEPT ![w] = "finished"]
      /\ finishedParallels' = finishedParallels + 1
      /\ outcome' = IF finishedParallels' = MaxParallel /\ outcome = "pending"
                    THEN "resolved" ELSE outcome
      /\ UNCHANGED <<keysOf, baseI, incompleteTasks, reservations, hand>>
  BY DEF FinishParallel, AllFinished, inputs, requests
<1>3. pc'[w] = "finished" /\ \A x \in Worker : x # w => pc'[x] = pc[x]
  BY <1>1, <1>2
<1>4. Handed' = Handed
  <2>1. Handed = Handed' \cup (IF pc[w] = "handed" THEN {hand[w]} ELSE {})
    BY <1>2, <1>3, OthersHanded
  <2> QED BY <1>2, <2>1
<1>5. Coming' = Coming /\ Produced' = Produced
  BY <1>2, <1>4 DEF Coming, Handed, Produced
<1>6. DeliveryKept
  BY <1>1, <1>2, <1>5, ComingGrows DEF TasksAreParked
<1>7. IsFiniteSet(Worker) /\ Cardinality(Worker) = MaxParallel
  <2>1. MaxParallel \in Nat \ {0} /\ 0 \in Int /\ MaxParallel - 1 \in Int
    BY MaxParallelAssumption
  <2>2. /\ IsFiniteSet(0 .. (MaxParallel - 1))
        /\ Cardinality(0 .. (MaxParallel - 1)) =
             IF 0 > MaxParallel - 1 THEN 0 ELSE MaxParallel - 1 - 0 + 1
    BY <2>1, FS_Interval
  <2> QED BY <2>1, <2>2 DEF Worker
<1>8. IsFiniteSet(Finished) /\ w \notin Finished
  BY <1>2, <1>7, FS_Subset
<1>9. Finished' = Finished \cup {w}
  BY <1>3
<1>10. /\ IsFiniteSet(Finished') /\ Finished' \in SUBSET Worker
       /\ Cardinality(Finished') = Cardinality(Finished) + 1
  BY <1>8, <1>9, FS_AddElement
<1>11. finishedParallels' = Cardinality(Finished')
  BY <1>1, <1>2, <1>10 DEF WorkersFinishLast
<1>12. ASSUME outcome' = "resolved"
       PROVE  \A x \in Worker : pc'[x] = "finished"
  <2>1. outcome # "resolved"
    BY <1>1, <1>2 DEF WorkersFinishLast
  <2>2. finishedParallels' = MaxParallel
    BY <1>2, <1>12, <2>1
  <2>3. Worker = Finished'
    BY <1>7, <1>10, <1>11, <2>2, FS_Subset
  <2> QED BY <2>3
<1>13. ASSUME \A x \in Worker : pc'[x] = "finished" \/ (pc'[x] = "chosen" /\ hand'[x] = NoTask)
       PROVE  incompleteTasks' = << >>
  <2>1. \A x \in Worker : pc[x] = "finished" \/ (pc[x] = "chosen" /\ hand[x] = NoTask)
    BY <1>2, <1>3, <1>13
  <2> QED BY <1>1, <1>2, <2>1 DEF WorkersFinishLast
<1>14. WorkersFinishLast'
  BY <1>11, <1>12, <1>13 DEF WorkersFinishLast
<1> QED BY <1>6, <1>14 DEF StepDelivers

LEMMA ProceedDelivers ==
  ASSUME DeliveryInvariant, NEW w \in Worker, Proceed(w)
  PROVE  StepDelivers
<1>1. /\ pc \in [Worker -> Stage] /\ hand \in [Worker -> Task \cup {NoTask}]
      /\ pc[w] = "timer" => hand[w] = NoTask
  BY DEF DeliveryInvariant, ExecutorInvariant, TypeOK, HandsAgree
<1>2. {"halted", "running", "orphaned"} \subseteq Stage \ {"chosen", "handed", "finished"}
  BY DEF Stage
<1>3. CASE Dispatch(w)
  <2>1. pc[w] = "timer" /\ UNCHANGED <<inputs, results>>
    BY <1>3 DEF Dispatch
  <2>2. CASE GetNextTask(w, NoTask, FALSE)
    BY <1>1, <2>1, <2>2, GetNextTaskDelivers
  <2>3. CASE /\ pc' = [pc EXCEPT ![w] = "halted"]
             /\ UNCHANGED <<requests, incompleteTasks, reservations, hand>>
    BY <1>2, <2>1, <2>3, StageDelivers DEF inputs, requests, results
  <2> QED BY <1>3, <2>2, <2>3 DEF Dispatch
<1>4. CASE ResumeGetNextTask(w)
  BY <1>1, <1>4, GetNextTaskDelivers DEF ResumeGetNextTask
<1>5. CASE StartTask(w)
  BY <1>2, <1>5, StageDelivers DEF StartTask, inputs, requests
<1>6. CASE TaskFactoryThrows(w)
  BY <1>2, <1>6, StageDelivers DEF TaskFactoryThrows, inputs, requests, results
<1>7. CASE FinishParallel(w)
  BY <1>7, FinishParallelDelivers
<1> QED BY <1>3, <1>4, <1>5, <1>6, <1>7 DEF Proceed

LEMMA TaskSettlesDelivers ==
  ASSUME DeliveryInvariant, NEW w \in Worker, TaskSettles(w)
  PROVE  StepDelivers
<1>1. CASE TaskSucceeds(w)
  BY <1>1, TaskSucceedsDelivers
<1>2. CASE TaskFails(w)
  <2>1. "failed" \in Stage \ {"chosen", "handed", "finished"}
    BY DEF Stage
  <2>2. outcome' = "resolved" => outcome = "resolved"
    BY <1>2 DEF TaskFails
  <2> QED BY <1>2, <2>1, <2>2, StageDelivers DEF TaskFails, inputs, requests
<1> QED BY <1>1, <1>2 DEF TaskSettles

-----------------------------------------------------------------------------
(* Every task is delivered *)

LEMMA InitialDelivery == Init => DeliveryInvariant
<1> SUFFICES ASSUME Init PROVE DeliveryInvariant
  OBVIOUS
<1>1. Produced = {} /\ Untaken = {}
  BY DEF Init, Produced, Untaken
<1>2. 0 \in Worker
  BY MaxParallelAssumption DEF Worker
<1>3. \A x \in Worker : pc[x] \in {"factory", "queued"} /\ hand[x] = NoTask
  BY DEF Init
<1>4. ToSet(<< >>) = {}
  BY DEF ToSet
<1>5. Coming = {}
  BY <1>3, <1>4 DEF Init, Coming
<1>6. TasksAreParked
  BY <1>1, <1>4, <1>5 DEF Init, TasksAreParked
<1>7. NoTasksAreStuck
  BY <1>1 DEF NoTasksAreStuck
<1>8. WorkersFinishLast
  <2>1. {x \in Worker : pc[x] = "finished"} = {}
    BY <1>3
  <2> QED BY <1>2, <1>3, <2>1, FS_EmptySet DEF Init, WorkersFinishLast
<1> QED BY <1>6, <1>7, <1>8, InitialInvariant DEF DeliveryInvariant

LEMMA DeliveryStep ==
  DeliveryInvariant /\ [Next]_vars => DeliveryInvariant'
<1> SUFFICES ASSUME DeliveryInvariant, [Next]_vars
             PROVE  DeliveryInvariant'
  OBVIOUS
<1>1. ExecutorInvariant /\ ExecutorInvariant'
  BY InvariantStep DEF DeliveryInvariant
<1> SUFFICES StepDelivers
  BY <1>1 DEF StepDelivers, DeliveryKept, DeliveryInvariant
<1>2. CASE \E w \in Worker : Proceed(w)
  BY <1>2, ProceedDelivers
<1>3. CASE \E w \in Worker : FactoryAnswers(w)
  BY <1>3, FactoryAnswersDelivers
<1>4. CASE \E w \in Worker : TaskSettles(w)
  BY <1>4, TaskSettlesDelivers
<1>5. CASE RequestWaitElapses
  BY <1>5, RequestWaitElapsesDelivers
<1>6. CASE UNCHANGED vars
  <2>1. UNCHANGED <<keysOf, baseI, incompleteTasks, currentParellelTaskKeys, visitedTaskIndexes,
                    waitingConcurrentTasks, finishedParallels, outcome, pc, hand>>
    BY <1>6 DEF vars, inputs, requests, reservations, results
  <2>2. Coming' = Coming /\ Produced' = Produced
    BY <2>1 DEF Coming, Produced
  <2>3. DeliveryKept
    BY <2>1, <2>2, ComingGrows DEF DeliveryInvariant, TasksAreParked, reservations
  <2>4. WorkersFinishLast'
    BY <2>1 DEF DeliveryInvariant, WorkersFinishLast
  <2> QED BY <2>3, <2>4 DEF StepDelivers
<1>7. CASE Stop
  BY <1>6, <1>7 DEF Stop
<1> QED BY <1>2, <1>3, <1>4, <1>5, <1>6, <1>7 DEF Next

\* Every reachable state satisfies the invariant that says where each task waits and what
\* will wake it, for any number of workers and tasks and any key lists.
THEOREM DeliveryHolds == Spec => []DeliveryInvariant
BY InitialDelivery, DeliveryStep, PTL DEF Spec

\* A task that nobody has taken and that no one is about to look at is parked, and some
\* key is still to be released or some task is on its way.
LEMMA DeliveryLosesNoTask == DeliveryInvariant => NoTaskIsLost
<1> SUFFICES ASSUME DeliveryInvariant PROVE NoTaskIsLost
  OBVIOUS
<1>1. TypeOK /\ ReservedKeysAreHeld /\ TasksAreParked /\ NoTasksAreStuck
  BY DEF DeliveryInvariant, ExecutorInvariant
<1>2. ASSUME NEW t \in Untaken, t \notin Coming
      PROVE  t \in UNION {ToSet(waitingConcurrentTasks[k]) : k \in Key}
  <2>1. PICK k \in KeysOf(t) : t \in ToSet(waitingConcurrentTasks[k])
    BY <1>1, <1>2 DEF TasksAreParked
  <2>2. t \in Task
    BY <1>1, ProducedTasks DEF Untaken
  <2>3. k \in Key
    BY <1>1, <2>2, KeysType
  <2> QED BY <2>1, <2>3
<1>3. ASSUME Untaken # {}, Held = {}
      PROVE  Untaken \cap Coming # {}
  <2>1. currentParellelTaskKeys = {}
    BY <1>1, <1>3 DEF ReservedKeysAreHeld
  <2>2. \E t \in Untaken : t \in Coming \/ KeysOf(t) \cap currentParellelTaskKeys # {}
    BY <1>1, <1>3 DEF NoTasksAreStuck
  <2> QED BY <2>1, <2>2
<1> QED BY <1>2, <1>3 DEF NoTaskIsLost

\* No task is lost and no wake-up is: what was given out and not taken is on its way or
\* parked, and never is everything parked with no key left to release.
THEOREM NoTaskLost == Spec => []NoTaskIsLost
BY DeliveryHolds, DeliveryLosesNoTask, PTL

LEMMA DeliveryResolvesLast == DeliveryInvariant => ResolvedMeansAllCompleted
<1> SUFFICES ASSUME DeliveryInvariant, outcome = "resolved"
             PROVE  Completed = Produced
  BY DEF ResolvedMeansAllCompleted
<1>1. \A x \in Worker : pc[x] = "finished"
  BY DEF DeliveryInvariant, WorkersFinishLast
<1>2. Held = {} /\ Handed = {}
  BY <1>1 DEF Held, Holds, Handed
<1>3. incompleteTasks = << >>
  BY <1>1 DEF DeliveryInvariant, WorkersFinishLast
<1>4. Coming = {}
  BY <1>2, <1>3 DEF Coming, Handed, ToSet
<1>5. Untaken = {}
  BY <1>2, <1>4, DeliveryLosesNoTask DEF NoTaskIsLost
<1>6. visitedTaskIndexes \subseteq Produced
  BY DEF DeliveryInvariant, TasksAreParked
<1> QED BY <1>2, <1>5, <1>6 DEF Completed, Untaken

\* When the promise resolves, every task the input factory gave out has run to its end.
THEOREM ResolvedMeansDone == Spec => []ResolvedMeansAllCompleted
BY DeliveryHolds, DeliveryResolvesLast, PTL

-----------------------------------------------------------------------------
(* The executor implements the pool of keyed tasks *)

\* The tasks of the workers in one stage.
TasksIn(stage) == {hand[w] : w \in {v \in Worker : pc[v] = stage}}

\* Where a task stands does not depend on the order of the cases that define it.
StatesAgree ==
  \A t \in Task :
    /\ t \notin Produced => StateOf(t) = "unknown"
    /\ t \in Completed => StateOf(t) = "done"
    /\ t \in TasksIn("running") => StateOf(t) = "running"
    /\ t \in TasksIn("failed") => StateOf(t) = "failed"
    /\ t \in Produced /\ t \notin Completed \cup TasksIn("running") \cup TasksIn("failed")
         => StateOf(t) = "accepted"

LEMMA StateIs == DeliveryInvariant => StatesAgree
<1> SUFFICES ASSUME DeliveryInvariant, NEW t \in Task
             PROVE  /\ t \notin Produced => StateOf(t) = "unknown"
                    /\ t \in Completed => StateOf(t) = "done"
                    /\ t \in TasksIn("running") => StateOf(t) = "running"
                    /\ t \in TasksIn("failed") => StateOf(t) = "failed"
                    /\ t \in Produced /\ t \notin Completed \cup TasksIn("running") \cup TasksIn("failed")
                         => StateOf(t) = "accepted"
  BY DEF StatesAgree
<1> DEFINE holds(stage) == \E w \in Worker : pc[w] = stage /\ hand[w] = t
<1>1. /\ HandsAgree /\ HeldTasksAreApart /\ visitedTaskIndexes \subseteq Produced
  BY DEF DeliveryInvariant, ExecutorInvariant, TasksAreParked
<1>2. /\ holds("running") <=> t \in TasksIn("running")
      /\ holds("failed") <=> t \in TasksIn("failed")
  BY DEF TasksIn
<1>3. \A w \in Worker : pc[w] \in {"running", "failed"} => Holds(w)
  BY <1>1 DEF HandsAgree, Holds
<1>4. holds("running") \/ holds("failed") => t \in Held
  BY <1>3 DEF Held
<1>5. ~(holds("running") /\ holds("failed"))
  <2>1. SUFFICES ASSUME NEW v \in Worker, pc[v] = "running", hand[v] = t,
                        NEW w \in Worker, pc[w] = "failed", hand[w] = t
                 PROVE  FALSE
    OBVIOUS
  <2>2. v # w /\ Holds(v) /\ Holds(w)
    BY <1>3, <2>1
  <2> QED BY <1>1, <2>1, <2>2 DEF HeldTasksAreApart
<1>6. t \in Held => t \in Produced /\ t \notin Completed
  BY <1>1 DEF HeldTasksAreApart, Completed
<1>7. t \in Completed => t \in Produced
  BY <1>1 DEF Completed
<1>8. StateOf(t) =
        CASE t \notin Produced    -> "unknown"
          [] t \in Completed      -> "done"
          [] holds("running")     -> "running"
          [] holds("failed")      -> "failed"
          [] OTHER                -> "accepted"
  BY Zenon DEF StateOf
<1> HIDE DEF holds
<1> QED BY <1>2, <1>4, <1>5, <1>6, <1>7, <1>8

\* A step in the mapped states, and the states before and after it.
BothAgree == DeliveryInvariant /\ DeliveryInvariant' /\ StatesAgree /\ StatesAgree'

LEMMA BothStates == DeliveryInvariant /\ [Next]_vars => BothAgree
<1>1. DeliveryInvariant' => StatesAgree'
  BY StateIs, PTL
<1> QED BY <1>1, StateIs, DeliveryStep DEF BothAgree

\* The mapped state of a task is decided by the tasks given out, completed, running
\* and failed.
LEMMA StatesFollow ==
  ASSUME BothAgree, NEW t \in Task,
         t \in Produced' <=> t \in Produced,
         t \in Completed' <=> t \in Completed,
         t \in TasksIn("running")' <=> t \in TasksIn("running"),
         t \in TasksIn("failed")' <=> t \in TasksIn("failed")
  PROVE  StateOf(t)' = StateOf(t)
<1> USE DEF BothAgree
<1>1. CASE t \notin Produced
  BY <1>1 DEF StatesAgree
<1>2. CASE t \in Completed
  BY <1>2 DEF StatesAgree
<1>3. CASE t \in TasksIn("running")
  BY <1>3 DEF StatesAgree
<1>4. CASE t \in TasksIn("failed")
  BY <1>4 DEF StatesAgree
<1>5. CASE t \in Produced /\ t \notin Completed \cup TasksIn("running") \cup TasksIn("failed")
  BY <1>5 DEF StatesAgree
<1> QED BY <1>1, <1>2, <1>3, <1>4, <1>5

PoolStep == [Pool!Next]_(Pool!vars)

LEMMA PoolStutters ==
  ASSUME UNCHANGED <<keysOf, outcome>>, \A t \in Task : StateOf(t)' = StateOf(t)
  PROVE  PoolStep
<1>1. \A t : KeysOf(t)' = KeysOf(t)
  BY DEF KeysOf
<1>2. [t \in Task |-> KeysOf(t)]' = [t \in Task |-> KeysOf(t)]
  BY <1>1
<1>3. [t \in Task |-> StateOf(t)]' = [t \in Task |-> StateOf(t)]
  OBVIOUS
<1> QED BY <1>2, <1>3 DEF PoolStep, Pool!vars

\* A step that only takes tasks, and leaves every worker alone that runs a task or whose
\* task failed, is none of the pool.
LEMMA NoneStartsOrEnds ==
  ASSUME NEW T, T \cap visitedTaskIndexes = {},
         visitedTaskIndexes' = visitedTaskIndexes \cup T,
         Held' = Held \cup T,
         \A x \in Worker : pc[x] \in {"running", "failed"} \/ pc'[x] \in {"running", "failed"}
                             => pc'[x] = pc[x] /\ hand'[x] = hand[x]
  PROVE  /\ Completed' = Completed
         /\ TasksIn("running")' = TasksIn("running")
         /\ TasksIn("failed")' = TasksIn("failed")
<1>1. Completed' = Completed
  BY DEF Completed
<1>2. ASSUME NEW s \in {"running", "failed"}
      PROVE  TasksIn(s)' = TasksIn(s)
  <2>1. \A x \in Worker : pc'[x] = s <=> pc[x] = s
    OBVIOUS
  <2>2. \A x \in Worker : pc[x] = s => hand'[x] = hand[x]
    OBVIOUS
  <2> QED BY <2>1, <2>2 DEF TasksIn
<1> QED BY <1>1, <1>2

\* Workers whose holding a task or not is as it was hold what they held.
LEMMA SameHeld ==
  ASSUME \A x \in Worker : Holds(x)' <=> Holds(x),
         \A x \in Worker : Holds(x) => hand'[x] = hand[x]
  PROVE  Held' = Held
BY DEF Held

\* A step by which nobody takes, starts or ends a task.
LEMMA QuietStep ==
  ASSUME BothAgree,
         UNCHANGED <<keysOf, baseI, outcome, visitedTaskIndexes>>,
         \A x \in Worker : Holds(x)' <=> Holds(x),
         \A x \in Worker : Holds(x) => hand'[x] = hand[x],
         \A x \in Worker : pc[x] \in {"running", "failed"} \/ pc'[x] \in {"running", "failed"}
                             => pc'[x] = pc[x] /\ hand'[x] = hand[x]
  PROVE  PoolStep
<1>1. Held' = Held \cup {}
  BY SameHeld
<1>2. visitedTaskIndexes' = visitedTaskIndexes \cup {} /\ {} \cap visitedTaskIndexes = {}
  OBVIOUS
<1>3. /\ Completed' = Completed
      /\ TasksIn("running")' = TasksIn("running")
      /\ TasksIn("failed")' = TasksIn("failed")
  BY <1>1, <1>2, NoneStartsOrEnds
<1>4. Produced' = Produced
  BY DEF Produced
<1>5. \A t \in Task : StateOf(t)' = StateOf(t)
  BY <1>3, <1>4, StatesFollow
<1> QED BY <1>5, PoolStutters

\* More tasks are accepted, or none, by a step by which nobody takes, starts or ends one.
LEMMA AcceptingStep ==
  ASSUME BothAgree, outcome # "resolved", Produced \subseteq Produced',
         UNCHANGED <<keysOf, outcome, visitedTaskIndexes>>,
         \A x \in Worker : Holds(x)' <=> Holds(x),
         \A x \in Worker : Holds(x) => hand'[x] = hand[x],
         \A x \in Worker : pc[x] \in {"running", "failed"} \/ pc'[x] \in {"running", "failed"}
                             => pc'[x] = pc[x] /\ hand'[x] = hand[x]
  PROVE  PoolStep
<1> DEFINE S == Produced' \ Produced
<1>1. Held' = Held \cup {}
  BY SameHeld
<1>2. visitedTaskIndexes' = visitedTaskIndexes \cup {} /\ {} \cap visitedTaskIndexes = {}
  OBVIOUS
<1>3. /\ Completed' = Completed
      /\ TasksIn("running")' = TasksIn("running")
      /\ TasksIn("failed")' = TasksIn("failed")
  BY <1>1, <1>2, NoneStartsOrEnds
<1>4. S \subseteq Task
  <2>1. baseI' \in 0..TaskCount
    BY DEF BothAgree, DeliveryInvariant, ExecutorInvariant, TypeOK
  <2> QED BY <2>1, TaskCountAssumption DEF Produced, Task
<1>5. \A t \in Task \ S : StateOf(t)' = StateOf(t)
  BY <1>3, StatesFollow
<1>6. ASSUME NEW t \in S
      PROVE  StateOf(t) = "unknown" /\ StateOf(t)' = "accepted"
  <2>1. t \in Task /\ StateOf(t) = "unknown"
    BY <1>4 DEF BothAgree, StatesAgree
  <2>2. t \notin Completed \cup TasksIn("running") \cup TasksIn("failed")
    BY <2>1 DEF BothAgree, StatesAgree
  <2>3. t \in Produced' /\ t \notin Completed' \cup TasksIn("running")' \cup TasksIn("failed")'
    BY <1>3, <2>2
  <2> QED BY <2>1, <2>3 DEF BothAgree, StatesAgree
<1>7. CASE S = {}
  BY <1>5, <1>7, PoolStutters
<1>8. CASE S # {}
  <2>1. \A t : KeysOf(t)' = KeysOf(t)
    BY DEF KeysOf
  <2>2. [t \in Task |-> KeysOf(t)]' = [t \in Task |-> KeysOf(t)]
    BY <2>1
  <2> DEFINE state == [t \in Task |-> StateOf(t)]
  <2>3. state' = [t \in Task |-> IF t \in S THEN "accepted" ELSE state[t]]
    BY <1>5, <1>6
  <2>4. S \subseteq {t \in Task : state[t] = "unknown"}
    BY <1>4, <1>6
  <2> HIDE DEF S
  <2>5. Pool!Accept(S)
    BY <1>8, <2>2, <2>3, <2>4 DEF Pool!Accept, Pool!In
  <2>6. S \in SUBSET Task
    BY <1>4
  <2> QED BY <2>5, <2>6 DEF PoolStep, Pool!Next
<1> QED BY <1>7, <1>8

\* A task changes its state and every other one keeps its own.
LEMMA OneTaskMoves ==
  ASSUME NEW u \in Task, NEW s, StateOf(u)' = s,
         \A t \in Task : t # u => StateOf(t)' = StateOf(t), UNCHANGED keysOf
  PROVE  /\ [t \in Task |-> StateOf(t)]' = [[t \in Task |-> StateOf(t)] EXCEPT ![u] = s]
         /\ [t \in Task |-> KeysOf(t)]' = [t \in Task |-> KeysOf(t)]
<1>1. \A t : KeysOf(t)' = KeysOf(t)
  BY DEF KeysOf
<1>2. [t \in Task |-> KeysOf(t)]' = [t \in Task |-> KeysOf(t)]
  BY <1>1
<1> QED BY <1>2

\* While one worker is about to start its task, fewer than MaxParallel tasks run.
LEMMA RunningBound ==
  ASSUME TypeOK, NEW w \in Worker, pc[w] # "running"
  PROVE  Cardinality(TasksIn("running")) < MaxParallel
<1> DEFINE R == {v \in Worker : pc[v] = "running"}
           f == [v \in R |-> hand[v]]
<1>1. MaxParallel \in Nat \ {0} /\ 0 \in Int /\ MaxParallel - 1 \in Int
  BY MaxParallelAssumption
<1>2. IsFiniteSet(Worker) /\ Cardinality(Worker) = MaxParallel
  <2>1. /\ IsFiniteSet(0 .. (MaxParallel - 1))
        /\ Cardinality(0 .. (MaxParallel - 1)) =
             IF 0 > MaxParallel - 1 THEN 0 ELSE MaxParallel - 1 - 0 + 1
    BY <1>1, FS_Interval
  <2> QED BY <1>1, <2>1 DEF Worker
<1>3. IsFiniteSet(R) /\ R \in SUBSET Worker /\ R # Worker
  BY <1>2, FS_Subset
<1>4. Cardinality(R) <= Cardinality(Worker) /\ Cardinality(R) # Cardinality(Worker)
  BY <1>2, <1>3, FS_Subset
<1>5. f \in Surjection(R, TasksIn("running"))
  BY DEF Surjection, TasksIn
<1> HIDE DEF R, f
<1>6. /\ IsFiniteSet(TasksIn("running"))
      /\ Cardinality(TasksIn("running")) <= Cardinality(R)
  BY <1>3, <1>5, FS_Surjection
<1>7. Cardinality(R) \in Nat /\ Cardinality(TasksIn("running")) \in Nat
  BY <1>3, <1>6, FS_CardinalityType
<1> QED BY <1>1, <1>2, <1>4, <1>6, <1>7

\* Workers that are served hold nothing before and after, the others stay as they are.
LEMMA OnlyWaitingServed ==
  ASSUME NEW line \in Seq(Worker), NEW stack \in Seq(Task),
         \A i \in 1..Len(line) : pc[line[i]] \in {"factory", "queued"},
         NEW served \in 1..Len(line), HandedOut(line, stack, served)
  PROVE  \A x \in Worker :
           \/ pc'[x] = pc[x] /\ hand'[x] = hand[x]
           \/ pc[x] \in {"factory", "queued"} /\ pc'[x] \in {"handed", "factory", "queued"}
<1>1. ASSUME NEW x \in Worker, NEW i \in 1..Len(line), line[i] = x
      PROVE  pc[x] \in {"factory", "queued"} /\ pc'[x] \in {"handed", "factory", "queued"}
  <2>1. i <= served \/ i = served + 1 \/ i > served + 1
    BY LenProperties
  <2> QED BY <1>1, <2>1 DEF HandedOut
<1> QED BY <1>1 DEF HandedOut

LEMMA WaitingHoldNothing ==
  ASSUME \A x \in Worker :
           \/ pc'[x] = pc[x] /\ hand'[x] = hand[x]
           \/ /\ pc[x] \in {"timer", "handed", "factory", "queued"}
              /\ pc'[x] \in {"handed", "factory", "queued", "orphaned", "halted", "chosen"}
              /\ pc'[x] \in {"orphaned", "chosen"} => hand'[x] = NoTask
  PROVE  /\ \A x \in Worker : Holds(x)' <=> Holds(x)
         /\ \A x \in Worker : Holds(x) => hand'[x] = hand[x]
         /\ \A x \in Worker : pc[x] \in {"running", "failed"} \/ pc'[x] \in {"running", "failed"}
                               => pc'[x] = pc[x] /\ hand'[x] = hand[x]
<1>1. \A x \in Worker : Holds(x)' <=> Holds(x)
  BY DEF Holds
<1>2. \A x \in Worker : Holds(x) => hand'[x] = hand[x]
  BY DEF Holds
<1> QED BY <1>1, <1>2

\* The worker the factory answers is handed something, and the answer reaches only
\* workers that wait for it.
LEMMA AnswerEndsTheCall ==
  ASSUME ExecutorInvariant, NEW w \in Worker, FactoryReturnsTasks(w) \/ FactoryReturnsNull(w)
  PROVE  /\ pc[w] = "factory" /\ pc'[w] = "handed"
         /\ \A x \in Worker :
              \/ pc'[x] = pc[x] /\ hand'[x] = hand[x]
              \/ pc[x] \in {"factory", "queued"} /\ pc'[x] \in {"handed", "factory", "queued"}
<1>1. pc[w] = "factory" /\ incompleteTasks \in Seq(Task)
  BY DEF FactoryReturnsTasks, FactoryReturnsNull, ExecutorInvariant, TypeOK
<1>2. PICK stack \in Seq(Task) : ServeRequests(w, stack)
  <2>1. CASE FactoryReturnsNull(w)
    BY <1>1, <2>1 DEF FactoryReturnsNull
  <2>2. CASE FactoryReturnsTasks(w)
    <3>1. PICK n \in 0 .. (TaskCount - baseI) : ServeRequests(w, NewTasks(n) \o incompleteTasks)
      BY <2>2 DEF FactoryReturnsTasks
    <3>2. baseI \in 0..TaskCount /\ TaskCount \in Nat
      BY TaskCountAssumption DEF ExecutorInvariant, TypeOK
    <3>3. n \in Nat /\ \A i \in 1..n : baseI + n - i \in Task
      BY <3>2 DEF Task
    <3>4. NewTasks(n) \in [1..n -> Task]
      BY <3>3 DEF NewTasks
    <3>5. NewTasks(n) \in Seq(Task)
      BY <3>3, <3>4
    <3>6. NewTasks(n) \o incompleteTasks \in Seq(Task)
      BY <1>1, <3>5, ConcatProperties
    <3> QED BY <3>1, <3>6
  <2> QED BY <2>1, <2>2
<1>3. PICK line \in Seq(Worker) :
        /\ line[1] = w /\ \A i \in 1..Len(line) : pc[line[i]] \in {"factory", "queued"}
        /\ \E served \in 1..Len(line) : HandedOut(line, stack, served)
  BY <1>1, <1>2, ServedLine
<1>4. PICK served \in 1..Len(line) : HandedOut(line, stack, served)
  BY <1>3
<1>5. 1 \in 1..Len(line) /\ 1 <= served
  BY LenProperties
<1>6. pc'[w] = "handed"
  BY <1>1, <1>3, <1>4, <1>5 DEF HandedOut
<1> QED BY <1>1, <1>3, <1>4, <1>6, OnlyWaitingServed

LEMMA FactoryAnswersPool ==
  ASSUME BothAgree, NEW w \in Worker, FactoryAnswers(w)
  PROVE  PoolStep
<1> DEFINE Waiting == \A x \in Worker :
             \/ pc'[x] = pc[x] /\ hand'[x] = hand[x]
             \/ pc[x] \in {"factory", "queued"} /\ pc'[x] \in {"handed", "factory", "queued"}
<1>1. /\ ExecutorInvariant /\ pc \in [Worker -> Stage] /\ baseI \in 0..TaskCount
      /\ TaskCount \in Nat
  BY TaskCountAssumption DEF BothAgree, DeliveryInvariant, ExecutorInvariant, TypeOK
<1>2. pc[w] = "factory"
  BY DEF FactoryAnswers, FactoryReturnsTasks, FactoryReturnsNull, FactoryRejects
<1>3. outcome # "resolved"
  BY <1>2 DEF BothAgree, DeliveryInvariant, WorkersFinishLast
<1>4. FactoryReturnsTasks(w) \/ FactoryReturnsNull(w) => Waiting
  BY <1>1, AnswerEndsTheCall
<1>5. CASE FactoryReturnsTasks(w)
  <2>1. PICK n \in 0 .. (TaskCount - baseI) : baseI' = baseI + n
    BY <1>5 DEF FactoryReturnsTasks
  <2>2. Produced \subseteq Produced'
    BY <1>1, <2>1 DEF Produced
  <2>3. UNCHANGED <<keysOf, outcome, visitedTaskIndexes>>
    BY <1>5 DEF FactoryReturnsTasks, inputs, reservations, results
  <2> QED BY <1>3, <1>4, <1>5, <2>2, <2>3, WaitingHoldNothing, AcceptingStep
<1>6. CASE FactoryReturnsNull(w)
  <2>1. UNCHANGED <<keysOf, baseI, outcome, visitedTaskIndexes>>
    BY <1>6 DEF FactoryReturnsNull, inputs, reservations, results
  <2> QED BY <1>4, <1>6, <2>1, WaitingHoldNothing, QuietStep
<1>7. CASE FactoryRejects(w)
  <2>1. hand[w] = NoTask
    BY <1>1, <1>2 DEF ExecutorInvariant, HandsAgree
  <2>2. /\ pc'[w] = "orphaned" /\ hand' = hand
        /\ \A x \in Worker : x # w => pc'[x] = pc[x]
    BY <1>1, <1>7 DEF FactoryRejects
  <2>3. UNCHANGED <<keysOf, baseI, outcome, visitedTaskIndexes>>
    BY <1>7 DEF FactoryRejects, inputs, requests, reservations, results
  <2> QED BY <1>2, <2>1, <2>2, <2>3, WaitingHoldNothing, QuietStep
<1> QED BY <1>5, <1>6, <1>7 DEF FactoryAnswers

LEMMA RequestWaitElapsesPool ==
  ASSUME BothAgree, RequestWaitElapses
  PROVE  PoolStep
<1> DEFINE q == requestTasksQueue
           w == Last(q)
<1>1. /\ ExecutorInvariant /\ incompleteTasks \in Seq(Task) /\ pc \in [Worker -> Stage]
      /\ q \in Seq(Worker) /\ Len(q) \in Nat
  BY LenProperties DEF BothAgree, DeliveryInvariant, ExecutorInvariant, TypeOK
<1>2. UNCHANGED <<keysOf, baseI, outcome, visitedTaskIndexes>>
  BY DEF RequestWaitElapses, inputs, reservations, results
<1>3. \A x \in Worker :
        \/ pc'[x] = pc[x] /\ hand'[x] = hand[x]
        \/ pc[x] \in {"factory", "queued"} /\ pc'[x] \in {"handed", "factory", "queued"}
  <2>1. CASE isFulfillingTask \/ q = << >>
    BY <2>1 DEF RequestWaitElapses
  <2>2. CASE ~isFulfillingTask /\ q # << >>
    <3>1. w \in Worker /\ pc[w] = "queued"
      <4>1. Len(q) >= 1 /\ w = q[Len(q)]
        BY <1>1, <2>2, EmptySeq DEF Last
      <4>2. Len(q) \in 1..Len(q)
        BY <1>1, <4>1
      <4> QED BY <1>1, <4>1, <4>2, ElementOfSeq DEF ExecutorInvariant, QueueAgrees
    <3>2. CASE incompleteTasks # << >>
      <4> DEFINE line == <<w>>
      <4>1. HandOut(line, incompleteTasks)
        BY <2>2, <3>2 DEF RequestWaitElapses
      <4>2. /\ line \in Seq(Worker) /\ Len(line) = 1
            /\ \A i \in 1..Len(line) : pc[line[i]] \in {"factory", "queued"}
            /\ \A i, j \in 1..Len(line) : line[i] = line[j] => i = j
        BY <3>1
      <4> HIDE DEF line, w
      <4>3. Len(line) >= 1
        BY <4>2
      <4>4. PICK served \in 1..Len(line) : HandedOut(line, incompleteTasks, served)
        BY <1>1, <4>1, <4>2, <4>3, HandOutEffect
      <4> QED BY <1>1, <4>2, <4>4, OnlyWaitingServed
    <3>3. CASE incompleteTasks = << >>
      <4>1. pc' = [pc EXCEPT ![w] = "factory"] /\ hand' = hand
        BY <2>2, <3>3 DEF RequestWaitElapses
      <4> HIDE DEF w
      <4> QED BY <1>1, <3>1, <4>1
    <3> QED BY <3>2, <3>3
  <2> QED BY <2>1, <2>2
<1> QED BY <1>2, <1>3, WaitingHoldNothing, QuietStep

LEMMA GetNextTaskPool ==
  ASSUME BothAgree, NEW w \in Worker, pc[w] \in {"timer", "handed"},
         NEW t \in Task \cup {NoTask}, NEW awaited, GetNextTask(w, t, awaited),
         UNCHANGED <<inputs, results>>
  PROVE  PoolStep
<1> DEFINE cands == Candidates(t)
<1>1. /\ TypeOK /\ pc \in [Worker -> Stage] /\ hand \in [Worker -> Task \cup {NoTask}]
  BY DEF BothAgree, DeliveryInvariant, ExecutorInvariant, TypeOK
<1>2. cands \in Seq(Task)
  BY <1>1, CandidatesType
<1>3. UNCHANGED <<keysOf, outcome>>
  BY DEF inputs, results
<1> HIDE DEF cands
<1>4. CASE TakeTask(w, cands)
  <2>1. PICK p \in 1..Len(cands) :
          /\ Runnable(cands[p])
          /\ visitedTaskIndexes' = visitedTaskIndexes \cup {cands[p]}
          /\ hand' = [hand EXCEPT ![w] = cands[p]]
    BY <1>4 DEF TakeTask
  <2> DEFINE u == cands[p]
  <2>2. pc' = [pc EXCEPT ![w] = "chosen"] /\ baseI' = baseI
    BY <1>4 DEF TakeTask, requests
  <2>3. u \in Task /\ u # NoTask
    BY <1>2, ElementOfSeq, NoTaskIsNoTask
  <2> HIDE DEF u
  <2>4. /\ pc'[w] = "chosen" /\ hand'[w] = u
        /\ \A x \in Worker : x # w => pc'[x] = pc[x] /\ hand'[x] = hand[x]
    BY <1>1, <2>1, <2>2 DEF u
  <2>5. Held' = Held \cup {u}
    <3>1. /\ Holds(w)' /\ ~Holds(w)
          /\ \A x \in Worker : x # w => (Holds(x)' <=> Holds(x))
      BY <2>3, <2>4 DEF Holds
    <3> QED BY <2>4, <3>1 DEF Held
  <2>6. visitedTaskIndexes' = visitedTaskIndexes \cup {u} /\ {u} \cap visitedTaskIndexes = {}
    BY <2>1 DEF Runnable, u
  <2>7. /\ Completed' = Completed
        /\ TasksIn("running")' = TasksIn("running")
        /\ TasksIn("failed")' = TasksIn("failed")
    BY <2>4, <2>5, <2>6, NoneStartsOrEnds
  <2>8. Produced' = Produced
    BY <2>2 DEF Produced
  <2>9. \A x \in Task : StateOf(x)' = StateOf(x)
    BY <2>7, <2>8, StatesFollow
  <2> QED BY <1>3, <2>9, PoolStutters
<1>5. ASSUME ParkAll(w, cands), baseI' = baseI,
             NEW s \in {"chosen", "factory", "queued"}, pc' = [pc EXCEPT ![w] = s]
      PROVE  PoolStep
  <2>1. hand' = [hand EXCEPT ![w] = NoTask] /\ UNCHANGED visitedTaskIndexes
    BY <1>5 DEF ParkAll
  <2>2. /\ pc'[w] = s /\ hand'[w] = NoTask
        /\ \A x \in Worker : x # w => pc'[x] = pc[x] /\ hand'[x] = hand[x]
    BY <1>1, <1>5, <2>1
  <2> QED BY <1>3, <1>5, <2>1, <2>2, WaitingHoldNothing, QuietStep
<1>6. CASE FindNothing(w, cands, awaited)
  BY <1>5, <1>6 DEF FindNothing, requests
<1>7. CASE RequestMoreTasks(w, cands, awaited)
  <2>1. /\ ParkAll(w, cands) /\ baseI' = baseI
        /\ pc' = [pc EXCEPT ![w] = "factory"] \/ pc' = [pc EXCEPT ![w] = "queued"]
    BY <1>7 DEF RequestMoreTasks, CallOrQueue, CallFactory, QueueRequest
  <2> QED BY <1>5, <2>1
<1> QED BY <1>4, <1>6, <1>7 DEF GetNextTask, cands

\* Starting the task a worker has chosen.
LEMMA StartTaskPool ==
  ASSUME BothAgree, NEW w \in Worker, StartTask(w)
  PROVE  PoolStep
<1>1. /\ TypeOK /\ HeldTasksAreApart /\ HandsAgree
      /\ pc \in [Worker -> Stage] /\ hand \in [Worker -> Task \cup {NoTask}]
      /\ visitedTaskIndexes \subseteq Produced
  BY DEF BothAgree, DeliveryInvariant, ExecutorInvariant, TypeOK, TasksAreParked
<1>2. /\ pc[w] = "chosen" /\ hand[w] # NoTask /\ hand' = hand
      /\ pc' = [pc EXCEPT ![w] = "running"]
      /\ UNCHANGED <<keysOf, baseI, visitedTaskIndexes, outcome>>
  BY DEF StartTask, inputs, requests, reservations
<1>3. PICK u \in Task : u = hand[w] /\ Holds(w)
  BY <1>1, <1>2 DEF Holds
<1>4. /\ pc'[w] = "running"
      /\ \A x \in Worker : x # w => pc'[x] = pc[x]
  BY <1>1, <1>2
<1>5. \A x \in Worker : x # w /\ Holds(x) => hand[x] # u /\ KeysOf(hand[x]) \cap KeysOf(u) = {}
  BY <1>1, <1>3 DEF HeldTasksAreApart
<1>6. \A x \in Worker : pc[x] \in {"running", "failed"} => x # w /\ Holds(x)
  BY <1>1, <1>2 DEF HandsAgree, Holds
<1>7. Held' = Held
  <2>1. \A x \in Worker : Holds(x)' <=> Holds(x)
    BY <1>2, <1>3, <1>4 DEF Holds
  <2> QED BY <1>2, <2>1, SameHeld
<1>8. Completed' = Completed /\ Produced' = Produced
  BY <1>2, <1>7 DEF Completed, Produced
<1>9. /\ TasksIn("running")' = TasksIn("running") \cup {u}
      /\ TasksIn("failed")' = TasksIn("failed")
  BY <1>2, <1>3, <1>4 DEF TasksIn
<1>10. u \in Produced /\ u \notin Completed \cup TasksIn("running") \cup TasksIn("failed")
  <2>1. u \in Held
    BY <1>3 DEF Held
  <2>2. u \notin TasksIn("running") \cup TasksIn("failed")
    BY <1>5, <1>6 DEF TasksIn
  <2> QED BY <1>1, <2>1, <2>2 DEF HeldTasksAreApart, Completed
<1>11. StateOf(u) = "accepted" /\ StateOf(u)' = "running"
  BY <1>3, <1>9, <1>10 DEF BothAgree, StatesAgree
<1>12. \A t \in Task : t # u => StateOf(t)' = StateOf(t)
  BY <1>8, <1>9, StatesFollow
<1> DEFINE state == [t \in Task |-> StateOf(t)]
           keys == [t \in Task |-> KeysOf(t)]
<1>13. state' = [state EXCEPT ![u] = "running"] /\ keys' = keys
  BY <1>2, <1>3, <1>11, <1>12, OneTaskMoves
<1>14. {t \in Task : state[t] = "running"} = TasksIn("running")
  <2>1. \A t \in Task : t \notin TasksIn("running") => StateOf(t) # "running"
    BY DEF BothAgree, StatesAgree
  <2>2. TasksIn("running") \subseteq Task
    BY <1>1 DEF TasksIn, HandsAgree
  <2> QED BY <2>1, <2>2 DEF BothAgree, StatesAgree
<1>15. Cardinality({t \in Task : state[t] = "running"}) < MaxParallel
  BY <1>1, <1>2, <1>14, RunningBound
<1>16. \A t \in TasksIn("running") : KeysOf(u) \cap KeysOf(t) = {}
  BY <1>5, <1>6 DEF TasksIn
<1>17. \A t \in {x \in Task : state[x] = "running"} : keys[u] \cap keys[t] = {}
  BY <1>3, <1>14, <1>16
<1>18. Pool!Cardinality({t \in Task : state[t] = "running"}) < MaxParallel
  BY <1>15 DEF Pool!Cardinality, Cardinality, Pool!IsFiniteSet, IsFiniteSet
<1>19. Pool!Start(u)
  BY <1>2, <1>3, <1>11, <1>13, <1>17, <1>18 DEF Pool!Start, Pool!In
<1> QED BY <1>3, <1>19 DEF PoolStep, Pool!Next

\* The worker that finds no task: the last one resolves the promise, and then every task
\* given out is done.
LEMMA FinishParallelPool ==
  ASSUME BothAgree, NEW w \in Worker, FinishParallel(w)
  PROVE  PoolStep
<1>1. pc \in [Worker -> Stage]
  BY DEF BothAgree, DeliveryInvariant, ExecutorInvariant, TypeOK
<1>2. /\ pc[w] = "chosen" /\ hand[w] = NoTask /\ hand' = hand
      /\ pc' = [pc EXCEPT ![w] = "finished"]
      /\ outcome' = outcome \/ (outcome = "pending" /\ outcome' = "resolved")
      /\ UNCHANGED <<keysOf, baseI, visitedTaskIndexes>>
  BY DEF FinishParallel, inputs, requests, reservations
<1>3. pc'[w] = "finished" /\ \A x \in Worker : x # w => pc'[x] = pc[x]
  BY <1>1, <1>2
<1>4. /\ \A x \in Worker : Holds(x)' <=> Holds(x)
      /\ \A x \in Worker : pc[x] \in {"running", "failed"} \/ pc'[x] \in {"running", "failed"}
                            => pc'[x] = pc[x] /\ hand'[x] = hand[x]
  BY <1>2, <1>3 DEF Holds
<1>5. CASE outcome' = outcome
  BY <1>2, <1>4, <1>5, QuietStep
<1>6. CASE outcome = "pending" /\ outcome' = "resolved"
  <2>1. Held' = Held \cup {}
    BY <1>2, <1>4, SameHeld
  <2>2. visitedTaskIndexes' = visitedTaskIndexes \cup {} /\ {} \cap visitedTaskIndexes = {}
    BY <1>2
  <2>3. /\ Completed' = Completed
        /\ TasksIn("running")' = TasksIn("running")
        /\ TasksIn("failed")' = TasksIn("failed")
    BY <1>4, <2>1, <2>2, NoneStartsOrEnds
  <2>4. Produced' = Produced
    BY <1>2 DEF Produced
  <2>5. \A t \in Task : StateOf(t)' = StateOf(t)
    BY <2>3, <2>4, StatesFollow
  <2>6. Completed' = Produced'
    <3>1. DeliveryInvariant' => ResolvedMeansAllCompleted'
      BY DeliveryResolvesLast, PTL
    <3> QED BY <1>6, <3>1 DEF BothAgree, ResolvedMeansAllCompleted
  <2>7. \A t \in Task : StateOf(t) \in {"unknown", "done"}
    BY <2>3, <2>4, <2>6 DEF BothAgree, StatesAgree
  <2>8. \A t : KeysOf(t)' = KeysOf(t)
    BY <1>2 DEF KeysOf
  <2>9. [t \in Task |-> KeysOf(t)]' = [t \in Task |-> KeysOf(t)]
    BY <2>8
  <2>10. [t \in Task |-> StateOf(t)]' = [t \in Task |-> StateOf(t)]
    BY <2>5
  <2>11. Pool!Resolve
    BY <1>6, <2>7, <2>9, <2>10 DEF Pool!Resolve
  <2> QED BY <2>11 DEF PoolStep, Pool!Next
<1> QED BY <1>2, <1>5, <1>6

LEMMA ProceedPool ==
  ASSUME BothAgree, NEW w \in Worker, Proceed(w)
  PROVE  PoolStep
<1>1. /\ pc \in [Worker -> Stage] /\ hand \in [Worker -> Task \cup {NoTask}]
  BY DEF BothAgree, DeliveryInvariant, ExecutorInvariant, TypeOK
<1>2. CASE Dispatch(w)
  <2>1. pc[w] = "timer" /\ UNCHANGED <<inputs, results>>
    BY <1>2 DEF Dispatch
  <2>2. CASE GetNextTask(w, NoTask, FALSE)
    BY <2>1, <2>2, GetNextTaskPool
  <2>3. CASE /\ pc' = [pc EXCEPT ![w] = "halted"]
             /\ UNCHANGED <<requests, incompleteTasks, reservations, hand>>
    <3>1. pc'[w] = "halted" /\ \A x \in Worker : x # w => pc'[x] = pc[x]
      BY <1>1, <2>3
    <3>2. UNCHANGED <<keysOf, baseI, outcome, visitedTaskIndexes>>
      BY <2>1, <2>3 DEF inputs, requests, reservations, results
    <3> QED BY <2>1, <2>3, <3>1, <3>2, WaitingHoldNothing, QuietStep
  <2> QED BY <1>2, <2>2, <2>3 DEF Dispatch
<1>3. CASE ResumeGetNextTask(w)
  <2>1. hand[w] \in Task \cup {NoTask}
    BY <1>1
  <2> QED BY <1>3, <2>1, GetNextTaskPool DEF ResumeGetNextTask
<1>4. CASE StartTask(w)
  BY <1>4, StartTaskPool
<1>5. CASE TaskFactoryThrows(w)
  <2>1. /\ pc[w] = "chosen" /\ hand' = hand
        /\ pc'[w] = "orphaned" /\ \A x \in Worker : x # w => pc'[x] = pc[x]
    BY <1>1, <1>5 DEF TaskFactoryThrows
  <2>2. /\ \A x \in Worker : Holds(x)' <=> Holds(x)
        /\ \A x \in Worker : pc[x] \in {"running", "failed"} \/ pc'[x] \in {"running", "failed"}
                              => pc'[x] = pc[x] /\ hand'[x] = hand[x]
    BY <2>1 DEF Holds
  <2>3. UNCHANGED <<keysOf, baseI, outcome, visitedTaskIndexes>>
    BY <1>5 DEF TaskFactoryThrows, inputs, requests, reservations, results
  <2> QED BY <2>1, <2>2, <2>3, QuietStep
<1>6. CASE FinishParallel(w)
  BY <1>6, FinishParallelPool
<1> QED BY <1>2, <1>3, <1>4, <1>5, <1>6 DEF Proceed

LEMMA TaskSettlesPool ==
  ASSUME BothAgree, NEW w \in Worker, TaskSettles(w)
  PROVE  PoolStep
<1>1. /\ TypeOK /\ HeldTasksAreApart /\ HandsAgree
      /\ pc \in [Worker -> Stage] /\ hand \in [Worker -> Task \cup {NoTask}]
      /\ visitedTaskIndexes \subseteq Produced
      /\ outcome \in {"pending", "resolved", "rejected"}
  BY DEF BothAgree, DeliveryInvariant, ExecutorInvariant, TypeOK, TasksAreParked
<1>2. pc[w] = "running"
  BY DEF TaskSettles, TaskSucceeds, TaskFails
<1>3. PICK u \in Task : u = hand[w] /\ u # NoTask
  BY <1>1, <1>2 DEF HandsAgree
<1>4. Holds(w) /\ u \in Held
  BY <1>2, <1>3 DEF Holds, Held
<1>5. \A x \in Worker : x # w /\ Holds(x) => hand[x] # u
  BY <1>1, <1>3, <1>4 DEF HeldTasksAreApart
<1>6. \A x \in Worker : pc[x] \in {"running", "failed"} => Holds(x)
  BY <1>1 DEF HandsAgree, Holds
<1>7. u \in TasksIn("running") /\ StateOf(u) = "running"
  <2>1. u \in TasksIn("running")
    BY <1>2, <1>3 DEF TasksIn
  <2> QED BY <2>1 DEF BothAgree, StatesAgree
<1> DEFINE state == [t \in Task |-> StateOf(t)]
           keys == [t \in Task |-> KeysOf(t)]
<1>8. CASE TaskSucceeds(w)
  <2>1. /\ pc'[w] = "timer" /\ hand'[w] = NoTask
        /\ \A x \in Worker : x # w => pc'[x] = pc[x] /\ hand'[x] = hand[x]
        /\ UNCHANGED <<keysOf, baseI, visitedTaskIndexes, outcome>>
    BY <1>1, <1>8 DEF TaskSucceeds, inputs, requests, results
  <2>2. Held' = Held \ {u}
    <3>1. ~Holds(w)' /\ \A x \in Worker : x # w => (Holds(x)' <=> Holds(x))
      BY <2>1 DEF Holds
    <3> QED BY <1>3, <1>5, <2>1, <3>1 DEF Held
  <2>3. Completed' = Completed \cup {u} /\ Produced' = Produced
    BY <1>1, <1>4, <2>1, <2>2 DEF Completed, Produced, HeldTasksAreApart
  <2>4. /\ TasksIn("running")' = TasksIn("running") \ {u}
        /\ TasksIn("failed")' = TasksIn("failed")
    <3>1. \A x \in Worker : pc'[x] = "running" <=> pc[x] = "running" /\ x # w
      BY <2>1
    <3>2. \A x \in Worker : pc'[x] = "failed" <=> pc[x] = "failed"
      BY <1>2, <2>1
    <3> QED BY <1>2, <1>3, <1>5, <1>6, <2>1, <3>1, <3>2 DEF TasksIn
  <2>5. StateOf(u)' = "done"
    BY <2>3 DEF BothAgree, StatesAgree
  <2>6. \A t \in Task : t # u => StateOf(t)' = StateOf(t)
    BY <2>3, <2>4, StatesFollow
  <2>7. state' = [state EXCEPT ![u] = "done"] /\ keys' = keys
    BY <2>1, <2>5, <2>6, OneTaskMoves
  <2>8. Pool!Complete(u)
    BY <1>7, <2>1, <2>7 DEF Pool!Complete
  <2> QED BY <2>8 DEF PoolStep, Pool!Next
<1>9. CASE TaskFails(w)
  <2>1. /\ pc'[w] = "failed" /\ hand' = hand
        /\ \A x \in Worker : x # w => pc'[x] = pc[x]
        /\ outcome' = IF outcome = "pending" THEN "rejected" ELSE outcome
        /\ UNCHANGED <<keysOf, baseI, visitedTaskIndexes>>
    BY <1>1, <1>9 DEF TaskFails, inputs, requests, reservations
  <2>2. outcome # "resolved"
    BY <1>2 DEF BothAgree, DeliveryInvariant, WorkersFinishLast
  <2>3. Held' = Held
    <3>1. \A x \in Worker : Holds(x)' <=> Holds(x)
      BY <1>2, <2>1 DEF Holds
    <3> QED BY <2>1, <3>1, SameHeld
  <2>4. Completed' = Completed /\ Produced' = Produced
    BY <2>1, <2>3 DEF Completed, Produced
  <2>5. /\ TasksIn("running")' = TasksIn("running") \ {u}
        /\ TasksIn("failed")' = TasksIn("failed") \cup {u}
    <3>1. \A x \in Worker : pc'[x] = "running" <=> pc[x] = "running" /\ x # w
      BY <2>1
    <3>2. \A x \in Worker : pc'[x] = "failed" <=> pc[x] = "failed" \/ x = w
      BY <1>2, <2>1
    <3>3. TasksIn("running")' = TasksIn("running") \ {u}
      BY <1>2, <1>3, <1>5, <1>6, <2>1, <3>1 DEF TasksIn
    <3> QED BY <1>3, <2>1, <3>2, <3>3 DEF TasksIn
  <2>6. StateOf(u)' = "failed"
    BY <2>5 DEF BothAgree, StatesAgree
  <2>7. \A t \in Task : t # u => StateOf(t)' = StateOf(t)
    BY <2>4, <2>5, StatesFollow
  <2>8. state' = [state EXCEPT ![u] = "failed"] /\ keys' = keys
    BY <2>1, <2>6, <2>7, OneTaskMoves
  <2>9. outcome' = "rejected"
    BY <1>1, <2>1, <2>2
  <2>10. Pool!Fail(u)
    BY <1>7, <2>2, <2>8, <2>9 DEF Pool!Fail
  <2> QED BY <2>10 DEF PoolStep, Pool!Next
<1> QED BY <1>8, <1>9 DEF TaskSettles

LEMMA EveryStepIsOfThePool == DeliveryInvariant /\ [Next]_vars => PoolStep
<1> SUFFICES ASSUME DeliveryInvariant, [Next]_vars
             PROVE  PoolStep
  OBVIOUS
<1>1. BothAgree
  BY BothStates
<1>2. CASE \E w \in Worker : Proceed(w)
  BY <1>1, <1>2, ProceedPool
<1>3. CASE \E w \in Worker : FactoryAnswers(w)
  BY <1>1, <1>3, FactoryAnswersPool
<1>4. CASE \E w \in Worker : TaskSettles(w)
  BY <1>1, <1>4, TaskSettlesPool
<1>5. CASE RequestWaitElapses
  BY <1>1, <1>5, RequestWaitElapsesPool
<1>6. CASE UNCHANGED vars
  <2>1. UNCHANGED <<keysOf, baseI, outcome, visitedTaskIndexes, pc, hand>>
    BY <1>6 DEF vars, inputs, requests, reservations, results
  <2>2. \A x \in Worker : Holds(x)' <=> Holds(x)
    BY <2>1 DEF Holds
  <2> QED BY <1>1, <2>1, <2>2, QuietStep
<1>7. CASE Stop
  BY <1>6, <1>7 DEF Stop
<1> QED BY <1>2, <1>3, <1>4, <1>5, <1>6, <1>7 DEF Next

LEMMA PoolInitially == Init => Pool!Init
<1> SUFFICES ASSUME Init PROVE Pool!Init
  OBVIOUS
<1>1. StatesAgree /\ Produced = {}
  BY InitialDelivery, StateIs DEF Init, Produced
<1>2. \A t \in Task : StateOf(t) = "unknown"
  BY <1>1 DEF StatesAgree
<1> QED BY <1>2 DEF Pool!Init, Init

\* Seen from outside, the executor does only what the pool of keyed tasks may do.
THEOREM ExecutorImplementsPool == Spec => ImplementsPool
<1>1. DeliveryInvariant /\ [Next]_vars => [Pool!Next]_(Pool!vars)
  BY EveryStepIsOfThePool DEF PoolStep
<1> QED BY PoolInitially, <1>1, DeliveryHolds, PTL DEF Spec, ImplementsPool, Pool!Spec

-----------------------------------------------------------------------------
(* Tasks that come singly *)

\* A step of an executor whose input factory gives out one task for each call, and which
\* serves the queued requests at once.
SingleStep ==
  \/ \E w \in Worker :
       \/ Proceed(w)
       \/ FactoryReturnsTasks(w) /\ baseI' = baseI + 1
       \/ FactoryReturnsNull(w)
       \/ FactoryRejects(w)
       \/ TaskSettles(w)
  \/ UNCHANGED vars

\* What a step may do to a worker: a task given out goes to the worker that awaits the
\* input factory, and stays with it until it has run.
WorkerMoves(x) ==
  \/ pc'[x] = pc[x] /\ hand'[x] = hand[x]
  \/ /\ pc[x] = "factory" /\ pc'[x] = "handed"
     /\ hand'[x] = IF isOutOfTasks' THEN NoTask ELSE baseI
  \/ pc[x] = "factory" /\ pc'[x] = "orphaned" /\ hand'[x] = NoTask
  \/ pc[x] = "queued" /\ pc'[x] = "factory" /\ hand'[x] = NoTask
  \/ /\ pc[x] = "timer" /\ hand'[x] = NoTask
     /\ pc'[x] \in {"chosen", "factory", "queued", "halted"}
     /\ pc'[x] = "chosen" => isOutOfTasks
  \/ pc[x] = "handed" /\ pc'[x] = "chosen" /\ hand'[x] = hand[x]
  \/ /\ pc[x] = "chosen" /\ hand[x] # NoTask
     /\ pc'[x] \in {"running", "orphaned"} /\ hand'[x] = hand[x]
  \/ pc[x] = "chosen" /\ hand[x] = NoTask /\ pc'[x] = "finished" /\ hand'[x] = NoTask
  \/ pc[x] = "running" /\ pc'[x] = "timer" /\ hand'[x] = NoTask
  \/ pc[x] = "running" /\ pc'[x] = "failed" /\ hand'[x] = hand[x]

\* What a step does as long as tasks come singly.
MovesSingly ==
  /\ UNCHANGED inputs
  /\ incompleteTasks' = << >>
  /\ \A k \in Key : waitingConcurrentTasks'[k] = << >>
  /\ \A x \in Worker : WorkerMoves(x)
  /\ isOutOfTasks => isOutOfTasks'
  /\ \/ visitedTaskIndexes' = visitedTaskIndexes
     \/ \E w \in Worker : /\ pc[w] = "handed" /\ hand[w] \in Task /\ pc'[w] = "chosen"
                          /\ visitedTaskIndexes' = visitedTaskIndexes \cup {hand[w]}

LEMMA SequencesOfNone ==
  /\ Reverse(<< >>) = << >>
  /\ \A k \in Key : Parked(<< >>, k) = << >>
<1>1. << >> \in Seq(Task) /\ Len(<< >>) = 0
  OBVIOUS
<1>2. Reverse(<< >>) = << >>
  BY <1>1, ReverseType, EmptySeq
<1>3. FlattenSeq(<< >>) = << >>
  BY DEF FlattenSeq
<1> QED BY <1>1, <1>2, <1>3 DEF Parked

LEMMA CandidatesSingly ==
  ASSUME incompleteTasks = << >>, NEW t \in Task \cup {NoTask}
  PROVE  Candidates(t) = IF t = NoTask THEN << >> ELSE <<t>>
<1>1. << >> \o << >> = << >>
  OBVIOUS
<1>2. CASE t \in Task
  <2>1. <<t>> \o << >> = <<t>>
    BY <1>2
  <2> QED BY <1>2, <2>1, SequencesOfNone, NoTaskIsNoTask DEF Candidates
<1>3. CASE t = NoTask
  BY <1>1, <1>3, SequencesOfNone DEF Candidates
<1> QED BY <1>2, <1>3

LEMMA GetNextTaskSingly ==
  ASSUME ExecutorInvariant, TasksComeSingly,
         NEW w \in Worker, pc[w] \in {"timer", "handed"},
         NEW t \in Task \cup {NoTask}, t = hand[w],
         GetNextTask(w, t, pc[w] = "handed"), UNCHANGED inputs
  PROVE  MovesSingly
<1> DEFINE cands == Candidates(t)
           awaited == (pc[w] = "handed")
<1>1. /\ TypeOK /\ HandsAgree /\ HeldTasksAreApart /\ ReservedKeysAreHeld
      /\ pc \in [Worker -> Stage] /\ hand \in [Worker -> Task \cup {NoTask}]
      /\ waitingConcurrentTasks \in [Key -> Seq(Task)]
  BY DEF ExecutorInvariant, TypeOK
<1>2. cands = IF t = NoTask THEN << >> ELSE <<t>>
  BY CandidatesSingly DEF TasksComeSingly
<1>3. pc[w] = "timer" => t = NoTask
  BY <1>1 DEF HandsAgree
<1>4. \A k \in Key : waitingConcurrentTasks[k] = << >> /\ Parked(<< >>, k) = << >>
  BY SequencesOfNone DEF TasksComeSingly
<1> HIDE DEF cands
<1>5. CASE t = NoTask
  <2>1. cands = << >> /\ Len(cands) = 0
    BY <1>2, <1>5
  <2>2. ~TakeTask(w, cands)
    BY <2>1 DEF TakeTask
  <2>3. ParkAll(w, cands)
    BY <2>2 DEF GetNextTask, FindNothing, RequestMoreTasks, cands
  <2>4. /\ incompleteTasks' = << >> /\ Park(<< >>)
        /\ hand' = [hand EXCEPT ![w] = NoTask]
        /\ visitedTaskIndexes' = visitedTaskIndexes
    BY <2>1, <2>3 DEF ParkAll
  <2>5. \A k \in Key : waitingConcurrentTasks'[k] = << >>
    <3>1. SUFFICES ASSUME NEW k \in Key
                   PROVE  waitingConcurrentTasks'[k] = << >>
      OBVIOUS
    <3>2. waitingConcurrentTasks'[k] = << >> \o << >>
      BY <1>4, <2>4 DEF Park
    <3> QED BY <3>2
  <2>6. \/ /\ FindNothing(w, cands, awaited)
           /\ pc' = [pc EXCEPT ![w] = "chosen"] /\ isOutOfTasks' = isOutOfTasks
           /\ isOutOfTasks \/ pc[w] = "handed"
        \/ /\ pc[w] # "handed" /\ isOutOfTasks' = isOutOfTasks
           /\ pc' = [pc EXCEPT ![w] = "factory"] \/ pc' = [pc EXCEPT ![w] = "queued"]
    BY <2>1, <2>2 DEF GetNextTask, FindNothing, RequestMoreTasks, CallOrQueue, CallFactory,
                      QueueRequest, requests, cands
  <2>7. \A x \in Worker : WorkerMoves(x)
    BY <1>1, <1>5, <2>4, <2>6 DEF WorkerMoves
  <2> QED BY <2>4, <2>5, <2>6, <2>7 DEF MovesSingly
<1>6. CASE t # NoTask
  <2>1. cands = <<t>> /\ Len(cands) = 1 /\ cands[1] = t /\ t \in Task /\ pc[w] = "handed"
    BY <1>2, <1>3, <1>6
  <2>2. Runnable(t)
    <3>1. t \notin visitedTaskIndexes
      BY <2>1 DEF TasksComeSingly
    <3>2. ASSUME NEW u \in Held
          PROVE  KeysOf(t) \cap KeysOf(u) = {}
      <4>1. u \in Task /\ u \in visitedTaskIndexes
        BY <1>1 DEF HeldTasksAreApart, TypeOK
      <4> QED BY <2>1, <3>1, <4>1 DEF TasksComeSingly
    <3> QED BY <1>1, <3>1, <3>2 DEF Runnable, ReservedKeysAreHeld
  <2>3. TakeTask(w, cands)
    BY <2>1, <2>2 DEF GetNextTask, FindNothing, RequestMoreTasks, ParkAll, cands
  <2>4. PICK p \in 1..Len(cands) :
          /\ incompleteTasks' = SubSeq(incompleteTasks, 1, Len(cands) - p)
          /\ Park(SubSeq(cands, 1, p - 1))
          /\ visitedTaskIndexes' = visitedTaskIndexes \cup {cands[p]}
          /\ hand' = [hand EXCEPT ![w] = cands[p]]
    BY <2>3 DEF TakeTask
  <2>5. p = 1
    BY <2>1
  <2>6. incompleteTasks' = << >> /\ Park(<< >>)
    <3>1. SubSeq(incompleteTasks, 1, 0) = << >> /\ SubSeq(cands, 1, 0) = << >>
      <4>1. incompleteTasks \in Seq(Task) /\ cands \in Seq(Task) /\ 0 <= Len(incompleteTasks)
        BY <1>1, <2>1, LenProperties DEF TypeOK
      <4> QED BY <4>1, <2>1, SubSeqType, EmptySeq
    <3>2. Len(cands) - p = 0 /\ p - 1 = 0
      BY <2>1, <2>5
    <3> QED BY <2>4, <3>1, <3>2
  <2>7. \A k \in Key : waitingConcurrentTasks'[k] = << >>
    <3>1. SUFFICES ASSUME NEW k \in Key
                   PROVE  waitingConcurrentTasks'[k] = << >>
      OBVIOUS
    <3>2. waitingConcurrentTasks'[k] = << >> \o << >>
      BY <1>4, <2>6 DEF Park
    <3> QED BY <3>2
  <2>8. /\ pc' = [pc EXCEPT ![w] = "chosen"] /\ isOutOfTasks' = isOutOfTasks
        /\ hand' = [hand EXCEPT ![w] = t]
        /\ visitedTaskIndexes' = visitedTaskIndexes \cup {t}
    BY <2>1, <2>3, <2>4, <2>5 DEF TakeTask, requests
  <2>9. \A x \in Worker : WorkerMoves(x)
    BY <1>1, <2>1, <2>8 DEF WorkerMoves
  <2>10. \E v \in Worker : /\ pc[v] = "handed" /\ hand[v] \in Task /\ pc'[v] = "chosen"
                           /\ visitedTaskIndexes' = visitedTaskIndexes \cup {hand[v]}
    BY <1>1, <2>1, <2>8
  <2> QED BY <2>6, <2>7, <2>8, <2>9, <2>10 DEF MovesSingly
<1> QED BY <1>5, <1>6

\* What the input factory answers goes to the worker that asked, and to no other.
LEMMA FactoryAnswersSingly ==
  ASSUME ExecutorInvariant, TasksComeSingly, NEW w \in Worker,
         (FactoryReturnsTasks(w) /\ baseI' = baseI + 1) \/ FactoryReturnsNull(w)
  PROVE  MovesSingly /\ pc'[w] = "handed"
<1>1. /\ pc[w] = "factory" /\ incompleteTasks = << >> /\ ~waitsBetweenRequests
      /\ baseI \in 0..TaskCount /\ TaskCount \in Nat
      /\ requestTasksQueue \in Seq(Worker)
      /\ hand \in [Worker -> Task \cup {NoTask}]
      /\ waitingConcurrentTasks \in [Key -> Seq(Task)]
  BY TaskCountAssumption
     DEF FactoryReturnsTasks, FactoryReturnsNull, ExecutorInvariant, TypeOK, TasksComeSingly
<1>2. /\ UNCHANGED <<inputs, reservations>>
      /\ isOutOfTasks => isOutOfTasks'
  BY DEF FactoryReturnsTasks, FactoryReturnsNull
<1>3. PICK stack \in Seq(Task) :
        /\ ServeRequests(w, stack)
        /\ \/ stack = << >> /\ isOutOfTasks' = TRUE
           \/ Len(stack) = 1 /\ stack[1] = baseI /\ isOutOfTasks' = FALSE
  <2>1. CASE FactoryReturnsNull(w)
    <3>1. incompleteTasks \in Seq(Task)
      BY <1>1, EmptySeq
    <3> QED BY <1>1, <2>1, <3>1 DEF FactoryReturnsNull
  <2>2. CASE FactoryReturnsTasks(w) /\ baseI' = baseI + 1
    <3>1. PICK n \in 0 .. (TaskCount - baseI) :
            baseI' = baseI + n /\ ServeRequests(w, NewTasks(n) \o incompleteTasks)
      BY <2>2 DEF FactoryReturnsTasks
    <3>2. n = 1 /\ baseI \in Task
      BY <1>1, <2>2, <3>1 DEF Task
    <3> DEFINE stack == NewTasks(n)
    <3>3. \A i \in 1..n : baseI + n - i = baseI
      BY <1>1, <3>2
    <3>4. /\ stack \in Seq(Task) /\ Len(stack) = 1 /\ stack[1] = baseI
      <4>1. stack = [i \in 1..n |-> baseI + n - i]
        BY DEF NewTasks
      <4>2. stack \in [1..n -> Task] /\ stack[1] = baseI /\ n \in Nat
        BY <3>2, <3>3, <4>1
      <4> HIDE DEF stack
      <4>3. stack \in Seq(Task) /\ Len(stack) = n
        BY <4>2
      <4> QED BY <3>2, <4>2, <4>3
    <3>5. stack \o incompleteTasks = stack
      <4> HIDE DEF stack
      <4> QED BY <1>1, <3>4, ConcatEmptySeq
    <3>6. isOutOfTasks' = FALSE
      BY <2>2 DEF FactoryReturnsTasks, ExecutorInvariant, TypeOK
    <3> QED BY <3>1, <3>2, <3>4, <3>5, <3>6
  <2> QED BY <2>1, <2>2
<1>4. PICK line \in Seq(Worker) :
        /\ line[1] = w /\ \A i \in 1..Len(line) : pc[line[i]] \in {"factory", "queued"}
        /\ \E served \in 1..Len(line) : HandedOut(line, stack, served)
  BY <1>1, <1>3, ServedLine
<1>5. PICK served \in 1..Len(line) : HandedOut(line, stack, served)
  BY <1>4
<1>6. Len(line) \in Nat /\ 1 \in 1..Len(line) /\ served = 1
  BY <1>3, <1>5, LenProperties DEF HandedOut
<1>7. incompleteTasks' = << >>
  <2>1. Len(stack) - 1 <= 0 /\ Len(stack) - 1 \in Int /\ Len(stack) - 1 <= Len(stack)
    <3>1. PICK l \in 0..1 : l = Len(stack)
      BY <1>3
    <3>2. l - 1 <= 0 /\ l - 1 \in Int /\ l - 1 <= l
      OBVIOUS
    <3> QED BY <3>1, <3>2
  <2>2. incompleteTasks' = SubSeq(stack, 1, Len(stack) - 1)
    BY <1>5, <1>6 DEF HandedOut
  <2>3. Len(SubSeq(stack, 1, Len(stack) - 1)) = 0 /\ SubSeq(stack, 1, Len(stack) - 1) \in Seq(Task)
    BY <2>1, SubSeqType
  <2> QED BY <2>2, <2>3, EmptySeq
<1>8. pc'[w] = "handed" /\ hand'[w] = IF isOutOfTasks' THEN NoTask ELSE baseI
  <2>1. /\ pc'[line[1]] = "handed"
        /\ hand'[line[1]] = IF stack = << >> THEN NoTask ELSE stack[Len(stack) - 1 + 1]
    BY <1>5, <1>6 DEF HandedOut
  <2>2. CASE stack = << >> /\ isOutOfTasks' = TRUE
    BY <1>4, <2>1, <2>2
  <2>3. CASE Len(stack) = 1 /\ stack[1] = baseI /\ isOutOfTasks' = FALSE
    <3>1. stack # << >>
      <4>1. Len(<< >>) = 0 /\ 0 # 1
        OBVIOUS
      <4>2. stack = << >> => Len(stack) = Len(<< >>)
        OBVIOUS
      <4>3. Len(stack) = 1
        BY <2>3
      <4> QED BY <4>1, <4>2, <4>3, Zenon
    <3>2. Len(stack) - 1 + 1 = 1
      BY <2>3
    <3> QED BY <1>4, <2>1, <2>3, <3>1, <3>2
  <2> QED BY <1>3, <2>2, <2>3
<1>9. \A x \in Worker : WorkerMoves(x)
  <2>1. SUFFICES ASSUME NEW x \in Worker, x # w, pc'[x] # pc[x] \/ hand'[x] # hand[x]
                 PROVE  pc[x] = "queued" /\ pc'[x] = "factory" /\ hand'[x] = NoTask
    BY <1>1, <1>8 DEF WorkerMoves
  <2>2. PICK i \in 1..Len(line) : line[i] = x
    BY <1>5, <2>1 DEF HandedOut
  <2>3. i > 1 /\ pc[x] \in {"factory", "queued"}
    BY <1>4, <1>6, <2>1, <2>2
  <2>4. pc[x] = "queued" /\ hand[x] = NoTask
    BY <1>1, <2>1, <2>3 DEF ExecutorInvariant, OneFactoryCallAtATime, HandsAgree
  <2>5. hand'[x] = hand[x] /\ (i = 2 => pc'[x] = "factory") /\ (i > 2 => pc'[x] = pc[x])
    BY <1>5, <1>6, <2>2, <2>3 DEF HandedOut
  <2> QED BY <1>6, <2>1, <2>3, <2>4, <2>5
<1> QED BY <1>2, <1>7, <1>8, <1>9 DEF MovesSingly, reservations, TasksComeSingly

\* No task is parked, so a completed task moves none.
LEMMA TaskSucceedsSingly ==
  ASSUME ExecutorInvariant, TasksComeSingly, NEW w \in Worker, TaskSucceeds(w)
  PROVE  MovesSingly
<1> DEFINE keys == keysOf[hand[w]]
           n == Len(keys)
<1>1. /\ TypeOK /\ HandsAgree /\ incompleteTasks = << >>
      /\ pc \in [Worker -> Stage] /\ hand \in [Worker -> Task \cup {NoTask}]
      /\ \A k \in Key : waitingConcurrentTasks[k] = << >>
  BY DEF ExecutorInvariant, TypeOK, TasksComeSingly
<1>2. /\ pc[w] = "running" /\ ReleaseKeys(keys)
      /\ pc' = [pc EXCEPT ![w] = "timer"]
      /\ hand' = [hand EXCEPT ![w] = NoTask]
      /\ UNCHANGED <<inputs, requests, visitedTaskIndexes, results>>
  BY DEF TaskSucceeds
<1>3. hand[w] \in Task
  BY <1>1, <1>2 DEF HandsAgree
<1>4. keys \in Seq(Key) /\ n \in Nat /\ \A i \in 1..n : keys[i] \in Key
  BY <1>1, <1>3, KeysType, LenProperties, ElementOfSeq
<1> HIDE DEF keys
<1>5. PICK moved \in [1..n -> Task \cup {NoTask}] :
        /\ \A i \in 1..n : moved[i] = FirstWaiting(keys[i], {moved[j] : j \in 1..(i - 1)})
        /\ incompleteTasks' = incompleteTasks \o
             FlattenSeq([i \in 1..n |-> IF moved[i] = NoTask THEN << >> ELSE <<moved[i]>>])
        /\ waitingConcurrentTasks' = [k \in Key |->
             LET turns == {i \in 1..n : keys[i] = k} IN
             IF turns = {} THEN waitingConcurrentTasks[k] ELSE LeftWaiting(k, moved[Max(turns)])]
  BY <1>2 DEF ReleaseKeys
<1> HIDE DEF n
<1>6. \A i \in 1..n : moved[i] = NoTask
  <2>1. ASSUME NEW k \in Key, NEW before
        PROVE  FirstWaiting(k, before) = NoTask
    <3>1. waitingConcurrentTasks[k] = << >> /\ Len(<< >>) = 0 /\ 1..0 = {}
      BY <1>1
    <3> QED BY <3>1 DEF FirstWaiting
  <2> QED BY <1>4, <1>5, <2>1 DEF n
<1>7. incompleteTasks' = << >>
  <2> DEFINE ss == [i \in 1..n |-> IF moved[i] = NoTask THEN << >> ELSE <<moved[i]>>]
  <2>1. ss \in [1..n -> Seq(Task)] /\ \A i \in 1..n : ToSet(ss[i]) = {}
    BY <1>6 DEF ToSet
  <2>2. incompleteTasks' = << >> \o FlattenSeq(ss)
    BY <1>1, <1>5
  <2> HIDE DEF ss
  <2>3. PICK f \in Seq(Task) : f = FlattenSeq(ss) /\ ToSet(f) = {}
    <3>1. n \in Nat
      BY <1>4 DEF n
    <3>2. /\ FlattenSeq(ss) \in Seq(Task)
          /\ ToSet(FlattenSeq(ss)) = UNION {ToSet(ss[i]) : i \in 1..n}
      BY <2>1, <3>1, FlattenType
    <3>3. UNION {ToSet(ss[i]) : i \in 1..n} = {}
      BY <2>1
    <3> QED BY <3>2, <3>3
  <2>4. ToSet(f) = {f[i] : i \in 1..Len(f)} /\ Len(f) \in Nat
    <3>1. f \in Seq(Task)
      OBVIOUS
    <3>2. ToSet(f) = {f[i] : i \in 1..Len(f)}
      BY <3>1, ElementsOfSeq
    <3> QED BY <3>1, <3>2, LenProperties
  <2>5. Len(f) = 0
    <3>1. SUFFICES ASSUME Len(f) # 0
                   PROVE  FALSE
      OBVIOUS
    <3>2. 1 \in 1..Len(f)
      BY <2>4, <3>1
    <3> QED BY <2>3, <2>4, <3>2
  <2>6. f = << >> /\ << >> \o << >> = << >>
    BY <2>3, <2>5, EmptySeq
  <2> QED BY <2>2, <2>3, <2>6
<1>8. \A k \in Key : waitingConcurrentTasks'[k] = << >>
  <2>1. SUFFICES ASSUME NEW k \in Key
                 PROVE  waitingConcurrentTasks'[k] = << >>
    OBVIOUS
  <2> DEFINE turns == {i \in 1..n : keys[i] = k}
  <2>2. waitingConcurrentTasks'[k] =
          IF turns = {} THEN waitingConcurrentTasks[k] ELSE LeftWaiting(k, moved[Max(turns)])
    BY <1>5
  <2>3. CASE turns = {}
    BY <1>1, <2>2, <2>3
  <2>4. CASE turns # {}
    <3>1. turns \in SUBSET (1..n)
      OBVIOUS
    <3>2. Max(turns) \in turns
      BY <1>4, <2>4, <3>1, MaxIsGreatest DEF n
    <3>3. moved[Max(turns)] = NoTask
      BY <1>6, <3>2
    <3> QED BY <2>2, <2>4, <3>3 DEF LeftWaiting
  <2> QED BY <2>3, <2>4
<1>9. \A x \in Worker : WorkerMoves(x)
  BY <1>1, <1>2 DEF WorkerMoves
<1> QED BY <1>2, <1>7, <1>8, <1>9 DEF MovesSingly, requests

LEMMA StepMovesSingly ==
  ASSUME ExecutorInvariant, TasksComeSingly, SingleStep
  PROVE  MovesSingly
<1>1. /\ HandsAgree /\ incompleteTasks = << >>
      /\ pc \in [Worker -> Stage] /\ hand \in [Worker -> Task \cup {NoTask}]
      /\ \A k \in Key : waitingConcurrentTasks[k] = << >>
  BY DEF ExecutorInvariant, TypeOK, TasksComeSingly
<1>2. ASSUME UNCHANGED <<inputs, requests, incompleteTasks, reservations, hand>>,
             \A x \in Worker : WorkerMoves(x)
      PROVE  MovesSingly
  BY <1>1, <1>2 DEF MovesSingly, requests, reservations
<1>3. ASSUME NEW w \in Worker, Proceed(w)
      PROVE  MovesSingly
  <2>1. CASE Dispatch(w) /\ pc' = [pc EXCEPT ![w] = "halted"]
                /\ UNCHANGED <<inputs, requests, incompleteTasks, reservations, hand>>
    <3>1. hand[w] = NoTask /\ pc[w] = "timer"
      BY <1>1, <2>1 DEF Dispatch, HandsAgree
    <3>2. \A x \in Worker : WorkerMoves(x)
      BY <1>1, <2>1, <3>1 DEF WorkerMoves
    <3> QED BY <1>2, <2>1, <3>2
  <2>2. CASE Dispatch(w) /\ GetNextTask(w, NoTask, FALSE)
    <3>1. hand[w] = NoTask /\ pc[w] = "timer" /\ UNCHANGED inputs
      BY <1>1, <2>2 DEF Dispatch, HandsAgree
    <3>2. PICK t \in Task \cup {NoTask} : t = hand[w]
      BY <3>1
    <3>3. GetNextTask(w, t, pc[w] = "handed")
      BY <2>2, <3>1, <3>2
    <3> QED BY <3>1, <3>2, <3>3, GetNextTaskSingly
  <2>3. CASE ResumeGetNextTask(w)
    <3>1. pc[w] = "handed" /\ GetNextTask(w, hand[w], TRUE) /\ UNCHANGED inputs
      BY <2>3 DEF ResumeGetNextTask
    <3>2. PICK t \in Task \cup {NoTask} : t = hand[w]
      BY <1>1
    <3>3. GetNextTask(w, t, pc[w] = "handed")
      BY <3>1, <3>2
    <3> QED BY <3>1, <3>2, <3>3, GetNextTaskSingly
  <2>4. CASE StartTask(w) \/ TaskFactoryThrows(w) \/ FinishParallel(w)
    <3>1. /\ pc[w] = "chosen"
          /\ \/ hand[w] # NoTask /\ pc' = [pc EXCEPT ![w] = "running"]
             \/ hand[w] # NoTask /\ pc' = [pc EXCEPT ![w] = "orphaned"]
             \/ hand[w] = NoTask /\ pc' = [pc EXCEPT ![w] = "finished"]
          /\ UNCHANGED <<inputs, requests, incompleteTasks, reservations, hand>>
      BY <2>4 DEF StartTask, TaskFactoryThrows, FinishParallel
    <3>2. \A x \in Worker : WorkerMoves(x)
      BY <1>1, <3>1 DEF WorkerMoves
    <3> QED BY <1>2, <3>1, <3>2
  <2>5. Dispatch(w) => \/ pc' = [pc EXCEPT ![w] = "halted"]
                            /\ UNCHANGED <<inputs, requests, incompleteTasks, reservations, hand>>
                       \/ GetNextTask(w, NoTask, FALSE)
    BY DEF Dispatch
  <2> QED BY <1>3, <2>1, <2>2, <2>3, <2>4, <2>5 DEF Proceed
<1>4. ASSUME NEW w \in Worker, FactoryRejects(w)
      PROVE  MovesSingly
  <2>1. pc[w] = "factory" /\ hand[w] = NoTask /\ pc' = [pc EXCEPT ![w] = "orphaned"]
        /\ UNCHANGED <<inputs, requests, incompleteTasks, reservations, hand>>
    BY <1>1, <1>4 DEF FactoryRejects, HandsAgree
  <2>2. \A x \in Worker : WorkerMoves(x)
    BY <1>1, <2>1 DEF WorkerMoves
  <2> QED BY <1>2, <2>1, <2>2
<1>5. ASSUME NEW w \in Worker, TaskFails(w)
      PROVE  MovesSingly
  <2>1. pc[w] = "running" /\ pc' = [pc EXCEPT ![w] = "failed"]
        /\ UNCHANGED <<inputs, requests, incompleteTasks, reservations, hand>>
    BY <1>5 DEF TaskFails
  <2>2. \A x \in Worker : WorkerMoves(x)
    BY <1>1, <2>1 DEF WorkerMoves
  <2> QED BY <1>2, <2>1, <2>2
<1>6. CASE UNCHANGED vars
  <2>1. UNCHANGED <<inputs, requests, incompleteTasks, reservations, hand>> /\ pc' = pc
    BY <1>6 DEF vars
  <2>2. \A x \in Worker : WorkerMoves(x)
    BY <2>1 DEF WorkerMoves
  <2> QED BY <1>2, <2>1, <2>2
<1> QED BY <1>3, <1>4, <1>5, <1>6, FactoryAnswersSingly, TaskSucceedsSingly
        DEF SingleStep, TaskSettles

LEMMA SinglyStep ==
  ASSUME DeliveryInvariant, TasksComeSingly, SingleStep
  PROVE  TasksComeSingly'
<1>1. /\ ExecutorInvariant /\ TasksAreParked
      /\ pc \in [Worker -> Stage] /\ hand \in [Worker -> Task \cup {NoTask}]
      /\ baseI \in 0..TaskCount /\ TaskCount \in Nat
      /\ visitedTaskIndexes \in SUBSET Task
  BY TaskCountAssumption DEF DeliveryInvariant, ExecutorInvariant, TypeOK
<1>2. MovesSingly
  BY <1>1, StepMovesSingly
<1>3. UNCHANGED <<keysOf, waitsBetweenRequests>> /\ \A t : KeysOf(t)' = KeysOf(t)
  BY <1>2 DEF MovesSingly, inputs, KeysOf
<1>4. \A x \in Worker : WorkerMoves(x)
  BY <1>2 DEF MovesSingly
\* The next task is one that nobody has been handed and nobody has taken.
<1>5. baseI \notin visitedTaskIndexes /\ \A x \in Worker : pc[x] = "handed" => hand[x] # baseI
  <2>1. baseI \notin Produced
    BY <1>1 DEF Produced
  <2>2. baseI # NoTask
    BY <1>1, NoTaskAssumption
  <2>3. \A x \in Worker : pc[x] = "handed" => hand[x] \in Coming \cup {NoTask}
    BY DEF Coming
  <2> QED BY <1>1, <2>1, <2>2, <2>3 DEF TasksAreParked
<1>6. NoTask \notin visitedTaskIndexes
  BY <1>1, NoTaskIsNoTask
<1>7. ASSUME NEW x \in Worker, pc'[x] = "handed"
      PROVE  \/ pc[x] = "handed" /\ hand'[x] = hand[x]
             \/ pc[x] = "factory" /\ hand'[x] = IF isOutOfTasks' THEN NoTask ELSE baseI
  BY <1>4, <1>7 DEF WorkerMoves
<1>8. ASSUME NEW x \in Worker, pc'[x] = "handed"
      PROVE  hand'[x] \notin visitedTaskIndexes'
  <2>1. hand'[x] \notin visitedTaskIndexes
    BY <1>5, <1>6, <1>7, <1>8 DEF TasksComeSingly
  <2>2. ASSUME NEW v \in Worker, pc[v] = "handed", pc'[v] = "chosen", hand[v] \in Task
        PROVE  hand'[x] # hand[v]
    <3>1. v # x /\ hand[v] # NoTask
      BY <1>8, <2>2, NoTaskIsNoTask
    <3> QED BY <1>5, <1>7, <1>8, <2>2, <3>1 DEF TasksComeSingly
  <2> QED BY <1>2, <2>1, <2>2 DEF MovesSingly
<1>9. ASSUME NEW v \in Worker, NEW x \in Worker, v # x, pc'[v] = "handed", pc'[x] = "handed",
             hand'[v] # NoTask
      PROVE  hand'[v] # hand'[x]
  <2>1. CASE pc[v] = "handed" /\ pc[x] = "handed"
    BY <1>7, <1>9, <2>1 DEF TasksComeSingly
  <2>2. CASE pc[v] = "factory" /\ pc[x] = "factory"
    BY <1>1, <1>9, <2>2 DEF ExecutorInvariant, OneFactoryCallAtATime
  <2>3. CASE pc[v] # pc[x]
    BY <1>5, <1>7, <1>9, <2>3
  <2> QED BY <1>7, <1>9, <2>1, <2>2, <2>3
<1>10. ASSUME NEW x \in Worker,
              (pc'[x] \in {"handed", "chosen"} /\ hand'[x] = NoTask) \/ pc'[x] = "finished"
       PROVE  isOutOfTasks'
  <2>1. isOutOfTasks => isOutOfTasks'
    BY <1>2 DEF MovesSingly
  <2>2. baseI # NoTask
    BY <1>1, NoTaskAssumption
  <2> QED BY <1>4, <1>10, <2>1, <2>2 DEF WorkerMoves, TasksComeSingly
<1>11. \A t, u \in Task : t # u => KeysOf(t)' \cap KeysOf(u)' = {}
  BY <1>3 DEF TasksComeSingly
<1>12. /\ incompleteTasks' = << >> /\ \A k \in Key : waitingConcurrentTasks'[k] = << >>
       /\ ~waitsBetweenRequests'
  BY <1>2, <1>3 DEF MovesSingly, TasksComeSingly
<1> QED BY <1>8, <1>9, <1>10, <1>11, <1>12 DEF TasksComeSingly

LEMMA InitialSingly ==
  ASSUME Init, ~waitsBetweenRequests, \A t, u \in Task : t # u => KeysOf(t) \cap KeysOf(u) = {}
  PROVE  TasksComeSingly
<1>1. \A x \in Worker : pc[x] \notin {"handed", "chosen", "finished"}
  BY DEF Init
<1> QED BY <1>1 DEF Init, TasksComeSingly

\* The promise resolves only after the input factory has answered null.
LEMMA ResolvedOutOfTasks ==
  ASSUME DeliveryInvariant, TasksComeSingly, outcome = "resolved"
  PROVE  isOutOfTasks
<1>1. 0 \in Worker
  BY MaxParallelAssumption DEF Worker
<1> QED BY <1>1 DEF DeliveryInvariant, WorkersFinishLast, TasksComeSingly

LEMMA ProceedAsksOnly ==
  ASSUME NEW w \in Worker, Proceed(w)
  PROVE  UNCHANGED <<baseI, isOutOfTasks>>
<1>1. ASSUME NEW t, NEW awaited, GetNextTask(w, t, awaited)
      PROVE  UNCHANGED <<baseI, isOutOfTasks>>
  BY <1>1 DEF GetNextTask, TakeTask, FindNothing, RequestMoreTasks, requests
<1> QED BY <1>1 DEF Proceed, Dispatch, ResumeGetNextTask, StartTask, TaskFactoryThrows,
                    FinishParallel, requests
=============================================================================
