------------------------------- MODULE Loops -------------------------------
(***************************************************************************)
(* What the other proofs need of loops and of the lists they go through:   *)
(* induction over the number of iterations, what a loop computes, how many *)
(* elements it counts, and lists one element longer.                       *)
(***************************************************************************)
EXTENDS Integers, SequencesExt, FiniteSetTheorems, SequenceTheorems, TLAPS

-----------------------------------------------------------------------------
(* Loops: induction over the number of iterations, and what it defines.    *)

\* What holds before the first iteration and is kept by each holds after all
\* of them (the loops over the elements of a list, principals_map.c:161-188).
LEMMA Iterations ==
  ASSUME NEW S, 0 \in S, \A n \in Nat : n \in S => n + 1 \in S
  PROVE  Nat \subseteq S
<1> SUFFICES ASSUME NEW n \in Nat, n \notin S PROVE FALSE
  OBVIOUS
<1> DEFINE T == {m \in 0..n : m \notin S}
           f == [m \in T |-> m - 1]
<1>1. \A m \in T : m \in 0..n /\ m # 0 /\ m - 1 \in T
  OBVIOUS
<1>2. IsFiniteSet(T)
  <2>1. IsFiniteSet(0..n)
    BY FS_Interval
  <2>2. QED
    BY <2>1, FS_Subset
<1>3. n \in T
  OBVIOUS
<1>4. f \in Injection(T, T)
  <2> HIDE DEF T
  <2>1. f \in [T -> T] /\ \A i, j \in T : f[i] = f[j] => i = j
    BY <1>1
  <2>2. QED
    BY <2>1 DEF Injection, IsInjective
<1> HIDE DEF f
<1>5. f \in Surjection(T, T)
  BY <1>2, <1>4, FS_Injection
<1>6. PICK m \in T : f[m] = n
  BY <1>3, <1>5 DEF Surjection
<1>7. QED
  BY <1>1, <1>6 DEF f

\* A loop over n elements computes something: what it holds after each
\* (the same loops).
LEMMA LoopComputes ==
  ASSUME NEW V, NEW a, a \in V, NEW len \in Nat, NEW step, DOMAIN step = 1..len,
         \A k \in 1..len, x \in V : step[k][x] \in V
  PROVE  \E g : /\ g \in [0..len -> V] /\ g[0] = a
                /\ \A k \in 1..len : g[k] = step[k][g[k - 1]]
<1> DEFINE F(n, g) == /\ g \in [0..n -> V] /\ g[0] = a
                      /\ \A k \in 1..n : g[k] = step[k][g[k - 1]]
           S == {n \in Nat : n <= len => \E g : F(n, g)}
<1>1. 0 \in S
  <2>1. F(0, [k \in 0..0 |-> a])
    OBVIOUS
  <2> HIDE DEF F
  <2>2. QED
    BY <2>1
<1>2. ASSUME NEW n \in Nat, NEW g, F(n, g), n + 1 <= len
      PROVE  \E h : F(n + 1, h)
  <2>1. n \in 0..n /\ g[n] \in V /\ n + 1 \in 1..len
    BY <1>2
  <2>2. PICK last \in V : last = step[n + 1][g[n]]
    BY <2>1
  <2> DEFINE h == [k \in 0..n + 1 |-> IF k = n + 1 THEN last ELSE g[k]]
  <2>3. h \in [0..n + 1 -> V] /\ h[0] = a
    BY <1>2, <2>2
  <2>4. \A k \in 1..n + 1 : h[k] = step[k][h[k - 1]]
    <3> TAKE k \in 1..n + 1
    <3>1. CASE k = n + 1
      <4>1. h[k] = last /\ k - 1 = n /\ h[k - 1] = g[n]
        BY <3>1
      <4> HIDE DEF h
      <4>2. QED
        BY <2>2, <3>1, <4>1
    <3>2. CASE k # n + 1
      <4>1. k \in 1..n /\ h[k] = g[k] /\ h[k - 1] = g[k - 1]
        BY <3>2
      <4>2. QED
        BY <1>2, <4>1
    <3>3. QED
      BY <3>1, <3>2
  <2>5. QED
    BY <2>3, <2>4
<1> HIDE DEF F
<1>3. \A n \in Nat : n \in S => n + 1 \in S
  BY <1>2
<1>4. len \in S
  <2> HIDE DEF S
  <2>1. QED
    BY <1>1, <1>3, Iterations
<1>5. QED
  BY <1>4 DEF F

\* Two loops that start with the same and do the same hold the same
\* (principals_map.c:161-188).
LEMMA LoopsAgree ==
  ASSUME NEW len \in Nat, NEW c, NEW d, c[0] = d[0],
         \A n \in 1..len : c[n - 1] = d[n - 1] => c[n] = d[n]
  PROVE  \A n \in 0..len : c[n] = d[n]
<1> DEFINE S == {n \in Nat : n <= len => c[n] = d[n]}
<1>1. 0 \in S
  OBVIOUS
<1>2. \A n \in Nat : n \in S => n + 1 \in S
  <2> SUFFICES ASSUME NEW n \in Nat, n \in S, n + 1 <= len PROVE c[n + 1] = d[n + 1]
    OBVIOUS
  <2>1. n + 1 \in 1..len /\ (n + 1) - 1 = n /\ c[n] = d[n]
    OBVIOUS
  <2>2. QED
    BY <2>1
<1>3. Nat \subseteq S
  <2> HIDE DEF S
  <2>1. QED
    BY <1>1, <1>2, Iterations
<1>4. \A n \in 0..len : n \in S
  <2> HIDE DEF S
  <2>1. QED
    BY <1>3
<1>5. QED
  BY <1>4

-----------------------------------------------------------------------------
(* Counting.                                                               *)

\* How many of T are among the first n.
CountTo(T, n) == Cardinality(T \cap (1..n))

\* One more number adds one if it is counted, and never takes any away
\* (out->count++, out->skipped++, sshkey.c:247-271).
LEMMA Counting ==
  ASSUME NEW T
  PROVE  /\ CountTo(T, 0) = 0
         /\ \A n \in Nat : CountTo(T, n) \in Nat
         /\ \A n \in Nat \ {0} :
              CountTo(T, n) = IF n \in T THEN CountTo(T, n - 1) + 1 ELSE CountTo(T, n - 1)
         /\ \A m, n \in Nat : m <= n => CountTo(T, m) <= CountTo(T, n)
<1>1. \A n \in Nat : IsFiniteSet(T \cap (1..n))
  <2> TAKE n \in Nat
  <2>1. IsFiniteSet(1..n)
    BY FS_Interval
  <2>2. QED
    BY <2>1, FS_Subset
<1>2. T \cap (1..0) = {}
  OBVIOUS
<1>3. \A n \in Nat : CountTo(T, n) \in Nat
  BY <1>1, FS_CardinalityType DEF CountTo
<1>4. \A n \in Nat \ {0} :
        CountTo(T, n) = IF n \in T THEN CountTo(T, n - 1) + 1 ELSE CountTo(T, n - 1)
  <2> TAKE n \in Nat \ {0}
  <2>1. n - 1 \in Nat
    OBVIOUS
  <2>2. CASE n \in T
    <3>1. T \cap (1..n) = (T \cap (1..n - 1)) \cup {n} /\ n \notin T \cap (1..n - 1)
      BY <2>2
    <3>2. QED
      BY <1>1, <2>1, <2>2, <3>1, FS_AddElement DEF CountTo
  <2>3. CASE n \notin T
    <3>1. T \cap (1..n) = T \cap (1..n - 1)
      BY <2>3
    <3>2. QED
      BY <2>3, <3>1 DEF CountTo
  <2>4. QED
    BY <2>2, <2>3
<1>5. \A m, n \in Nat : m <= n => CountTo(T, m) <= CountTo(T, n)
  <2> SUFFICES ASSUME NEW m \in Nat, NEW n \in Nat, m <= n PROVE CountTo(T, m) <= CountTo(T, n)
    OBVIOUS
  <2>1. T \cap (1..m) \subseteq T \cap (1..n)
    OBVIOUS
  <2>2. QED
    BY <1>1, <2>1, FS_Subset DEF CountTo
<1>6. QED
  BY <1>2, <1>3, <1>4, <1>5, FS_EmptySet DEF CountTo

-----------------------------------------------------------------------------
(* Lists.                                                                  *)

\* A list that is not empty is a shorter one and one more element.
LEMMA LastElement ==
  ASSUME NEW R, NEW s \in Seq(R), s # <<>>
  PROVE  /\ SubSeq(s, 1, Len(s) - 1) \in Seq(R) /\ s[Len(s)] \in R
         /\ Len(SubSeq(s, 1, Len(s) - 1)) = Len(s) - 1
         /\ s = Append(SubSeq(s, 1, Len(s) - 1), s[Len(s)])
<1> DEFINE n == Len(s)
           t == SubSeq(s, 1, n - 1)
<1>1. n \in Nat \ {0} /\ \A i \in 1..n : s[i] \in R
  BY EmptySeq, ElementOfSeq
<1>2. t \in Seq(R) /\ Len(t) = n - 1 /\ \A i \in 1..n - 1 : t[i] = s[i]
  <2>1. \A i \in 1..n - 1 : s[i] \in R
    BY <1>1
  <2>2. 1 \in Int /\ n - 1 \in Int
    BY <1>1
  <2>3. /\ t \in Seq(R) /\ Len(t) = IF 1 <= n - 1 THEN n - 1 - 1 + 1 ELSE 0
        /\ \A i \in 1..n - 1 - 1 + 1 : t[i] = s[1 + i - 1]
    BY <2>1, <2>2, SubSeqProperties
  <2> HIDE DEF t
  <2> HIDE DEF n
  <2>4. Len(t) = n - 1
    BY <1>1, <2>3
  <2>5. ASSUME NEW i \in 1..n - 1 PROVE t[i] = s[i]
    <3>1. i \in 1..n - 1 - 1 + 1 /\ 1 + i - 1 = i
      BY <1>1
    <3>2. QED
      BY <2>3, <3>1
  <2>6. QED
    BY <2>3, <2>4, <2>5
<1> HIDE DEF t
<1>3. /\ Append(t, s[n]) \in Seq(R) /\ Len(Append(t, s[n])) = n
      /\ \A i \in 1..n : Append(t, s[n])[i] = s[i]
  BY <1>1, <1>2, AppendProperties
<1>4. s = Append(t, s[n])
  BY <1>3, SeqEqual
<1>5. QED
  BY <1>1, <1>2, <1>4 DEF t

\* Induction over lists, one element after the other.
LEMMA ListInduction ==
  ASSUME NEW R, NEW T, <<>> \in T,
         \A s \in Seq(R), e \in R : s \in T => Append(s, e) \in T
  PROVE  Seq(R) \subseteq T
<1> DEFINE S == {n \in Nat : \A s \in Seq(R) : Len(s) = n => s \in T}
<1>1. 0 \in S
  BY EmptySeq
<1>2. \A n \in Nat : n \in S => n + 1 \in S
  <2> SUFFICES ASSUME NEW n \in Nat, n \in S, NEW s \in Seq(R), Len(s) = n + 1
               PROVE  s \in T
    OBVIOUS
  <2>1. s # <<>>
    BY EmptySeq
  <2>2. /\ SubSeq(s, 1, Len(s) - 1) \in Seq(R) /\ s[Len(s)] \in R
        /\ Len(SubSeq(s, 1, Len(s) - 1)) = n
        /\ s = Append(SubSeq(s, 1, Len(s) - 1), s[Len(s)])
    BY <2>1, LastElement
  <2>3. SubSeq(s, 1, Len(s) - 1) \in T
    BY <2>2
  <2>4. QED
    BY <2>2, <2>3
<1> HIDE DEF S
<1>3. Nat \subseteq S
  BY <1>1, <1>2, Iterations
<1>4. QED
  BY <1>3, LenProperties DEF S

\* A function on the numbers to n is a list of n (a C array of n entries).
LEMMA FunctionIsList ==
  ASSUME NEW S, NEW n \in Nat, NEW s, s \in [1..n -> S]
  PROVE  s \in Seq(S) /\ Len(s) = n
<1>1. s \in Seq(S)
  BY SeqDef
<1>2. Len(s) \in Nat /\ DOMAIN s = 1..Len(s) /\ DOMAIN s = 1..n
  BY <1>1, LenProperties
<1>3. Len(s) = n
  BY <1>2
<1>4. QED
  BY <1>1, <1>3

\* FlattenSeq, one list after the other (the lists of the lines, one after the
\* other: principals_map.c:133-190, 326-331).
LEMMA FlattenLoop ==
  ASSUME NEW R, NEW s
  PROVE  s \in Seq(Seq(R)) =>
           \E all : /\ all \in [0..Len(s) -> Seq(R)] /\ all[0] = <<>>
                    /\ \A n \in 1..Len(s) : all[n] = all[n - 1] \o s[n]
                    /\ FlattenSeq(s) = all[Len(s)]
<1>0. HAVE s \in Seq(Seq(R))
<1> DEFINE V == Seq(R)
           len == Len(s)
           step == [n \in 1..len |-> [q \in V |-> q \o s[n]]]
           Is(all) == all = [n \in 1..len |-> IF n = 1 THEN s[n] ELSE all[n - 1] \o s[n]]
           c == CHOOSE all : Is(all)
<1>1. len \in Nat /\ \A n \in 1..len : s[n] \in Seq(R)
  BY <1>0, LenProperties, ElementOfSeq
<1>2. \A n \in 1..len, q \in V : q \o s[n] \in V
  BY <1>1, ConcatProperties
<1>3. len # 0 => FlattenSeq(s) = c[len]
  BY <1>1 DEF FlattenSeq
<1>4. len = 0 => FlattenSeq(s) = <<>>
  <2>1. len = 0 => s = <<>>
    BY <1>0, EmptySeq
  <2>2. QED
    BY <1>1, <2>1 DEF FlattenSeq
<1>5. <<>> \in V
  OBVIOUS
<1>6. \A q \in V : <<>> \o q = q
  BY ConcatEmptySeq
<1>7. \A n \in 1..len : s[n] \in V
  BY <1>1
<1>8. len \in Nat
  BY <1>1
<1> HIDE DEF V, c, len
<1>9. DOMAIN step = 1..len /\ \A n \in 1..len, q \in V : step[n][q] \in V
  BY <1>2
<1>10. PICK g : /\ g \in [0..len -> V] /\ g[0] = <<>>
                /\ \A n \in 1..len : g[n] = step[n][g[n - 1]]
  <2> DEFINE none == <<>>
  <2> HIDE DEF step, Is, none
  <2>1. none \in V
    BY <1>5 DEF none
  <2>2. \E g : /\ g \in [0..len -> V] /\ g[0] = none
               /\ \A n \in 1..len : g[n] = step[n][g[n - 1]]
    BY <1>8, <1>9, <2>1, LoopComputes
  <2>3. QED
    BY <2>2 DEF none
<1>11. \A n \in 1..len : g[n] = g[n - 1] \o s[n]
  <2> TAKE n \in 1..len
  <2>1. g[n - 1] \in V
    BY <1>8, <1>10
  <2>2. QED
    BY <1>10, <2>1
<1> HIDE DEF step
<1> DEFINE h == [n \in 1..len |-> g[n]]
<1>12. Is(h)
  <2>1. \A n \in 1..len : h[n] = IF n = 1 THEN s[n] ELSE h[n - 1] \o s[n]
    <3> TAKE n \in 1..len
    <3>1. CASE n = 1
      <4>1. h[n] = g[n] /\ n - 1 = 0
        BY <3>1
      <4> HIDE DEF h
      <4>2. QED
        BY <1>6, <1>7, <1>10, <1>11, <3>1, <4>1
    <3>2. CASE n # 1
      <4>1. h[n] = g[n] /\ h[n - 1] = g[n - 1]
        BY <1>8, <3>2
      <4>2. QED
        BY <1>11, <3>2, <4>1
    <3>3. QED
      BY <3>1, <3>2
  <2>2. h = [n \in 1..len |-> h[n]]
    OBVIOUS
  <2> HIDE DEF h
  <2>3. QED
    BY <2>1, <2>2
<1> HIDE DEF h
<1>13. Is(c)
  <2> HIDE DEF Is
  <2>1. QED
    BY <1>12 DEF c
<1> DEFINE d == [n \in 0..len |-> IF n = 0 THEN <<>> ELSE c[n]]
<1>14. \A n \in 0..len : g[n] = d[n]
  <2>1. g[0] = d[0]
    BY <1>8, <1>10
  <2>2. \A n \in 1..len : g[n - 1] = d[n - 1] => g[n] = d[n]
    <3> TAKE n \in 1..len
    <3>1. d[n] = IF n = 1 THEN s[n] ELSE c[n - 1] \o s[n]
      <4>1. c[n] = IF n = 1 THEN s[n] ELSE c[n - 1] \o s[n]
        BY <1>13
      <4>2. QED
        BY <1>8, <4>1
    <3>2. CASE n = 1
      <4>0. n - 1 = 0
        BY <3>2
      <4>1. g[n] = <<>> \o s[n]
        BY <1>10, <1>11, <4>0
      <4>2. QED
        BY <1>6, <1>7, <3>1, <3>2, <4>1
    <3>3. CASE n # 1
      <4>1. d[n - 1] = c[n - 1]
        BY <1>8, <3>3
      <4> HIDE DEF d
      <4>2. QED
        BY <1>11, <3>1, <3>3, <4>1
    <3>4. QED
      BY <3>2, <3>3
  <2> HIDE DEF d
  <2>3. QED
    BY <1>8, <2>1, <2>2, LoopsAgree
<1>15. FlattenSeq(s) = g[len]
  <2>1. g[len] = d[len]
    BY <1>8, <1>14
  <2>2. QED
    BY <1>3, <1>4, <1>8, <2>1
<1>16. QED
  BY <1>10, <1>11, <1>15 DEF V, len

\* One list more comes after what the others make.
LEMMA FlattenMore ==
  ASSUME NEW R, NEW s, NEW x
  PROVE  s \in Seq(Seq(R)) /\ x \in Seq(R) =>
           /\ FlattenSeq(s) \in Seq(R)
           /\ FlattenSeq(Append(s, x)) = FlattenSeq(s) \o x
<1>0. HAVE s \in Seq(Seq(R)) /\ x \in Seq(R)
<1> DEFINE m == Len(s)
           t == Append(s, x)
<1>1. m \in Nat
  BY <1>0, LenProperties
<1>2. /\ t \in Seq(Seq(R)) /\ Len(t) = m + 1 /\ t[m + 1] = x
      /\ \A i \in 1..m : t[i] = s[i]
  BY <1>0, AppendProperties
<1> HIDE DEF t
<1>3. PICK c : /\ c \in [0..m -> Seq(R)] /\ c[0] = <<>>
               /\ \A i \in 1..m : c[i] = c[i - 1] \o s[i]
               /\ FlattenSeq(s) = c[m]
  BY <1>0, FlattenLoop
<1>4. PICK d : /\ d[0] = <<>>
               /\ \A i \in 1..m + 1 : d[i] = d[i - 1] \o t[i]
               /\ FlattenSeq(t) = d[m + 1]
  <2>1. \E d : /\ d \in [0..Len(t) -> Seq(R)] /\ d[0] = <<>>
               /\ \A i \in 1..Len(t) : d[i] = d[i - 1] \o t[i]
               /\ FlattenSeq(t) = d[Len(t)]
    BY <1>2, FlattenLoop
  <2>2. QED
    BY <1>2, <2>1
<1> HIDE DEF m
<1>5. \A i \in 1..m : c[i - 1] = d[i - 1] => c[i] = d[i]
  <2> TAKE i \in 1..m
  <2>1. i \in 1..m + 1
    BY <1>1
  <2>2. c[i] = c[i - 1] \o s[i] /\ d[i] = d[i - 1] \o t[i] /\ s[i] = t[i]
    BY <1>2, <1>3, <1>4, <2>1
  <2>3. QED
    BY <2>2
<1>6. c[0] = d[0]
  BY <1>3, <1>4
<1>7. \A i \in 0..m : c[i] = d[i]
  BY <1>1, <1>5, <1>6, LoopsAgree
<1>8. c[m] = d[m] /\ c[m] \in Seq(R)
  BY <1>1, <1>3, <1>7
<1>9. d[m + 1] = d[m] \o x
  <2>1. m + 1 \in 1..m + 1 /\ (m + 1) - 1 = m
    BY <1>1
  <2>2. QED
    BY <1>2, <1>4, <2>1
<1>10. QED
  BY <1>3, <1>4, <1>8, <1>9 DEF t
=============================================================================
