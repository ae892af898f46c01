------------------------- MODULE LocalLimiterProofs -------------------------
(***************************************************************************)
(* Proofs about LocalLimiter, for every set of callers, keys and entries,  *)
(* every Limit, Window, Stall and MaxTime.                                 *)
(***************************************************************************)
EXTENDS LocalLimiter, SequenceTheorems, FiniteSetTheorems,
        WellFoundedInduction, TLAPS

-----------------------------------------------------------------------------
(* The loop of Allow over any sequence.  Induction is by sets of numbers     *)
(* and of sequences, and thus by least elements.                             *)

(* A set of numbers with 0 and the successor of each of its own has them   *)
(* all: the least number outside it has no predecessor.                    *)
LEMMA Induction ==
    ASSUME NEW S \in SUBSET Nat, 0 \in S, \A n \in S : n + 1 \in S
    PROVE  S = Nat
<1> SUFFICES ASSUME Nat \ S # {} PROVE FALSE
  OBVIOUS
<1>1. PICK n \in Nat \ S : \A m \in Nat \ S : <<m, n>> \notin OpToRel(<, Nat)
  BY NatLessThanWellFounded, WFMin, Nat \ S \subseteq Nat
<1>2. n # 0 /\ n - 1 \in Nat
  OBVIOUS
<1>3. <<n - 1, n>> \in OpToRel(<, Nat)
  BY <1>2 DEF OpToRel
<1>4. n - 1 \in S
  BY <1>1, <1>2, <1>3
<1>5. n - 1 + 1 \in S
  BY <1>4
<1>6. n - 1 + 1 = n
  OBVIOUS
<1> QED
  BY <1>5, <1>6

(* A set of sequences with the empty one and every extension of its own    *)
(* by one element has them all.                                            *)
LEMMA SeqInduction ==
    ASSUME NEW T, NEW P \in SUBSET Seq(T), <<>> \in P,
           \A s \in P, x \in T : Append(s, x) \in P
    PROVE  P = Seq(T)
<1> DEFINE S == {n \in Nat : \A s \in Seq(T) : Len(s) = n => s \in P}
<1>1. 0 \in S
  BY EmptySeq
<1>2. ASSUME NEW n \in S PROVE n + 1 \in S
  <2> SUFFICES ASSUME NEW s \in Seq(T), Len(s) = n + 1 PROVE s \in P
    BY <1>2
  <2>1. PICK u \in Seq(T), x \in T : s = Append(u, x)
    <3>1. s # <<>>
      BY EmptySeq
    <3> QED
      BY <3>1, SequenceEmptyOrAppend
  <2>2. Len(u) = n
    BY <2>1, AppendProperties, LenProperties
  <2> QED
    BY <2>1, <2>2
<1>3. S = Nat
  <2> HIDE DEF S
  <2> QED
   BY <1>1, <1>2, Induction DEF S
<1> QED
  BY <1>3, LenProperties

(* v holds what the loop of Allow has kept after each of its first n rounds *)
(* over s, with cutoff t.                                                   *)
Loop(s, t, v, n) ==
  v = [i \in 0..n |-> IF i = 0 THEN <<>>
                      ELSE IF s[i] > t THEN Append(v[i - 1], s[i])
                      ELSE v[i - 1]]

(* The loop runs to its end on every sequence. *)
LEMMA LoopRuns ==
    ASSUME NEW s, NEW t, NEW n \in Nat
    PROVE  \E v : Loop(s, t, v, n)
<1> DEFINE S == {m \in Nat : \E v : Loop(s, t, v, m)}
<1>1. 0 \in S
  <2> DEFINE v == [i \in 0..0 |-> <<>>]
  <2>1. Loop(s, t, v, 0)
    BY DEF Loop
  <2> QED
    BY <2>1
<1>2. ASSUME NEW m \in S PROVE m + 1 \in S
  <2> PICK v : Loop(s, t, v, m)
    OBVIOUS
  <2> DEFINE next == IF s[m + 1] > t THEN Append(v[m], s[m + 1]) ELSE v[m]
             w == [i \in 0..(m + 1) |-> IF i = m + 1 THEN next ELSE v[i]]
  <2>1. ASSUME NEW i \in 0..(m + 1)
        PROVE  w[i] = IF i = 0 THEN <<>>
                      ELSE IF s[i] > t THEN Append(w[i - 1], s[i])
                      ELSE w[i - 1]
    <3>1. CASE i = m + 1
      BY <3>1 DEF Loop
    <3>2. CASE i # m + 1
      <4>1. i \in 0..m /\ i # m + 1 /\ (i # 0 => i - 1 \in 0..m /\ i - 1 # m + 1)
        BY <3>2
      <4>2. w[i] = v[i] /\ (i # 0 => w[i - 1] = v[i - 1])
        BY <4>1
      <4>3. v[i] = IF i = 0 THEN <<>>
                   ELSE IF s[i] > t THEN Append(v[i - 1], s[i])
                   ELSE v[i - 1]
        BY <4>1 DEF Loop
      <4> HIDE DEF w
      <4> QED
        BY <4>2, <4>3
    <3> QED
      BY <3>1, <3>2
  <2>2. Loop(s, t, w, m + 1)
    <3> HIDE DEF next
    <3>1. w = [i \in 0..(m + 1) |-> w[i]]
      OBVIOUS
    <3> HIDE DEF w
    <3> QED
      BY <2>1, <3>1 DEF Loop
  <2> QED
    BY <2>2
<1>3. S = Nat
  <2> HIDE DEF S
  <2> QED
    BY <1>1, <1>2, Induction DEF S
<1> QED
  BY <1>3

(* Before its first round the loop has kept nothing. *)
LEMMA LoopFirst ==
    ASSUME NEW s, NEW t, NEW n \in Nat, NEW v, Loop(s, t, v, n)
    PROVE  v[0] = <<>>
BY DEF Loop

(* A round keeps the next element or leaves it out. *)
LEMMA LoopStep ==
    ASSUME NEW s, NEW t, NEW n \in Nat, NEW v, Loop(s, t, v, n),
           NEW i \in 0..n, i + 1 \in 0..n
    PROVE  v[i + 1] = IF s[i + 1] > t THEN Append(v[i], s[i + 1]) ELSE v[i]
<1>1. \A j \in 0..n : v[j] = IF j = 0 THEN <<>>
                             ELSE IF s[j] > t THEN Append(v[j - 1], s[j])
                             ELSE v[j - 1]
  BY DEF Loop
<1>2. i + 1 # 0 /\ i + 1 - 1 = i
  OBVIOUS
<1> QED
  BY <1>1, <1>2

(* What the loop has kept after n rounds depends on the first n elements   *)
(* only.                                                                   *)
LEMMA LoopUnique ==
    ASSUME NEW s, NEW u, NEW t, NEW n \in Nat, NEW m \in Nat, NEW v, NEW w,
           Loop(s, t, v, n), Loop(u, t, w, m), \A i \in 1..n : s[i] = u[i], n <= m
    PROVE  v[n] = w[n]
<1> DEFINE S == {i \in Nat : i <= n => v[i] = w[i]}
<1>1. 0 \in S
  <2>1. v[0] = <<>>
    BY LoopFirst
  <2>2. w[0] = <<>>
    BY LoopFirst
  <2> QED
    BY <2>1, <2>2
<1>2. ASSUME NEW i \in S PROVE i + 1 \in S
  <2> SUFFICES ASSUME i + 1 <= n PROVE v[i + 1] = w[i + 1]
    OBVIOUS
  <2>1. /\ i \in 0..n /\ i + 1 \in 0..n /\ i \in 0..m /\ i + 1 \in 0..m
        /\ v[i] = w[i] /\ s[i + 1] = u[i + 1]
    BY <1>2
  <2> HIDE DEF S
  <2>2. v[i + 1] = IF s[i + 1] > t THEN Append(v[i], s[i + 1]) ELSE v[i]
    <3>1. Loop(s, t, v, n) /\ i \in 0..n /\ i + 1 \in 0..n /\ n \in Nat
      BY <2>1
    <3> QED
      BY ONLY <3>1, LoopStep
  <2>3. w[i + 1] = IF u[i + 1] > t THEN Append(w[i], u[i + 1]) ELSE w[i]
    BY <2>1, LoopStep
  <2> QED
    BY <2>1, <2>2, <2>3
<1>3. S = Nat
  <2> HIDE DEF S
  <2> QED
    BY <1>1, <1>2, Induction DEF S
<1> QED
  BY <1>3

(* After is what a run of the loop has kept at its end. *)
LEMMA AfterLoop ==
    ASSUME NEW T, NEW s \in Seq(T), NEW t
    PROVE  \E v : Loop(s, t, v, Len(s)) /\ After(s, t) = v[Len(s)]
<1> DEFINE L(v) == v = [i \in 0..Len(s) |-> IF i = 0 THEN <<>>
                      ELSE IF s[i] > t THEN Append(v[i - 1], s[i])
                      ELSE v[i - 1]]
<1>1. \E v : L(v)
  <2>1. \E v : Loop(s, t, v, Len(s))
    BY LoopRuns, LenProperties
  <2> QED
    BY <2>1 DEF Loop
<1>2. L(CHOOSE v : L(v))
  <2> HIDE DEF L
  <2> QED
  BY <1>1
<1> QED
  BY <1>2 DEF After, Loop

(* There is nothing after a time in the empty sequence. *)
LEMMA AfterEmpty == ASSUME NEW t PROVE After(<<>>, t) = <<>>
<1>1. <<>> \in Seq(Int) /\ Len(<<>>) = 0
  BY EmptySeq
<1>2. PICK v : Loop(<<>>, t, v, 0) /\ After(<<>>, t) = v[0]
  BY <1>1, AfterLoop
<1>3. v[0] = <<>>
  BY <1>2 DEF Loop
<1> QED
  BY <1>2, <1>3

(* After takes the sequence element by element: the equation that the      *)
(* later lemmas induct with.                                               *)
LEMMA AfterAppend ==
    ASSUME NEW s \in Seq(Int), NEW x \in Int, NEW t
    PROVE  After(Append(s, x), t) = IF x > t THEN Append(After(s, t), x) ELSE After(s, t)
<1> DEFINE u == Append(s, x)
           n == Len(s)
<1>1. /\ u \in Seq(Int) /\ Len(u) = n + 1 /\ u[n + 1] = x /\ n \in Nat
      /\ \A i \in 1..n : s[i] = u[i]
  BY AppendProperties, LenProperties
<1> HIDE DEF u, n
<1>2. PICK v : Loop(s, t, v, n) /\ After(s, t) = v[n]
  BY AfterLoop DEF n
<1>3. PICK w : Loop(u, t, w, n + 1) /\ After(u, t) = w[n + 1]
  BY <1>1, AfterLoop
<1>4. v[n] = w[n]
  BY <1>1, <1>2, <1>3, LoopUnique
<1>5. w[n + 1] = IF u[n + 1] > t THEN Append(w[n], u[n + 1]) ELSE w[n]
  <2>1. n + 1 \in Nat /\ n \in 0..(n + 1) /\ n + 1 \in 0..(n + 1) /\ Loop(u, t, w, n + 1)
    BY <1>1, <1>3
  <2> QED
    BY <2>1, LoopStep
<1> QED
  BY <1>1, <1>2, <1>3, <1>4, <1>5 DEF u

(* What is after a time are elements of the sequence. *)
LEMMA AfterType ==
    ASSUME NEW T \in SUBSET Int, NEW s \in Seq(T), NEW t \in Int
    PROVE  After(s, t) \in Seq(T)
<1> DEFINE P == {u \in Seq(T) : After(u, t) \in Seq(T)}
<1>1. <<>> \in P
  BY AfterEmpty, EmptySeq
<1>2. ASSUME NEW u \in P, NEW x \in T PROVE Append(u, x) \in P
  <2>1. u \in Seq(Int) /\ x \in Int
    BY SeqMonotonic
  <2>2. Append(u, x) \in Seq(T) /\ Append(After(u, t), x) \in Seq(T)
    BY AppendProperties
  <2>3. After(Append(u, x), t) \in Seq(T)
    BY <2>1, <2>2, AfterAppend
  <2> QED
    BY <2>2, <2>3
<1>3. P = Seq(T)
  <2> HIDE DEF P
  <2>1. P \in SUBSET Seq(T)
    BY DEF P
  <2> QED
    BY <1>1, <1>2, <2>1, SeqInduction
<1> QED
  BY <1>3

(* Each element of a comes from s, is after t, and keeps its place. *)
Traces(s, a, t, h) ==
    \A j \in 1..Len(a) :
        /\ h[j] \in 1..Len(s)
        /\ a[j] = s[h[j]]
        /\ a[j] > t
        /\ \A l \in 1..(j - 1) : h[l] < h[j]

(* Each element after a time can be traced to its place in the sequence,   *)
(* and the places are in order.                                            *)
LEMMA AfterTraces ==
    ASSUME NEW s \in Seq(Int), NEW t \in Int
    PROVE  \E h : Traces(s, After(s, t), t, h)
<1> DEFINE P == {u \in Seq(Int) : \E h : Traces(u, After(u, t), t, h)}
<1>1. <<>> \in P
  <2>1. Len(<<>>) = 0 /\ <<>> \in Seq(Int)
    BY EmptySeq
  <2>2. Traces(<<>>, <<>>, t, {})
    BY <2>1 DEF Traces
  <2>3. After(<<>>, t) = <<>>
    BY AfterEmpty
  <2> QED
    BY <2>1, <2>2, <2>3
<1>2. ASSUME NEW u \in P, NEW x \in Int PROVE Append(u, x) \in P
  <2> DEFINE v == Append(u, x)
             a == After(u, t)
             b == After(v, t)
  <2>1. PICK h : Traces(u, a, t, h)
    OBVIOUS
  <2>2. a \in Seq(Int) /\ b = IF x > t THEN Append(a, x) ELSE a
    BY AfterType, AfterAppend
  <2>3. /\ v \in Seq(Int) /\ Len(v) = Len(u) + 1 /\ v[Len(u) + 1] = x
        /\ \A i \in 1..Len(u) : v[i] = u[i]
        /\ Len(u) \in Nat /\ Len(a) \in Nat
    BY <2>2, AppendProperties, LenProperties
  <2> HIDE DEF v, a, b, P
  <2>4. CASE x > t
    <3> DEFINE g == [j \in 1..(Len(a) + 1) |->
                       IF j = Len(a) + 1 THEN Len(u) + 1 ELSE h[j]]
    <3>1. /\ Len(b) = Len(a) + 1 /\ b[Len(a) + 1] = x
          /\ \A j \in 1..Len(a) : b[j] = a[j]
      BY <2>2, <2>4, AppendProperties
    <3>2. g[Len(a) + 1] = Len(u) + 1 /\ \A j \in 1..Len(a) : g[j] = h[j]
      BY <2>3
    <3> HIDE DEF g
    <3>3. ASSUME NEW j \in 1..Len(b)
          PROVE  /\ g[j] \in 1..Len(v)
                 /\ b[j] = v[g[j]]
                 /\ b[j] > t
                 /\ \A l \in 1..(j - 1) : g[l] < g[j]
      <4>1. CASE j = Len(a) + 1
        <5>1. ASSUME NEW l \in 1..(j - 1) PROVE g[l] < g[j]
          <6>1. l \in 1..Len(a)
            BY <2>3, <4>1
          <6>2. h[l] \in 1..Len(u) /\ g[l] = h[l]
            BY <2>1, <3>2, <6>1 DEF Traces
          <6> QED
            BY <2>3, <3>2, <4>1, <6>2
        <5>2. g[j] = Len(u) + 1 /\ b[j] = x
          BY <3>1, <3>2, <4>1
        <5> QED
          BY <2>3, <2>4, <5>1, <5>2
      <4>2. CASE j \in 1..Len(a)
        <5>1. /\ h[j] \in 1..Len(u) /\ a[j] = u[h[j]] /\ a[j] > t
              /\ \A l \in 1..(j - 1) : h[l] < h[j]
          BY <2>1, <4>2 DEF Traces
        <5>2. g[j] = h[j] /\ b[j] = a[j] /\ v[h[j]] = u[h[j]]
          BY <2>3, <3>1, <3>2, <4>2, <5>1
        <5>3. ASSUME NEW l \in 1..(j - 1) PROVE g[l] < g[j]
          <6>1. l \in 1..Len(a)
            BY <2>3, <4>2
          <6>2. g[l] = h[l]
            BY <3>2, <6>1
          <6> QED
            BY <5>1, <5>2, <6>2
        <5>4. h[j] \in 1..Len(v)
          BY <2>3, <5>1
        <5> QED
          BY <5>1, <5>2, <5>3, <5>4
      <4> QED
        BY <2>3, <3>1, <4>1, <4>2
    <3>4. Traces(v, b, t, g)
      BY <3>3 DEF Traces
    <3> QED
      BY <2>3, <3>4 DEF b, v, P
  <2>5. CASE ~(x > t)
    <3>1. b = a
      BY <2>2, <2>5
    <3>2. ASSUME NEW j \in 1..Len(a)
          PROVE  /\ h[j] \in 1..Len(v) /\ a[j] = v[h[j]] /\ a[j] > t
                 /\ \A l \in 1..(j - 1) : h[l] < h[j]
      <4>1. /\ h[j] \in 1..Len(u) /\ a[j] = u[h[j]] /\ a[j] > t
            /\ \A l \in 1..(j - 1) : h[l] < h[j]
        BY <2>1 DEF Traces
      <4>2. v[h[j]] = u[h[j]] /\ h[j] \in 1..Len(v)
        BY <2>3, <4>1
      <4> QED
        BY <4>1, <4>2
    <3>3. Traces(v, b, t, h)
      BY <3>1, <3>2 DEF Traces
    <3> QED
      BY <2>3, <3>3 DEF b, v, P
  <2> QED
    BY <2>4, <2>5
<1>3. P = Seq(Int)
  <2> HIDE DEF P
  <2>1. P \in SUBSET Seq(Int)
    BY DEF P
  <2> QED
    BY <1>1, <1>2, <2>1, SeqInduction
<1> QED
  BY <1>3

(* A second, later cutoff is all that counts. *)
LEMMA AfterAfter ==
    ASSUME NEW s \in Seq(Int), NEW a \in Int, NEW b \in Int, a <= b
    PROVE  After(After(s, a), b) = After(s, b)
<1> DEFINE P == {u \in Seq(Int) : After(After(u, a), b) = After(u, b)}
<1>1. <<>> \in P
  BY AfterEmpty, EmptySeq
<1>2. ASSUME NEW u \in P, NEW x \in Int PROVE Append(u, x) \in P
  <2>1. After(u, a) \in Seq(Int) /\ Append(u, x) \in Seq(Int)
    BY AfterType, AppendProperties
  <2>2. After(Append(u, x), b) = IF x > b THEN Append(After(u, b), x) ELSE After(u, b)
    BY AfterAppend
  <2>3. After(Append(u, x), a) = IF x > a THEN Append(After(u, a), x) ELSE After(u, a)
    BY AfterAppend
  <2>4. After(Append(After(u, a), x), b) =
            IF x > b THEN Append(After(After(u, a), b), x) ELSE After(After(u, a), b)
    BY <2>1, AfterAppend
  <2>5. After(After(u, a), b) = After(u, b)
    OBVIOUS
  <2> HIDE DEF P
  <2>6. After(After(Append(u, x), a), b) = After(Append(u, x), b)
    <3>1. CASE x > a
      BY <2>2, <2>3, <2>4, <2>5, <3>1
    <3>2. CASE ~(x > a)
      BY <2>2, <2>3, <2>5, <3>2
    <3> QED
      BY <3>1, <3>2
  <2> QED
    BY <2>1, <2>6 DEF P
<1>3. P = Seq(Int)
  <2> HIDE DEF P
  <2>1. P \in SUBSET Seq(Int)
    BY DEF P
  <2> QED
    BY <1>1, <1>2, <2>1, SeqInduction
<1> QED
  BY <1>3

Places(s, t) == {i \in 1..Len(s) : s[i] > t}

(* After(s, t) is as long as s has elements after t. *)
LEMMA AfterCounts ==
    ASSUME NEW s \in Seq(Int), NEW t \in Int
    PROVE  IsFiniteSet(Places(s, t)) /\ Cardinality(Places(s, t)) = Len(After(s, t))
<1> DEFINE P == {u \in Seq(Int) : /\ IsFiniteSet(Places(u, t))
                                  /\ Cardinality(Places(u, t)) = Len(After(u, t))}
<1>1. <<>> \in P
  <2>1. Len(<<>>) = 0 /\ <<>> \in Seq(Int)
    BY EmptySeq
  <2>2. Places(<<>>, t) = {}
    BY <2>1 DEF Places
  <2> QED
    BY <2>1, <2>2, AfterEmpty, FS_EmptySet
<1>2. ASSUME NEW u \in P, NEW x \in Int PROVE Append(u, x) \in P
  <2> DEFINE v == Append(u, x)
             n == Len(u)
  <2>1. /\ v \in Seq(Int) /\ Len(v) = n + 1 /\ v[n + 1] = x
        /\ \A i \in 1..n : v[i] = u[i]
        /\ n \in Nat
    BY AppendProperties, LenProperties
  <2>2. /\ IsFiniteSet(Places(u, t)) /\ Cardinality(Places(u, t)) = Len(After(u, t))
        /\ After(u, t) \in Seq(Int)
        /\ After(v, t) = IF x > t THEN Append(After(u, t), x) ELSE After(u, t)
    BY AfterType, AfterAppend
  <2> HIDE DEF v, n, P
  <2>3. Places(u, t) = {i \in 1..n : u[i] > t} /\ Places(v, t) = {i \in 1..(n + 1) : v[i] > t}
    BY <2>1 DEF Places, n
  <2>4. n + 1 \notin Places(u, t)
    BY <2>1, <2>3
  <2>5. CASE x > t
    <3>1. Len(After(v, t)) = Len(After(u, t)) + 1
      BY <2>2, <2>5, AppendProperties
    <3>2. Places(v, t) = Places(u, t) \cup {n + 1}
      BY <2>1, <2>3, <2>5
    <3>3. /\ IsFiniteSet(Places(v, t))
          /\ Cardinality(Places(v, t)) = Cardinality(Places(u, t)) + 1
      BY <2>2, <2>4, <3>2, FS_AddElement
    <3> QED
      BY <2>1, <2>2, <3>1, <3>3 DEF v, P
  <2>6. CASE ~(x > t)
    <3>1. Places(v, t) = Places(u, t)
      BY <2>1, <2>3, <2>6
    <3> QED
      BY <2>1, <2>2, <2>6, <3>1 DEF v, P
  <2> QED
    BY <2>5, <2>6
<1>3. P = Seq(Int)
  <2> HIDE DEF P
  <2>1. P \in SUBSET Seq(Int)
    BY DEF P
  <2> QED
    BY <1>1, <1>2, <2>1, SeqInduction
<1> QED
  BY <1>3

(* A later cutoff keeps no more, and the element at the cutoff is left out. *)
LEMMA AfterLengths ==
    ASSUME NEW s \in Seq(Int), NEW t \in Int
    PROVE  /\ Len(After(s, t)) \in Nat
           /\ Len(After(s, t)) <= Len(s)
           /\ \A b \in Int : b >= t => Len(After(s, b)) <= Len(After(s, t))
           /\ \A i \in 1..Len(s) : s[i] = t => Len(After(s, t)) < Len(s)
<1>1. /\ Len(s) \in Nat /\ IsFiniteSet(1..Len(s)) /\ Cardinality(1..Len(s)) = Len(s)
      /\ \A i \in 1..Len(s) : s[i] \in Int
  <2>1. Len(s) \in Nat /\ \A i \in 1..Len(s) : s[i] \in Int
    BY LenProperties, ElementOfSeq
  <2>2. IsFiniteSet(1..Len(s)) /\ Cardinality(1..Len(s)) = IF 1 > Len(s) THEN 0 ELSE Len(s) - 1 + 1
    BY <2>1, FS_Interval
  <2> QED
    BY <2>1, <2>2
<1>2. Len(After(s, t)) \in Nat
  BY AfterType, LenProperties
<1>3. Len(After(s, t)) <= Len(s)
  <2>1. Places(s, t) \in SUBSET (1..Len(s))
    BY DEF Places
  <2>2. Cardinality(Places(s, t)) <= Len(s)
    BY <1>1, <2>1, FS_Subset
  <2> QED
    BY <2>2, AfterCounts
<1>4. ASSUME NEW b \in Int, b >= t PROVE Len(After(s, b)) <= Len(After(s, t))
  <2>1. Places(s, b) \in SUBSET Places(s, t)
    BY <1>1, <1>4 DEF Places
  <2>2. /\ IsFiniteSet(Places(s, t)) /\ Cardinality(Places(s, t)) = Len(After(s, t))
        /\ Cardinality(Places(s, b)) = Len(After(s, b))
    BY AfterCounts
  <2> QED
    BY <2>1, <2>2, FS_Subset
<1>5. ASSUME NEW i \in 1..Len(s), s[i] = t PROVE Len(After(s, t)) < Len(s)
  <2>1. Places(s, t) \in SUBSET (1..Len(s)) /\ Places(s, t) # 1..Len(s)
    BY <1>5 DEF Places
  <2>2. Cardinality(Places(s, t)) <= Len(s) /\ Cardinality(Places(s, t)) # Len(s)
    BY <1>1, <2>1, FS_Subset
  <2> QED
    BY <1>1, <1>2, <2>2, AfterCounts
<1> QED
  BY <1>2, <1>3, <1>4, <1>5

(* What is after a time stays, at some place. *)
LEMMA AfterKeeps ==
    ASSUME NEW s \in Seq(Int), NEW t \in Int, NEW i \in 1..Len(s), s[i] > t
    PROVE  \E j \in 1..Len(After(s, t)) : After(s, t)[j] = s[i]
<1> DEFINE Kept(u) == \A m \in 1..Len(u) : u[m] > t =>
                        \E j \in 1..Len(After(u, t)) : After(u, t)[j] = u[m]
           P == {u \in Seq(Int) : Kept(u)}
<1>1. <<>> \in P
  BY EmptySeq
<1>2. ASSUME NEW u \in P, NEW x \in Int PROVE Append(u, x) \in P
  <2> DEFINE v == Append(u, x)
             a == After(u, t)
             b == After(v, t)
  <2>1. a \in Seq(Int) /\ b = IF x > t THEN Append(a, x) ELSE a
    BY AfterType, AfterAppend
  <2>2. /\ v \in Seq(Int) /\ Len(v) = Len(u) + 1 /\ v[Len(u) + 1] = x
        /\ \A m \in 1..Len(u) : v[m] = u[m]
        /\ Len(u) \in Nat /\ Len(a) \in Nat
    BY <2>1, AppendProperties, LenProperties
  <2>3. \A m \in 1..Len(u) : u[m] > t => \E j \in 1..Len(a) : a[j] = u[m]
    OBVIOUS
  <2> HIDE DEF v, a, b, P
  <2>4. ASSUME NEW m \in 1..Len(v), v[m] > t
        PROVE  \E j \in 1..Len(b) : b[j] = v[m]
    <3>1. CASE x > t
      <4>1. /\ Len(b) = Len(a) + 1 /\ b[Len(a) + 1] = x
            /\ \A j \in 1..Len(a) : b[j] = a[j]
        BY <2>1, <3>1, AppendProperties
      <4>2. CASE m = Len(u) + 1
        BY <2>2, <4>1, <4>2
      <4>3. CASE m \in 1..Len(u)
        <5>1. PICK j \in 1..Len(a) : a[j] = u[m]
          BY <2>2, <2>3, <2>4, <4>3
        <5> QED
          BY <2>2, <4>1, <4>3, <5>1
      <4> QED
        BY <2>2, <4>2, <4>3
    <3>2. CASE ~(x > t)
      <4>1. m \in 1..Len(u)
        BY <2>2, <2>4, <3>2
      <4> QED
        BY <2>1, <2>2, <2>3, <2>4, <3>2, <4>1
    <3> QED
      BY <3>1, <3>2
  <2> QED
    BY <2>2, <2>4 DEF b, v, P
<1>3. P = Seq(Int)
  <2> HIDE DEF P
  <2>1. P \in SUBSET Seq(Int)
    BY DEF P
  <2> QED
    BY <1>1, <1>2, <2>1, SeqInduction
<1> QED
  BY <1>3

(* An element of s that is later than all before it. *)
Record(s, i) == \A l \in 1..(i - 1) : s[l] < s[i]

(* Whether an element is a record depends on those before it only. *)
LEMMA RecordKept ==
    ASSUME NEW s, NEW u, NEW n \in Nat, NEW i \in 1..n, Record(s, i),
           \A m \in 1..n : u[m] = s[m]
    PROVE  Record(u, i)
<1> SUFFICES ASSUME NEW l \in 1..(i - 1) PROVE u[l] < u[i]
  BY DEF Record
<1>1. l \in 1..n
  OBVIOUS
<1>2. u[l] = s[l] /\ u[i] = s[i] /\ s[l] < s[i]
  BY <1>1 DEF Record
<1> QED
  BY <1>2

(* A record among what is after a time is a record of the whole. *)
LEMMA AfterRecords ==
    ASSUME NEW s \in Seq(Int), NEW t \in Int,
           NEW k \in 1..Len(After(s, t)), Record(After(s, t), k)
    PROVE  \E i \in 1..Len(s) : s[i] = After(s, t)[k] /\ Record(s, i)
<1> DEFINE Sound(u) == \A j \in 1..Len(After(u, t)) : Record(After(u, t), j) =>
                         \E i \in 1..Len(u) : u[i] = After(u, t)[j] /\ Record(u, i)
           P == {u \in Seq(Int) : Sound(u)}
<1>1. <<>> \in P
  BY EmptySeq, AfterEmpty
<1>2. ASSUME NEW u \in P, NEW x \in Int PROVE Append(u, x) \in P
  <2> DEFINE v == Append(u, x)
             a == After(u, t)
             b == After(v, t)
  <2>1. a \in Seq(Int) /\ b = IF x > t THEN Append(a, x) ELSE a
    BY AfterType, AfterAppend
  <2>2. /\ v \in Seq(Int) /\ Len(v) = Len(u) + 1 /\ v[Len(u) + 1] = x
        /\ \A m \in 1..Len(u) : v[m] = u[m]
        /\ Len(u) \in Nat /\ Len(a) \in Nat
    BY <2>1, AppendProperties, LenProperties
  <2>3. \A j \in 1..Len(a) : Record(a, j) =>
            \E i \in 1..Len(u) : u[i] = a[j] /\ Record(u, i)
    OBVIOUS
  <2>4. \A m \in 1..Len(u) : u[m] > t => \E j \in 1..Len(a) : a[j] = u[m]
    BY AfterKeeps
  <2>5. \A m \in 1..Len(u) : u[m] \in Int
    BY ElementOfSeq
  <2> HIDE DEF v, a, b, P
  <2>6. ASSUME NEW i \in 1..Len(u), Record(u, i) PROVE Record(v, i)
    BY <2>2, <2>6, RecordKept
  <2>7. ASSUME NEW j \in 1..Len(a), Record(a, j)
        PROVE  \E i \in 1..Len(v) : v[i] = a[j] /\ Record(v, i)
    <3>1. PICK i \in 1..Len(u) : u[i] = a[j] /\ Record(u, i)
      BY <2>3, <2>7
    <3>2. i \in 1..Len(v) /\ v[i] = a[j] /\ Record(v, i)
      BY <2>2, <2>6, <3>1
    <3> QED
      BY <3>2
  <2>8. ASSUME NEW j \in 1..Len(b), Record(b, j)
        PROVE  \E i \in 1..Len(v) : v[i] = b[j] /\ Record(v, i)
    <3>1. CASE x > t
      <4>1. /\ Len(b) = Len(a) + 1 /\ b[Len(a) + 1] = x
            /\ \A l \in 1..Len(a) : b[l] = a[l]
        BY <2>1, <3>1, AppendProperties
      <4>2. CASE j = Len(a) + 1
        <5>1. ASSUME NEW m \in 1..Len(u) PROVE u[m] < x
          <6>1. CASE u[m] > t
            <7>1. PICK l \in 1..Len(a) : a[l] = u[m]
              BY <2>4, <6>1
            <7>2. b[l] < b[j]
              BY <2>2, <2>8, <4>2, <7>1 DEF Record
            <7> QED
              BY <4>1, <4>2, <7>1, <7>2
          <6>2. CASE ~(u[m] > t)
            BY <2>5, <3>1, <6>2
          <6> QED
            BY <6>1, <6>2
        <5>2. Record(v, Len(u) + 1) /\ Len(u) + 1 \in 1..Len(v)
          <6>1. ASSUME NEW l \in 1..((Len(u) + 1) - 1) PROVE v[l] < v[Len(u) + 1]
            <7>1. l \in 1..Len(u)
              BY <2>2
            <7>2. v[l] = u[l] /\ v[Len(u) + 1] = x /\ u[l] < x
              BY <2>2, <5>1, <7>1
            <7> QED
              BY <7>2
          <6> QED
            BY <2>2, <6>1 DEF Record
        <5> QED
          BY <2>2, <4>1, <4>2, <5>2
      <4>3. CASE j \in 1..Len(a)
        <5>1. Record(a, j)
          BY <2>2, <2>8, <4>1, <4>3, RecordKept
        <5> QED
          BY <2>7, <4>1, <4>3, <5>1
      <4> QED
        BY <2>2, <2>8, <4>1, <4>2, <4>3
    <3>2. CASE ~(x > t)
      BY <2>1, <2>7, <2>8, <3>2
    <3> QED
      BY <3>1, <3>2
  <2> QED
    BY <2>2, <2>8 DEF b, v, P
<1>3. P = Seq(Int)
  <2> HIDE DEF P
  <2>1. P \in SUBSET Seq(Int)
    BY DEF P
  <2> QED
    BY <1>1, <1>2, <2>1, SeqInduction
<1> QED
  BY <1>3

-----------------------------------------------------------------------------
(* One entry: its timestamps s, what it granted g, and the clock now *)

USE LimiterAssumption DEF LimiterAssumption

(* Requests are stamped before the lock: out of order, but by Stall at most. *)
Ordered(s, now) ==
    \A j \in 1..Len(s) :
        /\ s[j] <= now
        /\ \A i \in 1..(j - 1) : s[i] <= s[j] + Stall

(* After low, all that the entry granted recently is still in s. *)
Covers(s, g, low, now) ==
    /\ low <= now - Window
    /\ \A b \in Int : b >= low /\ b >= now - Window - Stall =>
                          After(s, b) = After(g, b)

(* No time in s is without an admission. *)
Backed(s, g, now) ==
    \A b \in Int : b >= now - Window - Stall =>
                       Len(After(s, b)) <= Len(After(g, b))

In(g, from, until) == {i \in DOMAIN g : from < g[i] /\ g[i] <= until}

Within(g) == \A t \in Time : Cardinality(In(g, t - (Window - Stall), t)) <= Limit

EntryInv(s, g, now) ==
    /\ s \in Seq(Time) /\ Len(s) <= Limit /\ g \in Seq(Time)
    /\ Ordered(s, now)
    /\ \E low \in Int : Covers(s, g, low, now)
    /\ Backed(s, g, now)
    /\ Within(g)

(* Times are numbers. *)
LEMMA TimeType == Time \in SUBSET Int /\ Time \in SUBSET Nat /\ Seq(Time) \in SUBSET Seq(Int)
<1>1. Time \in SUBSET Int /\ Time \in SUBSET Nat
  BY DEF Time
<1>2. \A s \in Seq(Time) : s \in Seq(Int)
  BY <1>1, SeqMonotonic
<1> QED
  BY <1>1, <1>2

(* The first element that is kept is one of s, and after t. *)
LEMMA AfterFirst ==
    ASSUME NEW s \in Seq(Int), NEW t \in Int, After(s, t) # <<>>
    PROVE  /\ After(s, t)[1] > t
           /\ \E i \in 1..Len(s) : s[i] = After(s, t)[1]
<1>1. PICK h : Traces(s, After(s, t), t, h)
  BY AfterTraces
<1>2. Len(After(s, t)) \in Nat \ {0}
  BY AfterType, EmptySeq
<1>3. 1 \in 1..Len(After(s, t))
  BY <1>2
<1> QED
  BY <1>1, <1>3 DEF Traces

(* An entry that has admitted nothing is within its limit. *)
LEMMA NoAdmissions == Within(<<>>)
<1>1. \A from, until : In(<<>>, from, until) = {}
  BY EmptySeq, LenProperties DEF In
<1>2. Cardinality({}) <= Limit
  BY FS_EmptySet
<1>3. \A t \in Time : Cardinality(In(<<>>, t - (Window - Stall), t)) <= Limit
  <2> TAKE t \in Time
  <2>1. In(<<>>, t - (Window - Stall), t) = {}
    BY <1>1
  <2> QED
    BY <1>2, <2>1
<1> QED
  BY <1>3 DEF Within

(* An entry starts empty. *)
LEMMA EntryEmpty ==
    ASSUME NEW now \in Time
    PROVE  EntryInv(<<>>, <<>>, now)
<1>1. <<>> \in Seq(Time) /\ Len(<<>>) = 0
  BY EmptySeq
<1>2. Ordered(<<>>, now)
  BY <1>1 DEF Ordered
<1>3. Covers(<<>>, <<>>, now - Window, now) /\ now - Window \in Int
  BY <1>1, TimeType DEF Covers
<1>4. Backed(<<>>, <<>>, now)
  BY <1>1, AfterEmpty DEF Backed
<1> QED
  BY <1>1, <1>2, <1>3, <1>4, NoAdmissions DEF EntryInv

(* A request that is denied leaves only what is in its window. *)
LEMMA EntryEvicts ==
    ASSUME NEW s, NEW g, NEW now \in Time, EntryInv(s, g, now),
           NEW n \in Time, n <= now
    PROVE  EntryInv(After(s, n - Window), g, now)
<1> DEFINE v == After(s, n - Window)
<1>1. s \in Seq(Int) /\ s \in Seq(Time) /\ n \in Int /\ now \in Int /\ n - Window \in Int
      /\ Len(s) \in Nat /\ \A i \in 1..Len(s) : s[i] \in Int
  BY TimeType, LenProperties, ElementOfSeq DEF EntryInv
<1>2. v \in Seq(Time) /\ Len(v) \in Nat /\ Len(v) <= Limit
  <2>1. v \in Seq(Time)
    BY <1>1, TimeType, AfterType
  <2>2. Len(v) \in Nat /\ Len(v) <= Len(s)
    BY <1>1, AfterLengths
  <2>3. Len(s) <= Limit
    BY DEF EntryInv
  <2> HIDE DEF v
  <2> QED
    BY <1>1, <2>1, <2>2, <2>3
<1>3. PICK h : Traces(s, v, n - Window, h)
  BY <1>1, AfterTraces
<1>4. PICK low \in Int : Covers(s, g, low, now)
  BY DEF EntryInv
<1>5. \A b \in Int : n - Window <= b => After(v, b) = After(s, b)
  BY <1>1, AfterAfter
<1> HIDE DEF v
<1>6. ASSUME NEW j \in 1..Len(v)
      PROVE  v[j] <= now /\ \A i \in 1..(j - 1) : v[i] <= v[j] + Stall
  <2>1. h[j] \in 1..Len(s) /\ v[j] = s[h[j]] /\ \A l \in 1..(j - 1) : h[l] < h[j]
    BY <1>3 DEF Traces
  <2>2. s[h[j]] <= now /\ \A i \in 1..(h[j] - 1) : s[i] <= s[h[j]] + Stall
    BY <2>1 DEF EntryInv, Ordered
  <2>3. ASSUME NEW i \in 1..(j - 1) PROVE v[i] <= v[j] + Stall
    <3>1. i \in 1..Len(v)
      BY <1>2
    <3>2. h[i] \in 1..Len(s) /\ v[i] = s[h[i]] /\ h[i] < h[j]
      BY <1>3, <2>1, <3>1 DEF Traces
    <3>3. h[i] \in 1..(h[j] - 1)
      BY <1>1, <2>1, <3>2
    <3> QED
      BY <2>1, <2>2, <3>2, <3>3
  <2> QED
    BY <2>1, <2>2, <2>3
<1>7. Ordered(v, now)
  BY <1>6 DEF Ordered
<1> DEFINE higher == IF n - Window > low THEN n - Window ELSE low
<1>8. Covers(v, g, higher, now) /\ higher \in Int
  <2>1. /\ higher \in Int /\ higher <= now - Window
        /\ higher >= low /\ higher >= n - Window
    BY <1>1, <1>4 DEF Covers
  <2> HIDE DEF higher
  <2>2. ASSUME NEW b \in Int, b >= higher, b >= now - Window - Stall
        PROVE  After(v, b) = After(g, b)
    <3>1. b >= low /\ n - Window <= b
      BY <1>1, <2>1, <2>2
    <3> QED
      BY <1>4, <1>5, <2>2, <3>1 DEF Covers
  <2> QED
    BY <2>1, <2>2 DEF Covers
<1> HIDE DEF higher
<1>9. ASSUME NEW b \in Int, b >= now - Window - Stall
      PROVE  Len(After(v, b)) <= Len(After(g, b))
  <2>1. Len(After(s, b)) <= Len(After(g, b))
    BY <1>9 DEF EntryInv, Backed
  <2>2. CASE n - Window <= b
    BY <1>5, <2>1, <2>2
  <2>3. CASE b <= n - Window
    <3>1. Len(After(v, b)) <= Len(v) /\ Len(After(v, b)) \in Nat
      BY <1>2, TimeType, AfterLengths
    <3>2. Len(v) <= Len(After(s, b)) /\ Len(After(s, b)) \in Nat
      BY <1>1, <2>3, AfterLengths DEF v
    <3>3. Len(After(g, b)) \in Nat
      BY TimeType, AfterLengths DEF EntryInv
    <3> QED
      BY <1>2, <2>1, <3>1, <3>2, <3>3
  <2> QED
    BY <1>1, <2>2, <2>3
<1>10. Backed(v, g, now)
  BY <1>9 DEF Backed
<1> QED
  BY <1>2, <1>7, <1>8, <1>10 DEF EntryInv, v

(* A request is admitted where fewer than Limit are in its window. *)
LEMMA EntryAdmits ==
    ASSUME NEW s, NEW g, NEW now \in Time, EntryInv(s, g, now),
           NEW n \in Time, now - Stall <= n, n <= now, Len(s) < Limit
    PROVE  EntryInv(Append(s, n), Append(g, n), now)
<1> DEFINE u == Append(s, n)
           w == Append(g, n)
<1>1. /\ s \in Seq(Int) /\ g \in Seq(Int) /\ s \in Seq(Time) /\ g \in Seq(Time)
      /\ n \in Int /\ now \in Int /\ now - Window \in Int
      /\ Len(s) \in Nat /\ \A i \in 1..Len(s) : s[i] \in Int
      /\ Len(g) \in Nat /\ \A i \in 1..Len(g) : g[i] \in Int
      /\ DOMAIN g = 1..Len(g)
  BY TimeType, LenProperties, ElementOfSeq DEF EntryInv
<1>2. /\ u \in Seq(Time) /\ Len(u) = Len(s) + 1 /\ u[Len(s) + 1] = n
      /\ \A i \in 1..Len(s) : u[i] = s[i]
  BY <1>1, AppendProperties
<1>3. /\ w \in Seq(Time) /\ Len(w) = Len(g) + 1 /\ w[Len(g) + 1] = n
      /\ \A i \in 1..Len(g) : w[i] = g[i]
      /\ DOMAIN w = 1..Len(w)
  BY <1>1, AppendProperties, LenProperties
<1>4. PICK low \in Int : Covers(s, g, low, now)
  BY DEF EntryInv
<1>5. \A b \in Int : /\ After(u, b) = IF n > b THEN Append(After(s, b), n) ELSE After(s, b)
                     /\ After(w, b) = IF n > b THEN Append(After(g, b), n) ELSE After(g, b)
  BY <1>1, AfterAppend
<1> HIDE DEF u, w
<1>6. Ordered(u, now)
  <2>1. ASSUME NEW j \in 1..Len(u)
        PROVE  u[j] <= now /\ \A i \in 1..(j - 1) : u[i] <= u[j] + Stall
    <3>1. CASE j \in 1..Len(s)
      <4>1. s[j] <= now /\ \A i \in 1..(j - 1) : s[i] <= s[j] + Stall
        BY <3>1 DEF EntryInv, Ordered
      <4>2. \A i \in 1..(j - 1) : i \in 1..Len(s)
        BY <1>1, <3>1
      <4> QED
        BY <1>2, <3>1, <4>1, <4>2
    <3>2. CASE j = Len(s) + 1
      <4>1. ASSUME NEW i \in 1..(j - 1) PROVE u[i] <= u[j] + Stall
        <5>1. i \in 1..Len(s)
          BY <1>1, <3>2
        <5>2. s[i] <= now
          BY <5>1 DEF EntryInv, Ordered
        <5> QED
          BY <1>1, <1>2, <3>2, <5>1, <5>2
      <4> QED
        BY <1>2, <3>2, <4>1
    <3> QED
      BY <1>1, <1>2, <3>1, <3>2
  <2> QED
    BY <2>1 DEF Ordered
<1>7. Covers(u, w, low, now)
  <2>1. ASSUME NEW b \in Int, b >= low, b >= now - Window - Stall
        PROVE  After(u, b) = After(w, b)
    <3>1. After(s, b) = After(g, b)
      BY <1>4, <2>1 DEF Covers
    <3> QED
      BY <1>5, <3>1
  <2> QED
    BY <1>4, <2>1 DEF Covers
<1>8. ASSUME NEW t \in Time
      PROVE  Cardinality(In(w, t - (Window - Stall), t)) <= Limit
  <2> DEFINE from == t - (Window - Stall)
  <2>1. t \in Int /\ from \in Int
    BY TimeType
  <2>2. Cardinality(In(g, from, t)) <= Limit
    BY DEF EntryInv, Within
  <2>3. CASE ~(from < n /\ n <= t)
    <3>1. In(w, from, t) = In(g, from, t)
      BY <1>1, <1>3, <2>3 DEF In
    <3> QED
      BY <2>2, <3>1
  <2>4. CASE from < n /\ n <= t
    <3>1. In(w, from, t) = In(g, from, t) \cup {Len(g) + 1}
      BY <1>1, <1>3, <2>4 DEF In
    <3>2. from >= now - Window
      BY <1>1, <2>1, <2>4
    <3>3. In(g, from, t) \in SUBSET Places(g, now - Window)
      BY <1>1, <2>1, <3>2 DEF In, Places
    <3>4. After(g, now - Window) = After(s, now - Window)
      BY <1>1, <1>4 DEF Covers
    <3>5. Len(After(s, now - Window)) <= Len(s) /\ Len(After(s, now - Window)) \in Nat
      BY <1>1, AfterLengths
    <3>6. /\ IsFiniteSet(Places(g, now - Window))
          /\ Cardinality(Places(g, now - Window)) = Len(After(s, now - Window))
      BY <1>1, <3>4, AfterCounts
    <3>7. /\ IsFiniteSet(In(g, from, t))
          /\ Cardinality(In(g, from, t)) <= Len(After(s, now - Window))
      BY <3>3, <3>6, FS_Subset
    <3>8. Cardinality(In(g, from, t)) \in Nat
      BY <3>7, FS_CardinalityType
    <3>9. Cardinality(In(w, from, t)) <= Cardinality(In(g, from, t)) + 1
      <4> DEFINE A == In(g, from, t)
                 x == Len(g) + 1
      <4> HIDE DEF from
      <4>1. IsFiniteSet(A) /\ In(w, from, t) = A \cup {x} /\ Cardinality(A) \in Nat
        BY <3>1, <3>7, <3>8
      <4> HIDE DEF A, x
      <4>2. Cardinality(A \cup {x}) = IF x \in A THEN Cardinality(A) ELSE Cardinality(A) + 1
        BY <4>1, FS_AddElement
      <4>3. Cardinality(A \cup {x}) <= Cardinality(A) + 1
        BY <4>1, <4>2
      <4> QED
        BY <4>1, <4>3 DEF A
    <3>10. Cardinality(In(w, from, t)) \in Nat
      BY <3>1, <3>7, FS_AddElement, FS_CardinalityType
    <3> QED
      BY <1>1, <3>5, <3>7, <3>8, <3>9, <3>10
  <2> QED
    BY <2>3, <2>4
<1>9. Len(u) <= Limit
  BY <1>1, <1>2
<1>10. ASSUME NEW b \in Int, b >= now - Window - Stall
       PROVE  Len(After(u, b)) <= Len(After(w, b))
  <2>1. Len(After(s, b)) <= Len(After(g, b))
    BY <1>10 DEF EntryInv, Backed
  <2>2. After(s, b) \in Seq(Int) /\ After(g, b) \in Seq(Int)
    BY <1>1, AfterType
  <2>3. /\ Len(Append(After(s, b), n)) = Len(After(s, b)) + 1
        /\ Len(Append(After(g, b), n)) = Len(After(g, b)) + 1
        /\ Len(After(s, b)) \in Nat /\ Len(After(g, b)) \in Nat
    BY <1>1, <2>2, AppendProperties, LenProperties
  <2> QED
    BY <1>5, <2>1, <2>3
<1>11. Backed(u, w, now)
  BY <1>10 DEF Backed
<1> QED
  BY <1>2, <1>3, <1>4, <1>6, <1>7, <1>8, <1>9, <1>11 DEF EntryInv, Within, u, w

(* What has left every window is forgotten as time passes. *)
LEMMA EntryAges ==
    ASSUME NEW s, NEW g, NEW now \in Time, EntryInv(s, g, now)
    PROVE  EntryInv(s, After(g, now + 1 - Window - Stall), now + 1)
<1> DEFINE cut == now + 1 - Window - Stall
           a == After(g, cut)
<1>1. /\ s \in Seq(Int) /\ g \in Seq(Int) /\ g \in Seq(Time)
      /\ now \in Int /\ cut \in Int
      /\ Len(s) \in Nat /\ \A i \in 1..Len(s) : s[i] \in Int
      /\ Len(g) \in Nat /\ DOMAIN g = 1..Len(g)
  BY TimeType, LenProperties, ElementOfSeq DEF EntryInv
<1>2. a \in Seq(Time) /\ Len(a) \in Nat /\ DOMAIN a = 1..Len(a)
  BY <1>1, TimeType, AfterType, LenProperties
<1>3. PICK h : Traces(g, a, cut, h)
  BY <1>1, AfterTraces
<1>4. PICK low \in Int : Covers(s, g, low, now)
  BY DEF EntryInv
<1>5. \A b \in Int : cut <= b => After(a, b) = After(g, b)
  BY <1>1, AfterAfter
<1>6. Ordered(s, now + 1)
  BY <1>1 DEF EntryInv, Ordered
<1>7. Covers(s, a, low, now + 1)
  <2>1. ASSUME NEW b \in Int, b >= low, b >= now + 1 - Window - Stall
        PROVE  After(s, b) = After(a, b)
    <3>1. b >= now - Window - Stall
      BY <1>1, <2>1
    <3>2. After(s, b) = After(g, b)
      BY <1>4, <2>1, <3>1 DEF Covers
    <3> QED
      BY <1>5, <2>1, <3>2
  <2>2. low <= now + 1 - Window
    BY <1>1, <1>4 DEF Covers
  <2> HIDE DEF a, cut
  <2> DEFINE next == now + 1
  <2>4. \A b \in Int : b >= low /\ b >= next - Window - Stall =>
                          After(s, b) = After(a, b)
    <3>1. now + 1 - Window - Stall = next - Window - Stall
      BY <1>1
    <3> HIDE DEF next
    <3> QED
      BY <2>1, <3>1
  <2>5. low <= next - Window
    <3>1. now + 1 - Window = next - Window
      BY <1>1
    <3> HIDE DEF next
    <3> QED
      BY <2>2, <3>1
  <2> HIDE DEF next
  <2>6. Covers(s, a, low, next)
    BY ONLY <2>4, <2>5 DEF Covers
  <2> QED
    BY <2>6 DEF next
<1> HIDE DEF cut, a
<1>8. ASSUME NEW from \in Int, NEW t \in Int
      PROVE  Cardinality(In(a, from, t)) <= Cardinality(In(g, from, t))
  <2> DEFINE f == [j \in In(a, from, t) |-> h[j]]
  <2>1. ASSUME NEW j \in In(a, from, t)
        PROVE  j \in 1..Len(a) /\ h[j] \in 1..Len(g) /\ a[j] = g[h[j]] /\ h[j] \in In(g, from, t)
               /\ \A l \in 1..(j - 1) : h[l] < h[j]
    BY <1>1, <1>2, <1>3 DEF In, Traces
  <2>2. ASSUME NEW j \in In(a, from, t), NEW l \in In(a, from, t), h[j] = h[l]
        PROVE  j = l
    <3>1. CASE l \in 1..(j - 1)
      BY <2>1, <2>2, <3>1
    <3>2. CASE j \in 1..(l - 1)
      BY <2>1, <2>2, <3>2
    <3>3. j \in 1..Len(a) /\ l \in 1..Len(a)
      BY <2>1
    <3> QED
      BY <1>2, <3>1, <3>2, <3>3
  <2>3. f \in Injection(In(a, from, t), In(g, from, t))
    <3> DEFINE A == In(a, from, t)
               B == In(g, from, t)
    <3>1. f \in [A -> B]
      BY <2>1
    <3>2. \A j, l \in A : f[j] = f[l] => j = l
      BY <2>2
    <3>3. DOMAIN f = A
      OBVIOUS
    <3> HIDE DEF f, A, B
    <3>4. IsInjective(f)
      BY <3>2, <3>3 DEF IsInjective
    <3>5. f \in Injection(A, B)
      BY <3>1, <3>4 DEF Injection
    <3> QED
      BY <3>5 DEF A, B
  <2>4. IsFiniteSet(In(g, from, t))
    <3>1. IsFiniteSet(1..Len(g))
      BY <1>1, FS_Interval
    <3>2. In(g, from, t) \in SUBSET (1..Len(g))
      BY <1>1 DEF In
    <3> QED
      BY <3>1, <3>2, FS_Subset
  <2> HIDE DEF f
  <2> QED
    BY <2>3, <2>4, FS_Injection
<1>9. ASSUME NEW t \in Time
      PROVE  Cardinality(In(a, t - (Window - Stall), t)) <= Limit
  <2> DEFINE from == t - (Window - Stall)
  <2>1. t \in Int /\ from \in Int
    BY TimeType
  <2>2. Cardinality(In(g, from, t)) <= Limit
    BY DEF EntryInv, Within
  <2>3. Cardinality(In(a, from, t)) <= Cardinality(In(g, from, t))
    BY <1>8, <2>1
  <2>4. Cardinality(In(a, from, t)) \in Nat /\ Cardinality(In(g, from, t)) \in Nat
    <3>1. IsFiniteSet(1..Len(g)) /\ IsFiniteSet(1..Len(a))
      BY <1>1, <1>2, FS_Interval
    <3>2. In(g, from, t) \in SUBSET (1..Len(g)) /\ In(a, from, t) \in SUBSET (1..Len(a))
      BY <1>1, <1>2 DEF In
    <3> QED
      BY <3>1, <3>2, FS_Subset, FS_CardinalityType
  <2> QED
    BY <2>2, <2>3, <2>4
<1> DEFINE next == now + 1
<1>10. Backed(s, a, next)
  <2>1. next \in Int /\ now <= next /\ cut = next - Window - Stall
    BY <1>1 DEF cut
  <2> HIDE DEF next
  <2>2. ASSUME NEW b \in Int, b >= next - Window - Stall
        PROVE  Len(After(s, b)) <= Len(After(a, b))
    <3>1. b >= now - Window - Stall /\ cut <= b
      BY <1>1, <2>1, <2>2
    <3>2. Len(After(s, b)) <= Len(After(g, b))
      BY <3>1 DEF EntryInv, Backed
    <3> QED
      BY <1>5, <3>1, <3>2
  <2> QED
    BY <2>2 DEF Backed
<1> QED
  BY <1>2, <1>4, <1>6, <1>7, <1>9, <1>10 DEF EntryInv, Within, a, cut

(* Nothing the entry granted is later than all that it still holds. *)
Topped(s, g) == \A i \in 1..Len(g) : \E j \in 1..Len(s) : s[j] >= g[i]

(* Of what was granted after a record of s, all is still in s. *)
Leads(s, g) ==
    \A i \in 1..Len(s) : Record(s, i) =>
        Len(After(g, s[i])) <= Len(After(s, s[i]))

(* An empty entry leads what it has granted: nothing. *)
LEMMA LeadsEmpty == Topped(<<>>, <<>>) /\ Leads(<<>>, <<>>)
BY EmptySeq DEF Topped, Leads

(* Records stay records when others are evicted. *)
LEMMA LeadsEvicts ==
    ASSUME NEW s \in Seq(Int), NEW g \in Seq(Int), NEW t \in Int, Leads(s, g)
    PROVE  Leads(After(s, t), g)
<1> DEFINE v == After(s, t)
<1> SUFFICES ASSUME NEW k \in 1..Len(v), Record(v, k)
             PROVE  Len(After(g, v[k])) <= Len(After(v, v[k]))
  BY DEF Leads
<1>1. PICK i \in 1..Len(s) : s[i] = v[k] /\ Record(s, i)
  BY AfterRecords
<1>2. v[k] > t /\ s[i] \in Int
  <2>1. PICK h : Traces(s, v, t, h)
    BY AfterTraces
  <2> HIDE DEF v
  <2> QED
    BY <2>1, ElementOfSeq DEF Traces
<1>3. After(v, s[i]) = After(s, s[i])
  BY <1>1, <1>2, AfterAfter
<1>4. Len(After(g, s[i])) <= Len(After(s, s[i]))
  BY <1>1 DEF Leads
<1> QED
  BY <1>1, <1>3, <1>4

(* An eviction that leaves something leaves the latest. *)
LEMMA ToppedEvicts ==
    ASSUME NEW s \in Seq(Int), NEW g \in Seq(Int), NEW t \in Int, Topped(s, g),
           After(s, t) = <<>> => s = <<>>
    PROVE  Topped(After(s, t), g)
<1> DEFINE v == After(s, t)
<1> SUFFICES ASSUME NEW i \in 1..Len(g) PROVE \E j \in 1..Len(v) : v[j] >= g[i]
  BY DEF Topped
<1>1. PICK k \in 1..Len(s) : s[k] >= g[i]
  BY DEF Topped
<1>2. s[k] \in Int /\ g[i] \in Int
  BY ElementOfSeq
<1>3. CASE s[k] > t
  BY <1>1, <1>3, AfterKeeps
<1>4. CASE ~(s[k] > t)
  <2>1. v # <<>>
    BY EmptySeq
  <2>2. v[1] > t /\ v \in Seq(Int)
    BY <2>1, AfterFirst, AfterType
  <2> HIDE DEF v
  <2>3. 1 \in 1..Len(v) /\ v[1] \in Int
    <3>1. Len(v) \in Nat \ {0}
      BY <2>1, <2>2, EmptySeq
    <3> QED
      BY <2>2, <3>1, ElementOfSeq
  <2>4. \A a, b, c \in Int : a >= b /\ ~(a > t) /\ c > t => c >= b
    OBVIOUS
  <2>5. v[1] >= g[i]
    BY <1>1, <1>2, <1>4, <2>2, <2>3, <2>4
  <2> QED
    BY <2>3, <2>5
<1> QED
  BY <1>3, <1>4

(* A request that is admitted is later than what its own cutoff evicts.  It *)
(* is a record only when it is later than all that was ever granted.        *)
LEMMA LeadsAdmits ==
    ASSUME NEW s \in Seq(Int), NEW g \in Seq(Int), NEW t \in Int, NEW n \in Int,
           n > t, Topped(s, g), Leads(s, g)
    PROVE  /\ Topped(Append(After(s, t), n), Append(g, n))
           /\ Leads(Append(After(s, t), n), Append(g, n))
<1> DEFINE v == After(s, t)
           u == Append(v, n)
           w == Append(g, n)
<1>1. v \in Seq(Int)
  BY AfterType
<1>2. Leads(v, g)
  BY LeadsEvicts
<1>3. \A i \in 1..Len(s) : s[i] > t => \E j \in 1..Len(v) : v[j] = s[i]
  BY AfterKeeps
<1> HIDE DEF v
<1>4. /\ Len(u) = Len(v) + 1 /\ u[Len(v) + 1] = n /\ u \in Seq(Int)
      /\ \A i \in 1..Len(v) : u[i] = v[i]
      /\ Len(w) = Len(g) + 1 /\ w[Len(g) + 1] = n /\ w \in Seq(Int)
      /\ \A i \in 1..Len(g) : w[i] = g[i]
      /\ Len(v) \in Nat /\ Len(g) \in Nat
  BY <1>1, AppendProperties, LenProperties
<1>5. \A b \in Int : /\ After(u, b) = IF n > b THEN Append(After(v, b), n) ELSE After(v, b)
                     /\ After(w, b) = IF n > b THEN Append(After(g, b), n) ELSE After(g, b)
  BY <1>1, AfterAppend
<1> HIDE DEF u, w
<1>6. ASSUME NEW i \in 1..Len(g)
      PROVE  (\E j \in 1..Len(v) : v[j] >= g[i]) \/ n >= g[i]
  <2>1. PICK k \in 1..Len(s) : s[k] >= g[i]
    BY DEF Topped
  <2>2. s[k] \in Int /\ g[i] \in Int
    BY ElementOfSeq
  <2>3. CASE s[k] > t
    <3>1. PICK j \in 1..Len(v) : v[j] = s[k]
      BY <1>3, <2>3
    <3> QED
      BY <2>1, <3>1
  <2>4. CASE ~(s[k] > t)
    BY <2>1, <2>2, <2>4
  <2> QED
    BY <2>3, <2>4
<1>7. Topped(u, w)
  <2> SUFFICES ASSUME NEW i \in 1..Len(w) PROVE \E j \in 1..Len(u) : u[j] >= w[i]
    BY DEF Topped
  <2>1. Len(v) + 1 \in 1..Len(u)
    BY <1>4
  <2>2. CASE i \in 1..Len(g)
    <3>1. CASE n >= g[i]
      BY <1>4, <2>1, <2>2, <3>1
    <3>2. ASSUME NEW j \in 1..Len(v), v[j] >= g[i] PROVE j \in 1..Len(u) /\ u[j] >= w[i]
      BY <1>4, <2>2, <3>2
    <3> QED
      BY <1>6, <2>2, <3>1, <3>2
  <2>3. CASE i = Len(g) + 1
    <3>1. u[Len(v) + 1] = n /\ w[i] = n /\ n >= n
      BY <1>4, <2>3
    <3> QED
      BY <2>1, <3>1
  <2> QED
    BY <1>4, <2>2, <2>3
<1>8. Leads(u, w)
  <2> SUFFICES ASSUME NEW i \in 1..Len(u), Record(u, i)
               PROVE  Len(After(w, u[i])) <= Len(After(u, u[i]))
    BY DEF Leads
  <2>1. CASE i \in 1..Len(v)
    <3> DEFINE b == v[i]
    <3>1. Record(v, i)
      <4>1. \A m \in 1..Len(v) : v[m] = u[m]
        BY <1>4
      <4> HIDE DEF b
      <4> QED
        BY <1>4, <2>1, <4>1, RecordKept
    <3>2. Len(After(g, b)) <= Len(After(v, b)) /\ b \in Int
      BY <1>1, <1>2, <2>1, <3>1, ElementOfSeq DEF Leads
    <3> HIDE DEF b
    <3>3. After(v, b) \in Seq(Int) /\ After(g, b) \in Seq(Int)
      BY <1>1, <3>2, AfterType
    <3>4. /\ Len(Append(After(v, b), n)) = Len(After(v, b)) + 1
          /\ Len(Append(After(g, b), n)) = Len(After(g, b)) + 1
          /\ Len(After(v, b)) \in Nat /\ Len(After(g, b)) \in Nat
      BY <3>3, AppendProperties, LenProperties
    <3>5. Len(After(w, b)) <= Len(After(u, b))
      <4>1. CASE n > b
        <5>1. /\ After(u, b) = Append(After(v, b), n)
              /\ After(w, b) = Append(After(g, b), n)
          BY <1>5, <3>2, <4>1
        <5> QED
          BY <3>2, <3>4, <5>1
      <4>2. CASE ~(n > b)
        BY <1>5, <3>2, <4>2
      <4> QED
        BY <4>1, <4>2
    <3> QED
      BY <1>4, <2>1, <3>5 DEF b
  <2>2. CASE i = Len(v) + 1
    <3>1. After(w, n) = After(g, n)
      BY <1>5
    <3>2. ASSUME After(g, n) # <<>> PROVE FALSE
      <4>1. PICK k \in 1..Len(g) : g[k] = After(g, n)[1] /\ g[k] > n
        BY <3>2, AfterFirst
      <4>2. g[k] \in Int
        BY ElementOfSeq
      <4>3. PICK j \in 1..Len(v) : v[j] >= g[k]
        BY <1>6, <4>1, <4>2
      <4>4. v[j] \in Int
        BY <1>1, ElementOfSeq
      <4>5. u[j] < u[i]
        <5>1. j \in 1..(i - 1)
          BY <1>4, <2>2
        <5> QED
          BY <5>1 DEF Record
      <4>6. u[j] = v[j] /\ u[i] = n
        BY <1>4, <2>2
      <4> QED
        BY <4>1, <4>2, <4>3, <4>4, <4>5, <4>6
    <3>3. Len(After(u, n)) \in Nat
      BY <1>4, AfterLengths
    <3> QED
      BY <1>4, <2>2, <3>1, <3>2, <3>3, EmptySeq
  <2> QED
    BY <1>4, <2>1, <2>2
<1> QED
  BY <1>7, <1>8 DEF u, w, v

(* What is forgotten leads nothing. *)
LEMMA LeadsAges ==
    ASSUME NEW s \in Seq(Int), NEW g \in Seq(Int), NEW t \in Int,
           Topped(s, g), Leads(s, g)
    PROVE  Topped(s, After(g, t)) /\ Leads(s, After(g, t))
<1> DEFINE a == After(g, t)
<1>1. PICK h : Traces(g, a, t, h)
  BY AfterTraces
<1>2. Topped(s, a)
  <2> HIDE DEF a
  <2> QED
    BY <1>1 DEF Topped, Traces
<1>3. Leads(s, a)
  <2> SUFFICES ASSUME NEW i \in 1..Len(s), Record(s, i)
               PROVE  Len(After(a, s[i])) <= Len(After(s, s[i]))
    BY DEF Leads
  <2> DEFINE b == s[i]
  <2>1. b \in Int /\ Len(After(g, b)) <= Len(After(s, b))
    BY ElementOfSeq DEF Leads
  <2> HIDE DEF b
  <2>2. ASSUME t <= b PROVE Len(After(a, b)) <= Len(After(s, b))
    <3>1. After(After(g, t), b) = After(g, b)
      BY <2>1, <2>2, AfterAfter
    <3> QED
      BY <2>1, <3>1
  <2>3. ASSUME b <= t PROVE Len(After(a, b)) <= Len(After(s, b))
    <3>1. a \in Seq(Int) /\ Len(a) <= Len(After(g, b)) /\ Len(a) \in Nat
      BY <2>1, <2>3, AfterType, AfterLengths
    <3> HIDE DEF a
    <3>2. Len(After(a, b)) <= Len(a) /\ Len(After(a, b)) \in Nat
      BY <2>1, <3>1, AfterLengths
    <3>3. Len(After(g, b)) \in Nat /\ Len(After(s, b)) \in Nat
      BY <2>1, AfterLengths
    <3> QED
      BY <2>1, <3>1, <3>2, <3>3
  <2>4. Len(After(a, b)) <= Len(After(s, b))
    BY <2>1, <2>2, <2>3
  <2> QED
    BY <2>4 DEF b
<1> QED
  BY <1>2, <1>3

-----------------------------------------------------------------------------
(* The inductive invariant *)

CallInv(q) ==
    q.pc # "idle" =>
        /\ q.key \in Keys
        /\ q.allowed = TRUE
        /\ clock - Stall <= q.now /\ q.now <= clock
        /\ q.pc = "decide" => q.entry \in Entries

Control ==
    /\ clock \in Time
    /\ left \subseteq Keys
    /\ cutoff \in Int
    /\ closing \in {"open", "stopping", "closed"}
    /\ store \in [Keys -> Entries \cup {Nil}]

Cleaning ==
    /\ tick \in Time \cup {Nil}
    /\ tick # Nil => tick <= clock
    /\ cleaner \in {"waiting", "locking", "sweeping", "gone"}
    /\ cleaner \in {"locking", "sweeping"} => cutoff <= clock - Window

CallsInv ==
    /\ call \in [Callers -> Call]
    /\ \A c \in Callers : CallInv(call[c])

EntriesInv ==
    /\ timestamps \in [Entries -> Seq(Time)]
    /\ granted \in [Entries -> Seq(Time)]
    /\ \A e \in Entries :
        /\ EntryInv(timestamps[e], granted[e], clock)
        /\ Topped(timestamps[e], granted[e])
        /\ Leads(timestamps[e], granted[e])

IInv == Control /\ Cleaning /\ CallsInv /\ EntriesInv

(* What the invariant says of the types and of the limit. *)
LEMMA TypeFromInv == IInv => TypeOK /\ EntryWithinLimit
<1> SUFFICES ASSUME IInv PROVE TypeOK /\ EntryWithinLimit
  OBVIOUS
<1>1. TypeOK
  <2>1. \A e \in Entries : Len(timestamps[e]) <= Limit
    BY DEF IInv, EntriesInv, EntryInv
  <2> QED
    BY <2>1 DEF IInv, Control, Cleaning, CallsInv, EntriesInv, TypeOK
<1>2. EntryWithinLimit
  <2> SUFFICES ASSUME NEW e \in Entries, NEW t \in Time
               PROVE  Cardinality(Admissions(e, t - (Window - Stall), t)) <= Limit
    BY DEF EntryWithinLimit
  <2>1. Cardinality(In(granted[e], t - (Window - Stall), t)) <= Limit
    BY DEF IInv, EntriesInv, EntryInv, Within
  <2> QED
    BY <2>1 DEF Admissions, In
<1> QED
  BY <1>1, <1>2

(* The limiter starts with no entry and every caller idle. *)
LEMMA InvInit == Init => IInv
<1> SUFFICES ASSUME Init PROVE IInv
  OBVIOUS
<1>1. clock = 0 /\ 0 \in Time
  BY DEF Init, Time
<1>2. Control
  BY <1>1 DEF Init, Control
<1>3. Cleaning
  BY DEF Init, Cleaning
<1>4. CallsInv
  <2>1. Idle \in Call
    BY <1>1 DEF Idle, Call
  <2>2. Idle.pc = "idle"
    BY DEF Idle
  <2> HIDE DEF Idle
  <2> QED
    BY <2>1, <2>2 DEF Init, CallsInv, CallInv
<1>5. EntriesInv
  <2>1. <<>> \in Seq(Time)
    BY EmptySeq
  <2>2. EntryInv(<<>>, <<>>, clock) /\ Topped(<<>>, <<>>) /\ Leads(<<>>, <<>>)
    BY <1>1, EntryEmpty, LeadsEmpty
  <2> QED
    BY <2>1, <2>2 DEF Init, EntriesInv
<1> QED
  BY <1>2, <1>3, <1>4, <1>5 DEF IInv

(* One call changes to q; the clock does not. *)
LEMMA CallSet ==
    ASSUME CallsInv, NEW c \in Callers, NEW q \in Call, CallInv(q),
           call' = [call EXCEPT ![c] = q], clock' = clock
    PROVE  CallsInv'
<1>1. call' \in [Callers -> Call]
  BY DEF CallsInv
<1>2. ASSUME NEW d \in Callers PROVE CallInv(call[d])'
  <2>1. CASE d = c
    <3>1. call'[d] = q
      BY <2>1 DEF CallsInv
    <3> QED
      BY <3>1 DEF CallInv
  <2>2. CASE d # c
    <3>1. call'[d] = call[d]
      BY <2>2 DEF CallsInv
    <3> QED
      BY <3>1 DEF CallsInv, CallInv
  <2> QED
    BY <2>1, <2>2
<1> QED
  BY <1>1, <1>2 DEF CallsInv

(* One entry changes; the clock does not. *)
LEMMA EntrySet ==
    ASSUME EntriesInv, NEW e \in Entries, NEW s, NEW g, EntryInv(s, g, clock),
           Topped(s, g), Leads(s, g),
           timestamps' = [timestamps EXCEPT ![e] = s],
           granted' = [granted EXCEPT ![e] = g], clock' = clock
    PROVE  EntriesInv'
<1>1. s \in Seq(Time) /\ g \in Seq(Time)
  BY DEF EntryInv
<1>2. timestamps' \in [Entries -> Seq(Time)] /\ granted' \in [Entries -> Seq(Time)]
  BY <1>1 DEF EntriesInv
<1>3. ASSUME NEW d \in Entries
      PROVE  /\ EntryInv(timestamps'[d], granted'[d], clock')
             /\ Topped(timestamps'[d], granted'[d])
             /\ Leads(timestamps'[d], granted'[d])
  <2>1. CASE d = e
    <3>1. timestamps'[d] = s /\ granted'[d] = g
      BY <2>1 DEF EntriesInv
    <3> QED
      BY <3>1
  <2>2. CASE d # e
    <3>1. timestamps'[d] = timestamps[d] /\ granted'[d] = granted[d]
      BY <2>2 DEF EntriesInv
    <3> QED
      BY <3>1 DEF EntriesInv
  <2> QED
    BY <2>1, <2>2
<1> QED
  BY <1>2, <1>3 DEF EntriesInv

(* Callers that do not move keep what they know. *)
LEMMA CallsKept == CallsInv /\ call' = call /\ clock' = clock => CallsInv'
BY DEF CallsInv, CallInv

(* Entries that nobody touches keep their part of the invariant. *)
LEMMA EntriesKept ==
    EntriesInv /\ timestamps' = timestamps /\ granted' = granted /\ clock' = clock
        => EntriesInv'
BY DEF EntriesInv

(* The cleanup goroutine keeps its part while it does nothing. *)
LEMMA CleaningKept ==
    Cleaning /\ UNCHANGED <<tick, cleaner, cutoff, clock>> => Cleaning'
BY DEF Cleaning

(* A caller reads the clock. *)
LEMMA StepStart ==
    ASSUME IInv, NEW c \in Callers, NEW k \in Keys, Start(c, k)
    PROVE  IInv'
<1> DEFINE q == [Idle EXCEPT !.pc = "lookup", !.key = k, !.now = clock]
<1>1. clock \in Time /\ clock \in Nat
  BY TimeType DEF IInv, Control
<1>2. /\ q.pc = "lookup" /\ q.key = k /\ q.now = clock /\ q.allowed = TRUE
      /\ q \in Call
  BY <1>1 DEF Idle, Call
<1>3. call' = [call EXCEPT ![c] = q]
  BY DEF Start
<1> HIDE DEF q
<1>4. CallInv(q)
  BY <1>1, <1>2 DEF CallInv
<1>5. UNCHANGED <<clock, sweeper, closing, limiter>>
  BY DEF Start
<1>6. CallsInv'
  BY <1>2, <1>3, <1>4, <1>5, CallSet DEF IInv
<1> QED
  BY <1>5, <1>6, EntriesKept, CleaningKept DEF IInv, Control, sweeper, limiter

(* A caller looks its key up under the read lock. *)
LEMMA StepLookup ==
    ASSUME IInv, NEW c \in Callers, Lookup(c)
    PROVE  IInv'
<1> DEFINE e == store[call[c].key]
           next == IF e = Nil THEN "create" ELSE "decide"
           q == [call[c] EXCEPT !.pc = next, !.entry = e]
<1>1. call[c] \in Call /\ CallInv(call[c]) /\ call[c].pc = "lookup"
  BY DEF IInv, CallsInv, Lookup
<1>2. e \in Entries \cup {Nil} /\ next \in {"create", "decide"}
  BY <1>1 DEF CallInv, IInv, Control
<1>3. call' = [call EXCEPT ![c] = q]
  BY DEF Lookup
<1>4. next = "decide" => e \in Entries
  BY <1>2
<1> HIDE DEF e, next
<1>5. /\ q.pc = next /\ q.key = call[c].key /\ q.now = call[c].now
      /\ q.allowed = call[c].allowed /\ q.entry = e /\ q \in Call
  BY <1>1, <1>2 DEF Call
<1> HIDE DEF q
<1>6. CallInv(q)
  BY <1>1, <1>4, <1>5 DEF CallInv
<1>7. UNCHANGED <<clock, sweeper, closing, limiter>>
  BY DEF Lookup
<1>8. CallsInv'
  BY <1>3, <1>5, <1>6, <1>7, CallSet DEF IInv
<1> QED
  BY <1>7, <1>8, EntriesKept, CleaningKept DEF IInv, Control, sweeper, limiter

(* A caller looks once more under the write lock and may make an entry. *)
LEMMA StepCreate ==
    ASSUME IInv, NEW c \in Callers, Create(c)
    PROVE  IInv'
<1> DEFINE k == call[c].key
<1>1. PICK e \in Entries :
        /\ \/ store[k] = e /\ UNCHANGED <<store, timestamps>>
           \/ /\ store[k] = Nil /\ Fresh(e)
              /\ store' = [store EXCEPT ![k] = e]
              /\ timestamps' = [timestamps EXCEPT ![e] = <<>>]
        /\ call' = [call EXCEPT ![c].pc = "decide", ![c].entry = e]
  BY DEF Create
<1> DEFINE q == [call[c] EXCEPT !.pc = "decide", !.entry = e]
<1>2. call[c] \in Call /\ CallInv(call[c]) /\ call[c].pc = "create" /\ k \in Keys
  BY DEF IInv, CallsInv, Create, CallInv
<1>3. call' = [call EXCEPT ![c] = q]
  BY <1>1
<1>4. UNCHANGED <<clock, sweeper, closing, granted>>
  BY DEF Create
<1>5. /\ q.pc = "decide" /\ q.key = k /\ q.now = call[c].now
      /\ q.allowed = call[c].allowed /\ q.entry = e /\ q \in Call
  BY <1>2 DEF Call
<1> HIDE DEF q
<1>6. CallInv(q)
  BY <1>2, <1>5 DEF CallInv
<1>7. CallsInv'
  BY <1>3, <1>4, <1>5, <1>6, CallSet DEF IInv
<1>8. Control'
  BY <1>1, <1>2, <1>4 DEF IInv, Control, sweeper
<1>9. EntriesInv'
  <2>1. CASE UNCHANGED <<store, timestamps>>
    BY <1>4, <2>1, EntriesKept DEF IInv
  <2>2. CASE Fresh(e) /\ timestamps' = [timestamps EXCEPT ![e] = <<>>]
    <3>1. granted[e] = <<>> /\ granted \in [Entries -> Seq(Time)]
      BY <2>2 DEF Fresh, IInv, EntriesInv
    <3>2. granted' = [granted EXCEPT ![e] = <<>>]
      BY <1>4, <3>1
    <3>3. EntryInv(<<>>, <<>>, clock)
      BY EntryEmpty DEF IInv, Control
    <3>4. Topped(<<>>, <<>>) /\ Leads(<<>>, <<>>)
      BY LeadsEmpty
    <3> QED
      BY <1>4, <2>2, <3>2, <3>3, <3>4, EntrySet DEF IInv
  <2> QED
    BY <1>1, <2>1, <2>2
<1> QED
  BY <1>4, <1>7, <1>8, <1>9, CleaningKept DEF IInv, sweeper

(* A caller evicts, decides and appends under the lock of its entry. *)
LEMMA StepDecide ==
    ASSUME IInv, NEW c \in Callers, Decide(c)
    PROVE  IInv'
<1> DEFINE e == call[c].entry
           now == call[c].now
           valid == InWindow(timestamps[e], now)
<1>1. call[c] \in Call /\ CallInv(call[c]) /\ call[c].pc = "decide"
  BY DEF IInv, CallsInv, Decide
<1>2. e \in Entries /\ now \in Time /\ clock - Stall <= now /\ now <= clock
  BY <1>1 DEF CallInv, Call
<1>3. EntryInv(timestamps[e], granted[e], clock) /\ clock \in Time
  BY <1>2 DEF IInv, EntriesInv, Control
<1>4. valid = After(timestamps[e], now - Window)
  BY DEF InWindow
<1>5. EntryInv(valid, granted[e], clock)
  BY <1>2, <1>3, <1>4, EntryEvicts
<1>6. UNCHANGED <<clock, sweeper, closing, store>>
  BY DEF Decide
<1>11. /\ timestamps[e] \in Seq(Int) /\ granted[e] \in Seq(Int) /\ now - Window \in Int
       /\ Topped(timestamps[e], granted[e]) /\ Leads(timestamps[e], granted[e])
  BY <1>2, <1>3, TimeType DEF EntryInv, IInv, EntriesInv
<1>7. /\ timestamps[e] \in Seq(Int) /\ now \in Int
      /\ timestamps \in [Entries -> Seq(Time)] /\ granted \in [Entries -> Seq(Time)]
  BY <1>2, <1>3, TimeType DEF EntryInv, IInv, EntriesInv
<1>8. Control' /\ Cleaning'
  BY <1>6, CleaningKept DEF IInv, Control, sweeper
<1>9. CASE /\ ~Full(Len(valid))
           /\ timestamps' = [timestamps EXCEPT ![e] = Append(valid, now)]
           /\ granted' = [granted EXCEPT ![e] = Append(@, now)]
           /\ call' = [call EXCEPT ![c] = Idle]
  <2>1. Len(valid) < Limit
    <3>1. Len(valid) \in Nat
      BY <1>5, LenProperties DEF EntryInv
    <3> HIDE DEF valid
    <3> QED
      BY <1>9, <3>1 DEF Full
  <2>2. EntryInv(Append(valid, now), Append(granted[e], now), clock)
    <3> HIDE DEF valid, e, now
    <3> QED
      BY <1>2, <1>3, <1>5, <2>1, EntryAdmits
  <2>3. granted' = [granted EXCEPT ![e] = Append(granted[e], now)]
    BY <1>9
  <2>7. /\ Topped(Append(valid, now), Append(granted[e], now))
        /\ Leads(Append(valid, now), Append(granted[e], now))
    <3>1. now \in Int /\ now > now - Window
      <4>1. now \in Int
        BY <1>2, TimeType
      <4> HIDE DEF now
      <4> QED
        BY <4>1, LimiterAssumption
    <3> HIDE DEF valid, e, now
    <3> QED
      BY <1>4, <1>11, <3>1, LeadsAdmits
  <2>4. EntriesInv'
    <3> HIDE DEF valid, e, now
    <3> QED
      BY <1>2, <1>6, <1>9, <2>2, <2>3, <2>7, EntrySet DEF IInv
  <2>5. Idle \in Call /\ CallInv(Idle)
    <3>1. 0 \in Time
      BY DEF Time
    <3> QED
      BY <3>1 DEF Idle, Call, CallInv
  <2>6. CallsInv'
    <3> HIDE DEF Idle
    <3> QED
      BY <1>6, <1>9, <2>5, CallSet DEF IInv
  <2> QED
    BY <1>8, <2>4, <2>6 DEF IInv
<1>10. CASE /\ Full(Len(valid))
            /\ timestamps' = [timestamps EXCEPT ![e] = valid]
            /\ call' = [call EXCEPT ![c] =
                          [Idle EXCEPT !.allowed = FALSE,
                                       !.retry = IF valid = <<>> THEN 0
                                                 ELSE RetryAfter(valid, now)]]
            /\ UNCHANGED granted
  <2> DEFINE retry == IF valid = <<>> THEN 0 ELSE RetryAfter(valid, now)
             q == [Idle EXCEPT !.allowed = FALSE, !.retry = retry]
  <2>1. retry \in Nat
    <3>1. CASE valid # <<>>
      <4>1. valid[1] > now - Window /\ \E i \in 1..Len(timestamps[e]) : timestamps[e][i] = valid[1]
        <5>1. After(timestamps[e], now - Window) # <<>> /\ now - Window \in Int
          BY <1>4, <1>7, <3>1
        <5> HIDE DEF valid, now, e
        <5> QED
          BY <1>4, <1>7, <5>1, AfterFirst
      <4>2. valid[1] \in Int
        BY <1>7, <4>1, ElementOfSeq
      <4> HIDE DEF valid, now
      <4> QED
        BY <1>7, <3>1, <4>1, <4>2 DEF RetryAfter
    <3> QED
      BY <3>1
  <2>2. call' = [call EXCEPT ![c] = q]
    BY <1>10
  <2> HIDE DEF retry
  <2>3. q \in Call /\ q.pc = "idle"
    <3>1. 0 \in Time
      BY DEF Time
    <3> QED
      BY <2>1, <3>1 DEF Idle, Call
  <2> HIDE DEF q
  <2>4. CallsInv'
    BY <1>6, <2>2, <2>3, CallSet DEF IInv, CallInv
  <2>5. granted' = [granted EXCEPT ![e] = granted[e]]
    BY <1>7, <1>10
  <2>7. Topped(valid, granted[e]) /\ Leads(valid, granted[e])
    <3>1. Len(timestamps[e]) <= Limit
      BY <1>3 DEF EntryInv
    <3> HIDE DEF valid, e, now
    <3>2. valid = <<>> => timestamps[e] = <<>>
      BY <1>10, <1>11, <3>1, EmptySeq, LenProperties DEF Full
    <3> QED
      BY <1>4, <1>11, <3>2, ToppedEvicts, LeadsEvicts
  <2>6. EntriesInv'
    <3> HIDE DEF valid, e, now
    <3> QED
      BY <1>2, <1>5, <1>6, <1>10, <2>5, <2>7, EntrySet DEF IInv
  <2> QED
    BY <1>8, <2>4, <2>6 DEF IInv
<1> QED
  <2> HIDE DEF RetryAfter, Full, InWindow, Idle
  <2> QED
    BY <1>9, <1>10 DEF Decide

(* Reset empties the entry of its key. *)
LEMMA StepReset ==
    ASSUME IInv, NEW k \in Keys, Reset(k)
    PROVE  IInv'
<1>1. /\ store[k] \in Entries
      /\ timestamps' = [timestamps EXCEPT ![store[k]] = <<>>]
      /\ granted' = [granted EXCEPT ![store[k]] = <<>>]
      /\ UNCHANGED <<clock, sweeper, closing, store, call>>
  BY DEF Reset, IInv, Control
<1>2. EntryInv(<<>>, <<>>, clock) /\ Topped(<<>>, <<>>) /\ Leads(<<>>, <<>>)
  BY EntryEmpty, LeadsEmpty DEF IInv, Control
<1>3. EntriesInv'
  BY <1>1, <1>2, EntrySet DEF IInv
<1> QED
  BY <1>1, <1>3, CallsKept, CleaningKept DEF IInv, Control, sweeper

(* Close stops the ticker and drops the store. *)
LEMMA StepClose ==
    ASSUME IInv, Close
    PROVE  IInv'
<1>1. /\ UNCHANGED <<clock, sweeper, timestamps, granted, call>>
      /\ closing' \in {"stopping", "closed"}
      /\ store' = store \/ store' = [k \in Keys |-> Nil]
  BY DEF Close, limiter
<1>2. Control'
  BY <1>1 DEF IInv, Control, sweeper
<1> QED
  BY <1>1, <1>2, EntriesKept, CallsKept, CleaningKept DEF IInv, sweeper

(* Time passes, and with it a tick. *)
LEMMA StepAdvance ==
    ASSUME IInv, Advance
    PROVE  IInv'
<1>1. clock \in Time /\ clock \in Int /\ clock' = clock + 1 /\ clock' \in Time
  BY DEF IInv, Control, Advance, Time
<1>2. /\ UNCHANGED <<cleaner, left, cutoff, closing, store, timestamps, call>>
      /\ tick' \in {tick, clock'}
  BY <1>1 DEF Advance
<1>3. Control'
  BY <1>1, <1>2 DEF IInv, Control
<1>4. Cleaning'
  <2>1. tick' \in Time \cup {Nil} /\ (tick' # Nil => tick' <= clock')
    <3>1. tick \in Time \cup {Nil} /\ (tick # Nil => tick <= clock)
      BY DEF IInv, Cleaning
    <3>2. tick # Nil => tick \in Int
      BY <3>1, TimeType
    <3> QED
      BY <1>1, <1>2, <3>1, <3>2
  <2> QED
    BY <1>1, <1>2, <2>1 DEF IInv, Cleaning, Control
<1>5. CallsInv'
  <2>1. ASSUME NEW c \in Callers PROVE CallInv(call[c])'
    <3>1. call[c] \in Call /\ CallInv(call[c])
      BY DEF IInv, CallsInv
    <3>2. call[c].pc # "idle" => clock - call[c].now < Stall
      BY <3>1 DEF Advance, Call
    <3>3. call[c].now \in Int
      BY <3>1, TimeType DEF Call
    <3> QED
      BY <1>1, <1>2, <3>1, <3>2, <3>3 DEF CallInv
  <2> QED
    BY <1>2, <2>1 DEF IInv, CallsInv
<1>6. EntriesInv'
  <2>1. ASSUME NEW e \in Entries
        PROVE  /\ EntryInv(timestamps'[e], granted'[e], clock')
               /\ granted'[e] \in Seq(Time)
               /\ Topped(timestamps'[e], granted'[e])
               /\ Leads(timestamps'[e], granted'[e])
    <3>1. /\ EntryInv(timestamps[e], granted[e], clock)
          /\ Topped(timestamps[e], granted[e]) /\ Leads(timestamps[e], granted[e])
      BY DEF IInv, EntriesInv
    <3>2. EntryInv(timestamps[e], After(granted[e], clock + 1 - Window - Stall), clock + 1)
      BY <1>1, <3>1, EntryAges
    <3>3. granted'[e] = After(granted[e], clock + 1 - Window - Stall)
      BY DEF Advance
    <3>4. EntryInv(timestamps'[e], granted'[e], clock')
      BY <1>1, <1>2, <3>2, <3>3
    <3>5. /\ timestamps[e] \in Seq(Int) /\ granted[e] \in Seq(Int)
          /\ clock + 1 - Window - Stall \in Int
      BY <1>1, <3>1, TimeType DEF EntryInv
    <3>6. Topped(timestamps[e], granted'[e]) /\ Leads(timestamps[e], granted'[e])
      BY <3>1, <3>3, <3>5, LeadsAges
    <3> QED
      BY <1>2, <3>4, <3>6 DEF EntryInv
  <2>2. granted' = [e \in Entries |-> granted'[e]]
    BY DEF Advance
  <2>3. granted' \in [Entries -> Seq(Time)]
    BY <2>1, <2>2
  <2> QED
    BY <1>2, <2>1, <2>3 DEF IInv, EntriesInv
<1> QED
  BY <1>3, <1>4, <1>5, <1>6 DEF IInv

(* A part of a sweep changes the store only. *)
LEMMA StepCleanup ==
    ASSUME IInv, Cleanup
    PROVE  IInv'
<1>1. UNCHANGED <<clock, closing, timestamps, granted, call>>
  BY DEF Cleanup, TakeTick, SweepBegin, SweepKey, SweepEnd, CleanerStops, limiter
<1>2. clock \in Int
  BY TimeType DEF IInv, Control
<1>3. Control' /\ Cleaning'
  <2>1. CASE TakeTick
    <3>1. tick \in Time /\ tick \in Int /\ tick <= clock
      BY <2>1, TimeType DEF IInv, Cleaning, TakeTick
    <3>2. cutoff' = tick - Window /\ tick' = Nil /\ cleaner' = "locking"
          /\ UNCHANGED <<left, store>>
      BY <2>1 DEF TakeTick, limiter
    <3> QED
      BY <1>1, <1>2, <3>1, <3>2 DEF IInv, Control, Cleaning
  <2>2. ASSUME NEW k \in Keys, SweepKey(k) PROVE Control' /\ Cleaning'
    <3>1. UNCHANGED <<tick, cleaner, cutoff>> /\ left' = left \ {k}
      BY <2>2 DEF SweepKey
    <3>2. store' \in [Keys -> Entries \cup {Nil}]
      BY <2>2 DEF SweepKey, IInv, Control
    <3> QED
      BY <1>1, <3>1, <3>2, CleaningKept DEF IInv, Control
  <2>3. CASE SweepEnd \/ CleanerStops
    BY <1>1, <2>3 DEF SweepEnd, CleanerStops, limiter, IInv, Control, Cleaning
  <2>4. CASE SweepBegin
    BY <1>1, <2>4 DEF SweepBegin, limiter, IInv, Control, Cleaning
  <2> QED
    BY <2>1, <2>2, <2>3, <2>4 DEF Cleanup
<1> QED
  BY <1>1, <1>3, EntriesKept, CallsKept DEF IInv

(* Every step keeps the invariant. *)
LEMMA InvStep == IInv /\ [Next]_vars => IInv'
<1> SUFFICES ASSUME IInv, [Next]_vars PROVE IInv'
  OBVIOUS
<1>1. CASE UNCHANGED vars
  BY <1>1, EntriesKept, CallsKept, CleaningKept
     DEF vars, sweeper, limiter, IInv, Control
<1>2. ASSUME NEW c \in Callers, Allow(c) PROVE IInv'
  BY <1>2, StepStart, StepLookup, StepCreate, StepDecide DEF Allow
<1>3. ASSUME NEW k \in Keys, Reset(k) PROVE IInv'
  BY <1>3, StepReset
<1> QED
  BY <1>1, <1>2, <1>3, StepCleanup, StepClose, StepAdvance DEF Next

-----------------------------------------------------------------------------
(* What follows from it *)

(* The inductive invariant: an entry's timestamps are out of order by Stall  *)
(* at most, and hold every recent admission from some moment on.             *)
THEOREM LocalLimiterInvariance == Spec => []IInv
BY InvInit, InvStep, PTL DEF Spec

(* The values of the limiter keep their types, and an entry never holds      *)
(* more than Limit times.                                                    *)
THEOREM LocalLimiterTypeCorrect == Spec => []TypeOK
<1>1. IInv => TypeOK
  BY TypeFromInv
<1> QED
  BY <1>1, LocalLimiterInvariance, PTL

(* An entry admits at most Limit requests in any Window - Stall, however the *)
(* callers, the sweeps, Reset and Close are interleaved.                     *)
THEOREM EntryLimitHolds == Spec => []EntryWithinLimit
<1>1. IInv => EntryWithinLimit
  BY TypeFromInv
<1> QED
  BY <1>1, LocalLimiterInvariance, PTL

(* What happens when c is denied. *)
LEMMA Denial ==
    ASSUME IInv, [Next]_vars, NEW c \in Callers,
           call[c].pc = "decide", ~call'[c].allowed
    PROVE  LET e == call[c].entry
               now == call[c].now
               s == timestamps[e]
               g == granted[e]
               valid == After(s, now - Window)
           IN  /\ EntryInv(s, g, clock) /\ s \in Seq(Int) /\ g \in Seq(Int)
               /\ now \in Int /\ clock \in Int /\ clock - Stall <= now
               /\ Leads(s, g)
               /\ Len(valid) \in Nat /\ Len(valid) >= Limit
               /\ valid # <<>> => call'[c].retry = valid[1] + Window - now
<1> DEFINE e == call[c].entry
           now == call[c].now
           s == timestamps[e]
           g == granted[e]
           valid == After(s, now - Window)
<1>1. call[c] \in Call /\ CallInv(call[c]) /\ call \in [Callers -> Call]
  BY DEF IInv, CallsInv
<1>2. /\ e \in Entries /\ now \in Time /\ now \in Int /\ clock \in Int
      /\ clock - Stall <= now /\ now <= clock /\ call[c].allowed = TRUE
  BY <1>1, TimeType DEF CallInv, Call, IInv, Control
<1>3. EntryInv(s, g, clock) /\ s \in Seq(Int) /\ g \in Seq(Int) /\ Leads(s, g)
  BY <1>2, TimeType DEF IInv, EntriesInv, EntryInv
<1>4. call'[c] # call[c]
  BY <1>2
<1>5. Decide(c)
  <2>1. ~UNCHANGED call
    BY <1>4
  <2>2. \E d \in Callers : Allow(d)
    BY <2>1 DEF Next, vars, Reset, Cleanup, TakeTick, SweepBegin, SweepKey, SweepEnd,
                CleanerStops, Close, Advance, limiter
  <2>3. PICK d \in Callers : Allow(d)
    BY <2>2
  <2>4. ASSUME d # c PROVE call'[c] = call[c]
    BY <1>1, <2>3, <2>4 DEF Allow, Start, Lookup, Create, Decide
  <2>5. Allow(c)
    BY <1>4, <2>3, <2>4
  <2> QED
    BY <2>5 DEF Allow, Start, Lookup, Create
<1>6. valid = InWindow(s, now)
  BY DEF InWindow
<1>7. /\ Full(Len(valid))
      /\ call'[c] = [Idle EXCEPT !.allowed = FALSE,
                                 !.retry = IF valid = <<>> THEN 0
                                           ELSE RetryAfter(valid, now)]
  <2> HIDE DEF Full, RetryAfter, InWindow, valid
  <2>1. call' # [call EXCEPT ![c] = Idle]
    BY <1>1 DEF Idle
  <2>2. /\ Full(Len(valid))
        /\ call' = [call EXCEPT ![c] =
                       [Idle EXCEPT !.allowed = FALSE,
                                    !.retry = IF valid = <<>> THEN 0
                                              ELSE RetryAfter(valid, now)]]
    BY <1>5, <1>6, <2>1 DEF Decide
  <2> QED
    BY <1>1, <2>2
<1>8. Len(valid) \in Nat /\ Len(valid) >= Limit
  BY <1>2, <1>3, <1>7, AfterLengths DEF Full
<1>9. valid # <<>> => call'[c].retry = valid[1] + Window - now
  BY <1>7 DEF Idle, RetryAfter
<1> HIDE DEF valid
<1> QED
  BY <1>2, <1>3, <1>8, <1>9 DEF valid

(* The step of RetryAfterIsEnough. *)
LEMMA RetryStep ==
    ASSUME IInv, [Next]_vars, NEW c \in Callers,
           call[c].pc = "decide", ~call'[c].allowed, Limit > 0
    PROVE  Len(InWindow(granted[call[c].entry], call[c].now + call'[c].retry)) < Limit
<1> DEFINE e == call[c].entry
           now == call[c].now
           s == timestamps[e]
           g == granted[e]
           valid == After(s, now - Window)
           v == valid[1]
<1>1. /\ EntryInv(s, g, clock) /\ s \in Seq(Int) /\ g \in Seq(Int)
      /\ now \in Int /\ clock \in Int /\ clock - Stall <= now
      /\ Leads(s, g) /\ Len(valid) \in Nat /\ Len(valid) >= Limit
      /\ valid # <<>> => call'[c].retry = v + Window - now
  BY Denial
<1>2. Len(s) \in Nat /\ Len(s) <= Limit
  BY <1>1, LenProperties DEF EntryInv
<1>3. valid # <<>>
  BY <1>1, EmptySeq
<1>4. v > now - Window /\ \E i \in 1..Len(s) : s[i] = v
  <2>1. After(s, now - Window) # <<>> /\ now - Window \in Int
    BY <1>1, <1>3
  <2> HIDE DEF s, now
  <2> QED
    BY <1>1, <2>1, AfterFirst
<1>5. PICK i \in 1..Len(s) : s[i] = v
  BY <1>4
<1>6. v \in Int
  BY <1>1, <1>5, ElementOfSeq
<1>7. call'[c].retry = v + Window - now
  BY <1>1, <1>3
<1>8. now - Window \in Int
  BY <1>1
<1>9. valid \in Seq(Int) /\ Leads(valid, g) /\ Len(valid) <= Len(s)
  <2> HIDE DEF s, g, now
  <2> QED
    BY <1>1, <1>8, AfterType, AfterLengths, LeadsEvicts
<1> HIDE DEF v, valid, s, g, now, e
<1>10. (now + call'[c].retry) - Window = v
  BY <1>1, <1>6, <1>7
<1>11. Len(After(g, v)) <= Len(After(valid, v))
  <2>1. 1 \in 1..Len(valid) /\ valid[1] = v
    BY <1>1, <1>3, <1>9, EmptySeq DEF v
  <2>2. Record(valid, 1)
    BY DEF Record
  <2> QED
    BY <1>9, <2>1, <2>2 DEF Leads
<1>12. Len(After(valid, v)) < Len(valid) /\ Len(After(valid, v)) \in Nat
  <2>1. 1 \in 1..Len(valid) /\ valid[1] = v
    BY <1>1, <1>3, <1>9, EmptySeq DEF v
  <2> QED
    BY <1>6, <1>9, <2>1, AfterLengths
<1>13. Len(After(g, v)) < Limit
  <2>1. Len(After(g, v)) \in Nat
    BY <1>1, <1>6, AfterLengths
  <2> QED
    BY <1>1, <1>2, <1>9, <1>11, <1>12, <2>1
<1>14. InWindow(g, now + call'[c].retry) = After(g, v)
  BY <1>10 DEF InWindow
<1> QED
  BY <1>13, <1>14 DEF g, e, now

(* Whoever is denied and waits RetryAfter finds fewer than Limit of the      *)
(* requests that were admitted when it was denied in its window, however     *)
(* long callers stall and in whatever order they were admitted.              *)
THEOREM RetryAfterIsEnough == Spec => RetryAfterSuffices
<1>1. IInv /\ [Next]_vars =>
        [\A c \in Callers :
           LET q == call[c] IN
           q.pc = "decide" /\ ~call'[c].allowed /\ Limit > 0 =>
               Len(InWindow(granted[q.entry], q.now + call'[c].retry)) < Limit]_vars
  BY RetryStep
<1> QED
  BY <1>1, LocalLimiterInvariance, PTL DEF Spec, RetryAfterSuffices

(* The step of DenialsHaveCause. *)
LEMMA DenyStep ==
    ASSUME IInv, [Next]_vars, NEW c \in Callers,
           call[c].pc = "decide", ~call'[c].allowed
    PROVE  Len(InWindow(granted[call[c].entry], call[c].now)) >= Limit
<1> DEFINE e == call[c].entry
           now == call[c].now
           s == timestamps[e]
           g == granted[e]
           edge == now - Window
<1>1. /\ EntryInv(s, g, clock) /\ s \in Seq(Int) /\ g \in Seq(Int)
      /\ now \in Int /\ clock \in Int /\ clock - Stall <= now
      /\ Len(After(s, edge)) \in Nat /\ Len(After(s, edge)) >= Limit
  BY Denial
<1> HIDE DEF s, g, now, e
<1>2. edge \in Int /\ edge >= clock - Window - Stall
  BY <1>1
<1> HIDE DEF edge
<1>3. Len(After(s, edge)) <= Len(After(g, edge))
  BY <1>1, <1>2 DEF EntryInv, Backed
<1>4. Len(After(g, edge)) \in Nat
  BY <1>1, <1>2, AfterLengths
<1>5. Len(After(g, edge)) >= Limit
  BY <1>1, <1>3, <1>4
<1> QED
  BY <1>5 DEF InWindow, edge, g, e, now

(* Nobody is denied without cause: the entry admitted Limit requests in the  *)
(* window of the one that it denies, whatever sweeps and resets came between. *)
THEOREM DenialsHaveCause == Spec => DeniedOnlyWhenFull
<1>1. IInv /\ [Next]_vars =>
        [\A c \in Callers :
           LET q == call[c] IN
           q.pc = "decide" /\ ~call'[c].allowed =>
               Len(InWindow(granted[q.entry], q.now)) >= Limit]_vars
  BY DenyStep
<1> QED
  BY <1>1, LocalLimiterInvariance, PTL DEF Spec, DeniedOnlyWhenFull

(* The step of SweepTakesOnlyStale: the last element is out by Stall at    *)
(* most.                                                                   *)
LEMMA SweepStep ==
    ASSUME IInv, [Next]_vars, NEW k \in Keys, cleaner = "sweeping",
           store[k] # Nil, store'[k] = Nil, NEW i \in DOMAIN timestamps[store[k]]
    PROVE  timestamps[store[k]][i] < clock - Window + Stall
<1> DEFINE s == timestamps[store[k]]
           n == Len(s)
<1>1. /\ store \in [Keys -> Entries \cup {Nil}] /\ store[k] \in Entries
      /\ clock \in Int /\ cutoff \in Int /\ cutoff <= clock - Window
  BY TimeType DEF IInv, Control, Cleaning
<1>2. /\ EntryInv(s, granted[store[k]], clock) /\ s \in Seq(Int)
      /\ n \in Nat /\ DOMAIN s = 1..n /\ \A j \in 1..n : s[j] \in Int
  BY <1>1, TimeType, LenProperties, ElementOfSeq DEF IInv, EntriesInv, EntryInv
<1>3. SweepKey(k) /\ Stale(store[k])
  <2>1. store' # store
    OBVIOUS
  <2>2. ~Close
    BY <2>1 DEF Close, Unlocked, limiter
  <2>3. ASSUME NEW c \in Callers, Allow(c) PROVE FALSE
    BY <2>1, <2>3 DEF Allow, Start, Lookup, Create, Decide, Unlocked, limiter
  <2>4. PICK l \in Keys : SweepKey(l)
    BY <2>1, <2>2, <2>3 DEF Next, vars, limiter, Reset, Cleanup, TakeTick, SweepBegin, SweepEnd,
                            CleanerStops, Advance
  <2>5. l = k /\ Stale(store[k])
    BY <1>1, <2>4 DEF SweepKey
  <2> QED
    BY <2>4, <2>5
<1>4. i \in 1..n /\ n \in 1..n
  BY <1>2
<1>5. s[n] < cutoff
  BY <1>2, <1>3, <1>4, EmptySeq DEF Stale
<1> HIDE DEF s, n
<1>6. s[i] <= s[n] + Stall
  <2>1. CASE i = n
    BY <1>2, <1>4, <2>1
  <2>2. CASE i # n
    <3>1. i \in 1..(n - 1)
      BY <1>2, <1>4, <2>2
    <3> QED
      BY <1>2, <1>4, <3>1 DEF EntryInv, Ordered, n
  <2> QED
    BY <2>1, <2>2
<1>7. s[i] < clock - Window + Stall
  BY <1>1, <1>2, <1>4, <1>5, <1>6
<1> QED
  BY <1>7 DEF s

(* A sweep takes no entry with a request that still counts, give or take     *)
(* the longest stall, although it looks at the last element only.            *)
THEOREM SweepTakesOnlyStale == Spec => SweepsOnlyStale
<1>1. IInv /\ [Next]_vars =>
        [\A k \in Keys :
           cleaner = "sweeping" /\ store[k] # Nil /\ store'[k] = Nil =>
               \A i \in DOMAIN timestamps[store[k]] :
                   timestamps[store[k]][i] < clock - Window + Stall]_vars
  BY SweepStep
<1> QED
  BY <1>1, LocalLimiterInvariance, PTL DEF Spec, SweepsOnlyStale

(* The step of EntryNeverReplaced. *)
LEMMA ReplaceStep ==
    ASSUME IInv, [Next]_vars, NEW k \in Keys, store[k] # Nil
    PROVE  store'[k] \in {store[k], Nil}
<1>1. store \in [Keys -> Entries \cup {Nil}]
  BY DEF IInv, Control
<1>2. ASSUME NEW c \in Callers, Allow(c) PROVE store'[k] = store[k]
  <2>1. ASSUME Create(c) PROVE store'[k] = store[k]
    <3>1. \/ store' = store
          \/ /\ store[call[c].key] = Nil
             /\ \E e \in Entries : store' = [store EXCEPT ![call[c].key] = e]
      BY <2>1 DEF Create
    <3> QED
      BY <1>1, <3>1
  <2> QED
    BY <1>2, <2>1 DEF Allow, Start, Lookup, Decide, limiter
<1>3. ASSUME NEW l \in Keys, SweepKey(l) PROVE store'[k] \in {store[k], Nil}
  BY <1>1, <1>3 DEF SweepKey
<1> QED
  BY <1>1, <1>2, <1>3 DEF Next, vars, limiter, Reset, Cleanup, TakeTick, SweepBegin, SweepEnd,
       CleanerStops, Close, Advance

(* getOrCreate never replaces an entry that callers may be counting on.      *)
THEOREM EntryNeverReplaced == Spec => EntryNotReplaced
<1>1. IInv /\ [Next]_vars =>
        [\A k \in Keys : store[k] # Nil => store'[k] \in {store[k], Nil}]_vars
  BY ReplaceStep
<1> QED
  BY <1>1, LocalLimiterInvariance, PTL DEF Spec, EntryNotReplaced
=============================================================================
