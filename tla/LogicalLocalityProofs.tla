----------------------- MODULE LogicalLocalityProofs -----------------------
(***************************************************************************)
(* LogicalLocality is proved for any number of fingerprints, backups and   *)
(* containers, and any configuration.                                      *)
(*                                                                         *)
(* IInv holds without a condition: the types, that recipes can be          *)
(* restored, and of the segments between dedup and filter phase that what  *)
(* is unique is the first of its copies, that an id is that of a container *)
(* with the chunk, and that the index buffer has as many ids of a chunk as *)
(* copies of it are in flight.  JInv adds what holds if ids of segments    *)
(* have room for sizes and offsets (IdsFit): ids lead to their segments,   *)
(* and from that what an exact index and champions promise.                *)
(***************************************************************************)
EXTENDS LogicalLocality, FiniteSetTheorems, SequenceTheorems, WellFoundedInduction, TLAPS

-----------------------------------------------------------------------------
(* Numbers.                                                                *)

\* A set of numbers that is not empty has a least one.
LEMMA LeastNumber ==
  ASSUME NEW S \in SUBSET Nat, S # {}
  PROVE  \E x \in S : \A y \in S : x <= y
<1>1. PICK x \in S : \A y \in S : ~ (<<y, x>> \in OpToRel(<, Nat))
  BY WFMin, NatLessThanWellFounded, Zenon
<1>2. \A y \in S : ~(y < x)
  BY <1>1, Zenon DEF OpToRel
<1> QED BY <1>2

\* Induction: what has 0 and with each number the next has all of them.
LEMMA Inductive ==
  ASSUME NEW S, 0 \in S, \A n \in Nat : n \in S => n + 1 \in S
  PROVE  \A n \in Nat : n \in S
<1> SUFFICES ASSUME Nat \ S # {} PROVE FALSE
  OBVIOUS
<1>1. PICK x \in Nat \ S : \A y \in Nat \ S : x <= y
  <2>1. Nat \ S \in SUBSET Nat
    OBVIOUS
  <2> QED BY <2>1, LeastNumber
<1>2. x # 0 /\ x - 1 \in Nat /\ ~(x <= x - 1) /\ x = (x - 1) + 1
  BY <1>1
<1>3. x - 1 \in S
  BY <1>1, <1>2
<1> QED BY <1>1, <1>2, <1>3

\* The greatest element of a set of numbers is its Max.
LEMMA MaxIs ==
  ASSUME NEW S, NEW n \in S, S \subseteq Nat, \A i \in S : i <= n
  PROVE  Max(S) = n
<1> DEFINE x == CHOOSE i \in S : \A j \in S : i >= j
<1>1. x \in S /\ \A j \in S : x >= j
  <2>1. \A j \in S : n >= j
    BY SMT
  <2> QED BY <2>1
<1> HIDE DEF x
<1>2. x >= n /\ x <= n /\ x \in Nat /\ n \in Nat
  BY <1>1, SMT
<1>3. x = n
  BY <1>2, SMT
<1> QED BY <1>3, Zenon DEF Max, x

-----------------------------------------------------------------------------
(* Folds over sequences.  The provers cannot instantiate a lemma with an   *)
(* operator for its parameter; the operators that the model folds have     *)
(* names here, and what FoldLeft computes is proved once for all of them.  *)

Step(op, v, e) ==
  IF op = "lookup" THEN LookupChunk(v, e)
  ELSE IF op = "prefetch" THEN Prefetch(v, e)
  ELSE IF op = "use" THEN Used(v, e)
  ELSE IF op = "filter" THEN FilterChunk(v, e)
  ELSE IF op = "keep" THEN Kept(v, e)
  ELSE IF op = "select" THEN SelectTop(v, e)
  ELSE v + Len(e) + 2

\* h is what MapThenFoldSet makes of the sets of the first m positions.
Folds(op, h, base, s, m) ==
  h = [S \in SUBSET (1..m) |->
         IF S = {} THEN base ELSE LET x == Max(S) IN Step(op, h[S \ {x}], s[x])]

\* g are the values of a fold, after each element of s.
Values(op, g, base, s) ==
  /\ g[0] = base
  /\ \A i \in 1..Len(s) : g[i] = Step(op, g[i - 1], s[i])

\* There is such a function.
LEMMA FoldsExist ==
  ASSUME NEW op, NEW base, NEW s
  PROVE  \A m \in Nat : \E h : Folds(op, h, base, s, m)
<1> DEFINE Good == {m \in Nat : \E h : Folds(op, h, base, s, m)}
<1>1. 0 \in Good
  <2>1. SUBSET (1..0) = {{}}
    BY SMT
  <2> DEFINE h == [S \in SUBSET (1..0) |-> base]
  <2>2. Folds(op, h, base, s, 0)
    BY <2>1, Zenon DEF Folds
  <2> QED BY <2>2, Zenon
<1>2. ASSUME NEW m \in Nat, m \in Good PROVE m + 1 \in Good
  <2>1. PICK g : Folds(op, g, base, s, m)
    BY <1>2, Zenon
  <2> DEFINE G(S) == IF m + 1 \in S THEN Step(op, g[S \ {m + 1}], s[m + 1]) ELSE g[S]
             h == [S \in SUBSET (1..(m + 1)) |-> G(S)]
  <2>2. ASSUME NEW S \in SUBSET (1..(m + 1))
        PROVE  G(S) = IF S = {} THEN base ELSE LET x == Max(S) IN Step(op, h[S \ {x}], s[x])
    <3>1. CASE m + 1 \in S
      <4>1. Max(S) = m + 1
        <5>1. \A i \in S : i <= m + 1
          BY SMT
        <5>2. S \subseteq Nat
          BY SMT
        <5> QED BY <5>1, <5>2, <3>1, MaxIs, Zenon
      <4>2. S \ {m + 1} \in SUBSET (1..(m + 1)) /\ m + 1 \notin S \ {m + 1}
        BY SMT
      <4>3. h[S \ {m + 1}] = g[S \ {m + 1}]
        BY <4>2, Zenon
      <4>4. S # {}
        BY <3>1
      <4> QED BY <3>1, <4>1, <4>3, <4>4, Zenon
    <3>2. CASE m + 1 \notin S /\ S = {}
      <4>1. {} \in SUBSET (1..m)
        OBVIOUS
      <4>2. g[{}] = base
        BY <2>1, <4>1, Zenon DEF Folds
      <4> QED BY <3>2, <4>2, Zenon
    <3>3. CASE m + 1 \notin S /\ S # {}
      <4>1. S \in SUBSET (1..m) /\ S \subseteq Nat
        BY <3>3, SMT
      <4>2. PICK n \in S : \A i \in S : i <= n
        <5> DEFINE Bound == {k \in Nat : \A i \in S : i <= k}
        <5>0. m \in Bound
          BY <4>1, SMT
        <5>1. PICK n \in Bound : \A k \in Bound : n <= k
          <6>1. Bound \in SUBSET Nat /\ Bound # {}
            BY <5>0
          <6> HIDE DEF Bound
          <6> QED BY <6>1, LeastNumber, Zenon
        <5>2. CASE n \in S
          BY <5>1, <5>2
        <5>3. CASE n \notin S
          <6>1. PICK k \in S : TRUE
            BY <3>3
          <6>2. n \in Nat /\ k \in Nat /\ k <= n /\ k # n
            BY <5>1, <5>3, <4>1
          <6>3. n - 1 \in Nat /\ ~(n <= n - 1)
            BY <6>2
          <6>4. ASSUME NEW i \in S PROVE i <= n - 1
            <7>1. i \in Nat /\ i <= n /\ i # n
              BY <5>1, <5>3, <4>1
            <7> QED BY <7>1, <6>2
          <6>5. n - 1 \in Bound
            BY <6>3, <6>4
          <6> QED BY <6>3, <6>5, <5>1
        <5> QED BY <5>2, <5>3
      <4>3. Max(S) = n
        BY <4>1, <4>2, MaxIs, Zenon
      <4>4. S \ {n} \in SUBSET (1..(m + 1)) /\ m + 1 \notin S \ {n}
        BY <3>3, SMT
      <4>5. h[S \ {n}] = g[S \ {n}]
        BY <4>4, Zenon
      <4>6. g[S] = Step(op, g[S \ {n}], s[n])
        BY <2>1, <4>1, <4>3, <3>3, Zenon DEF Folds
      <4> QED BY <3>3, <4>3, <4>5, <4>6, Zenon
    <3> QED BY <3>1, <3>2, <3>3, Zenon
  <2>3. Folds(op, h, base, s, m + 1)
    BY <2>2, Zenon DEF Folds
  <2>4. m + 1 \in Nat
    BY SMT
  <2> QED BY <2>3, <2>4, Zenon
<1> HIDE DEF Good
<1>3. \A m \in Nat : m \in Good
  BY <1>1, <1>2, Inductive
<1> QED BY <1>3, Zenon DEF Good

\* It gives the values one after the other.
LEMMA FoldValues ==
  ASSUME NEW op, NEW base, NEW T, NEW s \in Seq(T), NEW h, Folds(op, h, base, s, Len(s))
  PROVE  \E g : Values(op, g, base, s) /\ h[1..Len(s)] = g[Len(s)]
<1> DEFINE n == Len(s)
           g == [i \in 0..n |-> h[1..i]]
<1>1. n \in Nat /\ DOMAIN s = 1..n
  BY Zenon, LenProperties
<1>2. Folds(op, h, base, s, n)
  OBVIOUS
<1>4. ASSUME NEW i \in 0..n PROVE g[i] = h[1..i]
  OBVIOUS
<1>5. 0 \in 0..n /\ n \in 0..n /\ 1..0 = {} /\ {} \in SUBSET (1..n)
  BY <1>1
<1>6. g[0] = base
  <2>1. g[0] = h[{}]
    BY <1>4, <1>5
  <2>2. h[{}] = base
    BY <1>2, <1>5, Zenon DEF Folds
  <2> QED BY <2>1, <2>2
<1>7. ASSUME NEW i \in 1..n PROVE g[i] = Step(op, g[i - 1], s[i])
  <2>1. i \in 0..n /\ i - 1 \in 0..n /\ 1..i \in SUBSET (1..n) /\ 1..i # {}
        /\ (1..i) \ {i} = 1..(i - 1) /\ 1..i \subseteq Nat /\ i \in 1..i /\ \A j \in 1..i : j <= i
    BY <1>1, SMTT(30)
  <2>2. Max(1..i) = i
    BY <2>1, MaxIs, Zenon
  <2>3. h[1..i] = Step(op, h[1..(i - 1)], s[i])
    BY <1>2, <2>1, <2>2, Zenon DEF Folds
  <2>4. g[i] = h[1..i] /\ g[i - 1] = h[1..(i - 1)]
    BY <1>4, <2>1, Zenon
  <2> QED BY <2>3, <2>4, Zenon
<1>8. h[1..n] = g[n]
  BY <1>4, <1>5, Zenon
<1> HIDE DEF g
<1>9. Values(op, g, base, s)
  BY <1>6, <1>7, Zenon DEF Values
<1> QED BY <1>8, <1>9, Zenon

\* The fold of LookupChunk.
LEMMA LookupFold ==
  ASSUME NEW base, NEW T, NEW s \in Seq(T)
  PROVE  \E g : Values("lookup", g, base, s) /\ FoldLeft(LookupChunk, base, s) = g[Len(s)]
<1> DEFINE Raw(h) ==
      h = [S \in SUBSET (1..Len(s)) |->
             IF S = {} THEN base ELSE LET x == Max(S) IN LookupChunk(h[S \ {x}], s[x])]
<1>1. DOMAIN s = 1..Len(s) /\ Len(s) \in Nat
  BY LenProperties, Zenon
<1>2. \A v, e : Step("lookup", v, e) = LookupChunk(v, e)
  BY DEF Step
<1>3. ASSUME NEW h PROVE Raw(h) <=> Folds("lookup", h, base, s, Len(s))
  BY <1>2, Zenon DEF Folds
<1>4. \E h : Raw(h)
  BY <1>1, <1>3, FoldsExist, Zenon
<1> DEFINE iter == CHOOSE h : Raw(h)
<1>5. Raw(iter)
  BY <1>4, Zenon
<1>6. FoldLeft(LookupChunk, base, s) = iter[1..Len(s)]
  BY <1>1, Zenon DEF FoldLeft, MapThenFoldSet
<1> HIDE DEF iter
<1>7. Folds("lookup", iter, base, s, Len(s))
  BY <1>3, <1>5, Zenon
<1>8. PICK g : Values("lookup", g, base, s) /\ iter[1..Len(s)] = g[Len(s)]
  BY <1>7, FoldValues
<1> QED BY <1>6, <1>8, Zenon

\* The fold of Prefetch.
LEMMA PrefetchFold ==
  ASSUME NEW base, NEW T, NEW s \in Seq(T)
  PROVE  \E g : Values("prefetch", g, base, s) /\ FoldLeft(Prefetch, base, s) = g[Len(s)]
<1> DEFINE Raw(h) ==
      h = [S \in SUBSET (1..Len(s)) |->
             IF S = {} THEN base ELSE LET x == Max(S) IN Prefetch(h[S \ {x}], s[x])]
<1>1. DOMAIN s = 1..Len(s) /\ Len(s) \in Nat
  BY LenProperties, Zenon
<1>2. \A v, e : Step("prefetch", v, e) = Prefetch(v, e)
  BY DEF Step
<1>3. ASSUME NEW h PROVE Raw(h) <=> Folds("prefetch", h, base, s, Len(s))
  BY <1>2, Zenon DEF Folds
<1>4. \E h : Raw(h)
  BY <1>1, <1>3, FoldsExist, Zenon
<1> DEFINE iter == CHOOSE h : Raw(h)
<1>5. Raw(iter)
  BY <1>4, Zenon
<1>6. FoldLeft(Prefetch, base, s) = iter[1..Len(s)]
  BY <1>1, Zenon DEF FoldLeft, MapThenFoldSet
<1> HIDE DEF iter
<1>7. Folds("prefetch", iter, base, s, Len(s))
  BY <1>3, <1>5, Zenon
<1>8. PICK g : Values("prefetch", g, base, s) /\ iter[1..Len(s)] = g[Len(s)]
  BY <1>7, FoldValues
<1> QED BY <1>6, <1>8, Zenon

\* The fold of Used.
LEMMA UsedFold ==
  ASSUME NEW base, NEW T, NEW s \in Seq(T)
  PROVE  \E g : Values("use", g, base, s) /\ FoldLeft(Used, base, s) = g[Len(s)]
<1> DEFINE Raw(h) ==
      h = [S \in SUBSET (1..Len(s)) |->
             IF S = {} THEN base ELSE LET x == Max(S) IN Used(h[S \ {x}], s[x])]
<1>1. DOMAIN s = 1..Len(s) /\ Len(s) \in Nat
  BY LenProperties, Zenon
<1>2. \A v, e : Step("use", v, e) = Used(v, e)
  BY DEF Step
<1>3. ASSUME NEW h PROVE Raw(h) <=> Folds("use", h, base, s, Len(s))
  BY <1>2, Zenon DEF Folds
<1>4. \E h : Raw(h)
  BY <1>1, <1>3, FoldsExist, Zenon
<1> DEFINE iter == CHOOSE h : Raw(h)
<1>5. Raw(iter)
  BY <1>4, Zenon
<1>6. FoldLeft(Used, base, s) = iter[1..Len(s)]
  BY <1>1, Zenon DEF FoldLeft, MapThenFoldSet
<1> HIDE DEF iter
<1>7. Folds("use", iter, base, s, Len(s))
  BY <1>3, <1>5, Zenon
<1>8. PICK g : Values("use", g, base, s) /\ iter[1..Len(s)] = g[Len(s)]
  BY <1>7, FoldValues
<1> QED BY <1>6, <1>8, Zenon

\* The fold of FilterChunk.
LEMMA FilterFold ==
  ASSUME NEW base, NEW T, NEW s \in Seq(T)
  PROVE  \E g : Values("filter", g, base, s) /\ FoldLeft(FilterChunk, base, s) = g[Len(s)]
<1> DEFINE Raw(h) ==
      h = [S \in SUBSET (1..Len(s)) |->
             IF S = {} THEN base ELSE LET x == Max(S) IN FilterChunk(h[S \ {x}], s[x])]
<1>1. DOMAIN s = 1..Len(s) /\ Len(s) \in Nat
  BY LenProperties, Zenon
<1>2. \A v, e : Step("filter", v, e) = FilterChunk(v, e)
  BY DEF Step
<1>3. ASSUME NEW h PROVE Raw(h) <=> Folds("filter", h, base, s, Len(s))
  BY <1>2, Zenon DEF Folds
<1>4. \E h : Raw(h)
  BY <1>1, <1>3, FoldsExist, Zenon
<1> DEFINE iter == CHOOSE h : Raw(h)
<1>5. Raw(iter)
  BY <1>4, Zenon
<1>6. FoldLeft(FilterChunk, base, s) = iter[1..Len(s)]
  BY <1>1, Zenon DEF FoldLeft, MapThenFoldSet
<1> HIDE DEF iter
<1>7. Folds("filter", iter, base, s, Len(s))
  BY <1>3, <1>5, Zenon
<1>8. PICK g : Values("filter", g, base, s) /\ iter[1..Len(s)] = g[Len(s)]
  BY <1>7, FoldValues
<1> QED BY <1>6, <1>8, Zenon

\* The fold of Kept.
LEMMA KeptFold ==
  ASSUME NEW base, NEW T, NEW s \in Seq(T)
  PROVE  \E g : Values("keep", g, base, s) /\ FoldLeft(Kept, base, s) = g[Len(s)]
<1> DEFINE Raw(h) ==
      h = [S \in SUBSET (1..Len(s)) |->
             IF S = {} THEN base ELSE LET x == Max(S) IN Kept(h[S \ {x}], s[x])]
<1>1. DOMAIN s = 1..Len(s) /\ Len(s) \in Nat
  BY LenProperties, Zenon
<1>2. \A v, e : Step("keep", v, e) = Kept(v, e)
  BY DEF Step
<1>3. ASSUME NEW h PROVE Raw(h) <=> Folds("keep", h, base, s, Len(s))
  BY <1>2, Zenon DEF Folds
<1>4. \E h : Raw(h)
  BY <1>1, <1>3, FoldsExist, Zenon
<1> DEFINE iter == CHOOSE h : Raw(h)
<1>5. Raw(iter)
  BY <1>4, Zenon
<1>6. FoldLeft(Kept, base, s) = iter[1..Len(s)]
  BY <1>1, Zenon DEF FoldLeft, MapThenFoldSet
<1> HIDE DEF iter
<1>7. Folds("keep", iter, base, s, Len(s))
  BY <1>3, <1>5, Zenon
<1>8. PICK g : Values("keep", g, base, s) /\ iter[1..Len(s)] = g[Len(s)]
  BY <1>7, FoldValues
<1> QED BY <1>6, <1>8, Zenon

\* The fold of SelectTop.
LEMMA SelectFold ==
  ASSUME NEW base, NEW T, NEW s \in Seq(T)
  PROVE  \E g : Values("select", g, base, s) /\ FoldLeft(SelectTop, base, s) = g[Len(s)]
<1> DEFINE Raw(h) ==
      h = [S \in SUBSET (1..Len(s)) |->
             IF S = {} THEN base ELSE LET x == Max(S) IN SelectTop(h[S \ {x}], s[x])]
<1>1. DOMAIN s = 1..Len(s) /\ Len(s) \in Nat
  BY LenProperties, Zenon
<1>2. \A v, e : Step("select", v, e) = SelectTop(v, e)
  BY DEF Step
<1>3. ASSUME NEW h PROVE Raw(h) <=> Folds("select", h, base, s, Len(s))
  BY <1>2, Zenon DEF Folds
<1>4. \E h : Raw(h)
  BY <1>1, <1>3, FoldsExist, Zenon
<1> DEFINE iter == CHOOSE h : Raw(h)
<1>5. Raw(iter)
  BY <1>4, Zenon
<1>6. FoldLeft(SelectTop, base, s) = iter[1..Len(s)]
  BY <1>1, Zenon DEF FoldLeft, MapThenFoldSet
<1> HIDE DEF iter
<1>7. Folds("select", iter, base, s, Len(s))
  BY <1>3, <1>5, Zenon
<1>8. PICK g : Values("select", g, base, s) /\ iter[1..Len(s)] = g[Len(s)]
  BY <1>7, FoldValues
<1> QED BY <1>6, <1>8, Zenon

\* The fold that Offset is made of.
LEMMA PastFold ==
  ASSUME NEW base, NEW T, NEW s \in Seq(T)
  PROVE  \E g : Values("past", g, base, s) /\ FoldLeft(LAMBDA n, e : n + Len(e) + 2, base, s) = g[Len(s)]
<1> DEFINE Raw(h) ==
      h = [S \in SUBSET (1..Len(s)) |->
             IF S = {} THEN base ELSE LET x == Max(S) IN h[S \ {x}] + Len(s[x]) + 2]
<1>1. DOMAIN s = 1..Len(s) /\ Len(s) \in Nat
  BY LenProperties, Zenon
<1>2. \A v, e : Step("past", v, e) = v + Len(e) + 2
  BY DEF Step
<1>3. ASSUME NEW h PROVE Raw(h) <=> Folds("past", h, base, s, Len(s))
  BY <1>2, ZenonT(40) DEF Folds
<1>4. \E h : Raw(h)
  BY <1>1, <1>3, FoldsExist, Zenon
<1> DEFINE iter == CHOOSE h : Raw(h)
<1>5. Raw(iter)
  BY <1>4, Zenon
<1>6. FoldLeft(LAMBDA n, e : n + Len(e) + 2, base, s) = iter[1..Len(s)]
  BY <1>1, Zenon DEF FoldLeft, MapThenFoldSet
<1> HIDE DEF iter
<1>7. Folds("past", iter, base, s, Len(s))
  BY <1>3, <1>5, Zenon
<1>8. PICK g : Values("past", g, base, s) /\ iter[1..Len(s)] = g[Len(s)]
  BY <1>7, FoldValues
<1> QED BY <1>6, <1>8, Zenon

-----------------------------------------------------------------------------
(* Sums.                                                                   *)

\* t is the sum of the first n numbers of w.
Sum(w, n, t) ==
  \E g \in [0..n -> Nat] :
    g[0] = 0 /\ g[n] = t /\ \A k \in 1..n : g[k] = g[k - 1] + w[k]

LEMMA SumNone ==
  ASSUME NEW w
  PROVE  Sum(w, 0, 0)
<1> DEFINE g == [k \in 0..0 |-> 0]
<1>1. g \in [0..0 -> Nat] /\ g[0] = 0 /\ \A k \in 1..0 : g[k] = g[k - 1] + w[k]
  OBVIOUS
<1> HIDE DEF g
<1> QED BY <1>1, Zenon DEF Sum

\* One more number.
LEMMA SumAppend ==
  ASSUME NEW n \in Nat, NEW w, NEW v, NEW t \in Nat, NEW d \in Nat, Sum(w, n, t),
         \A k \in 1..n : v[k] = w[k], v[n + 1] = d
  PROVE  Sum(v, n + 1, t + d)
<1>1. PICK g \in [0..n -> Nat] :
        g[0] = 0 /\ g[n] = t /\ \A k \in 1..n : g[k] = g[k - 1] + w[k]
  BY Zenon DEF Sum
<1> DEFINE h == [k \in 0..(n + 1) |-> IF k = n + 1 THEN t + d ELSE g[k]]
<1>2. h[n + 1] = t + d /\ \A k \in 0..n : h[k] = g[k] /\ g[k] \in Nat
  <2>1. n + 1 \in 0..(n + 1) /\ \A k \in 0..n : k \in 0..(n + 1) /\ k # n + 1
    OBVIOUS
  <2> QED BY <2>1
<1>3. h \in [0..(n + 1) -> Nat]
  <2>1. t + d \in Nat /\ \A k \in 0..(n + 1) : k # n + 1 => k \in 0..n
    OBVIOUS
  <2> QED BY <2>1
<1>4. ASSUME NEW k \in 1..(n + 1) PROVE h[k] = h[k - 1] + v[k]
  <2>1. CASE k = n + 1
    <3>1. k - 1 = n /\ n \in 0..n
      BY <2>1
    <3> QED BY <1>1, <1>2, <2>1, <3>1
  <2>2. CASE k # n + 1
    <3>1. k \in 1..n /\ k \in 0..n /\ k - 1 \in 0..n
      BY <2>2
    <3> QED BY <1>1, <1>2, <3>1
  <2> QED BY <2>1, <2>2
<1>5. h[0] = 0
  <2>1. 0 \in 0..n
    OBVIOUS
  <2> QED BY <1>1, <1>2, <2>1
<1> HIDE DEF h
<1> QED BY <1>2, <1>3, <1>4, <1>5 DEF Sum

\* The last number grows.
LEMMA SumGrow ==
  ASSUME NEW n \in Nat, n # 0, NEW w, NEW v, NEW t \in Nat, NEW d \in Nat, Sum(w, n, t),
         \A k \in 1..(n - 1) : v[k] = w[k], w[n] \in Nat, v[n] = w[n] + d
  PROVE  Sum(v, n, t + d)
<1>1. PICK g \in [0..n -> Nat] :
        g[0] = 0 /\ g[n] = t /\ \A k \in 1..n : g[k] = g[k - 1] + w[k]
  BY Zenon DEF Sum
<1> DEFINE h == [k \in 0..n |-> IF k = n THEN t + d ELSE g[k]]
<1>2. h[n] = t + d /\ \A k \in 0..(n - 1) : h[k] = g[k] /\ g[k] \in Nat
  <2>1. n \in 0..n /\ \A k \in 0..(n - 1) : k \in 0..n /\ k # n
    OBVIOUS
  <2> QED BY <2>1
<1>3. h \in [0..n -> Nat]
  <2>1. t + d \in Nat
    OBVIOUS
  <2> QED BY <2>1
<1>4. ASSUME NEW k \in 1..n PROVE h[k] = h[k - 1] + v[k]
  <2>1. k - 1 \in 0..(n - 1)
    OBVIOUS
  <2>2. g[k] = g[k - 1] + w[k] /\ g[k - 1] \in Nat
    BY <1>1, <1>2, <2>1
  <2>3. CASE k = n
    BY <1>1, <1>2, <2>1, <2>2, <2>3
  <2>4. CASE k # n
    <3>1. k \in 1..(n - 1) /\ k \in 0..(n - 1)
      BY <2>4
    <3> QED BY <1>2, <2>1, <2>2, <3>1
  <2> QED BY <2>3, <2>4
<1>5. h[0] = 0
  <2>1. 0 \in 0..(n - 1)
    OBVIOUS
  <2> QED BY <1>1, <1>2, <2>1
<1> HIDE DEF h
<1> QED BY <1>2, <1>3, <1>4, <1>5 DEF Sum

\* The first number goes.
LEMMA SumTail ==
  ASSUME NEW n \in Nat, n # 0, NEW w \in [1..n -> Nat], NEW v, NEW t \in Nat, Sum(w, n, t),
         \A k \in 1..(n - 1) : v[k] = w[k + 1]
  PROVE  w[1] <= t /\ Sum(v, n - 1, t - w[1])
<1>1. PICK g \in [0..n -> Nat] :
        g[0] = 0 /\ g[n] = t /\ \A k \in 1..n : g[k] = g[k - 1] + w[k]
  BY Zenon DEF Sum
<1>2. w[1] \in Nat /\ g[1] = w[1]
  <2>1. 1 \in 1..n /\ 1 - 1 = 0
    OBVIOUS
  <2> QED BY <1>1, <2>1
<1> DEFINE S == {k \in Nat : k + 1 <= n => w[1] <= g[k + 1]}
<1>3. 0 \in S
  BY <1>2
<1>4. ASSUME NEW k \in Nat, k \in S PROVE k + 1 \in S
  <2>1. ASSUME (k + 1) + 1 <= n PROVE w[1] <= g[(k + 1) + 1]
    <3>1. k + 1 \in 0..n /\ (k + 1) + 1 \in 1..n /\ ((k + 1) + 1) - 1 = k + 1 /\ k + 1 <= n
      BY <2>1
    <3>2. w[1] <= g[k + 1]
      BY <1>4, <3>1
    <3>3. g[(k + 1) + 1] = g[k + 1] + w[(k + 1) + 1] /\ g[k + 1] \in Nat /\ w[(k + 1) + 1] \in Nat
      BY <1>1, <3>1
    <3>4. \A a, b, c \in Nat : a <= b => a <= b + c
      OBVIOUS
    <3> QED BY <1>2, <3>2, <3>3, <3>4, Zenon
  <2> QED BY <2>1
<1> HIDE DEF S
<1>5. \A k \in Nat : k \in S
  BY <1>3, <1>4, Inductive
<1>6. ASSUME NEW k \in 0..(n - 1) PROVE g[k + 1] \in Nat /\ w[1] <= g[k + 1]
  <2>1. k \in Nat /\ k + 1 <= n /\ k + 1 \in 0..n
    OBVIOUS
  <2> QED BY <1>1, <1>5, <2>1 DEF S
<1> DEFINE h == [k \in 0..(n - 1) |-> g[k + 1] - w[1]]
<1>7. h \in [0..(n - 1) -> Nat]
  BY <1>2, <1>6
<1>8. h[0] = 0 /\ h[n - 1] = t - w[1]
  <2>1. 0 \in 0..(n - 1) /\ n - 1 \in 0..(n - 1) /\ (n - 1) + 1 = n /\ 0 + 1 = 1
    OBVIOUS
  <2> QED BY <1>1, <1>2, <2>1
<1>9. ASSUME NEW k \in 1..(n - 1) PROVE h[k] = h[k - 1] + v[k]
  <2>1. k \in 0..(n - 1) /\ k - 1 \in 0..(n - 1) /\ (k - 1) + 1 = k /\ k + 1 \in 1..n /\ (k + 1) - 1 = k
    OBVIOUS
  <2>2. g[k + 1] = g[k] + w[k + 1] /\ v[k] = w[k + 1] /\ w[k + 1] \in Nat
    BY <1>1, <2>1
  <2>3. g[k] \in Nat /\ h[k] = g[k + 1] - w[1] /\ h[k - 1] = g[k] - w[1]
    <3>1. k \in 0..n
      OBVIOUS
    <3> QED BY <2>1, <3>1, <1>1
  <2> HIDE DEF h
  <2> QED BY <1>2, <2>2, <2>3
<1>10. w[1] <= t
  <2>1. n - 1 \in 0..(n - 1) /\ (n - 1) + 1 = n
    OBVIOUS
  <2> QED BY <1>1, <1>6, <2>1
<1> HIDE DEF h
<1> QED BY <1>7, <1>8, <1>9, <1>10 DEF Sum

\* No number is larger than the sum.
LEMMA SumBounds ==
  ASSUME NEW n \in Nat, NEW w \in [1..n -> Nat], NEW t \in Nat, Sum(w, n, t)
  PROVE  \A k \in 1..n : w[k] <= t
<1>1. PICK g \in [0..n -> Nat] :
        g[0] = 0 /\ g[n] = t /\ \A k \in 1..n : g[k] = g[k - 1] + w[k]
  BY Zenon DEF Sum
<1> SUFFICES ASSUME NEW j \in 1..n PROVE w[j] <= t
  OBVIOUS
<1> DEFINE S == {k \in Nat : j + k <= n => w[j] <= g[j + k]}
<1>2. g[j - 1] \in Nat /\ w[j] \in Nat /\ g[j] = g[j - 1] + w[j]
  <2>1. j - 1 \in 0..n
    OBVIOUS
  <2> QED BY <1>1, <2>1
<1>3. 0 \in S
  BY <1>2
<1>4. ASSUME NEW k \in Nat, k \in S PROVE k + 1 \in S
  <2>1. ASSUME j + (k + 1) <= n PROVE w[j] <= g[j + (k + 1)]
    <3>1. j + k \in 0..n /\ j + (k + 1) \in 1..n /\ (j + (k + 1)) - 1 = j + k /\ j + k <= n
      BY <2>1
    <3>2. w[j] <= g[j + k]
      BY <1>4, <3>1
    <3>3. g[j + (k + 1)] = g[j + k] + w[j + (k + 1)] /\ g[j + k] \in Nat /\ w[j + (k + 1)] \in Nat
      BY <1>1, <3>1
    <3>4. \A a, b, c \in Nat : a <= b => a <= b + c
      OBVIOUS
    <3> QED BY <1>2, <3>2, <3>3, <3>4, Zenon
  <2> QED BY <2>1
<1> HIDE DEF S
<1>5. \A k \in Nat : k \in S
  BY <1>3, <1>4, Inductive
<1>6. n - j \in Nat /\ j + (n - j) = n
  OBVIOUS
<1>7. j + (n - j) <= n => w[j] <= g[j + (n - j)]
  BY <1>5, <1>6 DEF S
<1> QED BY <1>1, <1>6, <1>7

-----------------------------------------------------------------------------
(* Segment ids.                                                            *)

\* The parts of an id, when they fit.
LEMMA IdParts ==
  ASSUME NEW b \in Nat, NEW o \in Nat, NEW n \in Nat, o < OffRange, n < SizeRange
  PROVE  /\ make_segment_id(b, o, n) \in Nat
         /\ id_to_bnum(make_segment_id(b, o, n)) = b
         /\ id_to_off(make_segment_id(b, o, n)) = o
<1> DEFINE x == b * OffRange + o
<1>1. OffRange \in Nat /\ SizeRange \in Nat /\ OffRange # 0 /\ SizeRange # 0
  BY LogicalAssumption
<1>2. x \in Nat
  BY <1>1
<1>3. x \div OffRange = b
  BY <1>1, SMTT(30)
<1>4. x % OffRange = o
  BY <1>1, SMTT(30)
<1>5. make_segment_id(b, o, n) = x * SizeRange + n
  BY DEF make_segment_id
<1> HIDE DEF x
<1>6. x * SizeRange + n \in Nat /\ (x * SizeRange + n) \div SizeRange = x
  BY <1>1, <1>2, SMTT(30)
<1> QED BY <1>3, <1>4, <1>5, <1>6 DEF id_to_bnum, id_to_off

\* What a recipe takes before its end, in chunk pointers, and before segment k.
PastOf(r) == FoldLeft(LAMBDA n, s : n + Len(s) + 2, 0, r)
PastIn(r, k) == PastOf(SubSeq(r, 1, k - 1))

LEMMA OffsetIs ==
  ASSUME NEW b, NEW k
  PROVE  Offset(b, k) = PointerSize * PastIn(recipes[b + 1], k)
BY Zenon DEF Offset, PastIn, PastOf

\* The values of that fold are numbers.
LEMMA PastValues ==
  ASSUME NEW T, NEW r \in Seq(Seq(T)), NEW g, Values("past", g, 0, r)
  PROVE  \A i \in 0..Len(r) : g[i] \in Nat
<1>1. Len(r) \in Nat
  OBVIOUS
<1> DEFINE S == {i \in Nat : i <= Len(r) => g[i] \in Nat}
<1>2. 0 \in S
  BY DEF Values
<1>3. ASSUME NEW i \in Nat, i \in S PROVE i + 1 \in S
  <2>1. ASSUME i + 1 <= Len(r) PROVE g[i + 1] \in Nat
    <3>1. i + 1 \in 1..Len(r) /\ (i + 1) - 1 = i /\ i <= Len(r)
      BY <1>1, <2>1
    <3>2. g[i + 1] = g[i] + Len(r[i + 1]) + 2
      BY <3>1 DEF Values, Step
    <3>3. g[i] \in Nat /\ r[i + 1] \in Seq(T)
      BY <1>3, <3>1
    <3>4. Len(r[i + 1]) \in Nat
      BY <3>3
    <3> QED BY <3>2, <3>3, <3>4
  <2> QED BY <2>1
<1> HIDE DEF S
<1>4. \A i \in Nat : i \in S
  BY <1>2, <1>3, Inductive
<1> QED BY <1>1, <1>4 DEF S

LEMMA PastType ==
  ASSUME NEW T, NEW r \in Seq(Seq(T))
  PROVE  PastOf(r) \in Nat
<1>1. PICK g : Values("past", g, 0, r) /\ PastOf(r) = g[Len(r)]
  BY PastFold, Zenon DEF PastOf
<1>2. Len(r) \in 0..Len(r)
  <2>1. Len(r) \in Nat
    OBVIOUS
  <2> QED BY <2>1
<1> QED BY <1>1, <1>2, PastValues, Zenon

LEMMA PastNone ==
  PastOf(<<>>) = 0
<1>1. <<>> \in Seq({}) /\ Len(<<>>) = 0
  OBVIOUS
<1>2. PICK g : Values("past", g, 0, <<>>) /\ PastOf(<<>>) = g[Len(<<>>)]
  BY <1>1, PastFold, Zenon DEF PastOf
<1> QED BY <1>1, <1>2, Zenon DEF Values

\* A segment more.
LEMMA PastAppend ==
  ASSUME NEW T, NEW r \in Seq(Seq(T)), NEW s \in Seq(T)
  PROVE  PastOf(Append(r, s)) = PastOf(r) + Len(s) + 2
<1> DEFINE q == Append(r, s)
<1>1. q \in Seq(Seq(T)) /\ Len(r) \in Nat /\ Len(q) = Len(r) + 1
      /\ q[Len(r) + 1] = s /\ \A i \in 1..Len(r) : q[i] = r[i]
  BY AppendProperties
<1>2. PICK g : Values("past", g, 0, r) /\ PastOf(r) = g[Len(r)]
  BY PastFold, Zenon DEF PastOf
<1> SUFFICES PastOf(q) = PastOf(r) + Len(s) + 2
  OBVIOUS
<1> HIDE DEF q
<1>3. PICK h : Values("past", h, 0, q) /\ PastOf(q) = h[Len(q)]
  BY <1>1, PastFold, Zenon DEF PastOf
<1> DEFINE S == {i \in Nat : i <= Len(r) => g[i] = h[i]}
<1>4. 0 \in S
  BY <1>2, <1>3 DEF Values
<1>5. ASSUME NEW i \in Nat, i \in S PROVE i + 1 \in S
  <2>1. ASSUME i + 1 <= Len(r) PROVE g[i + 1] = h[i + 1]
    <3>1. i + 1 \in 1..Len(r) /\ i + 1 \in 1..Len(q) /\ (i + 1) - 1 = i /\ i <= Len(r)
      BY <1>1, <2>1
    <3>2. g[i + 1] = Step("past", g[i], r[i + 1]) /\ h[i + 1] = Step("past", h[i], q[i + 1])
      BY <1>2, <1>3, <3>1 DEF Values
    <3> QED BY <1>1, <1>5, <3>1, <3>2
  <2> QED BY <2>1
<1> HIDE DEF S
<1>6. \A i \in Nat : i \in S
  BY <1>4, <1>5, Inductive
<1>7. g[Len(r)] = h[Len(r)]
  <2>1. Len(r) <= Len(r)
    BY <1>1
  <2> QED BY <1>1, <1>6, <2>1 DEF S
<1>8. h[Len(q)] = Step("past", h[Len(r)], q[Len(q)])
  <2>1. Len(q) \in 1..Len(q) /\ Len(q) - 1 = Len(r)
    BY <1>1
  <2> QED BY <1>3, <2>1 DEF Values
<1> QED BY <1>1, <1>2, <1>3, <1>7, <1>8 DEF Step

\* Where the segments of a recipe begin, and those of a longer one.
LEMMA PastInIs ==
  ASSUME NEW T, NEW r \in Seq(Seq(T))
  PROVE  /\ \A k \in 1..(Len(r) + 1) : PastIn(r, k) \in Nat
         /\ \A k \in 1..Len(r) : PastIn(r, k + 1) = PastIn(r, k) + Len(r[k]) + 2
         /\ PastIn(r, Len(r) + 1) = PastOf(r)
         /\ \A s \in Seq(T) : \A k \in 1..(Len(r) + 1) : PastIn(Append(r, s), k) = PastIn(r, k)
<1>1. Len(r) \in Nat
  OBVIOUS
<1>2. ASSUME NEW k \in 1..(Len(r) + 1)
      PROVE  /\ SubSeq(r, 1, k - 1) \in Seq(Seq(T)) /\ Len(SubSeq(r, 1, k - 1)) = k - 1
             /\ \A i \in 1..(k - 1) : SubSeq(r, 1, k - 1)[i] = r[i]
  <2>1. \A i \in 1..(k - 1) : r[i] \in Seq(T)
    <3>1. \A i \in 1..(k - 1) : i \in 1..Len(r)
      BY <1>1
    <3> QED BY <3>1
  <2>2. k - 1 \in Int /\ 1 \in Int /\ 1 <= k /\ k \in Int
    BY <1>1
  <2>3. PICK m \in Int : m = k - 1
    BY <2>2
  <2>4. /\ SubSeq(r, 1, m) \in Seq(Seq(T)) /\ Len(SubSeq(r, 1, m)) = IF 1 <= m THEN m - 1 + 1 ELSE 0
        /\ \A i \in 1..(m - 1 + 1) : SubSeq(r, 1, m)[i] = r[1 + i - 1]
    BY <2>1, <2>2, <2>3, SubSeqProperties
  <2>5. Len(SubSeq(r, 1, m)) = m
    BY <2>2, <2>3, <2>4
  <2>6. ASSUME NEW i \in 1..m PROVE SubSeq(r, 1, m)[i] = r[i]
    <3>1. i \in 1..(m - 1 + 1) /\ 1 + i - 1 = i
      OBVIOUS
    <3> QED BY <2>4, <3>1
  <2> QED BY <2>3, <2>4, <2>5, <2>6
<1>3. ASSUME NEW k \in 1..(Len(r) + 1) PROVE PastIn(r, k) \in Nat
  BY <1>2, PastType, Zenon DEF PastIn
<1>4. ASSUME NEW k \in 1..Len(r) PROVE PastIn(r, k + 1) = PastIn(r, k) + Len(r[k]) + 2
  <2>1. k \in 1..(Len(r) + 1) /\ k + 1 \in 1..(Len(r) + 1) /\ (k + 1) - 1 = k
    BY <1>1
  <2> DEFINE p == SubSeq(r, 1, k - 1)
             q == SubSeq(r, 1, k)
  <2>2. p \in Seq(Seq(T)) /\ Len(p) = k - 1 /\ \A i \in 1..(k - 1) : p[i] = r[i]
    BY <1>2, <2>1, Zenon
  <2>3. q \in Seq(Seq(T)) /\ Len(q) = k /\ \A i \in 1..k : q[i] = r[i]
    BY <1>2, <2>1
  <2>4. r[k] \in Seq(T)
    OBVIOUS
  <2>5. PastIn(r, k) = PastOf(p) /\ PastIn(r, k + 1) = PastOf(q)
    BY <2>1 DEF PastIn
  <2> HIDE DEF p, q
  <2>6. q = Append(p, r[k])
    <3> DEFINE a == Append(p, r[k])
    <3>1. a \in Seq(Seq(T)) /\ Len(a) = (k - 1) + 1 /\ a[(k - 1) + 1] = r[k]
          /\ \A i \in 1..(k - 1) : a[i] = p[i]
      BY <2>2, <2>4, AppendProperties
    <3> SUFFICES q = a
      OBVIOUS
    <3> HIDE DEF a
    <3>2. Len(a) = k /\ a[k] = r[k]
      BY <3>1
    <3>3. ASSUME NEW i \in 1..k PROVE q[i] = a[i]
      <4>1. CASE i = k
        BY <2>3, <3>2, <4>1
      <4>2. CASE i # k
        <5>1. i \in 1..(k - 1)
          BY <4>2
        <5> QED BY <2>2, <2>3, <3>1, <5>1
      <4> QED BY <4>1, <4>2
    <3> QED BY <2>3, <3>1, <3>2, <3>3, SeqEqual
  <2>7. PastOf(q) = PastOf(p) + Len(r[k]) + 2
    BY <2>2, <2>4, <2>6, PastAppend
  <2> QED BY <2>5, <2>7
<1>5. PastIn(r, Len(r) + 1) = PastOf(r)
  <2>1. (Len(r) + 1) - 1 = Len(r)
    BY <1>1
  <2>2. SubSeq(r, 1, Len(r)) = r
    BY SubSeqFull
  <2> QED BY <2>1, <2>2 DEF PastIn
<1>6. ASSUME NEW s \in Seq(T), NEW k \in 1..(Len(r) + 1) PROVE PastIn(Append(r, s), k) = PastIn(r, k)
  <2> DEFINE q == Append(r, s)
             a == SubSeq(q, 1, k - 1)
             p == SubSeq(r, 1, k - 1)
  <2>1. q \in Seq(Seq(T)) /\ Len(q) = Len(r) + 1 /\ \A i \in 1..Len(r) : q[i] = r[i]
    BY AppendProperties
  <2>2. p \in Seq(Seq(T)) /\ Len(p) = k - 1 /\ \A i \in 1..(k - 1) : p[i] = r[i]
    BY <1>2, Zenon
  <2>3. PICK m \in Nat : m = k - 1 /\ m <= Len(r)
    BY <1>1
  <2> SUFFICES PastOf(a) = PastOf(p)
    BY Zenon DEF PastIn
  <2> HIDE DEF q
  <2>4. \A i \in 1..m : q[i] \in Seq(T) /\ q[i] = r[i]
    <3>1. \A i \in 1..m : i \in 1..Len(r)
      BY <1>1, <2>3
    <3> QED BY <2>1, <3>1
  <2>5. a \in Seq(Seq(T)) /\ Len(a) = m /\ \A i \in 1..m : a[i] = q[i]
    <3>1. /\ SubSeq(q, 1, m) \in Seq(Seq(T)) /\ Len(SubSeq(q, 1, m)) = IF 1 <= m THEN m - 1 + 1 ELSE 0
          /\ \A i \in 1..(m - 1 + 1) : SubSeq(q, 1, m)[i] = q[1 + i - 1]
      BY <2>4, SubSeqProperties
    <3>2. Len(SubSeq(q, 1, m)) = m
      BY <2>3, <3>1
    <3>3. ASSUME NEW i \in 1..m PROVE SubSeq(q, 1, m)[i] = q[i]
      <4>1. i \in 1..(m - 1 + 1) /\ 1 + i - 1 = i
        BY <2>3
      <4> QED BY <3>1, <4>1
    <3> QED BY <2>3, <3>1, <3>2, <3>3
  <2> HIDE DEF a, p
  <2>6. Len(p) = m /\ \A i \in 1..m : p[i] = r[i]
    BY <2>2, <2>3
  <2>7. a = p
    BY <2>2, <2>4, <2>5, <2>6, SeqEqual, SMTT(30)
  <2> QED BY <2>7
<1> QED BY <1>3, <1>4, <1>5, <1>6

\* Later segments begin later.
LEMMA PastRises ==
  ASSUME NEW T, NEW r \in Seq(Seq(T)), NEW j \in 1..(Len(r) + 1), NEW k \in 1..(Len(r) + 1), j < k
  PROVE  PastIn(r, j) + 2 <= PastIn(r, k)
<1>1. Len(r) \in Nat
  OBVIOUS
<1> DEFINE S == {i \in Nat : j + i + 1 <= Len(r) + 1 => PastIn(r, j) + 2 <= PastIn(r, j + i + 1)}
<1>2. ASSUME NEW i \in 1..Len(r)
      PROVE  PastIn(r, i + 1) \in Nat /\ PastIn(r, i) \in Nat /\ PastIn(r, i) + 2 <= PastIn(r, i + 1)
  <2>1. i \in 1..(Len(r) + 1) /\ i + 1 \in 1..(Len(r) + 1)
    BY <1>1
  <2>2. PastIn(r, i + 1) \in Nat /\ PastIn(r, i) \in Nat
    BY <2>1, PastInIs, Zenon
  <2>3. PastIn(r, i + 1) = PastIn(r, i) + Len(r[i]) + 2
    BY PastInIs, Zenon
  <2>4. Len(r[i]) \in Nat
    <3>1. r[i] \in Seq(T)
      OBVIOUS
    <3> QED BY <3>1
  <2> QED BY <2>2, <2>3, <2>4, SMTT(30)
<1>3. 0 \in S
  <2>1. j + 0 + 1 = j + 1 /\ (j + 1 <= Len(r) + 1 => j \in 1..Len(r))
    BY <1>1
  <2> QED BY <1>2, <2>1
<1>4. ASSUME NEW i \in Nat, i \in S PROVE i + 1 \in S
  <2>1. ASSUME j + (i + 1) + 1 <= Len(r) + 1 PROVE PastIn(r, j) + 2 <= PastIn(r, j + (i + 1) + 1)
    <3>1. PICK m \in 1..Len(r) : m = j + i + 1 /\ m + 1 = j + (i + 1) + 1 /\ m <= Len(r) + 1
      BY <1>1, <2>1
    <3>2. PastIn(r, j) + 2 <= PastIn(r, m)
      BY <1>4, <3>1
    <3>3. PastIn(r, m + 1) \in Nat /\ PastIn(r, m) \in Nat /\ PastIn(r, m) + 2 <= PastIn(r, m + 1)
      BY <1>2
    <3>4. PastIn(r, j) \in Nat
      BY PastInIs, Zenon
    <3>5. PastIn(r, j) + 2 <= PastIn(r, m + 1)
      BY <3>2, <3>3, <3>4
    <3> QED BY <3>1, <3>5
  <2> QED BY <2>1
<1> HIDE DEF S
<1>5. \A i \in Nat : i \in S
  BY <1>3, <1>4, Inductive
<1>6. PICK i \in Nat : k = j + i + 1 /\ j + i + 1 <= Len(r) + 1
  <2>1. (k - j) - 1 \in Nat /\ k = j + ((k - j) - 1) + 1 /\ j + ((k - j) - 1) + 1 <= Len(r) + 1
    BY <1>1
  <2> QED BY <2>1
<1>7. PastIn(r, j) + 2 <= PastIn(r, j + i + 1)
  BY <1>5, <1>6 DEF S
<1> QED BY <1>6, <1>7

-----------------------------------------------------------------------------
(* The inductive invariant.                                                *)

\* A container id, or none yet; what is in flight and what is in a recipe.
Id == Nat \cup {TEMPORARY_ID}
ChunkType == [fp : FP \cup {Mark}, id : Id, dup : BOOLEAN]
Pointer == [fp : FP, id : Nat]

\* The segments of the recipes, by backup and number.
InRecipes == {s \in Nat \X Nat : s[1] + 1 \in DOMAIN recipes /\ s[2] \in DOMAIN recipes[s[1] + 1]}

\* The types.
Shape ==
  /\ config \in Configs /\ read \in 0..(config.length + 1)
  /\ recipes \in Seq(Seq(Seq(Pointer))) /\ recipes # <<>>
  /\ flight \in Seq(Seq(ChunkType)) /\ buffered \in [FP -> Seq(Id)]
  /\ cache \in Seq(InRecipes) /\ Len(cache) <= config.cache
  /\ kv \in [Keys \cup {Highest} -> Seq(Nat)]
  /\ \A x \in DOMAIN kv : Len(kv[x]) <= config.values
  /\ containers \in Seq(SUBSET FP) /\ open \in BOOLEAN /\ (open => containers # <<>>)
  /\ \A id \in DOMAIN containers : Cardinality(containers[id]) <= config.capacity
  /\ aborted \in BOOLEAN

\* Container id holds chunk f.
Holds(id, f) == id + 1 \in DOMAIN containers /\ f \in containers[id + 1]

\* Where chunk f is in a segment, and how often in each of several.
Here(s, f) == {i \in DOMAIN s : s[i].fp = f}
Times(rows, f) == [k \in 1..Len(rows) |-> Cardinality(Here(rows[k], f))]

\* Of the segments in flight, rows, and an index buffer, buf: the ids in flight and in
\* the index buffer name containers with the chunk.
IdsHold(rows, buf) ==
  /\ \A k \in DOMAIN rows : \A i \in DOMAIN rows[k] :
       /\ rows[k][i].fp = Mark => ~rows[k][i].dup
       /\ rows[k][i].id # TEMPORARY_ID =>
            rows[k][i].fp \in FP /\ rows[k][i].dup /\ Holds(rows[k][i].id, rows[k][i].fp)
  /\ \A f \in FP : \A i \in DOMAIN buf[f] : buf[f][i] # TEMPORARY_ID => Holds(buf[f][i], f)

\* A unique chunk is in flight at i of row k.
Unique(rows, k, i) == k \in DOMAIN rows /\ i \in DOMAIN rows[k] /\ rows[k][i].fp # Mark /\ ~rows[k][i].dup

\* It is the first of its copies, and the open container does not have it.
UniqueFirst(rows) ==
  \A k \in DOMAIN rows : \A i \in DOMAIN rows[k] : Unique(rows, k, i) =>
    \A l \in DOMAIN rows : \A j \in DOMAIN rows[l] :
      rows[l][j].fp = rows[k][i].fp => k < l \/ (k = l /\ i <= j)
UniqueFresh(rows) ==
  \A k \in DOMAIN rows : \A i \in DOMAIN rows[k] :
    Unique(rows, k, i) => ~InStorageBuffer(rows[k][i].fp)

\* The index buffer has an id for every copy in flight.
Counted(rows, buf) == \A f \in FP : Sum(Times(rows, f), Len(rows), Len(buf[f]))

\* "Not written yet" is said of a chunk only if a unique copy is in flight.
Promised(rows, buf) ==
  \A f \in FP : buf[f] # <<>> /\ Head(buf[f]) = TEMPORARY_ID =>
    \E k \in DOMAIN rows : \E i \in DOMAIN rows[k] : Unique(rows, k, i) /\ rows[k][i].fp = f

InFlight(rows, buf) ==
  /\ rows \in Seq(Seq(ChunkType)) /\ buf \in [FP -> Seq(Id)]
  /\ IdsHold(rows, buf) /\ UniqueFirst(rows) /\ UniqueFresh(rows)
  /\ Counted(rows, buf) /\ Promised(rows, buf)

IInv == Shape /\ RecipeRestorable /\ InFlight(flight, buffered)

-----------------------------------------------------------------------------
(* Segments in flight.                                                     *)

LEMMA Marked ==
  Mark \notin FP /\ FP \subseteq Nat /\ IsFiniteSet(FP) /\ Mark \in Nat /\ TEMPORARY_ID \notin Nat
BY LogicalAssumption DEF Mark, TEMPORARY_ID

\* A chunk may be in a segment several times.
LEMMA HereType ==
  ASSUME NEW T, NEW s \in Seq(T), NEW f
  PROVE  IsFiniteSet(Here(s, f)) /\ Cardinality(Here(s, f)) \in Nat
<1>1. Len(s) \in Nat /\ DOMAIN s = 1..Len(s)
  OBVIOUS
<1>2. IsFiniteSet(1..Len(s)) /\ Here(s, f) \in SUBSET (1..Len(s))
  BY <1>1, FS_Interval DEF Here
<1> QED BY <1>2, FS_Subset, FS_CardinalityType

LEMMA HereNone ==
  ASSUME NEW T, NEW s \in Seq(T), NEW f
  PROVE  Cardinality(Here(s, f)) = 0 <=> \A i \in DOMAIN s : s[i].fp # f
<1>1. Cardinality(Here(s, f)) = 0 <=> Here(s, f) = {}
  BY HereType, FS_EmptySet
<1>2. Here(s, f) = {} <=> \A i \in DOMAIN s : s[i].fp # f
  BY DEF Here
<1> QED BY <1>1, <1>2

LEMMA HereEmpty ==
  ASSUME NEW f
  PROVE  Cardinality(Here(<<>>, f)) = 0
<1>1. Here(<<>>, f) = {}
  BY DEF Here
<1> QED BY <1>1, FS_EmptySet

\* One more chunk in a segment.
LEMMA HereAppend ==
  ASSUME NEW T, NEW s \in Seq(T), NEW c \in T, NEW f
  PROVE  Cardinality(Here(Append(s, c), f)) = Cardinality(Here(s, f)) + (IF c.fp = f THEN 1 ELSE 0)
<1> DEFINE a == Append(s, c)
           n == Len(s) + 1
<1>1. /\ Len(s) \in Nat /\ DOMAIN s = 1..Len(s) /\ DOMAIN a = 1..n
      /\ a[n] = c /\ \A i \in 1..Len(s) : a[i] = s[i]
  BY AppendProperties
<1> HIDE DEF a
<1>2. IsFiniteSet(Here(s, f)) /\ Cardinality(Here(s, f)) \in Nat
  BY HereType
<1>3. CASE c.fp = f
  <2>1. Here(a, f) = Here(s, f) \cup {n} /\ n \notin Here(s, f)
    BY <1>1, <1>3 DEF Here
  <2>2. Cardinality(Here(a, f)) = Cardinality(Here(s, f)) + 1
    BY <1>2, <2>1, FS_AddElement
  <2> QED BY <1>3, <2>2 DEF a
<1>4. CASE c.fp # f
  <2>1. Here(a, f) = Here(s, f)
    BY <1>1, <1>4 DEF Here
  <2> QED BY <1>2, <1>4, <2>1 DEF a
<1> QED BY <1>3, <1>4

LEMMA TimesType ==
  ASSUME NEW T, NEW rows \in Seq(Seq(T)), NEW f
  PROVE  Times(rows, f) \in [1..Len(rows) -> Nat]
<1>1. \A k \in 1..Len(rows) : rows[k] \in Seq(T)
  OBVIOUS
<1>2. \A k \in 1..Len(rows) : Cardinality(Here(rows[k], f)) \in Nat
  BY <1>1, HereType
<1> QED BY <1>2 DEF Times

\* A chunk of which the index buffer knows nothing is not in flight.
LEMMA NotInFlight ==
  ASSUME NEW rows \in Seq(Seq(ChunkType)), NEW buf \in [FP -> Seq(Id)], Counted(rows, buf),
         NEW f \in FP
  PROVE  buf[f] = <<>> => \A k \in DOMAIN rows : \A i \in DOMAIN rows[k] : rows[k][i].fp # f
<1> SUFFICES ASSUME buf[f] = <<>>, NEW k \in DOMAIN rows
             PROVE  \A i \in DOMAIN rows[k] : rows[k][i].fp # f
  OBVIOUS
<1>1. Len(buf[f]) = 0 /\ Len(rows) \in Nat /\ DOMAIN rows = 1..Len(rows) /\ rows[k] \in Seq(ChunkType)
  OBVIOUS
<1>2. Times(rows, f) \in [1..Len(rows) -> Nat]
  BY TimesType
<1>3. Sum(Times(rows, f), Len(rows), 0)
  BY <1>1 DEF Counted
<1>4. Times(rows, f)[k] <= 0 /\ Times(rows, f)[k] \in Nat
  BY <1>1, <1>2, <1>3, SumBounds
<1>5. Cardinality(Here(rows[k], f)) = 0
  BY <1>1, <1>4 DEF Times
<1> QED BY <1>1, <1>5, HereNone, Zenon

\* One that is in flight has an id in the index buffer.
LEMMA HasAnId ==
  ASSUME NEW rows \in Seq(Seq(ChunkType)), NEW buf \in [FP -> Seq(Id)], Counted(rows, buf),
         NEW k \in DOMAIN rows, NEW i \in DOMAIN rows[k], rows[k][i].fp \in FP
  PROVE  buf[rows[k][i].fp] # <<>> /\ Head(buf[rows[k][i].fp]) \in Id /\ Head(buf[rows[k][i].fp]) = buf[rows[k][i].fp][1]
         /\ 1 \in DOMAIN buf[rows[k][i].fp]
<1> DEFINE f == rows[k][i].fp
<1>1. buf[f] # <<>>
  BY NotInFlight, Zenon
<1>2. buf[f] \in Seq(Id)
  OBVIOUS
<1> HIDE DEF f
<1>3. Head(buf[f]) \in Id /\ Head(buf[f]) = buf[f][1] /\ 1 \in DOMAIN buf[f]
  BY <1>1, <1>2
<1> QED BY <1>1, <1>3 DEF f

\* A chunk that was looked up joins the last segment, and its id the index buffer.
Appended(rows, buf, n, c, rows2, buf2) ==
  /\ InFlight(rows, buf) /\ n \in Nat /\ n = Len(rows) /\ n # 0 /\ c \in ChunkType
  /\ rows2 \in Seq(Seq(ChunkType)) /\ buf2 \in [FP -> Seq(Id)] /\ Len(rows2) = n
  /\ \A k \in 1..(n - 1) : rows2[k] = rows[k]
  /\ rows2[n] = Append(rows[n], c)
  /\ \A f \in FP : f # c.fp => buf2[f] = buf[f]
  /\ c.fp \in FP => buf2[c.fp] = Append(buf[c.fp], c.id)
  /\ c.fp = Mark => ~c.dup
  /\ c.id # TEMPORARY_ID => c.fp \in FP /\ c.dup /\ Holds(c.id, c.fp)
  /\ c.fp # Mark /\ ~c.dup => buf[c.fp] = <<>> /\ ~InStorageBuffer(c.fp)
  /\ c.fp # Mark /\ c.dup /\ c.id = TEMPORARY_ID => buf[c.fp] # <<>>

LEMMA AppendChunk ==
  ASSUME NEW rows, NEW buf, NEW n, NEW c, NEW rows2, NEW buf2, Appended(rows, buf, n, c, rows2, buf2)
  PROVE  InFlight(rows2, buf2)
<1> SUFFICES ASSUME InFlight(rows, buf), n \in Nat, n = Len(rows), n # 0,
             c \in ChunkType, rows2 \in Seq(Seq(ChunkType)), buf2 \in [FP -> Seq(Id)],
             Len(rows2) = n, \A k \in 1..(n - 1) : rows2[k] = rows[k], rows2[n] = Append(rows[n], c),
             \A f \in FP : f # c.fp => buf2[f] = buf[f],
             c.fp \in FP => buf2[c.fp] = Append(buf[c.fp], c.id),
             c.fp = Mark => ~c.dup,
             c.id # TEMPORARY_ID => c.fp \in FP /\ c.dup /\ Holds(c.id, c.fp),
             c.fp # Mark /\ ~c.dup => buf[c.fp] = <<>> /\ ~InStorageBuffer(c.fp),
             c.fp # Mark /\ c.dup /\ c.id = TEMPORARY_ID => buf[c.fp] # <<>>
             PROVE  InFlight(rows2, buf2)
  BY Zenon DEF Appended
<1> DEFINE m == Len(rows[n]) + 1
<1>1. /\ rows \in Seq(Seq(ChunkType)) /\ buf \in [FP -> Seq(Id)]
      /\ IdsHold(rows, buf) /\ UniqueFirst(rows) /\ UniqueFresh(rows)
      /\ Counted(rows, buf) /\ Promised(rows, buf)
  BY DEF InFlight
<1>2. DOMAIN rows = 1..n /\ DOMAIN rows2 = 1..n /\ n \in 1..n /\ rows[n] \in Seq(ChunkType)
  BY <1>1
<1>3. /\ m \in Nat /\ m - 1 \in Nat /\ DOMAIN rows[n] = 1..(m - 1) /\ DOMAIN rows2[n] = 1..m
      /\ rows2[n][m] = c /\ \A i \in 1..(m - 1) : rows2[n][i] = rows[n][i]
  <2>1. /\ Len(Append(rows[n], c)) = Len(rows[n]) + 1 /\ Append(rows[n], c)[Len(rows[n]) + 1] = c
        /\ \A i \in 1..Len(rows[n]) : Append(rows[n], c)[i] = rows[n][i]
        /\ Append(rows[n], c) \in Seq(ChunkType)
    BY <1>2, AppendProperties
  <2>2. Len(rows[n]) \in Nat /\ DOMAIN rows[n] = 1..Len(rows[n])
    BY <1>2
  <2>3. DOMAIN rows2[n] = 1..Len(rows2[n])
    BY <2>1
  <2> QED BY <2>1, <2>2, <2>3
<1> HIDE DEF m
<1>4. m \in Nat
  BY <1>3
<1>5. ASSUME NEW k \in 1..n, NEW i \in DOMAIN rows2[k]
      PROVE  \/ i \in DOMAIN rows[k] /\ rows2[k][i] = rows[k][i]
             \/ k = n /\ i = m /\ rows2[k][i] = c
  <2>1. CASE k = n
    <3>1. i = m \/ i \in 1..(m - 1)
      BY <1>3, <1>4, <2>1
    <3> QED BY <1>3, <2>1, <3>1
  <2>2. CASE k # n
    <3>1. k \in 1..(n - 1)
      BY <2>2
    <3> QED BY <3>1
  <2> QED BY <2>1, <2>2
<1>6. ASSUME NEW k \in 1..n, NEW i \in DOMAIN rows[k]
      PROVE  i \in DOMAIN rows2[k] /\ rows2[k][i] = rows[k][i] /\ (k = n => i < m)
  <2>1. CASE k = n
    <3>1. i \in 1..(m - 1) /\ i \in 1..m /\ i < m
      BY <1>3, <1>4, <2>1, SMTT(30)
    <3> QED BY <1>3, <2>1, <3>1
  <2>2. CASE k # n
    <3>1. k \in 1..(n - 1)
      BY <2>2
    <3> QED BY <2>2, <3>1
  <2> QED BY <2>1, <2>2
<1>7. n \in 1..n /\ m \in DOMAIN rows2[n] /\ rows2[n][m] = c
  BY <1>2, <1>3, <1>4
<1>8. c.fp \in FP \cup {Mark} /\ c.id \in Id /\ c.dup \in BOOLEAN
  BY DEF ChunkType
<1>9. IdsHold(rows2, buf2)
  <2>1. ASSUME NEW k \in 1..n, NEW i \in DOMAIN rows2[k]
        PROVE  /\ rows2[k][i].fp = Mark => ~rows2[k][i].dup
               /\ rows2[k][i].id # TEMPORARY_ID =>
                    rows2[k][i].fp \in FP /\ rows2[k][i].dup /\ Holds(rows2[k][i].id, rows2[k][i].fp)
    <3>1. CASE i \in DOMAIN rows[k] /\ rows2[k][i] = rows[k][i]
      <4>1. /\ rows[k][i].fp = Mark => ~rows[k][i].dup
            /\ rows[k][i].id # TEMPORARY_ID =>
                 rows[k][i].fp \in FP /\ rows[k][i].dup /\ Holds(rows[k][i].id, rows[k][i].fp)
        BY <1>1, <1>2, <3>1, Zenon DEF IdsHold
      <4>2. rows2[k][i] = rows[k][i]
        BY <3>1, Zenon
      <4> QED BY <4>1, <4>2, Zenon
    <3>2. CASE k = n /\ i = m /\ rows2[k][i] = c
      BY <3>2, Zenon
    <3> QED BY <1>5, <3>1, <3>2, Zenon
  <2>2. ASSUME NEW f \in FP, NEW i \in DOMAIN buf2[f], buf2[f][i] # TEMPORARY_ID
        PROVE  Holds(buf2[f][i], f)
    <3>1. CASE f # c.fp
      BY <1>1, <2>2, <3>1, Zenon DEF IdsHold
    <3>2. CASE f = c.fp
      <4>1. /\ buf[f] \in Seq(Id) /\ buf2[f] = Append(buf[f], c.id) /\ c.id \in Id
        BY <1>1, <1>8, <3>2
      <4>2. /\ Len(buf[f]) \in Nat /\ DOMAIN buf[f] = 1..Len(buf[f]) /\ Len(buf2[f]) = Len(buf[f]) + 1
            /\ buf2[f][Len(buf[f]) + 1] = c.id /\ \A j \in 1..Len(buf[f]) : buf2[f][j] = buf[f][j]
            /\ DOMAIN buf2[f] = 1..Len(buf2[f])
        BY <4>1, AppendProperties
      <4>3. CASE i = Len(buf[f]) + 1
        BY <2>2, <3>2, <4>2, <4>3
      <4>4. CASE i # Len(buf[f]) + 1
        <5> DEFINE L == Len(buf[f])
        <5>1. L \in Nat /\ i \in 1..(L + 1) /\ i # L + 1
          BY <4>2, <4>4
        <5> HIDE DEF L
        <5>2. i \in 1..L
          BY <5>1
        <5>3. i \in DOMAIN buf[f] /\ buf2[f][i] = buf[f][i]
          BY <4>2, <5>2 DEF L
        <5> QED BY <1>1, <2>2, <5>3, Zenon DEF IdsHold
      <4> QED BY <4>3, <4>4
    <3> QED BY <3>1, <3>2
  <2> QED BY <1>2, <2>1, <2>2, Zenon DEF IdsHold
<1>10. c.fp # Mark /\ ~c.dup => \A k \in 1..n : \A i \in DOMAIN rows[k] : rows[k][i].fp # c.fp
  <2>1. c.fp # Mark => c.fp \in FP
    BY <1>8
  <2>2. c.fp \in FP /\ buf[c.fp] = <<>> => \A k \in 1..n : \A i \in DOMAIN rows[k] : rows[k][i].fp # c.fp
    <3> DEFINE f == c.fp
    <3> SUFFICES ASSUME f \in FP, buf[f] = <<>> PROVE \A k \in 1..n : \A i \in DOMAIN rows[k] : rows[k][i].fp # f
      BY Zenon
    <3> HIDE DEF f
    <3>1. \A k \in DOMAIN rows : \A i \in DOMAIN rows[k] : rows[k][i].fp # f
      BY <1>1, NotInFlight, Zenon
    <3> QED BY <1>2, <3>1, Zenon
  <2> QED BY <2>1, <2>2, Zenon
<1>11. UniqueFirst(rows2)
  <2> SUFFICES ASSUME NEW k \in 1..n, NEW i \in DOMAIN rows2[k], Unique(rows2, k, i),
                      NEW l \in 1..n, NEW j \in DOMAIN rows2[l], rows2[l][j].fp = rows2[k][i].fp
               PROVE  k < l \/ (k = l /\ i <= j)
    BY <1>2, Zenon DEF UniqueFirst
  <2>1. CASE i \in DOMAIN rows[k] /\ rows2[k][i] = rows[k][i]
    <3>1. Unique(rows, k, i)
      BY <1>2, <2>1, Zenon DEF Unique
    <3>2. CASE j \in DOMAIN rows[l] /\ rows2[l][j] = rows[l][j]
      <4>1. rows[l][j].fp = rows[k][i].fp
        BY <2>1, <3>2, Zenon
      <4> QED BY <1>1, <1>2, <2>1, <3>1, <3>2, <4>1, Zenon DEF UniqueFirst
    <3>3. CASE l = n /\ j = m
      <4>1. k = n => i < m /\ i \in 1..(m - 1)
        BY <1>3, <1>6, <2>1, Zenon
      <4> QED BY <1>4, <3>3, <4>1
    <3> QED BY <1>5, <3>2, <3>3, Zenon
  <2>2. CASE k = n /\ i = m /\ rows2[k][i] = c
    <3>1. c.fp # Mark /\ ~c.dup
      BY <2>2, Zenon DEF Unique
    <3>2. ~(j \in DOMAIN rows[l] /\ rows2[l][j] = rows[l][j])
      BY <1>10, <2>2, <3>1, Zenon
    <3>3. l = n /\ j = m
      BY <1>5, <3>2, Zenon
    <3> QED BY <1>4, <2>2, <3>3
  <2> QED BY <1>5, <2>1, <2>2, Zenon
<1>12. UniqueFresh(rows2)
  <2> SUFFICES ASSUME NEW k \in 1..n, NEW i \in DOMAIN rows2[k], Unique(rows2, k, i)
               PROVE  ~InStorageBuffer(rows2[k][i].fp)
    BY <1>2, Zenon DEF UniqueFresh
  <2>1. CASE i \in DOMAIN rows[k] /\ rows2[k][i] = rows[k][i]
    <3>1. Unique(rows, k, i)
      BY <1>2, <2>1, Zenon DEF Unique
    <3> QED BY <1>1, <1>2, <2>1, <3>1, Zenon DEF UniqueFresh
  <2>2. CASE k = n /\ i = m /\ rows2[k][i] = c
    BY <2>2, Zenon DEF Unique
  <2> QED BY <1>5, <2>1, <2>2, Zenon
<1>13. Counted(rows2, buf2)
  <2> SUFFICES ASSUME NEW f \in FP PROVE Sum(Times(rows2, f), n, Len(buf2[f]))
    BY Zenon DEF Counted
  <2>1. Sum(Times(rows, f), n, Len(buf[f])) /\ Len(buf[f]) \in Nat
    BY <1>1 DEF Counted
  <2>2. \A k \in 1..(n - 1) : Times(rows2, f)[k] = Times(rows, f)[k]
    BY DEF Times
  <2> DEFINE d == IF c.fp = f THEN 1 ELSE 0
  <2>3. Times(rows, f)[n] \in Nat /\ Times(rows2, f)[n] = Times(rows, f)[n] + d
    <3>1. Times(rows, f)[n] = Cardinality(Here(rows[n], f))
      BY <1>2 DEF Times
    <3>2. Times(rows2, f)[n] = Cardinality(Here(rows2[n], f))
      BY <1>2 DEF Times
    <3>3. Cardinality(Here(rows2[n], f)) = Cardinality(Here(rows[n], f)) + d
      <4> DEFINE s == rows[n]
      <4>1. s \in Seq(ChunkType) /\ rows2[n] = Append(s, c)
        BY <1>2, Zenon
      <4> HIDE DEF s
      <4>2. Cardinality(Here(Append(s, c), f)) = Cardinality(Here(s, f)) + (IF c.fp = f THEN 1 ELSE 0)
        BY <4>1, HereAppend
      <4> QED BY <4>1, <4>2, Zenon DEF s
    <3>4. Cardinality(Here(rows[n], f)) \in Nat
      BY <1>2, HereType, Zenon
    <3> QED BY <3>1, <3>2, <3>3, <3>4
  <2>4. d \in Nat
    OBVIOUS
  <2>5. Len(buf2[f]) = Len(buf[f]) + d
    <3>1. CASE c.fp = f
      <4>1. buf[f] \in Seq(Id) /\ buf2[f] = Append(buf[f], c.id) /\ c.id \in Id
        BY <1>1, <1>8, <3>1
      <4> QED BY <3>1, <4>1, AppendProperties
    <3>2. CASE c.fp # f
      BY <2>1, <3>2
    <3> QED BY <3>1, <3>2
  <2> HIDE DEF d
  <2>6. Sum(Times(rows2, f), n, Len(buf[f]) + d)
    BY <2>1, <2>2, <2>3, <2>4, SumGrow
  <2> QED BY <2>5, <2>6
<1>14. Promised(rows2, buf2)
  <2> SUFFICES ASSUME NEW f \in FP, buf2[f] # <<>>, Head(buf2[f]) = TEMPORARY_ID
               PROVE  \E k \in 1..n : \E i \in DOMAIN rows2[k] : Unique(rows2, k, i) /\ rows2[k][i].fp = f
    BY <1>2, ZenonT(40) DEF Promised
  <2>1. CASE buf[f] # <<>>
    <3>1. Head(buf[f]) = TEMPORARY_ID
      <4>1. CASE f # c.fp
        BY <4>1
      <4>2. CASE f = c.fp
        <5>1. buf[f] \in Seq(Id) /\ buf2[f] = Append(buf[f], c.id) /\ c.id \in Id
          BY <1>1, <1>8, <4>2
        <5> QED BY <2>1, <5>1, HeadTailAppend
      <4> QED BY <4>1, <4>2
    <3>2. PICK k \in 1..n : \E i \in DOMAIN rows[k] : Unique(rows, k, i) /\ rows[k][i].fp = f
      BY <1>1, <1>2, <2>1, <3>1, ZenonT(40) DEF Promised
    <3>3. PICK i \in DOMAIN rows[k] : Unique(rows, k, i) /\ rows[k][i].fp = f
      BY <3>2
    <3>4. i \in DOMAIN rows2[k] /\ rows2[k][i] = rows[k][i]
      BY <1>6, Zenon
    <3>5. Unique(rows2, k, i) /\ rows2[k][i].fp = f
      BY <1>2, <3>3, <3>4, Zenon DEF Unique
    <3> QED BY <3>4, <3>5, Zenon
  <2>2. CASE buf[f] = <<>>
    <3>1. f = c.fp
      BY <2>2
    <3>2. c.id = TEMPORARY_ID
      <4>1. buf[f] \in Seq(Id) /\ buf2[f] = Append(buf[f], c.id) /\ c.id \in Id
        BY <1>1, <1>8, <3>1
      <4> QED BY <2>2, <4>1, HeadTailAppend
    <3>3. c.fp # Mark /\ ~c.dup
      BY <2>2, <3>1, <3>2, Marked
    <3>4. Unique(rows2, n, m) /\ rows2[n][m].fp = f
      BY <1>2, <1>7, <3>1, <3>3, Zenon DEF Unique
    <3> QED BY <1>7, <3>4, Zenon
  <2> QED BY <2>1, <2>2
<1> QED BY <1>9, <1>11, <1>12, <1>13, <1>14, Zenon DEF InFlight

-----------------------------------------------------------------------------
(* The fingerprint cache.                                                  *)

\* What may be configured.
LEMMA ConfigIs ==
  ASSUME config \in Configs
  PROVE  /\ config.exact \in BOOLEAN /\ config.selection \in {"base", "top", "mix"}
         /\ config.top \in Nat \ {0} /\ config.prefetch \in Nat
         /\ config.sampling \in {"min", "optmin", "random", "uniform"} /\ config.ratio \in Nat
         /\ config.values \in Nat \ {0} /\ config.cache \in Nat \ {0} /\ config.keys \in Nat \ {0}
         /\ config.files \in BOOLEAN /\ config.capacity \in Nat \ {0} /\ config.fps \subseteq FP
         /\ config.segment \in Nat \ {0} /\ config.length \in Nat
         /\ config.exact => config.keys = 1
<1>1. config \in Config /\ (config.exact => config.keys = 1)
  BY LogicalAssumption, Zenon
<1> QED BY <1>1 DEF Config

\* The first and the last of some positions.
LEMMA FirstIs ==
  ASSUME NEW n \in Nat, NEW I \in SUBSET (1..n), I # {}
  PROVE  Min(I) \in I
<1>1. I \in SUBSET Nat
  OBVIOUS
<1>2. \E x \in I : \A y \in I : x <= y
  BY <1>1, LeastNumber
<1> QED BY <1>2, Zenon DEF Min

LEMMA LastIs ==
  ASSUME NEW n \in Nat, NEW I \in SUBSET (1..n), I # {}
  PROVE  Max(I) \in I
<1> DEFINE T == {n - i : i \in I}
<1>1. T \in SUBSET Nat /\ T # {}
  <2>1. \A i \in I : n - i \in Nat
    OBVIOUS
  <2> QED BY <2>1
<1>2. PICK t \in T : \A u \in T : t <= u
  BY <1>1, LeastNumber
<1>3. PICK i \in I : t = n - i
  BY <1>2
<1>4. \A j \in I : j <= i
  <2>1. \A j \in I : n - i <= n - j
    BY <1>2, <1>3
  <2> QED BY <2>1
<1>5. I \subseteq Nat
  OBVIOUS
<1> HIDE DEF T
<1>6. Max(I) = i
  BY <1>3, <1>4, <1>5, MaxIs, Zenon
<1> QED BY <1>6

\* Where the segment with an id is in the cache.
CachedAt(lru, id) == SelectInSeq(lru, LAMBDA t : SegmentId(t[1], t[2]) = id)

LEMMA CachedAtIs ==
  ASSUME NEW T, NEW lru \in Seq(T), NEW id
  PROVE  /\ CachedAt(lru, id) # 0 =>
              CachedAt(lru, id) \in DOMAIN lru
              /\ SegmentId(lru[CachedAt(lru, id)][1], lru[CachedAt(lru, id)][2]) = id
         /\ CachedAt(lru, id) = 0 => \A i \in DOMAIN lru : SegmentId(lru[i][1], lru[i][2]) # id
<1> DEFINE I == {i \in 1..Len(lru) : SegmentId(lru[i][1], lru[i][2]) = id}
<1>1. CachedAt(lru, id) = IF I # {} THEN Min(I) ELSE 0
  BY Zenon DEF CachedAt, SelectInSeq
<1>2. Len(lru) \in Nat /\ DOMAIN lru = 1..Len(lru) /\ I \in SUBSET (1..Len(lru))
  BY LenProperties, Zenon
<1>3. CASE I # {}
  <2>1. Min(I) \in I
    BY <1>2, <1>3, FirstIs, Zenon
  <2>2. Min(I) # 0
    BY <2>1
  <2> QED BY <1>1, <1>2, <1>3, <2>1, <2>2, Zenon
<1>4. CASE I = {}
  BY <1>1, <1>2, <1>4, Zenon
<1> QED BY <1>3, <1>4

\* Where a segment with a chunk is in the cache.
LEMMA InCacheIs ==
  ASSUME NEW T, NEW l, l.cache \in Seq(T), NEW f
  PROVE  /\ InCache(l, f) # 0 =>
              InCache(l, f) \in DOMAIN l.cache /\ HoldsFp(l.cache[InCache(l, f)], f)
         /\ InCache(l, f) = 0 => \A i \in DOMAIN l.cache : ~HoldsFp(l.cache[i], f)
<1> DEFINE I == {i \in 1..Len(l.cache) : HoldsFp(l.cache[i], f)}
<1>1. InCache(l, f) = IF I # {} THEN Min(I) ELSE 0
  BY Zenon DEF InCache, SelectInSeq
<1>2. Len(l.cache) \in Nat /\ DOMAIN l.cache = 1..Len(l.cache) /\ I \in SUBSET (1..Len(l.cache))
  BY LenProperties, Zenon
<1>3. CASE I # {}
  <2>1. Min(I) \in I
    BY <1>2, <1>3, FirstIs, Zenon
  <2>2. Min(I) # 0
    <3>1. 0 \notin 1..Len(l.cache)
      BY <1>2
    <3> QED BY <2>1, <3>1, Zenon
  <2> QED BY <1>1, <1>2, <1>3, <2>1, <2>2, Zenon
<1>4. CASE I = {}
  BY <1>1, <1>2, <1>4, Zenon
<1> QED BY <1>3, <1>4

\* A cached segment is a list of pointers.
LEMMA PointersIs ==
  ASSUME Shape, NEW s \in InRecipes
  PROVE  Pointers(s) \in Seq(Pointer)
<1>1. recipes \in Seq(Seq(Seq(Pointer)))
  BY Zenon DEF Shape
<1>2. PICK b \in DOMAIN recipes : b = s[1] + 1 /\ s[2] \in DOMAIN recipes[b]
  BY Zenon DEF InRecipes
<1>3. recipes[b] \in Seq(Seq(Pointer))
  BY <1>1
<1>4. recipes[b][s[2]] \in Seq(Pointer)
  BY <1>2, <1>3
<1> QED BY <1>2, <1>4, Zenon DEF Pointers

\* The id that a cached segment has for a chunk is that of a pointer to the chunk.
LEMMA IdInIs ==
  ASSUME Shape, NEW s \in InRecipes, NEW f, HoldsFp(s, f)
  PROVE  \E i \in DOMAIN Pointers(s) : Pointers(s)[i].fp = f /\ IdIn(s, f) = Pointers(s)[i].id
<1> DEFINE p == Pointers(s)
           I == {i \in 1..Len(p) : p[i].fp = f}
<1>1. p \in Seq(Pointer)
  BY PointersIs
<1>2. Len(p) \in Nat /\ DOMAIN p = 1..Len(p) /\ I \in SUBSET (1..Len(p))
  BY <1>1, LenProperties, Zenon
<1>3. I # {}
  BY <1>2, Zenon DEF HoldsFp
<1>4. IdIn(s, f) = p[Max(I)].id
  BY <1>3, Zenon DEF IdIn, SelectLastInSeq
<1>5. Max(I) \in I
  <2>1. PICK m \in Nat : m = Len(p)
    BY <1>2
  <2>2. I \in SUBSET (1..m)
    BY <1>2, <2>1, Zenon
  <2> HIDE DEF I
  <2> QED BY <1>3, <2>2, LastIs
<1> QED BY <1>2, <1>4, <1>5, Zenon

\* A segment becomes the latest one: those before it move back by one.
LEMMA PromotedIs ==
  ASSUME NEW S, NEW lru \in Seq(S), NEW i \in DOMAIN lru
  PROVE  /\ Promoted(lru, i) \in Seq(S) /\ Len(Promoted(lru, i)) = Len(lru)
         /\ Promoted(lru, i)[1] = lru[i]
         /\ \A j \in DOMAIN lru : (j < i => Promoted(lru, i)[j + 1] = lru[j])
                                  /\ (i < j => Promoted(lru, i)[j] = lru[j])
<1> DEFINE n == Len(lru)
           a == SubSeq(lru, 1, i - 1)
           b == SubSeq(lru, i + 1, n)
           c == <<lru[i]>>
<1>1. n \in Nat /\ DOMAIN lru = 1..n /\ i \in 1..n /\ lru[i] \in S
  OBVIOUS
<1>2. a \in Seq(S) /\ Len(a) = i - 1 /\ \A j \in 1..(i - 1) : a[j] = lru[j]
  <2>1. PICK m \in Int : m = i - 1 /\ 0 <= m /\ m <= n
    BY <1>1
  <2>2. \A j \in 1..m : lru[j] \in S
    BY <1>1, <2>1
  <2>3. /\ SubSeq(lru, 1, m) \in Seq(S) /\ Len(SubSeq(lru, 1, m)) = IF 1 <= m THEN m - 1 + 1 ELSE 0
        /\ \A j \in 1..(m - 1 + 1) : SubSeq(lru, 1, m)[j] = lru[1 + j - 1]
    BY <2>2, SubSeqProperties
  <2>4. Len(SubSeq(lru, 1, m)) = m
    BY <2>1, <2>3
  <2>5. ASSUME NEW j \in 1..m PROVE SubSeq(lru, 1, m)[j] = lru[j]
    <3>1. j \in 1..(m - 1 + 1) /\ 1 + j - 1 = j
      BY <2>1
    <3> QED BY <2>3, <3>1
  <2> QED BY <2>1, <2>3, <2>4, <2>5
<1>3. b \in Seq(S) /\ Len(b) = n - i /\ \A j \in 1..(n - i) : b[j] = lru[i + j]
  <2>1. PICK m \in Int : m = i + 1
    BY <1>1
  <2>2. \A j \in m..n : lru[j] \in S
    BY <1>1, <2>1
  <2>3. /\ SubSeq(lru, m, n) \in Seq(S) /\ Len(SubSeq(lru, m, n)) = IF m <= n THEN n - m + 1 ELSE 0
        /\ \A j \in 1..(n - m + 1) : SubSeq(lru, m, n)[j] = lru[m + j - 1]
    BY <1>1, <2>2, SubSeqProperties
  <2>4. Len(SubSeq(lru, m, n)) = n - i
    BY <1>1, <2>1, <2>3
  <2>5. ASSUME NEW j \in 1..(n - i) PROVE SubSeq(lru, m, n)[j] = lru[i + j]
    <3>1. j \in 1..(n - m + 1) /\ m + j - 1 = i + j
      BY <1>1, <2>1
    <3> QED BY <2>3, <3>1
  <2> QED BY <2>1, <2>3, <2>4, <2>5
<1>4. c \in Seq(S) /\ Len(c) = 1 /\ c[1] = lru[i] /\ Len(c) \in Nat
  BY <1>1
<1> HIDE DEF a, b, c
<1> DEFINE d == a \o b
<1>5. /\ d \in Seq(S) /\ Len(d) = Len(a) + Len(b)
      /\ \A j \in 1..(Len(a) + Len(b)) : d[j] = IF j <= Len(a) THEN a[j] ELSE b[j - Len(a)]
  BY <1>2, <1>3, ConcatProperties
<1> HIDE DEF d
<1>6. Len(d) = n - 1 /\ \A j \in 1..(n - 1) : (j < i => d[j] = lru[j]) /\ (i <= j => d[j] = lru[j + 1])
  <2>1. Len(a) + Len(b) = n - 1
    BY <1>1, <1>2, <1>3
  <2>2. ASSUME NEW j \in 1..(n - 1), j < i PROVE d[j] = lru[j]
    <3>1. j \in 1..(Len(a) + Len(b)) /\ j <= Len(a) /\ j \in 1..(i - 1)
      BY <1>1, <1>2, <2>1, <2>2
    <3> QED BY <1>2, <1>5, <3>1
  <2>3. ASSUME NEW j \in 1..(n - 1), i <= j PROVE d[j] = lru[j + 1]
    <3>1. j \in 1..(Len(a) + Len(b)) /\ ~(j <= Len(a)) /\ j - Len(a) \in 1..(n - i)
          /\ i + (j - Len(a)) = j + 1
      BY <1>1, <1>2, <2>1, <2>3
    <3> QED BY <1>3, <1>5, <3>1
  <2> QED BY <1>5, <2>1, <2>2, <2>3
<1> DEFINE e == c \o d
<1>7. /\ e \in Seq(S) /\ Len(e) = Len(c) + Len(d)
      /\ \A j \in 1..(Len(c) + Len(d)) : e[j] = IF j <= Len(c) THEN c[j] ELSE d[j - Len(c)]
  <2>1. c \in Seq(S) /\ d \in Seq(S)
    BY <1>4, <1>5
  <2> QED BY <2>1, ConcatProperties, Zenon
<1>8. Promoted(lru, i) = e
  BY Zenon DEF Promoted, RemoveAt, a, b, c, d
<1> HIDE DEF e
<1>9. Len(e) = n /\ Len(c) + Len(d) = n
  BY <1>1, <1>4, <1>6, <1>7
<1>10. e[1] = lru[i]
  <2>1. 1 \in 1..(Len(c) + Len(d)) /\ 1 <= Len(c)
    BY <1>1, <1>4, <1>9
  <2> QED BY <1>4, <1>7, <2>1
<1>11. ASSUME NEW j \in 1..n, j < i PROVE e[j + 1] = lru[j]
  <2>1. j + 1 \in 1..(Len(c) + Len(d)) /\ ~(j + 1 <= Len(c)) /\ (j + 1) - Len(c) = j /\ j \in 1..(n - 1)
    BY <1>1, <1>4, <1>9, <1>11
  <2> QED BY <1>6, <1>7, <1>11, <2>1
<1>12. ASSUME NEW j \in 1..n, i < j PROVE e[j] = lru[j]
  <2>1. j \in 1..(Len(c) + Len(d)) /\ ~(j <= Len(c)) /\ j - Len(c) = j - 1 /\ j - 1 \in 1..(n - 1)
        /\ i <= j - 1 /\ (j - 1) + 1 = j
    BY <1>1, <1>4, <1>9, <1>12
  <2> QED BY <1>6, <1>7, <2>1
<1> QED BY <1>1, <1>7, <1>8, <1>9, <1>10, <1>11, <1>12

\* u is lru after segment s: s or one with its id comes first, and the others move back
\* by at most one place.
UsedFor(lru, s, u) ==
  /\ Len(u) <= config.cache /\ 1 \in DOMAIN u
  /\ SegmentId(u[1][1], u[1][2]) = SegmentId(s[1], s[2])
  /\ \A j \in DOMAIN lru : j < config.cache => \E k \in DOMAIN u : k <= j + 1 /\ u[k] = lru[j]

\* A segment is used: it, or one with the same id, is the latest one, and the others
\* move back by at most one.
LEMMA UsedIs ==
  ASSUME config \in Configs, NEW S, NEW lru \in Seq(S), Len(lru) <= config.cache, NEW s \in S
  PROVE  Used(lru, s) \in Seq(S) /\ UsedFor(lru, s, Used(lru, s))
<1> DEFINE id == SegmentId(s[1], s[2])
           i == CachedAt(lru, id)
           n == Len(lru)
<1>1. n \in Nat /\ DOMAIN lru = 1..n /\ config.cache \in Nat \ {0}
  BY ConfigIs
<1>2. Used(lru, s) = IF i # 0 THEN Promoted(lru, i)
                     ELSE <<s>> \o (IF n = config.cache THEN Front(lru) ELSE lru)
  BY Zenon DEF Used, CachedAt
<1>3. /\ i # 0 => i \in DOMAIN lru /\ SegmentId(lru[i][1], lru[i][2]) = id
  BY CachedAtIs, Zenon
<1> HIDE DEF i, id
<1>4. CASE i # 0
  <2> DEFINE u == Promoted(lru, i)
  <2>1. /\ u \in Seq(S) /\ Len(u) = n /\ u[1] = lru[i]
        /\ \A j \in DOMAIN lru : (j < i => u[j + 1] = lru[j]) /\ (i < j => u[j] = lru[j])
    BY <1>3, <1>4, PromotedIs
  <2> HIDE DEF u
  <2>2. DOMAIN u = 1..n /\ i \in 1..n
    BY <1>1, <1>3, <1>4, <2>1
  <2>3. ASSUME NEW j \in 1..n PROVE \E k \in 1..n : k <= j + 1 /\ u[k] = lru[j]
    <3>1. CASE j < i
      <4>1. j + 1 \in 1..n /\ j + 1 <= j + 1
        BY <1>1, <2>2, <3>1
      <4> QED BY <1>1, <2>1, <3>1, <4>1
    <3>2. CASE j = i
      <4>1. 1 \in 1..n /\ 1 <= j + 1
        BY <1>1, <2>2
      <4> QED BY <2>1, <3>2, <4>1
    <3>3. CASE i < j
      <4>1. j <= j + 1
        BY <1>1
      <4> QED BY <1>1, <2>1, <3>3, <4>1
    <3> QED BY <1>1, <2>2, <3>1, <3>2, <3>3
  <2>4. 1 \in 1..n
    BY <1>1, <2>2
  <2>5. Used(lru, s) = u
    BY <1>2, <1>4 DEF u
  <2>6. SegmentId(u[1][1], u[1][2]) = id
    BY <1>3, <1>4, <2>1, Zenon
  <2>7. UsedFor(lru, s, u)
    BY <1>1, <2>1, <2>2, <2>3, <2>4, <2>6, Zenon DEF UsedFor, id
  <2> QED BY <2>1, <2>5, <2>7, Zenon
<1>5. CASE i = 0
  <2> DEFINE r == IF n = config.cache THEN Front(lru) ELSE lru
             c == <<s>>
             u == c \o r
  <2>1. c \in Seq(S) /\ Len(c) = 1 /\ c[1] = s
    OBVIOUS
  <2>2. r \in Seq(S) /\ Len(r) = (IF n = config.cache THEN n - 1 ELSE n) /\ \A j \in 1..Len(r) : r[j] = lru[j]
    <3>1. CASE n = config.cache
      <4>1. PICK m \in Int : m = n - 1 /\ 0 <= m /\ m <= n
        BY <1>1, <3>1
      <4>2. \A j \in 1..m : lru[j] \in S
        BY <1>1, <4>1
      <4>3. /\ SubSeq(lru, 1, m) \in Seq(S) /\ Len(SubSeq(lru, 1, m)) = IF 1 <= m THEN m - 1 + 1 ELSE 0
            /\ \A j \in 1..(m - 1 + 1) : SubSeq(lru, 1, m)[j] = lru[1 + j - 1]
        BY <4>2, SubSeqProperties
      <4>4. Len(SubSeq(lru, 1, m)) = m
        BY <4>1, <4>3
      <4>5. ASSUME NEW j \in 1..m PROVE SubSeq(lru, 1, m)[j] = lru[j]
        <5>1. j \in 1..(m - 1 + 1) /\ 1 + j - 1 = j
          BY <4>1
        <5> QED BY <4>3, <5>1
      <4>6. r = SubSeq(lru, 1, m)
        BY <3>1, <4>1 DEF Front
      <4> HIDE DEF r
      <4>7. Len(r) = m /\ \A j \in 1..m : r[j] = lru[j]
        BY <4>4, <4>5, <4>6
      <4> QED BY <3>1, <4>1, <4>3, <4>6, <4>7
    <3>2. CASE n # config.cache
      BY <3>2
    <3> QED BY <3>1, <3>2
  <2> HIDE DEF c, r
  <2>3. /\ u \in Seq(S) /\ Len(u) = Len(c) + Len(r)
        /\ \A j \in 1..(Len(c) + Len(r)) : u[j] = IF j <= Len(c) THEN c[j] ELSE r[j - Len(c)]
    <3>1. c \in Seq(S) /\ r \in Seq(S)
      BY <2>1, <2>2
    <3> QED BY <3>1, ConcatProperties, Zenon
  <2>4. Used(lru, s) = u
    BY <1>2, <1>5 DEF c, r
  <2> HIDE DEF u
  <2>5. Len(r) \in Nat /\ Len(u) = Len(r) + 1 /\ Len(r) + 1 <= config.cache /\ DOMAIN u = 1..(Len(r) + 1)
        /\ Len(c) + Len(r) = Len(r) + 1
    <3>1. Len(r) \in Nat /\ Len(u) = Len(r) + 1 /\ DOMAIN u = 1..Len(u)
      BY <2>1, <2>2, <2>3
    <3>2. Len(r) + 1 <= config.cache
      <4> DEFINE m == config.cache
      <4>1. m \in Nat \ {0} /\ n <= m /\ n \in Nat /\ Len(r) = IF n = m THEN n - 1 ELSE n
        BY <1>1, <2>2
      <4> HIDE DEF m, n
      <4>2. Len(r) + 1 <= m
        BY <4>1
      <4> QED BY <4>2, Zenon DEF m
    <3> QED BY <2>1, <3>1, <3>2
  <2>6. 1 \in DOMAIN u /\ u[1] = s
    <3>1. 1 \in 1..(Len(c) + Len(r)) /\ 1 <= Len(c)
      BY <2>1, <2>5
    <3> QED BY <2>1, <2>3, <2>5, <3>1
  <2>7. ASSUME NEW j \in 1..n, j < config.cache PROVE \E k \in DOMAIN u : k <= j + 1 /\ u[k] = lru[j]
    <3>1. j \in 1..Len(r)
      <4> DEFINE m == config.cache
      <4>1. m \in Nat \ {0} /\ n <= m /\ n \in Nat /\ j < m /\ Len(r) = IF n = m THEN n - 1 ELSE n
        BY <1>1, <2>2, <2>7
      <4> HIDE DEF m
      <4>2. j \in 1..n
        OBVIOUS
      <4> HIDE DEF n
      <4>3. j \in Nat \ {0} /\ j <= n
        BY <4>1, <4>2
      <4>4. j <= Len(r) /\ Len(r) \in Nat
        BY <4>1, <4>3
      <4> QED BY <4>3, <4>4
    <3>2. j + 1 \in 1..(Len(c) + Len(r)) /\ ~(j + 1 <= Len(c)) /\ (j + 1) - Len(c) = j
      BY <2>1, <2>5, <3>1
    <3>3. u[j + 1] = r[(j + 1) - Len(c)] /\ r[j] = lru[j]
      BY <2>2, <2>3, <3>1, <3>2, Zenon
    <3>4. j + 1 \in 1..(Len(r) + 1) /\ j + 1 <= j + 1
      BY <2>5, <3>1
    <3>5. u[j + 1] = lru[j] /\ j + 1 \in DOMAIN u /\ j + 1 <= j + 1
      BY <2>5, <3>2, <3>3, <3>4, Zenon
    <3> QED BY <3>5
  <2>8. Len(u) <= config.cache
    BY <1>1, <2>5
  <2>9. SegmentId(u[1][1], u[1][2]) = SegmentId(s[1], s[2])
    BY <2>6, Zenon
  <2>10. UsedFor(lru, s, u)
    BY <1>1, <2>6, <2>7, <2>8, <2>9, Zenon DEF UsedFor
  <2> QED BY <2>3, <2>4, <2>10, Zenon
<1> QED BY <1>4, <1>5

\* Segments are used one after the other: the last one is the latest, and the others
\* move back by at most as many.
UsedAfter(lru, us, r) ==
  /\ Len(r) <= config.cache
  /\ us # <<>> => 1 \in DOMAIN r
                  /\ SegmentId(r[1][1], r[1][2]) = SegmentId(us[Len(us)][1], us[Len(us)][2])
  /\ \A j \in DOMAIN lru : j + Len(us) <= config.cache =>
       \E k \in DOMAIN r : k <= j + Len(us) /\ r[k] = lru[j]

LEMMA UsesAre ==
  ASSUME config \in Configs, NEW S, NEW lru \in Seq(S), Len(lru) <= config.cache, NEW us \in Seq(S),
         NEW r, r = FoldLeft(Used, lru, us)
  PROVE  r \in Seq(S) /\ UsedAfter(lru, us, r)
<1>1. PICK g : Values("use", g, lru, us) /\ r = g[Len(us)]
  BY UsedFold, Zenon
<1> DEFINE n == Len(us)
           Good(i) == /\ g[i] \in Seq(S) /\ Len(g[i]) <= config.cache
                      /\ i # 0 => 1 \in DOMAIN g[i]
                                  /\ SegmentId(g[i][1][1], g[i][1][2]) = SegmentId(us[i][1], us[i][2])
                      /\ \A j \in DOMAIN lru : j + i <= config.cache =>
                           \E k \in DOMAIN g[i] : k <= j + i /\ g[i][k] = lru[j]
           T == {i \in Nat : i <= n => Good(i)}
<1>2. n \in Nat /\ config.cache \in Nat /\ \A j \in DOMAIN lru : j \in Nat
  BY ConfigIs
<1>3. 0 \in T
  <2>1. g[0] = lru
    BY <1>1, Zenon DEF Values
  <2>2. ASSUME NEW j \in DOMAIN lru PROVE \E k \in DOMAIN g[0] : k <= j + 0 /\ g[0][k] = lru[j]
    <3>1. j <= j + 0
      BY <1>2
    <3> QED BY <2>1, <3>1, Zenon
  <2>3. Good(0)
    BY <2>1, <2>2, Zenon
  <2> QED BY <2>3
<1>4. ASSUME NEW i \in Nat, i \in T PROVE i + 1 \in T
  <2>1. ASSUME i + 1 <= n PROVE Good(i + 1)
    <3>1. i + 1 \in 1..n /\ (i + 1) - 1 = i /\ i <= n
      BY <1>2, <2>1
    <3>2. Good(i)
      BY <1>4, <3>1
    <3>3. g[i + 1] = Used(g[i], us[i + 1])
      <4>1. g[i + 1] = Step("use", g[i], us[i + 1])
        BY <1>1, <3>1 DEF Values
      <4> QED BY <4>1 DEF Step
    <3>4. us[i + 1] \in S
      BY <3>1
    <3> DEFINE a == g[i]
               b == g[i + 1]
               e == us[i + 1]
    <3>5. a \in Seq(S) /\ Len(a) <= config.cache /\ b = Used(a, e) /\ e \in S
      BY <3>2, <3>3, <3>4, Zenon
    <3>6. \A j \in DOMAIN lru : j + i <= config.cache => \E k \in DOMAIN a : k <= j + i /\ a[k] = lru[j]
      BY <3>2, Zenon
    <3> HIDE DEF a, b, e, Good
    <3>0. b \in Seq(S) /\ UsedFor(a, e, b)
      BY <3>5, UsedIs, Zenon
    <3>7. /\ b \in Seq(S) /\ Len(b) <= config.cache /\ 1 \in DOMAIN b
          /\ SegmentId(b[1][1], b[1][2]) = SegmentId(e[1], e[2])
          /\ \A j \in DOMAIN a : j < config.cache => \E k \in DOMAIN b : k <= j + 1 /\ b[k] = a[j]
      BY <3>0, Zenon DEF UsedFor
    <3>8. ASSUME NEW j \in DOMAIN lru, j + (i + 1) <= config.cache
          PROVE  \E k \in DOMAIN b : k <= j + (i + 1) /\ b[k] = lru[j]
      <4>1. j \in Nat /\ j + i <= config.cache
        BY <1>2, <3>8
      <4>2. PICK k \in DOMAIN a : k <= j + i /\ a[k] = lru[j]
        BY <3>6, <4>1, Zenon
      <4>3. k \in Nat
        BY <3>5, <4>2
      <4>4. k < config.cache
        BY <1>2, <3>8, <4>1, <4>2, <4>3
      <4>5. PICK m \in DOMAIN b : m <= k + 1 /\ b[m] = a[k]
        BY <3>7, <4>4, Zenon
      <4>6. m \in Nat
        BY <3>7, <4>5
      <4>7. m <= j + (i + 1)
        BY <4>1, <4>2, <4>3, <4>5, <4>6
      <4> QED BY <4>2, <4>5, <4>7, Zenon
    <3> QED BY <3>7, <3>8, Zenon DEF Good, b, e
  <2> QED BY <2>1
<1> HIDE DEF T
<1>5. \A i \in Nat : i \in T
  BY <1>3, <1>4, Inductive
<1>6. Good(n)
  <2>1. n <= n
    BY <1>2
  <2> HIDE DEF Good
  <2> QED BY <1>2, <1>5, <2>1 DEF T
<1>7. us # <<>> => n # 0
  OBVIOUS
<1> QED BY <1>1, <1>6, <1>7, Zenon DEF UsedAfter

-----------------------------------------------------------------------------
(* Prefetching.                                                            *)

\* What a lookup works on.
LookRecord ==
  [cache : Seq(InRecipes), buffered : [FP -> Seq(Id)], segment : Seq(ChunkType), aborted : BOOLEAN]

\* Segment t of the recipes is one that an id leads to, by the id or by the place.
LeadsTo(id, t) ==
  \/ SegmentId(t[1], t[2]) = id
  \/ \E k \in SegmentsAt(id_to_bnum(id), id_to_off(id)) :
       SegmentId(t[1], t[2]) = SegmentId(id_to_bnum(id), k)

LEMMA IdNumbers ==
  ASSUME NEW id \in Nat
  PROVE  id_to_bnum(id) \in Nat /\ id_to_off(id) \in Nat
<1>1. OffRange \in Nat /\ SizeRange \in Nat /\ OffRange # 0 /\ SizeRange # 0
  BY LogicalAssumption
<1>2. id \div SizeRange \in Nat
  BY <1>1, SMTT(30)
<1>3. PICK x \in Nat : x = id \div SizeRange
  BY <1>2
<1>4. x \div OffRange \in Nat /\ x % OffRange \in Nat
  BY <1>1, SMTT(30)
<1> QED BY <1>3, <1>4 DEF id_to_bnum, id_to_off

\* Prefetching changes the cache, or an assertion fails as there is no segment.  Of the
\* cache, if segments are prefetched at all, the first is a segment that the id leads to,
\* and the others move back by at most as many as are prefetched.
MovedBack(old, new, n) ==
  \A j \in DOMAIN old : j + n <= config.cache => \E k \in DOMAIN new : k <= j + n /\ new[k] = old[j]

LEMMA PrefetchIs ==
  ASSUME Shape, NEW l \in LookRecord, Len(l.cache) <= config.cache, NEW id \in Nat,
         NEW p, p = Prefetch(l, id)
  PROVE  /\ p \in LookRecord /\ Len(p.cache) <= config.cache
         /\ p.segment = l.segment /\ p.buffered = l.buffered
         /\ Readable(id) => p.aborted = l.aborted
         /\ Readable(id) /\ config.prefetch > 0 =>
              /\ 1 \in DOMAIN p.cache /\ LeadsTo(id, p.cache[1])
              /\ MovedBack(l.cache, p.cache, config.prefetch)
<1> DEFINE at == CachedAt(l.cache, id)
           b == id_to_bnum(id)
           k == CHOOSE k \in SegmentsAt(b, id_to_off(id)) : TRUE
           n == Len(recipes[b + 1])
           last == IF k + config.prefetch - 1 < n THEN k + config.prefetch - 1 ELSE n
           us == [i \in 1..last-k+1 |-> <<b, last+1-i>>]
<1>1. p = IF at # 0 THEN [l EXCEPT !.cache = Promoted(@, at)]
          ELSE IF config.prefetch = 0 /\ b <= Backup THEN l
          ELSE IF ~Readable(id) THEN [l EXCEPT !.aborted = TRUE]
          ELSE [l EXCEPT !.cache = FoldLeft(Used, @, us)]
  BY Zenon DEF Prefetch, CachedAt
<1>2. l.cache \in Seq(InRecipes) /\ l.aborted \in BOOLEAN /\ config \in Configs
  BY DEF LookRecord, Shape
<1>3. config.prefetch \in Nat /\ config.cache \in Nat
  BY <1>2, ConfigIs
<1>4. CASE at # 0
  <2> DEFINE c == Promoted(l.cache, at)
  <2>1. at \in DOMAIN l.cache /\ SegmentId(l.cache[at][1], l.cache[at][2]) = id
    BY <1>2, <1>4, CachedAtIs, Zenon
  <2>2. /\ c \in Seq(InRecipes) /\ Len(c) = Len(l.cache) /\ c[1] = l.cache[at]
        /\ \A j \in DOMAIN l.cache : (j < at => c[j + 1] = l.cache[j]) /\ (at < j => c[j] = l.cache[j])
    BY <1>2, <2>1, PromotedIs, Zenon
  <2>3. p = [l EXCEPT !.cache = c]
    BY <1>1, <1>4, Zenon
  <2> HIDE DEF c, at
  <2>4. p \in LookRecord /\ p.cache = c /\ p.segment = l.segment /\ p.buffered = l.buffered
        /\ p.aborted = l.aborted
    BY <2>2, <2>3 DEF LookRecord
  <2>5. DOMAIN c = 1..Len(l.cache) /\ DOMAIN l.cache = 1..Len(l.cache) /\ Len(l.cache) \in Nat
    BY <1>2, <2>2
  <2>6. 1 \in DOMAIN c
    BY <2>1, <2>5
  <2>7. LeadsTo(id, c[1])
    BY <2>1, <2>2, Zenon DEF LeadsTo
  <2>8. ASSUME config.prefetch > 0, NEW j \in DOMAIN l.cache
        PROVE  \E m \in DOMAIN c : m <= j + config.prefetch /\ c[m] = l.cache[j]
    <3>1. at \in 1..Len(l.cache) /\ j \in 1..Len(l.cache)
      BY <2>1, <2>5
    <3>2. CASE j < at
      <4>1. j + 1 \in DOMAIN c /\ j + 1 <= j + config.prefetch
        BY <1>3, <2>5, <2>8, <3>1, <3>2
      <4> QED BY <2>2, <3>2, <4>1
    <3>3. CASE j = at
      <4>1. 1 <= j + config.prefetch
        BY <1>3, <2>8, <3>1
      <4> QED BY <2>2, <2>6, <3>3, <4>1
    <3>4. CASE at < j
      <4>1. j \in DOMAIN c /\ j <= j + config.prefetch
        BY <1>3, <2>5, <2>8, <3>1
      <4> QED BY <2>2, <3>4, <4>1
    <3> QED BY <3>1, <3>2, <3>3, <3>4
  <2>9. config.prefetch > 0 => MovedBack(l.cache, p.cache, config.prefetch)
    BY <2>4, <2>8, Zenon DEF MovedBack
  <2> QED BY <2>2, <2>4, <2>6, <2>7, <2>9, Zenon
<1>5. CASE at = 0 /\ ~Readable(id)
  <2>1. p = l \/ p = [l EXCEPT !.aborted = TRUE]
    BY <1>1, <1>5, Zenon
  <2>2. p \in LookRecord /\ p.cache = l.cache /\ p.segment = l.segment /\ p.buffered = l.buffered
    BY <2>1 DEF LookRecord
  <2> QED BY <1>5, <2>2
<1>6. CASE at = 0 /\ Readable(id) /\ config.prefetch = 0
  <2>1. b + 1 \in DOMAIN recipes
    BY <1>6, Zenon DEF Readable, SegmentsAt
  <2>2. recipes \in Seq(Seq(Seq(Pointer))) /\ b \in Nat
    BY IdNumbers DEF Shape
  <2> HIDE DEF b
  <2>3. b <= Backup
    BY <2>1, <2>2 DEF Backup
  <2>4. p = l
    BY <1>1, <1>6, <2>3, Zenon
  <2>5. ~(config.prefetch > 0)
    BY <1>6
  <2> QED BY <2>4, <2>5, Zenon
<1>7. CASE at = 0 /\ Readable(id) /\ config.prefetch # 0
  <2> DEFINE r == FoldLeft(Used, l.cache, us)
  <2>1. p = [l EXCEPT !.cache = r]
    BY <1>1, <1>7, Zenon
  <2>2. k \in SegmentsAt(b, id_to_off(id))
    <3>1. SegmentsAt(b, id_to_off(id)) # {}
      BY <1>7, Zenon DEF Readable
    <3> QED BY <3>1
  <2> HIDE DEF k, at
  <2>3. b \in Nat
    BY IdNumbers
  <2>4. b + 1 \in DOMAIN recipes /\ k \in DOMAIN recipes[b + 1]
    BY <2>2, Zenon DEF SegmentsAt
  <2> HIDE DEF b
  <2>5. recipes[b + 1] \in Seq(Seq(Pointer)) /\ DOMAIN recipes[b + 1] = 1..n /\ n \in Nat
    BY <2>4 DEF Shape
  <2>6. k \in 1..n
    BY <2>4, <2>5
  <2> HIDE DEF n
  <2>7. last \in k..n /\ last - k + 1 <= config.prefetch /\ last - k + 1 \in Nat \ {0}
    <3> DEFINE most == config.prefetch
    <3>1. most \in Nat \ {0} /\ last = (IF k + most - 1 < n THEN k + most - 1 ELSE n)
      BY <1>3, <1>7
    <3>2. k \in 1..n /\ n \in Nat
      BY <2>5, <2>6
    <3> HIDE DEF most, last
    <3>3. last \in k..n /\ last - k + 1 <= most /\ last - k + 1 \in Nat \ {0}
      BY <3>1, <3>2
    <3> QED BY <3>3, Zenon DEF most
  <2> HIDE DEF last
  <2>8. ASSUME NEW i \in 1..(last - k + 1) PROVE <<b, last + 1 - i>> \in InRecipes
    <3>1. last + 1 - i \in 1..n /\ last + 1 - i \in Nat
      BY <2>5, <2>6, <2>7
    <3> QED BY <2>3, <2>4, <2>5, <3>1 DEF InRecipes
  <2>9. us \in Seq(InRecipes) /\ Len(us) = last - k + 1
    BY <2>7, <2>8
  <2>10. us[Len(us)] = <<b, k>>
    <3>1. last - k + 1 \in 1..(last - k + 1) /\ last + 1 - (last - k + 1) = k
      BY <2>5, <2>6, <2>7
    <3> QED BY <2>9, <3>1
  <2>11. us # <<>>
    BY <2>7, <2>9
  <2> HIDE DEF us
  <2>12. /\ r \in Seq(InRecipes) /\ Len(r) <= config.cache
         /\ us # <<>> => 1 \in DOMAIN r
                         /\ SegmentId(r[1][1], r[1][2]) = SegmentId(us[Len(us)][1], us[Len(us)][2])
         /\ \A j \in DOMAIN l.cache : j + Len(us) <= config.cache =>
              \E m \in DOMAIN r : m <= j + Len(us) /\ r[m] = l.cache[j]
    <3>1. r = FoldLeft(Used, l.cache, us)
      OBVIOUS
    <3> HIDE DEF r
    <3> DEFINE lru == l.cache
    <3>2. lru \in Seq(InRecipes) /\ Len(lru) <= config.cache /\ r = FoldLeft(Used, lru, us)
      BY <1>2, <3>1
    <3> HIDE DEF lru
    <3>3. /\ r \in Seq(InRecipes) /\ Len(r) <= config.cache
          /\ us # <<>> => 1 \in DOMAIN r
                          /\ SegmentId(r[1][1], r[1][2]) = SegmentId(us[Len(us)][1], us[Len(us)][2])
          /\ \A j \in DOMAIN lru : j + Len(us) <= config.cache =>
               \E m \in DOMAIN r : m <= j + Len(us) /\ r[m] = lru[j]
      <4>1. r \in Seq(InRecipes) /\ UsedAfter(lru, us, r)
        BY <1>2, <2>9, <3>2, UsesAre, Zenon
      <4> QED BY <4>1, Zenon DEF UsedAfter
    <3> QED BY <3>3, Zenon DEF lru
  <2> HIDE DEF r
  <2>13. p \in LookRecord /\ p.cache = r /\ p.segment = l.segment /\ p.buffered = l.buffered
         /\ p.aborted = l.aborted
    BY <2>1, <2>12 DEF LookRecord
  <2>14. SegmentId(r[1][1], r[1][2]) = SegmentId(b, k)
    <3>1. <<b, k>>[1] = b /\ <<b, k>>[2] = k
      OBVIOUS
    <3> QED BY <2>10, <2>11, <2>12, <3>1, Zenon
  <2>15. LeadsTo(id, r[1])
    BY <2>2, <2>14, Zenon DEF LeadsTo, b
  <2>16. ASSUME NEW j \in DOMAIN l.cache, j + config.prefetch <= config.cache
         PROVE  \E m \in DOMAIN r : m <= j + config.prefetch /\ r[m] = l.cache[j]
    <3>1. j \in Nat
      BY <1>2
    <3>2. Len(us) \in Nat /\ Len(us) <= config.prefetch
      BY <2>7, <2>9
    <3>3. j + Len(us) <= config.cache
      BY <1>3, <2>16, <3>1, <3>2
    <3>4. PICK m \in DOMAIN r : m <= j + Len(us) /\ r[m] = l.cache[j]
      BY <2>12, <3>3, Zenon
    <3>5. m \in Nat
      BY <2>12
    <3>6. m <= j + config.prefetch
      BY <1>3, <3>1, <3>2, <3>4, <3>5
    <3> QED BY <3>4, <3>6, Zenon
  <2>17. MovedBack(l.cache, p.cache, config.prefetch)
    BY <2>13, <2>16, Zenon DEF MovedBack
  <2> QED BY <2>11, <2>12, <2>13, <2>15, <2>17, Zenon
<1> QED BY <1>4, <1>5, <1>6, <1>7, Zenon

-----------------------------------------------------------------------------
(* Looking up a chunk.                                                     *)

\* The lookup record becomes p while the cache is searched.
Searched(l, p) ==
  /\ p \in LookRecord /\ Len(p.cache) <= config.cache
  /\ p.segment = l.segment /\ p.buffered = l.buffered

\* No id in the key-value store leads nowhere; those of a key lead to segments with a
\* chunk of that key.
AllReadable == \A x \in DOMAIN kv : \A id \in Range(kv[x]) : Readable(id)
AllLead ==
  \A x \in DOMAIN kv : \A id \in Range(kv[x]) : \A t \in InRecipes :
    LeadsTo(id, t) /\ x \notin {Highest, Key(Mark)} =>
      \E i \in DOMAIN Pointers(t) : Key(Pointers(t)[i].fp) = x

\* An exact index reads the segment that an id leads to.
Finds == config.exact /\ config.prefetch > 0

\* What Looked(p, f, id, dup) says of chunk f, after l.
LookedUp(l, f, p, id, dup) ==
  /\ Searched(l, p) /\ id \in Id /\ dup \in BOOLEAN
  /\ id # TEMPORARY_ID => dup /\ Holds(id, f)
  /\ ~dup => l.buffered[f] = <<>> /\ ~InStorageBuffer(f)
  /\ dup /\ id = TEMPORARY_ID => l.buffered[f] # <<>>
  /\ AllReadable => p.aborted = l.aborted
  /\ ~AsksIndex => Range(l.cache) \subseteq Range(p.cache)
  /\ ~dup => \A s \in Range(l.cache) : ~HoldsFp(s, f)
  /\ Finds /\ AllReadable /\ AllLead /\ ~dup => kv[Key(f)] = <<>>

\* A chunk that is found in the cache.
LEMMA FromCacheIs ==
  ASSUME Shape, RecipeRestorable, NEW l \in LookRecord, Len(l.cache) <= config.cache,
         NEW f \in FP, InCache(l, f) # 0
  PROVE  \E p, id : /\ FromCache(l, f) = Looked(p, f, id, TRUE)
                    /\ Searched(l, p) /\ p.aborted = l.aborted
                    /\ Range(l.cache) \subseteq Range(p.cache)
                    /\ id \in Nat /\ Holds(id, f)
<1> DEFINE i == InCache(l, f)
           s == l.cache[i]
           c == Promoted(l.cache, i)
           p == [l EXCEPT !.cache = Promoted(@, i)]
           id == IdIn(s, f)
<1>1. FromCache(l, f) = Looked(p, f, id, TRUE)
  BY Zenon DEF FromCache
<1>2. l.cache \in Seq(InRecipes) /\ i \in DOMAIN l.cache /\ HoldsFp(s, f)
  <2>1. l.cache \in Seq(InRecipes)
    BY DEF LookRecord
  <2> QED BY <2>1, InCacheIs, Zenon
<1>3. /\ c \in Seq(InRecipes) /\ Len(c) = Len(l.cache) /\ c[1] = l.cache[i]
      /\ \A j \in DOMAIN l.cache : (j < i => c[j + 1] = l.cache[j]) /\ (i < j => c[j] = l.cache[j])
  BY <1>2, PromotedIs, Zenon
<1>4. s \in InRecipes
  BY <1>2
<1>5. p = [l EXCEPT !.cache = c]
  BY Zenon
<1> HIDE DEF c, p, i, s
<1>6. p \in LookRecord /\ p.cache = c /\ p.segment = l.segment /\ p.buffered = l.buffered
      /\ p.aborted = l.aborted
  BY <1>3, <1>5 DEF LookRecord
<1>7. Searched(l, p)
  BY <1>3, <1>6 DEF Searched
<1>8. ASSUME NEW j \in DOMAIN l.cache PROVE \E k \in DOMAIN c : c[k] = l.cache[j]
  <2>1. DOMAIN c = 1..Len(l.cache) /\ DOMAIN l.cache = 1..Len(l.cache) /\ Len(l.cache) \in Nat
    BY <1>2, <1>3
  <2>2. CASE j < i
    <3>1. j + 1 \in DOMAIN c
      BY <1>2, <2>1, <2>2
    <3> QED BY <1>3, <2>2, <3>1
  <2>3. CASE j = i
    <3>1. 1 \in DOMAIN c
      BY <1>2, <2>1
    <3> QED BY <1>3, <2>3, <3>1
  <2>4. CASE i < j
    BY <1>3, <2>1, <2>4
  <2> QED BY <1>2, <2>1, <2>2, <2>3, <2>4
<1>9. Range(l.cache) \subseteq Range(p.cache)
  BY <1>6, <1>8 DEF Range
<1>10. PICK k \in DOMAIN Pointers(s) : Pointers(s)[k].fp = f /\ id = Pointers(s)[k].id
  BY <1>2, <1>4, IdInIs, Zenon
<1>11. Holds(id, f)
  <2>1. s[1] + 1 \in DOMAIN recipes /\ s[2] \in DOMAIN recipes[s[1] + 1]
    BY <1>4 DEF InRecipes
  <2> QED BY <1>10, <2>1, Zenon DEF Pointers, Holds, RecipeRestorable
<1>12. id \in Nat
  <2>1. Pointers(s) \in Seq(Pointer)
    BY <1>4 DEF Pointers, InRecipes, Shape
  <2>2. Pointers(s)[k] \in Pointer
    BY <1>10, <2>1
  <2> QED BY <1>10, <2>2 DEF Pointer
<1> QED BY <1>1, <1>6, <1>7, <1>9, <1>11, <1>12, Zenon

\* A key of the key-value store.
LEMMA KeyIs ==
  ASSUME Shape, NEW f \in FP \cup {Mark}
  PROVE  Key(f) \in DOMAIN kv /\ Key(f) \in Nat /\ kv[Key(f)] \in Seq(Nat)
<1>1. config \in Configs /\ kv \in [Keys \cup {Highest} -> Seq(Nat)]
  BY DEF Shape
<1>2. config.keys \in {c.keys : c \in Configs}
  BY <1>1
<1>3. Key(f) \in Keys
  <2>1. \A k \in {c.keys : c \in Configs} : f \div k \in Keys
    BY SMT DEF Keys
  <2> QED BY <1>2, <2>1, Zenon DEF Key
<1>4. Key(f) \in Nat
  <2>1. PICK n \in Nat : n = f
    BY Marked
  <2>2. PICK m \in Nat \ {0} : m = config.keys
    BY <1>1, ConfigIs
  <2>3. n \div m \in Nat
    BY SMTT(30)
  <2> QED BY <2>1, <2>2, <2>3 DEF Key
<1> QED BY <1>1, <1>3, <1>4

\* A chunk that is looked up.
LEMMA LookupIs ==
  ASSUME Shape, RecipeRestorable, NEW l \in LookRecord, Len(l.cache) <= config.cache,
         NEW rows, InFlight(rows, l.buffered), NEW f \in FP
  PROVE  \E p, id, dup : LookupChunk(l, f) = Looked(p, f, id, dup) /\ LookedUp(l, f, p, id, dup)
<1> DEFINE Good(p, id, dup) == LookupChunk(l, f) = Looked(p, f, id, dup) /\ LookedUp(l, f, p, id, dup)
<1>0. Searched(l, l) /\ Range(l.cache) \subseteq Range(l.cache)
  BY DEF Searched
<1>1. /\ f # Mark /\ TEMPORARY_ID \in Id /\ TEMPORARY_ID \notin Nat
      /\ l.buffered \in [FP -> Seq(Id)] /\ IdsHold(rows, l.buffered)
  BY Marked, Zenon DEF InFlight, Id
<1>2. CASE InStorageBuffer(f)
  <2>1. LookupChunk(l, f) = Looked(l, f, Current, TRUE)
    BY <1>1, <1>2 DEF LookupChunk
  <2>2. open /\ f \in containers[Len(containers)] /\ containers \in Seq(SUBSET FP) /\ containers # <<>>
    BY <1>2 DEF InStorageBuffer, Shape
  <2>3. Current = Len(containers) - 1 /\ Current \in Nat /\ Current + 1 = Len(containers)
        /\ Len(containers) \in DOMAIN containers
    BY <2>2 DEF Current
  <2>4. Holds(Current, f) /\ Current \in Id
    BY <2>2, <2>3 DEF Holds, Id
  <2>5. LookedUp(l, f, l, Current, TRUE)
    BY <1>0, <1>1, <2>3, <2>4, Zenon DEF LookedUp
  <2> QED BY <2>1, <2>5, Zenon
<1>3. CASE ~InStorageBuffer(f) /\ l.buffered[f] # <<>>
  <2> DEFINE h == Head(l.buffered[f])
  <2>1. LookupChunk(l, f) = Looked(l, f, h, TRUE)
    BY <1>1, <1>3 DEF LookupChunk
  <2>2. l.buffered[f] \in Seq(Id)
    BY <1>1
  <2>3. h = l.buffered[f][1] /\ h \in Id /\ 1 \in DOMAIN l.buffered[f]
    BY <1>3, <2>2
  <2> HIDE DEF h
  <2>4. h # TEMPORARY_ID => Holds(h, f)
    BY <1>1, <2>3, Zenon DEF IdsHold
  <2>5. LookedUp(l, f, l, h, TRUE)
    BY <1>0, <1>3, <2>3, <2>4, Zenon DEF LookedUp
  <2> QED BY <2>1, <2>5, Zenon
<1>4. CASE ~InStorageBuffer(f) /\ l.buffered[f] = <<>>
  <2>1. LookupChunk(l, f) =
          IF InCache(l, f) # 0 THEN FromCache(l, f)
          ELSE IF AsksIndex /\ kv[Key(f)] # <<>>
          THEN LET p == Prefetch(l, Head(kv[Key(f)]))
               IN IF InCache(p, f) # 0 THEN FromCache(p, f)
                  ELSE Looked(p, f, TEMPORARY_ID, FALSE)
          ELSE Looked(l, f, TEMPORARY_ID, FALSE)
    BY <1>1, <1>4, Zenon DEF LookupChunk
  <2>2. CASE InCache(l, f) # 0
    <3>1. PICK p, id : /\ FromCache(l, f) = Looked(p, f, id, TRUE)
                       /\ Searched(l, p) /\ p.aborted = l.aborted
                       /\ Range(l.cache) \subseteq Range(p.cache)
                       /\ id \in Nat /\ Holds(id, f)
      BY <2>2, FromCacheIs, Zenon
    <3>2. id # TEMPORARY_ID /\ id \in Id
      BY <1>1, <3>1 DEF Id
    <3>3. LookedUp(l, f, p, id, TRUE)
      BY <3>1, <3>2, Zenon DEF LookedUp
    <3> QED BY <2>1, <2>2, <3>1, <3>3, Zenon
  <2>3. \A s \in Range(l.cache) : InCache(l, f) = 0 => ~HoldsFp(s, f)
    <3>1. l.cache \in Seq(InRecipes)
      BY DEF LookRecord
    <3>2. InCache(l, f) = 0 => \A i \in DOMAIN l.cache : ~HoldsFp(l.cache[i], f)
      BY <3>1, InCacheIs, Zenon
    <3> QED BY <3>2, Zenon DEF Range
  <2>4. CASE InCache(l, f) = 0 /\ AsksIndex /\ kv[Key(f)] # <<>>
    <3> DEFINE id == Head(kv[Key(f)])
               p == Prefetch(l, id)
    <3>1. kv[Key(f)] \in Seq(Nat) /\ Key(f) \in DOMAIN kv /\ Key(f) \in Nat
      BY KeyIs
    <3>2. id \in Nat /\ id \in Range(kv[Key(f)])
      <4>1. id = kv[Key(f)][1] /\ 1 \in DOMAIN kv[Key(f)] /\ id \in Nat
        BY <2>4, <3>1
      <4> QED BY <4>1 DEF Range
    <3> HIDE DEF id
    <3>3. p = Prefetch(l, id)
      OBVIOUS
    <3> HIDE DEF p
    <3>4. /\ p \in LookRecord /\ Len(p.cache) <= config.cache
          /\ p.segment = l.segment /\ p.buffered = l.buffered
          /\ Readable(id) => p.aborted = l.aborted
          /\ Readable(id) /\ config.prefetch > 0 => 1 \in DOMAIN p.cache /\ LeadsTo(id, p.cache[1])
      BY <3>2, <3>3, PrefetchIs, Zenon
    <3>5. Searched(l, p)
      BY <3>4, Zenon DEF Searched
    <3>6. AllReadable => Readable(id)
      BY <3>1, <3>2, Zenon DEF AllReadable
    <3>7. LookupChunk(l, f) =
            IF InCache(p, f) # 0 THEN FromCache(p, f) ELSE Looked(p, f, TEMPORARY_ID, FALSE)
      BY <2>1, <2>4, <3>3, Zenon DEF id
    <3>8. CASE InCache(p, f) # 0
      <4>1. PICK q, n : /\ FromCache(p, f) = Looked(q, f, n, TRUE)
                        /\ Searched(p, q) /\ q.aborted = p.aborted
                        /\ Range(p.cache) \subseteq Range(q.cache)
                        /\ n \in Nat /\ Holds(n, f)
        BY <3>4, <3>8, FromCacheIs, Zenon
      <4>2. n # TEMPORARY_ID /\ n \in Id
        BY <1>1, <4>1 DEF Id
      <4>3. Searched(l, q)
        BY <3>4, <4>1, Zenon DEF Searched
      <4>4. LookedUp(l, f, q, n, TRUE)
        BY <2>4, <3>4, <3>6, <4>1, <4>2, <4>3, Zenon DEF LookedUp
      <4> QED BY <3>7, <3>8, <4>1, <4>4, Zenon
    <3>9. CASE InCache(p, f) = 0
      <4>1. \A i \in DOMAIN p.cache : ~HoldsFp(p.cache[i], f)
        <5>1. p.cache \in Seq(InRecipes)
          BY <3>4 DEF LookRecord
        <5> QED BY <3>9, <5>1, InCacheIs, Zenon
      <4>2. ~(Finds /\ AllReadable /\ AllLead)
        <5> SUFFICES ASSUME config.exact, config.prefetch > 0, AllReadable, AllLead PROVE FALSE
          BY Zenon DEF Finds
        <5>1. 1 \in DOMAIN p.cache /\ LeadsTo(id, p.cache[1])
          BY <3>4, <3>6, Zenon
        <5>2. p.cache[1] \in InRecipes
          BY <3>4, <5>1 DEF LookRecord
        <5>3. config.keys = 1
          BY ConfigIs, Zenon DEF Shape
        <5>4. \A g \in FP \cup {Mark} : Key(g) = g
          <6>1. \A g \in Nat : g \div 1 = g
            OBVIOUS
          <6>2. FP \cup {Mark} \subseteq Nat
            BY Marked
          <6> QED BY <5>3, <6>1, <6>2 DEF Key
        <5>5. Key(f) \notin {Highest, Key(Mark)}
          <6>1. Key(f) = f /\ Key(Mark) = Mark
            BY <5>4
          <6>2. f \in Nat /\ Highest \notin Nat
            BY Marked DEF Highest
          <6> QED BY <1>1, <6>1, <6>2
        <5>6. PICK i \in DOMAIN Pointers(p.cache[1]) : Key(Pointers(p.cache[1])[i].fp) = Key(f)
          BY <3>1, <3>2, <5>1, <5>2, <5>5, Zenon DEF AllLead
        <5>7. Pointers(p.cache[1])[i].fp \in FP
          <6>1. Pointers(p.cache[1]) \in Seq(Pointer)
            BY <5>2, PointersIs
          <6>2. Pointers(p.cache[1])[i] \in Pointer
            BY <5>6, <6>1
          <6> QED BY <6>2 DEF Pointer
        <5>8. Pointers(p.cache[1])[i].fp = f
          BY <5>4, <5>6, <5>7
        <5>9. HoldsFp(p.cache[1], f)
          BY <5>6, <5>8, Zenon DEF HoldsFp
        <5> QED BY <4>1, <5>1, <5>9
      <4>3. LookedUp(l, f, p, TEMPORARY_ID, FALSE)
        BY <1>1, <1>4, <2>3, <2>4, <3>4, <3>5, <3>6, <4>2, Zenon DEF LookedUp
      <4> QED BY <3>7, <3>9, <4>3, Zenon
    <3> QED BY <3>8, <3>9, Zenon
  <2>5. CASE InCache(l, f) = 0 /\ ~(AsksIndex /\ kv[Key(f)] # <<>>)
    <3>1. LookupChunk(l, f) = Looked(l, f, TEMPORARY_ID, FALSE)
      BY <2>1, <2>5, Zenon
    <3>2. Finds => AsksIndex
      BY Zenon DEF AsksIndex, Finds
    <3>3. LookedUp(l, f, l, TEMPORARY_ID, FALSE)
      BY <1>0, <1>1, <1>4, <2>3, <2>5, <3>2, Zenon DEF LookedUp
    <3> QED BY <3>1, <3>3, Zenon
  <2> QED BY <2>2, <2>4, <2>5, Zenon
<1> QED BY <1>2, <1>3, <1>4, Zenon

\* A segment that begins changes nothing.
LEMMA EmptyRow ==
  ASSUME NEW rows, NEW buf, InFlight(rows, buf)
  PROVE  InFlight(Append(rows, <<>>), buf)
<1> DEFINE r == Append(rows, <<>>)
           n == Len(rows)
<1>1. /\ rows \in Seq(Seq(ChunkType)) /\ buf \in [FP -> Seq(Id)]
      /\ IdsHold(rows, buf) /\ UniqueFirst(rows) /\ UniqueFresh(rows)
      /\ Counted(rows, buf) /\ Promised(rows, buf)
  BY DEF InFlight
<1>2. /\ r \in Seq(Seq(ChunkType)) /\ n \in Nat /\ Len(r) = n + 1
      /\ DOMAIN rows = 1..n /\ DOMAIN r = 1..(n + 1) /\ \A k \in 1..n : r[k] = rows[k]
      /\ r[n + 1] = <<>>
  <2>1. <<>> \in Seq(ChunkType)
    OBVIOUS
  <2> QED BY <1>1, <2>1, AppendProperties
<1> HIDE DEF r
<1>3. ASSUME NEW k \in DOMAIN r, NEW i \in DOMAIN r[k]
      PROVE  k \in DOMAIN rows /\ i \in DOMAIN rows[k] /\ r[k] = rows[k]
  <2>1. CASE k = n + 1
    <3>1. DOMAIN r[k] = {}
      BY <1>2, <2>1
    <3> QED BY <3>1
  <2>2. CASE k # n + 1
    <3>1. k \in 1..n
      BY <1>2, <2>2
    <3> QED BY <1>2, <3>1
  <2> QED BY <2>1, <2>2
<1>4. \A k \in DOMAIN rows : k \in DOMAIN r /\ r[k] = rows[k]
  BY <1>2
<1>5. \A k, i : Unique(r, k, i) <=> Unique(rows, k, i)
  BY <1>3, <1>4, Zenon DEF Unique
<1>6. IdsHold(r, buf)
  BY <1>1, <1>3, Zenon DEF IdsHold
<1>7. UniqueFirst(r)
  BY <1>1, <1>3, <1>5, Zenon DEF UniqueFirst
<1>8. UniqueFresh(r)
  BY <1>1, <1>3, <1>5, Zenon DEF UniqueFresh
<1>9. Promised(r, buf)
  <2> SUFFICES ASSUME NEW f \in FP, buf[f] # <<>>, Head(buf[f]) = TEMPORARY_ID
               PROVE  \E k \in DOMAIN r : \E i \in DOMAIN r[k] : Unique(r, k, i) /\ r[k][i].fp = f
    BY Zenon DEF Promised
  <2>1. PICK k \in DOMAIN rows : \E i \in DOMAIN rows[k] : Unique(rows, k, i) /\ rows[k][i].fp = f
    BY <1>1, Zenon DEF Promised
  <2>2. PICK i \in DOMAIN rows[k] : Unique(rows, k, i) /\ rows[k][i].fp = f
    BY <2>1, Zenon
  <2>3. k \in DOMAIN r /\ i \in DOMAIN r[k] /\ r[k][i].fp = f
    BY <1>4, <2>2
  <2> QED BY <1>5, <2>2, <2>3, Zenon
<1>10. Counted(r, buf)
  <2> SUFFICES ASSUME NEW f \in FP PROVE Sum(Times(r, f), Len(r), Len(buf[f]))
    BY Zenon DEF Counted
  <2>1. Sum(Times(rows, f), n, Len(buf[f])) /\ Len(buf[f]) \in Nat
    BY <1>1 DEF Counted
  <2>2. \A k \in 1..n : Times(r, f)[k] = Times(rows, f)[k]
    BY <1>2 DEF Times
  <2>3. Times(r, f)[n + 1] = 0
    BY <1>2, HereEmpty DEF Times
  <2>4. PICK t \in Nat : t = Len(buf[f])
    BY <2>1
  <2>5. Sum(Times(r, f), n + 1, t + 0)
    BY <1>2, <2>1, <2>2, <2>3, <2>4, SumAppend
  <2>6. t + 0 = t
    OBVIOUS
  <2> QED BY <1>2, <2>4, <2>5, <2>6
<1> QED BY <1>1, <1>2, <1>6, <1>7, <1>8, <1>9, <1>10, Zenon DEF InFlight, r

\* The lookup record after the first i chunks of a segment fps, from one with cache c.
LookInv(l, c, fps, i) ==
  /\ l \in LookRecord /\ Len(l.cache) <= config.cache
  /\ InFlight(Append(flight, l.segment), l.buffered)
  /\ Len(l.segment) = i /\ \A j \in 1..i : l.segment[j].fp = fps[j]
  /\ AllReadable => ~l.aborted
  /\ ~AsksIndex => /\ Range(c) \subseteq Range(l.cache)
                   /\ \A j \in 1..i : (\E s \in Range(c) : HoldsFp(s, fps[j])) => l.segment[j].dup
  /\ Finds /\ AllReadable /\ AllLead =>
       \A j \in 1..i : fps[j] # Mark /\ ~l.segment[j].dup => kv[Key(fps[j])] = <<>>

\* The record q that chunk d is appended to.
Joins(l, d, q) ==
  /\ q \in LookRecord /\ q.cache = l.cache /\ q.aborted = l.aborted
  /\ q.segment = Append(l.segment, d)
  /\ q.buffered[d.fp] = Append(l.buffered[d.fp], d.id)
  /\ \A g \in FP : g # d.fp => q.buffered[g] = l.buffered[g]

LEMMA LookedIs ==
  ASSUME NEW l \in LookRecord, NEW f \in FP, NEW id \in Id, NEW dup \in BOOLEAN,
         NEW q, q = Looked(l, f, id, dup)
  PROVE  /\ Joins(l, Chunk(f, id, dup), q) /\ Chunk(f, id, dup) \in ChunkType
         /\ Chunk(f, id, dup).fp = f /\ Chunk(f, id, dup).id = id /\ Chunk(f, id, dup).dup = dup
<1> DEFINE c == Chunk(f, id, dup)
           s == Append(l.segment, c)
           b == [l.buffered EXCEPT ![f] = Append(@, id)]
<1>1. c \in ChunkType /\ c.fp = f /\ c.id = id /\ c.dup = dup
  BY DEF Chunk, ChunkType
<1>2. l.segment \in Seq(ChunkType) /\ l.buffered \in [FP -> Seq(Id)]
  BY DEF LookRecord
<1>3. q = [l EXCEPT !.segment = s, !.buffered = b]
  BY Zenon DEF Looked
<1> HIDE DEF c
<1>4. s \in Seq(ChunkType)
  BY <1>1, <1>2
<1>5. /\ b \in [FP -> Seq(Id)] /\ b[f] = Append(l.buffered[f], id)
      /\ \A g \in FP : g # f => b[g] = l.buffered[g]
  <2>1. l.buffered[f] \in Seq(Id)
    BY <1>2
  <2>2. Append(l.buffered[f], id) \in Seq(Id)
    BY <2>1
  <2> QED BY <1>2, <2>2
<1> HIDE DEF s, b
<1>6. q \in LookRecord /\ q.cache = l.cache /\ q.aborted = l.aborted /\ q.segment = s /\ q.buffered = b
  BY <1>3, <1>4, <1>5 DEF LookRecord
<1>7. Joins(l, c, q)
  BY <1>1, <1>5, <1>6, Zenon DEF Joins, s
<1> QED BY <1>1, <1>7, Zenon DEF c

\* Looking up a chunk.
LEMMA LookupStep ==
  ASSUME Shape, RecipeRestorable, NEW fps \in Seq(FP \cup {Mark}), NEW i \in Nat, i + 1 <= Len(fps),
         NEW c, NEW l, LookInv(l, c, fps, i), NEW q, q = LookupChunk(l, fps[i + 1])
  PROVE  LookInv(q, c, fps, i + 1)
<1> DEFINE f == fps[i + 1]
           n == Len(flight) + 1
           rows == Append(flight, l.segment)
           rows2 == Append(flight, q.segment)
<1>1. /\ l \in LookRecord /\ Len(l.cache) <= config.cache
      /\ InFlight(rows, l.buffered) /\ rows \in Seq(Seq(ChunkType)) /\ l.buffered \in [FP -> Seq(Id)]
      /\ Len(l.segment) = i /\ l.segment \in Seq(ChunkType)
  BY DEF LookInv, InFlight, LookRecord
<1>2. f \in FP \cup {Mark} /\ q = LookupChunk(l, f)
  BY SMT
<1>3. flight \in Seq(Seq(ChunkType)) /\ n \in Nat /\ n # 0 /\ n - 1 = Len(flight)
  <2>1. flight \in Seq(Seq(ChunkType)) /\ Len(flight) \in Nat
    BY DEF Shape
  <2> QED BY <2>1
<1>4. /\ Len(rows) = n /\ rows[n] = l.segment /\ \A k \in 1..(n - 1) : rows[k] = flight[k]
  BY <1>1, <1>3, AppendProperties
<1>5. ASSUME NEW d \in ChunkType, q \in LookRecord, q.segment = Append(l.segment, d), d.fp = f,
             f = Mark => ~d.dup,
             d.id # TEMPORARY_ID => f \in FP /\ d.dup /\ Holds(d.id, f),
             f # Mark /\ ~d.dup => l.buffered[f] = <<>> /\ ~InStorageBuffer(f),
             f # Mark /\ d.dup /\ d.id = TEMPORARY_ID => l.buffered[f] # <<>>,
             \A g \in FP : g # f => q.buffered[g] = l.buffered[g],
             f \in FP => q.buffered[f] = Append(l.buffered[f], d.id)
      PROVE  InFlight(rows2, q.buffered)
  <2>1. q.segment \in Seq(ChunkType) /\ q.buffered \in [FP -> Seq(Id)]
    BY <1>5 DEF LookRecord
  <2>2. /\ rows2 \in Seq(Seq(ChunkType)) /\ Len(rows2) = n /\ rows2[n] = q.segment
        /\ \A k \in 1..(n - 1) : rows2[k] = flight[k]
    BY <1>3, <2>1, AppendProperties
  <2>3. \A k \in 1..(n - 1) : rows2[k] = rows[k]
    BY <1>4, <2>2
  <2>4. rows2[n] = Append(rows[n], d)
    BY <1>4, <1>5, <2>2
  <2> DEFINE bq == q.buffered
             bl == l.buffered
  <2>5. bq \in [FP -> Seq(Id)] /\ \A g \in FP : g # f => bq[g] = bl[g]
    BY <1>5, <2>1, Zenon
  <2>6. f \in FP => bq[f] = Append(bl[f], d.id)
    BY <1>5, Zenon
  <2>7. InFlight(rows, bl)
    BY <1>1
  <2>8. f # Mark /\ ~d.dup => bl[f] = <<>> /\ ~InStorageBuffer(f)
    BY <1>5, Zenon
  <2>9. f # Mark /\ d.dup /\ d.id = TEMPORARY_ID => bl[f] # <<>>
    BY <1>5, Zenon
  <2>10. d.fp = f /\ (f = Mark => ~d.dup)
         /\ (d.id # TEMPORARY_ID => f \in FP /\ d.dup /\ Holds(d.id, f))
    BY <1>5, Zenon
  <2> DEFINE e == d.fp
  <2>11. e = f
    BY <1>5
  <2> HIDE DEF rows, rows2, n, f, bq, bl
  <2>12. /\ \A g \in FP : g # e => bq[g] = bl[g]
         /\ e \in FP => bq[e] = Append(bl[e], d.id)
         /\ e = Mark => ~d.dup
         /\ d.id # TEMPORARY_ID => e \in FP /\ d.dup /\ Holds(d.id, e)
         /\ e # Mark /\ ~d.dup => bl[e] = <<>> /\ ~InStorageBuffer(e)
         /\ e # Mark /\ d.dup /\ d.id = TEMPORARY_ID => bl[e] # <<>>
    BY <2>5, <2>6, <2>8, <2>9, <2>10, <2>11, Zenon
  <2>13. n = Len(rows)
    BY <1>4
  <2>14. Appended(rows, bl, n, d, rows2, bq)
    BY <1>3, <2>2, <2>3, <2>4, <2>5, <2>7, <2>12, <2>13, Zenon DEF Appended
  <2>15. InFlight(rows2, bq)
    BY <2>14, AppendChunk, Zenon
  <2> QED BY <2>15 DEF rows2, bq
<1>6. ASSUME NEW d \in ChunkType, q.segment = Append(l.segment, d), d.fp = f
      PROVE  /\ Len(q.segment) = i + 1 /\ q.segment[i + 1] = d
             /\ \A j \in 1..(i + 1) : q.segment[j].fp = fps[j]
             /\ \A j \in 1..i : q.segment[j] = l.segment[j]
  <2>1. Len(q.segment) = i + 1 /\ q.segment[i + 1] = d /\ \A j \in 1..i : q.segment[j] = l.segment[j]
    BY <1>1, <1>6, AppendProperties
  <2>2. ASSUME NEW j \in 1..(i + 1) PROVE q.segment[j].fp = fps[j]
    <3>1. CASE j = i + 1
      BY <1>6, <2>1, <3>1
    <3>2. CASE j # i + 1
      <4>1. j \in 1..i
        BY <3>2
      <4>2. l.segment[j].fp = fps[j]
        BY <4>1, Zenon DEF LookInv
      <4> QED BY <2>1, <4>1, <4>2
    <3> QED BY <3>1, <3>2
  <2> QED BY <2>1, <2>2
<1>7. \A j \in 1..(i + 1) : j = i + 1 \/ j \in 1..i
  OBVIOUS
<1>8. CASE f = Mark
  <2> DEFINE d == Chunk(f, TEMPORARY_ID, FALSE)
  <2>1. d \in ChunkType /\ d.fp = f /\ d.id = TEMPORARY_ID /\ ~d.dup
    BY <1>2 DEF Chunk, ChunkType, Id
  <2>2. q = [l EXCEPT !.segment = Append(@, d)]
    BY <1>2, <1>8 DEF LookupChunk
  <2> HIDE DEF d
  <2>3. Append(l.segment, d) \in Seq(ChunkType)
    BY <1>1, <2>1
  <2>4. q \in LookRecord /\ q.segment = Append(l.segment, d) /\ q.cache = l.cache
        /\ q.buffered = l.buffered /\ q.aborted = l.aborted
    BY <1>1, <2>2, <2>3 DEF LookRecord
  <2>5. InFlight(rows2, q.buffered)
    <3>1. f \notin FP
      BY <1>8, Marked
    <3> HIDE DEF f, rows, rows2
    <3> QED BY <1>5, <1>8, <2>1, <2>4, <3>1, Zenon
  <2>6. /\ Len(q.segment) = i + 1 /\ q.segment[i + 1] = d
        /\ \A j \in 1..(i + 1) : q.segment[j].fp = fps[j]
        /\ \A j \in 1..i : q.segment[j] = l.segment[j]
    BY <1>6, <2>1, <2>4, Zenon
  <2>7. \A s \in InRecipes : ~HoldsFp(s, Mark)
    <3> SUFFICES ASSUME NEW s \in InRecipes, NEW k \in DOMAIN Pointers(s) PROVE Pointers(s)[k].fp # Mark
      BY Zenon DEF HoldsFp
    <3>1. Pointers(s) \in Seq(Pointer)
      BY PointersIs
    <3>2. Pointers(s)[k] \in Pointer
      BY <3>1
    <3> QED BY <3>2, Marked DEF Pointer
  <2>8. ~AsksIndex => \A s \in Range(c) : ~HoldsFp(s, Mark)
    <3>1. ~AsksIndex => Range(c) \subseteq Range(l.cache)
      BY Zenon DEF LookInv
    <3>2. Range(l.cache) \subseteq InRecipes
      BY <1>1 DEF LookRecord, Range
    <3> QED BY <2>7, <3>1, <3>2, Zenon
  <2>9. ~AsksIndex => /\ Range(c) \subseteq Range(q.cache)
                      /\ \A j \in 1..(i + 1) :
                           (\E s \in Range(c) : HoldsFp(s, fps[j])) => q.segment[j].dup
    BY <1>7, <1>8, <2>4, <2>6, <2>8, Zenon DEF LookInv
  <2>10. Finds /\ AllReadable /\ AllLead =>
           \A j \in 1..(i + 1) : fps[j] # Mark /\ ~q.segment[j].dup => kv[Key(fps[j])] = <<>>
    BY <1>7, <1>8, <2>6, Zenon DEF LookInv
  <2>11. AllReadable => ~q.aborted
    BY <2>4, Zenon DEF LookInv
  <2>12. Len(q.cache) <= config.cache
    BY <1>1, <2>4
  <2> QED BY <2>4, <2>5, <2>6, <2>9, <2>10, <2>11, <2>12, Zenon DEF LookInv
<1>9. CASE f # Mark
  <2>1. f \in FP
    BY <1>2, <1>9
  <2>2. PICK p, id, dup : LookupChunk(l, f) = Looked(p, f, id, dup) /\ LookedUp(l, f, p, id, dup)
    BY <1>1, <2>1, LookupIs, Zenon
  <2>3. p \in LookRecord /\ id \in Id /\ dup \in BOOLEAN /\ q = Looked(p, f, id, dup)
        /\ p.segment = l.segment /\ p.buffered = l.buffered /\ Len(p.cache) <= config.cache
    BY <1>2, <2>2, Zenon DEF LookedUp, Searched
  <2> DEFINE d == Chunk(f, id, dup)
  <2>4. /\ q \in LookRecord /\ q.cache = p.cache /\ q.aborted = p.aborted
        /\ q.segment = Append(p.segment, d)
        /\ q.buffered[f] = Append(p.buffered[f], id)
        /\ \A g \in FP : g # f => q.buffered[g] = p.buffered[g]
        /\ d \in ChunkType /\ d.fp = f /\ d.id = id /\ d.dup = dup
    <3>1. Joins(p, d, q) /\ d \in ChunkType /\ d.fp = f /\ d.id = id /\ d.dup = dup
      <4> HIDE DEF f
      <4>1. Joins(p, Chunk(f, id, dup), q)
        BY <2>1, <2>3, LookedIs
      <4>2. /\ Chunk(f, id, dup) \in ChunkType
            /\ Chunk(f, id, dup).fp = f /\ Chunk(f, id, dup).id = id /\ Chunk(f, id, dup).dup = dup
        BY <2>1, <2>3 DEF Chunk, ChunkType
      <4> QED BY <4>1, <4>2
    <3> HIDE DEF d, f
    <3> QED BY <3>1, Zenon DEF Joins
  <2> HIDE DEF d
  <2>5. q.segment = Append(l.segment, d) /\ q.buffered[f] = Append(l.buffered[f], id)
        /\ \A g \in FP : g # f => q.buffered[g] = l.buffered[g]
    BY <2>3, <2>4
  <2>6. InFlight(rows2, q.buffered)
    <3> HIDE DEF f, rows, rows2
    <3> QED BY <1>5, <1>9, <2>1, <2>2, <2>4, <2>5, Zenon DEF LookedUp
  <2>7. /\ Len(q.segment) = i + 1 /\ q.segment[i + 1] = d
        /\ \A j \in 1..(i + 1) : q.segment[j].fp = fps[j]
        /\ \A j \in 1..i : q.segment[j] = l.segment[j]
    BY <1>6, <2>4, <2>5, Zenon
  <2>8. ~AsksIndex => /\ Range(c) \subseteq Range(q.cache)
                      /\ \A j \in 1..(i + 1) :
                           (\E s \in Range(c) : HoldsFp(s, fps[j])) => q.segment[j].dup
    <3> SUFFICES ASSUME ~AsksIndex
                 PROVE  /\ Range(c) \subseteq Range(q.cache)
                        /\ \A j \in 1..(i + 1) :
                             (\E s \in Range(c) : HoldsFp(s, fps[j])) => q.segment[j].dup
      OBVIOUS
    <3>1. Range(c) \subseteq Range(l.cache) /\ Range(l.cache) \subseteq Range(p.cache)
      BY <2>2, Zenon DEF LookInv, LookedUp
    <3>2. Range(c) \subseteq Range(q.cache)
      BY <2>4, <3>1, Zenon
    <3>3. ASSUME NEW j \in 1..(i + 1), \E s \in Range(c) : HoldsFp(s, fps[j]) PROVE q.segment[j].dup
      <4>1. CASE j = i + 1
        <5>1. ~dup => \A s \in Range(l.cache) : ~HoldsFp(s, f)
          BY <2>2, Zenon DEF LookedUp
        <5>2. dup
          BY <3>1, <3>3, <4>1, <5>1, Zenon
        <5> QED BY <2>4, <2>7, <4>1, <5>2
      <4>2. CASE j \in 1..i
        <5>1. l.segment[j].dup
          BY <3>3, <4>2, Zenon DEF LookInv
        <5> QED BY <2>7, <4>2, <5>1, Zenon
      <4> QED BY <1>7, <4>1, <4>2
    <3> QED BY <3>2, <3>3, Zenon
  <2>9. Finds /\ AllReadable /\ AllLead =>
          \A j \in 1..(i + 1) : fps[j] # Mark /\ ~q.segment[j].dup => kv[Key(fps[j])] = <<>>
    <3> SUFFICES ASSUME Finds, AllReadable, AllLead, NEW j \in 1..(i + 1),
                        fps[j] # Mark, ~q.segment[j].dup
                 PROVE  kv[Key(fps[j])] = <<>>
      BY Zenon
    <3>1. CASE j = i + 1
      <4>1. ~dup
        BY <2>4, <2>7, <3>1, Zenon
      <4> QED BY <2>2, <3>1, <4>1, Zenon DEF LookedUp
    <3>2. CASE j \in 1..i
      <4>1. ~l.segment[j].dup
        BY <2>7, <3>2, Zenon
      <4> QED BY <3>2, <4>1, Zenon DEF LookInv
    <3> QED BY <1>7, <3>1, <3>2
  <2>10. AllReadable => ~q.aborted
    BY <2>2, <2>4, Zenon DEF LookInv, LookedUp
  <2>11. Len(q.cache) <= config.cache
    BY <2>3, <2>4
  <2> QED BY <2>4, <2>6, <2>7, <2>8, <2>9, <2>10, <2>11, Zenon DEF LookInv
<1> QED BY <1>8, <1>9

\* Looking up all chunks of a segment.
LEMMA LookupAll ==
  ASSUME Shape, RecipeRestorable, NEW fps \in Seq(FP \cup {Mark}), NEW l, LookInv(l, l.cache, fps, 0),
         NEW q, q = FoldLeft(LookupChunk, l, fps)
  PROVE  LookInv(q, l.cache, fps, Len(fps))
<1>1. PICK g : Values("lookup", g, l, fps) /\ q = g[Len(fps)]
  BY LookupFold, Zenon
<1> DEFINE n == Len(fps)
           c == l.cache
           T == {i \in Nat : i <= n => LookInv(g[i], c, fps, i)}
<1>2. n \in Nat
  OBVIOUS
<1>3. 0 \in T
  BY <1>1, Zenon DEF Values
<1>4. ASSUME NEW i \in Nat, i \in T PROVE i + 1 \in T
  <2>1. ASSUME i + 1 <= n PROVE LookInv(g[i + 1], c, fps, i + 1)
    <3>1. i + 1 \in 1..n /\ (i + 1) - 1 = i /\ i <= n
      BY <1>2, <2>1
    <3>2. LookInv(g[i], c, fps, i)
      BY <1>4, <3>1
    <3>3. g[i + 1] = LookupChunk(g[i], fps[i + 1])
      <4>1. g[i + 1] = Step("lookup", g[i], fps[i + 1])
        BY <1>1, <3>1 DEF Values
      <4> QED BY <4>1 DEF Step
    <3> HIDE DEF c
    <3> QED BY <2>1, <3>2, <3>3, LookupStep, Zenon
  <2> QED BY <2>1
<1> HIDE DEF T
<1>5. \A i \in Nat : i \in T
  BY <1>3, <1>4, Inductive
<1>6. n <= n
  BY <1>2
<1> QED BY <1>1, <1>2, <1>5, <1>6 DEF T

-----------------------------------------------------------------------------
(* Sampling.                                                               *)

\* Where the chunks of a segment with fingerprints fps are, of its first i.
ChunksAt(fps, i) == {j \in 1..i : IsChunk(fps[j])}

LEMMA ChunksAtIs ==
  ASSUME NEW fps, NEW i \in Nat
  PROVE  /\ IsFiniteSet(ChunksAt(fps, i)) /\ Cardinality(ChunksAt(fps, i)) \in Nat
         /\ Cardinality(ChunksAt(fps, 0)) = 0
         /\ Cardinality(ChunksAt(fps, i)) <= i
         /\ Cardinality(ChunksAt(fps, i + 1)) =
              Cardinality(ChunksAt(fps, i)) + (IF IsChunk(fps[i + 1]) THEN 1 ELSE 0)
<1>1. IsFiniteSet(1..i) /\ Cardinality(1..i) = i /\ ChunksAt(fps, i) \in SUBSET (1..i)
  BY FS_Interval DEF ChunksAt
<1>2. /\ IsFiniteSet(ChunksAt(fps, i)) /\ Cardinality(ChunksAt(fps, i)) \in Nat
      /\ Cardinality(ChunksAt(fps, i)) <= i
  BY <1>1, FS_Subset, FS_CardinalityType
<1>3. Cardinality(ChunksAt(fps, 0)) = 0
  <2>1. ChunksAt(fps, 0) = {}
    BY DEF ChunksAt
  <2> QED BY <2>1, FS_EmptySet
<1>4. CASE IsChunk(fps[i + 1])
  <2>1. ChunksAt(fps, i + 1) = ChunksAt(fps, i) \cup {i + 1} /\ i + 1 \notin ChunksAt(fps, i)
    BY <1>4 DEF ChunksAt
  <2>2. Cardinality(ChunksAt(fps, i + 1)) = Cardinality(ChunksAt(fps, i)) + 1
    BY <1>2, <2>1, FS_AddElement
  <2> QED BY <1>2, <1>3, <1>4, <2>2
<1>5. CASE ~IsChunk(fps[i + 1])
  <2>1. ChunksAt(fps, i + 1) = ChunksAt(fps, i)
    BY <1>5 DEF ChunksAt
  <2> QED BY <1>2, <1>3, <1>5, <2>1
<1> QED BY <1>4, <1>5

\* ChunksOf leaves out the marks.
LEMMA ChunksIs ==
  ASSUME NEW fps \in Seq(FP \cup {Mark})
  PROVE  /\ ChunksOf(fps) \in Seq(FP)
         /\ \A k \in DOMAIN ChunksOf(fps) : \E j \in DOMAIN fps : ChunksOf(fps)[k] = fps[j]
         /\ Len(ChunksOf(fps)) = Cardinality(ChunksAt(fps, Len(fps)))
<1>1. PICK g : Values("keep", g, <<>>, fps) /\ ChunksOf(fps) = g[Len(fps)]
  <2>1. ChunksOf(fps) = FoldLeft(Kept, <<>>, fps)
    BY Zenon DEF ChunksOf
  <2> QED BY <2>1, KeptFold, Zenon
<1> DEFINE n == Len(fps)
           Good(i) == /\ g[i] \in Seq(FP)
                      /\ \A k \in DOMAIN g[i] : \E j \in DOMAIN fps : g[i][k] = fps[j]
                      /\ Len(g[i]) = Cardinality(ChunksAt(fps, i))
           T == {i \in Nat : i <= n => Good(i)}
<1>2. n \in Nat /\ DOMAIN fps = 1..n
  OBVIOUS
<1>3. 0 \in T
  <2>1. g[0] = <<>>
    BY <1>1, Zenon DEF Values
  <2>2. g[0] \in Seq(FP) /\ DOMAIN g[0] = {} /\ Len(g[0]) = 0
    BY <2>1
  <2>3. Cardinality(ChunksAt(fps, 0)) = 0
    BY ChunksAtIs
  <2>4. Good(0)
    BY <2>2, <2>3
  <2> QED BY <2>4
<1>4. ASSUME NEW i \in Nat, i \in T PROVE i + 1 \in T
  <2>1. ASSUME i + 1 <= n PROVE Good(i + 1)
    <3>1. i + 1 \in 1..n /\ (i + 1) - 1 = i /\ i <= n
      BY <1>2, <2>1
    <3>2. Good(i)
      BY <1>4, <3>1
    <3>3. g[i + 1] = Kept(g[i], fps[i + 1])
      <4>1. g[i + 1] = Step("keep", g[i], fps[i + 1])
        BY <1>1, <3>1 DEF Values
      <4> QED BY <4>1 DEF Step
    <3> DEFINE a == g[i]
               b == g[i + 1]
               f == fps[i + 1]
    <3>4. f \in FP \cup {Mark} /\ i + 1 \in DOMAIN fps
      BY <1>2, <3>1
    <3>5. Cardinality(ChunksAt(fps, i + 1)) =
            Cardinality(ChunksAt(fps, i)) + (IF IsChunk(f) THEN 1 ELSE 0)
      BY ChunksAtIs
    <3>6. a \in Seq(FP) /\ Len(a) \in Nat /\ Len(a) = Cardinality(ChunksAt(fps, i))
          /\ \A k \in DOMAIN a : \E j \in DOMAIN fps : a[k] = fps[j]
      BY <3>2
    <3>7. b = IF IsChunk(f) THEN Append(a, f) ELSE a
      BY <3>3 DEF Kept
    <3>8. CASE IsChunk(f)
      <4>1. f \in FP /\ b = Append(a, f)
        BY <3>4, <3>7, <3>8 DEF IsChunk
      <4>2. b \in Seq(FP) /\ Len(b) = Len(a) + 1 /\ b[Len(a) + 1] = f /\ DOMAIN b = 1..(Len(a) + 1)
            /\ DOMAIN a = 1..Len(a) /\ \A k \in 1..Len(a) : b[k] = a[k]
        <5> HIDE DEF a, b, f
        <5> QED BY <3>6, <4>1, AppendProperties
      <4>3. ASSUME NEW k \in DOMAIN b PROVE \E j \in DOMAIN fps : b[k] = fps[j]
        <5>1. k = Len(a) + 1 \/ k \in 1..Len(a)
          <6> HIDE DEF a, b
          <6> QED BY <3>6, <4>2
        <5> HIDE DEF a, b
        <5> QED BY <3>4, <3>6, <4>2, <5>1 DEF f
      <4> QED BY <3>5, <3>6, <3>8, <4>2, <4>3
    <3>9. CASE ~IsChunk(f)
      BY <3>5, <3>6, <3>7, <3>9
    <3> QED BY <3>8, <3>9
  <2> QED BY <2>1
<1> HIDE DEF T
<1>5. \A i \in Nat : i \in T
  BY <1>3, <1>4, Inductive
<1>6. Good(n)
  <2>1. n <= n
    BY <1>2
  <2> HIDE DEF Good
  <2> QED BY <1>2, <1>5, <2>1 DEF T
<1> QED BY <1>1, <1>6, Zenon

\* The features of a segment: keys of its chunks, and what stands for a segment without
\* samples.
KeysOf(fps) == {Key(f) : f \in {fps[j] : j \in DOMAIN fps} \ {Mark}}
Featured(fps) == {Highest, Key(Mark)} \cup KeysOf(fps)

LEMMA SamplingIs ==
  ASSUME Shape, NEW fps \in Seq(FP \cup {Mark})
  PROVE  sampling(fps) \subseteq Featured(fps)
<1> DEFINE chunks == ChunksOf(fps)
<1>1. chunks \in Seq(FP) /\ Len(chunks) \in Nat
      /\ \A k \in DOMAIN chunks : \E j \in DOMAIN fps : chunks[k] = fps[j]
  <2>1. chunks \in Seq(FP)
    BY ChunksIs, Zenon
  <2>2. \A k \in DOMAIN chunks : \E j \in DOMAIN fps : chunks[k] = fps[j]
    BY ChunksIs, Zenon
  <2> QED BY <2>1, <2>2
<1>2. \A k \in DOMAIN chunks : chunks[k] \in {fps[j] : j \in DOMAIN fps} \ {Mark}
  <2> SUFFICES ASSUME NEW k \in DOMAIN chunks PROVE chunks[k] \in {fps[j] : j \in DOMAIN fps} \ {Mark}
    OBVIOUS
  <2>1. chunks[k] \in FP
    BY <1>1
  <2>2. chunks[k] # Mark
    BY <2>1, Marked
  <2> QED BY <1>1, <2>2
<1>3. \A k \in DOMAIN chunks : Key(chunks[k]) \in KeysOf(fps)
  BY <1>2, Zenon DEF KeysOf
<1>4. Smallest(fps) \subseteq DOMAIN chunks
  BY DEF Smallest
<1> HIDE DEF chunks
<1>5. index_sampling_min(fps) \subseteq Featured(fps)
  <2>1. {Key(chunks[i]) : i \in Smallest(fps)} \subseteq KeysOf(fps)
    BY <1>3, <1>4
  <2> QED BY <2>1 DEF index_sampling_min, OrHighest, Featured, chunks
<1>6. index_sampling_optimized_min(fps) \subseteq Featured(fps)
  <2>1. ASSUME NEW i \in Smallest(fps) PROVE (IF i > Off THEN i - Off ELSE 1) \in DOMAIN chunks
    <3>1. i \in DOMAIN chunks
      BY <1>4
    <3> QED BY <1>1, <3>1 DEF Off
  <2>2. {Key(chunks[IF i > Off THEN i - Off ELSE 1]) : i \in Smallest(fps)} \subseteq KeysOf(fps)
    BY <1>3, <2>1
  <2> QED BY <2>2 DEF index_sampling_optimized_min, OrHighest, Featured, chunks
<1>7. index_sampling_random(fps) \subseteq Featured(fps)
  <2>1. Range(chunks) = {chunks[k] : k \in DOMAIN chunks}
    BY DEF Range
  <2>2. {Key(f) : f \in {g \in Range(chunks) : g % config.ratio = 0}} \subseteq KeysOf(fps)
    BY <1>3, <2>1
  <2> QED BY <2>2 DEF index_sampling_random, OrZero, Featured, chunks
<1>8. index_sampling_uniform(fps) \subseteq Featured(fps)
  <2>1. ASSUME NEW i \in DOMAIN fps PROVE Key(fps[i]) \in Featured(fps)
    BY DEF Featured, KeysOf
  <2>2. {Key(fps[i]) : i \in {j \in DOMAIN fps : (j - 1) % config.ratio = 0}} \subseteq Featured(fps)
    BY <2>1
  <2>3. Key(Mark) \in Featured(fps)
    BY DEF Featured
  <2> QED BY <2>2, <2>3 DEF index_sampling_uniform, OrZero
<1>9. config.sampling \in {"min", "optmin", "random", "uniform"}
  BY ConfigIs DEF Shape
<1> QED BY <1>5, <1>6, <1>7, <1>8, <1>9 DEF sampling

\* They are finitely many keys of the key-value store.
LEMMA FeaturedIs ==
  ASSUME Shape, NEW fps \in Seq(FP \cup {Mark})
  PROVE  Featured(fps) \subseteq DOMAIN kv /\ IsFiniteSet(Featured(fps))
<1> DEFINE S == {fps[j] : j \in DOMAIN fps} \ {Mark}
           K == [f \in S |-> Key(f)]
<1>1. S \subseteq FP /\ IsFiniteSet(FP)
  <2>1. \A j \in DOMAIN fps : fps[j] \in FP \cup {Mark}
    OBVIOUS
  <2> QED BY <2>1, Marked
<1>2. KeysOf(fps) \subseteq DOMAIN kv
  <2>1. \A f \in S : Key(f) \in DOMAIN kv
    BY <1>1, KeyIs
  <2> QED BY <2>1 DEF KeysOf
<1>3. Highest \in DOMAIN kv /\ Key(Mark) \in DOMAIN kv
  <2>1. DOMAIN kv = Keys \cup {Highest}
    BY DEF Shape
  <2> QED BY <2>1, KeyIs
<1>4. IsFiniteSet(KeysOf(fps))
  <2>1. K \in Surjection(S, KeysOf(fps))
    BY DEF Surjection, KeysOf
  <2>2. IsFiniteSet(S)
    BY <1>1, FS_Subset
  <2> HIDE DEF K, S
  <2> QED BY <2>1, <2>2, FS_Surjection
<1>5. IsFiniteSet({Highest, Key(Mark)})
  <2>1. IsFiniteSet({Highest}) /\ {Highest, Key(Mark)} = {Highest} \cup {Key(Mark)}
    BY FS_Singleton
  <2>2. IsFiniteSet({Highest} \cup {Key(Mark)})
    BY <2>1, FS_AddElement, Zenon
  <2> QED BY <2>1, <2>2, Zenon
<1>6. IsFiniteSet(Featured(fps))
  BY <1>4, <1>5, FS_Union DEF Featured
<1> QED BY <1>2, <1>3, <1>6 DEF Featured

-----------------------------------------------------------------------------
(* Selecting champions.                                                    *)

\* A finite set of numbers has a greatest one.
LEMMA GreatestNumber ==
  ASSUME NEW S \in SUBSET Nat, IsFiniteSet(S), S # {}
  PROVE  \E x \in S : \A y \in S : y <= x
<1> DEFINE T == {n \in Nat : \A D \in SUBSET Nat : IsFiniteSet(D) /\ D # {} /\ Cardinality(D) = n
                              => \E x \in D : \A y \in D : y <= x}
<1>1. 0 \in T
  BY FS_EmptySet
<1>2. ASSUME NEW n \in Nat, n \in T PROVE n + 1 \in T
  <2> SUFFICES ASSUME NEW D \in SUBSET Nat, IsFiniteSet(D), D # {}, Cardinality(D) = n + 1
               PROVE  \E x \in D : \A y \in D : y <= x
    OBVIOUS
  <2>1. PICK z \in D : TRUE
    OBVIOUS
  <2> DEFINE E == D \ {z}
  <2>2. IsFiniteSet(E) /\ Cardinality(E) = n /\ E \in SUBSET Nat
    <3>1. IsFiniteSet(E) /\ Cardinality(E) = Cardinality(D) - 1
      BY <2>1, FS_RemoveElement
    <3> QED BY <3>1
  <2>3. CASE E = {}
    <3>1. \A y \in D : y = z
      BY <2>3
    <3>2. z <= z
      BY <2>1
    <3> QED BY <2>1, <3>1, <3>2
  <2>4. CASE E # {}
    <3>1. PICK x \in E : \A y \in E : y <= x
      BY <1>2, <2>2, <2>4
    <3>2. x \in Nat /\ z \in Nat /\ x \in D
      BY <2>1
    <3>3. CASE z <= x
      <4>1. \A y \in D : y <= x
        BY <3>1, <3>3
      <4> QED BY <3>2, <4>1
    <3>4. CASE ~(z <= x)
      <4>1. ASSUME NEW y \in D PROVE y <= z
        <5>1. CASE y = z
          BY <3>2, <5>1
        <5>2. CASE y # z
          <6>1. y <= x /\ y \in Nat
            BY <3>1, <5>2
          <6> QED BY <3>2, <3>4, <6>1
        <5> QED BY <5>1, <5>2
      <4> QED BY <2>1, <4>1
    <3> QED BY <3>3, <3>4
  <2> QED BY <2>3, <2>4
<1> HIDE DEF T
<1>3. \A n \in Nat : n \in T
  BY <1>1, <1>2, Inductive
<1>4. Cardinality(S) \in Nat
  BY FS_CardinalityType
<1> QED BY <1>3, <1>4 DEF T

\* The segments that are similar to one with some features: which they share.
SimilarIn(D, F, similar) == \E S \in SUBSET D : similar \in [S -> SUBSET F]

\* Of several similar segments one is the best.
LEMMA BestIs ==
  ASSUME NEW D \in SUBSET Nat, IsFiniteSet(D), NEW F, IsFiniteSet(F),
         NEW similar, SimilarIn(D, F, similar), DOMAIN similar # {}
  PROVE  Best(similar) \in DOMAIN similar
<1>1. PICK S \in SUBSET D : similar \in [S -> SUBSET F]
  BY Zenon DEF SimilarIn
<1>2. DOMAIN similar = S /\ IsFiniteSet(S) /\ S # {} /\ S \subseteq Nat
  <2>1. DOMAIN similar = S
    BY <1>1
  <2> QED BY <2>1, FS_Subset
<1>3. \A id \in S : Cardinality(similar[id]) \in Nat
  <2> SUFFICES ASSUME NEW id \in S PROVE Cardinality(similar[id]) \in Nat
    OBVIOUS
  <2>1. similar[id] \in SUBSET F
    BY <1>1
  <2> QED BY <2>1, FS_Subset, FS_CardinalityType
<1> DEFINE c == [id \in S |-> Cardinality(similar[id])]
           C == {c[id] : id \in S}
<1>4. C \in SUBSET Nat /\ IsFiniteSet(C) /\ C # {}
  <2>1. c \in Surjection(S, C)
    BY DEF Surjection
  <2>2. C \in SUBSET Nat /\ C # {}
    BY <1>2, <1>3
  <2> HIDE DEF c, C
  <2> QED BY <1>2, <2>1, <2>2, FS_Surjection
<1>5. PICK m \in C : \A y \in C : y <= m
  <2> HIDE DEF C
  <2> QED BY <1>4, GreatestNumber, Zenon
<1> DEFINE M == {id \in S : c[id] = m}
<1>6. M \in SUBSET Nat /\ IsFiniteSet(M) /\ M # {}
  <2>1. M \in SUBSET S /\ M # {}
    BY <1>5
  <2> HIDE DEF M
  <2> QED BY <1>2, <2>1, FS_Subset
<1>7. PICK id \in M : \A y \in M : y <= id
  <2> HIDE DEF M
  <2> QED BY <1>6, GreatestNumber, Zenon
<1>8. id \in S /\ Cardinality(similar[id]) = m
  BY <1>7
<1>9. ASSUME NEW other \in S \ {id}
      PROVE  \/ Cardinality(similar[id]) > Cardinality(similar[other])
             \/ Cardinality(similar[id]) = Cardinality(similar[other]) /\ id > other
  <2>1. c[other] <= m /\ c[other] = Cardinality(similar[other]) /\ c[other] \in Nat /\ m \in Nat
    BY <1>3, <1>4, <1>5
  <2>2. CASE c[other] = m
    <3>1. other <= id /\ other # id /\ other \in Nat /\ id \in Nat
      BY <1>2, <1>7, <2>2
    <3> QED BY <1>8, <2>1, <2>2, <3>1
  <2>3. CASE c[other] # m
    <3> HIDE DEF c
    <3>1. m > c[other]
      BY <2>1, <2>3
    <3> QED BY <1>8, <2>1, <3>1
  <2> QED BY <2>2, <2>3
<1>10. \E x \in DOMAIN similar : \A other \in DOMAIN similar \ {x} :
         \/ Cardinality(similar[x]) > Cardinality(similar[other])
         \/ Cardinality(similar[x]) = Cardinality(similar[other]) /\ x > other
  BY <1>2, <1>8, <1>9, Zenon
<1> QED BY <1>10, Zenon DEF Best

\* The ids that the key-value store has for some features.
IdsOf(features) == UNION {Range(kv[x]) : x \in features}

LEMMA IdsOfIs ==
  ASSUME Shape, NEW features \in SUBSET DOMAIN kv, IsFiniteSet(features)
  PROVE  /\ IdsOf(features) \in SUBSET Nat /\ IsFiniteSet(IdsOf(features))
         /\ \A id \in IdsOf(features) : \E x \in DOMAIN kv : id \in Range(kv[x])
<1> DEFINE R == {Range(kv[x]) : x \in features}
           r == [x \in features |-> Range(kv[x])]
<1>1. ASSUME NEW x \in features PROVE Range(kv[x]) \subseteq Nat /\ IsFiniteSet(Range(kv[x]))
  <2> DEFINE s == kv[x]
  <2>1. s \in Seq(Nat)
    BY DEF Shape
  <2> HIDE DEF s
  <2>2. Len(s) \in Nat /\ DOMAIN s = 1..Len(s) /\ s \in [1..Len(s) -> Nat]
    BY <2>1
  <2>3. s \in Surjection(1..Len(s), Range(s)) /\ Range(s) \subseteq Nat
    BY <2>2 DEF Surjection, Range
  <2>4. IsFiniteSet(1..Len(s))
    BY <2>2, FS_Interval
  <2> QED BY <2>3, <2>4, FS_Surjection DEF s
<1>2. r \in Surjection(features, R)
  BY DEF Surjection
<1>3. IsFiniteSet(R)
  <2> HIDE DEF r, R
  <2> QED BY <1>2, FS_Surjection
<1>4. \A T \in R : IsFiniteSet(T)
  BY <1>1
<1>5. IsFiniteSet(UNION R)
  <2> HIDE DEF R
  <2> QED BY <1>3, <1>4, FS_UNION
<1> QED BY <1>1, <1>5 DEF IdsOf

\* Champions are segments that the key-value store knows, at most config.top.
LEMMA TopIs ==
  ASSUME Shape, NEW features \in SUBSET DOMAIN kv, IsFiniteSet(features),
         NEW top, top = top_segment_select(features)
  PROVE  /\ top \in Seq(IdsOf(features)) /\ Len(top) <= config.top
<1> DEFINE D == IdsOf(features)
           n == config.top
           us == [i \in 1..n |-> i]
           base == [similar |-> Similar(features), top |-> <<>>]
<1>1. top = FoldLeft(SelectTop, base, us).top
  BY Zenon DEF top_segment_select
<1>2. n \in Nat /\ us \in Seq(Nat) /\ Len(us) = n
  <2>1. config.top \in Nat
    BY ConfigIs DEF Shape
  <2> QED BY <2>1
<1>3. D \in SUBSET Nat /\ IsFiniteSet(D)
  BY IdsOfIs
<1>4. SimilarIn(D, features, base.similar) /\ base.top = <<>>
  <2> DEFINE sim == [id \in D |-> {x \in features : id \in Range(kv[x])}]
  <2>1. Similar(features) = sim
    BY Zenon DEF Similar, IdsOf
  <2>2. sim \in [D -> SUBSET features] /\ D \in SUBSET D
    OBVIOUS
  <2>3. base.similar = Similar(features) /\ base.top = <<>>
    OBVIOUS
  <2> HIDE DEF sim, base, D
  <2> QED BY <2>1, <2>2, <2>3, Zenon DEF SimilarIn
<1> HIDE DEF base, us, D
<1>5. PICK g : Values("select", g, base, us) /\ FoldLeft(SelectTop, base, us) = g[Len(us)]
  BY <1>2, SelectFold, Zenon
<1> DEFINE Good(i) == SimilarIn(D, features, g[i].similar) /\ g[i].top \in Seq(D) /\ Len(g[i].top) <= i
           T == {i \in Nat : i <= n => Good(i)}
<1>6. 0 \in T
  <2>1. g[0] = base
    BY <1>5, Zenon DEF Values
  <2>2. g[0].top = <<>> /\ SimilarIn(D, features, g[0].similar)
    BY <1>4, <2>1
  <2>3. g[0].top \in Seq(D) /\ Len(g[0].top) <= 0
    BY <2>2
  <2> QED BY <2>2, <2>3
<1>7. ASSUME NEW i \in Nat, i \in T PROVE i + 1 \in T
  <2>1. ASSUME i + 1 <= n PROVE Good(i + 1)
    <3>1. i + 1 \in 1..n /\ (i + 1) - 1 = i /\ i <= n
      BY <1>2, <2>1
    <3>2. Good(i)
      BY <1>7, <3>1
    <3>3. g[i + 1] = SelectTop(g[i], us[i + 1])
      <4>1. g[i + 1] = Step("select", g[i], us[i + 1])
        BY <1>2, <1>5, <3>1 DEF Values
      <4> QED BY <4>1 DEF Step
    <3> DEFINE a == g[i]
               b == g[i + 1]
               best == Best(a.similar)
    <3>4. b = IF DOMAIN a.similar = {} THEN a
              ELSE [similar |-> [id \in DOMAIN a.similar \ {best} |-> a.similar[id] \ a.similar[best]],
                    top |-> Append(a.top, best)]
      BY <3>3, Zenon DEF SelectTop
    <3>5. SimilarIn(D, features, a.similar) /\ a.top \in Seq(D) /\ Len(a.top) <= i /\ Len(a.top) \in Nat
      BY <3>2
    <3>6. CASE DOMAIN a.similar = {}
      <4>1. b = a
        BY <3>4, <3>6
      <4>2. Len(b.top) <= i + 1
        BY <3>5, <4>1
      <4> QED BY <3>5, <4>1, <4>2
    <3>7. CASE DOMAIN a.similar # {}
      <4> DEFINE sim == [id \in DOMAIN a.similar \ {best} |-> a.similar[id] \ a.similar[best]]
      <4>1. b.similar = sim /\ b.top = Append(a.top, best)
        BY <3>4, <3>7
      <4>2. best \in DOMAIN a.similar
        BY <1>3, <3>5, <3>7, BestIs, Zenon
      <4>3. PICK S \in SUBSET D : a.similar \in [S -> SUBSET features]
        BY <3>5, Zenon DEF SimilarIn
      <4>4. sim \in [S \ {best} -> SUBSET features] /\ S \ {best} \in SUBSET D /\ best \in D
        BY <4>2, <4>3
      <4> HIDE DEF sim, best, a, b
      <4>5. SimilarIn(D, features, b.similar)
        BY <4>1, <4>4, Zenon DEF SimilarIn
      <4>6. b.top \in Seq(D) /\ Len(b.top) = Len(a.top) + 1
        BY <3>5, <4>1, <4>4
      <4>7. Len(b.top) <= i + 1
        BY <3>5, <4>6
      <4> QED BY <4>5, <4>6, <4>7 DEF b
    <3> QED BY <3>6, <3>7
  <2> QED BY <2>1
<1> HIDE DEF T
<1>8. \A i \in Nat : i \in T
  BY <1>6, <1>7, Inductive
<1>9. Good(n)
  <2>1. n <= n
    BY <1>2
  <2> HIDE DEF Good
  <2> QED BY <1>2, <1>8, <2>1 DEF T
<1> QED BY <1>1, <1>2, <1>5, <1>9 DEF D

-----------------------------------------------------------------------------
(* The dedup phase.                                                        *)

\* What a segment may be: marks and at most config.segment chunks.
LEMMA SegmentsAre ==
  ASSUME Shape, NEW fps \in Segments
  PROVE  /\ fps \in Seq(FP \cup {Mark})
         /\ Cardinality(ChunksAt(fps, Len(fps))) <= config.segment
<1>1. config.fps \subseteq FP /\ config.segment \in Nat
  BY ConfigIs DEF Shape
<1>2. PICK s \in SeqOf(config.fps, config.segment) : fps = IF config.files THEN <<Mark>> \o s \o <<Mark>> ELSE s
  BY Zenon DEF Segments
<1>3. PICK m \in 0..config.segment : s \in [1..m -> config.fps]
  BY <1>2 DEF SeqOf
<1>4. m \in Nat /\ s \in Seq(FP \cup {Mark}) /\ Len(s) = m /\ DOMAIN s = 1..m
  <2>1. m \in Nat /\ s \in [1..m -> FP \cup {Mark}]
    BY <1>1, <1>3
  <2> QED BY <2>1
<1>5. CASE ~config.files
  <2>1. fps = s
    BY <1>2, <1>5
  <2>2. Cardinality(ChunksAt(fps, m)) <= m
    BY <1>4, ChunksAtIs
  <2>3. Cardinality(ChunksAt(fps, m)) \in Nat
    BY <1>4, ChunksAtIs
  <2> QED BY <1>1, <1>3, <1>4, <2>1, <2>2, <2>3
<1>6. CASE config.files
  <2> DEFINE a == <<Mark>>
             b == a \o s
             d == b \o a
  <2>1. a \in Seq(FP \cup {Mark}) /\ Len(a) = 1 /\ a[1] = Mark
    OBVIOUS
  <2> HIDE DEF a
  <2>2. /\ b \in Seq(FP \cup {Mark}) /\ Len(b) = Len(a) + Len(s)
        /\ \A j \in 1..(Len(a) + Len(s)) : b[j] = IF j <= Len(a) THEN a[j] ELSE s[j - Len(a)]
    BY <1>4, <2>1, ConcatProperties
  <2> HIDE DEF b
  <2>3. Len(b) = m + 1 /\ b[1] = Mark
    BY <1>4, <2>1, <2>2
  <2>4. /\ d \in Seq(FP \cup {Mark}) /\ Len(d) = Len(b) + Len(a)
        /\ \A j \in 1..(Len(b) + Len(a)) : d[j] = IF j <= Len(b) THEN b[j] ELSE a[j - Len(b)]
    <3>1. a \in Seq(FP \cup {Mark}) /\ b \in Seq(FP \cup {Mark})
      BY <2>1, <2>2
    <3> QED BY <3>1, ConcatProperties, Zenon
  <2> HIDE DEF d
  <2>5. Len(d) = m + 2 /\ d[1] = Mark /\ d[m + 2] = Mark
    BY <1>4, <2>1, <2>3, <2>4
  <2>6. fps = d
    BY <1>2, <1>6, Zenon DEF a, b, d
  <2>7. ChunksAt(d, m + 2) \in SUBSET (2..(m + 1))
    <3> SUFFICES ASSUME NEW j \in 1..(m + 2), d[j] # Mark PROVE j \in 2..(m + 1)
      BY DEF ChunksAt, IsChunk
    <3>1. j # 1 /\ j # m + 2
      BY <2>5
    <3> QED BY <1>4, <3>1
  <2>8. IsFiniteSet(2..(m + 1)) /\ Cardinality(2..(m + 1)) = m
    <3>1. m + 1 \in Int /\ 2 \in Int
      BY <1>4
    <3>2. IsFiniteSet(2..(m + 1)) /\ Cardinality(2..(m + 1)) = IF 2 > m + 1 THEN 0 ELSE (m + 1) - 2 + 1
      BY <3>1, FS_Interval
    <3>3. (IF 2 > m + 1 THEN 0 ELSE (m + 1) - 2 + 1) = m
      BY <1>4
    <3> QED BY <3>2, <3>3
  <2>9. Cardinality(ChunksAt(d, m + 2)) <= m
    BY <2>7, <2>8, FS_Subset
  <2>10. Cardinality(ChunksAt(d, m + 2)) \in Nat
    <3>1. m + 2 \in Nat
      BY <1>4
    <3> QED BY <3>1, ChunksAtIs
  <2> QED BY <1>1, <1>3, <1>4, <2>4, <2>5, <2>6, <2>9, <2>10
<1> QED BY <1>5, <1>6

\* What a lookup of a segment starts with.
Start == [cache |-> cache, buffered |-> buffered, segment |-> <<>>, aborted |-> FALSE]

\* The segments of all champions fit in the cache, and are prefetched.
AllFit == config.prefetch > 0 /\ (config.top = 1 \/ config.top * config.prefetch <= config.cache)

\* The champions are prefetched: if they fit, a segment that each leads to is cached then.
LEMMA PrefetchAll ==
  ASSUME Shape, InFlight(flight, buffered), NEW fps, NEW top \in Seq(Nat), Len(top) <= config.top,
         \A j \in DOMAIN top : \E x \in DOMAIN kv : top[j] \in Range(kv[x]),
         NEW l, l = FoldLeft(Prefetch, Start, top)
  PROVE  /\ LookInv(l, l.cache, fps, 0)
         /\ AllReadable /\ AllFit => \A j \in DOMAIN top : \E t \in Range(l.cache) : LeadsTo(top[j], t)
<1>1. PICK g : Values("prefetch", g, Start, top) /\ l = g[Len(top)]
  BY PrefetchFold, Zenon
<1> DEFINE n == Len(top)
           P == config.prefetch
           Back(i, j) == 1 + (i - j) * P
           Found(i, j) == \E k \in DOMAIN g[i].cache : k <= Back(i, j) /\ LeadsTo(top[j], g[i].cache[k])
           Good(i) == /\ g[i] \in LookRecord /\ Len(g[i].cache) <= config.cache
                      /\ g[i].segment = <<>> /\ g[i].buffered = buffered
                      /\ AllReadable => ~g[i].aborted
                      /\ AllReadable /\ P > 0 => \A j \in 1..i : Back(i, j) <= config.cache => Found(i, j)
           T == {i \in Nat : i <= n => Good(i)}
<1>2. n \in Nat /\ DOMAIN top = 1..n /\ P \in Nat /\ config.cache \in Nat \ {0}
      /\ config.top \in Nat \ {0}
  BY ConfigIs DEF Shape
<1>3. 0 \in T
  <2>1. g[0] = Start
    BY <1>1, Zenon DEF Values
  <2>2. Start \in LookRecord
    BY DEF Start, LookRecord, Shape
  <2>3. Start.cache = cache /\ Start.segment = <<>> /\ Start.buffered = buffered /\ ~Start.aborted
    BY DEF Start
  <2>4. Len(cache) <= config.cache
    BY DEF Shape
  <2>5. ASSUME NEW j \in 1..0 PROVE FALSE
    OBVIOUS
  <2>6. Good(0)
    BY <2>1, <2>2, <2>3, <2>4, <2>5, Zenon
  <2> QED BY <2>6
<1>4. ASSUME NEW i \in Nat, i \in T PROVE i + 1 \in T
  <2>1. ASSUME i + 1 <= n PROVE Good(i + 1)
    <3>1. i + 1 \in 1..n /\ (i + 1) - 1 = i /\ i <= n
      BY <1>2, <2>1
    <3>2. Good(i)
      BY <1>4, <3>1
    <3>3. g[i + 1] = Prefetch(g[i], top[i + 1])
      <4>1. g[i + 1] = Step("prefetch", g[i], top[i + 1])
        BY <1>1, <3>1 DEF Values
      <4> QED BY <4>1 DEF Step
    <3> DEFINE a == g[i]
               p == g[i + 1]
               id == top[i + 1]
    <3>4. id \in Nat /\ i + 1 \in DOMAIN top
      BY <1>2, <3>1
    <3>5. AllReadable => Readable(id)
      BY <3>4, Zenon DEF AllReadable
    <3>6. a \in LookRecord /\ Len(a.cache) <= config.cache /\ a.segment = <<>> /\ a.buffered = buffered
          /\ (AllReadable => ~a.aborted)
      BY <3>2, Zenon
    <3>7. /\ p \in LookRecord /\ Len(p.cache) <= config.cache
          /\ p.segment = a.segment /\ p.buffered = a.buffered
          /\ Readable(id) => p.aborted = a.aborted
          /\ Readable(id) /\ P > 0 => /\ 1 \in DOMAIN p.cache /\ LeadsTo(id, p.cache[1])
                                     /\ MovedBack(a.cache, p.cache, P)
      <4>1. p = Prefetch(a, id)
        BY <3>3
      <4> HIDE DEF a, p, id
      <4> QED BY <3>4, <3>6, <4>1, PrefetchIs, Zenon
    <3>8. ASSUME AllReadable, P > 0, NEW j \in 1..(i + 1), Back(i + 1, j) <= config.cache PROVE Found(i + 1, j)
      <4>1. CASE j = i + 1
        <5>1. Back(i + 1, j) = 1
          <6>1. (i + 1) - j = 0 /\ 0 * P = 0
            BY <1>2, <4>1
          <6> QED BY <6>1
        <5>2. 1 <= Back(i + 1, j)
          BY <5>1
        <5>3. 1 \in DOMAIN p.cache /\ LeadsTo(top[j], p.cache[1])
          BY <3>5, <3>7, <3>8, <4>1
        <5> QED BY <5>2, <5>3, Zenon
      <4>2. CASE j # i + 1
        <5>1. j \in 1..i
          BY <4>2
        <5>2. PICK d \in Nat : d = (i - j) * P
          <6>1. PICK e \in Nat : e = i - j
            BY <5>1
          <6>2. e * P \in Nat
            BY <1>2
          <6> QED BY <6>1, <6>2
        <5>3. ((i + 1) - j) * P = d + P
          <6>1. PICK e \in Nat : e = i - j
            BY <5>1
          <6>2. (i + 1) - j = e + 1
            BY <5>1, <6>1
          <6>3. (e + 1) * P = e * P + P
            <7>0. P \in Nat
              BY <1>2, Zenon
            <7>1. PICK q \in Nat : q = P
              BY <7>0, Zenon
            <7>2. (e + 1) * q = e * q + q
              OBVIOUS
            <7> QED BY <7>1, <7>2
          <6> QED BY <5>2, <6>1, <6>2, <6>3
        <5>4. Back(i, j) = 1 + d /\ Back(i + 1, j) = (1 + d) + P /\ 1 + d + P <= config.cache
          <6>1. Back(i, j) = 1 + d
            BY <5>2
          <6>2. Back(i + 1, j) = 1 + (d + P)
            BY <5>3
          <6>3. 1 + (d + P) = (1 + d) + P
            <7>1. P \in Nat
              BY <1>2, Zenon
            <7> HIDE DEF P
            <7> QED BY <7>1
          <6>4. Back(i + 1, j) <= config.cache
            BY <3>8
          <6> HIDE DEF Back, P
          <6> QED BY <6>1, <6>2, <6>3, <6>4
        <5>5. Back(i, j) <= config.cache
          <6> HIDE DEF P, Back
          <6> QED BY <1>2, <5>4
        <5>6. Found(i, j)
          BY <3>2, <3>8, <5>1, <5>5, Zenon
        <5>7. PICK k \in DOMAIN a.cache : k <= 1 + d /\ LeadsTo(top[j], a.cache[k])
          <6>1. PICK k \in DOMAIN a.cache : k <= Back(i, j) /\ LeadsTo(top[j], a.cache[k])
            BY <5>6, Zenon
          <6> HIDE DEF a, Back
          <6> QED BY <5>4, <6>1
        <5>8. k \in Nat
          <6>1. a.cache \in Seq(InRecipes)
            BY <3>6 DEF LookRecord
          <6> HIDE DEF a
          <6> QED BY <6>1
        <5>9. k + P <= config.cache /\ k + P <= (1 + d) + P
          <6> HIDE DEF P
          <6> QED BY <1>2, <5>4, <5>7, <5>8
        <5>10. PICK m \in DOMAIN p.cache : m <= k + P /\ p.cache[m] = a.cache[k]
          <6> HIDE DEF a, p, id
          <6> QED BY <3>5, <3>7, <3>8, <5>9, Zenon DEF MovedBack
        <5>11. m \in Nat
          <6>1. p.cache \in Seq(InRecipes)
            BY <3>7 DEF LookRecord
          <6> HIDE DEF p
          <6> QED BY <6>1
        <5>12. m <= Back(i + 1, j)
          <6> HIDE DEF Back, P
          <6> QED BY <1>2, <5>4, <5>8, <5>9, <5>10, <5>11
        <5>13. LeadsTo(top[j], p.cache[m])
          BY <5>7, <5>10
        <5> QED BY <5>12, <5>13, Zenon
      <4> QED BY <4>1, <4>2
    <3>9. AllReadable => ~p.aborted
      BY <3>5, <3>6, <3>7, Zenon
    <3>10. p.segment = <<>> /\ p.buffered = buffered /\ p \in LookRecord /\ Len(p.cache) <= config.cache
      BY <3>6, <3>7
    <3> HIDE DEF Found
    <3> QED BY <3>8, <3>9, <3>10, Zenon
  <2> QED BY <2>1
<1> HIDE DEF T
<1>5. \A i \in Nat : i \in T
  BY <1>3, <1>4, Inductive
<1>6. Good(n)
  <2>1. n <= n
    BY <1>2
  <2> HIDE DEF Good
  <2> QED BY <1>2, <1>5, <2>1 DEF T
<1>7. l \in LookRecord /\ Len(l.cache) <= config.cache /\ l.segment = <<>> /\ l.buffered = buffered
      /\ (AllReadable => ~l.aborted)
  BY <1>1, <1>6, Zenon
<1>8. LookInv(l, l.cache, fps, 0)
  <2>1. InFlight(Append(flight, l.segment), l.buffered)
    BY <1>7, EmptyRow
  <2>2. Len(l.segment) = 0
    BY <1>7
  <2>3. ASSUME NEW j \in 1..0 PROVE FALSE
    OBVIOUS
  <2> QED BY <1>7, <2>1, <2>2, <2>3, Zenon DEF LookInv
<1>9. ASSUME AllReadable, AllFit, NEW j \in DOMAIN top
      PROVE  \E t \in Range(l.cache) : LeadsTo(top[j], t)
  <2>1. PICK e \in Nat : e = n - j /\ e + 1 <= config.top
    <3>1. n - j \in Nat /\ (n - j) + 1 <= n
      BY <1>2
    <3> QED BY <1>2, <3>1
  <2>2. 1 + e * P <= config.cache
    <3>1. CASE config.top = 1
      <4>1. e = 0 /\ 0 * P = 0
        BY <1>2, <2>1, <3>1
      <4> QED BY <1>2, <4>1
    <3>2. CASE config.top * P <= config.cache
      <4>1. PICK t \in Nat : t = config.top
        BY <1>2
      <4>2. PICK q \in Nat \ {0} : q = P
        BY <1>2, <1>9 DEF AllFit
      <4>3. PICK c \in Nat : c = config.cache
        BY <1>2
      <4>4. PICK h \in Nat : t = e + 1 + h
        <5>1. t - (e + 1) \in Nat /\ t = e + 1 + (t - (e + 1))
          BY <2>1, <4>1
        <5> QED BY <5>1
      <4>5. t * q = e * q + q + h * q /\ h * q \in Nat /\ e * q \in Nat
        BY <4>4
      <4>6. PICK x \in Nat, y \in Nat : x = e * q /\ y = h * q
        BY <4>5
      <4>7. x + q + y <= c
        BY <3>2, <4>1, <4>2, <4>3, <4>5, <4>6
      <4>8. 1 + x <= c
        BY <4>2, <4>7
      <4> QED BY <4>2, <4>3, <4>6, <4>8
    <3> QED BY <1>9, <3>1, <3>2 DEF AllFit
  <2>3. Back(n, j) <= config.cache
    BY <2>1, <2>2
  <2>4. j \in 1..n
    BY <1>2
  <2>5. Found(n, j)
    BY <1>6, <1>9, <2>3, <2>4, Zenon DEF AllFit
  <2> QED BY <1>1, <2>5, Zenon DEF Range
<1> QED BY <1>8, <1>9, Zenon

\* No list of the key-value store has an id twice.
NoDoubles == \A x \in DOMAIN kv : \A i, j \in DOMAIN kv[x] : i # j => kv[x][i] # kv[x][j]

\* A segment is looked up: l is the record afterwards, c the cache after prefetching.
LEMMA DedupIs ==
  ASSUME IInv, NEW fps \in Seq(FP \cup {Mark}), DedupSegment(fps)
  PROVE  \E l, c : /\ LookInv(l, c, fps, Len(fps))
                   /\ cache' = l.cache /\ buffered' = l.buffered
                   /\ aborted' \in BOOLEAN /\ (NoDoubles /\ ~l.aborted => ~aborted')
                   /\ flight' = Append(flight, l.segment)
                   /\ AllReadable /\ AllFit =>
                        \A s \in champions' : /\ s[1] + 1 \in DOMAIN recipes /\ s[2] \in DOMAIN recipes[s[1] + 1]
                                              /\ \E t \in Range(c) : LeadsTo(SegmentId(s[1], s[2]), t)
<1> DEFINE similarity == config.selection # "base" /\ ChunksOf(fps) # <<>>
           top == IF similarity THEN top_segment_select(sampling(fps)) ELSE <<>>
           m == FoldLeft(Prefetch, Start, top)
           l == FoldLeft(LookupChunk, m, fps)
           c == m.cache
<1>1. /\ aborted' = (l.aborted \/ (similarity /\ Doubled(sampling(fps))))
      /\ cache' = l.cache /\ buffered' = l.buffered
      /\ flight' = Append(flight, l.segment)
  BY Zenon DEF DedupSegment, Start
<1>11. champions' = {s \in (0..Backup) \X (1..config.length+1) :
                        s[2] \in DOMAIN recipes[s[1]+1] /\ SegmentId(s[1], s[2]) \in Range(top)}
  BY Zenon DEF DedupSegment, Start
<1>2. Shape /\ RecipeRestorable /\ InFlight(flight, buffered)
  BY DEF IInv
<1>3. /\ top \in Seq(Nat) /\ Len(top) <= config.top
      /\ \A j \in DOMAIN top : \E x \in DOMAIN kv : top[j] \in Range(kv[x])
  <2>1. CASE ~similarity
    <3>1. top = <<>> /\ config.top \in Nat
      BY <1>2, <2>1, ConfigIs DEF Shape
    <3>2. <<>> \in Seq(Nat) /\ Len(<<>>) = 0 /\ DOMAIN <<>> = {}
      OBVIOUS
    <3> HIDE DEF top
    <3> QED BY <3>1, <3>2
  <2>2. CASE similarity
    <3> DEFINE F == sampling(fps)
    <3>1. top = top_segment_select(F)
      BY <2>2
    <3>2. F \in SUBSET DOMAIN kv /\ IsFiniteSet(F)
      BY <1>2, SamplingIs, FeaturedIs, FS_Subset
    <3> HIDE DEF top, F
    <3>3. top \in Seq(IdsOf(F)) /\ Len(top) <= config.top
      BY <1>2, <3>1, <3>2, TopIs
    <3>4. IdsOf(F) \in SUBSET Nat /\ \A id \in IdsOf(F) : \E x \in DOMAIN kv : id \in Range(kv[x])
      BY <1>2, <3>2, IdsOfIs
    <3>5. \A j \in DOMAIN top : top[j] \in IdsOf(F)
      BY <3>3
    <3>6. top \in Seq(Nat)
      BY <3>3, <3>4
    <3> QED BY <3>3, <3>4, <3>5, <3>6, Zenon
  <2> QED BY <2>1, <2>2
<1>12. NoDoubles => ~Doubled(sampling(fps))
  <2>1. sampling(fps) \subseteq DOMAIN kv
    BY <1>2, SamplingIs, FeaturedIs
  <2> QED BY <2>1, Zenon DEF NoDoubles, Doubled
<1>13. aborted' \in BOOLEAN /\ (NoDoubles /\ ~l.aborted => ~aborted')
  <2> HIDE DEF l, similarity
  <2> QED BY <1>1, <1>12
<1> HIDE DEF top
<1>4. m = FoldLeft(Prefetch, Start, top)
  OBVIOUS
<1> HIDE DEF m
<1>5. /\ LookInv(m, m.cache, fps, 0)
      /\ AllReadable /\ AllFit => \A j \in DOMAIN top : \E t \in Range(m.cache) : LeadsTo(top[j], t)
  BY <1>2, <1>3, <1>4, PrefetchAll, Zenon
<1>6. LookInv(l, c, fps, Len(fps))
  BY <1>2, <1>5, LookupAll, Zenon
<1>7. ASSUME AllReadable, AllFit, NEW s \in champions'
      PROVE  /\ s[1] + 1 \in DOMAIN recipes /\ s[2] \in DOMAIN recipes[s[1] + 1]
             /\ \E t \in Range(c) : LeadsTo(SegmentId(s[1], s[2]), t)
  <2>1. s \in (0..Backup) \X (1..config.length+1)
        /\ s[2] \in DOMAIN recipes[s[1]+1] /\ SegmentId(s[1], s[2]) \in Range(top)
    BY <1>11, <1>7, Zenon
  <2>2. s[1] \in 0..Backup
    BY <2>1
  <2>4. recipes \in Seq(Seq(Seq(Pointer))) /\ Len(recipes) \in Nat /\ DOMAIN recipes = 1..Len(recipes)
    BY <1>2 DEF Shape
  <2>5. s[1] + 1 \in DOMAIN recipes
    BY <2>2, <2>4 DEF Backup
  <2>6. PICK j \in DOMAIN top : SegmentId(s[1], s[2]) = top[j]
    BY <2>1, Zenon DEF Range
  <2> QED BY <1>5, <1>7, <2>1, <2>5, <2>6, Zenon
<1> HIDE DEF l, c
<1> QED BY <1>1, <1>6, <1>7, <1>13, Zenon

\* What is in flight stays so if the containers do not change.
LEMMA StillInFlight ==
  ASSUME NEW rows, NEW buf, InFlight(rows, buf), flight' = rows, buffered' = buf,
         containers' = containers, open' => open
  PROVE  InFlight(flight, buffered)'
<1>1. /\ rows \in Seq(Seq(ChunkType)) /\ buf \in [FP -> Seq(Id)]
      /\ IdsHold(rows, buf) /\ UniqueFirst(rows) /\ UniqueFresh(rows)
      /\ Counted(rows, buf) /\ Promised(rows, buf)
  BY Zenon DEF InFlight
<1>2. IdsHold(flight, buffered)'
  BY <1>1, Zenon DEF IdsHold, Holds
<1>3. UniqueFirst(flight)'
  BY <1>1 DEF UniqueFirst, Unique
<1>4. UniqueFresh(flight)'
  BY <1>1, Zenon DEF UniqueFresh, Unique, InStorageBuffer
<1>5. Counted(flight, buffered)'
  BY <1>1, Zenon DEF Counted
<1>6. Promised(flight, buffered)'
  BY <1>1, Zenon DEF Promised, Unique
<1>7. flight' \in Seq(Seq(ChunkType)) /\ buffered' \in [FP -> Seq(Id)]
  BY <1>1
<1> QED BY <1>2, <1>3, <1>4, <1>5, <1>6, <1>7, Zenon DEF InFlight, ChunkType, Id

\* A segment takes something of a stream.
LEMMA WeightIs ==
  ASSUME NEW fps \in Seq(FP \cup {Mark})
  PROVE  /\ Weight(fps) \in Nat \ {0}
         /\ Cardinality(ChunksAt(fps, Len(fps))) <= Weight(fps)
         /\ Cardinality(ChunksAt(fps, Len(fps))) \in Nat
<1>1. ChunksOf(fps) \in Seq(FP) /\ Len(ChunksOf(fps)) = Cardinality(ChunksAt(fps, Len(fps)))
  BY ChunksIs, Zenon
<1> DEFINE c == ChunksOf(fps)
<1>2. Weight(fps) = IF c = <<>> THEN 1 ELSE Len(c)
  BY DEF Weight
<1> HIDE DEF c
<1>3. c \in Seq(FP) /\ Len(c) = Cardinality(ChunksAt(fps, Len(fps)))
  BY <1>1 DEF c
<1>4. Len(c) \in Nat /\ (c = <<>> <=> Len(c) = 0)
  BY <1>3
<1>5. PICK n \in Nat : n = Len(c)
  BY <1>4
<1> QED BY <1>2, <1>3, <1>4, <1>5

\* DedupSegment keeps the invariant.
LEMMA DedupKeeps ==
  ASSUME IInv, NEW fps \in Segments, DedupSegment(fps)
  PROVE  IInv'
<1>1. Shape /\ RecipeRestorable /\ InFlight(flight, buffered)
  BY DEF IInv
<1>2. fps \in Seq(FP \cup {Mark})
  BY <1>1, SegmentsAre
<1>3. PICK l, c : /\ LookInv(l, c, fps, Len(fps))
                  /\ cache' = l.cache /\ buffered' = l.buffered /\ aborted' \in BOOLEAN
                  /\ flight' = Append(flight, l.segment)
  BY <1>2, DedupIs, Zenon
<1>4. /\ UNCHANGED <<config, recipes, kv, containers, open>>
      /\ read + Weight(fps) <= config.length /\ read' = read + Weight(fps)
  BY DEF DedupSegment
<1>5. /\ l \in LookRecord /\ Len(l.cache) <= config.cache
      /\ InFlight(Append(flight, l.segment), l.buffered)
  BY <1>3, Zenon DEF LookInv
<1>6. InFlight(flight, buffered)'
  <2> DEFINE rows == Append(flight, l.segment)
             buf == l.buffered
  <2>1. InFlight(rows, buf) /\ flight' = rows /\ buffered' = buf /\ containers' = containers /\ open' = open
    BY <1>3, <1>4, <1>5
  <2> HIDE DEF rows, buf
  <2> QED BY <2>1, StillInFlight, Zenon
<1>7. Shape'
  <2>1. read' \in 0..(config.length + 1)
    <3>1. read \in Nat /\ config.length \in Nat /\ Weight(fps) \in Nat
      <4>1. config \in Configs /\ read \in 0..(config.length + 1)
        BY <1>1, Zenon DEF Shape
      <4>2. config.length \in Nat
        BY <4>1, ConfigIs, Zenon
      <4>3. Weight(fps) \in Nat
        BY <1>2, WeightIs, Zenon
      <4> QED BY <4>1, <4>2, <4>3
    <3> QED BY <1>4, <3>1
  <2>2. InRecipes' = InRecipes
    BY <1>4 DEF InRecipes
  <2>3. cache' \in Seq(InRecipes) /\ aborted' \in BOOLEAN /\ Len(cache') <= config.cache
    BY <1>3, <1>5 DEF LookRecord
  <2>4. flight' \in Seq(Seq(ChunkType)) /\ buffered' \in [FP -> Seq(Id)]
    BY <1>6, Zenon DEF InFlight, ChunkType, Id
  <2>5. /\ config \in Configs
        /\ recipes \in Seq(Seq(Seq(Pointer))) /\ recipes # <<>>
        /\ kv \in [Keys \cup {Highest} -> Seq(Nat)]
        /\ \A x \in DOMAIN kv : Len(kv[x]) <= config.values
        /\ containers \in Seq(SUBSET FP) /\ open \in BOOLEAN /\ (open => containers # <<>>)
        /\ \A id \in DOMAIN containers : Cardinality(containers[id]) <= config.capacity
    BY <1>1, Zenon DEF Shape
  <2> QED BY <1>4, <2>1, <2>2, <2>3, <2>4, <2>5, Zenon DEF Shape, ChunkType, Id, Pointer
<1>8. RecipeRestorable'
  BY <1>1, <1>4 DEF RecipeRestorable
<1> QED BY <1>6, <1>7, <1>8, Zenon DEF IInv

\* EndOfStream keeps it.
LEMMA EndKeeps ==
  ASSUME IInv, EndOfStream
  PROVE  IInv'
<1>1. Shape /\ RecipeRestorable /\ InFlight(flight, buffered)
  BY DEF IInv
<1>2. /\ UNCHANGED <<config, recipes, buffered, cache, kv, containers, open, aborted>>
      /\ flight' = Append(flight, <<>>) /\ read' = config.length + 1
  BY DEF EndOfStream
<1>3. InFlight(flight, buffered)'
  <2> DEFINE rows == Append(flight, <<>>)
             buf == buffered
  <2>1. InFlight(rows, buf)
    BY <1>1, EmptyRow
  <2>2. flight' = rows /\ buffered' = buf /\ containers' = containers /\ open' = open
    BY <1>2
  <2> HIDE DEF rows, buf
  <2> QED BY <2>1, <2>2, StillInFlight, Zenon
<1>4. Shape'
  <2>1. read' \in 0..(config.length + 1)
    <3>1. config.length \in Nat
      BY <1>1, ConfigIs DEF Shape
    <3> QED BY <1>2, <3>1
  <2>2. InRecipes' = InRecipes
    BY <1>2 DEF InRecipes
  <2>3. flight' \in Seq(Seq(ChunkType)) /\ buffered' \in [FP -> Seq(Id)]
    BY <1>3, Zenon DEF InFlight, ChunkType, Id
  <2>4. /\ config \in Configs
        /\ recipes \in Seq(Seq(Seq(Pointer))) /\ recipes # <<>>
        /\ cache \in Seq(InRecipes) /\ Len(cache) <= config.cache
        /\ kv \in [Keys \cup {Highest} -> Seq(Nat)]
        /\ \A x \in DOMAIN kv : Len(kv[x]) <= config.values
        /\ containers \in Seq(SUBSET FP) /\ open \in BOOLEAN /\ (open => containers # <<>>)
        /\ \A id \in DOMAIN containers : Cardinality(containers[id]) <= config.capacity
        /\ aborted \in BOOLEAN
    BY <1>1, Zenon DEF Shape
  <2> QED BY <1>2, <2>1, <2>2, <2>3, <2>4, Zenon DEF Shape, ChunkType, Id, Pointer
<1>5. RecipeRestorable'
  BY <1>1, <1>2 DEF RecipeRestorable
<1> QED BY <1>3, <1>4, <1>5, Zenon DEF IInv

\* NextSession keeps it.
LEMMA SessionKeeps ==
  ASSUME IInv, NextSession
  PROVE  IInv'
<1>1. Shape /\ RecipeRestorable /\ InFlight(flight, buffered)
  BY DEF IInv
<1>2. /\ UNCHANGED <<config, flight, buffered, kv, containers, aborted>>
      /\ recipes' = Append(recipes, <<>>)
      /\ read' = 0 /\ cache' = <<>> /\ ~open' /\ open' \in BOOLEAN
  BY DEF NextSession
<1>3. InFlight(flight, buffered)'
  BY <1>1, <1>2, StillInFlight, Zenon
<1>4. /\ recipes \in Seq(Seq(Seq(Pointer))) /\ Len(recipes) \in Nat
      /\ recipes' \in Seq(Seq(Seq(Pointer))) /\ Len(recipes') = Len(recipes) + 1
      /\ \A b \in 1..Len(recipes) : recipes'[b] = recipes[b]
      /\ recipes'[Len(recipes) + 1] = <<>>
  <2>1. recipes \in Seq(Seq(Seq(Pointer))) /\ <<>> \in Seq(Seq(Pointer))
    BY <1>1 DEF Shape
  <2> QED BY <1>2, <2>1, AppendProperties
<1>5. Shape'
  <2>1. read' \in 0..(config.length + 1) /\ 0 <= config.cache
    <3>1. config.length \in Nat /\ config.cache \in Nat
      BY <1>1, ConfigIs DEF Shape
    <3> QED BY <1>2, <3>1
  <2>2. cache' \in Seq(InRecipes') /\ Len(cache') <= config.cache
    BY <1>2, <2>1
  <2>3. recipes' # <<>>
    BY <1>4
  <2>4. /\ config \in Configs
        /\ flight \in Seq(Seq(ChunkType)) /\ buffered \in [FP -> Seq(Id)]
        /\ kv \in [Keys \cup {Highest} -> Seq(Nat)]
        /\ \A x \in DOMAIN kv : Len(kv[x]) <= config.values
        /\ containers \in Seq(SUBSET FP)
        /\ \A id \in DOMAIN containers : Cardinality(containers[id]) <= config.capacity
        /\ aborted \in BOOLEAN
    BY <1>1, Zenon DEF Shape
  <2> QED BY <1>2, <1>4, <2>1, <2>2, <2>3, <2>4, Zenon DEF Shape, ChunkType, Id, Pointer
<1>6. RecipeRestorable'
  <2> SUFFICES ASSUME NEW b \in DOMAIN recipes', NEW k \in DOMAIN recipes'[b], NEW i \in DOMAIN recipes'[b][k]
               PROVE  LET p == recipes'[b][k][i]
                      IN p.id + 1 \in DOMAIN containers' /\ p.fp \in containers'[p.id + 1]
    BY Zenon DEF RecipeRestorable
  <2>1. b \in 1..(Len(recipes) + 1)
    BY <1>4
  <2>2. CASE b = Len(recipes) + 1
    <3>1. DOMAIN recipes'[b] = {}
      BY <1>4, <2>2
    <3> QED BY <3>1
  <2>3. CASE b # Len(recipes) + 1
    <3>1. b \in 1..Len(recipes) /\ DOMAIN recipes = 1..Len(recipes)
      BY <1>4, <2>1, <2>3
    <3>2. recipes'[b] = recipes[b]
      BY <1>4, <3>1
    <3> QED BY <1>1, <1>2, <3>1, <3>2, Zenon DEF RecipeRestorable
  <2> QED BY <2>2, <2>3
<1> QED BY <1>3, <1>5, <1>6, Zenon DEF IInv

\* It holds at the beginning.
LEMMA InitHolds ==
  ASSUME Init
  PROVE  IInv
<1>1. /\ config \in Configs
      /\ recipes = << <<>> >> /\ read = 0 /\ flight = <<>>
      /\ buffered = [f \in FP |-> <<>>] /\ cache = <<>>
      /\ kv = [k \in Keys \cup {Highest} |-> <<>>]
      /\ containers = <<>> /\ open = FALSE /\ aborted = FALSE
  BY Zenon DEF Init
<1>2. config.length \in Nat /\ config.cache \in Nat /\ config.values \in Nat
  BY <1>1, ConfigIs
<1>3. Shape
  <2>1. recipes \in Seq(Seq(Seq(Pointer))) /\ recipes # <<>>
    BY <1>1
  <2>2. flight \in Seq(Seq(ChunkType)) /\ buffered \in [FP -> Seq(Id)]
    BY <1>1
  <2>3. read \in 0..(config.length + 1)
    BY <1>1, <1>2
  <2>4. cache \in Seq(InRecipes) /\ Len(cache) <= config.cache
    BY <1>1, <1>2
  <2>5. kv \in [Keys \cup {Highest} -> Seq(Nat)]
    BY <1>1
  <2>6. \A x \in DOMAIN kv : Len(kv[x]) <= config.values
    BY <1>1, <1>2
  <2>7. containers \in Seq(SUBSET FP) /\ DOMAIN containers = {}
    BY <1>1
  <2> QED BY <1>1, <2>1, <2>2, <2>3, <2>4, <2>5, <2>6, <2>7, Zenon DEF Shape
<1>4. RecipeRestorable
  <2> SUFFICES ASSUME NEW b \in DOMAIN recipes PROVE DOMAIN recipes[b] = {}
    BY Zenon DEF RecipeRestorable
  <2> QED BY <1>1
<1>5. InFlight(flight, buffered)
  <2>1. flight \in Seq(Seq(ChunkType)) /\ buffered \in [FP -> Seq(Id)] /\ DOMAIN flight = {} /\ Len(flight) = 0
    BY <1>1
  <2>2. \A f \in FP : buffered[f] = <<>> /\ DOMAIN buffered[f] = {} /\ Len(buffered[f]) = 0
    BY <1>1
  <2>3. IdsHold(flight, buffered)
    BY <2>1, <2>2, Zenon DEF IdsHold
  <2>4. UniqueFirst(flight) /\ UniqueFresh(flight)
    BY <2>1, Zenon DEF UniqueFirst, UniqueFresh
  <2>5. Counted(flight, buffered)
    BY <2>1, <2>2, SumNone DEF Counted
  <2>6. Promised(flight, buffered)
    BY <2>2, Zenon DEF Promised
  <2> QED BY <2>1, <2>3, <2>4, <2>5, <2>6, Zenon DEF InFlight
<1> QED BY <1>3, <1>4, <1>5, Zenon DEF IInv

-----------------------------------------------------------------------------
(* The filter phase.                                                       *)

\* The segment s after index_check_buffer.
Checked(s) == [i \in DOMAIN s |-> CheckBuffer(s[i])]

LEMMA CheckedIs ==
  ASSUME IInv, NEW s, s = Head(flight), flight # <<>>
  PROVE  /\ s = flight[1] /\ 1 \in DOMAIN flight /\ s \in Seq(ChunkType)
         /\ Checked(s) \in Seq(ChunkType) /\ Len(Checked(s)) = Len(s)
         /\ \A i \in DOMAIN s :
              /\ Checked(s)[i].fp = s[i].fp /\ (Checked(s)[i].dup <=> s[i].dup)
              /\ Checked(s)[i].id # TEMPORARY_ID =>
                   s[i].dup /\ s[i].fp \in FP /\ Holds(Checked(s)[i].id, s[i].fp)
              /\ s[i].fp # Mark /\ s[i].dup /\ Checked(s)[i].id = TEMPORARY_ID =>
                   \E j \in DOMAIN s : j < i /\ Unique(flight, 1, j) /\ s[j].fp = s[i].fp
<1>1. /\ flight \in Seq(Seq(ChunkType)) /\ buffered \in [FP -> Seq(Id)]
      /\ IdsHold(flight, buffered) /\ UniqueFirst(flight)
      /\ Counted(flight, buffered) /\ Promised(flight, buffered)
  BY DEF IInv, InFlight
<1>2. s = flight[1] /\ 1 \in DOMAIN flight /\ s \in Seq(ChunkType)
  BY <1>1
<1>3. DOMAIN s = 1..Len(s) /\ Len(s) \in Nat
  BY <1>2
<1>4. ASSUME NEW i \in DOMAIN s
      PROVE  /\ CheckBuffer(s[i]) \in ChunkType
             /\ CheckBuffer(s[i]).fp = s[i].fp /\ (CheckBuffer(s[i]).dup <=> s[i].dup)
             /\ CheckBuffer(s[i]).id # TEMPORARY_ID =>
                  s[i].dup /\ s[i].fp \in FP /\ Holds(CheckBuffer(s[i]).id, s[i].fp)
             /\ s[i].fp # Mark /\ s[i].dup /\ CheckBuffer(s[i]).id = TEMPORARY_ID =>
                  \E j \in DOMAIN s : j < i /\ Unique(flight, 1, j) /\ s[j].fp = s[i].fp
  <2> DEFINE c == s[i]
             d == CheckBuffer(c)
             h == Head(buffered[c.fp])
  <2>1. c \in ChunkType /\ i \in DOMAIN flight[1] /\ c = flight[1][i]
    BY <1>2
  <2>2. c.id # TEMPORARY_ID => c.fp \in FP /\ c.dup /\ Holds(c.id, c.fp)
    <3>1. flight[1][i].id # TEMPORARY_ID =>
            flight[1][i].fp \in FP /\ flight[1][i].dup /\ Holds(flight[1][i].id, flight[1][i].fp)
      BY <1>1, <1>2, <2>1, Zenon DEF IdsHold
    <3> QED BY <2>1, <3>1
  <2>3. c.fp \in FP \cup {Mark}
    BY <2>1 DEF ChunkType
  <2>4. CASE IsChunk(c.fp) /\ c.dup /\ c.id = TEMPORARY_ID
    <3>1. d = [c EXCEPT !.id = h]
      BY <2>4, Zenon DEF CheckBuffer
    <3>2. c.fp \in FP
      BY <2>3, <2>4 DEF IsChunk
    <3>3. buffered[c.fp] # <<>> /\ h \in Id /\ h = buffered[c.fp][1] /\ 1 \in DOMAIN buffered[c.fp]
      BY <1>1, <1>2, <2>1, <3>2, HasAnId, Zenon
    <3> HIDE DEF c, d, h
    <3>4. d \in ChunkType /\ d.fp = c.fp /\ d.id = h
      BY <2>1, <3>1, <3>3 DEF ChunkType
    <3>5. d.dup <=> c.dup
      BY <2>1, <3>1 DEF ChunkType
    <3>6. h # TEMPORARY_ID => Holds(h, c.fp)
      BY <1>1, <3>2, <3>3, Zenon DEF IdsHold
    <3>7. ASSUME h = TEMPORARY_ID PROVE \E j \in DOMAIN s : j < i /\ Unique(flight, 1, j) /\ s[j].fp = c.fp
      <4>1. Head(buffered[c.fp]) = TEMPORARY_ID
        BY <3>7 DEF h
      <4>2. PICK k \in DOMAIN flight : \E j \in DOMAIN flight[k] : Unique(flight, k, j) /\ flight[k][j].fp = c.fp
        BY <1>1, <3>2, <3>3, <4>1, Zenon DEF Promised
      <4>3. PICK j \in DOMAIN flight[k] : Unique(flight, k, j) /\ flight[k][j].fp = c.fp
        BY <4>2, Zenon
      <4>4. flight[1][i].fp = flight[k][j].fp
        BY <2>1, <4>3
      <4>5. k < 1 \/ (k = 1 /\ j <= i)
        BY <1>1, <1>2, <2>1, <4>3, <4>4, Zenon DEF UniqueFirst
      <4>6. k = 1
        <5>1. DOMAIN flight = 1..Len(flight) /\ Len(flight) \in Nat
          BY <1>1
        <5> QED BY <4>5, <5>1
      <4>7. j # i
        <5>1. ~flight[1][j].dup
          BY <4>3, <4>6, Zenon DEF Unique
        <5>2. flight[1][i].dup
          BY <2>1, <2>4
        <5> QED BY <5>1, <5>2
      <4>8. j \in DOMAIN s /\ j < i
        BY <1>2, <1>3, <4>5, <4>6, <4>7
      <4> QED BY <1>2, <4>3, <4>6, <4>8
    <3>8. d.id # TEMPORARY_ID => c.dup /\ c.fp \in FP /\ Holds(d.id, c.fp)
      BY <2>4, <3>2, <3>4, <3>6
    <3>9. d.id = TEMPORARY_ID => \E j \in DOMAIN s : j < i /\ Unique(flight, 1, j) /\ s[j].fp = c.fp
      BY <3>4, <3>7, Zenon
    <3> QED BY <3>4, <3>5, <3>8, <3>9, Zenon DEF c, d
  <2>5. CASE ~(IsChunk(c.fp) /\ c.dup /\ c.id = TEMPORARY_ID)
    <3>1. d = c
      BY <2>5, Zenon DEF CheckBuffer
    <3>2. c.fp # Mark /\ c.dup => c.id # TEMPORARY_ID
      BY <2>5, Zenon DEF IsChunk
    <3> QED BY <2>1, <2>2, <3>1, <3>2, Zenon
  <2> QED BY <2>4, <2>5, Zenon
<1>5. Checked(s) \in Seq(ChunkType) /\ Len(Checked(s)) = Len(s) /\ \A i \in DOMAIN s : Checked(s)[i] = CheckBuffer(s[i])
  <2>1. \A i \in 1..Len(s) : CheckBuffer(s[i]) \in ChunkType
    BY <1>3, <1>4
  <2>2. Checked(s) \in [1..Len(s) -> ChunkType]
    BY <1>3, <2>1 DEF Checked
  <2> QED BY <1>3, <2>2 DEF Checked
<1>6. ASSUME NEW i \in DOMAIN s
      PROVE  /\ Checked(s)[i].fp = s[i].fp /\ (Checked(s)[i].dup <=> s[i].dup)
             /\ Checked(s)[i].id # TEMPORARY_ID =>
                  s[i].dup /\ s[i].fp \in FP /\ Holds(Checked(s)[i].id, s[i].fp)
             /\ s[i].fp # Mark /\ s[i].dup /\ Checked(s)[i].id = TEMPORARY_ID =>
                  \E j \in DOMAIN s : j < i /\ Unique(flight, 1, j) /\ s[j].fp = s[i].fp
  <2>1. Checked(s)[i] = CheckBuffer(s[i])
    BY <1>5
  <2> QED BY <1>4, <2>1
<1> QED BY <1>2, <1>5, <1>6, Zenon

\* What filtering a segment works on.
FilterRecord ==
  [containers : Seq(SUBSET FP), open : BOOLEAN, segment : Seq(ChunkType),
   unique : UNION {[D -> Nat] : D \in SUBSET FP}, aborted : BOOLEAN]

\* Of some containers, boxes: id holds f.
BoxHolds(boxes, id, f) == id + 1 \in DOMAIN boxes /\ f \in boxes[id + 1]

\* The containers boxes become more, after chunk f is written as id.
Grown(boxes, more, id, f) ==
  /\ more \in Seq(SUBSET FP) /\ Len(boxes) <= Len(more) /\ id \in Nat /\ BoxHolds(more, id, f)
  /\ \A k \in DOMAIN more : Cardinality(more[k]) <= config.capacity
  /\ \A k \in DOMAIN boxes : boxes[k] \subseteq more[k]
  /\ \A k \in DOMAIN more : \A g \in more[k] : (k \in DOMAIN boxes /\ g \in boxes[k]) \/ (k = id + 1 /\ g = f)

\* A chunk that the open container does not have is written.
LEMMA WrittenIs ==
  ASSUME Shape, NEW w \in FilterRecord, w.open => w.containers # <<>>,
         \A k \in DOMAIN w.containers : Cardinality(w.containers[k]) <= config.capacity,
         NEW c \in ChunkType, c.fp \in FP, ~(w.open /\ c.fp \in Last(w.containers))
  PROVE  \E more, id : /\ Written(w, c) = [containers |-> more, open |-> TRUE,
                                           segment |-> Append(w.segment, [c EXCEPT !.id = id]),
                                           unique |-> [x \in DOMAIN w.unique \cup {c.fp} |->
                                                         IF x = c.fp THEN id ELSE w.unique[x]],
                                           aborted |-> w.aborted]
                       /\ Grown(w.containers, more, id, c.fp)
                       /\ Len(more) = Len(w.containers) => w.open
<1> DEFINE f == c.fp
           b == w.containers
           n == Len(b)
           new == ~w.open \/ Cardinality(Last(b)) >= config.capacity
           held == ~new /\ f \in Last(b)
           more == IF new THEN Append(b, {f}) ELSE [b EXCEPT ![n] = @ \cup {f}]
           id == Len(more) - 1
           seg == Append(w.segment, [c EXCEPT !.id = id])
           uni == [x \in DOMAIN w.unique \cup {f} |-> IF x = f THEN id ELSE w.unique[x]]
<1>1. ~held
  OBVIOUS
<1>2. Written(w, c) = [w EXCEPT !.containers = more, !.open = TRUE,
                                !.aborted = w.aborted \/ (held /\ config.exact), !.segment = seg,
                                !.unique = IF held THEN w.unique ELSE uni]
  BY Zenon DEF Written
<1>3. Written(w, c) = [w EXCEPT !.containers = more, !.open = TRUE, !.aborted = w.aborted,
                                !.segment = seg, !.unique = uni]
  <2>1. (w.aborted \/ (held /\ config.exact)) = w.aborted
    <3>1. w.aborted \in BOOLEAN
      BY DEF FilterRecord
    <3> HIDE DEF held
    <3> QED BY <1>1, <3>1
  <2> QED BY <1>1, <1>2, <2>1, Zenon
<1>4. b \in Seq(SUBSET FP) /\ n \in Nat /\ DOMAIN b = 1..n /\ (w.open => n # 0) /\ f \in FP
      /\ config.capacity \in Nat \ {0}
  BY ConfigIs DEF FilterRecord, Shape
<1>5. \A k \in DOMAIN b : IsFiniteSet(b[k]) /\ Cardinality(b[k]) \in Nat
  <2> SUFFICES ASSUME NEW k \in DOMAIN b PROVE IsFiniteSet(b[k]) /\ Cardinality(b[k]) \in Nat
    OBVIOUS
  <2>1. b[k] \in SUBSET FP
    BY <1>4
  <2> QED BY <2>1, Marked, FS_Subset, FS_CardinalityType
<1>6. Written(w, c) = [containers |-> more, open |-> TRUE, segment |-> seg, unique |-> uni,
                       aborted |-> w.aborted]
  <2> HIDE DEF more, seg, uni, b, f
  <2> QED BY <1>3 DEF FilterRecord
<1>7. CASE new
  <2>1. more = Append(b, {f})
    BY <1>7
  <2> HIDE DEF more, b, new, f
  <2>2. /\ more \in Seq(SUBSET FP) /\ Len(more) = n + 1 /\ more[n + 1] = {f} /\ DOMAIN more = 1..(n + 1)
        /\ \A k \in 1..n : more[k] = b[k]
    <3>1. {f} \in SUBSET FP
      BY <1>4
    <3> QED BY <1>4, <2>1, <3>1, AppendProperties
  <2>3. id = n /\ id \in Nat
    BY <1>4, <2>2
  <2> HIDE DEF id, n
  <2>4. \A k \in DOMAIN more : k \in 1..n \/ k = n + 1
    BY <1>4, <2>2
  <2>5. Cardinality({f}) = 1 /\ 1 <= config.capacity
    <3>1. Cardinality({f}) = 1
      BY FS_Singleton, Zenon
    <3>2. 1 <= config.capacity
      BY <1>4
    <3> QED BY <3>1, <3>2
  <2>6. \A k \in DOMAIN more : Cardinality(more[k]) <= config.capacity
    BY <1>4, <2>2, <2>4, <2>5 DEF b
  <2>7. BoxHolds(more, id, f)
    BY <1>4, <2>2, <2>3 DEF BoxHolds
  <2>8. n <= Len(more) /\ Len(more) # n
    BY <1>4, <2>2
  <2>9. \A k \in DOMAIN b : b[k] \subseteq more[k]
    BY <1>4, <2>2
  <2>10. \A k \in DOMAIN more : \A g \in more[k] : (k \in DOMAIN b /\ g \in b[k]) \/ (k = id + 1 /\ g = f)
    BY <1>4, <2>2, <2>3, <2>4
  <2>11. Grown(b, more, id, f)
    BY <2>2, <2>3, <2>6, <2>7, <2>8, <2>9, <2>10, Zenon DEF Grown, n
  <2> HIDE DEF uni, seg
  <2> QED BY <1>6, <2>8, <2>11, Zenon DEF b, f, n, seg, uni
<1>8. CASE ~new
  <2>1. more = [b EXCEPT ![n] = @ \cup {f}] /\ w.open /\ ~(Cardinality(Last(b)) >= config.capacity)
    BY <1>8
  <2>2. n # 0 /\ n \in 1..n /\ Last(b) = b[n]
    BY <1>4, <2>1 DEF Last
  <2>3. Cardinality(b[n]) < config.capacity
    <3>1. Cardinality(b[n]) \in Nat
      BY <1>4, <1>5, <2>2
    <3>2. ~(Cardinality(b[n]) >= config.capacity)
      BY <2>1, <2>2, Zenon
    <3> QED BY <1>4, <3>1, <3>2
  <2> HIDE DEF more, b, new, f
  <2>4. /\ more \in Seq(SUBSET FP) /\ Len(more) = n /\ more[n] = b[n] \cup {f} /\ DOMAIN more = 1..n
        /\ \A k \in 1..n : k # n => more[k] = b[k]
    <3>1. b[n] \cup {f} \in SUBSET FP
      BY <1>4, <2>2
    <3> DEFINE x == b[n] \cup {f}
    <3>2. more = [b EXCEPT ![n] = x] /\ x \in SUBSET FP /\ x = b[n] \cup {f}
      BY <2>1, <3>1
    <3> HIDE DEF x, n
    <3>3. b \in [1..n -> SUBSET FP]
      BY <1>4 DEF n
    <3>4. more \in [1..n -> SUBSET FP] /\ more[n] = x /\ \A k \in 1..n : k # n => more[k] = b[k]
      BY <2>2, <3>2, <3>3
    <3>5. more \in Seq(SUBSET FP) /\ Len(more) = n /\ DOMAIN more = 1..n
      BY <1>4, <3>4
    <3> QED BY <3>2, <3>4, <3>5
  <2>5. id = n - 1 /\ id \in Nat /\ id + 1 = n
    <3>1. id = Len(more) - 1 /\ Len(more) = n /\ n \in 1..n
      BY <2>2, <2>4
    <3> HIDE DEF id, n
    <3> QED BY <1>4, <3>1, SMTT(30)
  <2> HIDE DEF id, n
  <2>6. Cardinality(more[n]) <= config.capacity
    <3>1. IsFiniteSet(b[n]) /\ Cardinality(b[n]) \in Nat
      BY <1>4, <1>5, <2>2
    <3>2. Cardinality(b[n] \cup {f}) = IF f \in b[n] THEN Cardinality(b[n]) ELSE Cardinality(b[n]) + 1
      BY <3>1, FS_AddElement
    <3> QED BY <1>4, <2>3, <2>4, <3>1, <3>2
  <2>7. \A k \in DOMAIN more : Cardinality(more[k]) <= config.capacity
    BY <1>4, <2>4, <2>6 DEF b
  <2>8. BoxHolds(more, id, f)
    BY <2>2, <2>4, <2>5 DEF BoxHolds
  <2>9. n <= Len(more)
    BY <1>4, <2>4
  <2>10. \A k \in DOMAIN b : b[k] \subseteq more[k]
    BY <1>4, <2>4
  <2>11. \A k \in DOMAIN more : \A g \in more[k] : (k \in DOMAIN b /\ g \in b[k]) \/ (k = id + 1 /\ g = f)
    BY <1>4, <2>4, <2>5
  <2>12. Grown(b, more, id, f)
    BY <2>4, <2>5, <2>7, <2>8, <2>9, <2>10, <2>11, Zenon DEF Grown, n
  <2> HIDE DEF uni, seg
  <2> QED BY <1>6, <2>1, <2>12, Zenon DEF b, f, n, seg, uni
<1> QED BY <1>7, <1>8

\* The copies of chunk f among the first i of a segment, and the fingerprints of one.
Early(s, f, i) == {j \in 1..i : s[j].fp = f}
Fps(s) == [j \in DOMAIN s |-> s[j].fp]

LEMMA EarlyIs ==
  ASSUME NEW s, NEW f, NEW i \in Nat
  PROVE  /\ IsFiniteSet(Early(s, f, i)) /\ Cardinality(Early(s, f, i)) \in Nat
         /\ Cardinality(Early(s, f, 0)) = 0
         /\ s[i + 1].fp = f => Cardinality(Early(s, f, i + 1)) = Cardinality(Early(s, f, i)) + 1
         /\ s[i + 1].fp # f => Cardinality(Early(s, f, i + 1)) = Cardinality(Early(s, f, i))
<1>1. IsFiniteSet(1..i) /\ Early(s, f, i) \in SUBSET (1..i)
  BY FS_Interval DEF Early
<1>2. IsFiniteSet(Early(s, f, i)) /\ Cardinality(Early(s, f, i)) \in Nat
  BY <1>1, FS_Subset, FS_CardinalityType
<1>3. Cardinality(Early(s, f, 0)) = 0
  <2>1. Early(s, f, 0) = {}
    BY DEF Early
  <2> QED BY <2>1, FS_EmptySet
<1>4. CASE s[i + 1].fp = f
  <2>1. Early(s, f, i + 1) = Early(s, f, i) \cup {i + 1} /\ i + 1 \notin Early(s, f, i)
    BY <1>4 DEF Early
  <2>2. Cardinality(Early(s, f, i + 1)) = Cardinality(Early(s, f, i)) + 1
    BY <1>2, <2>1, FS_AddElement
  <2> QED BY <1>2, <1>3, <1>4, <2>2
<1>5. CASE s[i + 1].fp # f
  <2>1. Early(s, f, i + 1) = Early(s, f, i)
    BY <1>5 DEF Early
  <2> QED BY <1>2, <1>3, <1>5, <2>1
<1> QED BY <1>4, <1>5

\* The containers boxes are at least those of the system, with their capacity.
Larger(boxes, op) ==
  /\ boxes \in Seq(SUBSET FP) /\ (op => boxes # <<>>)
  /\ \A k \in DOMAIN boxes : Cardinality(boxes[k]) <= config.capacity
  /\ Len(containers) <= Len(boxes)
  /\ \A k \in DOMAIN containers : k \in DOMAIN boxes /\ containers[k] \subseteq boxes[k]
  /\ op /\ Len(boxes) = Len(containers) => open

\* The pointers of the first i chunks of segment s, which lead to boxes.
Row(row, boxes, s, i) ==
  /\ \A j \in DOMAIN row : row[j].fp \in FP /\ row[j].id \in Nat /\ BoxHolds(boxes, row[j].id, row[j].fp)
  /\ \A f \in FP : Cardinality(Here(row, f)) = Cardinality(Early(s, f, i))
  /\ Len(row) = Cardinality(ChunksAt(Fps(s), i))

\* The unique ones of them, and that boxes got no others.
Uniques(unique, boxes, s, i) ==
  /\ \A f : f \in DOMAIN unique <=> \E j \in 1..i : Unique(flight, 1, j) /\ s[j].fp = f
  /\ \A f \in DOMAIN unique : BoxHolds(boxes, unique[f], f)
  /\ \A k \in DOMAIN boxes : \A f \in boxes[k] :
       (k \in DOMAIN containers /\ f \in containers[k]) \/ (f \in DOMAIN unique /\ k = unique[f] + 1)

\* After the first i chunks of segment s.
FilterInv(w, s, i) ==
  /\ w \in FilterRecord /\ ~w.aborted
  /\ Larger(w.containers, w.open)
  /\ Row(w.segment, w.containers, s, i)
  /\ Uniques(w.unique, w.containers, s, i)

\* A pointer more.
LEMMA RowGrows ==
  ASSUME NEW s \in Seq(ChunkType), NEW i \in Nat, i + 1 <= Len(s), NEW row \in Seq(ChunkType), NEW d \in ChunkType,
         NEW boxes, NEW more, Row(row, boxes, s, i), \A id, f : BoxHolds(boxes, id, f) => BoxHolds(more, id, f),
         d.fp = s[i + 1].fp, d.fp \in FP, d.id \in Nat, BoxHolds(more, d.id, d.fp)
  PROVE  Row(Append(row, d), more, s, i + 1)
<1> DEFINE r == Append(row, d)
           n == Len(row)
<1>1. /\ r \in Seq(ChunkType) /\ n \in Nat /\ Len(r) = n + 1 /\ DOMAIN row = 1..n /\ DOMAIN r = 1..(n + 1)
      /\ r[n + 1] = d /\ \A j \in 1..n : r[j] = row[j]
  BY AppendProperties
<1>2. ASSUME NEW f \in FP PROVE Cardinality(Here(r, f)) = Cardinality(Early(s, f, i + 1))
  <2>1. Cardinality(Here(r, f)) = Cardinality(Here(row, f)) + (IF d.fp = f THEN 1 ELSE 0)
    BY HereAppend
  <2>2. /\ s[i + 1].fp = f => Cardinality(Early(s, f, i + 1)) = Cardinality(Early(s, f, i)) + 1
        /\ s[i + 1].fp # f => Cardinality(Early(s, f, i + 1)) = Cardinality(Early(s, f, i))
    BY EarlyIs, Zenon
  <2>3. Cardinality(Here(row, f)) = Cardinality(Early(s, f, i)) /\ Cardinality(Early(s, f, i)) \in Nat
    BY EarlyIs, Zenon DEF Row
  <2> HIDE DEF r
  <2>4. CASE d.fp = f
    <3>1. Cardinality(Here(r, f)) = Cardinality(Here(row, f)) + 1
      BY <2>1, <2>4
    <3>2. s[i + 1].fp = f
      BY <2>4, Zenon
    <3> QED BY <2>2, <2>3, <3>1, <3>2
  <2>5. CASE d.fp # f
    <3>1. Cardinality(Here(r, f)) = Cardinality(Here(row, f)) + 0
      BY <2>1, <2>5
    <3>2. s[i + 1].fp # f
      BY <2>5, Zenon
    <3> QED BY <2>2, <2>3, <3>1, <3>2
  <2> QED BY <2>4, <2>5
<1>3. Len(r) = Cardinality(ChunksAt(Fps(s), i + 1))
  <2>1. Cardinality(ChunksAt(Fps(s), i + 1)) =
          Cardinality(ChunksAt(Fps(s), i)) + (IF IsChunk(Fps(s)[i + 1]) THEN 1 ELSE 0)
    BY ChunksAtIs
  <2>2. Fps(s)[i + 1] = d.fp
    <3>1. i + 1 \in DOMAIN s
      OBVIOUS
    <3> QED BY <3>1 DEF Fps
  <2>3. IsChunk(Fps(s)[i + 1])
    BY <2>2, Marked DEF IsChunk
  <2>4. n = Cardinality(ChunksAt(Fps(s), i))
    BY Zenon DEF Row
  <2> HIDE DEF r, n
  <2> QED BY <1>1, <2>1, <2>3, <2>4
<1> HIDE DEF r
<1>4. ASSUME NEW j \in DOMAIN r PROVE r[j].fp \in FP /\ r[j].id \in Nat /\ BoxHolds(more, r[j].id, r[j].fp)
  <2>1. CASE j = n + 1
    BY <1>1, <2>1
  <2>2. CASE j # n + 1
    <3>1. j \in DOMAIN row /\ r[j] = row[j]
      BY <1>1, <2>2
    <3> QED BY <3>1, Zenon DEF Row
  <2> QED BY <2>1, <2>2
<1> QED BY <1>2, <1>3, <1>4, Zenon DEF Row, r

\* A copy gets its id from the index, from the index buffer or from the unique one.
LEMMA FilterCopy ==
  ASSUME NEW s \in Seq(ChunkType), NEW i \in Nat, i + 1 <= Len(s), NEW w, FilterInv(w, s, i),
         NEW d \in ChunkType, d.fp = s[i + 1].fp, d.fp \in FP, d.id \in Nat,
         BoxHolds(w.containers, d.id, d.fp), ~Unique(flight, 1, i + 1),
         NEW q, q = [w EXCEPT !.segment = Append(@, d)]
  PROVE  FilterInv(q, s, i + 1)
<1>1. w \in FilterRecord /\ ~w.aborted /\ Larger(w.containers, w.open)
      /\ Row(w.segment, w.containers, s, i) /\ Uniques(w.unique, w.containers, s, i)
  BY Zenon DEF FilterInv
<1>2. w.segment \in Seq(ChunkType)
  BY <1>1 DEF FilterRecord
<1> DEFINE r == Append(w.segment, d)
<1>3. r \in Seq(ChunkType)
  BY <1>2
<1>4. q = [w EXCEPT !.segment = r]
  OBVIOUS
<1>5. Row(r, w.containers, s, i + 1)
  <2> DEFINE row == w.segment
             boxes == w.containers
  <2>1. row \in Seq(ChunkType) /\ Row(row, boxes, s, i) /\ BoxHolds(boxes, d.id, d.fp) /\ r = Append(row, d)
    BY <1>1, <1>2
  <2> HIDE DEF row, boxes, r
  <2>2. Row(r, boxes, s, i + 1)
    BY <2>1, RowGrows
  <2> QED BY <2>2 DEF boxes
<1> HIDE DEF r
<1>6. /\ q \in FilterRecord /\ q.segment = r /\ q.containers = w.containers /\ q.open = w.open
      /\ q.unique = w.unique
  BY <1>1, <1>3, <1>4 DEF FilterRecord
<1>7. ~q.aborted
  BY <1>1, <1>4 DEF FilterRecord
<1>8. Uniques(w.unique, w.containers, s, i + 1)
  <2>1. \A j \in 1..(i + 1) : Unique(flight, 1, j) => j \in 1..i
    <3>1. \A j \in 1..(i + 1) : j = i + 1 \/ j \in 1..i
      OBVIOUS
    <3> QED BY <3>1, Zenon
  <2>2. \A j \in 1..i : j \in 1..(i + 1)
    OBVIOUS
  <2>3. \A f : (\E j \in 1..i : Unique(flight, 1, j) /\ s[j].fp = f)
               <=> \E j \in 1..(i + 1) : Unique(flight, 1, j) /\ s[j].fp = f
    BY <2>1, <2>2, Zenon
  <2> QED BY <1>1, <2>3, Zenon DEF Uniques
<1>9. Larger(q.containers, q.open) /\ Row(q.segment, q.containers, s, i + 1)
      /\ Uniques(q.unique, q.containers, s, i + 1)
  BY <1>1, <1>5, <1>6, <1>8
<1> QED BY <1>6, <1>7, <1>9, Zenon DEF FilterInv

\* A unique chunk is written.
LEMMA FilterUnique ==
  ASSUME IInv, NEW s \in Seq(ChunkType), 1 \in DOMAIN flight, s = flight[1], NEW i \in Nat, i + 1 <= Len(s),
         NEW w, FilterInv(w, s, i),
         NEW c \in ChunkType, c.fp = s[i + 1].fp, Unique(flight, 1, i + 1),
         NEW q, q = Written(w, c)
  PROVE  FilterInv(q, s, i + 1)
<1> DEFINE f == c.fp
<1>1. w \in FilterRecord /\ ~w.aborted /\ Larger(w.containers, w.open)
      /\ Row(w.segment, w.containers, s, i) /\ Uniques(w.unique, w.containers, s, i)
  BY Zenon DEF FilterInv
<1>2. /\ w.segment \in Seq(ChunkType) /\ w.containers \in Seq(SUBSET FP) /\ w.open \in BOOLEAN
      /\ w.unique \in UNION {[D -> Nat] : D \in SUBSET FP}
  BY <1>1 DEF FilterRecord
<1>3. PICK D \in SUBSET FP : w.unique \in [D -> Nat]
  BY <1>2
<1>4. DOMAIN w.unique = D
  BY <1>3
<1>5. i + 1 \in DOMAIN s /\ f \in FP /\ f # Mark
  <2>1. i + 1 \in DOMAIN s
    OBVIOUS
  <2>2. f # Mark
    BY Zenon DEF Unique
  <2>3. f \in FP \cup {Mark}
    BY DEF ChunkType
  <2> QED BY <2>1, <2>2, <2>3
<1>6. f \notin DOMAIN w.unique
  <2> SUFFICES ASSUME NEW j \in 1..i, Unique(flight, 1, j), s[j].fp = f PROVE FALSE
    BY <1>1, Zenon DEF Uniques
  <2>1. j \in DOMAIN flight[1] /\ flight[1][i + 1].fp = flight[1][j].fp
    BY Zenon DEF Unique
  <2>2. UniqueFirst(flight)
    BY Zenon DEF IInv, InFlight
  <2>3. 1 < 1 \/ (1 = 1 /\ i + 1 <= j)
    BY <1>5, <2>1, <2>2, Zenon DEF UniqueFirst
  <2> QED BY <2>3
<1>7. ~(w.open /\ f \in Last(w.containers))
  <2> SUFFICES ASSUME w.open, f \in Last(w.containers) PROVE FALSE
    OBVIOUS
  <2> DEFINE n == Len(w.containers)
  <2>1. w.containers # <<>>
    BY <1>1, Zenon DEF Larger
  <2>2. n \in DOMAIN w.containers /\ Last(w.containers) = w.containers[n] /\ n \in Nat /\ DOMAIN w.containers = 1..n
    BY <1>2, <2>1 DEF Last
  <2>3. n \in DOMAIN containers /\ f \in containers[n]
    BY <1>1, <1>6, <2>2 DEF Uniques
  <2>4. containers \in Seq(SUBSET FP) /\ Len(containers) \in Nat /\ DOMAIN containers = 1..Len(containers)
    BY DEF IInv, Shape
  <2>5. n = Len(containers)
    <3>1. Len(containers) <= n
      BY <1>1, Zenon DEF Larger
    <3> HIDE DEF n
    <3> QED BY <2>2, <2>3, <2>4, <3>1
  <2>6. open
    BY <1>1, <2>5, Zenon DEF Larger
  <2>7. InStorageBuffer(f)
    BY <2>3, <2>5, <2>6, Zenon DEF InStorageBuffer
  <2>8. ~InStorageBuffer(flight[1][i + 1].fp)
    <3>1. UniqueFresh(flight)
      BY Zenon DEF IInv, InFlight
    <3> QED BY <1>5, <3>1, Zenon DEF UniqueFresh
  <2> QED BY <2>7, <2>8, Zenon
<1>8. \A k \in DOMAIN w.containers : Cardinality(w.containers[k]) <= config.capacity
  BY <1>1, Zenon DEF Larger
<1>9. w.open => w.containers # <<>>
  BY <1>1, Zenon DEF Larger
<1>10. PICK more, id : /\ Written(w, c) = [containers |-> more, open |-> TRUE,
                                           segment |-> Append(w.segment, [c EXCEPT !.id = id]),
                                           unique |-> [x \in DOMAIN w.unique \cup {c.fp} |->
                                                         IF x = c.fp THEN id ELSE w.unique[x]],
                                           aborted |-> w.aborted]
                       /\ Grown(w.containers, more, id, c.fp)
                       /\ Len(more) = Len(w.containers) => w.open
  BY <1>1, <1>5, <1>7, <1>8, <1>9, WrittenIs, Zenon DEF IInv
<1> DEFINE d == [c EXCEPT !.id = id]
           r == Append(w.segment, d)
           u == [x \in DOMAIN w.unique \cup {f} |-> IF x = f THEN id ELSE w.unique[x]]
           boxes == w.containers
<1>11. q = [containers |-> more, open |-> TRUE, segment |-> r, unique |-> u, aborted |-> w.aborted]
  BY <1>10, Zenon
<1>12. /\ more \in Seq(SUBSET FP) /\ Len(boxes) <= Len(more) /\ id \in Nat /\ BoxHolds(more, id, f)
       /\ \A k \in DOMAIN more : Cardinality(more[k]) <= config.capacity
       /\ \A k \in DOMAIN boxes : boxes[k] \subseteq more[k]
       /\ \A k \in DOMAIN more : \A g \in more[k] : (k \in DOMAIN boxes /\ g \in boxes[k]) \/ (k = id + 1 /\ g = f)
  BY <1>10, Zenon DEF Grown
<1>13. d \in ChunkType /\ d.fp = f /\ d.id = id
  BY <1>12 DEF ChunkType, Id
<1>14. r \in Seq(ChunkType)
  BY <1>2, <1>13
<1>15. /\ u \in [D \cup {f} -> Nat] /\ D \cup {f} \in SUBSET FP /\ DOMAIN u = D \cup {f} /\ u[f] = id
       /\ \A x \in D : x # f /\ u[x] = w.unique[x]
  BY <1>3, <1>4, <1>5, <1>6, <1>12
<1>16. w.aborted = FALSE
  BY <1>1 DEF FilterRecord
<1>17. \A x, g : BoxHolds(boxes, x, g) => BoxHolds(more, x, g)
  <2>1. \A k \in DOMAIN boxes : k \in DOMAIN more
    <3>1. Len(boxes) \in Nat /\ Len(more) \in Nat /\ DOMAIN boxes = 1..Len(boxes) /\ DOMAIN more = 1..Len(more)
      BY <1>2, <1>12
    <3> HIDE DEF boxes
    <3> QED BY <1>12, <3>1
  <2> HIDE DEF boxes
  <2> QED BY <1>12, <2>1, Zenon DEF BoxHolds
<1> HIDE DEF u
<1>18. Row(r, more, s, i + 1)
  <2> DEFINE row == w.segment
  <2>1. row \in Seq(ChunkType) /\ Row(row, boxes, s, i) /\ r = Append(row, d) /\ d \in ChunkType
        /\ BoxHolds(more, d.id, d.fp) /\ d.fp = s[i + 1].fp /\ d.fp \in FP /\ d.id \in Nat
    BY <1>1, <1>2, <1>5, <1>12, <1>13
  <2> HIDE DEF row, boxes, r, d
  <2> QED BY <1>17, <2>1, RowGrows, Zenon
<1> HIDE DEF r
<1>19. /\ q \in FilterRecord /\ q.containers = more /\ q.open = TRUE /\ q.segment = r /\ q.unique = u
       /\ q.aborted = FALSE
  <2>1. u \in UNION {[E -> Nat] : E \in SUBSET FP}
    BY <1>15, Zenon
  <2>2. q = [containers |-> more, open |-> TRUE, segment |-> r, unique |-> u, aborted |-> FALSE]
    BY <1>11, <1>16, Zenon
  <2>3. more \in Seq(SUBSET FP)
    BY <1>12
  <2> DEFINE V == UNION {[E -> Nat] : E \in SUBSET FP}
  <2>4. u \in V
    BY <2>1
  <2> HIDE DEF V
  <2>5. q \in [containers : Seq(SUBSET FP), open : BOOLEAN, segment : Seq(ChunkType), unique : V, aborted : BOOLEAN]
    BY <1>14, <2>2, <2>3, <2>4
  <2>6. q \in FilterRecord
    BY <2>5, Zenon DEF FilterRecord, V
  <2> QED BY <2>2, <2>6
<1>20. Larger(more, TRUE)
  <2>1. more # <<>> /\ Len(more) \in Nat /\ DOMAIN more = 1..Len(more)
    BY <1>12 DEF BoxHolds
  <2>2. Len(boxes) \in Nat /\ DOMAIN boxes = 1..Len(boxes)
    BY <1>2
  <2>3. Len(containers) \in Nat /\ Len(containers) <= Len(boxes)
    BY <1>1 DEF Larger, IInv, Shape
  <2> HIDE DEF boxes
  <2>4. Len(containers) <= Len(more)
    BY <1>12, <2>1, <2>2, <2>3
  <2>5. \A k \in DOMAIN containers : k \in DOMAIN boxes /\ containers[k] \subseteq boxes[k]
    BY <1>1, Zenon DEF Larger, boxes
  <2>6. \A k \in DOMAIN boxes : k \in DOMAIN more /\ boxes[k] \subseteq more[k]
    <3>1. \A k \in DOMAIN boxes : boxes[k] \subseteq more[k]
      BY <1>12, Zenon
    <3>2. Len(boxes) <= Len(more)
      BY <1>12
    <3>3. \A k \in DOMAIN boxes : k \in DOMAIN more
      BY <2>1, <2>2, <3>2
    <3> QED BY <3>1, <3>3, Zenon
  <2>7. \A k \in DOMAIN containers : k \in DOMAIN more /\ containers[k] \subseteq more[k]
    BY <2>5, <2>6
  <2>8. Len(more) = Len(containers) => open
    <3> SUFFICES ASSUME Len(more) = Len(containers) PROVE open
      OBVIOUS
    <3> DEFINE m == Len(more)
               b == Len(boxes)
               n == Len(containers)
    <3>2. m \in Nat /\ b \in Nat /\ n \in Nat /\ n <= b /\ b <= m /\ m = n
      BY <1>12, <2>1, <2>2, <2>3
    <3> HIDE DEF m, b, n
    <3>3. m = b /\ b = n
      BY <3>2
    <3>1. Len(more) = Len(boxes) /\ Len(boxes) = Len(containers)
      BY <3>3 DEF m, b, n
    <3> QED BY <1>1, <1>10, <3>1, Zenon DEF Larger, boxes
  <2> QED BY <1>12, <2>1, <2>4, <2>7, <2>8, Zenon DEF Larger
<1>21. Uniques(u, more, s, i + 1)
  <2>1. \A g : g \in DOMAIN u <=> g \in D \/ g = f
    BY <1>15
  <2>2. \A j \in 1..(i + 1) : j \in 1..i \/ j = i + 1
    OBVIOUS
  <2>3. (\A j \in 1..i : j \in 1..(i + 1)) /\ i + 1 \in 1..(i + 1)
    OBVIOUS
  <2>4. \A g : g \in D <=> \E j \in 1..i : Unique(flight, 1, j) /\ s[j].fp = g
    BY <1>1, <1>4, Zenon DEF Uniques
  <2>5. \A g : g \in DOMAIN u <=> \E j \in 1..(i + 1) : Unique(flight, 1, j) /\ s[j].fp = g
    BY <2>1, <2>2, <2>3, <2>4, Zenon
  <2>6. ASSUME NEW g \in DOMAIN u PROVE BoxHolds(more, u[g], g)
    <3>1. CASE g = f
      BY <1>12, <1>15, <3>1
    <3>2. CASE g # f
      <4>1. g \in D /\ u[g] = w.unique[g]
        BY <1>15, <2>1, <3>2
      <4>2. BoxHolds(boxes, w.unique[g], g)
        BY <1>1, <1>4, <4>1, Zenon DEF Uniques
      <4> QED BY <1>17, <4>1, <4>2, Zenon
    <3> QED BY <3>1, <3>2
  <2>7. ASSUME NEW k \in DOMAIN more, NEW g \in more[k]
        PROVE  (k \in DOMAIN containers /\ g \in containers[k]) \/ (g \in DOMAIN u /\ k = u[g] + 1)
    <3>1. CASE k \in DOMAIN boxes /\ g \in boxes[k]
      <4>1. (k \in DOMAIN containers /\ g \in containers[k]) \/ (g \in DOMAIN w.unique /\ k = w.unique[g] + 1)
        BY <1>1, <3>1, Zenon DEF Uniques
      <4>2. CASE g \in DOMAIN w.unique /\ k = w.unique[g] + 1
        <5>1. g \in D /\ u[g] = w.unique[g]
          BY <1>4, <1>15, <4>2
        <5> QED BY <2>1, <4>2, <5>1
      <4> QED BY <4>1, <4>2
    <3>2. CASE k = id + 1 /\ g = f
      BY <1>15, <2>1, <3>2
    <3> QED BY <1>12, <3>1, <3>2, Zenon
  <2> QED BY <2>5, <2>6, <2>7, Zenon DEF Uniques
<1>22. Larger(q.containers, q.open) /\ Row(q.segment, q.containers, s, i + 1)
       /\ Uniques(q.unique, q.containers, s, i + 1)
  BY <1>18, <1>19, <1>20, <1>21
<1> QED BY <1>19, <1>22, Zenon DEF FilterInv

-----------------------------------------------------------------------------
(* The filter phase, step by step.                                         *)

LEMMA FilterStep ==
  ASSUME IInv, NEW s, s = Head(flight), flight # <<>>, NEW i \in Nat, i + 1 <= Len(s),
         NEW w, FilterInv(w, s, i), NEW q, q = FilterChunk(w, Checked(s)[i + 1])
  PROVE  FilterInv(q, s, i + 1)
<1>1. /\ s = flight[1] /\ 1 \in DOMAIN flight /\ s \in Seq(ChunkType)
      /\ Checked(s) \in Seq(ChunkType) /\ Len(Checked(s)) = Len(s)
  BY CheckedIs, Zenon
<1> DEFINE c == Checked(s)[i + 1]
           e == s[i + 1]
<1>2. i + 1 \in DOMAIN s /\ DOMAIN s = 1..Len(s) /\ Len(s) \in Nat /\ i + 1 \in DOMAIN Checked(s)
  BY <1>1
<1>3. /\ c.fp = e.fp /\ (c.dup <=> e.dup)
      /\ c.id # TEMPORARY_ID => e.dup /\ e.fp \in FP /\ Holds(c.id, e.fp)
      /\ e.fp # Mark /\ e.dup /\ c.id = TEMPORARY_ID =>
           \E j \in DOMAIN s : j < i + 1 /\ Unique(flight, 1, j) /\ s[j].fp = e.fp
  BY <1>2, CheckedIs, Zenon
<1>4. c \in ChunkType /\ e \in ChunkType /\ q = FilterChunk(w, c)
  BY <1>1, <1>2
<1>5. Unique(flight, 1, i + 1) <=> e.fp # Mark /\ ~e.dup
  <2>1. flight[1][i + 1] = e /\ i + 1 \in DOMAIN flight[1]
    BY <1>1, <1>2
  <2> QED BY <1>1, <2>1, Zenon DEF Unique
<1>6. w \in FilterRecord /\ ~w.aborted /\ Larger(w.containers, w.open)
      /\ Row(w.segment, w.containers, s, i) /\ Uniques(w.unique, w.containers, s, i)
  BY Zenon DEF FilterInv
<1>7. c.fp \in FP \cup {Mark} /\ c.id \in Id
  BY <1>4 DEF ChunkType
<1>8. e = s[i + 1]
  OBVIOUS
<1> HIDE DEF c, e
<1>9. CASE c.fp = Mark
  <2>1. q = w
    BY <1>4, <1>9, Zenon DEF FilterChunk, IsChunk
  <2>2. s[i + 1].fp = Mark
    BY <1>3, <1>8, <1>9
  <2>3. ASSUME NEW f \in FP PROVE Cardinality(Early(s, f, i + 1)) = Cardinality(Early(s, f, i))
    <3>1. s[i + 1].fp # f
      BY <2>2, Marked
    <3> QED BY <3>1, EarlyIs, Zenon
  <2>4. Cardinality(ChunksAt(Fps(s), i + 1)) = Cardinality(ChunksAt(Fps(s), i))
    <3>1. Cardinality(ChunksAt(Fps(s), i + 1)) =
            Cardinality(ChunksAt(Fps(s), i)) + (IF IsChunk(Fps(s)[i + 1]) THEN 1 ELSE 0)
      BY ChunksAtIs
    <3>2. Fps(s)[i + 1] = Mark
      BY <1>2, <2>2 DEF Fps
    <3>3. ~IsChunk(Fps(s)[i + 1])
      BY <3>2, Zenon DEF IsChunk
    <3>4. Cardinality(ChunksAt(Fps(s), i)) \in Nat
      BY ChunksAtIs, Zenon
    <3> QED BY <3>1, <3>3, <3>4
  <2>5. Row(w.segment, w.containers, s, i + 1)
    BY <1>6, <2>3, <2>4, Zenon DEF Row
  <2>6. ~Unique(flight, 1, i + 1)
    BY <1>3, <1>5, <1>9, Zenon
  <2>7. Uniques(w.unique, w.containers, s, i + 1)
    <3>1. \A j \in 1..(i + 1) : j \in 1..i \/ j = i + 1
      OBVIOUS
    <3>2. \A j \in 1..i : j \in 1..(i + 1)
      OBVIOUS
    <3>3. \A f : (\E j \in 1..i : Unique(flight, 1, j) /\ s[j].fp = f)
                 <=> \E j \in 1..(i + 1) : Unique(flight, 1, j) /\ s[j].fp = f
      BY <2>6, <3>1, <3>2, Zenon
    <3> QED BY <1>6, <3>3, Zenon DEF Uniques
  <2> QED BY <1>6, <2>1, <2>5, <2>7, Zenon DEF FilterInv
<1>10. CASE c.fp # Mark /\ ~c.dup
  <2>1. q = Written(w, c)
    BY <1>4, <1>10, Zenon DEF FilterChunk, IsChunk
  <2>2. Unique(flight, 1, i + 1)
    BY <1>3, <1>5, <1>10, Zenon
  <2>3. c.fp = s[i + 1].fp
    BY <1>3, <1>8
  <2> QED BY <1>1, <1>4, <2>1, <2>2, <2>3, FilterUnique, Zenon
<1>11. CASE c.fp # Mark /\ c.dup /\ c.id # TEMPORARY_ID
  <2>1. q = [w EXCEPT !.segment = Append(@, c)]
    BY <1>4, <1>11, Zenon DEF FilterChunk, IsChunk
  <2>2. c.fp \in FP /\ Holds(c.id, c.fp)
    BY <1>3, <1>11
  <2>3. c.id \in Nat
    BY <1>7, <1>11 DEF Id
  <2>4. BoxHolds(w.containers, c.id, c.fp)
    BY <1>6, <2>2, Zenon DEF Larger, Holds, BoxHolds
  <2>5. ~Unique(flight, 1, i + 1)
    BY <1>3, <1>5, <1>11, Zenon
  <2>6. c.fp = s[i + 1].fp
    BY <1>3, <1>8
  <2> QED BY <1>1, <1>4, <2>1, <2>2, <2>3, <2>4, <2>5, <2>6, FilterCopy, Zenon
<1>12. CASE c.fp # Mark /\ c.dup /\ c.id = TEMPORARY_ID
  <2>1. c.fp \in FP
    BY <1>7, <1>12
  <2>2. PICK j \in DOMAIN s : j < i + 1 /\ Unique(flight, 1, j) /\ s[j].fp = e.fp
    BY <1>3, <1>12, Zenon
  <2>3. j \in 1..i
    BY <1>2, <2>2
  <2>4. c.fp \in DOMAIN w.unique
    BY <1>3, <1>6, <2>2, <2>3, Zenon DEF Uniques
  <2> DEFINE id == w.unique[c.fp]
             d == [c EXCEPT !.id = id]
  <2>5. q = [w EXCEPT !.segment = Append(@, d)]
    BY <1>4, <1>12, <2>4, Zenon DEF FilterChunk, IsChunk
  <2>6. BoxHolds(w.containers, id, c.fp)
    BY <1>6, <2>4, Zenon DEF Uniques
  <2>7. id \in Nat
    <3>1. w.unique \in UNION {[D -> Nat] : D \in SUBSET FP}
      BY <1>6 DEF FilterRecord
    <3>2. PICK D \in SUBSET FP : w.unique \in [D -> Nat]
      BY <3>1
    <3> QED BY <2>4, <3>2
  <2> HIDE DEF id
  <2>8. d \in ChunkType /\ d.fp = c.fp /\ d.id = id
    BY <1>4, <2>7 DEF ChunkType, Id
  <2>9. ~Unique(flight, 1, i + 1)
    BY <1>3, <1>5, <1>12, Zenon
  <2>10. d.fp = s[i + 1].fp /\ d.fp \in FP /\ d.id \in Nat /\ BoxHolds(w.containers, d.id, d.fp)
    BY <1>3, <1>8, <2>1, <2>6, <2>7, <2>8
  <2> HIDE DEF d
  <2> QED BY <1>1, <2>5, <2>8, <2>9, <2>10, FilterCopy, Zenon
<1> QED BY <1>9, <1>10, <1>11, <1>12, Zenon

\* Before the first chunk.
FilterStart ==
  [containers |-> containers, open |-> open, segment |-> <<>>, unique |-> [x \in {} |-> 0], aborted |-> FALSE]

LEMMA FilterStartIs ==
  ASSUME IInv, NEW s
  PROVE  FilterInv(FilterStart, s, 0)
<1> DEFINE u == [x \in {} |-> 0]
           st == [containers |-> containers, open |-> open, segment |-> <<>>, unique |-> u, aborted |-> FALSE]
<1>1. /\ containers \in Seq(SUBSET FP) /\ open \in BOOLEAN /\ (open => containers # <<>>)
      /\ \A id \in DOMAIN containers : Cardinality(containers[id]) <= config.capacity
  BY DEF IInv, Shape
<1>2. u \in UNION {[D -> Nat] : D \in SUBSET FP} /\ DOMAIN u = {}
  <2>1. u \in [{} -> Nat] /\ {} \in SUBSET FP
    OBVIOUS
  <2> HIDE DEF u
  <2>2. u \in UNION {[D -> Nat] : D \in SUBSET FP}
    BY <2>1, Zenon
  <2> QED BY <2>1, <2>2
<1> HIDE DEF u
<1>3. FilterStart = st
  BY Zenon DEF FilterStart, u
<1>4. st \in FilterRecord /\ ~st.aborted
  <2> DEFINE V == UNION {[D -> Nat] : D \in SUBSET FP}
  <2>1. u \in V
    BY <1>2
  <2> HIDE DEF V
  <2>2. st \in [containers : Seq(SUBSET FP), open : BOOLEAN, segment : Seq(ChunkType), unique : V, aborted : BOOLEAN]
    BY <1>1, <2>1
  <2> QED BY <2>2, Zenon DEF FilterRecord, V
<1>5. Larger(containers, open)
  <2>1. Len(containers) <= Len(containers)
    BY <1>1
  <2> QED BY <1>1, <2>1, Zenon DEF Larger
<1>6. Row(<<>>, containers, s, 0)
  <2>1. \A f \in FP : Cardinality(Here(<<>>, f)) = Cardinality(Early(s, f, 0))
    <3> SUFFICES ASSUME NEW f \in FP PROVE Cardinality(Here(<<>>, f)) = Cardinality(Early(s, f, 0))
      OBVIOUS
    <3>1. Cardinality(Here(<<>>, f)) = 0
      BY HereEmpty, Zenon
    <3>2. 0 \in Nat
      OBVIOUS
    <3>3. Cardinality(Early(s, f, 0)) = 0
      BY <3>2, EarlyIs, Zenon
    <3> QED BY <3>1, <3>3
  <2>2. Cardinality(ChunksAt(Fps(s), 0)) = 0
    BY ChunksAtIs
  <2>3. Len(<<>>) = 0 /\ DOMAIN <<>> = {}
    OBVIOUS
  <2> QED BY <2>1, <2>2, <2>3, Zenon DEF Row
<1>7. Uniques(u, containers, s, 0)
  <2>1. 1..0 = {}
    OBVIOUS
  <2> QED BY <1>2, <2>1, Zenon DEF Uniques
<1>8. st.containers = containers /\ st.open = open /\ st.segment = <<>> /\ st.unique = u
  OBVIOUS
<1> HIDE DEF st
<1> QED BY <1>3, <1>4, <1>5, <1>6, <1>7, <1>8, Zenon DEF FilterInv

LEMMA FilterAll ==
  ASSUME IInv, NEW s, s = Head(flight), flight # <<>>,
         NEW q, q = FoldLeft(FilterChunk, FilterStart, Checked(s))
  PROVE  FilterInv(q, s, Len(s))
<1>1. s \in Seq(ChunkType) /\ Checked(s) \in Seq(ChunkType) /\ Len(Checked(s)) = Len(s)
  BY CheckedIs, Zenon
<1> DEFINE n == Len(s)
<1>2. PICK g : Values("filter", g, FilterStart, Checked(s)) /\ q = g[n]
  <2>1. PICK g : Values("filter", g, FilterStart, Checked(s)) /\ q = g[Len(Checked(s))]
    BY <1>1, FilterFold, Zenon
  <2> QED BY <1>1, <2>1
<1> DEFINE T == {i \in Nat : i <= n => FilterInv(g[i], s, i)}
<1>3. n \in Nat
  BY <1>1
<1>4. 0 \in T
  BY <1>2, FilterStartIs, Zenon DEF Values
<1>5. ASSUME NEW i \in Nat, i \in T PROVE i + 1 \in T
  <2>1. ASSUME i + 1 <= n PROVE FilterInv(g[i + 1], s, i + 1)
    <3>1. i + 1 \in 1..n /\ (i + 1) - 1 = i /\ i <= n
      BY <1>3, <2>1
    <3>2. FilterInv(g[i], s, i)
      BY <1>5, <3>1
    <3>3. g[i + 1] = FilterChunk(g[i], Checked(s)[i + 1])
      <4>1. g[i + 1] = Step("filter", g[i], Checked(s)[i + 1])
        BY <1>1, <1>2, <3>1 DEF Values
      <4> QED BY <4>1 DEF Step
    <3> QED BY <2>1, <3>2, <3>3, FilterStep, Zenon
  <2> QED BY <2>1
<1> HIDE DEF T
<1>6. \A i \in Nat : i \in T
  BY <1>4, <1>5, Inductive
<1>7. n <= n
  BY <1>3
<1> QED BY <1>2, <1>3, <1>6, <1>7 DEF T

\* The pointers of a row.
PointersOf(row) == [i \in DOMAIN row |-> [fp |-> row[i].fp, id |-> row[i].id]]
ChunkCount(s) == Cardinality({i \in DOMAIN s : IsChunk(s[i].fp)})

\* What the filter phase does: w is what the segment s became, sid its id.
Filtered(s, w, sid, features) ==
  /\ s = Head(flight) /\ flight # <<>> /\ FilterInv(w, s, Len(s))
  /\ sid = append_segment_flag(ChunkCount(s)) /\ features = Features(s, DOMAIN w.unique)
  /\ flight' = Tail(flight) /\ containers' = w.containers /\ open' = w.open
  /\ aborted' = w.aborted /\ ~aborted'
  /\ buffered' = [f \in FP |-> UpdateBuffer(w.segment, f)]
  /\ recipes' = [recipes EXCEPT ![Len(recipes)] = Append(@, PointersOf(w.segment))]
  /\ kv' = [x \in DOMAIN kv |-> IF x \in features THEN kv_update(kv[x], sid) ELSE kv[x]]
  /\ UNCHANGED <<config, read, cache, champions>>

LEMMA FilterIs ==
  ASSUME IInv, FilterSegment
  PROVE  \E s, w, sid, features : Filtered(s, w, sid, features)
<1> DEFINE s == Head(flight)
           w == FoldLeft(FilterChunk, FilterStart, Checked(s))
           sid == append_segment_flag(ChunkCount(s))
           features == Features(s, DOMAIN w.unique)
<1>1. flight # <<>>
  BY Zenon DEF FilterSegment
<1>2. FilterInv(w, s, Len(s))
  <2>1. s = Head(flight) /\ w = FoldLeft(FilterChunk, FilterStart, Checked(s))
    OBVIOUS
  <2> HIDE DEF s, w
  <2> QED BY <1>1, <2>1, FilterAll, Zenon
<1>3. ~w.aborted
  BY <1>2, Zenon DEF FilterInv
<1>4. /\ flight' = Tail(flight) /\ containers' = w.containers /\ open' = w.open
      /\ aborted' = w.aborted
      /\ buffered' = [f \in FP |-> UpdateBuffer(w.segment, f)]
      /\ recipes' = [recipes EXCEPT ![Len(recipes)] = Append(@, PointersOf(w.segment))]
      /\ kv' = [x \in DOMAIN kv |-> IF x \in features THEN kv_update(kv[x], sid) ELSE kv[x]]
      /\ UNCHANGED <<config, read, cache, champions>>
  BY Zenon DEF FilterSegment, FilterStart, Checked, PointersOf, ChunkCount
<1>5. Filtered(s, w, sid, features)
  BY <1>1, <1>2, <1>3, <1>4, Zenon DEF Filtered
<1> QED BY <1>5, Zenon
-----------------------------------------------------------------------------
(* What a filtered segment leaves.                                         *)

\* The ids left in the index buffer for f, known, after the segment row.
Updated(known, row, boxes, f, left) ==
  /\ left \in Seq(Id) /\ Len(left) = Len(known) - Cardinality(Here(row, f))
  /\ Here(row, f) = {} => left = known
  /\ Here(row, f) # {} => \A i \in DOMAIN left : left[i] \in Nat /\ BoxHolds(boxes, left[i], f)

LEMMA UpdateIs ==
  ASSUME NEW row \in Seq(ChunkType), NEW boxes, NEW f \in FP, buffered[f] \in Seq(Id),
         \A j \in DOMAIN row : row[j].id \in Nat /\ BoxHolds(boxes, row[j].id, row[j].fp),
         Cardinality(Here(row, f)) <= Len(buffered[f])
  PROVE  Updated(buffered[f], row, boxes, f, UpdateBuffer(row, f))
<1> DEFINE here == Here(row, f)
           n == Cardinality(here)
           known == buffered[f]
           rest == SubSeq(known, n + 1, Len(known))
           first == CHOOSE j \in here : \A k \in here : k <= j
           id == row[first].id
           left == [i \in DOMAIN rest |-> id]
<1>1. IsFiniteSet(here) /\ n \in Nat /\ here \in SUBSET Nat /\ here \in SUBSET (DOMAIN row)
  <2>1. DOMAIN row \in SUBSET Nat
    OBVIOUS
  <2>2. here \in SUBSET (DOMAIN row)
    BY DEF Here
  <2> QED BY <2>1, <2>2, HereType
<1>2. UpdateBuffer(row, f) = IF here = {} THEN known ELSE left
  BY Zenon DEF UpdateBuffer, Here
<1>3. CASE here = {}
  <2>1. n = 0
    BY <1>3, FS_EmptySet
  <2>2. UpdateBuffer(row, f) = known
    BY <1>2, <1>3
  <2> HIDE DEF n, known
  <2>3. Len(known) = Len(known) - n
    <3>1. Len(known) \in Nat
      BY DEF known
    <3> QED BY <2>1, <3>1
  <2>4. known \in Seq(Id)
    BY DEF known
  <2> QED BY <1>3, <2>2, <2>3, <2>4 DEF Updated, n, known
<1>4. CASE here # {}
  <2>1. UpdateBuffer(row, f) = left
    BY <1>2, <1>4
  <2>2. \E j \in here : \A k \in here : k <= j
    <3>1. Len(row) \in Nat /\ here \in SUBSET (1..Len(row))
      BY <1>1
    <3>2. Max(here) \in here
      BY <1>4, <3>1, LastIs, Zenon
    <3> QED BY <1>1, <1>4, <3>1, GreatestNumber
  <2>3. first \in here
    BY <2>2
  <2> HIDE DEF first
  <2>4. first \in DOMAIN row /\ row[first].fp = f
    BY <2>3 DEF Here
  <2>5. id \in Nat /\ BoxHolds(boxes, id, f)
    BY <2>4
  <2>6. known \in Seq(Id) /\ Len(known) \in Nat /\ n <= Len(known)
    OBVIOUS
  <2> HIDE DEF id, known, n, here
  <2>7. rest \in Seq(Id) /\ Len(rest) = Len(known) - n /\ Len(rest) \in Nat /\ DOMAIN rest = 1..Len(rest)
    BY <1>1, <2>6
  <2> HIDE DEF rest
  <2>8. left \in Seq(Id) /\ Len(left) = Len(rest) /\ \A i \in DOMAIN left : left[i] = id
    <3>1. left \in [1..Len(rest) -> Id]
      BY <2>5, <2>7 DEF Id
    <3>2. left \in Seq(Id) /\ Len(left) = Len(rest)
      BY <2>7, <3>1
    <3> QED BY <3>2
  <2> HIDE DEF left
  <2> QED BY <1>4, <2>1, <2>5, <2>7, <2>8 DEF Updated, n, known, here
<1> QED BY <1>3, <1>4

\* The recipes with another segment in the last of them.
Recorded(more, pointers) ==
  /\ more \in Seq(Seq(Seq(Pointer))) /\ Len(more) = Len(recipes) /\ Len(recipes) \in DOMAIN recipes
  /\ Len(recipes) \in Nat /\ DOMAIN recipes = 1..Len(recipes)
  /\ recipes[Len(recipes)] \in Seq(Seq(Pointer)) /\ pointers \in Seq(Pointer)
  /\ more[Len(recipes)] = Append(recipes[Len(recipes)], pointers)
  /\ \A b \in DOMAIN recipes : b # Len(recipes) => more[b] = recipes[b]

LEMMA RecordedIs ==
  ASSUME Shape, NEW pointers \in Seq(Pointer),
         NEW more, more = [recipes EXCEPT ![Len(recipes)] = Append(@, pointers)]
  PROVE  Recorded(more, pointers)
<1> DEFINE n == Len(recipes)
           x == Append(recipes[n], pointers)
<1>1. recipes \in Seq(Seq(Seq(Pointer))) /\ n \in Nat /\ n \in DOMAIN recipes /\ DOMAIN recipes = 1..n
  BY DEF Shape
<1>2. recipes[n] \in Seq(Seq(Pointer)) /\ x \in Seq(Seq(Pointer))
  BY <1>1
<1>3. more = [recipes EXCEPT ![n] = x]
  OBVIOUS
<1>4. recipes \in [1..n -> Seq(Seq(Pointer))]
  BY <1>1
<1> HIDE DEF x, n
<1>5. more \in [1..n -> Seq(Seq(Pointer))] /\ more[n] = x /\ \A b \in 1..n : b # n => more[b] = recipes[b]
  BY <1>1, <1>2, <1>3, <1>4
<1>6. more \in Seq(Seq(Seq(Pointer))) /\ Len(more) = n
  BY <1>1, <1>5
<1> QED BY <1>1, <1>2, <1>5, <1>6, Zenon DEF Recorded, x, n

\* Where a segment begins, and ids.
LEMMA FlagIs ==
  ASSUME Shape, NEW n \in Nat
  PROVE  /\ append_segment_flag(n) =
              make_segment_id(Backup, PointerSize * PastOf(recipes[Len(recipes)]), n)
         /\ PastOf(recipes[Len(recipes)]) \in Nat /\ Backup \in Nat /\ Backup + 1 = Len(recipes)
         /\ append_segment_flag(n) \in Nat
<1>1. /\ recipes \in Seq(Seq(Seq(Pointer))) /\ Len(recipes) \in Nat /\ Len(recipes) # 0
      /\ Len(recipes) \in DOMAIN recipes /\ Last(recipes) = recipes[Len(recipes)]
  BY DEF Shape, Last
<1> DEFINE r == recipes[Len(recipes)]
<1>2. r \in Seq(Seq(Pointer))
  BY <1>1
<1>3. Backup \in Nat /\ Backup + 1 = Len(recipes)
  BY <1>1 DEF Backup
<1>4. PastIn(r, Len(r) + 1) = PastOf(r)
  BY <1>2, PastInIs
<1>5. PastOf(r) \in Nat
  BY <1>2, PastType
<1>6. Offset(Backup, Len(r) + 1) = PointerSize * PastOf(r)
  <2>1. Offset(Backup, Len(r) + 1) = PointerSize * PastIn(recipes[Backup + 1], Len(r) + 1)
    BY OffsetIs, Zenon
  <2>2. recipes[Backup + 1] = r
    BY <1>3
  <2> QED BY <1>4, <2>1, <2>2
<1> HIDE DEF r
<1>7. append_segment_flag(n) = make_segment_id(Backup, PointerSize * PastOf(r), n)
  BY <1>1, <1>6, Zenon DEF append_segment_flag, r
<1>8. make_segment_id(Backup, PointerSize * PastOf(r), n) \in Nat
  <2> DEFINE o == PointerSize * PastOf(r)
  <2>1. o \in Nat /\ OffRange \in Nat /\ SizeRange \in Nat
    BY <1>5, LogicalAssumption DEF PointerSize
  <2> HIDE DEF o
  <2>2. Backup * OffRange \in Nat
    BY <1>3, <2>1
  <2>3. Backup * OffRange + o \in Nat
    BY <2>1, <2>2
  <2>4. (Backup * OffRange + o) * SizeRange \in Nat
    BY <2>1, <2>3
  <2>5. (Backup * OffRange + o) * SizeRange + n \in Nat
    BY <2>4
  <2> QED BY <2>5 DEF make_segment_id, o
<1> QED BY <1>3, <1>5, <1>7, <1>8 DEF r

\* kv_update puts an id before some of those a list has: more is id and the first n.
IdBefore(ids, id, v, more, n) ==
  /\ n + 1 <= v /\ more \in Seq(Nat) /\ DOMAIN more = 1..(1 + n) /\ Len(more) = 1 + n /\ more[1] = id
  /\ \A i \in 1..n : i \in DOMAIN ids /\ more[i + 1] = ids[i]

LEMMA UpdatedIs ==
  ASSUME NEW v \in Nat \ {0}, v = config.values, NEW ids \in Seq(Nat), Len(ids) <= v, NEW id \in Nat
  PROVE  \E n \in Nat : IdBefore(ids, id, v, kv_update(ids, id), n)
<1> DEFINE n == IF Len(ids) < v THEN Len(ids) ELSE v - 1
           rest == SubSeq(ids, 1, n)
<1>1. n \in Nat /\ n <= Len(ids) /\ n + 1 <= v /\ Len(ids) \in Nat
  OBVIOUS
<1>2. kv_update(ids, id) = <<id>> \o rest
  BY Zenon DEF kv_update
<1> HIDE DEF n
<1>3. rest \in Seq(Nat) /\ Len(rest) = n /\ \A i \in 1..n : rest[i] = ids[i] /\ i \in DOMAIN ids
  BY <1>1
<1> HIDE DEF rest
<1> DEFINE q == <<id>> \o rest
<1>4. /\ q \in Seq(Nat) /\ Len(q) = 1 + n /\ DOMAIN q = 1..(1 + n) /\ q[1] = id
      /\ \A i \in 1..n : q[i + 1] = rest[i]
  <2>1. <<id>> \in Seq(Nat) /\ Len(<<id>>) = 1 /\ <<id>>[1] = id
    OBVIOUS
  <2> DEFINE one == <<id>>
  <2>2. one \in Seq(Nat) /\ Len(one) = 1 /\ one[1] = id
    BY <2>1
  <2> HIDE DEF one
  <2>3. /\ one \o rest \in Seq(Nat) /\ Len(one \o rest) = 1 + n
        /\ (one \o rest)[1] = id
        /\ \A i \in 1..n : (one \o rest)[i + 1] = rest[i]
    <3>1. one \in Seq(Nat) /\ rest \in Seq(Nat)
      BY <1>3, <2>2
    <3>2. /\ Len(one \o rest) = Len(one) + Len(rest)
          /\ \A i \in 1..(Len(one) + Len(rest)) :
               (one \o rest)[i] = IF i <= Len(one) THEN one[i] ELSE rest[i - Len(one)]
      BY <3>1, ConcatProperties, Zenon
    <3>3. \A i \in 1..(1 + n) : (one \o rest)[i] = IF i <= 1 THEN one[i] ELSE rest[i - 1]
      BY <1>3, <2>2, <3>2
    <3>4. \A i \in 1..n : i + 1 \in 1..(1 + n) /\ ~(i + 1 <= 1) /\ (i + 1) - 1 = i
      BY <1>1
    <3>5. 1 \in 1..(1 + n) /\ 1 <= 1
      BY <1>1
    <3>6. \A i \in 1..n : (one \o rest)[i + 1] = rest[i]
      BY <3>3, <3>4
    <3>7. (one \o rest)[1] = id
      BY <2>2, <3>3, <3>5
    <3>8. Len(one \o rest) = 1 + n
      BY <1>3, <2>2, <3>2
    <3>9. one \o rest \in Seq(Nat)
      BY <3>1
    <3> QED BY <3>6, <3>7, <3>8, <3>9
  <2> QED BY <1>1, <2>3 DEF one
<1>5. \A i \in 1..n : i \in DOMAIN ids /\ q[i + 1] = ids[i]
  BY <1>3, <1>4
<1> HIDE DEF q
<1>6. IdBefore(ids, id, v, q, n)
  BY <1>1, <1>4, <1>5 DEF IdBefore
<1> QED BY <1>1, <1>2, <1>6, Zenon DEF q

\* It keeps a list of ids one, as long as it may be.
LEMMA UpdatedIds ==
  ASSUME NEW v \in Nat \ {0}, v = config.values, NEW ids \in Seq(Nat), Len(ids) <= v, NEW id \in Nat
  PROVE  /\ kv_update(ids, id) \in Seq(Nat) /\ Len(kv_update(ids, id)) <= v
         /\ Range(kv_update(ids, id)) \subseteq Range(ids) \cup {id} /\ kv_update(ids, id) # <<>>
<1> DEFINE q == kv_update(ids, id)
<1>0. PICK n \in Nat : IdBefore(ids, id, v, q, n)
  BY UpdatedIs, Zenon
<1>1. /\ n + 1 <= v /\ q \in Seq(Nat) /\ DOMAIN q = 1..(1 + n) /\ Len(q) = 1 + n /\ q[1] = id
      /\ \A i \in 1..n : i \in DOMAIN ids /\ q[i + 1] = ids[i]
  BY <1>0, Zenon DEF IdBefore
<1> HIDE DEF q
<1>2. ASSUME NEW x \in Range(q) PROVE x \in Range(ids) \cup {id}
  <2>1. PICK i \in 1..(1 + n) : x = q[i]
    BY <1>1 DEF Range
  <2>2. CASE i = 1
    BY <1>1, <2>1, <2>2
  <2>3. CASE i # 1
    <3>1. i - 1 \in 1..n /\ (i - 1) + 1 = i
      BY <1>1, <2>1, <2>3
    <3>2. q[i] = ids[i - 1] /\ i - 1 \in DOMAIN ids
      BY <1>1, <3>1
    <3> QED BY <2>1, <3>2 DEF Range
  <2> QED BY <2>2, <2>3
<1>3. q # <<>> /\ Len(q) <= v
  BY <1>1
<1> QED BY <1>1, <1>2, <1>3 DEF q

\* A list without an id twice gets one that it does not have.
LEMMA UpdatedDiffer ==
  ASSUME NEW v \in Nat \ {0}, v = config.values, NEW ids \in Seq(Nat), Len(ids) <= v, NEW id \in Nat
  PROVE  id \notin Range(ids) /\ (\A i, j \in DOMAIN ids : i # j => ids[i] # ids[j]) =>
           \A i, j \in DOMAIN kv_update(ids, id) : i # j => kv_update(ids, id)[i] # kv_update(ids, id)[j]
<1> DEFINE q == kv_update(ids, id)
<1>0. PICK n \in Nat : IdBefore(ids, id, v, q, n)
  BY UpdatedIs, Zenon
<1>1. /\ n + 1 <= v /\ q \in Seq(Nat) /\ DOMAIN q = 1..(1 + n) /\ Len(q) = 1 + n /\ q[1] = id
      /\ \A i \in 1..n : i \in DOMAIN ids /\ q[i + 1] = ids[i]
  BY <1>0, Zenon DEF IdBefore
<1> HIDE DEF q
<1> SUFFICES ASSUME id \notin Range(ids), \A i, j \in DOMAIN ids : i # j => ids[i] # ids[j]
             PROVE  \A i, j \in DOMAIN q : i # j => q[i] # q[j]
  BY Zenon DEF q
<1>2. ASSUME NEW i \in 1..(1 + n), i # 1
      PROVE  i - 1 \in DOMAIN ids /\ q[i] = ids[i - 1] /\ q[i] # id
  <2>1. i - 1 \in 1..n /\ (i - 1) + 1 = i
    BY <1>2
  <2>2. i - 1 \in DOMAIN ids /\ q[i] = ids[i - 1]
    BY <1>1, <2>1
  <2>3. ids[i - 1] \in Range(ids)
    BY <2>2 DEF Range
  <2> QED BY <2>2, <2>3
<1>3. ASSUME NEW i \in 1..(1 + n), NEW j \in 1..(1 + n), i # j PROVE q[i] # q[j]
  <2>1. CASE i # 1 /\ j # 1
    <3>1. i - 1 # j - 1
      BY <1>3
    <3> QED BY <1>2, <2>1, <3>1, Zenon
  <2>2. CASE i = 1 \/ j = 1
    BY <1>1, <1>2, <1>3, <2>2, Zenon
  <2> QED BY <2>1, <2>2
<1> QED BY <1>1, <1>3, Zenon
-----------------------------------------------------------------------------
(* The filter phase keeps the invariant.                                   *)

\* The containers are at least what they were.
LEMMA FilteredHolds ==
  ASSUME NEW s, NEW w, NEW sid, NEW features, Filtered(s, w, sid, features)
  PROVE  /\ \A id, f : Holds(id, f) => BoxHolds(w.containers, id, f)
         /\ containers' = w.containers
<1>1. Larger(w.containers, w.open) /\ containers' = w.containers
  BY Zenon DEF Filtered, FilterInv
<1> DEFINE boxes == w.containers
<1>2. Larger(boxes, w.open) /\ containers' = boxes
  BY <1>1
<1> HIDE DEF boxes
<1>4. \A id, f : Holds(id, f) => BoxHolds(boxes, id, f)
  BY <1>2, Zenon DEF Larger, Holds, BoxHolds
<1> QED BY <1>1, <1>4, Zenon DEF boxes

\* What the index buffer keeps.
LEMMA FilteredBuffer ==
  ASSUME IInv, NEW s, NEW w, NEW sid, NEW features, Filtered(s, w, sid, features)
  PROVE  /\ s \in Seq(ChunkType) /\ s = flight[1] /\ 1 \in DOMAIN flight
         /\ w.segment \in Seq(ChunkType)
         /\ \A f \in FP : /\ Cardinality(Here(w.segment, f)) = Cardinality(Here(s, f))
                          /\ Cardinality(Here(s, f)) <= Len(buffered[f])
                          /\ Updated(buffered[f], w.segment, w.containers, f, buffered'[f])
         /\ buffered' \in [FP -> Seq(Id)]
<1>1. s \in Seq(ChunkType) /\ s = flight[1] /\ 1 \in DOMAIN flight
  BY CheckedIs, Zenon DEF Filtered
<1>2. w \in FilterRecord /\ Row(w.segment, w.containers, s, Len(s))
  BY Zenon DEF Filtered, FilterInv
<1>3. w.segment \in Seq(ChunkType)
  BY <1>2 DEF FilterRecord
<1>4. flight \in Seq(Seq(ChunkType)) /\ Counted(flight, buffered) /\ buffered \in [FP -> Seq(Id)]
  BY Zenon DEF IInv, InFlight
<1>5. buffered' = [f \in FP |-> UpdateBuffer(w.segment, f)]
  BY Zenon DEF Filtered
<1> DEFINE row == w.segment
           boxes == w.containers
<1>6. row \in Seq(ChunkType) /\ Row(row, boxes, s, Len(s)) /\ buffered' = [f \in FP |-> UpdateBuffer(row, f)]
  BY <1>2, <1>3, <1>5
<1> HIDE DEF row, boxes
<1>7. ASSUME NEW f \in FP
      PROVE  /\ Cardinality(Here(row, f)) = Cardinality(Here(s, f))
             /\ Cardinality(Here(s, f)) <= Len(buffered[f])
             /\ Updated(buffered[f], row, boxes, f, buffered'[f])
             /\ buffered'[f] \in Seq(Id)
  <2>1. Cardinality(Here(row, f)) = Cardinality(Early(s, f, Len(s)))
    BY <1>6, Zenon DEF Row
  <2>2. Early(s, f, Len(s)) = Here(s, f)
    BY <1>1 DEF Early, Here
  <2>3. Cardinality(Here(row, f)) = Cardinality(Here(s, f))
    BY <2>1, <2>2
  <2>4. Sum(Times(flight, f), Len(flight), Len(buffered[f]))
    BY <1>4, Zenon DEF Counted
  <2>5. Times(flight, f) \in [1..Len(flight) -> Nat]
    BY <1>4, TimesType, Zenon
  <2>6. buffered[f] \in Seq(Id) /\ Len(buffered[f]) \in Nat /\ Len(flight) \in Nat /\ 1 \in 1..Len(flight)
    BY <1>1, <1>4
  <2>7. Times(flight, f)[1] <= Len(buffered[f])
    BY <2>4, <2>5, <2>6, SumBounds, Zenon
  <2>8. Times(flight, f)[1] = Cardinality(Here(s, f))
    BY <1>1, <2>6 DEF Times
  <2>9. Cardinality(Here(row, f)) <= Len(buffered[f])
    BY <2>3, <2>7, <2>8
  <2>10. \A j \in DOMAIN row : row[j].id \in Nat /\ BoxHolds(boxes, row[j].id, row[j].fp)
    BY <1>6, Zenon DEF Row
  <2>11. Updated(buffered[f], row, boxes, f, UpdateBuffer(row, f))
    BY <1>6, <2>6, <2>9, <2>10, UpdateIs, Zenon
  <2>12. buffered'[f] = UpdateBuffer(row, f)
    BY <1>6
  <2>13. Updated(buffered[f], row, boxes, f, buffered'[f])
    BY <2>11, <2>12
  <2>14. buffered'[f] \in Seq(Id)
    BY <2>13, Zenon DEF Updated
  <2> QED BY <2>3, <2>7, <2>8, <2>13, <2>14
<1>8. buffered' \in [FP -> Seq(Id)]
  <2>1. \A f \in FP : UpdateBuffer(row, f) \in Seq(Id)
    BY <1>6, <1>7
  <2> QED BY <1>6, <2>1
<1> QED BY <1>1, <1>3, <1>7, <1>8, Zenon DEF row, boxes

\* The segments still in flight.
LEMMA FilteredFlight ==
  ASSUME IInv, NEW s, NEW w, NEW sid, NEW features, Filtered(s, w, sid, features)
  PROVE  InFlight(flight, buffered)'
<1>1. /\ flight \in Seq(Seq(ChunkType)) /\ buffered \in [FP -> Seq(Id)]
      /\ IdsHold(flight, buffered) /\ UniqueFirst(flight) /\ UniqueFresh(flight)
      /\ Counted(flight, buffered) /\ Promised(flight, buffered)
  BY DEF IInv, InFlight
<1>2. /\ s \in Seq(ChunkType) /\ s = flight[1] /\ 1 \in DOMAIN flight
      /\ w.segment \in Seq(ChunkType)
      /\ \A f \in FP : /\ Cardinality(Here(w.segment, f)) = Cardinality(Here(s, f))
                       /\ Cardinality(Here(s, f)) <= Len(buffered[f])
                       /\ Updated(buffered[f], w.segment, w.containers, f, buffered'[f])
      /\ buffered' \in [FP -> Seq(Id)]
  BY FilteredBuffer, Zenon
<1>3. /\ \A id, f : Holds(id, f) => BoxHolds(w.containers, id, f)
      /\ containers' = w.containers
  BY FilteredHolds, Zenon
<1> DEFINE n == Len(flight)
           rows == Tail(flight)
<1>4. /\ n \in Nat /\ n # 0 /\ DOMAIN flight = 1..n /\ rows \in Seq(Seq(ChunkType)) /\ Len(rows) = n - 1
      /\ Len(rows) \in Nat
      /\ DOMAIN rows = 1..(n - 1) /\ \A k \in 1..(n - 1) : rows[k] = flight[k + 1] /\ k + 1 \in 1..n
  BY <1>1, <1>2
<1>5. flight' = rows
  BY Zenon DEF Filtered
<1> HIDE DEF rows, n
<1>6. \A k \in DOMAIN rows : k \in Nat /\ k + 1 \in DOMAIN flight /\ rows[k] = flight[k + 1]
  BY <1>4
<1>7. IdsHold(flight, buffered)'
  <2>1. ASSUME NEW k \in DOMAIN rows, NEW i \in DOMAIN rows[k]
        PROVE  /\ rows[k][i].fp = Mark => ~rows[k][i].dup
               /\ rows[k][i].id # TEMPORARY_ID =>
                    rows[k][i].fp \in FP /\ rows[k][i].dup /\ BoxHolds(w.containers, rows[k][i].id, rows[k][i].fp)
    <3>1. k + 1 \in DOMAIN flight /\ i \in DOMAIN flight[k + 1] /\ rows[k] = flight[k + 1]
      BY <1>6
    <3>2. /\ flight[k + 1][i].fp = Mark => ~flight[k + 1][i].dup
          /\ flight[k + 1][i].id # TEMPORARY_ID =>
               /\ flight[k + 1][i].fp \in FP /\ flight[k + 1][i].dup
               /\ Holds(flight[k + 1][i].id, flight[k + 1][i].fp)
      BY <1>1, <3>1, Zenon DEF IdsHold
    <3> DEFINE c == flight[k + 1][i]
    <3>3. rows[k][i] = c
      BY <3>1
    <3>4. (c.fp = Mark => ~c.dup) /\ (c.id # TEMPORARY_ID => c.fp \in FP /\ c.dup /\ BoxHolds(w.containers, c.id, c.fp))
      BY <1>3, <3>2, Zenon
    <3> HIDE DEF c
    <3> QED BY <3>3, <3>4
  <2>2. ASSUME NEW f \in FP, NEW i \in DOMAIN buffered'[f], buffered'[f][i] # TEMPORARY_ID
        PROVE  BoxHolds(w.containers, buffered'[f][i], f)
    <3>1. Updated(buffered[f], w.segment, w.containers, f, buffered'[f])
      BY <1>2
    <3>2. CASE Here(w.segment, f) = {}
      <4>1. buffered'[f] = buffered[f]
        BY <3>1, <3>2, Zenon DEF Updated
      <4>2. Holds(buffered[f][i], f)
        BY <1>1, <2>2, <4>1, Zenon DEF IdsHold
      <4> QED BY <1>3, <4>1, <4>2
    <3>3. CASE Here(w.segment, f) # {}
      <4>1. BoxHolds(w.containers, buffered'[f][i], f)
        BY <3>1, <3>3, Zenon DEF Updated
      <4> QED BY <1>3, <4>1, Zenon
    <3> QED BY <3>2, <3>3
  <2> QED BY <1>3, <1>5, <2>1, <2>2, Zenon DEF IdsHold, Holds, BoxHolds
<1>8. ASSUME NEW k, NEW i, Unique(rows, k, i)
      PROVE  Unique(flight, k + 1, i) /\ rows[k][i].fp = flight[k + 1][i].fp /\ k \in DOMAIN rows
  BY <1>6, <1>8, Zenon DEF Unique
<1>9. UniqueFirst(rows)
  <2> SUFFICES ASSUME NEW k \in DOMAIN rows, NEW i \in DOMAIN rows[k], Unique(rows, k, i),
                      NEW l \in DOMAIN rows, NEW j \in DOMAIN rows[l], rows[l][j].fp = rows[k][i].fp
               PROVE  k < l \/ (k = l /\ i <= j)
    BY Zenon DEF UniqueFirst
  <2>1. /\ k + 1 \in DOMAIN flight /\ i \in DOMAIN flight[k + 1] /\ Unique(flight, k + 1, i)
        /\ l + 1 \in DOMAIN flight /\ j \in DOMAIN flight[l + 1]
        /\ flight[l + 1][j].fp = flight[k + 1][i].fp /\ k \in Nat /\ l \in Nat
    BY <1>6, <1>8
  <2>2. k + 1 < l + 1 \/ (k + 1 = l + 1 /\ i <= j)
    BY <1>1, <2>1, Zenon DEF UniqueFirst
  <2>3. k + 1 < l + 1 => k < l
    BY <2>1
  <2>4. k + 1 = l + 1 => k = l
    BY <2>1
  <2> QED BY <2>2, <2>3, <2>4, Zenon
<1>10. UniqueFresh(flight)'
  <2> SUFFICES ASSUME NEW k \in DOMAIN rows, NEW i \in DOMAIN rows[k], Unique(rows, k, i), open',
                      rows[k][i].fp \in containers'[Len(containers')]
               PROVE  FALSE
    BY <1>5, Zenon DEF UniqueFresh, InStorageBuffer, Unique
  <2> DEFINE f == rows[k][i].fp
             boxes == w.containers
             m == Len(boxes)
  <2>1. Larger(boxes, w.open) /\ Uniques(w.unique, boxes, s, Len(s)) /\ containers' = boxes /\ open' = w.open
    BY Zenon DEF Filtered, FilterInv
  <2>2. boxes \in Seq(SUBSET FP) /\ boxes # <<>> /\ f \in boxes[m]
    BY <2>1 DEF Larger
  <2> HIDE DEF boxes, f
  <2>3. m \in DOMAIN boxes /\ m \in Nat
    BY <2>2
  <2>4. Unique(flight, k + 1, i) /\ f = flight[k + 1][i].fp /\ k + 1 \in DOMAIN flight /\ i \in DOMAIN flight[k + 1]
        /\ k \in DOMAIN rows
    BY <1>6, <1>8 DEF f
  <2>5. CASE m \in DOMAIN containers /\ f \in containers[m]
    <3>1. Len(containers) \in Nat /\ DOMAIN containers = 1..Len(containers) /\ Len(containers) <= m
      BY <2>1, <2>3 DEF IInv, Shape, Larger
    <3> HIDE DEF m
    <3>2. m = Len(containers)
      BY <2>3, <2>5, <3>1
    <3>3. open
      BY <2>1, <3>2, Zenon DEF Larger, m
    <3>4. InStorageBuffer(f)
      BY <2>5, <3>2, <3>3, Zenon DEF InStorageBuffer
    <3>5. ~InStorageBuffer(flight[k + 1][i].fp)
      BY <1>1, <2>4, Zenon DEF UniqueFresh
    <3> QED BY <2>4, <3>4, <3>5
  <2>6. CASE f \in DOMAIN w.unique
    <3>1. PICK j \in 1..Len(s) : Unique(flight, 1, j) /\ s[j].fp = f
      BY <2>1, <2>6, Zenon DEF Uniques
    <3>2. j \in DOMAIN flight[1] /\ flight[k + 1][i].fp = flight[1][j].fp
      BY <1>2, <2>4, <3>1, Zenon DEF Unique
    <3>3. k + 1 < 1 \/ (k + 1 = 1 /\ i <= j)
      BY <1>1, <1>2, <2>4, <3>2, Zenon DEF UniqueFirst
    <3>4. k \in Nat /\ k # 0
      BY <1>4, <2>4
    <3> QED BY <3>3, <3>4
  <2>7. (m \in DOMAIN containers /\ f \in containers[m]) \/ (f \in DOMAIN w.unique /\ m = w.unique[f] + 1)
    BY <2>1, <2>2, <2>3, Zenon DEF Uniques
  <2> QED BY <2>5, <2>6, <2>7, Zenon
<1>11. Counted(rows, buffered')
  <2> SUFFICES ASSUME NEW f \in FP PROVE Sum(Times(rows, f), Len(rows), Len(buffered'[f]))
    BY DEF Counted
  <2>1. Sum(Times(flight, f), n, Len(buffered[f]))
    BY <1>1, Zenon DEF Counted, n
  <2>2. Times(flight, f) \in [1..n -> Nat]
    BY <1>1, TimesType, Zenon DEF n
  <2>3. \A k \in 1..(n - 1) : Times(rows, f)[k] = Times(flight, f)[k + 1]
    BY <1>4 DEF Times, n
  <2>4. Len(buffered[f]) \in Nat
    BY <1>1
  <2>5. Sum(Times(rows, f), n - 1, Len(buffered[f]) - Times(flight, f)[1])
    BY <1>4, <2>1, <2>2, <2>3, <2>4, SumTail
  <2>6. Times(flight, f)[1] = Cardinality(Here(s, f))
    BY <1>2, <1>4 DEF Times, n
  <2>7. Len(buffered'[f]) = Len(buffered[f]) - Cardinality(Here(s, f))
    <3>1. /\ Updated(buffered[f], w.segment, w.containers, f, buffered'[f])
          /\ Cardinality(Here(w.segment, f)) = Cardinality(Here(s, f))
      BY <1>2
    <3>2. Len(buffered'[f]) = Len(buffered[f]) - Cardinality(Here(w.segment, f))
      BY <3>1, Zenon DEF Updated
    <3> QED BY <3>1, <3>2
  <2> QED BY <1>4, <2>5, <2>6, <2>7
<1>12. Promised(rows, buffered')
  <2> SUFFICES ASSUME NEW f \in FP, buffered'[f] # <<>>, Head(buffered'[f]) = TEMPORARY_ID
               PROVE  \E k \in DOMAIN rows : \E i \in DOMAIN rows[k] : Unique(rows, k, i) /\ rows[k][i].fp = f
    BY Zenon DEF Promised
  <2>1. /\ Updated(buffered[f], w.segment, w.containers, f, buffered'[f])
        /\ Cardinality(Here(w.segment, f)) = Cardinality(Here(s, f))
    BY <1>2
  <2>2. CASE Here(w.segment, f) = {}
    <3>1. buffered'[f] = buffered[f]
      BY <2>1, <2>2, Zenon DEF Updated
    <3>2. PICK k \in DOMAIN flight : \E i \in DOMAIN flight[k] : Unique(flight, k, i) /\ flight[k][i].fp = f
      BY <1>1, <3>1, Zenon DEF Promised
    <3>3. PICK i \in DOMAIN flight[k] : Unique(flight, k, i) /\ flight[k][i].fp = f
      BY <3>2, Zenon
    <3>4. k # 1
      <4>1. Cardinality(Here(s, f)) = 0
        BY <2>1, <2>2, FS_EmptySet
      <4>2. \A j \in DOMAIN s : s[j].fp # f
        BY <1>2, <4>1, HereNone, Zenon
      <4> QED BY <1>2, <3>3, <4>2
    <3>5. k - 1 \in DOMAIN rows /\ (k - 1) + 1 = k
      BY <1>4, <3>4
    <3>6. rows[k - 1] = flight[k]
      BY <1>6, <3>5
    <3>7. Unique(rows, k - 1, i) /\ i \in DOMAIN rows[k - 1] /\ rows[k - 1][i].fp = f
      BY <3>3, <3>5, <3>6 DEF Unique
    <3> QED BY <3>5, <3>7, Zenon
  <2>3. CASE Here(w.segment, f) # {}
    <3>1. buffered'[f] \in Seq(Id)
      BY <1>2
    <3>2. 1 \in DOMAIN buffered'[f] /\ Head(buffered'[f]) = buffered'[f][1]
      BY <3>1
    <3>3. buffered'[f][1] \in Nat
      BY <2>1, <2>3, <3>2, Zenon DEF Updated
    <3> QED BY <3>2, <3>3, Marked
  <2> QED BY <2>2, <2>3
<1>13. /\ flight' \in Seq(Seq(ChunkType)) /\ buffered' \in [FP -> Seq(Id)]
       /\ UniqueFirst(flight') /\ Counted(flight', buffered') /\ Promised(flight', buffered')
  BY <1>2, <1>4, <1>5, <1>9, <1>11, <1>12
<1>14. UniqueFirst(flight)' /\ Counted(flight, buffered)' /\ Promised(flight, buffered)'
  BY <1>13, Zenon DEF UniqueFirst, Unique, Counted, Promised
<1> QED BY <1>7, <1>10, <1>13, <1>14, Zenon DEF InFlight, ChunkType, Id

\* The recipe gets the pointers of the segment, which lead to containers.
LEMMA FilteredRecipe ==
  ASSUME IInv, NEW s, NEW w, NEW sid, NEW features, Filtered(s, w, sid, features)
  PROVE  /\ Recorded(recipes', PointersOf(w.segment))
         /\ \A j \in DOMAIN PointersOf(w.segment) :
              BoxHolds(w.containers, PointersOf(w.segment)[j].id, PointersOf(w.segment)[j].fp)
         /\ Len(PointersOf(w.segment)) = Len(w.segment) /\ w.segment \in Seq(ChunkType)
         /\ \A j \in DOMAIN w.segment : /\ j \in DOMAIN PointersOf(w.segment)
                                        /\ PointersOf(w.segment)[j].fp = w.segment[j].fp
         /\ Len(w.segment) = Cardinality(ChunksAt(Fps(s), Len(s)))
<1>1. w.segment \in Seq(ChunkType)
  BY FilteredBuffer, Zenon
<1>2. Row(w.segment, w.containers, s, Len(s))
  BY Zenon DEF Filtered, FilterInv
<1> DEFINE row == w.segment
           boxes == w.containers
           p == PointersOf(row)
<1>3. row \in Seq(ChunkType) /\ Row(row, boxes, s, Len(s))
  BY <1>1, <1>2
<1>4. recipes' = [recipes EXCEPT ![Len(recipes)] = Append(@, p)]
  BY Zenon DEF Filtered
<1> HIDE DEF row, boxes
<1>5. p = [j \in DOMAIN row |-> [fp |-> row[j].fp, id |-> row[j].id]]
  BY Zenon DEF PointersOf
<1> HIDE DEF p
<1>6. /\ \A j \in DOMAIN row : row[j].fp \in FP /\ row[j].id \in Nat /\ BoxHolds(boxes, row[j].id, row[j].fp)
      /\ Len(row) = Cardinality(ChunksAt(Fps(s), Len(s)))
  BY <1>3, Zenon DEF Row
<1>7. DOMAIN row = 1..Len(row) /\ Len(row) \in Nat
  BY <1>3
<1>8. DOMAIN p = DOMAIN row /\ \A j \in DOMAIN row : p[j].fp = row[j].fp /\ p[j].id = row[j].id
  BY <1>5
<1>9. p \in [1..Len(row) -> Pointer]
  BY <1>5, <1>6, <1>7 DEF Pointer
<1>10. p \in Seq(Pointer) /\ Len(p) = Len(row)
  BY <1>7, <1>9
<1>11. Recorded(recipes', p)
  <2>1. Shape
    BY Zenon DEF IInv
  <2> QED BY <1>4, <1>10, <2>1, RecordedIs, Zenon
<1>12. \A j \in DOMAIN p : BoxHolds(boxes, p[j].id, p[j].fp)
  BY <1>6, <1>8
<1> QED BY <1>3, <1>6, <1>8, <1>10, <1>11, <1>12, Zenon DEF p, row, boxes

\* Where a segment is, it stays.
LEMMA RecordedKeeps ==
  ASSUME NEW pointers, Recorded(recipes', pointers)
  PROVE  /\ InRecipes \subseteq InRecipes'
         /\ \A b \in DOMAIN recipes : b \in DOMAIN recipes' /\
              \A k \in DOMAIN recipes[b] : k \in DOMAIN recipes'[b] /\ recipes'[b][k] = recipes[b][k]
         /\ \A b \in DOMAIN recipes' : b \in DOMAIN recipes /\
              \A k \in DOMAIN recipes'[b] :
                (k \in DOMAIN recipes[b] /\ recipes'[b][k] = recipes[b][k])
                \/ (b = Len(recipes) /\ k = Len(recipes[b]) + 1 /\ recipes'[b][k] = pointers)
<1> DEFINE n == Len(recipes)
           old == recipes[n]
           new == recipes'[n]
<1>1. /\ recipes' \in Seq(Seq(Seq(Pointer))) /\ Len(recipes') = n /\ n \in DOMAIN recipes
      /\ n \in Nat /\ DOMAIN recipes = 1..n /\ old \in Seq(Seq(Pointer)) /\ pointers \in Seq(Pointer)
      /\ new = Append(old, pointers)
      /\ \A b \in DOMAIN recipes : b # n => recipes'[b] = recipes[b]
  BY Zenon DEF Recorded
<1>2. DOMAIN recipes' = DOMAIN recipes
  BY <1>1
<1> HIDE DEF n
<1>3. /\ Len(old) \in Nat /\ DOMAIN old = 1..Len(old) /\ DOMAIN new = 1..(Len(old) + 1)
      /\ new[Len(old) + 1] = pointers /\ \A k \in 1..Len(old) : new[k] = old[k]
  <2> HIDE DEF new, old
  <2> QED BY <1>1, AppendProperties
<1>4. \A k \in 1..(Len(old) + 1) : k \in 1..Len(old) \/ k = Len(old) + 1
  BY <1>3
<1>5. \A k \in 1..Len(old) : k \in 1..(Len(old) + 1)
  BY <1>3
<1>6. ASSUME NEW b \in DOMAIN recipes, NEW k \in DOMAIN recipes[b]
      PROVE  k \in DOMAIN recipes'[b] /\ recipes'[b][k] = recipes[b][k]
  <2>1. CASE b = n
    BY <1>3, <1>5, <2>1
  <2>2. CASE b # n
    <3>1. recipes'[b] = recipes[b]
      BY <1>1, <2>2
    <3> QED BY <3>1
  <2> QED BY <2>1, <2>2
<1>7. ASSUME NEW b \in DOMAIN recipes', NEW k \in DOMAIN recipes'[b]
      PROVE  (k \in DOMAIN recipes[b] /\ recipes'[b][k] = recipes[b][k])
             \/ (b = n /\ k = Len(recipes[b]) + 1 /\ recipes'[b][k] = pointers)
  <2>1. CASE b = n
    BY <1>3, <1>4, <2>1
  <2>2. CASE b # n
    <3>1. recipes'[b] = recipes[b]
      BY <1>1, <1>2, <2>2
    <3> QED BY <3>1
  <2> QED BY <2>1, <2>2
<1>8. InRecipes \subseteq InRecipes'
  BY <1>2, <1>6 DEF InRecipes
<1> QED BY <1>2, <1>6, <1>7, <1>8 DEF n

\* The types after a segment is filtered.
LEMMA FilteredShape ==
  ASSUME IInv, NEW s, NEW w, NEW sid, NEW features, Filtered(s, w, sid, features)
  PROVE  Shape'
<1>1. /\ config \in Configs /\ read \in 0..(config.length + 1)
      /\ cache \in Seq(InRecipes) /\ Len(cache) <= config.cache
      /\ kv \in [Keys \cup {Highest} -> Seq(Nat)]
      /\ \A x \in DOMAIN kv : Len(kv[x]) <= config.values
      /\ recipes # <<>>
  BY DEF IInv, Shape
<1>2. /\ sid = append_segment_flag(ChunkCount(s)) /\ containers' = w.containers /\ open' = w.open
      /\ aborted' = w.aborted
      /\ kv' = [x \in DOMAIN kv |-> IF x \in features THEN kv_update(kv[x], sid) ELSE kv[x]]
      /\ UNCHANGED <<config, read, cache, champions>>
      /\ w \in FilterRecord /\ Larger(w.containers, w.open)
  BY DEF Filtered, FilterInv
<1>3. flight' \in Seq(Seq(ChunkType)) /\ buffered' \in [FP -> Seq(Id)]
  <2>1. InFlight(flight, buffered)'
    BY FilteredFlight, Zenon
  <2> QED BY <2>1, Zenon DEF InFlight, ChunkType, Id
<1>4. Recorded(recipes', PointersOf(w.segment))
  BY FilteredRecipe, Zenon
<1>5. InRecipes \subseteq InRecipes'
  BY <1>4, RecordedKeeps, Zenon
<1>6. recipes' \in Seq(Seq(Seq(Pointer))) /\ recipes' # <<>>
  <2>1. recipes' \in Seq(Seq(Seq(Pointer))) /\ Len(recipes') = Len(recipes) /\ Len(recipes) \in DOMAIN recipes
        /\ DOMAIN recipes = 1..Len(recipes) /\ Len(recipes) \in Nat
    BY <1>4, Zenon DEF Recorded
  <2> QED BY <2>1
<1>7. cache' \in Seq(InRecipes') /\ Len(cache') <= config'.cache
  <2>1. cache' = cache /\ config' = config
    BY <1>2
  <2> DEFINE U == InRecipes'
  <2>2. InRecipes \subseteq U
    BY <1>5
  <2> HIDE DEF U
  <2>3. cache \in Seq(U)
    BY <1>1, <2>2
  <2> QED BY <1>1, <2>1, <2>3 DEF U
<1>8. sid \in Nat
  <2>1. ChunkCount(s) \in Nat
    <3>1. s \in Seq(ChunkType)
      BY FilteredBuffer, Zenon
    <3>2. IsFiniteSet(1..Len(s)) /\ {i \in DOMAIN s : IsChunk(s[i].fp)} \in SUBSET (1..Len(s))
      BY <3>1, FS_Interval
    <3> QED BY <3>2, FS_Subset, FS_CardinalityType DEF ChunkCount
  <2>2. Shape
    BY Zenon DEF IInv
  <2> QED BY <1>2, <2>1, <2>2, FlagIs
<1>9. ASSUME NEW x \in DOMAIN kv PROVE kv'[x] \in Seq(Nat) /\ Len(kv'[x]) <= config.values
  <2>1. kv[x] \in Seq(Nat) /\ Len(kv[x]) <= config.values
    BY <1>1
  <2>2. CASE x \in features
    <3>1. kv'[x] = kv_update(kv[x], sid)
      BY <1>2, <2>2
    <3>2. config.values \in Nat \ {0}
      BY <1>1, ConfigIs
    <3>3. kv_update(kv[x], sid) \in Seq(Nat) /\ Len(kv_update(kv[x], sid)) <= config.values
      BY <1>8, <2>1, <3>2, UpdatedIds, Zenon
    <3> QED BY <3>1, <3>3
  <2>3. CASE x \notin features
    BY <1>2, <2>1, <2>3
  <2> QED BY <2>2, <2>3
<1>10. /\ kv' \in [Keys \cup {Highest} -> Seq(Nat)]
       /\ \A x \in DOMAIN kv' : Len(kv'[x]) <= config.values
  <2>1. DOMAIN kv' = DOMAIN kv /\ DOMAIN kv = Keys \cup {Highest}
    BY <1>1, <1>2
  <2>2. kv' = [x \in DOMAIN kv |-> kv'[x]]
    BY <1>2
  <2> QED BY <1>9, <2>1, <2>2
<1>11. Keys' = Keys
  BY DEF Keys
<1>12. /\ containers' \in Seq(SUBSET FP) /\ open' \in BOOLEAN /\ (open' => containers' # <<>>)
       /\ \A id \in DOMAIN containers' : Cardinality(containers'[id]) <= config.capacity
       /\ aborted' \in BOOLEAN
  <2>1. w.open \in BOOLEAN /\ w.aborted \in BOOLEAN
    BY <1>2 DEF FilterRecord
  <2> DEFINE boxes == w.containers
  <2>2. Larger(boxes, w.open) /\ containers' = boxes
    BY <1>2
  <2> HIDE DEF boxes
  <2> QED BY <1>2, <2>1, <2>2, Zenon DEF Larger
<1>13. config' = config /\ read' = read
  BY <1>2
<1>14. /\ config' \in Configs /\ read' \in 0..(config'.length + 1)
       /\ \A x \in DOMAIN kv' : Len(kv'[x]) <= config'.values
       /\ \A id \in DOMAIN containers' : Cardinality(containers'[id]) <= config'.capacity
  <2>1. config' \in Configs /\ read' \in 0..(config'.length + 1)
    BY <1>1, <1>13
  <2>2. \A x \in DOMAIN kv' : Len(kv'[x]) <= config'.values
    BY <1>10, <1>13
  <2>3. \A id \in DOMAIN containers' : Cardinality(containers'[id]) <= config'.capacity
    BY <1>12, <1>13
  <2> QED BY <2>1, <2>2, <2>3
<1>15. /\ config' \in Configs /\ read' \in 0..(config'.length + 1)
       /\ recipes' \in Seq(Seq(Seq(Pointer))) /\ recipes' # <<>>
       /\ flight' \in Seq(Seq(ChunkType)) /\ buffered' \in [FP -> Seq(Id)]
       /\ cache' \in Seq(InRecipes') /\ Len(cache') <= config'.cache
       /\ kv' \in [Keys \cup {Highest} -> Seq(Nat)]
       /\ \A x \in DOMAIN kv' : Len(kv'[x]) <= config'.values
       /\ containers' \in Seq(SUBSET FP) /\ open' \in BOOLEAN /\ (open' => containers' # <<>>)
       /\ \A id \in DOMAIN containers' : Cardinality(containers'[id]) <= config'.capacity
       /\ aborted' \in BOOLEAN
  BY <1>3, <1>6, <1>7, <1>10, <1>12, <1>14, Zenon
<1> QED BY <1>15, Zenon DEF Shape, ChunkType, Id, Pointer

\* FilterSegment keeps the invariant.
LEMMA FilterKeeps ==
  ASSUME IInv, NEW s, NEW w, NEW sid, NEW features, Filtered(s, w, sid, features)
  PROVE  IInv'
<1>1. RecipeRestorable'
  <2> DEFINE p == PointersOf(w.segment)
  <2>1. Recorded(recipes', p) /\ \A j \in DOMAIN p : BoxHolds(w.containers, p[j].id, p[j].fp)
    BY FilteredRecipe, Zenon
  <2> HIDE DEF p
  <2>2. (\A id, f : Holds(id, f) => BoxHolds(w.containers, id, f)) /\ containers' = w.containers
    BY FilteredHolds, Zenon
  <2>3. ASSUME NEW b \in DOMAIN recipes', NEW k \in DOMAIN recipes'[b], NEW i \in DOMAIN recipes'[b][k]
        PROVE  BoxHolds(w.containers, recipes'[b][k][i].id, recipes'[b][k][i].fp)
    <3>0. \A c \in DOMAIN recipes' : c \in DOMAIN recipes /\
            \A l \in DOMAIN recipes'[c] :
              (l \in DOMAIN recipes[c] /\ recipes'[c][l] = recipes[c][l])
              \/ (c = Len(recipes) /\ l = Len(recipes[c]) + 1 /\ recipes'[c][l] = p)
      BY <2>1, RecordedKeeps
    <3>1. b \in DOMAIN recipes
          /\ ((k \in DOMAIN recipes[b] /\ recipes'[b][k] = recipes[b][k])
              \/ (b = Len(recipes) /\ k = Len(recipes[b]) + 1 /\ recipes'[b][k] = p))
      BY <3>0, Zenon
    <3>2. CASE k \in DOMAIN recipes[b] /\ recipes'[b][k] = recipes[b][k]
      <4>1. Holds(recipes[b][k][i].id, recipes[b][k][i].fp)
        BY <3>1, <3>2, Zenon DEF IInv, RecipeRestorable, Holds
      <4> QED BY <2>2, <3>2, <4>1
    <3>3. CASE recipes'[b][k] = p
      BY <2>1, <3>3
    <3> QED BY <3>1, <3>2, <3>3
  <2> QED BY <2>2, <2>3, Zenon DEF RecipeRestorable, BoxHolds
<1> QED BY <1>1, FilteredShape, FilteredFlight, Zenon DEF IInv

-----------------------------------------------------------------------------
(* Without an assumption on the width of ids.                              *)

\* Every step keeps the invariant.
LEMMA IInvInductive ==
  ASSUME IInv, [Next]_vars
  PROVE  IInv'
<1>1. ASSUME NEW fps \in Segments, DedupSegment(fps) PROVE IInv'
  BY <1>1, DedupKeeps, Zenon
<1>2. ASSUME EndOfStream PROVE IInv'
  BY <1>2, EndKeeps, Zenon
<1>3. ASSUME FilterSegment PROVE IInv'
  <2>1. PICK s, w, sid, features : Filtered(s, w, sid, features)
    BY <1>3, FilterIs, Zenon
  <2> QED BY <2>1, FilterKeeps, Zenon
<1>4. ASSUME NextSession PROVE IInv'
  BY <1>4, SessionKeeps, Zenon
<1>5. CASE UNCHANGED vars
  BY <1>5 DEF vars, IInv, Shape, RecipeRestorable, InFlight, InRecipes, IdsHold, Holds, UniqueFirst, Unique,
              UniqueFresh, InStorageBuffer, Counted, Promised
<1> QED BY <1>1, <1>2, <1>3, <1>4, <1>5, Zenon DEF Next

\* However backups, lookups and filtering interleave, the invariant holds: ids in flight,
\* in the index buffer and in the recipes name containers with the chunk, and the index
\* buffer has an id for every copy of a chunk that is in flight.
THEOREM Invariance == Spec => []IInv
<1>1. Init => IInv
  BY InitHolds
<1>2. IInv /\ [Next]_vars => IInv'
  BY IInvInductive
<1> QED BY <1>1, <1>2, PTL DEF Spec

\* The variables have their types: the cache, the containers and the lists of ids of the
\* key-value store do not outgrow their sizes, and what is cached is a segment of a recipe.
THEOREM TypeCorrect == Spec => []TypeOK
<1>1. IInv => TypeOK
  <2> SUFFICES ASSUME IInv PROVE TypeOK
    OBVIOUS
  <2>1. Shape /\ InFlight(flight, buffered)
    BY Zenon DEF IInv
  <2>2. config \in Configs /\ read \in 0..config.length+1
    BY <2>1 DEF Shape
  <2>3. \A f \in FP : buffered[f] \in Seq(TEMPORARY_ID..Len(containers)-1)
    <3> SUFFICES ASSUME NEW f \in FP PROVE buffered[f] \in Seq(TEMPORARY_ID..Len(containers)-1)
      OBVIOUS
    <3>1. buffered[f] \in Seq(Id)
      BY <2>1 DEF Shape
    <3>2. Len(containers) \in Nat /\ DOMAIN containers = 1..Len(containers)
      BY <2>1 DEF Shape
    <3>3. ASSUME NEW i \in DOMAIN buffered[f] PROVE buffered[f][i] \in TEMPORARY_ID..Len(containers)-1
      <4>1. buffered[f][i] \in Id
        BY <3>1
      <4>2. buffered[f][i] # TEMPORARY_ID => Holds(buffered[f][i], f)
        BY <2>1, Zenon DEF InFlight, IdsHold
      <4> QED BY <3>2, <4>1, <4>2 DEF Id, TEMPORARY_ID, Holds
    <3> DEFINE T == TEMPORARY_ID..Len(containers)-1
               m == Len(buffered[f])
    <3>4. buffered[f] \in [1..m -> Id] /\ m \in Nat
      BY <3>1
    <3>5. \A i \in 1..m : buffered[f][i] \in T
      BY <3>1, <3>3
    <3> HIDE DEF T, m
    <3>6. buffered[f] \in [1..m -> T]
      BY <3>4, <3>5
    <3>7. buffered[f] \in Seq(T)
      BY <3>4, <3>6
    <3> QED BY <3>7 DEF T
  <2>4. Len(cache) <= config.cache
    BY <2>1 DEF Shape
  <2>5. \A s \in Range(cache) : s[1] \in 0..Backup /\ s[2] \in DOMAIN recipes[s[1]+1]
    <3>1. cache \in Seq(InRecipes) /\ Len(recipes) \in Nat /\ DOMAIN recipes = 1..Len(recipes)
      BY <2>1 DEF Shape
    <3>2. \A s \in Range(cache) : s \in InRecipes
      BY <3>1 DEF Range
    <3> QED BY <3>1, <3>2 DEF InRecipes, Backup
  <2>6. \A x \in DOMAIN kv : Len(kv[x]) <= config.values
    BY <2>1 DEF Shape
  <2>7. \A id \in DOMAIN containers : Cardinality(containers[id]) <= config.capacity
    BY <2>1 DEF Shape
  <2> QED BY <2>2, <2>3, <2>4, <2>5, <2>6, <2>7, Zenon DEF TypeOK
<1> QED BY <1>1, Invariance, PTL

\* Every chunk pointer that filter_phase.c appends to a recipe names a container that
\* holds the chunk, wherever the id came from; also with ids of segments that do not fit.
THEOREM RecipesRestore == Spec => []RecipeRestorable
<1>1. IInv => RecipeRestorable
  BY DEF IInv
<1> QED BY <1>1, Invariance, PTL
-----------------------------------------------------------------------------
(* With ids that can tell every place.  A segment takes a pointer for each *)
(* of its chunks and two flags, and at least one of the stream's chunks; a *)
(* stream ends with one segment more.                                      *)

\* make_segment_id has 16 bits for the size of a segment and 32 for its offset.  Nothing in
\* the code keeps a segment or a recipe below that.
IdsFit ==
  \A c \in Configs : c.segment < SizeRange /\ PointerSize * (3 * c.length + 2) < OffRange

\* What the segments in flight will take of the recipe.
Weights(rows) == [k \in 1..Len(rows) |-> ChunkCount(rows[k]) + 2]
Takes(rows, t) == t \in Nat /\ Sum(Weights(rows), Len(rows), t)

\* What the first n of the stream take of a recipe.
Room(n) == IF n <= config.length THEN 3 * n ELSE 3 * config.length + 2

Sized ==
  /\ \A b \in DOMAIN recipes : \A k \in DOMAIN recipes[b] : Len(recipes[b][k]) <= config.segment
  /\ \A k \in DOMAIN flight : ChunkCount(flight[k]) <= config.segment
  /\ \A b \in DOMAIN recipes : PastOf(recipes[b]) <= 3 * config.length + 2
  /\ \E t : Takes(flight, t) /\ PastOf(recipes[Len(recipes)]) + t <= Room(read)

\* No stream takes more than the last recipe may have.
LEMMA RoomIs ==
  ASSUME config \in Configs, NEW n \in 0..(config.length + 1)
  PROVE  Room(n) \in Nat /\ Room(n) <= 3 * config.length + 2
<1>1. config.length \in Nat
  BY ConfigIs
<1> QED BY <1>1 DEF Room

\* The chunks of a segment are those of its fingerprints.
LEMMA ChunkCountIs ==
  ASSUME NEW s \in Seq(ChunkType)
  PROVE  ChunkCount(s) \in Nat /\ ChunkCount(s) = Cardinality(ChunksAt(Fps(s), Len(s)))
<1>1. Len(s) \in Nat /\ DOMAIN s = 1..Len(s)
  OBVIOUS
<1>2. {i \in DOMAIN s : IsChunk(s[i].fp)} = ChunksAt(Fps(s), Len(s))
  BY <1>1 DEF ChunksAt, Fps
<1>3. ChunkCount(s) = Cardinality(ChunksAt(Fps(s), Len(s)))
  BY <1>2 DEF ChunkCount
<1>4. Cardinality(ChunksAt(Fps(s), Len(s))) \in Nat
  BY <1>1, ChunksAtIs, Zenon
<1> QED BY <1>3, <1>4

\* A segment has as many chunks as its fingerprints say.
LEMMA ChunkCountOf ==
  ASSUME NEW s \in Seq(ChunkType), NEW fps, Len(s) = Len(fps), \A j \in 1..Len(fps) : s[j].fp = fps[j]
  PROVE  ChunkCount(s) = Cardinality(ChunksAt(fps, Len(fps)))
<1>1. Len(s) \in Nat /\ DOMAIN s = 1..Len(fps)
  OBVIOUS
<1>2. {i \in DOMAIN s : IsChunk(s[i].fp)} = ChunksAt(fps, Len(fps))
  BY <1>1 DEF ChunksAt
<1> QED BY <1>2 DEF ChunkCount

\* Weights are numbers.
LEMMA WeightsType ==
  ASSUME NEW rows \in Seq(Seq(ChunkType))
  PROVE  Weights(rows) \in [1..Len(rows) -> Nat]
<1>1. \A k \in 1..Len(rows) : rows[k] \in Seq(ChunkType)
  OBVIOUS
<1>2. \A k \in 1..Len(rows) : ChunkCount(rows[k]) \in Nat
  BY <1>1, ChunkCountIs
<1> QED BY <1>2 DEF Weights

\* A segment more in flight, and one less.
LEMMA TakesAppend ==
  ASSUME NEW rows \in Seq(Seq(ChunkType)), NEW s \in Seq(ChunkType), NEW t, Takes(rows, t)
  PROVE  Takes(Append(rows, s), t + (ChunkCount(s) + 2))
<1> DEFINE n == Len(rows)
           r == Append(rows, s)
           d == ChunkCount(s) + 2
<1>1. n \in Nat /\ Len(r) = n + 1 /\ r[n + 1] = s /\ \A k \in 1..n : r[k] = rows[k]
  BY AppendProperties
<1>2. d \in Nat /\ t \in Nat /\ Sum(Weights(rows), n, t)
  BY ChunkCountIs DEF Takes
<1> HIDE DEF r
<1>3. \A k \in 1..n : k \in 1..(n + 1) /\ Weights(r)[k] = Weights(rows)[k]
  <2>1. \A k \in 1..n : k \in 1..(n + 1)
    BY <1>1
  <2> HIDE DEF n
  <2>2. Weights(r) = [k \in 1..(n + 1) |-> ChunkCount(r[k]) + 2] /\ Weights(rows) = [k \in 1..n |-> ChunkCount(rows[k]) + 2]
    BY <1>1 DEF Weights, n
  <2>3. ASSUME NEW k \in 1..n PROVE Weights(r)[k] = Weights(rows)[k]
    <3>1. r[k] = rows[k] /\ k \in 1..(n + 1)
      BY <1>1, <2>1
    <3>2. Weights(r)[k] = ChunkCount(r[k]) + 2 /\ Weights(rows)[k] = ChunkCount(rows[k]) + 2
      BY <2>2, <3>1
    <3> QED BY <3>1, <3>2
  <2> QED BY <2>1, <2>3
<1>4. Weights(r)[n + 1] = d
  BY <1>1 DEF Weights
<1> HIDE DEF d, n
<1>5. Sum(Weights(r), n + 1, t + d)
  BY <1>1, <1>2, <1>3, <1>4, SumAppend
<1>6. Len(r) = n + 1 /\ t + d \in Nat
  BY <1>1, <1>2 DEF n
<1> QED BY <1>5, <1>6 DEF Takes, r, d

LEMMA TakesTail ==
  ASSUME NEW rows \in Seq(Seq(ChunkType)), rows # <<>>, NEW t, Takes(rows, t)
  PROVE  ChunkCount(rows[1]) + 2 <= t /\ Takes(Tail(rows), t - (ChunkCount(rows[1]) + 2))
<1> DEFINE n == Len(rows)
           r == Tail(rows)
           d == ChunkCount(rows[1]) + 2
<1>1. /\ n \in Nat /\ n # 0 /\ Len(r) = n - 1 /\ rows[1] \in Seq(ChunkType)
      /\ \A k \in 1..(n - 1) : r[k] = rows[k + 1] /\ k + 1 \in 1..n
  OBVIOUS
<1>2. d \in Nat /\ t \in Nat /\ Sum(Weights(rows), n, t)
  BY <1>1, ChunkCountIs DEF Takes
<1>3. Weights(rows) \in [1..n -> Nat]
  BY WeightsType
<1> HIDE DEF r
<1>4. Weights(rows)[1] = d
  BY <1>1 DEF Weights
<1>5. ASSUME NEW k \in 1..(n - 1) PROVE Weights(r)[k] = Weights(rows)[k + 1]
  <2>1. r[k] = rows[k + 1] /\ k + 1 \in 1..n /\ k \in 1..Len(r)
    BY <1>1
  <2>2. Weights(r)[k] = ChunkCount(r[k]) + 2 /\ Weights(rows)[k + 1] = ChunkCount(rows[k + 1]) + 2
    BY <2>1 DEF Weights
  <2> QED BY <2>1, <2>2
<1> HIDE DEF d, n
<1>6. Weights(rows)[1] <= t /\ Sum(Weights(r), n - 1, t - Weights(rows)[1])
  BY <1>1, <1>2, <1>3, <1>5, SumTail
<1>7. d <= t /\ Sum(Weights(r), Len(r), t - d) /\ t - d \in Nat
  BY <1>1, <1>2, <1>4, <1>6
<1> QED BY <1>7 DEF Takes, r, d

-----------------------------------------------------------------------------
(* Places and ids of segments.                                             *)

\* SegmentsAt, of the recipes rs.
At(rs, b, off) ==
  IF b + 1 \in DOMAIN rs THEN {k \in DOMAIN rs[b + 1] : PointerSize * PastIn(rs[b + 1], k) = off} ELSE {}

\* At says of the variable what SegmentsAt says, before a step and after it.
LEMMA AtIs ==
  ASSUME NEW b, NEW off
  PROVE  SegmentsAt(b, off) = At(recipes, b, off) /\ SegmentsAt(b, off)' = At(recipes', b, off)
<1>1. \A k : Offset(b, k) = PointerSize * PastIn(recipes[b + 1], k)
  BY OffsetIs
<1>2. ASSUME NEW k PROVE Offset(b, k)' = PointerSize * PastIn(recipes'[b + 1], k)
  BY Zenon DEF Offset, PastIn, PastOf, FoldLeft, MapThenFoldSet
<1>3. SegmentsAt(b, off) = At(recipes, b, off)
  BY <1>1 DEF SegmentsAt, At
<1>4. SegmentsAt(b, off)' = At(recipes', b, off)
  BY <1>2 DEF SegmentsAt, At
<1> QED BY <1>3, <1>4

\* No two segments of a recipe begin at one place.
LEMMA OneAt ==
  ASSUME NEW rs \in Seq(Seq(Seq(Pointer))), NEW b, NEW off, NEW j \in At(rs, b, off), NEW k \in At(rs, b, off)
  PROVE  j = k
<1> DEFINE r == rs[b + 1]
<1>1. b + 1 \in DOMAIN rs /\ j \in DOMAIN r /\ k \in DOMAIN r
      /\ PointerSize * PastIn(r, j) = off /\ PointerSize * PastIn(r, k) = off
  BY DEF At
<1>2. r \in Seq(Seq(Pointer))
  BY <1>1
<1> HIDE DEF r
<1>3. Len(r) \in Nat /\ DOMAIN r = 1..Len(r)
  BY <1>2
<1>4. j \in 1..(Len(r) + 1) /\ k \in 1..(Len(r) + 1) /\ j \in Nat /\ k \in Nat
  BY <1>1, <1>3
<1>5. PastIn(r, j) \in Nat /\ PastIn(r, k) \in Nat
  BY <1>2, <1>4, PastInIs
<1>6. PastIn(r, j) = PastIn(r, k)
  BY <1>1, <1>5 DEF PointerSize
<1>7. ~(j < k)
  <2> SUFFICES ASSUME j < k PROVE FALSE
    OBVIOUS
  <2>1. PastIn(r, j) + 2 <= PastIn(r, k)
    BY <1>2, <1>4, PastRises
  <2> QED BY <1>5, <1>6, <2>1
<1>8. ~(k < j)
  <2> SUFFICES ASSUME k < j PROVE FALSE
    OBVIOUS
  <2>1. PastIn(r, k) + 2 <= PastIn(r, j)
    BY <1>2, <1>4, PastRises
  <2> QED BY <1>5, <1>6, <2>1
<1> QED BY <1>4, <1>7, <1>8

\* An id tells where its segment is.
LEMMA IdTells ==
  ASSUME Shape, Sized, IdsFit, NEW t \in InRecipes
  PROVE  /\ id_to_bnum(SegmentId(t[1], t[2])) = t[1]
         /\ t[2] \in SegmentsAt(t[1], id_to_off(SegmentId(t[1], t[2])))
<1> DEFINE b == t[1]
           k == t[2]
           r == recipes[b + 1]
           o == PointerSize * PastIn(r, k)
           n == Len(r[k])
<1>1. b \in Nat /\ k \in Nat /\ b + 1 \in DOMAIN recipes /\ k \in DOMAIN r
  BY DEF InRecipes
<1>2. recipes \in Seq(Seq(Seq(Pointer))) /\ config \in Configs
  BY DEF Shape
<1>3. r \in Seq(Seq(Pointer)) /\ n \in Nat /\ Len(r) \in Nat /\ DOMAIN r = 1..Len(r)
  <2>1. r \in Seq(Seq(Pointer))
    BY <1>1, <1>2
  <2>2. r[k] \in Seq(Pointer)
    BY <1>1, <2>1
  <2> QED BY <2>1, <2>2
<1>4. SegmentId(b, k) = make_segment_id(b, Offset(b, k), n) /\ Offset(b, k) = o
  BY OffsetIs, Zenon DEF SegmentId
<1>5. n <= config.segment /\ PastOf(r) <= 3 * config.length + 2
  BY <1>1 DEF Sized
<1>6. config.segment < SizeRange /\ PointerSize * (3 * config.length + 2) < OffRange
      /\ config.segment \in Nat /\ config.length \in Nat /\ SizeRange \in Nat /\ OffRange \in Nat
  BY <1>2, ConfigIs, LogicalAssumption DEF IdsFit
<1> HIDE DEF r, n
<1>7. k \in 1..(Len(r) + 1) /\ Len(r) + 1 \in 1..(Len(r) + 1)
  BY <1>1, <1>3
<1>8. PastIn(r, k) \in Nat /\ PastIn(r, Len(r) + 1) = PastOf(r) /\ PastOf(r) \in Nat
  BY <1>3, <1>7, PastInIs, PastType
<1>9. PastIn(r, k) <= PastOf(r)
  <2>1. k < Len(r) + 1
    BY <1>1, <1>3
  <2>2. PastIn(r, k) + 2 <= PastIn(r, Len(r) + 1)
    BY <1>3, <1>7, <2>1, PastRises
  <2> QED BY <1>8, <2>2
<1>10. o \in Nat /\ o < OffRange /\ n < SizeRange
  <2> DEFINE p == PastIn(r, k)
             m == PastOf(r)
             len == config.length
             size == config.segment
  <2>1. p \in Nat /\ m \in Nat /\ len \in Nat /\ p <= m /\ m <= 3 * len + 2 /\ PointerSize * (3 * len + 2) < OffRange
        /\ OffRange \in Nat
    BY <1>5, <1>6, <1>8, <1>9
  <2>2. size \in Nat /\ n <= size /\ size < SizeRange /\ SizeRange \in Nat
    BY <1>5, <1>6
  <2> HIDE DEF p, m, len, size
  <2>3. 2 * p \in Nat /\ 2 * p < OffRange
    BY <2>1 DEF PointerSize
  <2>4. n < SizeRange
    BY <1>3, <2>2
  <2> QED BY <2>3, <2>4 DEF PointerSize, p
<1>11. k \in SegmentsAt(b, o)
  BY <1>1, <1>4, Zenon DEF SegmentsAt, r
<1> HIDE DEF o, b, k
<1>12. id_to_bnum(make_segment_id(b, o, n)) = b /\ id_to_off(make_segment_id(b, o, n)) = o
  BY <1>1, <1>3, <1>10, IdParts
<1>13. id_to_bnum(SegmentId(b, k)) = b /\ k \in SegmentsAt(b, id_to_off(SegmentId(b, k)))
  BY <1>4, <1>11, <1>12
<1> QED BY <1>13 DEF b, k

\* No two segments have one id.
LEMMA IdsDiffer ==
  ASSUME Shape, Sized, IdsFit, NEW t \in InRecipes, NEW u \in InRecipes,
         SegmentId(t[1], t[2]) = SegmentId(u[1], u[2])
  PROVE  t = u
<1> DEFINE id == SegmentId(t[1], t[2])
           off == id_to_off(id)
<1>1. id_to_bnum(id) = t[1] /\ t[2] \in SegmentsAt(t[1], off)
  BY IdTells, Zenon
<1>2. SegmentId(u[1], u[2]) = id
  OBVIOUS
<1>3. id_to_bnum(SegmentId(u[1], u[2])) = u[1] /\ u[2] \in SegmentsAt(u[1], id_to_off(SegmentId(u[1], u[2])))
  BY IdTells, Zenon
<1> HIDE DEF id
<1>4. t[1] = u[1] /\ u[2] \in SegmentsAt(t[1], off)
  BY <1>1, <1>2, <1>3
<1> HIDE DEF off
<1>5. t[2] \in At(recipes, t[1], off) /\ u[2] \in At(recipes, t[1], off)
  BY <1>1, <1>4, AtIs, Zenon
<1>6. recipes \in Seq(Seq(Seq(Pointer)))
  BY DEF Shape
<1>7. t[2] = u[2]
  BY <1>5, <1>6, OneAt, Zenon
<1> QED BY <1>4, <1>7 DEF InRecipes

\* What an id leads to is the segment where it says.
LEMMA LeadsIs ==
  ASSUME Shape, Sized, IdsFit, NEW t \in InRecipes, NEW id \in Nat, LeadsTo(id, t)
  PROVE  t[1] = id_to_bnum(id) /\ t[2] \in SegmentsAt(id_to_bnum(id), id_to_off(id))
<1>1. CASE SegmentId(t[1], t[2]) = id
  <2>1. id_to_bnum(SegmentId(t[1], t[2])) = t[1] /\ t[2] \in SegmentsAt(t[1], id_to_off(SegmentId(t[1], t[2])))
    BY IdTells, Zenon
  <2> QED BY <1>1, <2>1
<1>2. CASE \E k \in SegmentsAt(id_to_bnum(id), id_to_off(id)) :
             SegmentId(t[1], t[2]) = SegmentId(id_to_bnum(id), k)
  <2> DEFINE b == id_to_bnum(id)
  <2>1. PICK k \in SegmentsAt(b, id_to_off(id)) : SegmentId(t[1], t[2]) = SegmentId(b, k)
    BY <1>2, Zenon
  <2> DEFINE u == <<b, k>>
  <2>2. b + 1 \in DOMAIN recipes /\ k \in DOMAIN recipes[b + 1]
    BY <2>1 DEF SegmentsAt
  <2> HIDE DEF b
  <2>3. k \in Nat
    <3>1. recipes \in Seq(Seq(Seq(Pointer)))
      BY DEF Shape
    <3>2. recipes[b + 1] \in Seq(Seq(Pointer))
      BY <2>2, <3>1
    <3> QED BY <2>2, <3>2
  <2>4. b \in Nat
    BY IdNumbers DEF b
  <2>5. u \in InRecipes /\ u[1] = b /\ u[2] = k
    BY <2>2, <2>3, <2>4 DEF InRecipes
  <2> HIDE DEF u
  <2>6. SegmentId(t[1], t[2]) = SegmentId(u[1], u[2])
    BY <2>1, <2>5
  <2>7. t = u
    BY <2>5, <2>6, IdsDiffer, Zenon
  <2> QED BY <2>1, <2>5, <2>7 DEF b
<1> QED BY <1>1, <1>2, Zenon DEF LeadsTo

-----------------------------------------------------------------------------
(* Ids lead to segments.                                                   *)

\* Of the recipes rs: id leads to segments with a chunk of key x.
Leads(rs, x, id) ==
  LET b == id_to_bnum(id)
      here == At(rs, b, id_to_off(id))
  IN /\ here # {}
     /\ \A k \in here : \/ x \in {Highest, Key(Mark)}
                        \/ \E i \in DOMAIN rs[b + 1][k] : Key(rs[b + 1][k][i].fp) = x
AllLeading(index, rs) == \A x \in DOMAIN index : \A id \in Range(index[x]) : Leads(rs, x, id)

\* Then LeadsToSegments.
LEMMA LeadingIs ==
  AllLeading(kv, recipes) => LeadsToSegments
<1> SUFFICES ASSUME AllLeading(kv, recipes), NEW x \in DOMAIN kv, NEW id \in Range(kv[x])
             PROVE  /\ Readable(id)
                    /\ \A k \in SegmentsAt(id_to_bnum(id), id_to_off(id)) :
                         \/ x \in {Highest, Key(Mark)}
                         \/ \E i \in DOMAIN recipes[id_to_bnum(id)+1][k] :
                              Key(recipes[id_to_bnum(id)+1][k][i].fp) = x
  BY Zenon DEF LeadsToSegments
<1>1. Leads(recipes, x, id)
  BY Zenon DEF AllLeading
<1>2. SegmentsAt(id_to_bnum(id), id_to_off(id)) = At(recipes, id_to_bnum(id), id_to_off(id))
  BY AtIs, Zenon
<1> QED BY <1>1, <1>2, Zenon DEF Leads, Readable

\* With an id that leads to segments a lookup finds one.
LEMMA AllLeadIs ==
  ASSUME Shape, Sized, IdsFit, AllLeading(kv, recipes)
  PROVE  AllReadable /\ AllLead
<1>1. \A x \in DOMAIN kv : \A id \in Range(kv[x]) : id \in Nat /\ Leads(recipes, x, id)
  <2>1. kv \in [Keys \cup {Highest} -> Seq(Nat)]
    BY DEF Shape
  <2>2. \A x \in DOMAIN kv : \A id \in Range(kv[x]) : id \in Nat
    BY <2>1 DEF Range
  <2> QED BY <2>2, Zenon DEF AllLeading
<1>2. AllReadable
  <2> SUFFICES ASSUME NEW x \in DOMAIN kv, NEW id \in Range(kv[x]) PROVE Readable(id)
    BY Zenon DEF AllReadable
  <2>1. SegmentsAt(id_to_bnum(id), id_to_off(id)) = At(recipes, id_to_bnum(id), id_to_off(id))
    BY AtIs, Zenon
  <2> QED BY <1>1, <2>1, Zenon DEF Leads, Readable
<1>3. AllLead
  <2> SUFFICES ASSUME NEW x \in DOMAIN kv, NEW id \in Range(kv[x]), NEW t \in InRecipes,
                      LeadsTo(id, t), x \notin {Highest, Key(Mark)}
               PROVE  \E i \in DOMAIN Pointers(t) : Key(Pointers(t)[i].fp) = x
    BY Zenon DEF AllLead
  <2>1. id \in Nat /\ Leads(recipes, x, id)
    BY <1>1, Zenon
  <2>2. t[1] = id_to_bnum(id) /\ t[2] \in SegmentsAt(id_to_bnum(id), id_to_off(id))
    BY <2>1, LeadsIs, Zenon
  <2>3. t[2] \in At(recipes, id_to_bnum(id), id_to_off(id))
    BY <2>2, AtIs, Zenon
  <2>4. \E i \in DOMAIN recipes[id_to_bnum(id) + 1][t[2]] : Key(recipes[id_to_bnum(id) + 1][t[2]][i].fp) = x
    BY <2>1, <2>3, Zenon DEF Leads
  <2> QED BY <2>2, <2>4, Zenon DEF Pointers
<1> QED BY <1>2, <1>3

\* The recipes rs become more: a segment stays what it is and where it is.
Extends(rs, more) ==
  \A b \in DOMAIN rs : b \in DOMAIN more /\
    \A k \in DOMAIN rs[b] : /\ k \in DOMAIN more[b] /\ more[b][k] = rs[b][k]
                            /\ PastIn(more[b], k) = PastIn(rs[b], k)

\* An id goes on to lead there.
LEMMA LeadsKept ==
  ASSUME NEW rs, NEW more \in Seq(Seq(Seq(Pointer))), Extends(rs, more), NEW x, NEW id, Leads(rs, x, id)
  PROVE  Leads(more, x, id)
<1> DEFINE b == id_to_bnum(id)
           off == id_to_off(id)
<1>1. /\ At(rs, b, off) # {}
      /\ \A k \in At(rs, b, off) : \/ x \in {Highest, Key(Mark)}
                                   \/ \E i \in DOMAIN rs[b + 1][k] : Key(rs[b + 1][k][i].fp) = x
  BY Zenon DEF Leads
<1> HIDE DEF b, off
<1>2. PICK j : j \in At(rs, b, off)
  BY <1>1
<1>3. b + 1 \in DOMAIN rs /\ j \in DOMAIN rs[b + 1] /\ PointerSize * PastIn(rs[b + 1], j) = off
  BY <1>2, Zenon DEF At
<1>4. /\ b + 1 \in DOMAIN more /\ j \in DOMAIN more[b + 1] /\ more[b + 1][j] = rs[b + 1][j]
      /\ PastIn(more[b + 1], j) = PastIn(rs[b + 1], j)
  BY <1>3, Zenon DEF Extends
<1>5. j \in At(more, b, off)
  <2>1. PointerSize * PastIn(more[b + 1], j) = off
    BY <1>3, <1>4
  <2> QED BY <1>4, <2>1, Zenon DEF At
<1>6. ASSUME NEW k \in At(more, b, off)
      PROVE  \/ x \in {Highest, Key(Mark)}
             \/ \E i \in DOMAIN more[b + 1][k] : Key(more[b + 1][k][i].fp) = x
  <2>1. k = j
    BY <1>5, OneAt, Zenon
  <2>2. \/ x \in {Highest, Key(Mark)}
        \/ \E i \in DOMAIN rs[b + 1][j] : Key(rs[b + 1][j][i].fp) = x
    BY <1>1, <1>2, Zenon
  <2> QED BY <1>4, <2>1, <2>2, Zenon
<1>7. At(more, b, off) # {}
  BY <1>5
<1> QED BY <1>6, <1>7, Zenon DEF Leads, b, off

-----------------------------------------------------------------------------
(* The invariant.                                                          *)

\* An exact index knows every chunk that is stored; if it prefetches, what is unique in
\* flight is in no container, and no chunk is in two.
Known == config.exact => \A k \in DOMAIN containers : \A f \in containers[k] : kv[Key(f)] # <<>>
FreshExact ==
  Finds => \A k \in DOMAIN flight : \A i \in DOMAIN flight[k] :
    Unique(flight, k, i) => \A l \in DOMAIN containers : flight[k][i].fp \notin containers[l]
Once ==
  Finds => \A k \in DOMAIN containers : \A l \in DOMAIN containers :
    \A f \in containers[k] : f \in containers[l] => k = l
Served == champions \subseteq InRecipes /\ ChampionsServe

JInv ==
  /\ IInv /\ ~aborted /\ Sized /\ AllLeading(kv, recipes)
  /\ NoDoubles /\ Known /\ FreshExact /\ Once /\ Served

\* It holds at the beginning.
LEMMA JInit ==
  ASSUME Init
  PROVE  JInv
<1>1. IInv
  BY InitHolds
<1>2. /\ config \in Configs
      /\ recipes = << <<>> >> /\ read = 0 /\ flight = <<>>
      /\ kv = [k \in Keys \cup {Highest} |-> <<>>]
      /\ containers = <<>> /\ champions = {} /\ ~aborted
  BY Zenon DEF Init
<1>3. config.length \in Nat /\ config.segment \in Nat
  BY <1>2, ConfigIs
<1>4. Sized
  <2>1. Len(flight) = 0 /\ DOMAIN flight = {} /\ DOMAIN recipes = {1} /\ recipes[1] = <<>> /\ Len(recipes) = 1
        /\ DOMAIN recipes[1] = {}
    BY <1>2
  <2>2. PastOf(recipes[1]) = 0
    BY <2>1, PastNone
  <2>3. Takes(flight, 0)
    BY <2>1, SumNone DEF Takes
  <2>4. Room(read) = 0
    BY <1>2, <1>3 DEF Room
  <2>5. 0 + 0 <= 0 /\ 0 <= 3 * config.length + 2
    BY <1>3
  <2>6. PastOf(recipes[Len(recipes)]) + 0 <= Room(read)
    BY <2>1, <2>2, <2>4, <2>5
  <2>7. \A b \in DOMAIN recipes : PastOf(recipes[b]) <= 3 * config.length + 2 /\ DOMAIN recipes[b] = {}
    BY <2>1, <2>2, <2>5
  <2> QED BY <2>1, <2>3, <2>6, <2>7, Zenon DEF Sized
<1>5. AllLeading(kv, recipes)
  <2>1. \A x \in DOMAIN kv : Range(kv[x]) = {}
    BY <1>2 DEF Range
  <2> QED BY <2>1 DEF AllLeading
<1>6. DOMAIN containers = {} /\ DOMAIN flight = {} /\ \A x \in DOMAIN kv : DOMAIN kv[x] = {}
  BY <1>2
<1>7. NoDoubles /\ Known /\ FreshExact /\ Once
  BY <1>6, Zenon DEF NoDoubles, Known, FreshExact, Once
<1>8. Served
  BY <1>2 DEF Served, ChampionsServe
<1> QED BY <1>1, <1>2, <1>4, <1>5, <1>7, <1>8, Zenon DEF JInv

-----------------------------------------------------------------------------
(* A segment is looked up.                                                 *)

\* More of the stream is in flight.
LEMMA SizedAppend ==
  ASSUME Shape, Sized, NEW s \in Seq(ChunkType), ChunkCount(s) <= config.segment,
         UNCHANGED <<config, recipes>>, flight' = Append(flight, s), read' \in Nat,
         Room(read) + (ChunkCount(s) + 2) <= Room(read')
  PROVE  Sized'
<1>1. /\ flight \in Seq(Seq(ChunkType)) /\ recipes \in Seq(Seq(Seq(Pointer))) /\ recipes # <<>>
      /\ config \in Configs /\ read \in 0..(config.length + 1)
  BY DEF Shape
<1>2. PICK t : Takes(flight, t) /\ PastOf(recipes[Len(recipes)]) + t <= Room(read)
  BY DEF Sized
<1>3. Takes(flight', t + (ChunkCount(s) + 2))
  BY <1>1, <1>2, TakesAppend
<1>4. PastOf(recipes[Len(recipes)]) + (t + (ChunkCount(s) + 2)) <= Room(read')
  <2>1. recipes[Len(recipes)] \in Seq(Seq(Pointer))
    BY <1>1
  <2> DEFINE p == PastOf(recipes[Len(recipes)])
             c == ChunkCount(s)
             r == Room(read)
             r2 == Room(read')
  <2>2. p \in Nat /\ c \in Nat /\ t \in Nat /\ r \in Nat /\ p + t <= r /\ r + (c + 2) <= r2
    BY <1>1, <1>2, <2>1, PastType, ChunkCountIs, RoomIs DEF Takes
  <2>3. r2 \in Int
    <3>1. config.length \in Nat /\ (read' <= config.length \/ ~(read' <= config.length))
      BY <1>1, ConfigIs
    <3>2. r2 = IF read' <= config.length THEN 3 * read' ELSE 3 * config.length + 2
      BY DEF Room
    <3> QED BY <3>1, <3>2
  <2> HIDE DEF p, c, r, r2
  <2>4. p + (t + (c + 2)) <= r2
    BY <2>2, <2>3
  <2> QED BY <2>4 DEF p, c, r2
<1>5. \A k \in DOMAIN flight' : ChunkCount(flight'[k]) <= config.segment
  <2>1. \A k \in DOMAIN flight : ChunkCount(flight[k]) <= config.segment
    BY Zenon DEF Sized
  <2>2. \A k \in DOMAIN flight' : (k \in DOMAIN flight /\ flight'[k] = flight[k]) \/ flight'[k] = s
    BY <1>1
  <2> QED BY <2>1, <2>2
<1>6. /\ \A b \in DOMAIN recipes : \A k \in DOMAIN recipes[b] : Len(recipes[b][k]) <= config.segment
      /\ \A b \in DOMAIN recipes : PastOf(recipes[b]) <= 3 * config.length + 2
  BY Zenon DEF Sized
<1>7. recipes' = recipes /\ config' = config
  OBVIOUS
<1>8. Room(read)' = Room(read')
  BY <1>7 DEF Room
<1> QED BY <1>3, <1>4, <1>5, <1>6, <1>7, <1>8, Zenon DEF Sized

\* Nothing is stored.
LEMMA Unstored ==
  ASSUME AllLeading(kv, recipes), NoDoubles, Known, Once, UNCHANGED <<config, recipes, kv, containers>>
  PROVE  AllLeading(kv, recipes)' /\ NoDoubles' /\ Known' /\ Once'
<1>1. config' = config /\ recipes' = recipes /\ kv' = kv /\ containers' = containers
  OBVIOUS
<1>2. \A f : Key(f)' = Key(f)
  BY <1>1 DEF Key
<1>3. Known'
  BY <1>1, <1>2, Zenon DEF Known, Key
<1>4. Once'
  BY <1>1, Zenon DEF Once, Finds
<1>6. NoDoubles'
  BY <1>1, Zenon DEF NoDoubles
<1>5. AllLeading(kv, recipes)'
  <2>1. ASSUME NEW x, NEW id, Leads(recipes, x, id) PROVE Leads(recipes, x, id)'
    <3>1. Leads(recipes', x, id)
      BY <1>1, <2>1
    <3> QED BY <1>1, <3>1 DEF Leads, Key
  <2> QED BY <1>1, <2>1 DEF AllLeading
<1> QED BY <1>3, <1>4, <1>5, <1>6

\* A segment that is looked up takes what its weight gives.
LEMMA DedupSized ==
  ASSUME Shape, Sized, NEW fps \in Segments, DedupSegment(fps), NEW l, NEW c, LookInv(l, c, fps, Len(fps)),
         flight' = Append(flight, l.segment)
  PROVE  Sized'
<1> DEFINE s == l.segment
           n == Cardinality(ChunksAt(fps, Len(fps)))
<1>1. fps \in Seq(FP \cup {Mark}) /\ n <= config.segment
  BY SegmentsAre
<1>2. s \in Seq(ChunkType) /\ Len(s) = Len(fps) /\ \A j \in 1..Len(fps) : s[j].fp = fps[j]
  <2>1. l \in LookRecord /\ Len(s) = Len(fps) /\ \A j \in 1..Len(fps) : s[j].fp = fps[j]
    BY Zenon DEF LookInv
  <2> QED BY <2>1 DEF LookRecord
<1>3. ChunkCount(s) = n
  BY <1>2, ChunkCountOf
<1>4. read + Weight(fps) <= config.length /\ read' = read + Weight(fps) /\ UNCHANGED <<config, recipes>>
  BY DEF DedupSegment
<1>5. Weight(fps) \in Nat \ {0} /\ n <= Weight(fps) /\ n \in Nat
  BY <1>1, WeightIs
<1>6. config \in Configs /\ read \in 0..(config.length + 1) /\ config.length \in Nat
  BY ConfigIs DEF Shape
<1> HIDE DEF n
<1>7. Room(read) + (n + 2) <= Room(read')
  <2> DEFINE w == Weight(fps)
             m == config.length
  <2>1. Room(read) = (IF read <= m THEN 3 * read ELSE 3 * m + 2)
        /\ Room(read') = (IF read' <= m THEN 3 * read' ELSE 3 * m + 2)
    BY DEF Room
  <2>2. w \in Nat \ {0} /\ m \in Nat /\ read \in Nat /\ read + w <= m /\ read' = read + w /\ n <= w /\ n \in Nat
    BY <1>4, <1>5, <1>6
  <2> HIDE DEF w, m
  <2> QED BY <2>1, <2>2
<1> HIDE DEF s
<1>8. flight' = Append(flight, s)
  BY DEF s
<1>9. Room(read) + (ChunkCount(s) + 2) <= Room(read') /\ ChunkCount(s) <= config.segment
  BY <1>1, <1>3, <1>7
<1>10. read' \in Nat
  BY <1>4, <1>5, <1>6
<1> QED BY <1>2, <1>4, <1>8, <1>9, <1>10, SizedAppend

\* A chunk that is not in the index is in no container.
LEMMA DedupFresh ==
  ASSUME IInv, Known, FreshExact, AllReadable, AllLead, NEW fps \in Seq(FP \cup {Mark}), NEW l, NEW c,
         LookInv(l, c, fps, Len(fps)),
         flight' = Append(flight, l.segment), UNCHANGED <<config, kv, containers>>
  PROVE  FreshExact'
<1> SUFFICES ASSUME Finds, NEW k \in DOMAIN flight', NEW i \in DOMAIN flight'[k], Unique(flight', k, i),
                    NEW m \in DOMAIN containers
             PROVE  flight'[k][i].fp \notin containers[m]
  <2>1. config' = config /\ containers' = containers
    OBVIOUS
  <2> QED BY <2>1, Zenon DEF FreshExact, Finds, Unique
<1> DEFINE s == l.segment
<1>1. flight \in Seq(Seq(ChunkType))
  BY DEF IInv, Shape
<1>2. s \in Seq(ChunkType) /\ Len(s) = Len(fps) /\ \A j \in 1..Len(fps) : s[j].fp = fps[j]
  <2>1. l \in LookRecord /\ Len(s) = Len(fps) /\ \A j \in 1..Len(fps) : s[j].fp = fps[j]
    BY Zenon DEF LookInv
  <2> QED BY <2>1 DEF LookRecord
<1>3. \A j \in 1..Len(fps) : fps[j] # Mark /\ ~s[j].dup => kv[Key(fps[j])] = <<>>
  BY Zenon DEF LookInv
<1> HIDE DEF s
<1>4. flight' = Append(flight, s)
  BY DEF s
<1>5. (k \in DOMAIN flight /\ flight'[k] = flight[k]) \/ flight'[k] = s
  BY <1>1, <1>2, <1>4
<1>6. CASE k \in DOMAIN flight /\ flight'[k] = flight[k]
  <2>1. i \in DOMAIN flight[k] /\ Unique(flight, k, i)
    BY <1>6, Zenon DEF Unique
  <2> QED BY <1>6, <2>1, Zenon DEF FreshExact
<1>7. CASE flight'[k] = s
  <2>1. i \in 1..Len(fps) /\ s[i].fp # Mark /\ ~s[i].dup
    BY <1>2, <1>7 DEF Unique
  <2>2. s[i].fp = fps[i]
    BY <1>2, <2>1
  <2>3. kv[Key(s[i].fp)] = <<>>
    BY <1>3, <2>1, <2>2
  <2> QED BY <1>7, <2>3, Zenon DEF Known, Finds
<1> QED BY <1>5, <1>6, <1>7

\* What a champion has is a duplicate.
LEMMA DedupServed ==
  ASSUME IInv, Sized, IdsFit, AllReadable, AllLead, NEW fps \in Seq(FP \cup {Mark}), DedupSegment(fps), NEW l, NEW c,
         LookInv(l, c, fps, Len(fps)), flight' = Append(flight, l.segment),
         AllReadable /\ AllFit =>
           \A s \in champions' : /\ s[1] + 1 \in DOMAIN recipes /\ s[2] \in DOMAIN recipes[s[1] + 1]
                                 /\ \E t \in Range(c) : LeadsTo(SegmentId(s[1], s[2]), t)
  PROVE  Served'
<1> DEFINE s == l.segment
<1>1. Shape
  BY Zenon DEF IInv
<1>2. recipes \in Seq(Seq(Seq(Pointer))) /\ recipes # <<>> /\ flight \in Seq(Seq(ChunkType)) /\ config.length \in Nat
  BY <1>1, ConfigIs DEF Shape
<1>3. UNCHANGED <<config, recipes>>
  BY DEF DedupSegment
<1>4. champions' \subseteq InRecipes
  <2>1. \E top : champions' = {t \in (0..Backup) \X (1..config.length+1) :
                        t[2] \in DOMAIN recipes[t[1]+1] /\ SegmentId(t[1], t[2]) \in Range(top)}
    BY Zenon DEF DedupSegment
  <2> SUFFICES ASSUME NEW t \in champions' PROVE t \in InRecipes
    OBVIOUS
  <2>2. t \in (0..Backup) \X (1..config.length+1) /\ t[2] \in DOMAIN recipes[t[1]+1]
    BY <2>1
  <2>3. Len(recipes) \in Nat /\ DOMAIN recipes = 1..Len(recipes)
    BY <1>2
  <2>4. t[1] \in Nat /\ t[1] + 1 \in DOMAIN recipes
    BY <2>2, <2>3 DEF Backup
  <2>5. t \in Nat \X Nat
    BY <1>2, <2>2, <2>4
  <2> QED BY <2>2, <2>4, <2>5 DEF InRecipes
<1>5. l \in LookRecord /\ Len(s) = Len(fps) /\ (\A j \in 1..Len(fps) : s[j].fp = fps[j])
      /\ (~AsksIndex => /\ Range(c) \subseteq Range(l.cache)
                        /\ \A j \in 1..Len(fps) : (\E t \in Range(c) : HoldsFp(t, fps[j])) => s[j].dup)
  BY Zenon DEF LookInv
<1>6. s \in Seq(ChunkType) /\ l.cache \in Seq(InRecipes)
  BY <1>5 DEF LookRecord
<1>7. \A t \in Range(l.cache) : t \in InRecipes
  BY <1>6 DEF Range
<1> HIDE DEF s
<1>8. flight' = Append(flight, s)
  BY DEF s
<1>9. Last(flight') = s
  BY <1>2, <1>6, <1>8 DEF Last
<1>10. ASSUME ~AsksIndex, AllFit, NEW i \in DOMAIN s, NEW u \in champions', HoldsFp(u, s[i].fp)
       PROVE  s[i].dup
  <2>1. PICK t \in Range(c) : LeadsTo(SegmentId(u[1], u[2]), t)
    BY <1>10, Zenon
  <2>2. t \in InRecipes /\ u \in InRecipes
    BY <1>4, <1>5, <1>7, <1>10
  <2> DEFINE id == SegmentId(u[1], u[2])
  <2>3. id_to_bnum(id) = u[1] /\ u[2] \in SegmentsAt(u[1], id_to_off(id))
    BY <1>1, <2>2, IdTells, Zenon
  <2>4. t = u
    <3>1. CASE SegmentId(t[1], t[2]) = id
      BY <1>1, <2>2, <3>1, IdsDiffer, Zenon
    <3>2. CASE \E k \in SegmentsAt(id_to_bnum(id), id_to_off(id)) : SegmentId(t[1], t[2]) = SegmentId(id_to_bnum(id), k)
      <4>1. PICK k \in SegmentsAt(u[1], id_to_off(id)) : SegmentId(t[1], t[2]) = SegmentId(u[1], k)
        BY <2>3, <3>2, Zenon
      <4>2. k = u[2]
        <5>1. k \in At(recipes, u[1], id_to_off(id)) /\ u[2] \in At(recipes, u[1], id_to_off(id))
          BY <2>3, <4>1, AtIs, Zenon
        <5> QED BY <1>2, <5>1, OneAt, Zenon
      <4>3. SegmentId(t[1], t[2]) = SegmentId(u[1], u[2])
        BY <4>1, <4>2
      <4> QED BY <1>1, <2>2, <4>3, IdsDiffer, Zenon
    <3> QED BY <2>1, <3>1, <3>2, Zenon DEF LeadsTo
  <2>5. i \in 1..Len(fps) /\ s[i].fp = fps[i]
    <3>1. i \in 1..Len(fps)
      BY <1>5, <1>6 DEF s
    <3> QED BY <1>5, <3>1 DEF s
  <2>6. HoldsFp(t, fps[i])
    BY <1>10, <2>4, <2>5
  <2> QED BY <1>5, <1>10, <2>5, <2>6, Zenon DEF s
<1>11. config' = config /\ recipes' = recipes
  BY <1>3
<1>12. ChampionsServe'
  <2> SUFFICES ASSUME ~AsksIndex', config'.prefetch > 0,
                      config'.top = 1 \/ config'.top * config'.prefetch <= config'.cache,
                      NEW i \in DOMAIN Last(flight'), NEW u \in champions',
                      \E j \in DOMAIN recipes'[u[1]+1][u[2]] : recipes'[u[1]+1][u[2]][j].fp = Last(flight')[i].fp
               PROVE  Last(flight')[i].dup
    BY Zenon DEF ChampionsServe, HoldsFp, Pointers
  <2>1. ~AsksIndex
    BY <1>11, Zenon DEF AsksIndex
  <2>2. AllFit
    BY <1>11, Zenon DEF AllFit
  <2>3. Last(flight') = s
    BY <1>9
  <2>4. HoldsFp(u, s[i].fp)
    BY <1>11, <2>3, Zenon DEF HoldsFp, Pointers
  <2> QED BY <1>10, <2>1, <2>2, <2>3, <2>4, Zenon
<1>13. InRecipes' = InRecipes
  BY <1>11 DEF InRecipes
<1> QED BY <1>4, <1>12, <1>13 DEF Served

\* DedupSegment keeps the invariant.
LEMMA DedupJ ==
  ASSUME IdsFit, JInv, NEW fps \in Segments, DedupSegment(fps)
  PROVE  JInv'
<1>1. /\ IInv /\ ~aborted /\ Sized /\ AllLeading(kv, recipes)
      /\ NoDoubles /\ Known /\ FreshExact /\ Once /\ Served /\ Shape
  BY Zenon DEF JInv, IInv
<1>2. fps \in Seq(FP \cup {Mark})
  BY <1>1, SegmentsAre
<1>3. AllReadable /\ AllLead
  BY <1>1, AllLeadIs, Zenon
<1>4. PICK l, c : /\ LookInv(l, c, fps, Len(fps))
                  /\ cache' = l.cache /\ buffered' = l.buffered
                  /\ NoDoubles /\ ~l.aborted => ~aborted'
                  /\ flight' = Append(flight, l.segment)
                  /\ AllReadable /\ AllFit =>
                       \A s \in champions' : /\ s[1] + 1 \in DOMAIN recipes /\ s[2] \in DOMAIN recipes[s[1] + 1]
                                             /\ \E t \in Range(c) : LeadsTo(SegmentId(s[1], s[2]), t)
  BY <1>1, <1>2, DedupIs, Zenon
<1>5. UNCHANGED <<config, recipes, kv, containers>>
  BY DEF DedupSegment
<1>6. IInv'
  BY <1>1, DedupKeeps, Zenon
<1>7. ~aborted'
  <2>1. ~l.aborted
    BY <1>3, <1>4, Zenon DEF LookInv
  <2> QED BY <1>1, <1>4, <2>1, Zenon
<1>8. Sized'
  BY <1>1, <1>4, DedupSized, Zenon
<1>9. AllLeading(kv, recipes)' /\ NoDoubles' /\ Known' /\ Once'
  BY <1>1, <1>5, Unstored
<1>10. FreshExact'
  BY <1>1, <1>2, <1>3, <1>4, <1>5, DedupFresh
<1>11. Served'
  BY <1>1, <1>2, <1>3, <1>4, DedupServed
<1> QED BY <1>6, <1>7, <1>8, <1>9, <1>10, <1>11, Zenon DEF JInv

-----------------------------------------------------------------------------
(* The stream ends, and the next backup begins.                            *)

\* EndOfStream keeps the invariant.
LEMMA EndJ ==
  ASSUME JInv, EndOfStream
  PROVE  JInv'
<1>1. /\ IInv /\ ~aborted /\ Sized /\ AllLeading(kv, recipes)
      /\ NoDoubles /\ Known /\ FreshExact /\ Once /\ Shape
  BY Zenon DEF JInv, IInv
<1>2. /\ UNCHANGED <<config, recipes, buffered, cache, kv, containers, open, aborted>>
      /\ flight' = Append(flight, <<>>) /\ read' = config.length + 1 /\ read <= config.length
      /\ champions' = {}
  BY DEF EndOfStream
<1>3. IInv'
  BY <1>1, EndKeeps, Zenon
<1>4. config.length \in Nat /\ config.segment \in Nat /\ read \in Nat /\ flight \in Seq(Seq(ChunkType))
  BY <1>1, ConfigIs, SMTT(30) DEF Shape
<1>5. Sized'
  <2> DEFINE s == <<>>
  <2>1. s \in Seq(ChunkType) /\ DOMAIN s = {}
    OBVIOUS
  <2>2. ChunkCount(s) = 0
    <3>1. {i \in DOMAIN s : IsChunk(s[i].fp)} = {}
      BY <2>1
    <3> QED BY <3>1, FS_EmptySet DEF ChunkCount
  <2>3. Room(read) + (0 + 2) <= Room(read') /\ read' \in Nat /\ 0 <= config.segment
    BY <1>2, <1>4 DEF Room
  <2>4. flight' = Append(flight, s)
    BY <1>2
  <2> HIDE DEF s
  <2>5. Room(read) + (ChunkCount(s) + 2) <= Room(read') /\ ChunkCount(s) <= config.segment
    BY <2>2, <2>3
  <2> QED BY <1>1, <1>2, <2>1, <2>3, <2>4, <2>5, SizedAppend
<1>6. AllLeading(kv, recipes)' /\ NoDoubles' /\ Known' /\ Once'
  BY <1>1, <1>2, Unstored
<1>7. FreshExact'
  <2>1. \A k \in DOMAIN flight' : (k \in DOMAIN flight /\ flight'[k] = flight[k]) \/ DOMAIN flight'[k] = {}
    BY <1>2, <1>4
  <2>2. config' = config /\ containers' = containers
    BY <1>2
  <2>3. ASSUME Finds, NEW k \in DOMAIN flight', NEW i \in DOMAIN flight'[k], Unique(flight', k, i),
               NEW m \in DOMAIN containers
        PROVE  flight'[k][i].fp \notin containers[m]
    <3>1. k \in DOMAIN flight /\ flight'[k] = flight[k]
      BY <2>1, <2>3
    <3>2. i \in DOMAIN flight[k] /\ Unique(flight, k, i)
      BY <2>3, <3>1, Zenon DEF Unique
    <3> QED BY <1>1, <2>3, <3>1, <3>2, Zenon DEF FreshExact
  <2> QED BY <2>2, <2>3, Zenon DEF FreshExact, Finds, Unique
<1>8. Served'
  BY <1>2 DEF Served, ChampionsServe
<1>9. ~aborted'
  BY <1>1, <1>2
<1> QED BY <1>3, <1>5, <1>6, <1>7, <1>8, <1>9, Zenon DEF JInv

\* NextSession keeps it: the new recipe has no segment an id could lead to.
LEMMA SessionJ ==
  ASSUME JInv, NextSession
  PROVE  JInv'
<1>1. /\ IInv /\ ~aborted /\ Sized /\ AllLeading(kv, recipes)
      /\ NoDoubles /\ Known /\ FreshExact /\ Once /\ Shape
  BY Zenon DEF JInv, IInv
<1>2. /\ UNCHANGED <<config, flight, buffered, kv, containers, aborted>>
      /\ recipes' = Append(recipes, <<>>) /\ flight = <<>>
      /\ read' = 0 /\ champions' = {}
  BY DEF NextSession
<1>3. IInv'
  BY <1>1, SessionKeeps, Zenon
<1>4. config' = config /\ flight' = <<>> /\ kv' = kv /\ containers' = containers /\ DOMAIN flight' = {}
      /\ Len(flight') = 0
  BY <1>2
<1>5. /\ recipes \in Seq(Seq(Seq(Pointer))) /\ Len(recipes) \in Nat
      /\ recipes' \in Seq(Seq(Seq(Pointer))) /\ Len(recipes') = Len(recipes) + 1
      /\ DOMAIN recipes' = 1..(Len(recipes) + 1) /\ DOMAIN recipes = 1..Len(recipes)
      /\ \A b \in 1..Len(recipes) : recipes'[b] = recipes[b]
      /\ recipes'[Len(recipes) + 1] = <<>>
  <2>1. recipes \in Seq(Seq(Seq(Pointer))) /\ <<>> \in Seq(Seq(Pointer))
    BY <1>1 DEF Shape
  <2> QED BY <1>2, <2>1, AppendProperties
<1>6. config.length \in Nat
  BY <1>1, ConfigIs DEF Shape
<1>7. ASSUME NEW b \in DOMAIN recipes'
      PROVE  (b \in DOMAIN recipes /\ recipes'[b] = recipes[b]) \/ recipes'[b] = <<>>
  <2>1. b \in 1..Len(recipes) \/ b = Len(recipes) + 1
    BY <1>5
  <2>2. CASE b \in 1..Len(recipes)
    BY <1>5, <2>2
  <2>3. CASE b = Len(recipes) + 1
    BY <1>5, <2>3
  <2> QED BY <2>1, <2>2, <2>3
<1>8. Sized'
  <2>1. Takes(flight', 0)
    BY <1>4, SumNone DEF Takes
  <2>2. PastOf(<<>>) = 0 /\ DOMAIN <<>> = {} /\ 0 <= 3 * config.length + 2 /\ Room(0) = 0
    BY <1>6, PastNone DEF Room
  <2>3. /\ \A b \in DOMAIN recipes : \A k \in DOMAIN recipes[b] : Len(recipes[b][k]) <= config.segment
        /\ \A b \in DOMAIN recipes : PastOf(recipes[b]) <= 3 * config.length + 2
    BY <1>1, Zenon DEF Sized
  <2>4. ASSUME NEW b \in DOMAIN recipes'
        PROVE  /\ \A k \in DOMAIN recipes'[b] : Len(recipes'[b][k]) <= config.segment
               /\ PastOf(recipes'[b]) <= 3 * config.length + 2
    <3>1. CASE b \in DOMAIN recipes /\ recipes'[b] = recipes[b]
      BY <2>3, <3>1
    <3>2. CASE recipes'[b] = <<>>
      BY <2>2, <3>2
    <3> QED BY <1>7, <3>1, <3>2
  <2>5. Room(read)' = 0
    BY <1>2, <1>4, <1>6 DEF Room
  <2>6. PastOf(recipes'[Len(recipes')]) + 0 <= 0
    BY <1>5, <2>2
  <2>7. PastOf(recipes'[Len(recipes')]) + 0 <= Room(read)'
    BY <2>5, <2>6
  <2> QED BY <1>4, <2>1, <2>4, <2>7, Zenon DEF Sized
<1>9. AllLeading(kv, recipes)'
  <2>1. Extends(recipes, recipes')
    BY <1>5 DEF Extends
  <2>2. ASSUME NEW x, NEW id, Leads(recipes, x, id) PROVE Leads(recipes, x, id)'
    <3>1. Leads(recipes', x, id)
      BY <1>5, <2>1, <2>2, LeadsKept
    <3> QED BY <1>4, <3>1 DEF Leads, Key
  <2> QED BY <1>1, <1>4, <2>2 DEF AllLeading
<1>10. Known'
  <2>1. \A f : Key(f)' = Key(f)
    BY <1>4 DEF Key
  <2> QED BY <1>1, <1>4, <2>1, Zenon DEF Known, Key
<1>11. FreshExact'
  BY <1>4, Zenon DEF FreshExact
<1>12. Once' /\ NoDoubles'
  <2>1. Once'
    BY <1>1, <1>4, Zenon DEF Once, Finds
  <2>2. kv' = kv /\ NoDoubles
    BY <1>1, <1>4, Zenon
  <2>3. NoDoubles'
    BY <2>2 DEF NoDoubles
  <2> QED BY <2>1, <2>3
<1>13. Served'
  BY <1>2 DEF Served, ChampionsServe
<1>14. ~aborted'
  BY <1>1, <1>2
<1> QED BY <1>3, <1>8, <1>9, <1>10, <1>11, <1>12, <1>13, <1>14, Zenon DEF JInv

-----------------------------------------------------------------------------
(* A segment is filtered.                                                  *)

\* The recipe gets a pointer for each chunk.
LEMMA FilteredLength ==
  ASSUME IInv, NEW s, NEW w, NEW sid, NEW features, Filtered(s, w, sid, features)
  PROVE  /\ Recorded(recipes', PointersOf(w.segment)) /\ Len(PointersOf(w.segment)) = ChunkCount(s)
         /\ s \in Seq(ChunkType) /\ ChunkCount(s) \in Nat /\ flight # <<>> /\ s = flight[1] /\ 1 \in DOMAIN flight
<1>1. Recorded(recipes', PointersOf(w.segment)) /\ Len(PointersOf(w.segment)) = Cardinality(ChunksAt(Fps(s), Len(s)))
  BY FilteredRecipe
<1>2. s \in Seq(ChunkType) /\ s = flight[1] /\ 1 \in DOMAIN flight
  BY FilteredBuffer, Zenon
<1>3. ChunkCount(s) \in Nat /\ ChunkCount(s) = Cardinality(ChunksAt(Fps(s), Len(s)))
  BY <1>2, ChunkCountIs
<1>4. flight # <<>>
  BY Zenon DEF Filtered
<1> QED BY <1>1, <1>2, <1>3, <1>4

\* What was in flight is in the recipe.
LEMMA FilteredSized ==
  ASSUME IInv, Sized, NEW s, NEW w, NEW sid, NEW features, Filtered(s, w, sid, features)
  PROVE  Sized'
<1> DEFINE p == PointersOf(w.segment)
           n == Len(recipes)
           old == recipes[n]
           c == ChunkCount(s)
<1>1. /\ Recorded(recipes', p) /\ Len(p) = c
      /\ s \in Seq(ChunkType) /\ c \in Nat /\ flight # <<>> /\ s = flight[1] /\ 1 \in DOMAIN flight
  BY FilteredLength, Zenon
<1>2. flight \in Seq(Seq(ChunkType)) /\ config \in Configs /\ read \in 0..(config.length + 1)
  BY DEF IInv, Shape
<1>3. config' = config /\ read' = read /\ flight' = Tail(flight)
  BY DEF Filtered
<1> HIDE DEF p, c
<1>4. /\ recipes' \in Seq(Seq(Seq(Pointer))) /\ Len(recipes') = n /\ n \in DOMAIN recipes
      /\ old \in Seq(Seq(Pointer)) /\ p \in Seq(Pointer)
      /\ recipes'[n] = Append(old, p)
      /\ \A b \in DOMAIN recipes : b # n => recipes'[b] = recipes[b]
  BY <1>1, Zenon DEF Recorded
<1>5. \A b \in DOMAIN recipes' : b \in DOMAIN recipes /\
        \A k \in DOMAIN recipes'[b] :
          (k \in DOMAIN recipes[b] /\ recipes'[b][k] = recipes[b][k])
          \/ (b = n /\ k = Len(recipes[b]) + 1 /\ recipes'[b][k] = p)
  BY <1>1, RecordedKeeps, Zenon
<1>6. /\ \A b \in DOMAIN recipes : \A k \in DOMAIN recipes[b] : Len(recipes[b][k]) <= config.segment
      /\ \A k \in DOMAIN flight : ChunkCount(flight[k]) <= config.segment
      /\ \A b \in DOMAIN recipes : PastOf(recipes[b]) <= 3 * config.length + 2
  BY Zenon DEF Sized
<1>7. PICK t : Takes(flight, t) /\ PastOf(recipes[Len(recipes)]) + t <= Room(read)
  BY DEF Sized
<1>8. PastOf(recipes'[n]) = PastOf(old) + c + 2 /\ PastOf(old) \in Nat
  <2> HIDE DEF old
  <2> QED BY <1>1, <1>4, PastAppend, PastType
<1>9. c + 2 <= t /\ Takes(Tail(flight), t - (c + 2)) /\ t \in Nat
  <2>1. ChunkCount(flight[1]) = c
    BY <1>1 DEF c
  <2>2. ChunkCount(flight[1]) + 2 <= t /\ Takes(Tail(flight), t - (ChunkCount(flight[1]) + 2))
    BY <1>1, <1>2, <1>7, TakesTail
  <2> QED BY <1>7, <2>1, <2>2 DEF Takes
<1>10. Room(read) \in Nat /\ Room(read) <= 3 * config.length + 2 /\ config.length \in Nat
  BY <1>2, RoomIs, ConfigIs
<1>11. /\ PastOf(recipes'[n]) + (t - (c + 2)) <= Room(read)
       /\ PastOf(recipes'[n]) <= 3 * config.length + 2
  <2> DEFINE q == PastOf(old)
             r == Room(read)
  <2>1. q \in Nat /\ r \in Nat /\ q + t <= r /\ PastOf(recipes'[n]) = q + c + 2
    BY <1>7, <1>8, <1>10
  <2> HIDE DEF q, r
  <2>2. PastOf(recipes'[n]) + (t - (c + 2)) <= r /\ PastOf(recipes'[n]) <= r
    BY <1>1, <1>9, <2>1
  <2> QED BY <1>1, <1>8, <1>10, <2>1, <2>2 DEF r
<1>12. \A k \in DOMAIN flight' : ChunkCount(flight'[k]) <= config.segment
  <2>1. \A k \in DOMAIN flight' : k + 1 \in DOMAIN flight /\ flight'[k] = flight[k + 1]
    BY <1>1, <1>2, <1>3
  <2> QED BY <1>6, <2>1
<1>13. c <= config.segment
  BY <1>1, <1>6 DEF c
<1>14. ASSUME NEW b \in DOMAIN recipes', NEW k \in DOMAIN recipes'[b]
       PROVE  Len(recipes'[b][k]) <= config.segment
  <2>1. b \in DOMAIN recipes /\
          ((k \in DOMAIN recipes[b] /\ recipes'[b][k] = recipes[b][k]) \/ recipes'[b][k] = p)
    BY <1>5, Zenon
  <2> QED BY <1>1, <1>6, <1>13, <2>1
<1>15. ASSUME NEW b \in DOMAIN recipes'
       PROVE  PastOf(recipes'[b]) <= 3 * config.length + 2
  <2>1. b \in DOMAIN recipes
    BY <1>5, Zenon
  <2>2. CASE b = n
    BY <1>11, <2>2
  <2>3. CASE b # n
    BY <1>4, <1>6, <2>1, <2>3
  <2> QED BY <2>2, <2>3
<1>16. Room(read)' = Room(read)
  BY <1>3 DEF Room
<1> HIDE DEF n, old
<1>17. Takes(flight', t - (c + 2)) /\ PastOf(recipes'[Len(recipes')]) + (t - (c + 2)) <= Room(read)'
  BY <1>3, <1>4, <1>9, <1>11, <1>16
<1> QED BY <1>3, <1>12, <1>14, <1>15, <1>17, Zenon DEF Sized

\* A segment more at the end of the last recipe leaves the others where they are.
LEMMA FilteredExtends ==
  ASSUME NEW pointers, Recorded(recipes', pointers)
  PROVE  Extends(recipes, recipes')
<1>1. /\ recipes[Len(recipes)] \in Seq(Seq(Pointer)) /\ pointers \in Seq(Pointer)
      /\ recipes'[Len(recipes)] = Append(recipes[Len(recipes)], pointers)
      /\ \A b \in DOMAIN recipes : b # Len(recipes) => recipes'[b] = recipes[b]
  BY Zenon DEF Recorded
<1>2. \A b \in DOMAIN recipes : b \in DOMAIN recipes' /\
        \A k \in DOMAIN recipes[b] : k \in DOMAIN recipes'[b] /\ recipes'[b][k] = recipes[b][k]
  BY RecordedKeeps
<1>3. ASSUME NEW b \in DOMAIN recipes, NEW k \in DOMAIN recipes[b]
      PROVE  PastIn(recipes'[b], k) = PastIn(recipes[b], k)
  <2> DEFINE old == recipes[Len(recipes)]
  <2>1. CASE b = Len(recipes)
    <3>1. \A q \in Seq(Pointer) : \A j \in 1..(Len(old) + 1) : PastIn(Append(old, q), j) = PastIn(old, j)
      BY <1>1, PastInIs
    <3>2. k \in 1..(Len(old) + 1)
      <4>1. Len(old) \in Nat /\ DOMAIN old = 1..Len(old) /\ k \in DOMAIN old
        BY <1>1, <2>1
      <4> HIDE DEF old
      <4> QED BY <4>1
    <3> QED BY <1>1, <2>1, <3>1, <3>2
  <2>2. CASE b # Len(recipes)
    BY <1>1, <2>2
  <2> QED BY <2>1, <2>2
<1> QED BY <1>2, <1>3, Zenon DEF Extends

\* The id that is made has the backup and the end of its recipe.
LEMMA FlagParts ==
  ASSUME Shape, Sized, IdsFit, NEW c \in Nat, c <= config.segment, NEW sid, sid = append_segment_flag(c)
  PROVE  /\ id_to_bnum(sid) = Backup /\ id_to_off(sid) = PointerSize * PastOf(recipes[Len(recipes)])
         /\ PastOf(recipes[Len(recipes)]) \in Nat /\ Backup \in Nat /\ Backup + 1 = Len(recipes)
<1> DEFINE n == Len(recipes)
           old == recipes[n]
           off == PointerSize * PastOf(old)
<1>1. n \in DOMAIN recipes
  BY DEF Shape
<1>2. sid = make_segment_id(Backup, off, c) /\ PastOf(old) \in Nat /\ Backup \in Nat /\ Backup + 1 = n
  BY FlagIs
<1>3. off \in Nat /\ off < OffRange /\ c < SizeRange
  <2>1. PastOf(old) <= 3 * config.length + 2
    BY <1>1, Zenon DEF Sized
  <2>2. config \in Configs /\ config.length \in Nat /\ config.segment \in Nat
        /\ config.segment < SizeRange /\ PointerSize * (3 * config.length + 2) < OffRange
        /\ SizeRange \in Nat /\ OffRange \in Nat
    BY ConfigIs, LogicalAssumption DEF Shape, IdsFit
  <2> DEFINE q == PastOf(old)
             m == config.length
             g == config.segment
  <2>3. q \in Nat /\ m \in Nat /\ q <= 3 * m + 2 /\ PointerSize * (3 * m + 2) < OffRange /\ OffRange \in Nat
        /\ g \in Nat /\ g < SizeRange /\ SizeRange \in Nat /\ c <= g
    BY <1>2, <2>1, <2>2
  <2> HIDE DEF q, m, g, old
  <2>4. PointerSize * q \in Nat /\ PointerSize * q < OffRange /\ c < SizeRange
    BY <2>3 DEF PointerSize
  <2> QED BY <2>4 DEF q
<1> HIDE DEF off
<1>4. id_to_bnum(sid) = Backup /\ id_to_off(sid) = off
  BY <1>2, <1>3, IdParts
<1> QED BY <1>2, <1>4 DEF off

\* The id that is made leads to the segment.
LEMMA FlagTells ==
  ASSUME Shape, Sized, IdsFit, NEW p, Recorded(recipes', p), NEW c \in Nat, c <= config.segment,
         NEW sid, sid = append_segment_flag(c)
  PROVE  /\ At(recipes', id_to_bnum(sid), id_to_off(sid)) # {}
         /\ \A k \in At(recipes', id_to_bnum(sid), id_to_off(sid)) : recipes'[id_to_bnum(sid) + 1][k] = p
<1> DEFINE n == Len(recipes)
           old == recipes[n]
           off == PointerSize * PastOf(old)
<1>1. /\ recipes' \in Seq(Seq(Seq(Pointer))) /\ Len(recipes') = n /\ n \in DOMAIN recipes
      /\ n \in Nat /\ DOMAIN recipes = 1..n /\ old \in Seq(Seq(Pointer)) /\ p \in Seq(Pointer)
      /\ recipes'[n] = Append(old, p)
  BY Zenon DEF Recorded
<1>4. /\ id_to_bnum(sid) = Backup /\ id_to_off(sid) = off
      /\ PastOf(old) \in Nat /\ Backup \in Nat /\ Backup + 1 = n
  BY FlagParts, Zenon
<1> HIDE DEF off
<1> DEFINE k1 == Len(old) + 1
<1>5. k1 \in DOMAIN recipes'[n] /\ recipes'[n][k1] = p /\ PastIn(recipes'[n], k1) = PastOf(old)
  <2> HIDE DEF old
  <2>1. Len(old) \in Nat /\ Len(old) + 1 \in 1..(Len(old) + 1)
    BY <1>1
  <2>2. Len(recipes'[n]) = Len(old) + 1 /\ recipes'[n][Len(old) + 1] = p /\ recipes'[n] \in Seq(Seq(Pointer))
    BY <1>1, AppendProperties
  <2>3. /\ PastIn(old, Len(old) + 1) = PastOf(old)
        /\ \A q \in Seq(Pointer) : \A j \in 1..(Len(old) + 1) : PastIn(Append(old, q), j) = PastIn(old, j)
    BY <1>1, PastInIs
  <2>4. PastIn(Append(old, p), k1) = PastIn(old, k1)
    BY <1>1, <2>1, <2>3
  <2> QED BY <1>1, <2>1, <2>2, <2>3, <2>4
<1>6. n \in DOMAIN recipes'
  BY <1>1
<1>7. k1 \in At(recipes', Backup, off)
  <2>1. PointerSize * PastIn(recipes'[n], k1) = off
    BY <1>5 DEF off
  <2> HIDE DEF n, k1
  <2> QED BY <1>4, <1>5, <1>6, <2>1, Zenon DEF At
<1>8. \A k \in At(recipes', Backup, off) : k = k1
  BY <1>1, <1>7, OneAt, Zenon
<1> HIDE DEF n, k1
<1>9. \A k \in At(recipes', Backup, off) : recipes'[Backup + 1][k] = p
  BY <1>4, <1>5, <1>8
<1> QED BY <1>4, <1>7, <1>9

\* Each of its features is the key of a chunk of the segment.
LEMMA FeaturesAre ==
  ASSUME IInv, NEW s, NEW w, NEW sid, NEW features, Filtered(s, w, sid, features)
  PROVE  /\ features \subseteq DOMAIN kv
         /\ \A x \in features : \/ x \in {Highest, Key(Mark)}
                                \/ \E i \in DOMAIN PointersOf(w.segment) : Key(PointersOf(w.segment)[i].fp) = x
         /\ \A f \in DOMAIN w.unique : f \in FP /\ \E j \in DOMAIN s : Unique(flight, 1, j) /\ s[j].fp = f
         /\ config.exact => \A f \in DOMAIN w.unique : Key(f) = f /\ f \in features
<1> DEFINE p == PointersOf(w.segment)
           row == w.segment
           u == DOMAIN w.unique
<1>1. Shape
  BY Zenon DEF IInv
<1>2. s \in Seq(ChunkType) /\ s = flight[1] /\ row \in Seq(ChunkType)
      /\ \A f \in FP : Cardinality(Here(row, f)) = Cardinality(Here(s, f))
  BY FilteredBuffer, Zenon
<1>3. \A j \in DOMAIN row : j \in DOMAIN p /\ p[j].fp = row[j].fp
  BY FilteredRecipe, Zenon
<1>4. features = sampling([i \in DOMAIN s |-> s[i].fp]) \cup (IF config.exact THEN u ELSE {})
  BY Zenon DEF Filtered, Features
<1>5. \A f : f \in u <=> \E j \in 1..Len(s) : Unique(flight, 1, j) /\ s[j].fp = f
  BY Zenon DEF Filtered, FilterInv, Uniques
<1> HIDE DEF u, row, p
<1>6. DOMAIN s = 1..Len(s) /\ Len(s) \in Nat /\ \A j \in DOMAIN s : s[j].fp \in FP \cup {Mark}
  <2>1. \A j \in DOMAIN s : s[j] \in ChunkType
    BY <1>2
  <2>2. \A c \in ChunkType : c.fp \in FP \cup {Mark}
    BY DEF ChunkType
  <2>3. DOMAIN s = 1..Len(s) /\ Len(s) \in Nat
    BY <1>2
  <2> QED BY <2>1, <2>2, <2>3
<1>7. \A f \in FP : (\E j \in DOMAIN s : s[j].fp = f) => \E i \in DOMAIN p : p[i].fp = f
  <2> SUFFICES ASSUME NEW f \in FP, \E j \in DOMAIN s : s[j].fp = f PROVE \E i \in DOMAIN p : p[i].fp = f
    OBVIOUS
  <2>1. Cardinality(Here(s, f)) # 0
    BY <1>2, HereNone
  <2>2. Cardinality(Here(row, f)) # 0
    BY <1>2, <2>1
  <2>3. \E i \in DOMAIN row : row[i].fp = f
    BY <1>2, <2>2, HereNone
  <2> QED BY <1>3, <2>3
<1>8. \A f \in u : f \in FP /\ \E j \in DOMAIN s : Unique(flight, 1, j) /\ s[j].fp = f
  <2> SUFFICES ASSUME NEW f \in u PROVE f \in FP /\ \E j \in DOMAIN s : Unique(flight, 1, j) /\ s[j].fp = f
    OBVIOUS
  <2>1. PICK j \in 1..Len(s) : Unique(flight, 1, j) /\ s[j].fp = f
    BY <1>5, Zenon
  <2>2. f # Mark
    BY <1>2, <2>1 DEF Unique
  <2> QED BY <1>6, <2>1, <2>2
<1> DEFINE fps == [i \in DOMAIN s |-> s[i].fp]
<1>9. fps \in Seq(FP \cup {Mark}) /\ DOMAIN fps = DOMAIN s /\ \A j \in DOMAIN s : fps[j] = s[j].fp
  <2>1. fps \in [1..Len(s) -> FP \cup {Mark}]
    BY <1>6
  <2> QED BY <1>6, <2>1
<1> HIDE DEF fps
<1>10. sampling(fps) \subseteq Featured(fps) /\ Featured(fps) \subseteq DOMAIN kv
  BY <1>1, <1>9, SamplingIs, FeaturedIs
<1>11. \A x \in Featured(fps) : x \in {Highest, Key(Mark)} \/ \E i \in DOMAIN p : Key(p[i].fp) = x
  <2> SUFFICES ASSUME NEW x \in KeysOf(fps) PROVE \E i \in DOMAIN p : Key(p[i].fp) = x
    BY DEF Featured
  <2>1. PICK j \in DOMAIN fps : fps[j] # Mark /\ Key(fps[j]) = x
    BY DEF KeysOf
  <2>2. s[j].fp \in FP /\ j \in DOMAIN s /\ Key(s[j].fp) = x
    BY <1>6, <1>9, <2>1
  <2>3. \E i \in DOMAIN p : p[i].fp = s[j].fp
    BY <1>7, <2>2
  <2> QED BY <2>2, <2>3
<1>12. ASSUME config.exact, NEW f \in u PROVE Key(f) = f /\ f \in features /\ f \in DOMAIN kv /\ \E i \in DOMAIN p : p[i].fp = f
  <2>1. f \in FP /\ f \in Nat /\ \E j \in DOMAIN s : s[j].fp = f
    BY <1>8, Marked
  <2>2. config.keys = 1
    BY <1>1, <1>12, ConfigIs DEF Shape
  <2>3. Key(f) = f
    BY <2>1, <2>2 DEF Key
  <2>4. f \in DOMAIN kv
    <3>1. Key(f) \in DOMAIN kv
      BY <1>1, <2>1, KeyIs
    <3> QED BY <2>3, <3>1
  <2> QED BY <1>4, <1>7, <1>12, <2>1, <2>3, <2>4
<1>13. ASSUME NEW x \in features
       PROVE  x \in DOMAIN kv /\ (x \in {Highest, Key(Mark)} \/ \E i \in DOMAIN p : Key(p[i].fp) = x)
  <2>1. x \in sampling(fps) \/ (config.exact /\ x \in u)
    BY <1>4 DEF fps
  <2>2. CASE x \in sampling(fps)
    BY <1>10, <1>11, <2>2
  <2>3. CASE config.exact /\ x \in u
    BY <1>12, <2>3
  <2> QED BY <2>1, <2>2, <2>3
<1> QED BY <1>8, <1>12, <1>13, Zenon DEF p, u

\* What the ids of a key are afterwards.
LEMMA FilteredIds ==
  ASSUME IInv, NEW s, NEW w, NEW sid, NEW features, Filtered(s, w, sid, features)
  PROVE  /\ DOMAIN kv' = DOMAIN kv
         /\ \A x \in DOMAIN kv : \A id \in Range(kv'[x]) : id \in Range(kv[x]) \/ (x \in features /\ id = sid)
         /\ \A x \in DOMAIN kv : kv[x] # <<>> \/ x \in features => kv'[x] # <<>>
<1>1. Shape /\ s \in Seq(ChunkType)
  <2>1. s \in Seq(ChunkType)
    BY FilteredBuffer, Zenon
  <2> QED BY <2>1, Zenon DEF IInv
<1>2. kv' = [x \in DOMAIN kv |-> IF x \in features THEN kv_update(kv[x], sid) ELSE kv[x]]
      /\ sid = append_segment_flag(ChunkCount(s))
  BY Zenon DEF Filtered
<1>3. sid \in Nat
  <2>1. ChunkCount(s) \in Nat
    BY <1>1, ChunkCountIs
  <2> QED BY <1>1, <1>2, <2>1, FlagIs
<1>4. /\ kv \in [Keys \cup {Highest} -> Seq(Nat)] /\ config.values \in Nat \ {0}
      /\ \A x \in DOMAIN kv : Len(kv[x]) <= config.values
  BY <1>1, ConfigIs DEF Shape
<1>5. ASSUME NEW x \in DOMAIN kv
      PROVE  /\ \A id \in Range(kv'[x]) : id \in Range(kv[x]) \/ (x \in features /\ id = sid)
             /\ kv[x] # <<>> \/ x \in features => kv'[x] # <<>>
  <2>1. CASE x \in features
    <3>1. kv'[x] = kv_update(kv[x], sid)
      BY <1>2, <2>1
    <3>2. kv[x] \in Seq(Nat) /\ Len(kv[x]) <= config.values
      BY <1>4
    <3>3. Range(kv_update(kv[x], sid)) \subseteq Range(kv[x]) \cup {sid} /\ kv_update(kv[x], sid) # <<>>
      BY <1>3, <1>4, <3>2, UpdatedIds, Zenon
    <3> QED BY <2>1, <3>1, <3>3
  <2>2. CASE x \notin features
    BY <1>2, <2>2
  <2> QED BY <2>1, <2>2
<1>6. DOMAIN kv' = DOMAIN kv
  BY <1>2
<1> QED BY <1>5, <1>6, Zenon

\* The ids of the key-value store lead to segments, the new one as well.
LEMMA FilteredLeads ==
  ASSUME IInv, Sized, IdsFit, AllLeading(kv, recipes),
         NEW s, NEW w, NEW sid, NEW features, Filtered(s, w, sid, features)
  PROVE  AllLeading(kv, recipes)'
<1> DEFINE p == PointersOf(w.segment)
<1>1. /\ Recorded(recipes', p) /\ s \in Seq(ChunkType) /\ ChunkCount(s) \in Nat
      /\ s = flight[1] /\ 1 \in DOMAIN flight
  BY FilteredLength, Zenon
<1>2. Shape /\ config' = config /\ sid = append_segment_flag(ChunkCount(s))
  BY DEF IInv, Filtered
<1>3. ChunkCount(s) <= config.segment
  BY <1>1 DEF Sized
<1>4. \A x \in features : x \in {Highest, Key(Mark)} \/ \E i \in DOMAIN p : Key(p[i].fp) = x
  <2>1. \A x \in features : \/ x \in {Highest, Key(Mark)}
                            \/ \E i \in DOMAIN PointersOf(w.segment) : Key(PointersOf(w.segment)[i].fp) = x
    BY FeaturesAre
  <2> QED BY <2>1, Zenon
<1> HIDE DEF p
<1>5. /\ At(recipes', id_to_bnum(sid), id_to_off(sid)) # {}
      /\ \A k \in At(recipes', id_to_bnum(sid), id_to_off(sid)) : recipes'[id_to_bnum(sid) + 1][k] = p
  BY <1>1, <1>2, <1>3, FlagTells
<1>6. \A x \in features : Leads(recipes', x, sid)
  BY <1>4, <1>5 DEF Leads
<1>7. Extends(recipes, recipes') /\ recipes' \in Seq(Seq(Seq(Pointer)))
  <2>1. recipes' \in Seq(Seq(Seq(Pointer)))
    BY <1>1, Zenon DEF Recorded
  <2> QED BY <1>1, <2>1, FilteredExtends
<1>8. ASSUME NEW x \in DOMAIN kv', NEW id \in Range(kv'[x]) PROVE Leads(recipes', x, id)
  <2>1. x \in DOMAIN kv /\ (id \in Range(kv[x]) \/ (x \in features /\ id = sid))
    BY FilteredIds, Zenon
  <2>2. CASE id \in Range(kv[x])
    <3>1. Leads(recipes, x, id)
      BY <2>1, <2>2, Zenon DEF AllLeading
    <3> QED BY <1>7, <3>1, LeadsKept
  <2>3. CASE x \in features /\ id = sid
    BY <1>6, <2>3
  <2> QED BY <2>1, <2>2, <2>3
<1>9. ASSUME NEW x, NEW id, Leads(recipes', x, id) PROVE Leads(recipes, x, id)'
  BY <1>2, <1>9 DEF Leads, Key
<1> QED BY <1>8, <1>9 DEF AllLeading

\* The id that is made is no id that leads to a segment: these end before it.
LEMMA FlagIsNew ==
  ASSUME Shape, Sized, IdsFit, AllLeading(kv, recipes), NEW c \in Nat, c <= config.segment,
         NEW sid, sid = append_segment_flag(c), NEW x \in DOMAIN kv
  PROVE  sid \notin Range(kv[x])
<1> SUFFICES ASSUME sid \in Range(kv[x]) PROVE FALSE
  OBVIOUS
<1> DEFINE n == Len(recipes)
           old == recipes[n]
           off == PointerSize * PastOf(old)
<1>1. n \in DOMAIN recipes /\ old \in Seq(Seq(Pointer))
  BY DEF Shape
<1>2. id_to_bnum(sid) = Backup /\ id_to_off(sid) = off /\ PastOf(old) \in Nat /\ Backup + 1 = n
  BY FlagParts, Zenon
<1> HIDE DEF off
<1>3. At(recipes, Backup, off) # {}
  BY <1>2, Zenon DEF AllLeading, Leads
<1>4. PICK k : k \in At(recipes, Backup, off)
  BY <1>3
<1>5. k \in DOMAIN old /\ PointerSize * PastIn(old, k) = off
  BY <1>2, <1>4, Zenon DEF At
<1> HIDE DEF old
<1>6. k \in 1..(Len(old) + 1) /\ Len(old) + 1 \in 1..(Len(old) + 1) /\ k < Len(old) + 1
  BY <1>1, <1>5
<1>7. PastIn(old, k) + 2 <= PastIn(old, Len(old) + 1)
  BY <1>1, <1>6, PastRises
<1>8. PastIn(old, k) \in Nat /\ PastIn(old, Len(old) + 1) = PastOf(old)
  BY <1>1, <1>6, PastInIs
<1> QED BY <1>2, <1>5, <1>7, <1>8 DEF off, PointerSize

\* No list gets an id that it has.
LEMMA FilteredDoubles ==
  ASSUME IInv, Sized, IdsFit, AllLeading(kv, recipes), NoDoubles,
         NEW s, NEW w, NEW sid, NEW features, Filtered(s, w, sid, features)
  PROVE  NoDoubles'
<1>1. Shape /\ s \in Seq(ChunkType) /\ ChunkCount(s) \in Nat /\ s = flight[1] /\ 1 \in DOMAIN flight
  BY FilteredLength, Zenon DEF IInv
<1>2. kv' = [x \in DOMAIN kv |-> IF x \in features THEN kv_update(kv[x], sid) ELSE kv[x]]
      /\ sid = append_segment_flag(ChunkCount(s))
  BY Zenon DEF Filtered
<1>3. ChunkCount(s) <= config.segment
  BY <1>1 DEF Sized
<1>4. sid \in Nat
  BY <1>1, <1>2, FlagIs
<1>5. /\ kv \in [Keys \cup {Highest} -> Seq(Nat)] /\ config.values \in Nat \ {0}
      /\ \A x \in DOMAIN kv : Len(kv[x]) <= config.values
  BY <1>1, ConfigIs DEF Shape
<1>6. ASSUME NEW x \in DOMAIN kv
      PROVE  \A i, j \in DOMAIN kv'[x] : i # j => kv'[x][i] # kv'[x][j]
  <2>1. \A i, j \in DOMAIN kv[x] : i # j => kv[x][i] # kv[x][j]
    BY Zenon DEF NoDoubles
  <2>2. CASE x \in features
    <3>1. kv'[x] = kv_update(kv[x], sid) /\ kv[x] \in Seq(Nat) /\ Len(kv[x]) <= config.values
      BY <1>2, <1>5, <2>2
    <3>2. sid \notin Range(kv[x])
      BY <1>1, <1>2, <1>3, FlagIsNew, Zenon
    <3>3. \A i, j \in DOMAIN kv_update(kv[x], sid) :
            i # j => kv_update(kv[x], sid)[i] # kv_update(kv[x], sid)[j]
      BY <1>4, <1>5, <2>1, <3>1, <3>2, UpdatedDiffer, Zenon
    <3> QED BY <3>1, <3>3
  <2>3. CASE x \notin features
    BY <1>2, <2>1, <2>3
  <2> QED BY <2>2, <2>3
<1>7. DOMAIN kv' = DOMAIN kv
  BY <1>2
<1> QED BY <1>6, <1>7, Zenon DEF NoDoubles

\* What a container has got.
LEMMA FilteredBoxes ==
  ASSUME IInv, NEW s, NEW w, NEW sid, NEW features, Filtered(s, w, sid, features)
  PROVE  \A k \in DOMAIN containers' : \A f \in containers'[k] :
           (k \in DOMAIN containers /\ f \in containers[k]) \/ (f \in DOMAIN w.unique /\ k = w.unique[f] + 1)
<1>1. containers' = w.containers /\ Uniques(w.unique, w.containers, s, Len(s))
  BY Zenon DEF Filtered, FilterInv
<1> DEFINE boxes == w.containers
           u == w.unique
<1>2. containers' = boxes /\ Uniques(u, boxes, s, Len(s))
  BY <1>1
<1> HIDE DEF boxes, u
<1>3. \A k \in DOMAIN boxes : \A f \in boxes[k] :
        (k \in DOMAIN containers /\ f \in containers[k]) \/ (f \in DOMAIN u /\ k = u[f] + 1)
  BY <1>2, Zenon DEF Uniques
<1> QED BY <1>2, <1>3, Zenon DEF u

\* The chunks that are stored are known.
LEMMA FilteredKnown ==
  ASSUME IInv, Known, NEW s, NEW w, NEW sid, NEW features, Filtered(s, w, sid, features)
  PROVE  Known'
<1>1. config' = config /\ \A f : Key(f)' = Key(f)
  BY DEF Filtered, Key
<1>2. \A k \in DOMAIN containers' : \A f \in containers'[k] :
        (k \in DOMAIN containers /\ f \in containers[k]) \/ f \in DOMAIN w.unique
  BY FilteredBoxes, Zenon
<1>3. features \subseteq DOMAIN kv /\ (config.exact => \A f \in DOMAIN w.unique : Key(f) = f /\ f \in features)
  BY FeaturesAre, Zenon
<1>4. \A x \in DOMAIN kv : kv[x] # <<>> \/ x \in features => kv'[x] # <<>>
  BY FilteredIds, Zenon
<1>5. Shape /\ containers \in Seq(SUBSET FP)
  BY DEF IInv, Shape
<1>6. ASSUME config.exact, NEW k \in DOMAIN containers', NEW f \in containers'[k] PROVE kv'[Key(f)] # <<>>
  <2>1. CASE k \in DOMAIN containers /\ f \in containers[k]
    <3>1. f \in FP
      BY <1>5, <2>1
    <3>2. Key(f) \in DOMAIN kv /\ kv[Key(f)] # <<>>
      BY <1>5, <1>6, <2>1, <3>1, KeyIs DEF Known
    <3> QED BY <1>4, <3>2
  <2>2. CASE f \in DOMAIN w.unique
    <3>1. Key(f) \in features /\ Key(f) \in DOMAIN kv
      BY <1>3, <1>6, <2>2
    <3> QED BY <1>4, <3>1
  <2> QED BY <1>2, <2>1, <2>2
<1> QED BY <1>1, <1>6, Zenon DEF Known, Key

\* A unique chunk that is stored is in no other container and not in flight again.
LEMMA FilteredOnce ==
  ASSUME IInv, FreshExact, Once, NEW s, NEW w, NEW sid, NEW features, Filtered(s, w, sid, features)
  PROVE  FreshExact' /\ Once'
<1>1. config' = config /\ flight' = Tail(flight) /\ flight # <<>>
  BY DEF Filtered
<1>2. \A k \in DOMAIN containers' : \A f \in containers'[k] :
        (k \in DOMAIN containers /\ f \in containers[k]) \/ (f \in DOMAIN w.unique /\ k = w.unique[f] + 1)
  BY FilteredBoxes
<1>3. \A f \in DOMAIN w.unique : \E j \in DOMAIN s : Unique(flight, 1, j) /\ s[j].fp = f
  BY FeaturesAre, Zenon
<1>4. s = flight[1] /\ 1 \in DOMAIN flight
  BY FilteredBuffer, Zenon
<1>5. flight \in Seq(Seq(ChunkType)) /\ UniqueFirst(flight)
  BY Zenon DEF IInv, InFlight
<1>6. \A k \in DOMAIN flight' : k + 1 \in DOMAIN flight /\ flight'[k] = flight[k + 1] /\ ~(k + 1 < 1) /\ k + 1 # 1
  BY <1>1, <1>5
<1>7. ASSUME Finds, NEW f \in DOMAIN w.unique, NEW m \in DOMAIN containers PROVE f \notin containers[m]
  <2>1. PICK j \in DOMAIN s : Unique(flight, 1, j) /\ s[j].fp = f
    BY <1>3
  <2>2. j \in DOMAIN flight[1] /\ flight[1][j].fp = f
    BY <1>4, <2>1
  <2> QED BY <1>4, <1>7, <2>1, <2>2, Zenon DEF FreshExact
<1>8. ASSUME Finds, NEW k \in DOMAIN flight', NEW i \in DOMAIN flight'[k], Unique(flight', k, i),
             NEW m \in DOMAIN containers'
      PROVE  flight'[k][i].fp \notin containers'[m]
  <2> DEFINE f == flight'[k][i].fp
             k1 == k + 1
  <2>1. /\ k1 \in DOMAIN flight /\ i \in DOMAIN flight[k1] /\ flight[k1][i].fp = f /\ Unique(flight, k1, i)
        /\ ~(k1 < 1) /\ k1 # 1
    BY <1>6, <1>8 DEF Unique
  <2> HIDE DEF f, k1
  <2>2. \A l \in DOMAIN containers : f \notin containers[l]
    BY <1>8, <2>1, Zenon DEF FreshExact
  <2>3. f \notin DOMAIN w.unique
    <3> SUFFICES ASSUME f \in DOMAIN w.unique PROVE FALSE
      OBVIOUS
    <3>1. PICK j \in DOMAIN s : Unique(flight, 1, j) /\ s[j].fp = f
      BY <1>3
    <3>2. j \in DOMAIN flight[1] /\ flight[1][j].fp = flight[k1][i].fp
      BY <1>4, <2>1, <3>1
    <3>3. k1 < 1 \/ (k1 = 1 /\ i <= j)
      BY <1>4, <1>5, <2>1, <3>2, Zenon DEF UniqueFirst
    <3> QED BY <2>1, <3>3
  <2>4. f \notin containers'[m]
    BY <1>2, <2>2, <2>3
  <2> QED BY <2>4 DEF f
<1>9. ASSUME Finds, NEW k \in DOMAIN containers', NEW l \in DOMAIN containers',
             NEW f \in containers'[k], f \in containers'[l]
      PROVE  k = l
  <2>1. CASE f \in DOMAIN w.unique
    <3>1. \A m \in DOMAIN containers : f \notin containers[m]
      BY <1>7, <1>9, <2>1
    <3>2. k = w.unique[f] + 1 /\ l = w.unique[f] + 1
      BY <1>2, <1>9, <3>1
    <3> QED BY <3>2
  <2>2. CASE f \notin DOMAIN w.unique
    <3>1. k \in DOMAIN containers /\ f \in containers[k] /\ l \in DOMAIN containers /\ f \in containers[l]
      BY <1>2, <1>9, <2>2
    <3> QED BY <1>9, <3>1, Zenon DEF Once
  <2> QED BY <2>1, <2>2
<1>10. FreshExact'
  BY <1>1, <1>8, Zenon DEF FreshExact, Finds, Unique
<1>11. Once'
  BY <1>1, <1>9, Zenon DEF Once, Finds
<1> QED BY <1>10, <1>11

\* Champions and what was looked up last stay what they are.
LEMMA FilteredServed ==
  ASSUME IInv, Served, NEW s, NEW w, NEW sid, NEW features, Filtered(s, w, sid, features)
  PROVE  Served'
<1>1. config' = config /\ champions' = champions /\ flight' = Tail(flight) /\ flight # <<>>
  BY DEF Filtered
<1>2. InRecipes \subseteq InRecipes' /\
      \A b \in DOMAIN recipes : b \in DOMAIN recipes' /\
        \A k \in DOMAIN recipes[b] : k \in DOMAIN recipes'[b] /\ recipes'[b][k] = recipes[b][k]
  <2>1. Recorded(recipes', PointersOf(w.segment))
    BY FilteredRecipe, Zenon
  <2> QED BY <2>1, RecordedKeeps, Zenon
<1>3. champions \subseteq InRecipes /\ ChampionsServe
  BY Zenon DEF Served
<1>4. flight \in Seq(Seq(ChunkType))
  BY DEF IInv, Shape
<1>5. flight' # <<>> => Last(flight') = Last(flight)
  BY <1>1, <1>4 DEF Last
<1>6. ASSUME NEW u \in champions PROVE recipes'[u[1]+1][u[2]] = recipes[u[1]+1][u[2]]
  <2>1. u[1] + 1 \in DOMAIN recipes /\ u[2] \in DOMAIN recipes[u[1] + 1]
    BY <1>3 DEF InRecipes
  <2> QED BY <1>2, <2>1
<1>7. ChampionsServe'
  <2> SUFFICES ASSUME ~AsksIndex', flight' # <<>>, config'.prefetch > 0,
                      config'.top = 1 \/ config'.top * config'.prefetch <= config'.cache,
                      NEW i \in DOMAIN Last(flight'), NEW u \in champions',
                      \E j \in DOMAIN recipes'[u[1]+1][u[2]] : recipes'[u[1]+1][u[2]][j].fp = Last(flight')[i].fp
               PROVE  Last(flight')[i].dup
    BY Zenon DEF ChampionsServe, HoldsFp, Pointers
  <2>1. ~AsksIndex
    BY <1>1, Zenon DEF AsksIndex
  <2>2. Last(flight') = Last(flight) /\ u \in champions
    BY <1>1, <1>5
  <2>3. recipes'[u[1]+1][u[2]] = recipes[u[1]+1][u[2]]
    BY <1>6, <2>2
  <2>4. HoldsFp(u, Last(flight)[i].fp) /\ i \in DOMAIN Last(flight)
    BY <2>2, <2>3, Zenon DEF HoldsFp, Pointers
  <2>5. config.prefetch > 0 /\ (config.top = 1 \/ config.top * config.prefetch <= config.cache)
    BY <1>1, Zenon
  <2>6. Last(flight)[i].dup
    BY <1>1, <1>3, <2>1, <2>2, <2>4, <2>5, Zenon DEF ChampionsServe
  <2> QED BY <2>2, <2>6
<1> QED BY <1>1, <1>2, <1>3, <1>7 DEF Served

-----------------------------------------------------------------------------
(* With ids that fit.                                                      *)

\* Every step keeps the invariant.
LEMMA JInductive ==
  ASSUME IdsFit, JInv, [Next]_vars
  PROVE  JInv'
<1>1. ASSUME NEW fps \in Segments, DedupSegment(fps) PROVE JInv'
  BY <1>1, DedupJ, Zenon
<1>2. ASSUME EndOfStream PROVE JInv'
  BY <1>2, EndJ, Zenon
<1>3. ASSUME FilterSegment PROVE JInv'
  <2>1. IInv /\ Sized /\ AllLeading(kv, recipes) /\ NoDoubles /\ Known /\ FreshExact /\ Once /\ Served
    BY Zenon DEF JInv
  <2>2. PICK s, w, sid, features : Filtered(s, w, sid, features)
    BY <1>3, <2>1, FilterIs, Zenon
  <2>3. ~aborted'
    BY <2>2, Zenon DEF Filtered
  <2>4. IInv' /\ Sized' /\ AllLeading(kv, recipes)' /\ NoDoubles'
    BY <2>1, <2>2, FilterKeeps, FilteredSized, FilteredLeads, FilteredDoubles, Zenon
  <2>5. Known' /\ FreshExact' /\ Once' /\ Served'
    BY <2>1, <2>2, FilteredKnown, FilteredOnce, FilteredServed, Zenon
  <2> QED BY <2>3, <2>4, <2>5, Zenon DEF JInv
<1>4. ASSUME NextSession PROVE JInv'
  BY <1>4, SessionJ, Zenon
<1>5. CASE UNCHANGED vars
  <2>1. /\ IInv /\ ~aborted /\ Sized /\ AllLeading(kv, recipes)
        /\ NoDoubles /\ Known /\ FreshExact /\ Once /\ Served
    BY Zenon DEF JInv
  <2>2. IInv'
    BY <1>5, <2>1, IInvInductive, Zenon
  <2>3. /\ config' = config /\ recipes' = recipes /\ read' = read /\ flight' = flight
        /\ kv' = kv /\ containers' = containers /\ champions' = champions /\ aborted' = aborted
    BY <1>5 DEF vars
  <2>4. AllLeading(kv, recipes)' /\ NoDoubles' /\ Known' /\ Once'
    BY <2>1, <2>3, Unstored
  <2>5. Sized' /\ FreshExact'
    BY <2>1, <2>3, Zenon DEF Sized, Room, FreshExact, Finds, Unique
  <2>6. Served'
    BY <2>1, <2>3, Zenon DEF Served, InRecipes, ChampionsServe, AsksIndex, HoldsFp, Pointers
  <2> QED BY <2>1, <2>2, <2>3, <2>4, <2>5, <2>6, Zenon DEF JInv
<1> QED BY <1>1, <1>2, <1>3, <1>4, <1>5, Zenon DEF Next

\* It holds always.
LEMMA JInvariance ==
  ASSUME IdsFit
  PROVE  Spec => []JInv
<1>1. Init => JInv
  BY JInit
<1>2. JInv /\ [Next]_vars => JInv'
  BY JInductive
<1> QED BY <1>1, <1>2, PTL DEF Spec

\* If ids fit, an id in the key-value store leads to a segment, and to one with a chunk of
\* the key: what append_segment_flag returned is where the segment is found by
\* prefetch_segments, however many segments and backups later.
THEOREM IdsLead == IdsFit => (Spec => []LeadsToSegments)
<1> SUFFICES ASSUME IdsFit PROVE Spec => []LeadsToSegments
  OBVIOUS
<1>1. JInv => LeadsToSegments
  BY LeadingIs, Zenon DEF JInv
<1> QED BY <1>1, JInvariance, PTL

\* If ids fit, the assertions of prefetch_segments, top_segment_select and filter_thread
\* do not fail: a segment begins where its id says, no list has an id twice, a copy of a
\* unique chunk finds the id, and no container of an exact index is given a chunk again.
THEOREM StateIsSound == IdsFit => (Spec => []StateSound)
<1> SUFFICES ASSUME IdsFit PROVE Spec => []StateSound
  OBVIOUS
<1>1. JInv => AssertionsHold
  BY Zenon DEF JInv, AssertionsHold
<1>2. AssertionsHold /\ TypeOK => StateSound
  BY DEF StateSound
<1> QED BY <1>1, <1>2, JInvariance, TypeCorrect, PTL

\* If ids fit, an exact index that prefetches at least the segment an id leads to stores
\* no chunk in two containers, with any number of segments between lookup and filter
\* phase.  (An exact index set up by its parts prefetches none by default.)
THEOREM ChunksOnce == IdsFit => (Spec => []StoredOnce)
<1> SUFFICES ASSUME IdsFit PROVE Spec => []StoredOnce
  OBVIOUS
<1>1. JInv => StoredOnce
  <2> SUFFICES ASSUME Once, Shape, Finds, NEW f \in FP
               PROVE  Cardinality({id \in DOMAIN containers : f \in containers[id]}) <= 1
    BY Zenon DEF JInv, IInv, StoredOnce, Finds
  <2> DEFINE S == {id \in DOMAIN containers : f \in containers[id]}
  <2>1. \A k \in S : \A l \in S : k = l
    BY Zenon DEF Once
  <2>2. CASE S = {}
    BY <2>2, FS_EmptySet
  <2>3. CASE S # {}
    <3>1. PICK k : k \in S
      BY <2>3
    <3>2. S = {k}
      BY <2>1, <3>1
    <3> HIDE DEF S
    <3>3. Cardinality(S) = 1
      BY <3>2, FS_Singleton
    <3> QED BY <3>3 DEF S
  <2> QED BY <2>2, <2>3
<1> QED BY <1>1, JInvariance, PTL

\* If ids fit, and the segments of all champions are prefetched and fit in the cache, what
\* a champion holds is found to be a duplicate.
THEOREM ServedByChampions == IdsFit => (Spec => []ChampionsServe)
<1> SUFFICES ASSUME IdsFit PROVE Spec => []ChampionsServe
  OBVIOUS
<1>1. JInv => ChampionsServe
  BY Zenon DEF JInv, Served
<1> QED BY <1>1, JInvariance, PTL
=============================================================================
