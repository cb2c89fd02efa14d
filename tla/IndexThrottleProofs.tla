------------------------- MODULE IndexThrottleProofs -------------------------
(***************************************************************************)
(* Theorems about IndexThrottle: what the index buffer counts, that it is  *)
(* bounded where wait_threshold is read as it is set, that the rewrite     *)
(* buffer keeps its size, and that the dedup phase waits with reason.      *)
(*                                                                         *)
(* The argument is about the pipe: all that is on its way from the lookup  *)
(* to the filter phase, in order.  Most steps only move an element from    *)
(* one part of the pipe to the next.                                       *)
(***************************************************************************)
EXTENDS IndexThrottle, FiniteSetTheorems, SequenceTheorems, TLAPS

Pipe == rewrite_queue \o (buffer \o (hand \o (dedup_queue \o sending)))

\* No segment is longer than SegmentMax: neither the one that the filter phase has n
\* chunks of, nor one in p.
Fits(p, n) ==
  \A i, j \in 0..Len(p) :
    i <= j /\ (\A k \in i+1..j : p[k] = "chunk")
      => j - i + (IF i = 0 THEN n ELSE 0) <= SegmentMax

\* Segments are in the pipe to their end.
Whole(p, n) ==
  /\ p # <<>> => p[Len(p)] = "end"
  /\ p = <<>> => n = 0

Types ==
  /\ algorithm \in Algorithms /\ shared \in Layouts
  /\ read \in 0..StreamMax
  /\ chunk_num \in Nat /\ segment \in Nat /\ filtered \in Nat
  /\ dedup \in {"segment", "lookup", "waiting", "send", "ended"}
  /\ dedup = "send" <=> sending # <<>>
  /\ size \in 0..SegmentMax
  /\ sending \in Seq(Items) /\ dedup_queue \in Seq(Items) /\ hand \in Seq(Items)
  /\ buffer \in Seq(Items) /\ rewrite_queue \in Seq(Items)
  /\ Len(dedup_queue) <= QueueCap /\ Len(rewrite_queue) <= QueueCap /\ Len(hand) <= 1
  /\ flushing \in BOOLEAN

PipeInv ==
  /\ chunk_num = Chunks(Pipe) + segment
  /\ Fits(Pipe, segment) /\ Whole(Pipe, segment)

\* A chunk is in flight, filtered, or in the segment that waits to be looked up.
ReadInv ==
  read = filtered + chunk_num + (IF dedup \in {"lookup", "waiting"} THEN size ELSE 0)

\* Whoever puts a chunk into the rewrite buffer has emptied a full one before.
BufferInv ==
  /\ RewriteBufferBounded
  /\ flushing => buffer # <<>>
  /\ algorithm = "no" => buffer = <<>>
  /\ algorithm \in {"cbr", "cap"} => (flushing => hand = <<>>)
  /\ (algorithm \in {"cbr", "cap"} \/ (algorithm = "cfl" /\ hand # <<>>)) /\ ~flushing
       => Chunks(buffer) < RewriteMax

IInv == Types /\ PipeInv /\ ReadInv /\ BufferInv /\ WaitsOnlyIfFull /\ BoundedIfShared

-----------------------------------------------------------------------------
(* Chunks in a sequence.                                                   *)

\* The positions that Chunks counts are finitely many.
LEMMA ChunksType ==
  ASSUME NEW q \in Seq(Items)
  PROVE  /\ IsFiniteSet({i \in DOMAIN q : q[i] = "chunk"})
         /\ Chunks(q) \in Nat
<1>1. DOMAIN q = 1..Len(q) /\ Len(q) \in Nat
  BY LenProperties
<1>2. IsFiniteSet(1..Len(q))
  BY <1>1, FS_Interval
<1>3. {i \in DOMAIN q : q[i] = "chunk"} \in SUBSET (1..Len(q))
  BY <1>1
<1>4. IsFiniteSet({i \in DOMAIN q : q[i] = "chunk"})
  BY <1>2, <1>3, FS_Subset
<1> QED BY <1>4, FS_CardinalityType DEF Chunks

\* A sequence has the chunks of its two parts.
LEMMA ChunksConcat ==
  ASSUME NEW a \in Seq(Items), NEW b \in Seq(Items)
  PROVE  Chunks(a \o b) = Chunks(a) + Chunks(b)
<1> DEFINE A == {i \in DOMAIN a : a[i] = "chunk"}
           B == {i \in DOMAIN b : b[i] = "chunk"}
           C == {i \in DOMAIN (a \o b) : (a \o b)[i] = "chunk"}
           S == {i \in Len(a)+1..Len(a)+Len(b) : b[i - Len(a)] = "chunk"}
<1>1. /\ Len(a) \in Nat /\ Len(b) \in Nat
      /\ DOMAIN a = 1..Len(a) /\ DOMAIN b = 1..Len(b)
  BY LenProperties
<1>2. /\ a \o b \in Seq(Items) /\ Len(a \o b) = Len(a) + Len(b)
      /\ \A i \in 1..Len(a)+Len(b) :
           (a \o b)[i] = IF i <= Len(a) THEN a[i] ELSE b[i - Len(a)]
  BY ConcatProperties
<1>3. DOMAIN (a \o b) = 1..Len(a)+Len(b)
  BY <1>2, LenProperties
<1>4. C = A \cup S
  <2>1. ASSUME NEW i \in C
        PROVE  i \in A \cup S
    BY <1>1, <1>2, <1>3
  <2>2. ASSUME NEW i \in A
        PROVE  i \in C
    BY <1>1, <1>2, <1>3
  <2>3. ASSUME NEW i \in S
        PROVE  i \in C
    BY <1>1, <1>2, <1>3
  <2> QED BY <2>1, <2>2, <2>3
<1>5. A \cap S = {}
  BY <1>1
<1>6. IsFiniteSet(A) /\ IsFiniteSet(B)
  BY ChunksType
<1>7. ExistsBijection(B, S)
  <2> DEFINE f == [i \in B |-> i + Len(a)]
  <2>1. f \in [B -> S]
    BY <1>1
  <2>2. ASSUME NEW x \in B, NEW y \in B, f[x] = f[y]
        PROVE  x = y
    BY <2>2, <1>1
  <2>3. ASSUME NEW y \in S
        PROVE  \E x \in B : f[x] = y
    <3>1. y - Len(a) \in B /\ (y - Len(a)) + Len(a) = y
      BY <1>1
    <3> QED BY <3>1
  <2>4. f \in Bijection(B, S)
    BY <2>1, <2>2, <2>3 DEF Bijection, Injection, Surjection, IsInjective
  <2> QED BY <2>4 DEF ExistsBijection
<1>8. IsFiniteSet(S) /\ Cardinality(S) = Cardinality(B)
  BY <1>6, <1>7, FS_Bijection
<1>9. Cardinality(C) = Cardinality(A) + Cardinality(S) - Cardinality({})
  <2> HIDE DEF A, S, C
  <2>1. Cardinality(A \cup S) = Cardinality(A) + Cardinality(S) - Cardinality(A \cap S)
    BY <1>6, <1>8, FS_Union
  <2> QED BY <2>1, <1>4, <1>5
<1>10. Cardinality(A) \in Nat /\ Cardinality(S) \in Nat
  BY <1>6, <1>8, FS_CardinalityType
<1>11. Cardinality({}) = 0
  BY FS_EmptySet
<1>12. Chunks(a \o b) = Cardinality(C) /\ Chunks(a) = Cardinality(A)
       /\ Chunks(b) = Cardinality(B)
  BY DEF Chunks
<1> HIDE DEF A, B, C, S
<1> QED BY <1>8, <1>9, <1>10, <1>11, <1>12

\* Of one element.
LEMMA ChunksOne ==
  ASSUME NEW e \in Items
  PROVE  Chunks(<<e>>) = IF e = "chunk" THEN 1 ELSE 0
<1>1. DOMAIN <<e>> = {1} /\ <<e>>[1] = e
  OBVIOUS
<1>2. CASE e = "chunk"
  <2>1. {i \in DOMAIN <<e>> : <<e>>[i] = "chunk"} = {1}
    BY <1>1, <1>2
  <2> QED BY <2>1, <1>2, FS_Singleton DEF Chunks
<1>3. CASE e # "chunk"
  <2>1. {i \in DOMAIN <<e>> : <<e>>[i] = "chunk"} = {}
    BY <1>1, <1>3
  <2> QED BY <2>1, <1>3, FS_EmptySet DEF Chunks
<1> QED BY <1>2, <1>3

\* Of nothing.
LEMMA ChunksNone == Chunks(<<>>) = 0
<1>1. {i \in DOMAIN <<>> : <<>>[i] = "chunk"} = {}
  OBVIOUS
<1> QED BY <1>1, FS_EmptySet DEF Chunks

\* A sequence is its head and its tail.
LEMMA HeadAndTail ==
  ASSUME NEW q \in Seq(Items), q # <<>>
  PROVE  /\ Head(q) \in Items /\ Tail(q) \in Seq(Items) /\ <<Head(q)>> \in Seq(Items)
         /\ q = <<Head(q)>> \o Tail(q)
         /\ Len(q) = Len(Tail(q)) + 1 /\ Head(q) = q[1]
         /\ \A i \in 1..Len(Tail(q)) : Tail(q)[i] = q[i+1]
<1>1. Len(q) \in Nat \ {0}
  BY EmptySeq
<1>2. /\ Head(q) \in Items /\ Tail(q) \in Seq(Items)
  BY HeadTailProperties
<1>3. Head(q) = q[1] /\ Len(Tail(q)) = Len(q) - 1
      /\ \A i \in 1..Len(Tail(q)) : Tail(q)[i] = q[i+1]
  BY <1>1, HeadTailProperties
<1>4. <<Head(q)>> \in Seq(Items) /\ Len(<<Head(q)>>) = 1
  BY <1>2
<1>5. /\ <<Head(q)>> \o Tail(q) \in Seq(Items)
      /\ Len(<<Head(q)>> \o Tail(q)) = Len(q)
      /\ \A i \in 1..Len(q) : (<<Head(q)>> \o Tail(q))[i] = q[i]
  <2>1. /\ <<Head(q)>> \o Tail(q) \in Seq(Items)
        /\ Len(<<Head(q)>> \o Tail(q)) = 1 + Len(Tail(q))
        /\ \A i \in 1..1+Len(Tail(q)) :
             (<<Head(q)>> \o Tail(q))[i] = IF i <= 1 THEN <<Head(q)>>[i] ELSE Tail(q)[i-1]
    BY <1>2, <1>4, ConcatProperties
  <2>2. ASSUME NEW i \in 1..Len(q)
        PROVE  (<<Head(q)>> \o Tail(q))[i] = q[i]
    <3>1. CASE i = 1
      BY <3>1, <2>1, <1>1, <1>3
    <3>2. CASE i # 1
      <4>1. i - 1 \in 1..Len(Tail(q)) /\ (i - 1) + 1 = i
        BY <3>2, <1>1, <1>3
      <4>2. Tail(q)[i-1] = q[i]
        BY <4>1, <1>3
      <4>3. (<<Head(q)>> \o Tail(q))[i] = Tail(q)[i-1]
        BY <3>2, <2>1, <1>1, <1>3
      <4> QED BY <4>2, <4>3
    <3> QED BY <3>1, <3>2
  <2> QED BY <2>1, <2>2, <1>1, <1>3
<1>6. q = <<Head(q)>> \o Tail(q)
  BY <1>5, SeqEqual
<1> QED BY <1>1, <1>2, <1>3, <1>4, <1>6

\* A sequence is empty iff it has no length.
LEMMA EmptyOrNot ==
  ASSUME NEW q \in Seq(Items)
  PROVE  /\ Len(q) \in Nat
         /\ q = <<>> <=> Len(q) + 1 = 1
         /\ q # <<>> <=> Len(q) + 1 > 1
<1>1. Len(q) \in Nat /\ (q # <<>> => Len(q) \in Nat \ {0})
  BY EmptySeq, LenProperties
<1>2. Len(<<>>) = 0
  BY EmptySeq
<1>3. CASE q = <<>>
  BY <1>1, <1>2, <1>3
<1>4. CASE q # <<>>
  BY <1>1, <1>4
<1> QED BY <1>3, <1>4

\* Taking the head off takes its chunk off.
LEMMA ChunksTail ==
  ASSUME NEW q \in Seq(Items), q # <<>>
  PROVE  Chunks(q) = Chunks(Tail(q)) + (IF Head(q) = "chunk" THEN 1 ELSE 0)
<1>1. Chunks(q) = Chunks(<<Head(q)>>) + Chunks(Tail(q))
  BY HeadAndTail, ChunksConcat
<1>2. Chunks(Tail(q)) \in Nat
  BY HeadAndTail, ChunksType
<1> QED BY <1>1, <1>2, HeadAndTail, ChunksOne

\* A segment that index_lookup lets in has its chunks and its end.
NewSegment(n) == Append([i \in 1..n |-> "chunk"], "end")

LEMMA NewSegmentChunks ==
  ASSUME NEW n \in Nat
  PROVE  /\ NewSegment(n) \in Seq(Items) /\ Len(NewSegment(n)) = n + 1
         /\ \A i \in 1..n : NewSegment(n)[i] = "chunk"
         /\ NewSegment(n)[n+1] = "end"
         /\ Chunks(NewSegment(n)) = n
<1> DEFINE s == NewSegment(n)
           q == [i \in 1..n |-> "chunk"]
<1>1. q \in Seq(Items) /\ Len(q) = n
  BY DEF Items
<1>2. "end" \in Items
  BY DEF Items
<1>3. /\ s \in Seq(Items) /\ Len(s) = n + 1 /\ s[n+1] = "end"
      /\ \A i \in 1..n : s[i] = q[i]
  BY <1>1, <1>2, AppendProperties DEF NewSegment
<1>4. \A i \in 1..n : s[i] = "chunk"
  BY <1>3
<1>5. {i \in DOMAIN s : s[i] = "chunk"} = 1..n
  <2>1. DOMAIN s = 1..n+1
    BY <1>3, LenProperties
  <2> QED BY <2>1, <1>3, <1>4
<1>6. Cardinality(1..n) = n
  BY FS_Interval
<1> QED BY <1>3, <1>4, <1>5, <1>6 DEF Chunks

-----------------------------------------------------------------------------
(* Segments in the pipe.                                                   *)

\* The filter phase takes a chunk: its segment grows by what the pipe loses.
LEMMA FitsTakeChunk ==
  ASSUME NEW p \in Seq(Items), p # <<>>, Head(p) = "chunk", NEW n \in Nat,
         Fits(p, n), Whole(p, n)
  PROVE  Fits(Tail(p), n + 1) /\ Whole(Tail(p), n + 1)
<1>1. /\ Tail(p) \in Seq(Items) /\ Len(p) = Len(Tail(p)) + 1 /\ p[1] = "chunk"
      /\ \A i \in 1..Len(Tail(p)) : Tail(p)[i] = p[i+1]
  BY HeadAndTail
<1>2. Len(Tail(p)) \in Nat
  BY <1>1, LenProperties
<1>3. Fits(Tail(p), n + 1)
  <2> SUFFICES ASSUME NEW i \in 0..Len(Tail(p)), NEW j \in 0..Len(Tail(p)), i <= j,
                      \A k \in i+1..j : Tail(p)[k] = "chunk"
               PROVE  j - i + (IF i = 0 THEN n + 1 ELSE 0) <= SegmentMax
    BY DEF Fits
  <2>1. \A k \in i+2..j+1 : p[k] = "chunk"
    <3> SUFFICES ASSUME NEW k \in i+2..j+1 PROVE p[k] = "chunk"
      OBVIOUS
    <3>1. k - 1 \in i+1..j /\ k - 1 \in 1..Len(Tail(p)) /\ (k - 1) + 1 = k
      BY <1>2
    <3> QED BY <3>1, <1>1
  <2>2. CASE i = 0
    <3>1. \A k \in 1..j+1 : p[k] = "chunk"
      BY <2>1, <2>2, <1>1
    <3>2. (j + 1) - 0 + n <= SegmentMax
      <4>1. 0 \in 0..Len(p) /\ j + 1 \in 0..Len(p) /\ 0 <= j + 1
        BY <1>1, <1>2
      <4>2. \A k \in 0+1..j+1 : p[k] = "chunk"
        BY <3>1
      <4> QED BY <4>1, <4>2 DEF Fits
    <3> QED BY <3>2, <2>2, <1>2, ThrottleAssumption
  <2>3. CASE i # 0
    <3>1. i + 1 \in 0..Len(p) /\ j + 1 \in 0..Len(p) /\ i + 1 <= j + 1 /\ i + 1 # 0
      BY <1>1, <1>2
    <3>2. \A k \in (i+1)+1..j+1 : p[k] = "chunk"
      BY <2>1
    <3>3. (j + 1) - (i + 1) + 0 <= SegmentMax
      BY <3>1, <3>2 DEF Fits
    <3> QED BY <3>3, <2>3
  <2> QED BY <2>2, <2>3
<1>4. p[Len(p)] = "end"
  BY DEF Whole
<1>5. Tail(p) # <<>>
  <2>1. Len(Tail(p)) # 0
    BY <1>1, <1>4
  <2> QED BY <2>1, <1>1, EmptySeq
<1>6. Tail(p)[Len(Tail(p))] = "end"
  <2>1. Len(Tail(p)) \in 1..Len(Tail(p))
    BY <1>1, <1>4, <1>2
  <2> QED BY <2>1, <1>1, <1>4
<1> QED BY <1>3, <1>5, <1>6 DEF Whole

\* It takes the end of its segment, and another one begins.
LEMMA FitsTakeEnd ==
  ASSUME NEW p \in Seq(Items), p # <<>>, NEW n \in Nat, Fits(p, n), Whole(p, n)
  PROVE  Fits(Tail(p), 0) /\ Whole(Tail(p), 0)
<1>1. /\ Tail(p) \in Seq(Items) /\ Len(p) = Len(Tail(p)) + 1
      /\ \A i \in 1..Len(Tail(p)) : Tail(p)[i] = p[i+1]
  BY HeadAndTail
<1>2. Len(Tail(p)) \in Nat
  BY <1>1, LenProperties
<1>3. Fits(Tail(p), 0)
  <2> SUFFICES ASSUME NEW i \in 0..Len(Tail(p)), NEW j \in 0..Len(Tail(p)), i <= j,
                      \A k \in i+1..j : Tail(p)[k] = "chunk"
               PROVE  j - i + (IF i = 0 THEN 0 ELSE 0) <= SegmentMax
    BY DEF Fits
  <2>1. ASSUME NEW k \in (i+1)+1..j+1
        PROVE  p[k] = "chunk"
    <3>1. k - 1 \in i+1..j /\ k - 1 \in 1..Len(Tail(p)) /\ (k - 1) + 1 = k
      BY <1>2
    <3> QED BY <3>1, <1>1
  <2>2. i + 1 \in 0..Len(p) /\ j + 1 \in 0..Len(p) /\ i + 1 <= j + 1 /\ i + 1 # 0
    BY <1>1, <1>2
  <2>3. (j + 1) - (i + 1) + 0 <= SegmentMax
    BY <2>1, <2>2 DEF Fits
  <2> QED BY <2>3, <1>2
<1>4. Whole(Tail(p), 0)
  <2> SUFFICES ASSUME Tail(p) # <<>> PROVE Tail(p)[Len(Tail(p))] = "end"
    BY DEF Whole
  <2>1. Len(Tail(p)) \in 1..Len(Tail(p))
    BY <1>1, EmptySeq
  <2> QED BY <2>1, <1>1 DEF Whole
<1> QED BY <1>3, <1>4

\* A new segment joins the pipe behind the end of another, or an empty pipe.
LEMMA FitsNewSegment ==
  ASSUME NEW p \in Seq(Items), NEW n \in Nat, NEW m \in 0..SegmentMax,
         Fits(p, n), Whole(p, n)
  PROVE  Fits(p \o NewSegment(m), n) /\ Whole(p \o NewSegment(m), n)
<1> DEFINE s == NewSegment(m)
           q == p \o s
<1>0. SegmentMax \in Nat /\ m \in Nat
  BY ThrottleAssumption
<1>1. s \in Seq(Items) /\ Len(s) = m + 1 /\ s[m+1] = "end"
  BY <1>0, NewSegmentChunks
<1> HIDE DEF s
<1>2. Len(p) \in Nat
  BY LenProperties
<1>3. /\ q \in Seq(Items) /\ Len(q) = Len(p) + m + 1
      /\ \A i \in 1..Len(q) : q[i] = IF i <= Len(p) THEN p[i] ELSE s[i - Len(p)]
  <2>1. /\ q \in Seq(Items) /\ Len(q) = Len(p) + Len(s)
        /\ \A i \in 1..Len(p) + Len(s) :
             q[i] = IF i <= Len(p) THEN p[i] ELSE s[i - Len(p)]
    BY <1>1, ConcatProperties
  <2> HIDE DEF q
  <2> QED BY <2>1, <1>0, <1>1, <1>2
<1> HIDE DEF q
<1>4. q[Len(q)] = "end"
  BY <1>0, <1>1, <1>2, <1>3
<1>5. q # <<>>
  BY <1>0, <1>2, <1>3
<1>6. Fits(q, n)
  <2> SUFFICES ASSUME NEW i \in 0..Len(q), NEW j \in 0..Len(q), i <= j,
                      \A k \in i+1..j : q[k] = "chunk"
               PROVE  j - i + (IF i = 0 THEN n ELSE 0) <= SegmentMax
    BY DEF Fits
  <2>1. CASE j <= Len(p)
    <3>1. i \in 0..Len(p) /\ j \in 0..Len(p)
      BY <2>1, <1>2, <1>3, <1>0
    <3>2. \A k \in i+1..j : p[k] = "chunk"
      BY <2>1, <1>2, <1>3, <1>0
    <3> QED BY <3>1, <3>2 DEF Fits
  <2>2. CASE j > Len(p)
    <3>1. j - i <= m \/ j = i
      <4>1. ASSUME j > i
            PROVE  j < Len(q)
        <5>1. j \in i+1..j
          BY <4>1
        <5> QED BY <5>1, <1>4, <1>3, <1>2, <1>0
      <4>2. ASSUME i < Len(p)
            PROVE  FALSE
        <5>1. Len(p) \in i+1..j /\ Len(p) \in 1..Len(q) /\ p # <<>>
          BY <4>2, <2>2, <1>2, <1>3, <1>0
        <5>2. q[Len(p)] = p[Len(p)]
          BY <5>1, <1>3, <1>2
        <5> QED BY <5>1, <5>2 DEF Whole
      <4> QED BY <4>1, <4>2, <1>2, <1>3, <1>0
    <3>2. ASSUME i = 0
          PROVE  n = 0
      <4>1. CASE p = <<>>
        BY <4>1 DEF Whole
      <4>2. CASE p # <<>>
        <5>1. Len(p) \in i+1..j /\ Len(p) \in 1..Len(q)
          BY <4>2, <3>2, <2>2, <1>2, <1>3, <1>0, EmptySeq
        <5>2. q[Len(p)] = p[Len(p)]
          BY <5>1, <1>3, <1>2
        <5> QED BY <5>1, <5>2, <4>2 DEF Whole
      <4> QED BY <4>1, <4>2
    <3> QED BY <3>1, <3>2, <1>0
  <2> QED BY <2>1, <2>2, <1>2
<1>7. Fits(q, n) /\ Whole(q, n)
  BY <1>4, <1>5, <1>6 DEF Whole
<1> QED BY <1>7 DEF q, s
-----------------------------------------------------------------------------
(* How a step moves the pipe.                                              *)

\* Concatenation by another name, for steps that use only that it is associative.
Cat(a, b) == a \o b

\* Concatenation is associative.
LEMMA Associative ==
  /\ \A a, b \in Seq(Items) : Cat(a, b) \in Seq(Items)
  /\ \A a, b, c \in Seq(Items) : Cat(Cat(a, b), c) = Cat(a, Cat(b, c))
<1>1. \A a, b \in Seq(Items) : a \o b \in Seq(Items)
  BY ConcatProperties
<1>2. ASSUME NEW a \in Seq(Items), NEW b \in Seq(Items), NEW c \in Seq(Items)
      PROVE  (a \o b) \o c = a \o (b \o c)
  BY ConcatAssociative
<1> QED BY <1>1, <1>2 DEF Cat

\* Moving the head of one part to the end of the part before leaves the pipe as it is.
LEMMA MoveHead ==
  ASSUME NEW a \in Seq(Items), NEW b \in Seq(Items), NEW c \in Seq(Items), b # <<>>
  PROVE  /\ Append(a, Head(b)) \in Seq(Items)
         /\ Len(Append(a, Head(b))) = Len(a) + 1
         /\ Append(a, Head(b)) \o Tail(b) = a \o b
         /\ Append(a, Head(b)) \o (Tail(b) \o c) = a \o (b \o c)
<1> DEFINE h == <<Head(b)>>
           t == Tail(b)
<1>1. h \in Seq(Items) /\ t \in Seq(Items) /\ b = Cat(h, t) /\ Head(b) \in Items
  BY HeadAndTail DEF Cat
<1>2. Append(a, Head(b)) = Cat(a, h) /\ Append(a, Head(b)) \in Seq(Items)
      /\ Len(Append(a, Head(b))) = Len(a) + 1
  BY <1>1, AppendProperties DEF Cat
<1> HIDE DEF h, t
<1>3. Cat(Cat(a, h), t) = Cat(a, b)
  BY <1>1, Associative
<1>4. Cat(h, Cat(t, c)) = Cat(b, c)
  BY <1>1, Associative
<1>5. Cat(Cat(a, h), Cat(t, c)) = Cat(a, Cat(b, c))
  <2>1. Cat(t, c) \in Seq(Items)
    BY <1>1, Associative
  <2> QED BY <1>1, <1>4, <2>1, Associative
<1> QED BY <1>2, <1>3, <1>5 DEF t, Cat

\* What is appended to the last part is appended to the pipe.
LEMMA AppendToPipe ==
  ASSUME NEW a \in Seq(Items), NEW b \in Seq(Items), NEW c \in Seq(Items),
         NEW d \in Seq(Items), NEW s \in Seq(Items)
  PROVE  Cat(a, Cat(b, Cat(c, Cat(d, s)))) = Cat(Cat(a, Cat(b, Cat(c, d))), s)
<1>1. Cat(c, d) \in Seq(Items) /\ Cat(Cat(c, d), s) = Cat(c, Cat(d, s))
  BY Associative
<1>2. /\ Cat(b, Cat(c, d)) \in Seq(Items)
      /\ Cat(Cat(b, Cat(c, d)), s) = Cat(b, Cat(Cat(c, d), s))
  BY <1>1, Associative
<1>3. Cat(Cat(a, Cat(b, Cat(c, d))), s) = Cat(a, Cat(Cat(b, Cat(c, d)), s))
  BY <1>2, Associative
<1> QED BY <1>1, <1>2, <1>3

\* Taking the head of the first part takes the head of the pipe.
LEMMA TakeHead ==
  ASSUME NEW a \in Seq(Items), NEW b \in Seq(Items), a # <<>>
  PROVE  /\ a \o b \in Seq(Items) /\ a \o b # <<>>
         /\ Head(a \o b) = Head(a) /\ Tail(a \o b) = Tail(a) \o b
<1> DEFINE q == a \o b
<1>1. /\ Len(a) \in Nat \ {0} /\ Len(b) \in Nat
  BY EmptySeq, LenProperties
<1>2. /\ q \in Seq(Items) /\ Len(q) = Len(a) + Len(b)
      /\ \A i \in 1..Len(a) + Len(b) : q[i] = IF i <= Len(a) THEN a[i] ELSE b[i - Len(a)]
  BY ConcatProperties
<1>3. /\ Tail(a) \in Seq(Items) /\ Len(a) = Len(Tail(a)) + 1 /\ Head(a) = a[1]
      /\ \A i \in 1..Len(Tail(a)) : Tail(a)[i] = a[i+1]
  BY HeadAndTail
<1>4. /\ Tail(a) \o b \in Seq(Items) /\ Len(Tail(a) \o b) = Len(Tail(a)) + Len(b)
      /\ \A i \in 1..Len(Tail(a)) + Len(b) :
           (Tail(a) \o b)[i] = IF i <= Len(Tail(a)) THEN Tail(a)[i] ELSE b[i - Len(Tail(a))]
  BY <1>3, ConcatProperties
<1> HIDE DEF q
<1>5. q # <<>>
  BY <1>1, <1>2, EmptySeq
<1>6. /\ Tail(q) \in Seq(Items) /\ Len(q) = Len(Tail(q)) + 1 /\ Head(q) = q[1]
      /\ \A i \in 1..Len(Tail(q)) : Tail(q)[i] = q[i+1]
  BY <1>2, <1>5, HeadAndTail
<1>7. Len(Tail(q)) \in Nat /\ Len(Tail(a)) \in Nat
  BY <1>3, <1>6, LenProperties
<1>8. Len(Tail(q)) = Len(Tail(a) \o b)
  BY <1>1, <1>2, <1>3, <1>4, <1>6, <1>7
<1>9. ASSUME NEW i \in 1..Len(Tail(q))
      PROVE  Tail(q)[i] = (Tail(a) \o b)[i]
  <2>1. i \in 1..Len(Tail(a)) + Len(b) /\ i + 1 \in 1..Len(a) + Len(b)
        /\ (i + 1) - Len(a) = i - Len(Tail(a))
    BY <1>1, <1>3, <1>4, <1>7, <1>8
  <2>2. CASE i <= Len(Tail(a))
    <3>1. i + 1 <= Len(a) /\ i \in 1..Len(Tail(a))
      BY <2>2, <1>3, <1>7
    <3> QED BY <3>1, <2>1, <2>2, <1>2, <1>3, <1>4, <1>6
  <2>3. CASE ~(i <= Len(Tail(a)))
    <3>1. ~(i + 1 <= Len(a))
      BY <2>3, <1>3, <1>7
    <3> QED BY <3>1, <2>1, <2>3, <1>2, <1>4, <1>6
  <2> QED BY <2>2, <2>3
<1>10. Tail(q) = Tail(a) \o b
  BY <1>4, <1>6, <1>8, <1>9, SeqEqual
<1>11. Head(q) = Head(a)
  BY <1>1, <1>2, <1>3, <1>6
<1> QED BY <1>2, <1>5, <1>10, <1>11 DEF q

\* A sequence of at most one element is its head.
LEMMA AtMostOne ==
  ASSUME NEW q \in Seq(Items), q # <<>>, Len(q) <= 1
  PROVE  q = <<Head(q)>> /\ Head(q) \in Items
<1>1. /\ Tail(q) \in Seq(Items) /\ Len(q) = Len(Tail(q)) + 1
      /\ q = <<Head(q)>> \o Tail(q) /\ <<Head(q)>> \in Seq(Items) /\ Head(q) \in Items
  BY HeadAndTail
<1>2. Len(Tail(q)) \in Nat
  BY <1>1, LenProperties
<1>3. Tail(q) = <<>>
  BY <1>1, <1>2, EmptySeq
<1> QED BY <1>1, <1>3, ConcatEmptySeq

\* The parts of the pipe, from its head on, are sequences, and so is it.
LEMMA PipeParts ==
  ASSUME Types
  PROVE  /\ dedup_queue \o sending \in Seq(Items)
         /\ hand \o (dedup_queue \o sending) \in Seq(Items)
         /\ buffer \o (hand \o (dedup_queue \o sending)) \in Seq(Items)
         /\ Pipe \in Seq(Items)
<1>1. dedup_queue \o sending \in Seq(Items)
  BY ConcatProperties DEF Types
<1>2. hand \o (dedup_queue \o sending) \in Seq(Items)
  BY <1>1, ConcatProperties DEF Types
<1>3. buffer \o (hand \o (dedup_queue \o sending)) \in Seq(Items)
  BY <1>2, ConcatProperties DEF Types
<1>4. Pipe \in Seq(Items)
  BY <1>3, ConcatProperties DEF Types, Pipe
<1> QED BY <1>1, <1>2, <1>3, <1>4

\* The chunks of the pipe are those of its parts.
LEMMA PipeChunks ==
  ASSUME Types
  PROVE  /\ Chunks(Pipe) = Chunks(sending) + Chunks(dedup_queue) + Chunks(hand)
                           + Chunks(buffer) + Chunks(rewrite_queue)
         /\ Chunks(Pipe) \in Nat /\ Chunks(buffer) \in Nat /\ Chunks(hand) \in Nat
<1> DEFINE d == dedup_queue \o sending
           h == hand \o d
           b == buffer \o h
<1>1. /\ d \in Seq(Items) /\ h \in Seq(Items) /\ b \in Seq(Items) /\ Pipe \in Seq(Items)
  BY PipeParts
<1>2. Pipe = rewrite_queue \o b
  BY DEF Pipe
<1>3. Chunks(d) = Chunks(dedup_queue) + Chunks(sending)
  BY ChunksConcat DEF Types
<1> HIDE DEF d
<1>4. Chunks(h) = Chunks(hand) + Chunks(d)
  BY <1>1, ChunksConcat DEF Types
<1> HIDE DEF h
<1>5. Chunks(b) = Chunks(buffer) + Chunks(h)
  BY <1>1, ChunksConcat DEF Types
<1> HIDE DEF b
<1>6. Chunks(Pipe) = Chunks(rewrite_queue) + Chunks(b)
  BY <1>1, <1>2, ChunksConcat DEF Types
<1>7. /\ Chunks(sending) \in Nat /\ Chunks(dedup_queue) \in Nat /\ Chunks(hand) \in Nat
      /\ Chunks(buffer) \in Nat /\ Chunks(rewrite_queue) \in Nat /\ Chunks(Pipe) \in Nat
  BY <1>1, ChunksType DEF Types
<1> QED BY <1>3, <1>4, <1>5, <1>6, <1>7
-----------------------------------------------------------------------------
(* The invariant.                                                          *)

\* No chunk is anywhere at first.
LEMMA InitInv == Init => IInv
<1> SUFFICES ASSUME Init PROVE IInv
  OBVIOUS
<1>1. <<>> \in Seq(Items) /\ Len(<<>>) = 0
  BY EmptySeq
<1>2. Types
  <2>1. /\ sending = <<>> /\ dedup_queue = <<>> /\ hand = <<>> /\ buffer = <<>>
        /\ rewrite_queue = <<>> /\ dedup = "segment"
    BY DEF Init
  <2>2. /\ sending \in Seq(Items) /\ dedup_queue \in Seq(Items) /\ hand \in Seq(Items)
        /\ buffer \in Seq(Items) /\ rewrite_queue \in Seq(Items)
        /\ Len(dedup_queue) <= QueueCap /\ Len(rewrite_queue) <= QueueCap /\ Len(hand) <= 1
    BY <2>1, <1>1, ThrottleAssumption
  <2>3. read \in 0..StreamMax /\ size \in 0..SegmentMax
    BY ThrottleAssumption DEF Init
  <2> QED BY <2>1, <2>2, <2>3 DEF Init, Types
<1>3. Pipe = <<>>
  <2>1. <<>> \o <<>> = <<>>
    BY <1>1, ConcatEmptySeq
  <2> QED BY <2>1 DEF Init, Pipe
<1>4. Fits(<<>>, 0) /\ Whole(<<>>, 0)
  BY <1>1, ThrottleAssumption DEF Fits, Whole
<1>5. PipeInv
  BY <1>3, <1>4, ChunksNone DEF Init, PipeInv
<1>6. ReadInv /\ WaitsOnlyIfFull
  BY DEF Init, ReadInv, WaitsOnlyIfFull
<1>7. BufferInv
  BY ChunksNone, ThrottleAssumption DEF Init, BufferInv, RewriteBufferBounded
<1>8. BoundedIfShared
  BY ThrottleAssumption DEF Init, BoundedIfShared, IndexBufferBounded
<1> QED BY <1>2, <1>5, <1>6, <1>7, <1>8 DEF IInv

\* A step that only moves the pipe, or does not touch it, keeps what is said of it.
LEMMA PipeKept ==
  ASSUME PipeInv, Pipe' = Pipe, UNCHANGED <<chunk_num, segment>>
  PROVE  PipeInv'
<1>1. chunk_num' = Chunks(Pipe') + segment'
  BY DEF PipeInv
<1>2. Fits(Pipe', segment') /\ Whole(Pipe', segment')
  BY DEF PipeInv
<1> QED BY <1>1, <1>2 DEF PipeInv

\* A step that neither counts chunks nor makes the dedup phase wait keeps what is said
\* of the index buffer.
LEMMA ThrottleKept ==
  ASSUME WaitsOnlyIfFull, BoundedIfShared, UNCHANGED <<settings, chunk_num>>,
         dedup' = "waiting" => dedup = "waiting"
  PROVE  WaitsOnlyIfFull' /\ BoundedIfShared'
BY DEF WaitsOnlyIfFull, BoundedIfShared, IndexBufferBounded, BufferFull, wait_threshold, settings

\* The steps of the dedup phase that leave the pipe alone.
LEMMA DedupKeeps ==
  ASSUME IInv, (\E n \in 1..SegmentMax : Segmenting(n)) \/ SpuriousWakeup \/ EndOfStream
  PROVE  IInv'
<1> USE DEF IInv
<1>1. UNCHANGED <<settings, chunk_num, sending, dedup_queue, hand, buffer, flushing,
                  rewrite_queue, segment, filtered>>
  BY DEF Segmenting, SpuriousWakeup, EndOfStream
<1>2. PipeInv'
  <2>1. Pipe' = Pipe
    BY <1>1 DEF Pipe
  <2> QED BY <2>1, <1>1, PipeKept
<1>3. BufferInv'
  BY <1>1 DEF BufferInv, RewriteBufferBounded, settings
<1>4. WaitsOnlyIfFull' /\ BoundedIfShared'
  <2>1. dedup' # "waiting"
    BY DEF Segmenting, SpuriousWakeup, EndOfStream
  <2> QED BY <2>1, <1>1, ThrottleKept
<1>5. Types' /\ ReadInv'
  <2>1. CASE \E n \in 1..SegmentMax : Segmenting(n)
    <3>1. PICK n \in 1..SegmentMax : Segmenting(n)
      BY <2>1
    <3>2. n \in 0..SegmentMax /\ n \in Nat
      BY ThrottleAssumption
    <3>3. read \in Nat /\ read' = read + n /\ read' <= StreamMax
      BY <3>1 DEF Segmenting, Types
    <3>4. read' \in 0..StreamMax
      BY <3>2, <3>3, ThrottleAssumption
    <3>5. Types'
      BY <3>1, <3>2, <3>4, <1>1 DEF Types, Segmenting, settings
    <3>6. ReadInv'
      BY <3>1, <3>2 DEF Types, ReadInv, Segmenting
    <3> QED BY <3>5, <3>6
  <2>2. CASE SpuriousWakeup
    BY <2>2, <1>1 DEF Types, ReadInv, SpuriousWakeup, settings
  <2>3. CASE EndOfStream
    BY <2>3, <1>1 DEF Types, ReadInv, EndOfStream, settings
  <2> QED BY <2>1, <2>2, <2>3
<1> QED BY <1>2, <1>3, <1>4, <1>5

\* A lookup appends its segment to the pipe, or waits for a reason.
LEMMA IndexLookupKeeps ==
  ASSUME IInv, IndexLookup
  PROVE  IInv'
<1> USE DEF IInv
<1>1. UNCHANGED <<settings, read, size, dedup_queue, hand, buffer, flushing, rewrite_queue,
                  segment, filtered>> /\ dedup = "lookup"
  BY DEF IndexLookup
<1>2. BufferInv'
  BY <1>1 DEF BufferInv, RewriteBufferBounded, settings
<1>3. CASE BufferFull /\ dedup' = "waiting" /\ UNCHANGED <<chunk_num, sending>>
  <2>1. PipeInv'
    <3>1. Pipe' = Pipe
      BY <1>1, <1>3 DEF Pipe
    <3> QED BY <3>1, <1>1, <1>3, PipeKept
  <2>2. Types' /\ ReadInv'
    BY <1>1, <1>3 DEF Types, ReadInv, settings
  <2>3. WaitsOnlyIfFull' /\ BoundedIfShared'
    BY <1>1, <1>3 DEF WaitsOnlyIfFull, BoundedIfShared, IndexBufferBounded, BufferFull,
                      wait_threshold, settings
  <2> QED BY <1>2, <2>1, <2>2, <2>3
<1>4. CASE /\ ~BufferFull /\ chunk_num' = chunk_num + size
           /\ sending' = NewSegment(size) /\ dedup' = "send"
  <2>1. size \in 0..SegmentMax /\ size \in Nat /\ SegmentMax \in Nat
    BY ThrottleAssumption DEF Types
  <2>2. /\ NewSegment(size) \in Seq(Items) /\ Len(NewSegment(size)) = size + 1
        /\ Chunks(NewSegment(size)) = size
    BY <2>1, NewSegmentChunks
  <2>3. NewSegment(size) # <<>>
    BY <2>1, <2>2, EmptySeq
  <2>4. Types'
    BY <1>1, <1>4, <2>1, <2>2, <2>3 DEF Types, settings
  <2>5. Pipe' = Pipe \o NewSegment(size)
    <3>1. sending = <<>>
      BY <1>1 DEF Types
    <3>2. dedup_queue \o sending = dedup_queue
      BY <3>1, ConcatEmptySeq DEF Types
    <3>3. Pipe = Cat(rewrite_queue, Cat(buffer, Cat(hand, dedup_queue)))
      BY <3>2 DEF Pipe, Cat
    <3>4. Pipe' = Cat(rewrite_queue, Cat(buffer, Cat(hand, Cat(dedup_queue, NewSegment(size)))))
      BY <1>1, <1>4 DEF Pipe, Cat
    <3>5. /\ rewrite_queue \in Seq(Items) /\ buffer \in Seq(Items) /\ hand \in Seq(Items)
          /\ dedup_queue \in Seq(Items)
      BY DEF Types
    <3>6. Pipe' = Cat(Pipe, NewSegment(size))
      BY <3>3, <3>4, <3>5, <2>2, AppendToPipe
    <3> QED BY <3>6 DEF Cat
  <2>6. PipeInv'
    <3>1. Pipe \in Seq(Items) /\ Chunks(Pipe) \in Nat /\ segment \in Nat
      BY PipeParts, PipeChunks DEF Types
    <3>2. Chunks(Pipe') = Chunks(Pipe) + size
      BY <3>1, <2>2, <2>5, ChunksConcat
    <3>3. chunk_num' = Chunks(Pipe') + segment'
      BY <3>1, <3>2, <2>1, <1>1, <1>4 DEF PipeInv
    <3>4. Fits(Pipe \o NewSegment(size), segment) /\ Whole(Pipe \o NewSegment(size), segment)
      BY <3>1, <2>1, FitsNewSegment DEF PipeInv
    <3>5. Fits(Pipe', segment') /\ Whole(Pipe', segment')
      BY <3>4, <2>5, <1>1
    <3> QED BY <3>3, <3>5 DEF PipeInv
  <2>7. ReadInv'
    BY <1>1, <1>4, <2>1 DEF ReadInv, Types
  <2>8. WaitsOnlyIfFull'
    BY <1>4 DEF WaitsOnlyIfFull
  <2>9. BoundedIfShared'
    BY <1>1, <1>4, <2>1, ThrottleAssumption
       DEF BoundedIfShared, IndexBufferBounded, BufferFull, wait_threshold, settings, Types
  <2> QED BY <1>2, <2>4, <2>6, <2>7, <2>8, <2>9
<1> QED BY <1>3, <1>4 DEF IndexLookup, NewSegment

\* Sending a chunk moves it within the pipe.
LEMMA SendKeeps ==
  ASSUME IInv, Send
  PROVE  IInv'
<1> USE DEF IInv
<1>1. UNCHANGED <<settings, read, chunk_num, size, hand, buffer, flushing, rewrite_queue, segment,
                  filtered>>
  BY DEF Send
<1>2. sending # <<>> /\ sending \in Seq(Items) /\ dedup_queue \in Seq(Items)
  BY DEF Send, Types
<1>3. /\ Append(dedup_queue, Head(sending)) \in Seq(Items)
      /\ Len(Append(dedup_queue, Head(sending))) = Len(dedup_queue) + 1
      /\ Append(dedup_queue, Head(sending)) \o Tail(sending) = dedup_queue \o sending
  BY <1>2, MoveHead
<1>4. Tail(sending) \in Seq(Items) /\ Len(sending) = Len(Tail(sending)) + 1
  BY <1>2, HeadAndTail
<1>5. Len(sending) = 1 <=> Tail(sending) = <<>>
  BY <1>4, EmptyOrNot
<1>6. Types'
  <2>1. Len(dedup_queue) \in Nat /\ Len(dedup_queue') <= QueueCap
    BY <1>2, <1>3, LenProperties, ThrottleAssumption DEF Send
  <2> QED BY <2>1, <1>1, <1>3, <1>4, <1>5 DEF Types, Send, settings
<1>7. PipeInv'
  <2>1. Pipe' = Pipe
    BY <1>1, <1>3 DEF Pipe, Send
  <2> QED BY <2>1, <1>1, PipeKept
<1>8. ReadInv'
  BY <1>1 DEF ReadInv, Send
<1>9. BufferInv'
  BY <1>1 DEF BufferInv, RewriteBufferBounded, settings
<1>10. WaitsOnlyIfFull' /\ BoundedIfShared'
  BY <1>1, ThrottleKept DEF Send
<1> QED BY <1>6, <1>7, <1>8, <1>9, <1>10
\* The rewrite phase takes the head of dedup_queue in hand; CFL makes room for it first.
LEMMA RewriteTakeKeeps ==
  ASSUME IInv, RewriteTake
  PROVE  IInv'
<1> USE DEF IInv
<1>1. UNCHANGED <<settings, read, chunk_num, dedup, size, sending, buffer, rewrite_queue, segment,
                  filtered>> /\ hand = <<>> /\ ~flushing /\ dedup_queue # <<>>
  BY DEF RewriteTake
<1>2. dedup_queue \in Seq(Items) /\ sending \in Seq(Items)
  BY DEF Types
<1>3. /\ hand' = <<Head(dedup_queue)>> /\ hand' \in Seq(Items) /\ Len(hand') = 1
      /\ dedup_queue' = Tail(dedup_queue) /\ dedup_queue' \in Seq(Items)
      /\ dedup_queue = Cat(hand', dedup_queue') /\ Len(dedup_queue) = Len(dedup_queue') + 1
  BY <1>1, <1>2, HeadAndTail DEF RewriteTake, Cat
<1>4. /\ flushing' \in BOOLEAN
      /\ flushing' => buffer # <<>>
      /\ algorithm = "cfl" /\ ~flushing' => Chunks(buffer) < RewriteMax
      /\ algorithm # "cfl" => flushing' = flushing
  <2>1. Chunks(buffer) \in Nat
    BY PipeChunks
  <2>2. CASE algorithm # "cfl"
    <3>1. flushing' = flushing
      BY <2>2 DEF RewriteTake
    <3>2. flushing \in BOOLEAN
      BY DEF Types
    <3> QED BY <3>1, <3>2, <2>2, <1>1
  <2>3. CASE algorithm = "cfl"
    <3>1. flushing' \in FlushBefore
      BY <2>3 DEF RewriteTake
    <3>2. CASE Chunks(buffer) >= RewriteMax
      <4>1. flushing' \in {TRUE}
        <5>1. FlushBefore = {TRUE}
          BY <3>2 DEF FlushBefore
        <5> QED BY <5>1, <3>1
      <4>2. buffer # <<>>
        BY <3>2, ChunksNone, ThrottleAssumption
      <4> QED BY <4>1, <4>2, <2>3
    <3>3. CASE ~(Chunks(buffer) >= RewriteMax)
      <4>1. Chunks(buffer) < RewriteMax
        BY <3>3, <2>1, ThrottleAssumption
      <4>2. CASE buffer # <<>> /\ Last(buffer) = "chunk"
        <5>1. FlushBefore = BOOLEAN
          BY <3>3, <4>2 DEF FlushBefore
        <5> QED BY <5>1, <4>1, <4>2, <3>1, <2>3
      <4>3. CASE ~(buffer # <<>> /\ Last(buffer) = "chunk")
        <5>1. FlushBefore = {FALSE}
          BY <3>3, <4>3 DEF FlushBefore
        <5> QED BY <5>1, <4>1, <3>1, <2>3
      <4> QED BY <4>2, <4>3
    <3> QED BY <3>2, <3>3
  <2> QED BY <2>2, <2>3
<1>5. Types'
  <2>1. Len(dedup_queue') <= QueueCap /\ Len(hand') <= 1
    <3>1. Len(dedup_queue') \in Nat /\ Len(dedup_queue) <= QueueCap
      BY <1>3, EmptyOrNot DEF Types
    <3> QED BY <3>1, <1>3, ThrottleAssumption
  <2> QED BY <2>1, <1>1, <1>3, <1>4 DEF Types, settings
<1>6. PipeInv'
  <2>1. hand \o (dedup_queue \o sending) = Cat(dedup_queue, sending)
    <3>1. dedup_queue \o sending \in Seq(Items)
      BY PipeParts
    <3> QED BY <3>1, <1>1, ConcatEmptySeq DEF Cat
  <2>2. Cat(hand', Cat(dedup_queue', sending)) = Cat(dedup_queue, sending)
    <3>1. Cat(Cat(hand', dedup_queue'), sending) = Cat(hand', Cat(dedup_queue', sending))
      BY <1>2, <1>3, Associative
    <3> QED BY <3>1, <1>3
  <2>3. Pipe' = Pipe
    BY <2>1, <2>2, <1>1 DEF Pipe, Cat
  <2> QED BY <2>3, <1>1, PipeKept
<1>7. ReadInv'
  BY <1>1 DEF ReadInv
<1>8. BufferInv'
  <2>1. algorithm' = algorithm
    BY <1>1 DEF settings
  <2> QED BY <2>1, <1>1, <1>4 DEF BufferInv, RewriteBufferBounded
<1>9. WaitsOnlyIfFull' /\ BoundedIfShared'
  BY <1>1, ThrottleKept
<1> QED BY <1>5, <1>6, <1>7, <1>8, <1>9

\* It passes on what it has in hand, or puts it into its buffer, where there is room.
LEMMA RewritePutKeeps ==
  ASSUME IInv, RewritePut
  PROVE  IInv'
<1> USE DEF IInv
<1> DEFINE Y == dedup_queue \o sending
<1>1. UNCHANGED <<settings, read, chunk_num, dedup, size, sending, dedup_queue, segment, filtered>>
      /\ hand # <<>> /\ ~flushing /\ hand' = <<>>
  BY DEF RewritePut
<1>2. /\ hand \in Seq(Items) /\ buffer \in Seq(Items) /\ rewrite_queue \in Seq(Items)
      /\ Len(hand) <= 1
  BY DEF Types
<1>3. Y \in Seq(Items) /\ Y' = Y /\ hand' \in Seq(Items) /\ Len(hand') <= 1
  BY <1>1, PipeParts, EmptySeq
<1>4. hand = <<Head(hand)>> /\ Head(hand) \in Items /\ Len(hand) = 1
  <2>1. hand = <<Head(hand)>> /\ Head(hand) \in Items
    BY <1>1, <1>2, AtMostOne
  <2>2. Len(hand) \in Nat \ {0}
    BY <1>1, <1>2, EmptySeq
  <2> QED BY <2>1, <2>2, <1>2
<1>5. Pipe = Cat(rewrite_queue, Cat(buffer, Cat(hand, Y)))
      /\ Pipe' = Cat(rewrite_queue', Cat(buffer', Y))
  <2>1. Pipe' = rewrite_queue' \o (buffer' \o (hand' \o Y'))
    BY DEF Pipe
  <2>2. hand' \o Y' = Y
    BY <1>1, <1>3, ConcatEmptySeq
  <2> QED BY <2>1, <2>2 DEF Pipe, Cat
<1> HIDE DEF Y
<1>6. ReadInv'
  BY <1>1 DEF ReadInv
<1>7. WaitsOnlyIfFull' /\ BoundedIfShared'
  BY <1>1, ThrottleKept
<1>8. CASE algorithm = "no"
  <2>1. /\ Len(rewrite_queue) < QueueCap /\ rewrite_queue' = Cat(rewrite_queue, hand)
        /\ UNCHANGED <<buffer, flushing>> /\ buffer = <<>>
    BY <1>8 DEF RewritePut, BufferInv, Cat
  <2>2. /\ rewrite_queue' \in Seq(Items)
        /\ Len(rewrite_queue') = Len(rewrite_queue) + 1
    BY <2>1, <1>2, <1>4, ConcatProperties DEF Cat
  <2>3. Types'
    <3>1. Len(rewrite_queue') <= QueueCap
      BY <2>1, <2>2, <1>2, EmptyOrNot, ThrottleAssumption
    <3> QED BY <3>1, <2>1, <2>2, <1>1, <1>3 DEF Types, settings
  <2>4. PipeInv'
    <3>1. Cat(hand, Y) \in Seq(Items)
      BY <1>2, <1>3, Associative
    <3>2. Cat(buffer, Cat(hand, Y)) = Cat(hand, Y) /\ Cat(buffer', Y) = Y
      BY <3>1, <1>3, <2>1, ConcatEmptySeq DEF Cat
    <3>3. Cat(Cat(rewrite_queue, hand), Y) = Cat(rewrite_queue, Cat(hand, Y))
      BY <1>2, <1>3, Associative
    <3>4. Pipe' = Pipe
      BY <3>2, <3>3, <1>5, <2>1
    <3> QED BY <3>4, <1>1, PipeKept
  <2>5. BufferInv'
    BY <1>1, <1>8, <2>1 DEF BufferInv, RewriteBufferBounded, settings
  <2> QED BY <1>6, <1>7, <2>3, <2>4, <2>5
<1>9. CASE algorithm # "no"
  <2>1. /\ buffer' = Cat(buffer, hand) /\ UNCHANGED rewrite_queue
        /\ flushing' = (algorithm \in {"cbr", "cap"} /\ hand = <<"chunk">>
                        /\ Chunks(buffer) + 1 >= RewriteMax)
    BY <1>9 DEF RewritePut, Cat
  <2>2. /\ buffer' \in Seq(Items) /\ Len(buffer') = Len(buffer) + 1
        /\ Chunks(buffer') = Chunks(buffer) + Chunks(hand)
    <3>1. /\ buffer \o hand \in Seq(Items)
          /\ Len(buffer \o hand) = Len(buffer) + Len(hand)
      BY <1>2, ConcatProperties
    <3>2. Chunks(buffer \o hand) = Chunks(buffer) + Chunks(hand)
      BY <1>2, ChunksConcat
    <3> QED BY <3>1, <3>2, <2>1, <1>4 DEF Cat
  <2>3. buffer' # <<>>
    BY <2>2, <1>2, EmptyOrNot, EmptySeq
  <2>4. Types'
    BY <2>1, <2>2, <1>1, <1>3 DEF Types, settings
  <2>5. PipeInv'
    <3>1. Cat(Cat(buffer, hand), Y) = Cat(buffer, Cat(hand, Y))
      BY <1>2, <1>3, Associative
    <3>2. Pipe' = Pipe
      BY <3>1, <1>5, <2>1
    <3> QED BY <3>2, <1>1, PipeKept
  <2>6. BufferInv'
    <3>1. algorithm \in {"cfl", "cbr", "cap"} /\ algorithm' = algorithm
      BY <1>1, <1>9, ThrottleAssumption DEF Types, settings
    <3>2. Chunks(buffer) < RewriteMax /\ Chunks(buffer) \in Nat /\ RewriteMax \in Nat
      BY <1>1, <3>1, PipeChunks, ThrottleAssumption DEF BufferInv
    <3>3. Chunks(hand) = IF hand = <<"chunk">> THEN 1 ELSE 0
      <4>1. Chunks(hand) = IF Head(hand) = "chunk" THEN 1 ELSE 0
        BY <1>4, ChunksOne
      <4>2. hand = <<"chunk">> <=> Head(hand) = "chunk"
        BY <1>4
      <4> QED BY <4>1, <4>2
    <3>4. RewriteBufferBounded'
      BY <2>2, <3>2, <3>3 DEF RewriteBufferBounded
    <3>5. algorithm \in {"cbr", "cap"} /\ ~flushing' => Chunks(buffer') < RewriteMax
      <4>1. algorithm \in {"cbr", "cap"} /\ ~flushing'
              => hand # <<"chunk">> \/ ~(Chunks(buffer) + 1 >= RewriteMax)
        BY <2>1
      <4> QED BY <4>1, <2>2, <3>2, <3>3
    <3> QED BY <1>1, <2>3, <3>1, <3>4, <3>5 DEF BufferInv
  <2> QED BY <1>6, <1>7, <2>4, <2>5, <2>6
<1> QED BY <1>8, <1>9

\* The end of the stream starts the last flush.
LEMMA RewriteRestKeeps ==
  ASSUME IInv, RewriteRest
  PROVE  IInv'
<1> USE DEF IInv
<1>1. UNCHANGED <<settings, read, chunk_num, dedup, size, sending, dedup_queue, hand, buffer,
                  rewrite_queue, segment, filtered>>
      /\ hand = <<>> /\ buffer # <<>> /\ flushing' = TRUE
  BY DEF RewriteRest
<1>2. Types' /\ ReadInv'
  BY <1>1 DEF Types, ReadInv, settings
<1>3. PipeInv'
  <2>1. Pipe' = Pipe
    BY <1>1 DEF Pipe
  <2> QED BY <2>1, <1>1, PipeKept
<1>4. BufferInv'
  BY <1>1 DEF BufferInv, RewriteBufferBounded, settings
<1>5. WaitsOnlyIfFull' /\ BoundedIfShared'
  BY <1>1, ThrottleKept
<1> QED BY <1>2, <1>3, <1>4, <1>5

\* A flush moves the head of the buffer on; it stops when there is room again.
LEMMA RewriteFlushKeeps ==
  ASSUME IInv, RewriteFlush
  PROVE  IInv'
<1> USE DEF IInv
<1> DEFINE Z == hand \o (dedup_queue \o sending)
<1>1. UNCHANGED <<settings, read, chunk_num, dedup, size, sending, dedup_queue, hand, segment,
                  filtered>> /\ flushing /\ Len(rewrite_queue) < QueueCap
  BY DEF RewriteFlush
<1>2. buffer \in Seq(Items) /\ rewrite_queue \in Seq(Items) /\ buffer # <<>>
  BY <1>1 DEF Types, BufferInv
<1>3. Z \in Seq(Items) /\ Z' = Z
  BY <1>1, PipeParts
<1>4. Pipe = rewrite_queue \o (buffer \o Z) /\ Pipe' = rewrite_queue' \o (buffer' \o Z')
  BY DEF Pipe
<1> HIDE DEF Z
<1>5. /\ rewrite_queue' \in Seq(Items) /\ Len(rewrite_queue') = Len(rewrite_queue) + 1
      /\ rewrite_queue' \o (buffer' \o Z) = rewrite_queue \o (buffer \o Z)
  BY <1>2, <1>3, MoveHead, ZenonT(40) DEF RewriteFlush
<1>6. /\ buffer' = Tail(buffer) /\ buffer' \in Seq(Items) /\ Head(buffer) \in Items
      /\ Len(buffer) = Len(buffer') + 1
      /\ Chunks(buffer) = Chunks(buffer') + (IF Head(buffer) = "chunk" THEN 1 ELSE 0)
  BY <1>2, HeadAndTail, ChunksTail DEF RewriteFlush
<1>7. /\ Len(buffer) > 1 <=> buffer' # <<>>
      /\ Chunks(buffer') \in Nat /\ (buffer' = <<>> => Chunks(buffer') = 0)
  BY <1>6, EmptyOrNot, ChunksType, ChunksNone
<1>8. Types'
  <2>1. Len(rewrite_queue') <= QueueCap
    BY <1>1, <1>2, <1>5, EmptyOrNot, ThrottleAssumption
  <2>2. flushing' \in BOOLEAN
    BY DEF RewriteFlush
  <2> QED BY <2>1, <2>2, <1>1, <1>5, <1>6 DEF Types, settings
<1>9. PipeInv'
  <2>1. Pipe' = Pipe
    BY <1>3, <1>4, <1>5
  <2> QED BY <2>1, <1>1, PipeKept
<1>10. ReadInv'
  BY <1>1 DEF ReadInv
<1>11. BufferInv'
  <2>1. Chunks(buffer) <= RewriteMax /\ RewriteMax \in Nat \ {0} /\ algorithm' = algorithm
    BY <1>1, ThrottleAssumption DEF BufferInv, RewriteBufferBounded, settings
  <2>2. RewriteBufferBounded'
    BY <2>1, <1>6, <1>7 DEF RewriteBufferBounded
  <2>3. flushing' => buffer' # <<>>
    BY <1>7 DEF RewriteFlush
  <2>4. ~flushing' => buffer' = <<>> \/ (algorithm = "cbr" /\ Head(buffer) = "chunk")
    BY <1>7 DEF RewriteFlush
  <2>5. ~flushing' => Chunks(buffer') < RewriteMax
    BY <2>1, <2>4, <1>6, <1>7
  <2>6. algorithm # "no"
    BY <1>2 DEF BufferInv
  <2>7. algorithm \in {"cbr", "cap"} => hand' = <<>>
    BY <1>1 DEF BufferInv
  <2> QED BY <2>1, <2>2, <2>3, <2>5, <2>6, <2>7 DEF BufferInv
<1>12. WaitsOnlyIfFull' /\ BoundedIfShared'
  BY <1>1, ThrottleKept
<1> QED BY <1>8, <1>9, <1>10, <1>11, <1>12
\* The filter phase takes a chunk off the pipe into its segment.
LEMMA FilterChunkKeeps ==
  ASSUME IInv, FilterChunk
  PROVE  IInv'
<1> USE DEF IInv
<1> DEFINE R == buffer \o (hand \o (dedup_queue \o sending))
<1>1. UNCHANGED <<settings, read, chunk_num, dedup, size, sending, dedup_queue, hand, buffer,
                  flushing, filtered>>
      /\ rewrite_queue # <<>> /\ Head(rewrite_queue) = "chunk"
      /\ rewrite_queue' = Tail(rewrite_queue) /\ segment' = segment + 1
  BY DEF FilterChunk
<1>2. rewrite_queue \in Seq(Items) /\ segment \in Nat
  BY DEF Types
<1>3. R \in Seq(Items) /\ R' = R
  BY <1>1, PipeParts
<1>4. Pipe = rewrite_queue \o R /\ Pipe' = rewrite_queue' \o R'
  BY DEF Pipe
<1> HIDE DEF R
<1>5. /\ Pipe \in Seq(Items) /\ Pipe # <<>> /\ Head(Pipe) = "chunk" /\ Pipe' = Tail(Pipe)
  BY <1>1, <1>2, <1>3, <1>4, TakeHead
<1>6. /\ rewrite_queue' \in Seq(Items) /\ Len(rewrite_queue) = Len(rewrite_queue') + 1
  BY <1>1, <1>2, HeadAndTail
<1>7. Types'
  <2>1. Len(rewrite_queue') <= QueueCap
    <3>1. Len(rewrite_queue') \in Nat /\ Len(rewrite_queue) <= QueueCap
      BY <1>6, EmptyOrNot DEF Types
    <3> QED BY <3>1, <1>6, ThrottleAssumption
  <2> QED BY <2>1, <1>1, <1>2, <1>6 DEF Types, settings
<1>8. PipeInv'
  <2>1. Chunks(Pipe) = Chunks(Tail(Pipe)) + 1 /\ Chunks(Tail(Pipe)) \in Nat
    BY <1>5, ChunksTail, HeadAndTail, ChunksType
  <2>2. chunk_num' = Chunks(Pipe') + segment'
    BY <2>1, <1>1, <1>2, <1>5 DEF PipeInv
  <2>3. Fits(Tail(Pipe), segment + 1) /\ Whole(Tail(Pipe), segment + 1)
    BY <1>2, <1>5, FitsTakeChunk DEF PipeInv
  <2>4. Fits(Pipe', segment') /\ Whole(Pipe', segment')
    BY <2>3, <1>1, <1>5
  <2> QED BY <2>2, <2>4 DEF PipeInv
<1>9. ReadInv'
  BY <1>1 DEF ReadInv
<1>10. BufferInv'
  BY <1>1 DEF BufferInv, RewriteBufferBounded, settings
<1>11. WaitsOnlyIfFull' /\ BoundedIfShared'
  BY <1>1, ThrottleKept
<1> QED BY <1>7, <1>8, <1>9, <1>10, <1>11

\* It takes the end of a segment, whose chunks are no longer in flight.
LEMMA FilterSegmentKeeps ==
  ASSUME IInv, FilterSegment
  PROVE  IInv'
<1> USE DEF IInv
<1> DEFINE R == buffer \o (hand \o (dedup_queue \o sending))
<1>1. UNCHANGED <<settings, read, size, sending, dedup_queue, hand, buffer, flushing>>
      /\ rewrite_queue # <<>> /\ Head(rewrite_queue) = "end"
      /\ rewrite_queue' = Tail(rewrite_queue)
      /\ chunk_num' = chunk_num - segment /\ filtered' = filtered + segment /\ segment' = 0
  BY DEF FilterSegment
<1>2. rewrite_queue \in Seq(Items) /\ segment \in Nat
  BY DEF Types
<1>3. R \in Seq(Items) /\ R' = R
  BY <1>1, PipeParts
<1>4. Pipe = rewrite_queue \o R /\ Pipe' = rewrite_queue' \o R'
  BY DEF Pipe
<1> HIDE DEF R
<1>5. /\ Pipe \in Seq(Items) /\ Pipe # <<>> /\ Head(Pipe) = "end" /\ Pipe' = Tail(Pipe)
  BY <1>1, <1>2, <1>3, <1>4, TakeHead
<1>6. /\ rewrite_queue' \in Seq(Items) /\ Len(rewrite_queue) = Len(rewrite_queue') + 1
  BY <1>1, <1>2, HeadAndTail
<1>7. Chunks(Pipe) = Chunks(Pipe') /\ Chunks(Pipe') \in Nat
  <2>1. Tail(Pipe) \in Seq(Items) /\ Chunks(Tail(Pipe)) \in Nat
    BY <1>5, HeadAndTail, ChunksType
  <2>2. Chunks(Pipe) = Chunks(Tail(Pipe)) + 0
    BY <1>5, ChunksTail
  <2> QED BY <2>1, <2>2, <1>5
<1>8. chunk_num' = Chunks(Pipe') + segment' /\ chunk_num' \in Nat /\ chunk_num' <= chunk_num
  BY <1>1, <1>2, <1>7 DEF PipeInv
<1>9. /\ dedup \in {"segment", "lookup", "waiting", "send", "ended"}
      /\ dedup' = dedup \/ (dedup = "waiting" /\ dedup' = "lookup")
      /\ dedup' = "waiting" => dedup = "waiting"
                              /\ ~(wait_threshold > 0 /\ chunk_num' < wait_threshold)
  BY DEF Types, FilterSegment
<1>10. Types'
  <2>1. Len(rewrite_queue') <= QueueCap
    <3>1. Len(rewrite_queue') \in Nat /\ Len(rewrite_queue) <= QueueCap
      BY <1>6, EmptyOrNot DEF Types
    <3> QED BY <3>1, <1>6, ThrottleAssumption
  <2>2. dedup' = "send" <=> sending' # <<>>
    BY <1>1, <1>9 DEF Types
  <2>3. dedup' \in {"segment", "lookup", "waiting", "send", "ended"}
    BY <1>9
  <2>4. filtered' \in Nat /\ segment' \in Nat
    BY <1>1, <1>2 DEF Types
  <2> QED BY <2>1, <2>2, <2>3, <2>4, <1>1, <1>6, <1>8 DEF Types, settings
<1>11. PipeInv'
  <2>1. Fits(Tail(Pipe), 0) /\ Whole(Tail(Pipe), 0)
    BY <1>2, <1>5, FitsTakeEnd DEF PipeInv
  <2>2. Fits(Pipe', segment') /\ Whole(Pipe', segment')
    BY <2>1, <1>1, <1>5
  <2> QED BY <2>2, <1>8 DEF PipeInv
<1>12. ReadInv'
  BY <1>1, <1>2, <1>9 DEF ReadInv, Types
<1>13. BufferInv'
  BY <1>1 DEF BufferInv, RewriteBufferBounded, settings
<1>14. WaitsOnlyIfFull'
  BY <1>1, <1>8, <1>9, ThrottleAssumption
     DEF WaitsOnlyIfFull, BufferFull, wait_threshold, settings
<1>15. BoundedIfShared'
  BY <1>1, <1>8, ThrottleAssumption DEF BoundedIfShared, IndexBufferBounded, settings, Types
<1> QED BY <1>10, <1>11, <1>12, <1>13, <1>14, <1>15

\* Every step keeps the invariant.
LEMMA Inductive == IInv /\ [Next]_vars => IInv'
<1> SUFFICES ASSUME IInv, [Next]_vars PROVE IInv'
  OBVIOUS
<1>1. CASE (\E n \in 1..SegmentMax : Segmenting(n)) \/ SpuriousWakeup \/ EndOfStream
  BY <1>1, DedupKeeps
<1>2. CASE IndexLookup
  BY <1>2, IndexLookupKeeps
<1>3. CASE Send
  BY <1>3, SendKeeps
<1>4. CASE RewriteTake
  BY <1>4, RewriteTakeKeeps
<1>5. CASE RewritePut
  BY <1>5, RewritePutKeeps
<1>6. CASE RewriteRest
  BY <1>6, RewriteRestKeeps
<1>7. CASE RewriteFlush
  BY <1>7, RewriteFlushKeeps
<1>8. CASE FilterChunk
  BY <1>8, FilterChunkKeeps
<1>9. CASE FilterSegment
  BY <1>9, FilterSegmentKeeps
<1>10. CASE UNCHANGED vars
  <2> USE <1>10 DEF vars, settings
  <2>1. Types' /\ ReadInv' /\ BufferInv'
    BY DEF IInv, Types, ReadInv, BufferInv, RewriteBufferBounded
  <2>2. PipeInv'
    <3>1. Pipe' = Pipe
      BY DEF Pipe
    <3> QED BY <3>1, PipeKept DEF IInv
  <2>3. WaitsOnlyIfFull' /\ BoundedIfShared'
    BY ThrottleKept DEF IInv
  <2> QED BY <2>1, <2>2, <2>3 DEF IInv
<1> QED BY <1>1, <1>2, <1>3, <1>4, <1>5, <1>6, <1>7, <1>8, <1>9, <1>10
        DEF Next, Rewrite, Filter

\* It holds in every reachable state.
LEMMA Invariant == Spec => []IInv
BY InitInv, Inductive, PTL DEF Spec

-----------------------------------------------------------------------------
(* What it implies.                                                        *)

\* The index buffer counts the chunks in flight, wherever they are between index_lookup
\* and index_update_buffer; the rewrite buffer never has more than rewrite_algorithm[1]
\* (the assertion of rewrite_buffer_push); the dedup phase waits only on a full buffer.
THEOREM CountIsSound == Spec => []CountSound
<1>1. IInv => CountSound
  <2> SUFFICES ASSUME IInv PROVE CountSound
    OBVIOUS
  <2> USE DEF IInv
  <2>1. Pipe \in Seq(Items) /\ Len(Pipe) \in Nat
    BY PipeParts, LenProperties
  <2>2. segment \in 0..SegmentMax
    <3>1. segment \in Nat /\ Fits(Pipe, segment)
      BY DEF Types, PipeInv
    <3>2. 0 \in 0..Len(Pipe) /\ \A k \in 0+1..0 : Pipe[k] = "chunk"
      BY <2>1
    <3>3. 0 - 0 + segment <= SegmentMax
      BY <3>1, <3>2 DEF Fits
    <3> QED BY <3>1, <3>3, ThrottleAssumption
  <2>3. chunk_num \in 0..StreamMax /\ filtered \in 0..StreamMax
    <3>1. size \in Nat /\ read <= StreamMax /\ chunk_num \in Nat /\ filtered \in Nat
      BY ThrottleAssumption DEF Types
    <3>2. (IF dedup \in {"lookup", "waiting"} THEN size ELSE 0) \in Nat
      BY <3>1
    <3> QED BY <3>1, <3>2, ThrottleAssumption DEF ReadInv
  <2>4. TypeOK
    BY <2>2, <2>3 DEF Types, TypeOK
  <2>5. CountsFlight
    BY PipeChunks DEF PipeInv, CountsFlight
  <2>6. RewriteBufferBounded /\ WaitsOnlyIfFull
    BY DEF BufferInv
  <2> QED BY <2>4, <2>5, <2>6 DEF CountSound
<1> QED BY <1>1, Invariant, PTL

\* Where index.c and filter_phase.c read wait_threshold as dedup_phase.c sets it, the
\* index buffer is bounded: by one segment more than the threshold.
THEOREM BoundedIfLayoutsAgree == Spec => []BoundedIfShared
<1>1. IInv => BoundedIfShared
  BY DEF IInv
<1> QED BY <1>1, Invariant, PTL
=============================================================================
