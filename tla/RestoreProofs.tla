--------------------------- MODULE RestoreProofs ---------------------------
(***************************************************************************)
(* A restore job gives back what was backed up, whatever the restore cache,*)
(* the containers, the window and the queues.  The recipe is one sequence  *)
(* of marks and pointers (All), and every place where something waits holds*)
(* the piece of it that comes next (Matches).  The optimal cache counts    *)
(* accesses where the recipe has pointers; that both agree (WindowInv)     *)
(* rests on the access records being made from the same recipe.            *)
(*                                                                         *)
(* That the optimal cache is optimal is an exchange argument: a cache is   *)
(* worth no less than one that differs in a container needed later         *)
(* (Swapping), so the reads made and the fewest needed for the records to  *)
(* come stay the same together (OptInv).                                   *)
(***************************************************************************)
EXTENDS Restore, FiniteSetTheorems, SequenceTheorems, WellFoundedInduction, TLAPS

\* A mark or a pointer, and what is written of it.
Piece == Pointer \cup {Mark("start"), Mark("end")}
Output == [kind : {"start", "end", "chunk"}, fp : FP \cup {NoFp}]
View(c) == [kind |-> c.kind, fp |-> c.fp]

\* An item of the assembly area.
AreaItem == {x \in [kind : {"start", "end", "chunk"}, fp : FP \cup {NoFp},
                    id : Ids \cup {TEMPORARY_ID}, ready : BOOLEAN] :
               IF x.kind = "chunk" THEN x.fp \in FP ELSE x.fp = NoFp}

\* All that is read of the recipe, and how much of it has left the restore
\* thread, was popped by it, was fetched for it.
All == Items(recipe)
Sent == Len(written) + Len(restore_chunk_queue)
Taken == Sent + Len(out)
Popped == Taken + Len(area)
Fetched == Popped + Len(restore_recipe_queue)

\* Where the files end in what is read of a recipe.
Offsets(r, off) ==
  /\ off \in [0..Len(r) -> Nat] /\ off[0] = 0
  /\ \A i \in 1..Len(r) : off[i] = off[i - 1] + (Len(r[i]) + 2) /\ off[i] <= off[Len(r)]
  /\ Len(Items(r)) = off[Len(r)]
  /\ \A i \in 1..Len(r) : \A j \in 0..Len(r[i]) + 1 :
       Items(r)[off[i - 1] + (j + 1)] = Item(r[i], j)

\* What was backed up.
BackupInv ==
  /\ config \in Configs /\ recipe \in Recipes
  /\ records = Records(recipe) /\ source = Source(recipe)

\* The read thread is where the queue ends.
ReaderInv ==
  /\ file \in 1..Len(recipe) + 1 /\ next \in Nat
  /\ next <= IF file <= Len(recipe) THEN Len(recipe[file]) + 1 ELSE 0
  /\ \E off : Offsets(recipe, off) /\ Fetched = off[file - 1] + next

\* The queues and the area.
QueueInv ==
  /\ restore_recipe_queue \in Seq(Piece) /\ Len(restore_recipe_queue) <= QueueSize
  /\ restore_chunk_queue \in Seq(Output) /\ Len(restore_chunk_queue) <= QueueSize
  /\ out \in Seq(Output) /\ written \in Seq(Output)
  /\ area \in Seq(AreaItem)

\* Who terminated its queue has nothing left.
EndInv ==
  /\ terminated \subseteq {"recipe", "chunk"} /\ status \in {"running", "done"}
  /\ "recipe" \in terminated => file > Len(recipe)
  /\ "chunk" \in terminated => /\ "recipe" \in terminated
                               /\ restore_recipe_queue = <<>> /\ out = <<>> /\ area = <<>>
  /\ status = "done" => "chunk" \in terminated /\ restore_chunk_queue = <<>>

\* s is what follows n items of t, and the same of an area.
Stretch(s, n, t) == \A i \in 1..Len(s) : s[i] = t[n + i]
AreaStretch(a, n, t) ==
  \A i \in 1..Len(a) :
    a[i].kind = t[n + i].kind /\ a[i].fp = t[n + i].fp /\ a[i].id = t[n + i].id

\* Every place holds the piece of the recipe that comes next.
Matches ==
  /\ Stretch(written, 0, source)
  /\ Stretch(restore_chunk_queue, Len(written), source)
  /\ Stretch(out, Sent, source)
  /\ AreaStretch(area, Taken, All)
  /\ Stretch(restore_recipe_queue, Popped, All)

\* The assembly area: a mark is ready, a chunk is counted.
AreaInv ==
  /\ config.cache # "asm" => area = <<>>
  /\ \A i \in DOMAIN area : IsMark(area[i]) => area[i].ready
  /\ size = SizeOfAll(area)
  /\ AreaBounded

\* How many of the places S are among the first n.
Upto(S, n) == Cardinality({q \in S : q <= n})

\* The cache, and how often it was filled.
CacheInv ==
  /\ cache \in Seq(Ids) /\ Len(cache) <= CacheSize /\ IsInjective(cache)
  /\ config.cache = "asm" => cache = <<>>
  /\ reads \in Nat /\ reads <= Upto(Chunks(All), Taken)

\* id is that of the last chunk among the first n items.
LastChunk(items, n, id) ==
  IF id = TEMPORARY_ID THEN Chunks(items) \cap 1..n = {}
  ELSE \E q \in Chunks(items) \cap 1..n :
         /\ id = items[q].id
         /\ \A m \in Chunks(items) \cap 1..n : m <= q

\* t has the records lo to hi, each with its container.
Window(t, lo, hi) ==
  /\ DOMAIN t \subseteq Ids \cup {TEMPORARY_ID}
  /\ t = [id \in DOMAIN t |-> {p \in lo..hi : records[p] = id}]
  /\ \A p \in lo..hi : records[p] \in DOMAIN t

\* The window has the accesses to come, and what is cached is known to it.
WindowInv ==
  IF config.cache = "opt"
  THEN /\ sequence_number \in 0..Len(records) /\ buffered \in 0..config.window
       /\ sequence_number = buffered + Upto(Accesses(All), Popped)
       /\ Window(table, sequence_number - buffered + 1, sequence_number)
       /\ ToSet(cache) \subseteq DOMAIN table
       /\ last_id \in Ids \cup {TEMPORARY_ID} /\ LastChunk(All, Popped, last_id)
       /\ last_id # TEMPORARY_ID => cache # <<>> /\ cache[1] = last_id
  ELSE sequence_number = 0 /\ buffered = 0 /\ table = Nothing /\ last_id = TEMPORARY_ID

\* The stream that all of them copy, and the whole of it.
Stream == BackupInv /\ ReaderInv /\ QueueInv /\ EndInv /\ Matches
IInv == Stream /\ AreaInv /\ CacheInv /\ WindowInv

-----------------------------------------------------------------------------
(* Numbers.                                                                *)

\* A set of natural numbers that is not empty has a least element.
LEMMA LeastNumber ==
  ASSUME NEW S \in SUBSET Nat, S # {}
  PROVE  \E x \in S : \A y \in S : x <= y
<1>1. PICK x \in S : \A y \in S : ~ (<<y, x>> \in OpToRel(<, Nat))
  BY WFMin, NatLessThanWellFounded, Zenon
<1>2. \A y \in S : ~(y < x)
  BY <1>1, Zenon DEF OpToRel
<1> QED BY <1>2

\* Induction: what has 0 and with each number the next has all of them.
LEMMA Inductive ==
  ASSUME NEW S, 0 \in S, \A n \in Nat : n \in S => n + 1 \in S
  PROVE  \A n \in Nat : n \in S
<1> SUFFICES ASSUME Nat \ S # {} PROVE FALSE
  OBVIOUS
<1>1. PICK x \in Nat \ S : \A y \in Nat \ S : x <= y
  <2>1. Nat \ S \in SUBSET Nat
    OBVIOUS
  <2> QED BY <2>1, LeastNumber
<1>2. x # 0 /\ x - 1 \in Nat /\ ~(x <= x - 1) /\ x = (x - 1) + 1
  BY <1>1
<1>3. x - 1 \in S
  BY <1>1, <1>2
<1> QED BY <1>1, <1>2, <1>3

-----------------------------------------------------------------------------
(* Sums.                                                                   *)

\* g has the sums of the beginnings of w, up to the first n numbers.
Steps(w, n, g) ==
  /\ g \in [0..n -> Nat] /\ g[0] = 0
  /\ \A i \in 1..n : g[i] = g[i - 1] + w[i]

\* There is such a g.
LEMMA StepsExist ==
  ASSUME NEW n \in Nat, NEW w \in [1..n -> Nat]
  PROVE  \E g : Steps(w, n, g)
<1> DEFINE T == {m \in Nat : m <= n => \E g : Steps(w, m, g)}
<1>1. 0 \in T
  <2>1. Steps(w, 0, [i \in 0..0 |-> 0])
    BY DEF Steps
  <2> QED BY <2>1
<1>2. ASSUME NEW m \in Nat, m \in T PROVE m + 1 \in T
  <2>1. ASSUME m + 1 <= n PROVE \E g : Steps(w, m + 1, g)
    <3>1. PICK g : Steps(w, m, g)
      BY <1>2, <2>1
    <3> DEFINE h == [i \in 0..(m + 1) |-> IF i = m + 1 THEN g[m] + w[m + 1] ELSE g[i]]
    <3>2. h \in [0..(m + 1) -> Nat]
      <4>1. g[m] + w[m + 1] \in Nat
        BY <2>1, <3>1 DEF Steps
      <4>2. \A i \in 0..(m + 1) : i # m + 1 => i \in 0..m
        OBVIOUS
      <4> QED BY <3>1, <4>1, <4>2 DEF Steps
    <3>3. h[m + 1] = g[m] + w[m + 1] /\ \A i \in 0..m : h[i] = g[i]
      <4>1. m + 1 \in 0..(m + 1) /\ \A i \in 0..m : i \in 0..(m + 1) /\ i # m + 1
        OBVIOUS
      <4> QED BY <4>1
    <3> HIDE DEF h
    <3>4. ASSUME NEW i \in 1..(m + 1) PROVE h[i] = h[i - 1] + w[i]
      <4>1. CASE i = m + 1
        <5>1. i - 1 = m /\ m \in 0..m
          BY <4>1
        <5> QED BY <3>3, <4>1, <5>1
      <4>2. CASE i # m + 1
        <5>1. i \in 1..m /\ i \in 0..m /\ i - 1 \in 0..m
          BY <4>2
        <5> QED BY <3>1, <3>3, <5>1 DEF Steps
      <4> QED BY <4>1, <4>2
    <3>5. h[0] = 0
      BY <3>1, <3>3 DEF Steps
    <3> QED BY <3>2, <3>4, <3>5 DEF Steps
  <2> QED BY <2>1
<1>3. n \in T
  <2> HIDE DEF T
  <2> QED BY <1>1, <1>2, Inductive
<1> QED BY <1>3

\* They do not fall.
LEMMA StepsRise ==
  ASSUME NEW n \in Nat, NEW w \in [1..n -> Nat], NEW g, Steps(w, n, g),
         NEW i \in 0..n, NEW j \in 0..n, i <= j
  PROVE  g[i] <= g[j]
<1> DEFINE T == {m \in Nat : m <= n /\ i <= m => g[i] <= g[m]}
<1>1. 0 \in T
  BY DEF Steps
<1>2. ASSUME NEW m \in Nat, m \in T PROVE m + 1 \in T
  <2>1. ASSUME m + 1 <= n, i <= m + 1 PROVE g[i] <= g[m + 1]
    <3>1. CASE i = m + 1
      <4>1. g[i] \in Nat
        BY DEF Steps
      <4> QED BY <3>1, <4>1
    <3>2. CASE i <= m
      <4>1. m + 1 \in 1..n /\ m \in 0..n /\ m + 1 \in 0..n /\ (m + 1) - 1 = m /\ m <= n
        BY <2>1
      <4>2. g[m + 1] = g[m] + w[m + 1]
        BY <4>1 DEF Steps
      <4>3. w[m + 1] \in Nat /\ g[m] \in Nat /\ g[i] \in Nat
        BY <4>1 DEF Steps
      <4>4. g[i] <= g[m]
        BY <1>2, <3>2, <4>1
      <4> QED BY <4>2, <4>3, <4>4
    <3> QED BY <2>1, <3>1, <3>2
  <2> QED BY <2>1
<1>3. j \in T
  <2>1. j \in Nat
    OBVIOUS
  <2> HIDE DEF T
  <2> QED BY <1>1, <1>2, <2>1, Inductive
<1> QED BY <1>3

\* The sizes of the items of s.
Sizes(s) == [i \in 1..Len(s) |-> SizeOf(s[i])]

\* The size of all of them is the last of their sums.
LEMMA SizeIsSum ==
  ASSUME NEW s, Len(s) \in Nat, NEW g, Steps(Sizes(s), Len(s), g)
  PROVE  SizeOfAll(s) = g[Len(s)]
<1> DEFINE total == CHOOSE t : t = [i \in 0..Len(s) |-> IF i = 0 THEN 0 ELSE t[i - 1] + SizeOf(s[i])]
<1>1. SizeOfAll(s) = total[Len(s)]
  BY DEF SizeOfAll
<1>2. g = [i \in 0..Len(s) |-> IF i = 0 THEN 0 ELSE g[i - 1] + SizeOf(s[i])]
  BY DEF Steps, Sizes
<1>3. total = [i \in 0..Len(s) |-> IF i = 0 THEN 0 ELSE total[i - 1] + SizeOf(s[i])]
  BY <1>2
<1> HIDE DEF total
<1> DEFINE T == {n \in Nat : n <= Len(s) => total[n] = g[n]}
<1>4. 0 \in T
  BY <1>3 DEF Steps
<1>5. ASSUME NEW n \in Nat, n \in T PROVE n + 1 \in T
  <2>1. ASSUME n + 1 <= Len(s) PROVE total[n + 1] = g[n + 1]
    <3>1. n + 1 \in 1..Len(s) /\ n + 1 \in 0..Len(s) /\ n + 1 # 0 /\ (n + 1) - 1 = n
      BY <2>1
    <3>2. total[n + 1] = total[n] + SizeOf(s[n + 1])
      BY <1>3, <3>1
    <3>3. g[n + 1] = g[n] + SizeOf(s[n + 1])
      BY <3>1 DEF Steps, Sizes
    <3> QED BY <1>5, <2>1, <3>2, <3>3
  <2> QED BY <2>1
<1> HIDE DEF T
<1>6. Len(s) \in T
  BY <1>4, <1>5, Inductive
<1> QED BY <1>1, <1>6 DEF T

\* So a larger size is the smaller one and that of the item added.
LEMMA SizeAppend ==
  ASSUME NEW R, NEW s \in Seq(R), NEW x \in R, \A y \in R : SizeOf(y) \in Nat
  PROVE  /\ SizeOfAll(s) \in Nat
         /\ SizeOfAll(Append(s, x)) = SizeOfAll(s) + SizeOf(x)
<1> DEFINE t == Append(s, x)
<1>1. /\ Len(s) \in Nat /\ Len(t) = Len(s) + 1 /\ t \in Seq(R)
      /\ \A i \in 1..Len(s) : t[i] = s[i]
      /\ t[Len(s) + 1] = x
  OBVIOUS
<1> HIDE DEF t
<1>2. Sizes(t) \in [1..Len(t) -> Nat] /\ Len(t) \in Nat
  BY <1>1 DEF Sizes
<1>3. PICK g : Steps(Sizes(t), Len(t), g)
  BY <1>2, StepsExist
<1> DEFINE h == [i \in 0..Len(s) |-> g[i]]
<1>4. Steps(Sizes(s), Len(s), h)
  <2>1. \A i \in 0..Len(s) : i \in 0..Len(t) /\ h[i] = g[i]
    BY <1>1
  <2>2. h \in [0..Len(s) -> Nat] /\ h[0] = 0
    BY <1>1, <1>3, <2>1 DEF Steps
  <2>3. ASSUME NEW i \in 1..Len(s) PROVE h[i] = h[i - 1] + Sizes(s)[i]
    <3>1. i \in 1..Len(t) /\ i \in 0..Len(s) /\ i - 1 \in 0..Len(s)
      BY <1>1
    <3>2. g[i] = g[i - 1] + SizeOf(t[i])
      BY <1>3, <3>1 DEF Steps, Sizes
    <3>3. Sizes(s)[i] = SizeOf(t[i])
      BY <1>1 DEF Sizes
    <3> QED BY <2>1, <3>1, <3>2, <3>3
  <2> QED BY <2>2, <2>3 DEF Steps
<1>5. SizeOfAll(s) = h[Len(s)] /\ SizeOfAll(t) = g[Len(t)]
  BY <1>1, <1>2, <1>3, <1>4, SizeIsSum
<1>6. h[Len(s)] = g[Len(s)] /\ g[Len(s)] \in Nat
  BY <1>1, <1>3 DEF Steps
<1>7. g[Len(t)] = g[Len(s)] + SizeOf(x)
  <2>1. Len(s) + 1 \in 1..Len(t) /\ (Len(s) + 1) - 1 = Len(s)
    BY <1>1
  <2> QED BY <1>1, <1>3, <2>1 DEF Steps, Sizes
<1> QED BY <1>5, <1>6, <1>7 DEF t

\* And the size of a sequence is that of its two parts.
LEMMA SizeSplit ==
  ASSUME NEW R, NEW s \in Seq(R), NEW k \in 0..Len(s), \A y \in R : SizeOf(y) \in Nat
  PROVE  /\ SizeOfAll(s) \in Nat /\ SizeOfAll(SubSeq(s, 1, k)) \in Nat
         /\ SizeOfAll(SubSeq(s, k + 1, Len(s))) = SizeOfAll(s) - SizeOfAll(SubSeq(s, 1, k))
<1> DEFINE p == SubSeq(s, 1, k)
           q == SubSeq(s, k + 1, Len(s))
<1>1. /\ Len(s) \in Nat /\ k \in Nat /\ k <= Len(s)
      /\ Len(p) = k /\ \A i \in 1..k : p[i] = s[i]
      /\ Len(q) = Len(s) - k /\ \A i \in 1..Len(s) - k : q[i] = s[k + i]
  BY SMTT(60)
<1> HIDE DEF p, q
<1>2. Sizes(s) \in [1..Len(s) -> Nat]
  BY DEF Sizes
<1>3. PICK g : Steps(Sizes(s), Len(s), g)
  BY <1>1, <1>2, StepsExist
<1>4. \A i \in 1..Len(s) : g[i] = g[i - 1] + SizeOf(s[i])
  BY <1>3 DEF Steps, Sizes
<1>5. \A i \in 0..Len(s) : g[i] \in Nat
  BY <1>3 DEF Steps
<1> DEFINE h == [i \in 0..k |-> g[i]]
           d == [i \in 0..Len(s) - k |-> g[k + i] - g[k]]
<1>6. Steps(Sizes(p), Len(p), h)
  <2>1. \A i \in 0..k : i \in 0..Len(s) /\ h[i] = g[i]
    BY <1>1
  <2>2. h \in [0..k -> Nat] /\ h[0] = 0
    BY <1>1, <1>3, <2>1 DEF Steps
  <2>3. ASSUME NEW i \in 1..k PROVE h[i] = h[i - 1] + Sizes(p)[i]
    <3>1. i \in 1..Len(s) /\ i \in 0..k /\ i - 1 \in 0..k
      BY <1>1
    <3>2. Sizes(p)[i] = SizeOf(s[i])
      BY <1>1 DEF Sizes
    <3> QED BY <1>4, <2>1, <3>1, <3>2
  <2> QED BY <1>1, <2>2, <2>3 DEF Steps
<1>7. Steps(Sizes(q), Len(q), d)
  <2>1. \A i \in 0..Len(s) - k : k + i \in 0..Len(s) /\ d[i] = g[k + i] - g[k]
    BY <1>1
  <2>2. ASSUME NEW i \in 0..Len(s) - k PROVE d[i] \in Nat
    <3>1. k + i \in 0..Len(s) /\ k \in 0..Len(s) /\ k <= k + i
      BY <1>1
    <3>2. g[k] <= g[k + i]
      BY <1>1, <1>2, <1>3, <3>1, StepsRise
    <3> QED BY <1>5, <2>1, <3>1, <3>2
  <2>3. d[0] = 0
    BY <1>1, <1>5, <2>1
  <2>4. ASSUME NEW i \in 1..Len(s) - k PROVE d[i] = d[i - 1] + Sizes(q)[i]
    <3>1. /\ k + i \in 1..Len(s) /\ i \in 0..Len(s) - k /\ i - 1 \in 0..Len(s) - k
          /\ (k + i) - 1 = k + (i - 1) /\ k + i \in 0..Len(s) /\ k + (i - 1) \in 0..Len(s)
      BY <1>1
    <3>2. Sizes(q)[i] = SizeOf(s[k + i]) /\ s[k + i] \in R
      BY <1>1, <3>1 DEF Sizes
    <3>3. g[k + i] = g[k + (i - 1)] + SizeOf(s[k + i])
      BY <1>4, <3>1
    <3>4. d[i] = g[k + i] - g[k] /\ d[i - 1] = g[k + (i - 1)] - g[k]
      BY <2>1, <3>1
    <3>5. g[k] \in Nat /\ g[k + (i - 1)] \in Nat /\ SizeOf(s[k + i]) \in Nat
      BY <1>1, <1>5, <3>1, <3>2
    <3> QED BY <3>2, <3>3, <3>4, <3>5, SMTT(60)
  <2> HIDE DEF d
  <2>5. d \in [0..Len(s) - k -> Nat]
    BY <2>2 DEF d
  <2> QED BY <1>1, <2>3, <2>4, <2>5 DEF Steps
<1> HIDE DEF h, d
<1>8. SizeOfAll(s) = g[Len(s)] /\ SizeOfAll(p) = h[k] /\ SizeOfAll(q) = d[Len(s) - k]
  <2>1. Len(p) \in Nat /\ Len(q) \in Nat
    BY <1>1
  <2>2. SizeOfAll(s) = g[Len(s)] /\ SizeOfAll(p) = h[Len(p)] /\ SizeOfAll(q) = d[Len(q)]
    BY <1>1, <1>3, <1>6, <1>7, <2>1, SizeIsSum, Zenon
  <2> QED BY <1>1, <2>2
<1>9. h[k] = g[k] /\ d[Len(s) - k] = g[Len(s)] - g[k] /\ g[k] \in Nat /\ g[Len(s)] \in Nat
  <2>1. k \in 0..k /\ Len(s) - k \in 0..Len(s) - k /\ k + (Len(s) - k) = Len(s) /\ k \in 0..Len(s)
        /\ Len(s) \in 0..Len(s)
    BY <1>1
  <2> QED BY <1>5, <2>1 DEF h, d
<1> QED BY <1>8, <1>9 DEF p, q

\* Only the sizes of the items matter.
LEMMA SizeAlike ==
  ASSUME NEW R, NEW s \in Seq(R), NEW t, Len(t) = Len(s), \A y \in R : SizeOf(y) \in Nat,
         \A i \in 1..Len(s) : SizeOf(t[i]) = SizeOf(s[i])
  PROVE  SizeOfAll(t) = SizeOfAll(s)
<1>1. Sizes(s) \in [1..Len(s) -> Nat] /\ Len(s) \in Nat /\ Sizes(t) = Sizes(s)
  BY DEF Sizes
<1>2. PICK g : Steps(Sizes(s), Len(s), g)
  BY <1>1, StepsExist
<1> QED BY <1>1, <1>2, SizeIsSum

-----------------------------------------------------------------------------
(* Counting.                                                               *)

\* How many numbers of S there are up to n, goes up by one at each of them.
LEMMA UptoStep ==
  ASSUME NEW S \in SUBSET Nat, NEW n \in Nat
  PROVE  /\ Upto(S, n) \in Nat
         /\ Upto(S, n + 1) = Upto(S, n) + (IF n + 1 \in S THEN 1 ELSE 0)
<1> DEFINE A == {q \in S : q <= n}
<1>1. IsFiniteSet(A)
  <2>1. A \in SUBSET Nat /\ \A q \in A : q <= n
    OBVIOUS
  <2> HIDE DEF A
  <2> QED BY <2>1, FS_BoundedSetOfNaturals
<1>2. n + 1 \notin A
  OBVIOUS
<1>3. {q \in S : q <= n + 1} = IF n + 1 \in S THEN A \cup {n + 1} ELSE A
  <2>1. \A q \in S : q <= n + 1 <=> q <= n \/ q = n + 1
    OBVIOUS
  <2> QED BY <2>1
<1>4. Cardinality(A) \in Nat /\ Cardinality(A \cup {n + 1}) = Cardinality(A) + 1
  <2> HIDE DEF A
  <2> QED BY <1>1, <1>2, FS_AddElement, FS_CardinalityType
<1>5. Upto(S, n) = Cardinality(A) /\ Upto(S, n + 1) = Cardinality({q \in S : q <= n + 1})
  BY DEF Upto
<1> HIDE DEF A
<1> QED BY <1>3, <1>4, <1>5

\* It is larger where a number of S has been passed.
LEMMA UptoRise ==
  ASSUME NEW S \in SUBSET Nat, NEW m \in Nat, NEW n \in Nat, m <= n
  PROVE  /\ Upto(S, m) \in Nat /\ Upto(S, n) \in Nat /\ Upto(S, m) <= Upto(S, n)
         /\ (\E q \in S : m < q /\ q <= n) => Upto(S, m) + 1 <= Upto(S, n)
<1> DEFINE A == {q \in S : q <= m}
           B == {q \in S : q <= n}
<1>1. IsFiniteSet(B)
  <2>1. B \in SUBSET Nat /\ \A q \in B : q <= n
    OBVIOUS
  <2> HIDE DEF B
  <2> QED BY <2>1, FS_BoundedSetOfNaturals
<1>2. A \subseteq B
  <2>1. ASSUME NEW q \in S, q <= m PROVE q <= n
    BY <2>1
  <2> QED BY <2>1
<1>3. (\E q \in S : m < q /\ q <= n) => A # B
  OBVIOUS
<1>4. Upto(S, m) = Cardinality(A) /\ Upto(S, n) = Cardinality(B)
  BY DEF Upto
<1> HIDE DEF A, B
<1>5. /\ IsFiniteSet(A) /\ Cardinality(A) <= Cardinality(B)
      /\ (Cardinality(B) = Cardinality(A) => B = A)
  BY <1>1, <1>2, FS_Subset
<1>6. Cardinality(A) \in Nat /\ Cardinality(B) \in Nat
  BY <1>1, <1>5, FS_CardinalityType
<1>7. A # B => Cardinality(A) + 1 <= Cardinality(B)
  BY <1>5, <1>6
<1> QED BY <1>3, <1>4, <1>5, <1>6, <1>7

\* It begins with none and ends with all of them.
LEMMA UptoEnds ==
  ASSUME NEW n \in Nat, NEW S \in SUBSET (1..n)
  PROVE  /\ IsFiniteSet(S) /\ Cardinality(S) \in Nat
         /\ Upto(S, 0) = 0 /\ Upto(S, n) = Cardinality(S)
<1>1. {q \in S : q <= 0} = {} /\ {q \in S : q <= n} = S
  <2>1. ASSUME NEW q \in S PROVE ~(q <= 0) /\ q <= n
    OBVIOUS
  <2> QED BY <2>1
<1>2. IsFiniteSet(S)
  <2>1. IsFiniteSet(1..n)
    BY FS_Interval
  <2> QED BY <2>1, FS_Subset
<1> QED BY <1>1, <1>2, FS_EmptySet, FS_CardinalityType DEF Upto

\* The number at which it becomes w.
LEMMA UptoReaches ==
  ASSUME NEW n \in Nat, NEW S \in SUBSET (1..n), NEW w \in 1..Cardinality(S)
  PROVE  \E q \in S : Upto(S, q) = w
<1>1. S \in SUBSET Nat /\ w \in Nat /\ w # 0
  BY UptoEnds
<1> DEFINE L == {m \in Nat : w <= Upto(S, m)}
<1>2. n \in L
  BY UptoEnds
<1>3. PICK m \in L : \A k \in L : m <= k
  <2>1. L \in SUBSET Nat /\ L # {}
    BY <1>2
  <2> HIDE DEF L
  <2> QED BY <2>1, LeastNumber
<1>4. m \in Nat /\ w <= Upto(S, m)
  BY <1>3
<1>5. m # 0
  <2>1. Upto(S, 0) = 0
    BY UptoEnds
  <2> QED BY <1>1, <1>4, <2>1
<1>6. PICK k \in Nat : m = k + 1
  <2>1. m - 1 \in Nat /\ m = (m - 1) + 1
    BY <1>4, <1>5
  <2> QED BY <2>1
<1>7. ~(w <= Upto(S, k)) /\ Upto(S, k) \in Nat /\ Upto(S, m) = Upto(S, k) + (IF m \in S THEN 1 ELSE 0)
  <2>1. k \notin L
    BY <1>3, <1>6
  <2> QED BY <1>1, <1>6, <2>1, UptoStep
<1>8. m \in S /\ Upto(S, m) = w
  BY <1>1, <1>4, <1>7
<1> QED BY <1>8

-----------------------------------------------------------------------------
(* The largest and the smallest.                                           *)

\* Min is the least.
LEMMA MinIs ==
  ASSUME NEW S \in SUBSET Nat, S # {}
  PROVE  Min(S) \in S /\ \A y \in S : Min(S) <= y
<1>1. \E x \in S : \A y \in S : x <= y
  BY LeastNumber
<1> QED BY <1>1 DEF Min

\* Max is the largest.
LEMMA MaxIs ==
  ASSUME NEW n \in Nat, NEW S \in SUBSET (0..n), S # {}
  PROVE  Max(S) \in S /\ \A y \in S : y <= Max(S)
<1> DEFINE D == {n - x : x \in S}
<1>1. PICK d \in D : \A e \in D : d <= e
  <2>1. D \in SUBSET Nat /\ D # {}
    <3>1. \A x \in S : n - x \in Nat
      OBVIOUS
    <3> QED BY <3>1
  <2> HIDE DEF D
  <2> QED BY <2>1, LeastNumber
<1>2. PICK x \in S : d = n - x
  OBVIOUS
<1>3. \A y \in S : x >= y
  BY <1>1, <1>2
<1> QED BY <1>3 DEF Max

-----------------------------------------------------------------------------
(* What is read of a recipe.                                               *)

\* f has what the beginnings of s make when put together, up to the first n.
Joins(s, n, f) ==
  \A i \in 1..n : f[i] = IF i = 1 THEN s[i] ELSE f[i - 1] \o s[i]

\* There is such an f.
LEMMA JoinsExist ==
  ASSUME NEW P, NEW s \in Seq(Seq(P))
  PROVE  \E f \in [1..Len(s) -> Seq(P)] : Joins(s, Len(s), f)
<1> DEFINE T == {m \in Nat : m <= Len(s) => \E f \in [1..m -> Seq(P)] : Joins(s, m, f)}
<1>1. 0 \in T
  <2>1. [i \in 1..0 |-> <<>>] \in [1..0 -> Seq(P)] /\ Joins(s, 0, [i \in 1..0 |-> <<>>])
    BY DEF Joins
  <2> QED BY <2>1
<1>2. ASSUME NEW m \in Nat, m \in T PROVE m + 1 \in T
  <2>1. ASSUME m + 1 <= Len(s) PROVE \E f \in [1..(m + 1) -> Seq(P)] : Joins(s, m + 1, f)
    <3>1. PICK f \in [1..m -> Seq(P)] : Joins(s, m, f)
      BY <1>2, <2>1
    <3> DEFINE last == IF m + 1 = 1 THEN s[m + 1] ELSE f[m] \o s[m + 1]
               h == [i \in 1..(m + 1) |-> IF i = m + 1 THEN last ELSE f[i]]
    <3>2. last \in Seq(P)
      <4>1. s[m + 1] \in Seq(P)
        BY <2>1
      <4>2. m + 1 # 1 => f[m] \in Seq(P)
        OBVIOUS
      <4>3. m + 1 # 1 => f[m] \o s[m + 1] \in Seq(P)
        BY <4>1, <4>2
      <4> QED BY <4>1, <4>3
    <3>3. h[m + 1] = last /\ \A i \in 1..m : h[i] = f[i]
      <4>1. m + 1 \in 1..(m + 1) /\ \A i \in 1..m : i \in 1..(m + 1) /\ i # m + 1
        OBVIOUS
      <4> HIDE DEF last
      <4> QED BY <4>1
    <3>4. h \in [1..(m + 1) -> Seq(P)]
      <4>1. \A i \in 1..(m + 1) : i # m + 1 => i \in 1..m
        OBVIOUS
      <4> HIDE DEF last
      <4> QED BY <3>1, <3>2, <4>1
    <3> HIDE DEF h
    <3>5. ASSUME NEW i \in 1..(m + 1) PROVE h[i] = IF i = 1 THEN s[i] ELSE h[i - 1] \o s[i]
      <4>1. CASE i = m + 1
        <5>1. i # 1 => i - 1 = m /\ m \in 1..m
          BY <4>1
        <5> QED BY <3>3, <4>1, <5>1
      <4>2. CASE i # m + 1
        <5>1. i \in 1..m /\ (i # 1 => i - 1 \in 1..m)
          BY <4>2
        <5> QED BY <3>1, <3>3, <5>1 DEF Joins
      <4> QED BY <4>1, <4>2
    <3> QED BY <3>4, <3>5 DEF Joins
  <2> QED BY <2>1
<1>3. Len(s) \in T
  <2>1. Len(s) \in Nat
    OBVIOUS
  <2> HIDE DEF T
  <2> QED BY <1>1, <1>2, <2>1, Inductive
<1> QED BY <1>3

\* FlattenSeq is the last of them.
LEMMA FlattenIsJoin ==
  ASSUME NEW P, NEW s \in Seq(Seq(P)), Len(s) # 0,
         NEW f \in [1..Len(s) -> Seq(P)], Joins(s, Len(s), f)
  PROVE  FlattenSeq(s) = f[Len(s)]
<1> DEFINE flat == CHOOSE t : t = [i \in 1..Len(s) |-> IF i = 1 THEN s[i] ELSE t[i - 1] \o s[i]]
<1>1. FlattenSeq(s) = flat[Len(s)]
  BY DEF FlattenSeq
<1>2. f = [i \in 1..Len(s) |-> IF i = 1 THEN s[i] ELSE f[i - 1] \o s[i]]
  BY Zenon DEF Joins
<1>3. flat = [i \in 1..Len(s) |-> IF i = 1 THEN s[i] ELSE flat[i - 1] \o s[i]]
  BY <1>2, Zenon
<1> HIDE DEF flat
<1> DEFINE T == {n \in Nat : n + 1 <= Len(s) => flat[n + 1] = f[n + 1]}
<1>4. 0 \in T
  <2>1. 1 \in 1..Len(s)
    OBVIOUS
  <2>2. flat[1] = s[1] /\ f[1] = s[1]
    BY <1>2, <1>3, <2>1
  <2> QED BY <2>2
<1>5. ASSUME NEW n \in Nat, n \in T PROVE n + 1 \in T
  <2>1. ASSUME (n + 1) + 1 <= Len(s) PROVE flat[(n + 1) + 1] = f[(n + 1) + 1]
    <3>1. PICK m \in 1..Len(s) : m = (n + 1) + 1
      BY <2>1
    <3>2. PICK k \in 1..Len(s) : k = n + 1 /\ m # 1 /\ m - 1 = k
      BY <2>1, <3>1
    <3>3. flat[k] = f[k]
      BY <1>5, <3>2
    <3>4. flat[m] = flat[k] \o s[m] /\ f[m] = f[k] \o s[m]
      BY <1>2, <1>3, <3>2
    <3> QED BY <3>1, <3>3, <3>4
  <2> QED BY <2>1
<1>6. PICK n \in Nat : Len(s) = n + 1
  <2>1. Len(s) - 1 \in Nat /\ Len(s) = (Len(s) - 1) + 1
    OBVIOUS
  <2> QED BY <2>1
<1> HIDE DEF T
<1>7. n \in T
  BY <1>4, <1>5, Inductive
<1> QED BY <1>1, <1>6, <1>7 DEF T

\* Every element of every part has its place in it.
LEMMA FlattenPlaces ==
  ASSUME NEW P, NEW s \in Seq(Seq(P)), Len(s) # 0,
         NEW off, Steps([i \in 1..Len(s) |-> Len(s[i])], Len(s), off)
  PROVE  /\ FlattenSeq(s) \in Seq(P)
         /\ Len(FlattenSeq(s)) = off[Len(s)]
         /\ \A i \in 1..Len(s) : \A j \in 1..Len(s[i]) : FlattenSeq(s)[off[i - 1] + j] = s[i][j]
<1>1. PICK f \in [1..Len(s) -> Seq(P)] : Joins(s, Len(s), f)
  BY JoinsExist
<1>2. /\ off \in [0..Len(s) -> Nat] /\ off[0] = 0
      /\ \A i \in 1..Len(s) : off[i] = off[i - 1] + Len(s[i])
  BY DEF Steps
<1> DEFINE w == [i \in 1..Len(s) |-> Len(s[i])]
<1>3. w \in [1..Len(s) -> Nat]
  OBVIOUS
<1> DEFINE Placed(n) == /\ Len(f[n]) = off[n]
                        /\ \A i \in 1..n : \A j \in 1..Len(s[i]) : f[n][off[i - 1] + j] = s[i][j]
           T == {n \in Nat : n + 1 <= Len(s) => Placed(n + 1)}
<1>4. 0 \in T
  <2>1. ASSUME 1 <= Len(s) PROVE Placed(1)
    <3>1. 1 \in 1..Len(s)
      OBVIOUS
    <3>2. f[1] = s[1] /\ off[1] = off[0] + Len(s[1]) /\ Len(s[1]) \in Nat
      <4>1. f[1] = s[1]
        BY <1>1, <3>1 DEF Joins
      <4>2. off[1] = off[1 - 1] + Len(s[1]) /\ 1 - 1 = 0
        BY <1>2, <3>1
      <4>3. s[1] \in Seq(P)
        BY <3>1
      <4> QED BY <4>1, <4>2, <4>3
    <3>3. ASSUME NEW i \in 1..1, NEW j \in 1..Len(s[i]) PROVE f[1][off[i - 1] + j] = s[i][j]
      <4>1. i = 1
        OBVIOUS
      <4>2. off[i - 1] + j = j
        BY <1>2, <4>1, <3>2
      <4> QED BY <3>2, <4>1, <4>2
    <3> QED BY <1>2, <3>2, <3>3
  <2> QED BY <2>1
<1>5. ASSUME NEW n \in Nat, n \in T PROVE n + 1 \in T
  <2>1. ASSUME (n + 1) + 1 <= Len(s) PROVE Placed((n + 1) + 1)
    <3>1. PICK m \in 1..Len(s) : m = (n + 1) + 1
      BY <2>1
    <3>2. PICK k \in 1..Len(s) : k = n + 1 /\ m # 1 /\ m - 1 = k /\ k <= m
      BY <2>1, <3>1
    <3>3. Placed(k)
      BY <1>5, <3>2
    <3>4. f[m] = f[k] \o s[m] /\ off[m] = off[k] + Len(s[m])
      BY <1>1, <1>2, <3>2 DEF Joins
    <3>5. f[k] \in Seq(P) /\ s[m] \in Seq(P) /\ off[k] \in Nat
      <4>1. k \in 0..Len(s)
        <5>1. Len(s) \in Nat
          OBVIOUS
        <5> QED BY <5>1
      <4>2. s[m] \in Seq(P)
        OBVIOUS
      <4>3. off[k] \in Nat
        BY <1>2, <4>1
      <4>4. f[k] \in Seq(P)
        OBVIOUS
      <4> QED BY <4>2, <4>3, <4>4
    <3>6. /\ Len(f[m]) = Len(f[k]) + Len(s[m])
          /\ \A j \in 1..Len(f[k]) : f[m][j] = f[k][j]
          /\ \A j \in 1..Len(s[m]) : f[m][Len(f[k]) + j] = s[m][j]
      BY <3>4, <3>5, ConcatProperties, SMTT(60)
    <3>7. ASSUME NEW i \in 1..m, NEW j \in 1..Len(s[i]) PROVE f[m][off[i - 1] + j] = s[i][j]
      <4>1. CASE i = m
        BY <3>2, <3>3, <3>6, <4>1
      <4>2. CASE i # m
        <5>1. i \in 1..k /\ i \in 1..Len(s) /\ i - 1 \in 0..Len(s) /\ i \in 0..Len(s) /\ k \in 0..Len(s)
              /\ i <= k
          BY <3>1, <3>2, <4>2
        <5>2. f[k][off[i - 1] + j] = s[i][j]
          BY <3>3, <5>1
        <5>3. off[i] <= off[k]
          <6>1. Len(s) \in Nat /\ Steps(w, Len(s), off)
            OBVIOUS
          <6> HIDE DEF w
          <6> QED BY <1>3, <5>1, <6>1, StepsRise
        <5>4. off[i - 1] \in Nat /\ off[i] = off[i - 1] + Len(s[i]) /\ Len(s[i]) \in Nat
          <6>1. off[i - 1] \in Nat /\ off[i] = off[i - 1] + Len(s[i])
            BY <1>2, <5>1
          <6>2. s[i] \in Seq(P)
            BY <5>1
          <6> QED BY <6>1, <6>2
        <5>5. off[i - 1] + j \in 1..Len(f[k])
          <6>1. Len(f[k]) = off[k]
            BY <3>3
          <6>2. PICK b \in Nat : b = off[i - 1]
            BY <5>4
          <6>3. PICK e \in Nat : e = off[k]
            BY <3>5
          <6>4. PICK l \in Nat : l = Len(s[i])
            BY <5>4
          <6>5. b + l <= e /\ j \in 1..l
            BY <5>3, <5>4, <6>2, <6>3, <6>4
          <6>6. b + j \in 1..e
            BY <6>5
          <6> QED BY <6>1, <6>2, <6>3, <6>6
        <5> QED BY <3>6, <5>2, <5>5
      <4> QED BY <4>1, <4>2
    <3>8. Placed(m)
      BY <3>3, <3>4, <3>6, <3>7
    <3> QED BY <3>1, <3>8
  <2> QED BY <2>1
<1>6. PICK n \in Nat : Len(s) = n + 1
  <2>1. Len(s) - 1 \in Nat /\ Len(s) = (Len(s) - 1) + 1
    OBVIOUS
  <2> QED BY <2>1
<1>7. Placed(Len(s))
  <2>1. n \in T
    <3> HIDE DEF T
    <3> QED BY <1>4, <1>5, Inductive
  <2> QED BY <1>6, <2>1
<1>8. FlattenSeq(s) = f[Len(s)] /\ f[Len(s)] \in Seq(P)
  BY <1>1, FlattenIsJoin
<1> QED BY <1>7, <1>8

\* What a mark and a pointer are.
LEMMA PieceIs ==
  ASSUME NEW c \in Piece
  PROVE  /\ c.kind \in {"start", "end", "chunk"} /\ c.fp \in FP \cup {NoFp}
         /\ c.id \in Ids \cup {TEMPORARY_ID}
         /\ c.kind = "chunk" => c.id \in Ids /\ c.fp \in Contents[c.id] /\ c.fp \in FP
         /\ c.kind # "chunk" => c.fp = NoFp
<1>1. CASE c \in Pointer
  <2>1. PICK i \in Ids : \E f \in Contents[i] : c = [kind |-> "chunk", fp |-> f, id |-> i]
    BY <1>1 DEF Pointer
  <2>2. Contents[i] \subseteq FP
    BY RestoreAssumption
  <2> QED BY <2>1, <2>2
<1>2. CASE c \in {Mark("start"), Mark("end")}
  BY <1>2 DEF Mark
<1> QED BY <1>1, <1>2 DEF Piece

\* A recipe has a file, and every file has pointers.
LEMMA RecipeIs ==
  ASSUME NEW r \in Recipes
  PROVE  /\ r \in Seq(Files) /\ Len(r) \in Nat /\ Len(r) # 0 /\ DOMAIN r = 1..Len(r)
         /\ \A i \in 1..Len(r) : r[i] \in Seq(Pointer) /\ Len(r[i]) \in Nat
<1>1. PICK n \in 1..MaxFiles : r \in [1..n -> Files]
  BY DEF Recipes
<1>2. n \in Nat /\ n # 0
  BY RestoreAssumption
<1>3. Len(r) = n /\ DOMAIN r = 1..n /\ r \in Seq(Files)
  BY <1>1, <1>2
<1>4. ASSUME NEW g \in Files PROVE g \in Seq(Pointer)
  <2>1. PICK m \in 0..MaxChunks : g \in [1..m -> Pointer]
    BY DEF Files
  <2>2. m \in Nat
    BY RestoreAssumption
  <2> QED BY <2>1, <2>2
<1> QED BY <1>1, <1>2, <1>3, <1>4

\* What is read of it has every item in its place.
LEMMA ItemsAre ==
  ASSUME NEW r \in Recipes
  PROVE  /\ Items(r) \in Seq(Piece)
         /\ \E off : Offsets(r, off)
<1> DEFINE s == [i \in DOMAIN r |-> [j \in 1..Len(r[i]) + 2 |-> Item(r[i], j - 1)]]
           w == [i \in 1..Len(s) |-> Len(s[i])]
<1>1. /\ Len(r) \in Nat /\ Len(r) # 0 /\ DOMAIN r = 1..Len(r)
      /\ \A i \in 1..Len(r) : r[i] \in Seq(Pointer) /\ Len(r[i]) \in Nat
  BY RecipeIs
<1>2. ASSUME NEW i \in 1..Len(r), NEW j \in 1..Len(r[i]) + 2 PROVE Item(r[i], j - 1) \in Piece
  <2>1. r[i] \in Seq(Pointer) /\ Len(r[i]) \in Nat
    BY <1>1
  <2>2. j - 1 # 0 /\ ~(j - 1 > Len(r[i])) => j - 1 \in 1..Len(r[i])
    BY <2>1
  <2>3. j - 1 \in 1..Len(r[i]) => r[i][j - 1] \in Pointer
    BY <2>1
  <2> QED BY <2>2, <2>3 DEF Item, Piece
<1>3. /\ DOMAIN s = 1..Len(r)
      /\ \A i \in 1..Len(r) : s[i] = [j \in 1..Len(r[i]) + 2 |-> Item(r[i], j - 1)]
  BY <1>1
<1> HIDE DEF s
<1>4. ASSUME NEW i \in 1..Len(r) PROVE s[i] \in Seq(Piece) /\ Len(s[i]) = Len(r[i]) + 2
  <2>1. Len(r[i]) + 2 \in Nat
    BY <1>1
  <2>2. s[i] \in [1..Len(r[i]) + 2 -> Piece]
    BY <1>2, <1>3
  <2> QED BY <2>1, <2>2
<1>5. s \in Seq(Seq(Piece)) /\ Len(s) = Len(r)
  <2>1. s \in [1..Len(r) -> Seq(Piece)]
    BY <1>3, <1>4 DEF s
  <2> QED BY <1>1, <2>1
<1>6. w \in [1..Len(s) -> Nat] /\ \A i \in 1..Len(r) : w[i] = Len(r[i]) + 2
  BY <1>1, <1>4, <1>5
<1>7. PICK off : Steps(w, Len(s), off)
  <2> HIDE DEF w
  <2> QED BY <1>1, <1>5, <1>6, StepsExist
<1>8. Items(r) = FlattenSeq(s)
  BY DEF Items, s
<1>9. /\ FlattenSeq(s) \in Seq(Piece)
      /\ Len(FlattenSeq(s)) = off[Len(s)]
      /\ \A i \in 1..Len(s) : \A j \in 1..Len(s[i]) : FlattenSeq(s)[off[i - 1] + j] = s[i][j]
  BY <1>1, <1>5, <1>7, FlattenPlaces
<1>10. Offsets(r, off)
  <2>1. /\ off \in [0..Len(r) -> Nat] /\ off[0] = 0
        /\ \A i \in 1..Len(r) : off[i] = off[i - 1] + (Len(r[i]) + 2)
    BY <1>5, <1>6, <1>7 DEF Steps
  <2>2. \A i \in 1..Len(r) : off[i] <= off[Len(r)]
    <3> HIDE DEF w
    <3>1. \A i \in 1..Len(r) : i \in 0..Len(r) /\ Len(r) \in 0..Len(r) /\ i <= Len(r)
      BY <1>1
    <3> QED BY <1>1, <1>5, <1>6, <1>7, <3>1, StepsRise
  <2>3. ASSUME NEW i \in 1..Len(r), NEW j \in 0..Len(r[i]) + 1
        PROVE  Items(r)[off[i - 1] + (j + 1)] = Item(r[i], j)
    <3>1. j + 1 \in 1..Len(r[i]) + 2 /\ (j + 1) - 1 = j
      BY <1>1
    <3>2. FlattenSeq(s)[off[i - 1] + (j + 1)] = s[i][j + 1]
      BY <1>4, <1>5, <1>9, <3>1
    <3>3. s[i][j + 1] = Item(r[i], j)
      BY <1>3, <3>1
    <3> QED BY <1>8, <3>2, <3>3
  <2>4. Len(Items(r)) = off[Len(r)]
    BY <1>5, <1>8, <1>9
  <2> QED BY <2>1, <2>2, <2>3, <2>4 DEF Offsets
<1> QED BY <1>8, <1>9, <1>10

-----------------------------------------------------------------------------
(* The access records.                                                     *)

\* The accesses are some of the chunks, the first chunk of a container among them.
LEMMA AccessesAre ==
  ASSUME NEW r \in Recipes
  PROVE  /\ Len(Items(r)) \in Nat /\ Chunks(Items(r)) \in SUBSET (1..Len(Items(r)))
         /\ Accesses(Items(r)) \in SUBSET Chunks(Items(r))
         /\ Accesses(Items(r)) \in SUBSET (1..Len(Items(r)))
<1>1. Items(r) \in Seq(Piece)
  BY ItemsAre
<1>2. Len(Items(r)) \in Nat /\ DOMAIN Items(r) = 1..Len(Items(r))
  BY <1>1
<1> QED BY <1>2 DEF Chunks, Accesses

\* Each access has the record with its number, and the last record is the end
\* mark.
LEMMA RecordsAre ==
  ASSUME NEW r \in Recipes
  PROVE  LET S == Accesses(Items(r)) IN
         /\ Len(Records(r)) \in Nat /\ Cardinality(S) \in Nat
         /\ Len(Records(r)) = Cardinality(S) + 1
         /\ \A p \in 1..Len(Records(r)) : Records(r)[p] \in Ids \cup {TEMPORARY_ID}
         /\ \A q \in S : /\ Upto(S, q) \in 1..Cardinality(S)
                         /\ Records(r)[Upto(S, q)] = Items(r)[q].id
<1> DEFINE A == Items(r)
           S == Accesses(A)
           N == Len(A)
<1>1. A \in Seq(Piece) /\ N \in Nat /\ S \in SUBSET (1..N) /\ DOMAIN A = 1..N
  BY ItemsAre, AccessesAre
<1> HIDE DEF A, N
<1> HIDE DEF S
<1>2. IsFiniteSet(S) /\ Cardinality(S) \in Nat /\ Upto(S, 0) = 0 /\ Upto(S, N) = Cardinality(S)
  BY <1>1, UptoEnds
<1>3. S \in SUBSET Nat /\ \A q \in S : q \in 1..N /\ q \in Nat
  BY <1>1
<1>4. ASSUME NEW q \in S PROVE Upto(S, q) \in 1..Cardinality(S)
  <2>1. q \in Nat /\ q <= N /\ 0 < q /\ q <= q /\ 0 <= q
    BY <1>1, <1>3
  <2>2. Upto(S, q) <= Upto(S, N) /\ Upto(S, q) \in Nat
    BY <1>1, <1>3, <2>1, UptoRise
  <2>3. Upto(S, 0) + 1 <= Upto(S, q)
    <3>1. 0 \in Nat /\ \E p \in S : 0 < p /\ p <= q
      BY <2>1
    <3> QED BY <1>3, <2>1, <3>1, UptoRise
  <2> QED BY <1>2, <2>2, <2>3
<1>5. ASSUME NEW p \in S, NEW q \in S, Upto(S, p) = Upto(S, q) PROVE p = q
  <2>1. ASSUME NEW a \in S, NEW b \in S, a < b PROVE Upto(S, a) # Upto(S, b)
    <3>1. a \in Nat /\ b \in Nat /\ a <= b /\ b <= b
      BY <1>3, <2>1
    <3>2. Upto(S, a) + 1 <= Upto(S, b) /\ Upto(S, a) \in Nat /\ Upto(S, b) \in Nat
      BY <1>3, <2>1, <3>1, UptoRise
    <3> QED BY <3>2
  <2> QED BY <1>3, <1>5, <2>1
<1> DEFINE Nth(n) == CHOOSE q \in S : Cardinality({p \in S : p <= q}) = n
           L == [n \in 1..Cardinality(S) |-> A[Nth(n)].id]
<1>6. Records(r) = L \o <<TEMPORARY_ID>>
  BY DEF Records, Listed, A, S
<1>7. ASSUME NEW q \in S PROVE Nth(Upto(S, q)) = q
  <2>1. Nth(Upto(S, q)) \in S /\ Upto(S, Nth(Upto(S, q))) = Upto(S, q)
    BY DEF Upto
  <2> HIDE DEF Nth
  <2> QED BY <1>5, <2>1
<1>8. ASSUME NEW n \in 1..Cardinality(S) PROVE L[n] \in Ids \cup {TEMPORARY_ID}
  <2>1. PICK q \in S : Upto(S, q) = n
    BY <1>1, UptoReaches
  <2>2. Nth(n) = q
    BY <1>7, <2>1
  <2>3. A[q] \in Piece
    BY <1>1
  <2> HIDE DEF Nth
  <2> QED BY <2>2, <2>3, PieceIs
<1>9. L \in Seq(Ids \cup {TEMPORARY_ID}) /\ Len(L) = Cardinality(S)
  <2> HIDE DEF Nth
  <2> QED BY <1>2, <1>8
<1>10. ASSUME NEW q \in S PROVE L[Upto(S, q)] = A[q].id
  <2> HIDE DEF Nth
  <2> QED BY <1>4, <1>7
<1> HIDE DEF L
<1>11. /\ Len(Records(r)) = Cardinality(S) + 1
       /\ Records(r) \in Seq(Ids \cup {TEMPORARY_ID})
       /\ \A n \in 1..Cardinality(S) : Records(r)[n] = L[n]
  BY <1>2, <1>6, <1>9
<1>12. \A p \in 1..Len(Records(r)) : Records(r)[p] \in Ids \cup {TEMPORARY_ID}
  BY <1>11
<1>13. \A q \in S : /\ Upto(S, q) \in 1..Cardinality(S)
                    /\ Records(r)[Upto(S, q)] = A[q].id
  BY <1>4, <1>10, <1>11
<1> QED BY <1>2, <1>11, <1>12, <1>13 DEF A, S

-----------------------------------------------------------------------------
(* Queues.                                                                 *)

\* What is appended comes next.
LEMMA AppendStretch ==
  ASSUME NEW R, NEW s \in Seq(R), NEW x \in R, NEW n \in Nat, NEW t,
         Stretch(s, n, t), x = t[n + Len(s) + 1]
  PROVE  /\ Append(s, x) \in Seq(R) /\ Len(Append(s, x)) = Len(s) + 1 /\ Len(s) \in Nat
         /\ Stretch(Append(s, x), n, t)
<1>1. /\ Append(s, x) \in Seq(R) /\ Len(Append(s, x)) = Len(s) + 1 /\ Len(s) \in Nat
      /\ \A i \in 1..Len(s) : Append(s, x)[i] = s[i]
      /\ Append(s, x)[Len(s) + 1] = x
  OBVIOUS
<1>2. ASSUME NEW i \in 1..Len(s) + 1 PROVE Append(s, x)[i] = t[n + i]
  <2>1. CASE i = Len(s) + 1
    <3>1. n + i = n + Len(s) + 1
      BY <1>1, <2>1
    <3> QED BY <1>1, <2>1, <3>1
  <2>2. CASE i # Len(s) + 1
    <3>1. i \in 1..Len(s)
      BY <1>1, <2>2
    <3> QED BY <1>1, <3>1 DEF Stretch
  <2> QED BY <2>1, <2>2
<1> QED BY <1>1, <1>2 DEF Stretch

\* What is taken came first, and the rest comes after it.
LEMMA TailStretch ==
  ASSUME NEW R, NEW s \in Seq(R), s # <<>>, NEW n \in Nat, NEW t, Stretch(s, n, t)
  PROVE  /\ Head(s) \in R /\ Head(s) = t[n + 1]
         /\ Tail(s) \in Seq(R) /\ Len(Tail(s)) = Len(s) - 1 /\ Len(s) \in Nat /\ Len(s) # 0
         /\ Stretch(Tail(s), n + 1, t)
<1>1. /\ Head(s) \in R /\ Head(s) = s[1]
      /\ Tail(s) \in Seq(R) /\ Len(Tail(s)) = Len(s) - 1 /\ Len(s) \in Nat /\ Len(s) # 0
      /\ \A i \in 1..Len(s) - 1 : Tail(s)[i] = s[i + 1]
  OBVIOUS
<1>2. Head(s) = t[n + 1]
  <2>1. 1 \in 1..Len(s)
    BY <1>1
  <2> QED BY <1>1, <2>1 DEF Stretch
<1>3. ASSUME NEW i \in 1..Len(s) - 1 PROVE Tail(s)[i] = t[(n + 1) + i]
  <2>1. i + 1 \in 1..Len(s) /\ n + (i + 1) = (n + 1) + i
    BY <1>1
  <2> QED BY <1>1, <2>1 DEF Stretch
<1> QED BY <1>1, <1>2, <1>3 DEF Stretch

\* The lengths of what has been read of the recipe.
LEMMA Lengths ==
  ASSUME QueueInv
  PROVE  /\ Len(written) \in Nat /\ Len(restore_chunk_queue) \in Nat /\ Len(out) \in Nat
         /\ Len(area) \in Nat /\ Len(restore_recipe_queue) \in Nat
         /\ Sent \in Nat /\ Taken \in Nat /\ Popped \in Nat /\ Fetched \in Nat
<1>1. /\ Len(written) \in Nat /\ Len(restore_chunk_queue) \in Nat /\ Len(out) \in Nat
      /\ Len(area) \in Nat /\ Len(restore_recipe_queue) \in Nat
  <2>1. area \in Seq(AreaItem)
    BY DEF QueueInv
  <2> QED BY <2>1 DEF QueueInv
<1> QED BY <1>1 DEF Sent, Taken, Popped, Fetched

\* What is read of the recipe has been fetched as far as the read thread is, and
\* what is backed up is what is to be written of it.
LEMMA AllIs ==
  ASSUME BackupInv, ReaderInv, QueueInv
  PROVE  /\ All \in Seq(Piece) /\ Len(All) \in Nat /\ Fetched <= Len(All)
         /\ Len(source) = Len(All)
         /\ \A q \in 1..Len(All) : All[q] \in Piece /\ source[q] = View(All[q]) /\ source[q] \in Output
         /\ file > Len(recipe) => Fetched = Len(All)
         /\ file <= Len(recipe) => /\ Fetched + 1 <= Len(All)
                                   /\ All[Fetched + 1] = Item(recipe[file], next)
<1>1. All \in Seq(Piece)
  BY ItemsAre DEF All, BackupInv
<1>2. Len(All) \in Nat /\ DOMAIN All = 1..Len(All) /\ \A q \in 1..Len(All) : All[q] \in Piece
  <2> HIDE DEF All
  <2> QED BY <1>1
<1>3. source = [q \in 1..Len(All) |-> View(All[q])]
  BY <1>2 DEF BackupInv, Source, View, All
<1>4. Len(source) = Len(All)
  BY <1>2, <1>3
<1>5. \A q \in 1..Len(All) : View(All[q]) \in Output
  BY <1>2, PieceIs DEF View, Output
<1>6. PICK off : Offsets(recipe, off) /\ Fetched = off[file - 1] + next
  BY DEF ReaderInv
<1>7. /\ off \in [0..Len(recipe) -> Nat] /\ Len(All) = off[Len(recipe)]
      /\ \A i \in 1..Len(recipe) : off[i] = off[i - 1] + (Len(recipe[i]) + 2) /\ off[i] <= off[Len(recipe)]
      /\ \A i \in 1..Len(recipe) : \A j \in 0..Len(recipe[i]) + 1 :
           All[off[i - 1] + (j + 1)] = Item(recipe[i], j)
  BY <1>6 DEF Offsets, All
<1>8. Len(recipe) \in Nat /\ \A i \in 1..Len(recipe) : Len(recipe[i]) \in Nat
  BY RecipeIs DEF BackupInv
<1>9. file \in 1..Len(recipe) + 1 /\ next \in Nat
  BY DEF ReaderInv
<1>10. CASE file > Len(recipe)
  <2>1. file - 1 = Len(recipe) /\ next = 0 /\ ~(file <= Len(recipe)) /\ Len(recipe) \in 0..Len(recipe)
    BY <1>8, <1>9, <1>10 DEF ReaderInv
  <2>2. Fetched = Len(All)
    BY <1>2, <1>6, <1>7, <2>1
  <2> QED BY <1>1, <1>2, <1>3, <1>4, <1>5, <2>1, <2>2
<1>11. CASE file <= Len(recipe)
  <2>1. /\ file \in 1..Len(recipe) /\ file - 1 \in 0..Len(recipe) /\ next \in 0..Len(recipe[file]) + 1
        /\ ~(file > Len(recipe))
    BY <1>8, <1>9, <1>11 DEF ReaderInv
  <2>2. off[file - 1] \in Nat /\ Len(recipe[file]) \in Nat
    BY <1>7, <1>8, <2>1
  <2>3. off[file] = off[file - 1] + (Len(recipe[file]) + 2) /\ off[file] <= Len(All)
    BY <1>7, <2>1
  <2>4. Fetched + 1 <= Len(All) /\ Fetched <= Len(All) /\ Fetched + 1 = off[file - 1] + (next + 1)
    <3>1. next \in Nat /\ next <= Len(recipe[file]) + 1
      BY <1>9, <2>1, <2>2
    <3>2. PICK b \in Nat : b = off[file - 1]
      BY <2>2
    <3>3. PICK l \in Nat : l = Len(recipe[file])
      BY <2>2
    <3>4. Fetched = b + next /\ b + (l + 2) <= Len(All) /\ next <= l + 1
      BY <1>6, <2>3, <3>1, <3>2, <3>3
    <3> QED BY <1>2, <3>1, <3>2, <3>4, SMTT(60)
  <2>5. All[Fetched + 1] = Item(recipe[file], next)
    BY <1>7, <2>1, <2>4
  <2> QED BY <1>1, <1>2, <1>3, <1>4, <1>5, <2>1, <2>4, <2>5
<1> QED BY <1>8, <1>9, <1>10, <1>11

-----------------------------------------------------------------------------
(* Every step hands the stream on.                                         *)

\* The read thread appends what comes next.
LEMMA StreamReadRecipe ==
  ASSUME Stream, ReadRecipe
  PROVE  Stream' /\ Popped' = Popped /\ Taken' = Taken
<1>1. /\ status = "running" /\ file <= Len(recipe)
      /\ Len(restore_recipe_queue) < QueueSize
      /\ restore_recipe_queue' = Append(restore_recipe_queue, Item(recipe[file], next))
      /\ IF next <= Len(recipe[file]) THEN next' = next + 1 /\ UNCHANGED file
                                      ELSE next' = 0 /\ file' = file + 1
      /\ UNCHANGED <<config, source, recipe, records, restore_chunk_queue, terminated, out, area,
                     written, status>>
  BY DEF ReadRecipe, backup, areaVars
<1>2. BackupInv /\ ReaderInv /\ QueueInv /\ EndInv /\ Matches
  BY DEF Stream
<1>3. /\ All \in Seq(Piece) /\ Len(All) \in Nat /\ Fetched + 1 <= Len(All)
      /\ All[Fetched + 1] = Item(recipe[file], next) /\ Fetched \in Nat
      /\ Len(restore_recipe_queue) \in Nat /\ Popped \in Nat
  BY <1>1, <1>2, AllIs, Lengths
<1>4. Item(recipe[file], next) \in Piece
  <2>1. Fetched + 1 \in 1..Len(All)
    BY <1>3
  <2> QED BY <1>3, <2>1, ElementOfSeq
<1>5. All' = All /\ Sent' = Sent /\ Taken' = Taken /\ Popped' = Popped
  BY <1>1 DEF All, Sent, Taken, Popped
<1>6. /\ restore_recipe_queue' \in Seq(Piece)
      /\ Len(restore_recipe_queue') = Len(restore_recipe_queue) + 1
      /\ Stretch(restore_recipe_queue', Popped, All)
  <2>1. Item(recipe[file], next) = All[Popped + Len(restore_recipe_queue) + 1]
    BY <1>3 DEF Fetched
  <2> QED BY <1>1, <1>2, <1>3, <1>4, <2>1, AppendStretch DEF QueueInv, Matches
<1>7. BackupInv'
  BY <1>1, <1>2 DEF BackupInv
<1>8. ReaderInv'
  <2>1. Fetched' = Fetched + 1
    BY <1>3, <1>5, <1>6 DEF Fetched
  <2>2. PICK off : Offsets(recipe, off) /\ Fetched = off[file - 1] + next
    BY <1>2 DEF ReaderInv
  <2>3. /\ file \in 1..Len(recipe) + 1 /\ next \in Nat /\ next <= Len(recipe[file]) + 1
        /\ Len(recipe) \in Nat /\ file \in 1..Len(recipe) /\ Len(recipe[file]) \in Nat
    <3>1. file \in 1..Len(recipe) + 1 /\ next \in Nat /\ next <= Len(recipe[file]) + 1
      BY <1>1, <1>2 DEF ReaderInv
    <3>2. Len(recipe) \in Nat /\ \A i \in 1..Len(recipe) : Len(recipe[i]) \in Nat
      BY <1>2, RecipeIs DEF BackupInv
    <3>3. file \in 1..Len(recipe)
      BY <1>1, <3>1, <3>2
    <3> QED BY <3>1, <3>2, <3>3
  <2>4. CASE next <= Len(recipe[file])
    <3>1. next' = next + 1 /\ file' = file /\ recipe' = recipe
      BY <1>1, <2>4
    <3>2. next' \in Nat /\ next' <= Len(recipe[file]) + 1
      BY <2>3, <2>4, <3>1
    <3>3. off[file - 1] \in Nat
      <4>1. off \in [0..Len(recipe) -> Nat] /\ file - 1 \in 0..Len(recipe)
        BY <2>2, <2>3 DEF Offsets
      <4> QED BY <4>1
    <3>4. Fetched' = off[file - 1] + next'
      BY <2>1, <2>2, <2>3, <3>1, <3>3, SMTT(60)
    <3> QED BY <1>1, <2>2, <2>3, <3>1, <3>2, <3>4 DEF ReaderInv
  <2>5. CASE ~(next <= Len(recipe[file]))
    <3>1. next' = 0 /\ file' = file + 1 /\ recipe' = recipe
      BY <1>1, <2>5
    <3>2. next = Len(recipe[file]) + 1
      BY <2>3, <2>5
    <3>3. off[file - 1] \in Nat /\ off[file] = off[file - 1] + (Len(recipe[file]) + 2)
      <4>1. off \in [0..Len(recipe) -> Nat] /\ file - 1 \in 0..Len(recipe)
        BY <2>2, <2>3 DEF Offsets
      <4>2. off[file] = off[file - 1] + (Len(recipe[file]) + 2)
        BY <2>2, <2>3 DEF Offsets
      <4> QED BY <4>1, <4>2
    <3>4. (file + 1) - 1 = file /\ file + 1 \in 1..Len(recipe) + 1
      BY <2>3
    <3>5. Fetched' = off[file' - 1] + next'
      <4>1. PICK b \in Nat : b = off[file - 1]
        BY <3>3
      <4>2. PICK l \in Nat : l = Len(recipe[file])
        BY <2>3
      <4>3. Fetched = b + next /\ next = l + 1 /\ off[file] = b + (l + 2)
        BY <2>2, <3>2, <3>3, <4>1, <4>2
      <4>4. Fetched' = off[file]
        BY <2>1, <4>3
      <4>5. off[file' - 1] = off[file] /\ off[file] \in Nat
        BY <3>1, <3>4, <4>3
      <4> QED BY <3>1, <4>4, <4>5
    <3>6. file' <= Len(recipe) => next' <= Len(recipe[file']) + 1
      <4>1. file' \in 1..Len(recipe) => Len(recipe[file']) \in Nat
        BY <1>2, RecipeIs DEF BackupInv
      <4> QED BY <2>3, <3>1, <3>4, <4>1
    <3> QED BY <2>2, <3>1, <3>4, <3>5, <3>6 DEF ReaderInv
  <2> QED BY <2>4, <2>5
<1>9. QueueInv'
  <2>1. Len(restore_recipe_queue') <= QueueSize
    <3>1. QueueSize \in Nat
      BY RestoreAssumption
    <3> QED BY <1>1, <1>3, <1>6, <3>1
  <2> QED BY <1>1, <1>2, <1>6, <2>1 DEF QueueInv
<1>10. EndInv'
  <2>1. ~(file > Len(recipe))
    <3>1. file \in 1..Len(recipe) + 1 /\ Len(recipe) \in Nat
      BY <1>2, RecipeIs DEF ReaderInv, BackupInv
    <3> QED BY <1>1, <3>1
  <2>2. "recipe" \notin terminated /\ "chunk" \notin terminated
    BY <1>2, <2>1 DEF EndInv
  <2> QED BY <1>1, <1>2, <2>2 DEF EndInv
<1>11. Matches'
  BY <1>1, <1>2, <1>5, <1>6 DEF Matches
<1> QED BY <1>5, <1>7, <1>8, <1>9, <1>10, <1>11 DEF Stream

\* The restore thread pushes what it has made.
LEMMA StreamPushChunk ==
  ASSUME Stream, PushChunk
  PROVE  Stream' /\ Popped' = Popped /\ Taken' = Taken
<1>1. /\ status = "running" /\ out # <<>>
      /\ Len(restore_chunk_queue) < QueueSize
      /\ restore_chunk_queue' = Append(restore_chunk_queue, Head(out)) /\ out' = Tail(out)
      /\ UNCHANGED <<config, source, recipe, records, file, next, restore_recipe_queue, terminated,
                     area, written, status>>
  BY DEF PushChunk, backup, reader, areaVars
<1>2. BackupInv /\ ReaderInv /\ QueueInv /\ EndInv /\ Matches
  BY DEF Stream
<1>3. /\ Len(written) \in Nat /\ Len(restore_chunk_queue) \in Nat /\ Len(out) \in Nat /\ Sent \in Nat
      /\ Sent = Len(written) + Len(restore_chunk_queue)
  BY <1>2, Lengths DEF Sent
<1>4. /\ Head(out) \in Output /\ Head(out) = source[Sent + 1]
      /\ out' \in Seq(Output) /\ Len(out') = Len(out) - 1 /\ Stretch(out', Sent + 1, source)
  BY <1>1, <1>2, <1>3, TailStretch DEF QueueInv, Matches
<1>5. /\ restore_chunk_queue' \in Seq(Output)
      /\ Len(restore_chunk_queue') = Len(restore_chunk_queue) + 1
      /\ Stretch(restore_chunk_queue', Len(written), source)
  <2>1. Head(out) = source[Len(written) + Len(restore_chunk_queue) + 1]
    BY <1>3, <1>4
  <2> QED BY <1>1, <1>2, <1>3, <1>4, <2>1, AppendStretch DEF QueueInv, Matches
<1>6. /\ All' = All /\ Sent' = Sent + 1 /\ Taken' = Taken /\ Popped' = Popped
      /\ Fetched' = Fetched /\ Len(written') = Len(written)
  <2>1. Sent' = Sent + 1
    BY <1>1, <1>3, <1>5 DEF Sent
  <2>2. Taken' = Taken
    BY <1>3, <1>4, <2>1 DEF Taken
  <2> QED BY <1>1, <2>1, <2>2 DEF All, Popped, Fetched
<1>7. BackupInv' /\ ReaderInv'
  BY <1>1, <1>2, <1>6 DEF BackupInv, ReaderInv
<1>8. QueueInv'
  <2>1. Len(restore_chunk_queue') <= QueueSize
    <3>1. QueueSize \in Nat
      BY RestoreAssumption
    <3> QED BY <1>1, <1>3, <1>5, <3>1
  <2> QED BY <1>1, <1>2, <1>4, <1>5, <2>1 DEF QueueInv
<1>9. EndInv'
  <2>1. "chunk" \notin terminated
    BY <1>1, <1>2 DEF EndInv
  <2> QED BY <1>1, <1>2, <2>1 DEF EndInv
<1>10. Matches'
  BY <1>1, <1>2, <1>4, <1>5, <1>6 DEF Matches
<1> QED BY <1>6, <1>7, <1>8, <1>9, <1>10 DEF Stream

\* The write thread writes what comes next.
LEMMA StreamWriteChunk ==
  ASSUME Stream, WriteChunk
  PROVE  /\ Stream' /\ Popped' = Popped /\ Taken' = Taken
         /\ Len(written) < Len(source) /\ written' = Append(written, source[Len(written) + 1])
<1>1. /\ status = "running" /\ restore_chunk_queue # <<>>
      /\ written' = Append(written, Head(restore_chunk_queue))
      /\ restore_chunk_queue' = Tail(restore_chunk_queue)
      /\ UNCHANGED <<config, source, recipe, records, file, next, restore_recipe_queue, terminated,
                     area, out, status>>
  BY DEF WriteChunk, backup, reader, areaVars
<1>2. BackupInv /\ ReaderInv /\ QueueInv /\ EndInv /\ Matches
  BY DEF Stream
<1>3. /\ Len(written) \in Nat /\ Len(restore_chunk_queue) \in Nat /\ Sent \in Nat
      /\ Sent = Len(written) + Len(restore_chunk_queue)
  BY <1>2, Lengths DEF Sent
<1>4. /\ Head(restore_chunk_queue) \in Output
      /\ Head(restore_chunk_queue) = source[Len(written) + 1]
      /\ restore_chunk_queue' \in Seq(Output)
      /\ Len(restore_chunk_queue') = Len(restore_chunk_queue) - 1 /\ Len(restore_chunk_queue) # 0
      /\ Stretch(restore_chunk_queue', Len(written) + 1, source)
  BY <1>1, <1>2, <1>3, TailStretch DEF QueueInv, Matches
<1>5. written' \in Seq(Output) /\ Len(written') = Len(written) + 1 /\ Stretch(written', 0, source)
  <2>1. Head(restore_chunk_queue) = source[0 + Len(written) + 1] /\ 0 \in Nat
    BY <1>3, <1>4
  <2> QED BY <1>1, <1>2, <1>4, <2>1, AppendStretch DEF QueueInv, Matches
<1>6. /\ All' = All /\ Sent' = Sent /\ Taken' = Taken /\ Popped' = Popped /\ Fetched' = Fetched
  <2>1. Sent' = Sent
    BY <1>3, <1>4, <1>5 DEF Sent
  <2> QED BY <1>1, <2>1 DEF All, Taken, Popped, Fetched
<1>7. BackupInv' /\ ReaderInv'
  BY <1>1, <1>2, <1>6 DEF BackupInv, ReaderInv
<1>8. QueueInv'
  <2>1. Len(restore_chunk_queue') <= QueueSize
    <3>1. QueueSize \in Nat /\ Len(restore_chunk_queue) <= QueueSize
      BY <1>2, RestoreAssumption DEF QueueInv
    <3> QED BY <1>3, <1>4, <3>1
  <2> QED BY <1>1, <1>2, <1>4, <1>5, <2>1 DEF QueueInv
<1>9. EndInv'
  BY <1>1, <1>2 DEF EndInv
<1>10. Matches'
  BY <1>1, <1>2, <1>4, <1>5, <1>6 DEF Matches
<1>11. Len(written) < Len(source)
  <2>1. Fetched <= Len(All) /\ Len(source) = Len(All) /\ Len(All) \in Nat
    BY <1>2, AllIs
  <2>2. /\ Len(out) \in Nat /\ Len(area) \in Nat /\ Len(restore_recipe_queue) \in Nat
        /\ Fetched = Sent + Len(out) + Len(area) + Len(restore_recipe_queue)
    BY <1>2, Lengths DEF Fetched, Popped, Taken
  <2> QED BY <1>3, <1>4, <2>1, <2>2
<1> QED BY <1>1, <1>4, <1>6, <1>7, <1>8, <1>9, <1>10, <1>11 DEF Stream

\* A thread that ends leaves nothing behind.
LEMMA StreamEnds ==
  ASSUME Stream, ReadRecipeEnd \/ RestoreEnd \/ WriteEnd
  PROVE  Stream' /\ Popped' = Popped /\ Taken' = Taken
<1>1. BackupInv /\ ReaderInv /\ QueueInv /\ EndInv /\ Matches
  BY DEF Stream
<1>2. UNCHANGED <<config, source, recipe, records, file, next, restore_recipe_queue,
                  restore_chunk_queue, area, out, written>>
  BY DEF ReadRecipeEnd, RestoreEnd, WriteEnd, backup, reader, areaVars
<1>3. /\ All' = All /\ Sent' = Sent /\ Taken' = Taken /\ Popped' = Popped /\ Fetched' = Fetched
  BY <1>2 DEF All, Sent, Taken, Popped, Fetched
<1>4. BackupInv' /\ ReaderInv' /\ QueueInv' /\ Matches'
  BY <1>1, <1>2, <1>3 DEF BackupInv, ReaderInv, QueueInv, Matches
<1>5. EndInv'
  <2>1. CASE ReadRecipeEnd
    BY <1>1, <1>2, <2>1 DEF EndInv, ReadRecipeEnd
  <2>2. CASE RestoreEnd
    BY <1>1, <1>2, <2>2 DEF EndInv, RestoreEnd
  <2>3. CASE WriteEnd
    BY <1>1, <1>2, <2>3 DEF EndInv, WriteEnd
  <2> QED BY <2>1, <2>2, <2>3
<1> QED BY <1>3, <1>4, <1>5 DEF Stream

\* The restore thread pops what comes next.
LEMMA PopsNext ==
  ASSUME Stream, NEW c, Pops(c)
  PROVE  /\ c \in Piece /\ c = All[Popped + 1] /\ View(c) = source[Popped + 1]
         /\ Popped \in Nat /\ Popped + 1 \in 1..Len(All)
         /\ restore_recipe_queue' \in Seq(Piece)
         /\ Len(restore_recipe_queue') = Len(restore_recipe_queue) - 1
         /\ Stretch(restore_recipe_queue', Popped + 1, All)
         /\ out = <<>> /\ Taken = Sent /\ Taken \in Nat /\ "chunk" \notin terminated
         /\ UNCHANGED <<config, source, recipe, records, file, next, restore_chunk_queue, terminated,
                        written>>
<1>1. /\ status = "running" /\ out = <<>>
      /\ restore_recipe_queue # <<>> /\ c = Head(restore_recipe_queue)
      /\ restore_recipe_queue' = Tail(restore_recipe_queue)
      /\ UNCHANGED <<config, source, recipe, records, file, next, restore_chunk_queue, terminated,
                     written>>
  BY DEF Pops, backup, reader
<1>2. BackupInv /\ ReaderInv /\ QueueInv /\ EndInv /\ Matches
  BY DEF Stream
<1>3. /\ Popped \in Nat /\ Taken \in Nat /\ Sent \in Nat /\ Fetched \in Nat
      /\ Len(restore_recipe_queue) \in Nat
  BY <1>2, Lengths
<1>4. /\ c \in Piece /\ c = All[Popped + 1]
      /\ restore_recipe_queue' \in Seq(Piece)
      /\ Len(restore_recipe_queue') = Len(restore_recipe_queue) - 1 /\ Len(restore_recipe_queue) # 0
      /\ Stretch(restore_recipe_queue', Popped + 1, All)
  BY <1>1, <1>2, <1>3, TailStretch DEF QueueInv, Matches
<1>5. Fetched <= Len(All) /\ Len(All) \in Nat
  BY <1>2, AllIs
<1>6. Popped + 1 \in 1..Len(All)
  BY <1>3, <1>4, <1>5 DEF Fetched
<1>7. View(c) = source[Popped + 1]
  BY <1>2, <1>4, <1>6, AllIs
<1>8. Taken = Sent
  <2>1. Len(out) = 0
    BY <1>1
  <2> QED BY <1>3, <2>1 DEF Taken
<1>9. "chunk" \notin terminated
  BY <1>1, <1>2 DEF EndInv
<1> QED BY <1>1, <1>3, <1>4, <1>6, <1>7, <1>8, <1>9

\* It has the stream go on when d items are popped and k go out.
LEMMA StreamOut ==
  ASSUME Stream, NEW d \in {0, 1}, NEW k \in Nat,
         out = <<>>, status = "running", "chunk" \notin terminated,
         UNCHANGED <<config, source, recipe, records, file, next, restore_chunk_queue, terminated,
                     written, status>>,
         restore_recipe_queue' \in Seq(Piece),
         Len(restore_recipe_queue') = Len(restore_recipe_queue) - d,
         Stretch(restore_recipe_queue', Popped + d, All),
         out' \in Seq(Output), Len(out') = k, Stretch(out', Taken, source),
         area' \in Seq(AreaItem), Len(area') = Len(area) + d - k,
         AreaStretch(area', Taken + k, All)
  PROVE  Stream' /\ Popped' = Popped + d /\ Taken' = Taken + k
<1>1. BackupInv /\ ReaderInv /\ QueueInv /\ EndInv /\ Matches
  BY DEF Stream
<1>2. /\ Popped \in Nat /\ Taken \in Nat /\ Sent \in Nat /\ Len(out) = 0 /\ Len(area) \in Nat
      /\ Len(restore_recipe_queue) \in Nat
  BY <1>1, Lengths
<1>3. All' = All /\ Sent' = Sent /\ Sent = Taken
  BY <1>2 DEF All, Sent, Taken
<1>4. Taken' = Taken + k
  BY <1>3 DEF Taken
<1>5. Popped' = Popped + d
  BY <1>2, <1>4 DEF Popped
<1>6. Fetched' = Fetched
  BY <1>2, <1>5 DEF Fetched
<1>7. BackupInv' /\ ReaderInv'
  BY <1>1, <1>3, <1>6 DEF BackupInv, ReaderInv
<1>8. QueueInv'
  <2>1. Len(restore_recipe_queue') <= QueueSize
    <3>1. QueueSize \in Nat /\ Len(restore_recipe_queue) <= QueueSize
      BY <1>1, RestoreAssumption DEF QueueInv
    <3> QED BY <1>2, <3>1, SMTT(60)
  <2> QED BY <1>1, <2>1 DEF QueueInv
<1>9. EndInv'
  BY <1>1 DEF EndInv
<1>10. Matches'
  BY <1>1, <1>3, <1>4, <1>5 DEF Matches
<1> QED BY <1>4, <1>5, <1>7, <1>8, <1>9, <1>10 DEF Stream

\* What a cache passes on at once.
LEMMA StreamPassed ==
  ASSUME Stream, NEW c, Pops(c), area = <<>>, area' = <<>>, status' = status, out' = <<View(c)>>
  PROVE  Stream' /\ Popped = Taken /\ Popped' = Popped + 1 /\ Taken' = Taken + 1
<1>1. /\ c \in Piece /\ View(c) = source[Popped + 1] /\ Popped \in Nat
      /\ restore_recipe_queue' \in Seq(Piece)
      /\ Len(restore_recipe_queue') = Len(restore_recipe_queue) - 1
      /\ Stretch(restore_recipe_queue', Popped + 1, All)
      /\ out = <<>> /\ Taken \in Nat /\ "chunk" \notin terminated
      /\ UNCHANGED <<config, source, recipe, records, file, next, restore_chunk_queue, terminated,
                     written>>
  BY PopsNext
<1>2. Popped = Taken
  <2>1. Len(area) = 0
    OBVIOUS
  <2> QED BY <1>1, <2>1 DEF Popped
<1>3. View(c) \in Output
  BY <1>1, PieceIs DEF View, Output
<1>4. out' \in Seq(Output) /\ Len(out') = 1 /\ Stretch(out', Taken, source)
  <2>1. out' \in Seq(Output) /\ Len(out') = 1 /\ out'[1] = View(c)
    BY <1>3
  <2> QED BY <1>1, <1>2, <2>1 DEF Stretch
<1>5. area' \in Seq(AreaItem) /\ Len(area') = Len(area) + 1 - 1 /\ AreaStretch(area', Taken + 1, All)
  BY DEF AreaStretch
<1>6. status = "running"
  BY DEF Pops
<1>7. Stream' /\ Popped' = Popped + 1 /\ Taken' = Taken + 1
  BY <1>1, <1>4, <1>5, <1>6, StreamOut
<1> QED BY <1>2, <1>7

-----------------------------------------------------------------------------
(* The assembly area.                                                      *)

\* What a place of the area has in common with the piece it is for.
Same(x, y) == x.kind = y.kind /\ x.fp = y.fp /\ x.id = y.id

\* What may be in the area: marks are ready, and chunks are in their containers.
AreaOK(a) ==
  \A i \in 1..Len(a) : /\ IsMark(a[i]) => a[i].ready
                       /\ ~IsMark(a[i]) => a[i].id \in Ids /\ a[i].fp \in Contents[a[i].id]

\* Every item of the area has a size.
LEMMA AreaSizes == \A y \in AreaItem : SizeOf(y) \in Nat
<1>1. ASSUME NEW y \in AreaItem PROVE SizeOf(y) \in Nat
  <2>1. ~IsMark(y) => y.fp \in FP
    BY DEF AreaItem, IsMark
  <2>2. \A f \in FP : Size[f] \in Nat
    BY RestoreAssumption
  <2> QED BY <2>1, <2>2 DEF SizeOf
<1> QED BY <1>1

\* assemble_area issues the first k items and keeps the others; the first chunk is
\* among those that are issued.
LEMMA Assembled ==
  ASSUME NEW a \in Seq(AreaItem), AreaOK(a), reads \in Nat, Assemble(a, SizeOfAll(a))
  PROVE  \E k \in 0..Len(a) :
           /\ out' \in Seq(Output) /\ Len(out') = k /\ \A i \in 1..k : out'[i] = View(a[i])
           /\ area' \in Seq(AreaItem) /\ Len(area') = Len(a) - k
           /\ \A i \in 1..Len(a) - k : Same(area'[i], a[k + i])
           /\ \A i \in 1..Len(a) - k : IsMark(area'[i]) => area'[i].ready
           /\ size' = SizeOfAll(area')
           /\ Chunks(a) = {} => k = Len(a) /\ reads' = reads
           /\ Chunks(a) # {} => reads' = reads + 1 /\ \E i \in Chunks(a) : i <= k
<1> DEFINE chunks == Chunks(a)
           id == a[Min(chunks)].id
           Filled(c) == IF chunks # {} /\ c.id = id THEN [c EXCEPT !.ready = TRUE] ELSE c
           filled == [i \in DOMAIN a |-> Filled(a[i])]
           M == {m \in 0..Len(filled) : \A i \in 1..m : filled[i].ready}
           k == Max(M)
           issued == Issued(filled)
<1>1. /\ area' = SubSeq(filled, Len(issued) + 1, Len(a))
      /\ size' = SizeOfAll(a) - SizeOfAll(issued)
      /\ reads' = reads + (IF chunks = {} THEN 0 ELSE 1)
      /\ out' = [i \in DOMAIN issued |-> Restored(issued[i], issued[i].id)]
  BY DEF Assemble
<1>2. Len(a) \in Nat /\ DOMAIN a = 1..Len(a) /\ \A i \in 1..Len(a) : a[i] \in AreaItem
  OBVIOUS
<1>3. Len(a) \in Nat
  BY <1>2
<1>4. ASSUME NEW c \in AreaItem
      PROVE  /\ Filled(c) \in AreaItem /\ Same(Filled(c), c)
             /\ c.ready => Filled(c).ready
             /\ chunks # {} /\ c.id = id => Filled(c).ready
  <2> HIDE DEF chunks, id
  <2>1. CASE chunks # {} /\ c.id = id
    <3>1. Filled(c) = [c EXCEPT !.ready = TRUE]
      BY <2>1
    <3> HIDE DEF Filled
    <3> QED BY <3>1 DEF AreaItem, Same
  <2>2. CASE ~(chunks # {} /\ c.id = id)
    <3>1. Filled(c) = c
      BY <2>2
    <3> HIDE DEF Filled
    <3> QED BY <2>2, <3>1 DEF Same
  <2> QED BY <2>1, <2>2
<1>5. /\ DOMAIN filled = 1..Len(a)
      /\ \A i \in 1..Len(a) : filled[i] = Filled(a[i])
  BY <1>2
<1> HIDE DEF filled
<1>6. ASSUME NEW i \in 1..Len(a)
      PROVE  /\ filled[i] \in AreaItem /\ Same(filled[i], a[i])
             /\ a[i].ready => filled[i].ready
             /\ chunks # {} /\ a[i].id = id => filled[i].ready
  <2>1. a[i] \in AreaItem /\ filled[i] = Filled(a[i])
    BY <1>2, <1>5
  <2> HIDE DEF Filled, chunks, id
  <2> QED BY <1>4, <2>1
<1> HIDE DEF Filled
<1>7. filled \in Seq(AreaItem) /\ Len(filled) = Len(a)
  <2>1. filled \in [1..Len(a) -> AreaItem]
    BY <1>5, <1>6 DEF filled
  <2> QED BY <1>2, <2>1
<1>8. Len(filled) = Len(a)
  BY <1>7
<1>9. k \in M /\ \A m \in M : m <= k
  <2>1. M \in SUBSET (0..Len(a)) /\ 0 \in M
    BY <1>2, <1>7
  <2> HIDE DEF M
  <2> QED BY <1>2, <2>1, MaxIs
<1> HIDE DEF k
<1>10. k \in 0..Len(a) /\ k \in Nat /\ \A i \in 1..k : filled[i].ready
  BY <1>9, <1>8
<1>11. k \in Nat /\ k <= Len(a)
  BY <1>10, <1>3
<1>12. issued = SubSeq(filled, 1, k)
  BY DEF Issued, k
<1> HIDE DEF issued
<1>13. issued \in Seq(AreaItem) /\ Len(issued) = k /\ \A i \in 1..k : issued[i] = filled[i]
  BY <1>2, <1>7, <1>10, <1>12
<1>14. /\ area' \in Seq(AreaItem) /\ Len(area') = Len(a) - k
       /\ \A i \in 1..Len(a) - k : area'[i] = filled[k + i]
  <2>1. area' = SubSeq(filled, k + 1, Len(filled))
    BY <1>1, <1>7, <1>13
  <2>2. PICK j \in Int : j = k + 1
    BY <1>10
  <2>3. PICK l \in Int : l = Len(filled) /\ l = Len(a)
    BY <1>3, <1>8
  <2>4. /\ area' \in Seq(AreaItem) /\ Len(area') = Len(a) - k
        /\ \A i \in 1..Len(a) - k : area'[i] = filled[j + i - 1]
    <3>1. \A i \in j..l : filled[i] \in AreaItem
      BY <1>2, <1>7, <1>10, <2>2, <2>3
    <3>2. /\ SubSeq(filled, j, l) \in Seq(AreaItem)
          /\ Len(SubSeq(filled, j, l)) = IF j <= l THEN l - j + 1 ELSE 0
          /\ \A i \in 1..l - j + 1 : SubSeq(filled, j, l)[i] = filled[j + i - 1]
      BY <3>1, SubSeqProperties
    <3>3. area' = SubSeq(filled, j, l)
      BY <2>1, <2>2, <2>3
    <3>4. l - j + 1 = Len(a) - k /\ (~(j <= l) => Len(a) - k = 0)
      BY <1>10, <1>3, <2>2, <2>3
    <3> QED BY <3>2, <3>3, <3>4
  <2>5. ASSUME NEW i \in 1..Len(a) - k PROVE area'[i] = filled[k + i]
    <3>1. j + i - 1 = k + i
      BY <1>2, <1>10, <2>2
    <3> QED BY <2>4, <3>1
  <2> QED BY <2>4, <2>5
<1>15. ASSUME NEW i \in 1..Len(a) - k
       PROVE  Same(area'[i], a[k + i]) /\ (IsMark(area'[i]) => area'[i].ready)
  <2>1. k + i \in 1..Len(a)
    BY <1>2, <1>10
  <2>2. Same(filled[k + i], a[k + i]) /\ (a[k + i].ready => filled[k + i].ready)
    BY <1>6, <2>1
  <2>3. IsMark(filled[k + i]) => a[k + i].ready
    BY <2>1, <2>2 DEF AreaOK, IsMark, Same
  <2> QED BY <1>14, <2>2, <2>3
<1>16. ASSUME NEW i \in 1..k PROVE Restored(issued[i], issued[i].id) = View(a[i]) /\ View(a[i]) \in Output
  <2>1. i \in 1..Len(a)
    BY <1>2, <1>10
  <2>2. issued[i] = filled[i] /\ Same(filled[i], a[i]) /\ a[i] \in AreaItem
    BY <1>2, <1>6, <1>13, <2>1
  <2>3. ~IsMark(a[i]) => a[i].fp \in Contents[a[i].id]
    BY <2>1 DEF AreaOK
  <2>4. a[i].kind \in {"start", "end", "chunk"} /\ a[i].fp \in FP \cup {NoFp}
    BY <2>2 DEF AreaItem
  <2>5. a[i].kind # "chunk" => a[i].fp = NoFp
    BY <2>2 DEF AreaItem
  <2> QED BY <2>2, <2>3, <2>4, <2>5 DEF Restored, View, Same, IsMark, Output
<1>17. out' \in Seq(Output) /\ Len(out') = k /\ \A i \in 1..k : out'[i] = View(a[i])
  <2>1. out' = [i \in 1..k |-> Restored(issued[i], issued[i].id)]
    BY <1>1, <1>13
  <2>2. /\ out' \in [1..k -> Output]
        /\ \A i \in 1..k : out'[i] = View(a[i])
    BY <1>16, <2>1
  <2> QED BY <1>10, <2>2
<1>18. size' = SizeOfAll(area')
  <2>1. SizeOfAll(filled) = SizeOfAll(a)
    <3>1. ASSUME NEW i \in 1..Len(a) PROVE SizeOf(filled[i]) = SizeOf(a[i])
      <4>1. Same(filled[i], a[i])
        BY <1>6
      <4> QED BY <4>1 DEF SizeOf, Same, IsMark
    <3> QED BY <1>7, <3>1, AreaSizes, SizeAlike
  <2>2. /\ SizeOfAll(filled) \in Nat /\ SizeOfAll(issued) \in Nat
        /\ SizeOfAll(SubSeq(filled, k + 1, Len(filled))) = SizeOfAll(filled) - SizeOfAll(issued)
    BY <1>7, <1>10, <1>12, AreaSizes, SizeSplit
  <2>3. area' = SubSeq(filled, k + 1, Len(filled))
    BY <1>1, <1>7, <1>13
  <2> QED BY <1>1, <2>1, <2>2, <2>3
<1>19. ASSUME chunks = {} PROVE k = Len(a) /\ reads' = reads
  <2>1. ASSUME NEW i \in 1..Len(a) PROVE filled[i].ready
    <3>1. IsMark(a[i])
      BY <1>2, <1>19 DEF Chunks
    <3> QED BY <1>6, <3>1 DEF AreaOK
  <2>2. Len(a) \in M
    BY <1>2, <1>7, <2>1
  <2>3. reads' = reads
    BY <1>1, <1>19
  <2>4. Len(a) <= k
    BY <1>9, <2>2
  <2> QED BY <1>3, <1>11, <2>3, <2>4
<1>20. ASSUME chunks # {} PROVE reads' = reads + 1 /\ \E i \in chunks : i <= k
  <2>1. chunks \in SUBSET (1..Len(a)) /\ chunks \in SUBSET Nat
    BY <1>2 DEF Chunks
  <2>2. PICK i \in chunks : i = Min(chunks) /\ \A j \in chunks : i <= j
    <3> HIDE DEF chunks
    <3> QED BY <1>20, <2>1, MinIs
  <2>3. i \in 1..Len(a) /\ a[i].id = id
    BY <2>1, <2>2
  <2>4. ASSUME NEW j \in 1..i PROVE filled[j].ready
    <3>1. j \in 1..Len(a)
      BY <1>2, <2>3
    <3>2. CASE j = i
      BY <1>6, <1>20, <2>3, <3>2
    <3>3. CASE j # i
      <4>1. j \notin chunks
        BY <2>2, <2>3, <3>1, <3>3
      <4>2. IsMark(a[j])
        BY <1>2, <3>1, <4>1 DEF Chunks
      <4> QED BY <1>6, <3>1, <4>2 DEF AreaOK
    <3> QED BY <3>2, <3>3
  <2>5. i \in M
    BY <1>2, <1>7, <2>3, <2>4
  <2>6. reads' = reads + 1
    BY <1>1, <1>20
  <2> QED BY <1>9, <2>2, <2>5, <2>6
<1> HIDE DEF M, chunks
<1>21. \A i \in 1..Len(a) - k : Same(area'[i], a[k + i]) /\ (IsMark(area'[i]) => area'[i].ready)
  BY <1>15
<1> QED BY <1>10, <1>14, <1>17, <1>18, <1>19, <1>20, <1>21 DEF chunks

\* Products grow with what is multiplied.
LEMMA Products ==
  ASSUME NEW a \in Nat, NEW b \in Nat, NEW m \in Nat
  PROVE  /\ (a + 1) * m = a * m + m /\ a * m \in Nat /\ 0 * m = 0
         /\ a <= b => a * m <= b * m
<1>1. (a + 1) * m = a * m + m /\ a * m \in Nat /\ 0 * m = 0
  OBVIOUS
<1>2. ASSUME a <= b PROVE a * m <= b * m
  <2>1. PICK d \in Nat : b = a + d
    <3>1. b - a \in Nat /\ b = a + (b - a)
      BY <1>2
    <3> QED BY <3>1
  <2>2. (a + d) * m = a * m + d * m /\ d * m \in Nat /\ a * m \in Nat
    OBVIOUS
  <2> QED BY <2>1, <2>2
<1> QED BY <1>1, <1>2

\* The size of an area is that of its chunks at least.
LEMMA SizeOfChunks ==
  ASSUME NEW s \in Seq(AreaItem), NEW m \in Nat, \A f \in FP : m <= Size[f]
  PROVE  /\ Cardinality(Chunks(s)) \in Nat /\ SizeOfAll(s) \in Nat
         /\ Cardinality(Chunks(s)) * m <= SizeOfAll(s)
<1> DEFINE C == Chunks(s)
<1>1. Len(s) \in Nat /\ DOMAIN s = 1..Len(s) /\ \A i \in 1..Len(s) : s[i] \in AreaItem
  OBVIOUS
<1>2. C \in SUBSET (1..Len(s)) /\ C \in SUBSET Nat
  BY <1>1 DEF Chunks
<1>3. \A i \in 1..Len(s) : SizeOf(s[i]) \in Nat /\ (i \in C => m <= SizeOf(s[i]))
  <2>1. ASSUME NEW i \in 1..Len(s) PROVE SizeOf(s[i]) \in Nat /\ (i \in C => m <= SizeOf(s[i]))
    <3>1. s[i] \in AreaItem /\ SizeOf(s[i]) \in Nat
      BY <1>1, AreaSizes
    <3>2. i \in C => ~IsMark(s[i]) /\ s[i].fp \in FP
      BY <3>1 DEF Chunks, AreaItem, IsMark
    <3> QED BY <3>1, <3>2 DEF SizeOf
  <2> QED BY <2>1
<1>4. PICK g : Steps(Sizes(s), Len(s), g)
  <2>1. Sizes(s) \in [1..Len(s) -> Nat]
    BY <1>3 DEF Sizes
  <2> QED BY <1>1, <2>1, StepsExist
<1>5. g \in [0..Len(s) -> Nat] /\ g[0] = 0 /\ \A i \in 1..Len(s) : g[i] = g[i - 1] + SizeOf(s[i])
  BY <1>4 DEF Steps, Sizes
<1> HIDE DEF C
<1> DEFINE U == {n \in Nat : n <= Len(s) => Upto(C, n) * m <= g[n]}
<1>6. 0 \in U
  <2>1. Upto(C, 0) = 0
    BY <1>1, <1>2, UptoEnds
  <2> QED BY <1>5, <2>1
<1>7. ASSUME NEW n \in Nat, n \in U PROVE n + 1 \in U
  <2>1. ASSUME n + 1 <= Len(s) PROVE Upto(C, n + 1) * m <= g[n + 1]
    <3>1. PICK k \in 1..Len(s) : k = n + 1 /\ k - 1 = n /\ n \in 0..Len(s) /\ n <= Len(s)
      BY <1>1, <2>1
    <3>2. g[k] = g[n] + SizeOf(s[k]) /\ g[n] \in Nat /\ SizeOf(s[k]) \in Nat
      BY <1>3, <1>5, <3>1
    <3>3. Upto(C, n) \in Nat /\ Upto(C, k) = Upto(C, n) + (IF k \in C THEN 1 ELSE 0)
      BY <1>2, <3>1, UptoStep
    <3>4. PICK u \in Nat : u = Upto(C, n)
      BY <3>3
    <3>5. u * m <= g[n] /\ u * m \in Nat /\ (u + 1) * m = u * m + m
      BY <1>7, <3>1, <3>4, Products
    <3>6. CASE k \in C
      <4>1. Upto(C, k) = u + 1 /\ m <= SizeOf(s[k])
        BY <1>3, <3>3, <3>4, <3>6
      <4> QED BY <3>1, <3>2, <3>5, <4>1
    <3>7. CASE k \notin C
      <4>1. Upto(C, k) = u
        BY <3>3, <3>4, <3>7
      <4> QED BY <3>1, <3>2, <3>5, <4>1
    <3> QED BY <3>6, <3>7
  <2> QED BY <2>1
<1>8. Upto(C, Len(s)) * m <= g[Len(s)]
  <2>1. Len(s) \in U
    <3> HIDE DEF U
    <3> QED BY <1>1, <1>6, <1>7, Inductive
  <2> QED BY <1>1, <2>1
<1>9. Upto(C, Len(s)) = Cardinality(C) /\ Cardinality(C) \in Nat
  BY <1>1, <1>2, UptoEnds
<1>10. SizeOfAll(s) = g[Len(s)] /\ g[Len(s)] \in Nat
  BY <1>1, <1>4, <1>5, SizeIsSum
<1> QED BY <1>8, <1>9, <1>10 DEF C

\* What is kept of an area has fewer chunks if one was issued.
LEMMA FewerChunks ==
  ASSUME NEW a, Len(a) \in Nat, DOMAIN a = 1..Len(a), NEW k \in 0..Len(a),
         NEW b, Len(b) = Len(a) - k, DOMAIN b = 1..Len(b),
         \A i \in 1..Len(b) : Same(b[i], a[k + i])
  PROVE  /\ Cardinality(Chunks(a)) \in Nat /\ Cardinality(Chunks(b)) \in Nat
         /\ Cardinality(Chunks(b)) <= Cardinality(Chunks(a))
         /\ (\E i \in Chunks(a) : i <= k) => Cardinality(Chunks(b)) + 1 <= Cardinality(Chunks(a))
<1> DEFINE A == Chunks(a)
           B == Chunks(b)
           R == {i \in A : ~(i <= k)}
           f == [i \in B |-> k + i]
<1>1. A \in SUBSET (1..Len(a)) /\ B \in SUBSET (1..Len(b)) /\ Len(b) \in Nat
  BY DEF Chunks
<1>2. ASSUME NEW i \in B PROVE f[i] \in R /\ f[i] = k + i /\ i \in Nat
  <2>1. i \in 1..Len(b) /\ k + i \in 1..Len(a) /\ ~(k + i <= k)
    BY <1>1
  <2>2. k + i \in A
    BY <2>1 DEF Chunks, Same, IsMark
  <2> QED BY <2>1, <2>2
<1>3. IsFiniteSet(A) /\ Cardinality(A) \in Nat /\ IsFiniteSet(B) /\ Cardinality(B) \in Nat
  BY <1>1, UptoEnds
<1>4. f \in Injection(B, R)
  <2>1. f \in [B -> R]
    BY <1>2
  <2>2. ASSUME NEW i \in B, NEW j \in B, f[i] = f[j] PROVE i = j
    <3>1. k + i = k + j /\ i \in Nat /\ j \in Nat
      BY <1>2, <2>2
    <3> QED BY <3>1
  <2> QED BY <2>1, <2>2 DEF Injection, IsInjective
<1>5. /\ IsFiniteSet(R) /\ Cardinality(R) <= Cardinality(A) /\ Cardinality(R) \in Nat
      /\ (Cardinality(A) = Cardinality(R) => A = R)
  <2>1. R \in SUBSET A
    OBVIOUS
  <2> HIDE DEF R
  <2> QED BY <1>3, <2>1, FS_Subset, FS_CardinalityType
<1>6. Cardinality(B) <= Cardinality(R)
  <2> HIDE DEF B, R, f
  <2> QED BY <1>4, <1>5, FS_Injection
<1>7. (\E i \in A : i <= k) => A # R
  OBVIOUS
<1> HIDE DEF A, B, R
<1>8. A # R => Cardinality(R) + 1 <= Cardinality(A)
  BY <1>3, <1>5
<1>9. Cardinality(B) <= Cardinality(A)
  BY <1>3, <1>5, <1>6
<1>10. A # R => Cardinality(B) + 1 <= Cardinality(A)
  BY <1>3, <1>5, <1>6, <1>8
<1> QED BY <1>3, <1>7, <1>9, <1>10 DEF A, B

\* What is pushed is one more if it is a chunk.
LEMMA MoreChunks ==
  ASSUME NEW R, NEW a \in Seq(R), NEW x \in R
  PROVE  /\ Cardinality(Chunks(a)) \in Nat
         /\ Cardinality(Chunks(Append(a, x))) = Cardinality(Chunks(a)) + (IF IsMark(x) THEN 0 ELSE 1)
<1> DEFINE b == Append(a, x)
<1>1. /\ Len(a) \in Nat /\ DOMAIN a = 1..Len(a) /\ DOMAIN b = 1..Len(a) + 1
      /\ \A i \in 1..Len(a) : b[i] = a[i]
      /\ b[Len(a) + 1] = x
  OBVIOUS
<1> HIDE DEF b
<1>2. /\ IsFiniteSet(Chunks(a)) /\ Cardinality(Chunks(a)) \in Nat /\ Len(a) + 1 \notin Chunks(a)
  <2>1. Chunks(a) \in SUBSET (1..Len(a)) /\ Len(a) + 1 \notin 1..Len(a)
    BY <1>1 DEF Chunks
  <2> QED BY <1>1, <2>1, UptoEnds
<1>3. \A i \in 1..Len(a) + 1 : i \in 1..Len(a) \/ i = Len(a) + 1
  BY <1>1
<1>4. CASE IsMark(x)
  <2>1. Chunks(b) = Chunks(a)
    BY <1>1, <1>3, <1>4 DEF Chunks
  <2> QED BY <1>2, <1>4, <2>1 DEF b
<1>5. CASE ~IsMark(x)
  <2>1. Len(a) + 1 \in 1..Len(a) + 1 /\ \A i \in 1..Len(a) : i \in 1..Len(a) + 1
    BY <1>1
  <2>2. Chunks(b) = Chunks(a) \cup {Len(a) + 1}
    BY <1>1, <1>3, <1>5, <2>1 DEF Chunks
  <2>3. Cardinality(Chunks(a) \cup {Len(a) + 1}) = Cardinality(Chunks(a)) + 1
    BY <1>2, FS_AddElement
  <2> QED BY <1>2, <1>5, <2>2, <2>3 DEF b
<1> QED BY <1>4, <1>5

\* A bound for an area holds for one that has no more chunks.
LEMMA AreaStaysBounded ==
  ASSUME AreaBounded, Cardinality(Chunks(area)) \in Nat, Cardinality(Chunks(area')) \in Nat,
         Cardinality(Chunks(area')) <= Cardinality(Chunks(area))
  PROVE  AreaBounded'
<1> DEFINE c == Cardinality(Chunks(area))
           n == Cardinality(Chunks(area'))
<1>1. CASE n = 0
  BY <1>1 DEF AreaBounded
<1>2. CASE c = 0
  BY <1>1, <1>2
<1>3. CASE \E f \in FP : c * Size[f] < AreaSize
  <2>1. PICK f \in FP : c * Size[f] < AreaSize
    BY <1>3
  <2>2. PICK m \in Nat : m = Size[f]
    BY RestoreAssumption
  <2>3. n * m <= c * m /\ n * m \in Nat /\ c * m \in Nat
    BY <2>2, Products
  <2>4. AreaSize \in Int
    <3>1. CacheSize \in Nat /\ CONTAINER_SIZE \in Nat
      BY RestoreAssumption
    <3> QED BY <3>1 DEF AreaSize
  <2>5. n * Size[f] < AreaSize
    <3> HIDE DEF n, c
    <3>1. c * m < AreaSize
      BY <2>1, <2>2
    <3>2. n * m < AreaSize
      BY <2>3, <2>4, <3>1
    <3> QED BY <2>2, <3>2
  <2>6. AreaSize' = AreaSize
    BY DEF AreaSize
  <2> QED BY <2>5, <2>6 DEF AreaBounded
<1> QED BY <1>1, <1>2, <1>3 DEF AreaBounded

\* An area whose size is small has few chunks.
LEMMA AreaIsBounded ==
  ASSUME area' \in Seq(AreaItem), ~AreaFull(SizeOfAll(area')), FP # {}
  PROVE  AreaBounded'
<1>1. PICK f \in FP : \A g \in FP : Size[f] <= Size[g]
  <2> DEFINE Z == {Size[f] : f \in FP}
  <2>1. Z \in SUBSET Nat /\ Z # {}
    BY RestoreAssumption
  <2>2. PICK z \in Z : \A y \in Z : z <= y
    <3> HIDE DEF Z
    <3> QED BY <2>1, LeastNumber
  <2> QED BY <2>2
<1>2. PICK m \in Nat : m = Size[f]
  BY RestoreAssumption
<1>3. /\ Cardinality(Chunks(area')) \in Nat /\ SizeOfAll(area') \in Nat
      /\ Cardinality(Chunks(area')) * m <= SizeOfAll(area')
  BY <1>1, <1>2, SizeOfChunks
<1>4. AreaSize \in Int
  <2>1. CacheSize \in Nat /\ CONTAINER_SIZE \in Nat
    BY RestoreAssumption
  <2> QED BY <2>1 DEF AreaSize
<1>5. SizeOfAll(area') < AreaSize
  BY <1>3, <1>4 DEF AreaFull
<1>6. Cardinality(Chunks(area')) * m \in Nat
  BY <1>3, Products
<1>7. Cardinality(Chunks(area')) * m < AreaSize
  BY <1>3, <1>4, <1>5, <1>6
<1>8. AreaSize' = AreaSize
  BY DEF AreaSize
<1> QED BY <1>2, <1>7, <1>8 DEF AreaBounded

\* The area is as it should be for assemble_area.
LEMMA AreaFits ==
  ASSUME Stream, AreaInv
  PROVE  AreaOK(area) /\ area \in Seq(AreaItem) /\ Len(area) \in Nat /\ DOMAIN area = 1..Len(area)
<1>1. area \in Seq(AreaItem)
  BY DEF Stream, QueueInv
<1>2. Len(area) \in Nat /\ DOMAIN area = 1..Len(area)
  BY <1>1
<1>3. /\ Taken \in Nat /\ Popped = Taken + Len(area) /\ Fetched = Popped + Len(restore_recipe_queue)
      /\ Len(restore_recipe_queue) \in Nat
  BY Lengths DEF Stream, Popped, Fetched
<1>4. Fetched <= Len(All) /\ Len(All) \in Nat /\ \A q \in 1..Len(All) : All[q] \in Piece
  BY AllIs DEF Stream
<1>5. ASSUME NEW i \in 1..Len(area), ~IsMark(area[i])
      PROVE  area[i].id \in Ids /\ area[i].fp \in Contents[area[i].id]
  <2>1. Taken + i \in 1..Len(All)
    BY <1>2, <1>3, <1>4
  <2>2. /\ area[i].kind = All[Taken + i].kind /\ area[i].fp = All[Taken + i].fp
        /\ area[i].id = All[Taken + i].id
    BY DEF Stream, Matches, AreaStretch
  <2> QED BY <1>4, <1>5, <2>1, <2>2, PieceIs DEF IsMark
<1>6. \A i \in 1..Len(area) : IsMark(area[i]) => area[i].ready
  BY <1>2 DEF AreaInv
<1> QED BY <1>1, <1>2, <1>5, <1>6 DEF AreaOK

\* The area is assembled, after d items were popped for it.
LEMMA AssembledStep ==
  ASSUME Stream, AreaInv, CacheInv, config.cache = "asm", NEW d \in {0, 1},
         out = <<>>, status = "running", "chunk" \notin terminated,
         UNCHANGED <<config, source, recipe, records, file, next, restore_chunk_queue, terminated,
                     written, status, cache>>,
         restore_recipe_queue' \in Seq(Piece),
         Len(restore_recipe_queue') = Len(restore_recipe_queue) - d,
         Stretch(restore_recipe_queue', Popped + d, All),
         NEW a \in Seq(AreaItem), Len(a) = Len(area) + d, AreaOK(a), AreaStretch(a, Taken, All),
         Cardinality(Chunks(a)) <= Cardinality(Chunks(area)) + d, d = 1 => Chunks(a) # {},
         \A i \in 1..Len(a) : Taken + i \in 1..Len(All),
         Assemble(a, SizeOfAll(a))
  PROVE  Stream' /\ AreaInv' /\ CacheInv' /\ Popped' = Popped + d
<1>1. /\ Taken \in Nat /\ Len(area) \in Nat /\ Len(a) \in Nat /\ reads \in Nat
      /\ DOMAIN a = 1..Len(a) /\ DOMAIN area = 1..Len(area) /\ area \in Seq(AreaItem)
  BY Lengths, AreaFits DEF Stream, CacheInv
<1>2. PICK k \in 0..Len(a) :
        /\ out' \in Seq(Output) /\ Len(out') = k /\ \A i \in 1..k : out'[i] = View(a[i])
        /\ area' \in Seq(AreaItem) /\ Len(area') = Len(a) - k
        /\ \A i \in 1..Len(a) - k : Same(area'[i], a[k + i])
        /\ \A i \in 1..Len(a) - k : IsMark(area'[i]) => area'[i].ready
        /\ size' = SizeOfAll(area')
        /\ Chunks(a) = {} => k = Len(a) /\ reads' = reads
        /\ Chunks(a) # {} => reads' = reads + 1 /\ \E i \in Chunks(a) : i <= k
  BY <1>1, Assembled
<1>3. k \in Nat /\ k <= Len(a)
  BY <1>1
<1>4. \A q \in 1..Len(All) : source[q] = View(All[q])
  BY AllIs DEF Stream
<1>5. Stretch(out', Taken, source)
  <2>1. ASSUME NEW i \in 1..k PROVE out'[i] = source[Taken + i]
    <3>1. i \in 1..Len(a)
      BY <1>1, <1>3
    <3>2. source[Taken + i] = View(All[Taken + i])
      BY <1>4, <3>1
    <3> QED BY <1>2, <3>1, <3>2 DEF AreaStretch, View
  <2> QED BY <1>2, <2>1 DEF Stretch
<1>6. AreaStretch(area', Taken + k, All)
  <2>1. ASSUME NEW i \in 1..Len(a) - k PROVE Same(area'[i], All[(Taken + k) + i])
    <3>1. k + i \in 1..Len(a) /\ (Taken + k) + i = Taken + (k + i)
      BY <1>1, <1>3
    <3>2. Same(area'[i], a[k + i]) /\ Same(a[k + i], All[Taken + (k + i)])
      BY <1>2, <3>1 DEF AreaStretch, Same
    <3> QED BY <3>1, <3>2 DEF Same
  <2> QED BY <1>2, <2>1 DEF AreaStretch, Same
<1>7. Stream' /\ Popped' = Popped + d /\ Taken' = Taken + k
  <2>1. Len(area') = Len(area) + d - k
    BY <1>1, <1>2
  <2> QED BY <1>2, <1>3, <1>5, <1>6, <2>1, StreamOut
<1>8. DOMAIN area' = 1..Len(area')
  BY <1>2
<1>9. /\ Cardinality(Chunks(a)) \in Nat /\ Cardinality(Chunks(area')) \in Nat
      /\ Cardinality(Chunks(area')) <= Cardinality(Chunks(a))
      /\ (\E i \in Chunks(a) : i <= k) => Cardinality(Chunks(area')) + 1 <= Cardinality(Chunks(a))
  BY <1>1, <1>2, <1>8, FewerChunks
<1>10. AreaInv'
  <2>1. Cardinality(Chunks(area)) \in Nat
    <3>1. Chunks(area) \in SUBSET (1..Len(area))
      BY <1>1 DEF Chunks
    <3> QED BY <1>1, <3>1, UptoEnds
  <2>2. Cardinality(Chunks(area')) <= Cardinality(Chunks(area))
    <3>1. CASE d = 0
      BY <1>9, <2>1, <3>1
    <3>2. CASE d = 1
      <4>1. Cardinality(Chunks(area')) + 1 <= Cardinality(Chunks(a))
        BY <1>2, <1>9, <3>2
      <4> QED BY <1>9, <2>1, <3>2, <4>1
    <3> QED BY <3>1, <3>2
  <2>3. AreaBounded'
    BY <1>9, <2>1, <2>2, AreaStaysBounded DEF AreaInv
  <2>4. \A i \in DOMAIN area' : IsMark(area'[i]) => area'[i].ready
    BY <1>2, <1>8
  <2> QED BY <1>2, <2>3, <2>4 DEF AreaInv
<1>11. CacheInv'
  <2>1. All' = All /\ Chunks(All) \in SUBSET Nat
    <3>1. Chunks(All) \in SUBSET (1..Len(All))
      BY AccessesAre DEF All, Stream, BackupInv
    <3> QED BY <3>1 DEF All
  <2>2. /\ Upto(Chunks(All), Taken) \in Nat /\ Upto(Chunks(All), Taken + k) \in Nat
        /\ Upto(Chunks(All), Taken) <= Upto(Chunks(All), Taken + k)
        /\ (\E q \in Chunks(All) : Taken < q /\ q <= Taken + k)
              => Upto(Chunks(All), Taken) + 1 <= Upto(Chunks(All), Taken + k)
    <3>1. Taken + k \in Nat /\ Taken <= Taken + k
      BY <1>1, <1>3
    <3> QED BY <1>1, <2>1, <3>1, UptoRise, Zenon
  <2>3. ASSUME Chunks(a) # {} PROVE \E q \in Chunks(All) : Taken < q /\ q <= Taken + k
    <3>1. PICK i \in Chunks(a) : i <= k
      BY <1>2, <2>3
    <3>2. i \in 1..Len(a) /\ ~IsMark(a[i])
      BY <1>1 DEF Chunks
    <3>3. Taken + i \in 1..Len(All) /\ ~IsMark(All[Taken + i])
      BY <3>2 DEF AreaStretch, IsMark
    <3>4. DOMAIN All = 1..Len(All)
      <4>1. All \in Seq(Piece)
        BY AllIs DEF Stream
      <4> QED BY <4>1
    <3>5. Taken + i \in Chunks(All)
      BY <3>3, <3>4 DEF Chunks
    <3>6. Taken < Taken + i /\ Taken + i <= Taken + k
      BY <1>1, <1>3, <3>1, <3>2
    <3> QED BY <3>5, <3>6
  <2>4. reads' \in Nat /\ reads' <= Upto(Chunks(All), Taken + k)
    <3>1. reads <= Upto(Chunks(All), Taken)
      BY DEF CacheInv
    <3>2. CASE Chunks(a) = {}
      BY <1>1, <1>2, <2>2, <3>1, <3>2
    <3>3. CASE Chunks(a) # {}
      <4>1. PICK u \in Nat : u = Upto(Chunks(All), Taken)
        BY <2>2
      <4>2. PICK v \in Nat : v = Upto(Chunks(All), Taken + k)
        BY <2>2
      <4>3. reads \in Nat /\ reads' = reads + 1 /\ reads <= u /\ u < v
        BY <1>1, <1>2, <2>2, <2>3, <3>1, <3>3, <4>1, <4>2, SMTT(60)
      <4> QED BY <4>2, <4>3
    <3> QED BY <3>2, <3>3
  <2> QED BY <1>7, <2>1, <2>4 DEF CacheInv
<1> QED BY <1>7, <1>10, <1>11

\* assembly_restore_thread hands the stream on, and keeps its area bounded.
LEMMA AsmRestoreStep ==
  ASSUME Stream, AreaInv, CacheInv, NEW c, Pops(c), AsmRestore(c)
  PROVE  Stream' /\ AreaInv' /\ CacheInv' /\ Popped' = Popped + 1
<1> DEFINE item == [kind |-> c.kind, fp |-> c.fp, id |-> c.id, ready |-> IsMark(c)]
           a == Append(area, item)
<1>1. /\ c \in Piece /\ c = All[Popped + 1]
      /\ Popped \in Nat /\ Popped + 1 \in 1..Len(All)
      /\ restore_recipe_queue' \in Seq(Piece)
      /\ Len(restore_recipe_queue') = Len(restore_recipe_queue) - 1
      /\ Stretch(restore_recipe_queue', Popped + 1, All)
      /\ out = <<>> /\ Taken \in Nat /\ "chunk" \notin terminated
      /\ UNCHANGED <<config, source, recipe, records, file, next, restore_chunk_queue, terminated,
                     written>>
  BY PopsNext
<1>2. /\ config.cache = "asm" /\ cache' = cache /\ status' = status /\ status = "running"
      /\ IF ~IsMark(c) /\ AreaFull(size + SizeOf(c))
         THEN Assemble(a, size + SizeOf(c))
         ELSE area' = a /\ size' = size + SizeOf(c) /\ reads' = reads /\ out' = out
  BY DEF AsmRestore, Pops, optVars
<1>3. /\ AreaOK(area) /\ area \in Seq(AreaItem) /\ Len(area) \in Nat /\ DOMAIN area = 1..Len(area)
  BY AreaFits
<1>4. item \in AreaItem /\ SizeOf(item) = SizeOf(c)
  BY <1>1, PieceIs DEF AreaItem, SizeOf, IsMark
<1>5. ~IsMark(c) => c.id \in Ids /\ c.fp \in Contents[c.id] /\ c.fp \in FP
  BY <1>1, PieceIs DEF IsMark
<1>6. Same(item, c) /\ (IsMark(item) <=> IsMark(c)) /\ (IsMark(item) => item.ready)
  BY DEF Same, IsMark
<1> HIDE DEF item
<1>7. /\ a \in Seq(AreaItem) /\ Len(a) = Len(area) + 1
      /\ \A i \in 1..Len(area) : a[i] = area[i]
      /\ a[Len(area) + 1] = item
  BY <1>3, <1>4
<1>8. /\ SizeOfAll(a) = size + SizeOf(c) /\ DOMAIN a = 1..Len(a)
  BY <1>3, <1>4, <1>7, AreaSizes, SizeAppend DEF AreaInv
<1>9. /\ Cardinality(Chunks(area)) \in Nat
      /\ Cardinality(Chunks(a)) = Cardinality(Chunks(area)) + (IF IsMark(c) THEN 0 ELSE 1)
  BY <1>3, <1>4, <1>6, MoreChunks
<1> HIDE DEF a
<1>10. Popped = Taken + Len(area)
  BY DEF Popped
<1>11. ASSUME NEW i \in 1..Len(a)
       PROVE  /\ Same(a[i], All[Taken + i]) /\ Taken + i \in 1..Len(All)
              /\ IsMark(a[i]) => a[i].ready
              /\ ~IsMark(a[i]) => a[i].id \in Ids /\ a[i].fp \in Contents[a[i].id]
  <2>1. CASE i = Len(area) + 1
    <3>1. Taken + i = Popped + 1
      BY <1>1, <1>3, <1>10, <2>1
    <3>2. a[i] = item
      BY <1>7, <2>1
    <3> QED BY <1>1, <1>5, <1>6, <3>1, <3>2 DEF Same
  <2>2. CASE i # Len(area) + 1
    <3>1. i \in 1..Len(area) /\ Taken + i \in 1..Len(All)
      BY <1>1, <1>3, <1>7, <1>10, <2>2, SMTT(60)
    <3>2. a[i] = area[i]
      BY <1>7, <3>1
    <3> QED BY <1>3, <3>1, <3>2 DEF AreaOK, Same, Stream, Matches, AreaStretch
  <2> QED BY <2>1, <2>2
<1>12. AreaOK(a) /\ AreaStretch(a, Taken, All)
  BY <1>11 DEF AreaOK, AreaStretch, Same
<1>13. CASE ~IsMark(c) /\ AreaFull(size + SizeOf(c))
  <2>1. Assemble(a, SizeOfAll(a))
    BY <1>2, <1>8, <1>13
  <2>2. Cardinality(Chunks(a)) <= Cardinality(Chunks(area)) + 1
    BY <1>9
  <2>3. Chunks(a) # {}
    <3>1. ~IsMark(a[Len(area) + 1]) /\ Len(area) + 1 \in 1..Len(a)
      BY <1>3, <1>6, <1>7, <1>13
    <3> QED BY <1>8, <3>1 DEF Chunks
  <2> QED BY <1>1, <1>2, <1>7, <1>11, <1>12, <2>1, <2>2, <2>3, AssembledStep
<1>14. CASE ~(~IsMark(c) /\ AreaFull(size + SizeOf(c)))
  <2>1. area' = a /\ size' = SizeOfAll(a) /\ reads' = reads /\ out' = <<>>
    BY <1>1, <1>2, <1>8, <1>14
  <2>2. Stream' /\ Popped' = Popped + 1 /\ Taken' = Taken
    <3>1. /\ out' \in Seq(Output) /\ Len(out') = 0 /\ Stretch(out', Taken, source)
      BY <2>1 DEF Stretch
    <3>2. area' \in Seq(AreaItem) /\ Len(area') = Len(area) + 1 - 0 /\ AreaStretch(area', Taken + 0, All)
      BY <1>1, <1>3, <1>7, <1>12, <2>1
    <3>3. Stream' /\ Popped' = Popped + 1 /\ Taken' = Taken + 0
      BY <1>1, <1>2, <3>1, <3>2, StreamOut
    <3> QED BY <1>1, <3>3
  <2>3. AreaBounded'
    <3>1. CASE IsMark(c)
      <4>1. Cardinality(Chunks(area')) = Cardinality(Chunks(area))
        BY <1>9, <2>1, <3>1
      <4> QED BY <1>9, <4>1, AreaStaysBounded DEF AreaInv
    <3>2. CASE ~IsMark(c)
      <4>1. ~AreaFull(SizeOfAll(area')) /\ area' \in Seq(AreaItem) /\ FP # {}
        BY <1>5, <1>7, <1>8, <1>14, <2>1, <3>2
      <4> QED BY <4>1, AreaIsBounded
    <3> QED BY <3>1, <3>2
  <2>4. AreaInv'
    <3>1. \A i \in DOMAIN area' : IsMark(area'[i]) => area'[i].ready
      BY <1>8, <1>11, <2>1
    <3> QED BY <1>1, <1>2, <2>1, <2>3, <3>1 DEF AreaInv
  <2>5. CacheInv'
    <3>1. All' = All
      BY <1>1 DEF All
    <3> QED BY <1>1, <1>2, <2>1, <2>2, <3>1 DEF CacheInv
  <2> QED BY <2>2, <2>4, <2>5
<1> QED BY <1>13, <1>14

\* So it does when it empties its area.
LEMMA AsmDrainStep ==
  ASSUME Stream, AreaInv, CacheInv, AsmDrain
  PROVE  Stream' /\ AreaInv' /\ CacheInv' /\ Popped' = Popped
<1>1. /\ status = "running" /\ out = <<>> /\ config.cache = "asm" /\ restore_recipe_queue = <<>>
      /\ area # <<>> /\ Assemble(area, size)
      /\ UNCHANGED <<config, source, recipe, records, file, next, restore_recipe_queue,
                     restore_chunk_queue, terminated, written, status, cache>>
  BY DEF AsmDrain, backup, reader
<1>2. AreaOK(area) /\ area \in Seq(AreaItem) /\ Len(area) \in Nat
  BY AreaFits
<1>3. /\ Popped \in Nat /\ Taken \in Nat /\ Popped = Taken + Len(area)
      /\ Fetched = Popped + Len(restore_recipe_queue) /\ Len(restore_recipe_queue) = 0
  BY <1>1, Lengths DEF Stream, Popped, Fetched
<1>4. Fetched <= Len(All) /\ Len(All) \in Nat
  BY AllIs DEF Stream
<1>5. \A i \in 1..Len(area) : Taken + i \in 1..Len(All)
  BY <1>2, <1>3, <1>4
<1>6. /\ restore_recipe_queue' \in Seq(Piece)
      /\ Len(restore_recipe_queue') = Len(restore_recipe_queue) - 0
      /\ Stretch(restore_recipe_queue', Popped + 0, All)
  BY <1>1, <1>3 DEF Stretch
<1>7. "chunk" \notin terminated
  BY <1>1 DEF Stream, EndInv
<1>8. Assemble(area, SizeOfAll(area)) /\ AreaStretch(area, Taken, All)
  BY <1>1 DEF AreaInv, Stream, Matches
<1>9. /\ Cardinality(Chunks(area)) <= Cardinality(Chunks(area)) + 0 /\ Len(area) = Len(area) + 0
  <2>1. Chunks(area) \in SUBSET (1..Len(area))
    BY <1>2 DEF Chunks
  <2>2. Cardinality(Chunks(area)) \in Nat
    BY <1>2, <2>1, UptoEnds
  <2> QED BY <1>2, <2>2
<1>10. Stream' /\ AreaInv' /\ CacheInv' /\ Popped' = Popped + 0
  BY <1>1, <1>2, <1>5, <1>6, <1>7, <1>8, <1>9, AssembledStep
<1> QED BY <1>3, <1>10

-----------------------------------------------------------------------------
(* The cache.                                                              *)

\* A beginning of a cache.
LEMMA CacheBeginning ==
  ASSUME NEW R, NEW s \in Seq(R), IsInjective(s), NEW m \in 0..Len(s)
  PROVE  /\ SubSeq(s, 1, m) \in Seq(R) /\ Len(SubSeq(s, 1, m)) = m
         /\ IsInjective(SubSeq(s, 1, m)) /\ ToSet(SubSeq(s, 1, m)) \subseteq ToSet(s)
<1> DEFINE p == SubSeq(s, 1, m)
<1>1. Len(s) \in Nat /\ DOMAIN s = 1..Len(s)
  OBVIOUS
<1>2. m \in Nat /\ m <= Len(s)
  BY <1>1
<1>3. p \in Seq(R) /\ Len(p) = m /\ \A i \in 1..m : p[i] = s[i]
  BY <1>1, <1>2
<1> HIDE DEF p
<1>4. DOMAIN p = 1..m /\ \A i \in 1..m : i \in 1..Len(s)
  BY <1>1, <1>2, <1>3
<1> QED BY <1>1, <1>3, <1>4 DEF IsInjective, ToSet, p

\* A cache from which an element is removed.
LEMMA CacheRemoval ==
  ASSUME NEW R, NEW s \in Seq(R), IsInjective(s), NEW i \in 1..Len(s)
  PROVE  /\ RemoveAt(s, i) \in Seq(R) /\ Len(RemoveAt(s, i)) = Len(s) - 1
         /\ IsInjective(RemoveAt(s, i)) /\ ToSet(RemoveAt(s, i)) = ToSet(s) \ {s[i]}
<1> DEFINE p == SubSeq(s, 1, i - 1)
           q == SubSeq(s, i + 1, Len(s))
           r == p \o q
<1>1. RemoveAt(s, i) = r
  BY DEF RemoveAt
<1>2. Len(s) \in Nat /\ DOMAIN s = 1..Len(s)
  OBVIOUS
<1>3. i \in Nat /\ 1 <= i /\ i <= Len(s)
  BY <1>2
<1>4. p \in Seq(R) /\ Len(p) = i - 1 /\ \A j \in 1..i - 1 : p[j] = s[j]
  BY <1>2, <1>3
<1>5. q \in Seq(R) /\ Len(q) = Len(s) - i /\ \A j \in 1..Len(s) - i : q[j] = s[i + j]
  <2>1. PICK l \in Int : l = Len(s)
    <3>1. Len(s) \in Int
      OBVIOUS
    <3> HIDE DEF p, q
    <3> QED BY <3>1
  <2>2. PICK m \in Int : m = i + 1
    BY <1>3
  <2>3. \A j \in m..l : s[j] \in R
    BY <1>3, <2>1, <2>2
  <2>4. /\ SubSeq(s, m, l) \in Seq(R)
        /\ Len(SubSeq(s, m, l)) = IF m <= l THEN l - m + 1 ELSE 0
        /\ \A j \in 1..l - m + 1 : SubSeq(s, m, l)[j] = s[m + j - 1]
    BY <2>3, SubSeqProperties
  <2>5. q = SubSeq(s, m, l)
    BY <2>1, <2>2
  <2> HIDE DEF q
  <2>6. l - m + 1 = Len(s) - i /\ (~(m <= l) => Len(s) - i = 0)
    BY <1>3, <2>1, <2>2
  <2>7. \A j \in 1..Len(s) - i : m + j - 1 = i + j
    BY <1>3, <2>1, <2>2
  <2> QED BY <2>4, <2>5, <2>6, <2>7
<1> HIDE DEF p, q
<1>6. /\ r \in Seq(R) /\ Len(r) = Len(p) + Len(q)
      /\ \A j \in 1..Len(p) + Len(q) : r[j] = IF j <= Len(p) THEN p[j] ELSE q[j - Len(p)]
  BY <1>4, <1>5, ConcatProperties
<1>7. r \in Seq(R) /\ Len(r) = Len(s) - 1
  BY <1>2, <1>3, <1>4, <1>5, <1>6
<1>8. ASSUME NEW j \in 1..Len(s) - 1
      PROVE  r[j] = s[IF j < i THEN j ELSE j + 1]
  <2>1. j \in 1..Len(p) + Len(q)
    BY <1>2, <1>3, <1>4, <1>5
  <2>2. CASE j < i
    <3>1. j <= Len(p) /\ j \in 1..i - 1
      BY <1>2, <1>3, <1>4, <2>2
    <3> QED BY <1>4, <1>6, <2>1, <2>2, <3>1
  <2>3. CASE ~(j < i)
    <3>1. ~(j <= Len(p)) /\ j - Len(p) \in 1..Len(s) - i /\ i + (j - Len(p)) = j + 1
      BY <1>2, <1>3, <1>4, <2>3
    <3> QED BY <1>5, <1>6, <2>1, <2>3, <3>1
  <2> QED BY <2>2, <2>3
<1> HIDE DEF r
<1>9. DOMAIN r = 1..Len(s) - 1
  BY <1>7
<1>10. ASSUME NEW j \in 1..Len(s) - 1
       PROVE  /\ (IF j < i THEN j ELSE j + 1) \in 1..Len(s)
              /\ (IF j < i THEN j ELSE j + 1) # i
  BY <1>2, <1>3
<1>11. IsInjective(r)
  <2>1. ASSUME NEW j \in 1..Len(s) - 1, NEW k \in 1..Len(s) - 1, r[j] = r[k] PROVE j = k
    <3>1. (IF j < i THEN j ELSE j + 1) = (IF k < i THEN k ELSE k + 1)
      BY <1>2, <1>8, <1>10, <2>1 DEF IsInjective
    <3> QED BY <1>2, <1>3, <3>1
  <2> QED BY <1>9, <2>1 DEF IsInjective
<1>12. ToSet(r) \subseteq ToSet(s) \ {s[i]}
  <2>1. ASSUME NEW j \in 1..Len(s) - 1 PROVE r[j] \in ToSet(s) \ {s[i]}
    BY <1>2, <1>8, <1>10 DEF IsInjective, ToSet
  <2> QED BY <1>9, <2>1 DEF ToSet
<1>13. ToSet(s) \ {s[i]} \subseteq ToSet(r)
  <2>1. ASSUME NEW k \in 1..Len(s), s[k] # s[i] PROVE \E j \in 1..Len(s) - 1 : r[j] = s[k]
    <3>1. CASE k < i
      <4>1. k \in 1..Len(s) - 1
        BY <1>2, <1>3, <3>1
      <4> QED BY <1>8, <3>1, <4>1
    <3>2. CASE ~(k < i)
      <4>1. k # i
        BY <2>1
      <4>2. k - 1 \in 1..Len(s) - 1 /\ ~(k - 1 < i) /\ (k - 1) + 1 = k
        BY <1>2, <1>3, <3>2, <4>1
      <4>3. r[k - 1] = s[k]
        BY <1>8, <4>2
      <4> QED BY <4>2, <4>3
    <3> QED BY <3>1, <3>2
  <2> QED BY <1>2, <1>9, <2>1 DEF ToSet
<1> QED BY <1>1, <1>7, <1>11, <1>12, <1>13

\* A cache with another element in front.
LEMMA CacheFront ==
  ASSUME NEW R, NEW s \in Seq(R), IsInjective(s), NEW x \in R, x \notin ToSet(s)
  PROVE  /\ <<x>> \o s \in Seq(R) /\ Len(<<x>> \o s) = Len(s) + 1 /\ (<<x>> \o s)[1] = x
         /\ IsInjective(<<x>> \o s) /\ ToSet(<<x>> \o s) = ToSet(s) \cup {x}
<1> DEFINE r == <<x>> \o s
<1>1. Len(s) \in Nat /\ DOMAIN s = 1..Len(s)
  OBVIOUS
<1>2. /\ r \in Seq(R) /\ Len(r) = Len(s) + 1 /\ r[1] = x
      /\ \A j \in 1..Len(s) : r[j + 1] = s[j]
  OBVIOUS
<1> HIDE DEF r
<1>3. DOMAIN r = 1..Len(s) + 1
  BY <1>2
<1>4. \A j \in 1..Len(s) + 1 : j = 1 \/ \E k \in 1..Len(s) : j = k + 1
  <2>1. ASSUME NEW j \in 1..Len(s) + 1, j # 1 PROVE j - 1 \in 1..Len(s) /\ j = (j - 1) + 1
    BY <1>1, <2>1
  <2> QED BY <2>1
<1>5. \A k \in 1..Len(s) : s[k] # x /\ k + 1 \in 1..Len(s) + 1
  <2>1. \A k \in 1..Len(s) : k + 1 \in 1..Len(s) + 1
    BY <1>1
  <2> QED BY <1>1, <2>1 DEF ToSet
<1>6. IsInjective(r)
  <2>1. ASSUME NEW a \in 1..Len(s) + 1, NEW b \in 1..Len(s) + 1, r[a] = r[b] PROVE a = b
    <3>1. CASE a = 1
      <4>1. ASSUME NEW k \in 1..Len(s), b = k + 1 PROVE FALSE
        BY <1>2, <1>5, <2>1, <3>1, <4>1
      <4> QED BY <1>4, <3>1, <4>1
    <3>2. CASE b = 1
      <4>1. ASSUME NEW k \in 1..Len(s), a = k + 1 PROVE FALSE
        BY <1>2, <1>5, <2>1, <3>2, <4>1
      <4> QED BY <1>4, <3>2, <4>1
    <3>3. CASE a # 1 /\ b # 1
      <4>1. PICK k \in 1..Len(s) : a = k + 1
        BY <1>4, <3>3
      <4>2. PICK l \in 1..Len(s) : b = l + 1
        BY <1>4, <3>3
      <4>3. s[k] = s[l]
        BY <1>2, <2>1, <4>1, <4>2
      <4> QED BY <1>1, <4>1, <4>2, <4>3 DEF IsInjective
    <3> QED BY <3>1, <3>2, <3>3
  <2> QED BY <1>3, <2>1 DEF IsInjective
<1>7. ToSet(r) = ToSet(s) \cup {x}
  <2>1. ASSUME NEW a \in 1..Len(s) + 1 PROVE r[a] \in ToSet(s) \cup {x}
    <3>1. CASE a = 1
      BY <1>2, <3>1
    <3>2. CASE a # 1
      <4>1. PICK k \in 1..Len(s) : a = k + 1
        BY <1>4, <3>2
      <4>2. r[a] = s[k] /\ s[k] \in ToSet(s)
        BY <1>1, <1>2, <4>1 DEF ToSet
      <4> QED BY <4>2
    <3> QED BY <3>1, <3>2
  <2>2. x \in ToSet(r)
    <3>1. 1 \in 1..Len(s) + 1
      BY <1>1
    <3> QED BY <1>2, <1>3, <3>1 DEF ToSet
  <2>3. ASSUME NEW k \in 1..Len(s) PROVE s[k] \in ToSet(r)
    BY <1>2, <1>3, <1>5 DEF ToSet
  <2> QED BY <1>1, <1>3, <2>1, <2>2, <2>3 DEF ToSet
<1> QED BY <1>2, <1>6, <1>7 DEF r

\* What is found in the cache moves to its front.
LEMMA CachePromoted ==
  ASSUME NEW R, cache \in Seq(R), IsInjective(cache), NEW i \in 1..Len(cache)
  PROVE  /\ Promoted(i) \in Seq(R) /\ Len(Promoted(i)) = Len(cache) /\ Promoted(i)[1] = cache[i]
         /\ IsInjective(Promoted(i)) /\ ToSet(Promoted(i)) = ToSet(cache)
<1>1. cache[i] \in R /\ Len(cache) \in Nat /\ DOMAIN cache = 1..Len(cache)
  OBVIOUS
<1>2. Promoted(i) = <<cache[i]>> \o RemoveAt(cache, i)
  <2>1. SubSeq(cache, 1, i - 1) \in Seq(R) /\ SubSeq(cache, i + 1, Len(cache)) \in Seq(R)
        /\ <<cache[i]>> \in Seq(R)
    BY <1>1
  <2>2. PICK p \in Seq(R) : p = SubSeq(cache, 1, i - 1)
    BY <2>1, Zenon
  <2>3. PICK q \in Seq(R) : q = SubSeq(cache, i + 1, Len(cache))
    BY <2>1, Zenon
  <2>4. PICK x \in Seq(R) : x = <<cache[i]>>
    BY <2>1, Zenon
  <2>5. Promoted(i) = (x \o p) \o q /\ RemoveAt(cache, i) = p \o q
    BY <2>2, <2>3, <2>4 DEF Promoted, RemoveAt
  <2>6. (x \o p) \o q = x \o (p \o q)
    BY ONLY x \in Seq(R), p \in Seq(R), q \in Seq(R), ConcatAssociative, SMTT(60)
  <2> QED BY <2>4, <2>5, <2>6
<1>3. /\ RemoveAt(cache, i) \in Seq(R) /\ Len(RemoveAt(cache, i)) = Len(cache) - 1
      /\ IsInjective(RemoveAt(cache, i)) /\ ToSet(RemoveAt(cache, i)) = ToSet(cache) \ {cache[i]}
  BY CacheRemoval
<1>4. cache[i] \notin ToSet(RemoveAt(cache, i)) /\ cache[i] \in ToSet(cache)
  BY <1>1, <1>3 DEF ToSet
<1>5. PICK r \in Seq(R) : r = RemoveAt(cache, i)
  BY <1>3
<1>6. /\ <<cache[i]>> \o r \in Seq(R) /\ Len(<<cache[i]>> \o r) = Len(r) + 1
      /\ (<<cache[i]>> \o r)[1] = cache[i]
      /\ IsInjective(<<cache[i]>> \o r) /\ ToSet(<<cache[i]>> \o r) = ToSet(r) \cup {cache[i]}
  <2>1. IsInjective(r) /\ cache[i] \notin ToSet(r)
    BY <1>3, <1>4, <1>5
  <2> QED BY <1>1, <2>1, CacheFront
<1>7. /\ Promoted(i) \in Seq(R) /\ Promoted(i)[1] = cache[i] /\ IsInjective(Promoted(i))
      /\ Len(Promoted(i)) = (Len(cache) - 1) + 1
      /\ ToSet(Promoted(i)) = (ToSet(cache) \ {cache[i]}) \cup {cache[i]}
  BY <1>2, <1>3, <1>5, <1>6, Zenon
<1> QED BY <1>1, <1>4, <1>7

\* What is not cached yet is put in front, and the last of a full cache is
\* dropped.
LEMMA CacheInserted ==
  ASSUME NEW R, NEW s \in Seq(R), IsInjective(s), Len(s) <= CacheSize, NEW x \in R, x \notin ToSet(s)
  PROVE  /\ Inserted(s, x) \in Seq(R) /\ Len(Inserted(s, x)) <= CacheSize
         /\ Inserted(s, x)[1] = x /\ Inserted(s, x) # <<>>
         /\ IsInjective(Inserted(s, x)) /\ ToSet(Inserted(s, x)) \subseteq ToSet(s) \cup {x}
<1> DEFINE m == IF Len(s) = CacheSize THEN CacheSize - 1 ELSE Len(s)
           p == SubSeq(s, 1, m)
<1>1. Len(s) \in Nat /\ CacheSize \in Nat /\ CacheSize # 0
  BY RestoreAssumption
<1>2. m \in 0..Len(s) /\ m + 1 <= CacheSize /\ m \in Nat
  BY <1>1
<1> HIDE DEF m
<1>3. p \in Seq(R) /\ Len(p) = m /\ IsInjective(p) /\ ToSet(p) \subseteq ToSet(s)
  BY <1>2, CacheBeginning
<1>4. Inserted(s, x) = <<x>> \o p
  BY DEF Inserted, m
<1> HIDE DEF p
<1>5. /\ <<x>> \o p \in Seq(R) /\ Len(<<x>> \o p) = m + 1 /\ (<<x>> \o p)[1] = x
      /\ IsInjective(<<x>> \o p) /\ ToSet(<<x>> \o p) = ToSet(p) \cup {x}
  BY <1>3, CacheFront
<1>6. <<x>> \o p # <<>>
  BY <1>2, <1>5
<1> QED BY <1>2, <1>3, <1>4, <1>5, <1>6

-----------------------------------------------------------------------------
(* The caches hand the stream on.                                          *)

\* What has been popped of the stream, with one more item.
LEMMA PopsOne ==
  ASSUME Stream, NEW c, Pops(c)
  PROVE  /\ All' = All /\ records' = records /\ config' = config /\ Popped \in Nat
         /\ DOMAIN All = 1..Len(All) /\ Popped + 1 \in DOMAIN All /\ c = All[Popped + 1]
         /\ Chunks(All) \in SUBSET Nat /\ Accesses(All) \in SUBSET Nat
         /\ Accesses(All) \in SUBSET Chunks(All) /\ Chunks(All) \in SUBSET (1..Len(All))
         /\ Popped + 1 \in Chunks(All) <=> ~IsMark(c)
         /\ Upto(Chunks(All), Popped) \in Nat
         /\ Upto(Chunks(All), Popped + 1) = Upto(Chunks(All), Popped) + (IF IsMark(c) THEN 0 ELSE 1)
<1>1. /\ c = All[Popped + 1] /\ Popped \in Nat /\ Popped + 1 \in 1..Len(All)
      /\ UNCHANGED <<config, recipe, records>>
  BY PopsNext
<1>2. All \in Seq(Piece)
  BY AllIs DEF Stream
<1>3. DOMAIN All = 1..Len(All)
  BY <1>2
<1>4. /\ Chunks(All) \in SUBSET (1..Len(All)) /\ Accesses(All) \in SUBSET Chunks(All)
  BY AccessesAre DEF All, Stream, BackupInv
<1>5. Chunks(All) \in SUBSET Nat /\ Accesses(All) \in SUBSET Nat
  BY <1>4
<1>6. Popped + 1 \in Chunks(All) <=> ~IsMark(c)
  BY <1>1, <1>3 DEF Chunks
<1>7. /\ Upto(Chunks(All), Popped) \in Nat
      /\ Upto(Chunks(All), Popped + 1)
           = Upto(Chunks(All), Popped) + (IF Popped + 1 \in Chunks(All) THEN 1 ELSE 0)
  BY <1>1, <1>5, UptoStep, Zenon
<1>8. All' = All
  BY <1>1 DEF All
<1> QED BY <1>1, <1>3, <1>4, <1>5, <1>6, <1>7, <1>8

\* A mark or a chunk is passed on, and no more containers are read than chunks are
\* passed on.
LEMMA PassedStep ==
  ASSUME Stream, AreaInv, CacheInv, NEW c, Pops(c), config.cache # "asm",
         UNCHANGED <<area, size, status>>, out' = <<View(c)>>,
         cache' \in Seq(Ids), Len(cache') <= CacheSize, IsInjective(cache'),
         reads' = reads \/ (~IsMark(c) /\ reads' = reads + 1)
  PROVE  Stream' /\ AreaInv' /\ CacheInv' /\ Popped' = Popped + 1
<1>1. area = <<>> /\ area' = <<>>
  BY DEF AreaInv
<1>2. Stream' /\ Popped = Taken /\ Popped' = Popped + 1 /\ Taken' = Taken + 1
  BY <1>1, StreamPassed
<1>3. /\ All' = All /\ config' = config
      /\ Upto(Chunks(All), Popped) \in Nat
      /\ Upto(Chunks(All), Popped + 1) = Upto(Chunks(All), Popped) + (IF IsMark(c) THEN 0 ELSE 1)
  BY PopsOne
<1>4. AreaInv'
  <2>1. AreaBounded'
    BY DEF AreaInv, AreaBounded, AreaSize
  <2> QED BY <1>3, <2>1 DEF AreaInv
<1>5. reads' \in Nat /\ reads' <= Upto(Chunks(All), Popped + 1)
  BY <1>2, <1>3 DEF CacheInv
<1>6. CacheInv'
  BY <1>2, <1>3, <1>5 DEF CacheInv
<1> QED BY <1>2, <1>4, <1>6

\* A mark is none of the accesses.
LEMMA PassMarkStep ==
  ASSUME IInv, NEW c, Pops(c), config.cache # "asm", PassMark(c)
  PROVE  IInv'
<1>1. /\ IsMark(c) /\ out' = <<Restored(c, c.id)>>
      /\ UNCHANGED <<cache, reads, table, sequence_number, buffered, last_id, area, size, status>>
  <2>1. UNCHANGED <<cache, reads, table, sequence_number, buffered, last_id, area, size, status>>
    BY DEF PassMark, optVars, areaVars
  <2> QED BY <2>1 DEF PassMark
<1>2. Stream /\ AreaInv /\ CacheInv /\ WindowInv
  BY DEF IInv
<1>3. Restored(c, c.id) = View(c)
  <2>1. c.kind # "chunk" /\ c.fp = NoFp
    BY <1>1, <1>2, PopsNext, PieceIs DEF IsMark
  <2> QED BY <2>1 DEF Restored, View
<1>4. Stream' /\ AreaInv' /\ CacheInv' /\ Popped' = Popped + 1
  BY <1>1, <1>2, <1>3, PassedStep DEF CacheInv
<1>5. /\ All' = All /\ records' = records /\ config' = config /\ Popped \in Nat
      /\ Chunks(All) \in SUBSET Nat /\ Accesses(All) \in SUBSET Nat
      /\ Accesses(All) \in SUBSET Chunks(All) /\ Popped + 1 \notin Chunks(All)
  BY <1>1, <1>2, PopsOne
<1>6. Upto(Accesses(All), Popped + 1) = Upto(Accesses(All), Popped)
  <2>1. /\ Upto(Accesses(All), Popped) \in Nat
        /\ Upto(Accesses(All), Popped + 1)
             = Upto(Accesses(All), Popped) + (IF Popped + 1 \in Accesses(All) THEN 1 ELSE 0)
    BY <1>5, UptoStep, Zenon
  <2> QED BY <1>5, <2>1
<1>7. LastChunk(All, Popped, last_id) => LastChunk(All, Popped + 1, last_id)
  <2>1. Chunks(All) \cap 1..(Popped + 1) = Chunks(All) \cap 1..Popped
    <3>1. \A q \in Chunks(All) : q \in 1..(Popped + 1) <=> q \in 1..Popped
      BY <1>5
    <3> QED BY <3>1
  <2> QED BY <2>1 DEF LastChunk
<1>8. WindowInv'
  BY <1>1, <1>2, <1>4, <1>5, <1>6, <1>7 DEF WindowInv, Window
<1> QED BY <1>4, <1>8 DEF IInv

\* lru_restore_thread passes on the chunk it was asked for.
LEMMA LruRestoreStep ==
  ASSUME IInv, NEW c, Pops(c), LruRestore(c)
  PROVE  IInv'
<1> DEFINE hits == {i \in DOMAIN cache : c.fp \in Contents[cache[i]]}
<1>1. /\ config.cache = "lru" /\ ~IsMark(c)
      /\ hits # {} => cache' = Promoted(Min(hits)) /\ reads' = reads
      /\ hits = {} => cache' = Inserted(cache, c.id) /\ reads' = reads + 1
      /\ out' = <<Restored(c, cache'[1])>>
      /\ UNCHANGED <<table, sequence_number, buffered, last_id, area, size, status>>
  <2>1. UNCHANGED <<table, sequence_number, buffered, last_id, area, size, status>>
    BY DEF LruRestore, optVars, areaVars
  <2> QED BY <2>1 DEF LruRestore
<1>2. Stream /\ AreaInv /\ CacheInv /\ WindowInv
  BY DEF IInv
<1>3. cache \in Seq(Ids) /\ Len(cache) <= CacheSize /\ IsInjective(cache)
  BY <1>2 DEF CacheInv
<1>4. Len(cache) \in Nat /\ DOMAIN cache = 1..Len(cache)
  BY <1>3
<1>5. c.id \in Ids /\ c.fp \in Contents[c.id] /\ c.kind = "chunk"
  BY <1>1, <1>2, PopsNext, PieceIs DEF IsMark
<1>6. /\ cache' \in Seq(Ids) /\ Len(cache') <= CacheSize /\ IsInjective(cache')
      /\ c.fp \in Contents[cache'[1]] /\ reads' \in {reads, reads + 1}
  <2>1. CASE hits # {}
    <3>1. Min(hits) \in hits
      <4>1. hits \in SUBSET Nat
        BY <1>4
      <4> HIDE DEF hits
      <4> QED BY <2>1, <4>1, MinIs
    <3>2. PICK i \in 1..Len(cache) : i = Min(hits) /\ c.fp \in Contents[cache[i]]
      BY <1>4, <3>1
    <3>3. cache' = Promoted(i) /\ reads' = reads
      BY <1>1, <2>1, <3>2
    <3> QED BY <1>3, <3>2, <3>3, CachePromoted
  <2>2. CASE hits = {}
    <3>1. c.id \notin ToSet(cache)
      BY <1>5, <2>2 DEF ToSet
    <3>2. cache' = Inserted(cache, c.id) /\ reads' = reads + 1
      BY <1>1, <2>2
    <3> QED BY <1>3, <1>5, <3>1, <3>2, CacheInserted
  <2> QED BY <2>1, <2>2
<1>7. Restored(c, cache'[1]) = View(c)
  BY <1>5, <1>6 DEF Restored, View
<1>8. Stream' /\ AreaInv' /\ CacheInv' /\ Popped' = Popped + 1
  BY <1>1, <1>2, <1>6, <1>7, PassedStep
<1>9. WindowInv'
  <2>1. config' = config
    BY <1>2, PopsOne
  <2> QED BY <1>1, <1>2, <2>1 DEF WindowInv
<1> QED BY <1>8, <1>9 DEF IInv

-----------------------------------------------------------------------------
(* The optimal cache.                                                      *)

\* The next chunk is an access unless it is in the container of the chunk before
\* it.
LEMMA NextChunk ==
  ASSUME NEW A, NEW n \in Nat, Chunks(A) \in SUBSET Nat, n + 1 \in Chunks(A),
         \A q \in Chunks(A) : 1 <= q, NEW id, LastChunk(A, n, id), A[n + 1].id # TEMPORARY_ID
  PROVE  /\ n + 1 \in Accesses(A) <=> A[n + 1].id # id
         /\ LastChunk(A, n + 1, A[n + 1].id)
<1>1. \A q \in Chunks(A) : q \in Nat /\ (q < n + 1 <=> q \in 1..n)
  OBVIOUS
<1>2. ASSUME A[n + 1].id = id PROVE n + 1 \notin Accesses(A)
  <2>1. PICK q \in Chunks(A) \cap 1..n : id = A[q].id /\ \A m \in Chunks(A) \cap 1..n : m <= q
    BY <1>2 DEF LastChunk
  <2>2. q < n + 1 /\ A[q].id = A[n + 1].id /\ ~ \E m \in Chunks(A) : q < m /\ m < n + 1
    <3>1. \A m \in Chunks(A) : m < n + 1 => m <= q
      BY <1>1, <2>1
    <3> QED BY <1>1, <1>2, <2>1, <3>1
  <2>3. PICK k \in Chunks(A) : k = n + 1
    OBVIOUS
  <2>4. q \in Chunks(A) /\ q < k /\ A[q].id = A[k].id /\ ~ \E m \in Chunks(A) : q < m /\ m < k
    BY <2>1, <2>2, <2>3
  <2>5. k \notin Accesses(A)
    BY <2>4, Zenon DEF Accesses
  <2> QED BY <2>3, <2>5
<1>3. ASSUME A[n + 1].id # id PROVE n + 1 \in Accesses(A)
  <2>1. ASSUME NEW p \in Chunks(A), p < n + 1, A[p].id = A[n + 1].id
        PROVE  \E m \in Chunks(A) : p < m /\ m < n + 1
    <3>1. p \in Chunks(A) \cap 1..n
      BY <1>1, <2>1
    <3>2. PICK q \in Chunks(A) \cap 1..n : id = A[q].id /\ \A m \in Chunks(A) \cap 1..n : m <= q
      BY <3>1 DEF LastChunk
    <3>3. p # q /\ p <= q
      BY <1>3, <2>1, <3>1, <3>2
    <3>4. p < q /\ q < n + 1
      BY <1>1, <3>2, <3>3
    <3> QED BY <3>2, <3>4
  <2>2. PICK k \in Chunks(A) : k = n + 1
    OBVIOUS
  <2>3. \A p \in Chunks(A) : p < k /\ A[p].id = A[k].id => \E m \in Chunks(A) : p < m /\ m < k
    BY <2>1, <2>2
  <2>4. k \in Accesses(A)
    BY <2>3, Zenon DEF Accesses
  <2> QED BY <2>2, <2>4
<1>4. LastChunk(A, n + 1, A[n + 1].id)
  <2>1. n + 1 \in Chunks(A) \cap 1..(n + 1)
    BY <1>1
  <2>2. \A m \in Chunks(A) \cap 1..(n + 1) : m <= n + 1
    BY <1>1
  <2> QED BY <2>1, <2>2 DEF LastChunk
<1> QED BY <1>2, <1>3, <1>4

\* The window when it is filled has the records read as well.
LEMMA WindowFilled ==
  ASSUME NEW t, NEW lo \in Nat, NEW s \in Nat, NEW k \in Nat, lo <= s + 1, s + k <= Len(records),
         Len(records) \in Nat, \A p \in 1..Len(records) : records[p] \in Ids \cup {TEMPORARY_ID},
         Window(t, lo, s)
  PROVE  /\ Window(FillTable(t, s, k), lo, s + k)
         /\ DOMAIN t \subseteq DOMAIN FillTable(t, s, k)
<1> DEFINE D == DOMAIN t \cup {records[p] : p \in s + 1..s + k}
           u == FillTable(t, s, k)
<1>1. u = [id \in D |-> SeqnosOf(t, id) \cup {p \in s + 1..s + k : records[p] = id}]
  BY DEF FillTable
<1>2. DOMAIN u = D
  BY <1>1
<1>3. D \subseteq Ids \cup {TEMPORARY_ID}
  <2>1. \A p \in s + 1..s + k : p \in 1..Len(records)
    OBVIOUS
  <2> QED BY <2>1 DEF Window
<1>4. \A p \in Int : p \in lo..s + k <=> p \in lo..s \/ p \in s + 1..s + k
  OBVIOUS
<1>5. ASSUME NEW id \in D PROVE SeqnosOf(t, id) = {p \in lo..s : records[p] = id}
  <2>1. CASE id \in DOMAIN t
    BY <2>1 DEF SeqnosOf, Window
  <2>2. CASE id \notin DOMAIN t
    <3>1. \A p \in lo..s : records[p] # id
      BY <2>2 DEF Window
    <3> QED BY <2>2, <3>1 DEF SeqnosOf
  <2> QED BY <2>1, <2>2
<1>6. ASSUME NEW id \in D PROVE u[id] = {p \in lo..s + k : records[p] = id}
  <2>1. u[id] = {p \in lo..s : records[p] = id} \cup {p \in s + 1..s + k : records[p] = id}
    BY <1>1, <1>5
  <2> QED BY <1>4, <2>1
<1>7. ASSUME NEW p \in lo..s + k PROVE records[p] \in D
  BY <1>4 DEF Window
<1> HIDE DEF u
<1>8. u = [id \in DOMAIN u |-> {p \in lo..s + k : records[p] = id}]
  <2>1. u = [id \in D |-> u[id]]
    BY <1>1
  <2> HIDE DEF D
  <2> QED BY <1>2, <1>6, <2>1
<1>9. DOMAIN t \subseteq DOMAIN u
  BY <1>2
<1> HIDE DEF D
<1>10. Window(u, lo, s + k)
  BY <1>2, <1>3, <1>7, <1>8 DEF Window
<1> QED BY <1>9, <1>10 DEF u

\* The access that is made is the first of the window, and leaves it.
LEMMA WindowUsed ==
  ASSUME NEW t, NEW lo \in Nat, NEW hi \in Nat, lo <= hi, Window(t, lo, hi), NEW id, records[lo] = id
  PROVE  /\ id \in DOMAIN t
         /\ LET u == [t EXCEPT ![id] = IF @ = {} THEN @ ELSE @ \ {Min(@)}] IN
            Window(u, lo + 1, hi) /\ DOMAIN u = DOMAIN t
<1> DEFINE u == [t EXCEPT ![id] = IF @ = {} THEN @ ELSE @ \ {Min(@)}]
           P(x) == {p \in lo..hi : records[p] = x}
           Q(x) == {p \in lo + 1..hi : records[p] = x}
<1>1. /\ DOMAIN t \subseteq Ids \cup {TEMPORARY_ID}
      /\ t = [x \in DOMAIN t |-> P(x)]
      /\ \A p \in lo..hi : records[p] \in DOMAIN t
  BY DEF Window
<1>2. id \in DOMAIN t /\ lo \in lo..hi
  BY <1>1
<1>3. t[id] = P(id) /\ \A x \in DOMAIN t : t[x] = P(x)
  BY <1>1, <1>2
<1>4. lo \in P(id) /\ P(id) \in SUBSET Nat /\ \A p \in P(id) : lo <= p
  BY <1>2
<1>5. Min(P(id)) = lo
  <2>1. Min(P(id)) \in P(id) /\ \A y \in P(id) : Min(P(id)) <= y
    <3> HIDE DEF P
    <3> QED BY <1>4, MinIs
  <2> HIDE DEF P
  <2>2. Min(P(id)) <= lo /\ lo <= Min(P(id)) /\ Min(P(id)) \in Nat
    BY <1>4, <2>1
  <2> QED BY <2>2
<1>6. \A p \in Int : p \in lo + 1..hi <=> p \in lo..hi /\ p # lo
  OBVIOUS
<1>7. u[id] = Q(id)
  <2>1. u[id] = P(id) \ {lo}
    <3> HIDE DEF P
    <3> QED BY <1>2, <1>3, <1>4, <1>5
  <2> QED BY <1>6, <2>1
<1>8. ASSUME NEW x \in DOMAIN t, x # id PROVE u[x] = Q(x)
  <2>1. u[x] = P(x)
    BY <1>3, <1>8
  <2>2. records[lo] # x
    BY <1>8
  <2> QED BY <1>6, <2>1, <2>2
<1>9. DOMAIN u = DOMAIN t /\ \A x \in DOMAIN t : u[x] = Q(x)
  BY <1>7, <1>8
<1>10. u = [x \in DOMAIN u |-> Q(x)]
  <2>1. u = [x \in DOMAIN u |-> u[x]]
    OBVIOUS
  <2> HIDE DEF u, Q
  <2> QED BY <1>9, <2>1
<1> HIDE DEF u
<1>11. \A p \in lo + 1..hi : records[p] \in DOMAIN u
  BY <1>1, <1>6, <1>9
<1>12. Window(u, lo + 1, hi)
  BY <1>1, <1>9, <1>10, <1>11 DEF Window
<1> QED BY <1>2, <1>9, <1>12 DEF u

\* A record without accesses may go.
LEMMA WindowDropped ==
  ASSUME NEW t, NEW lo, NEW hi, Window(t, lo, hi), NEW kicked
  PROVE  LET u == [x \in DOMAIN t \ {y \in {kicked} : t[y] = {}} |-> t[x]] IN
         Window(u, lo, hi) /\ DOMAIN t \ {kicked} \subseteq DOMAIN u
<1> DEFINE D == DOMAIN t \ {y \in {kicked} : t[y] = {}}
           u == [x \in D |-> t[x]]
<1>1. DOMAIN u = D /\ DOMAIN t \ {kicked} \subseteq D /\ D \subseteq DOMAIN t
  OBVIOUS
<1>2. \A x \in D : u[x] = {p \in lo..hi : records[p] = x}
  BY DEF Window
<1>3. u = [x \in DOMAIN u |-> {p \in lo..hi : records[p] = x}]
  BY <1>2
<1>4. ASSUME NEW p \in lo..hi PROVE records[p] \in D
  <2>1. records[p] \in DOMAIN t /\ t[records[p]] = {q \in lo..hi : records[q] = records[p]}
    BY DEF Window
  <2>2. p \in t[records[p]]
    BY <2>1
  <2> QED BY <2>1, <2>2
<1> HIDE DEF u, D
<1>5. Window(u, lo, hi)
  BY <1>1, <1>3, <1>4 DEF Window
<1> QED BY <1>1, <1>5 DEF u, D

\* What may be kicked is in the cache, and something may be.
LEMMA KickableIs ==
  ASSUME NEW t, NEW lo \in Nat, NEW hi \in Nat, Window(t, lo, hi),
         cache \in Seq(Ids), cache # <<>>, ToSet(cache) \subseteq DOMAIN t,
         NEW kickable \in Kickable(t)
  PROVE  kickable # {} /\ kickable \subseteq ToSet(cache)
<1> DEFINE cached == ToSet(cache)
           unused == {id \in cached : t[id] = {}}
<1>1. Len(cache) \in Nat /\ Len(cache) # 0 /\ DOMAIN cache = 1..Len(cache)
  OBVIOUS
<1>2. IsFiniteSet(cached) /\ cached # {}
  <2>1. cache[1] \in cached /\ cached = {cache[i] : i \in 1..Len(cache)}
    BY <1>1 DEF ToSet
  <2>2. IsFiniteSet(1..Len(cache))
    BY <1>1, FS_Interval
  <2> DEFINE f == [i \in 1..Len(cache) |-> cache[i]]
  <2>3. f \in Surjection(1..Len(cache), cached)
    BY <2>1 DEF Surjection
  <2>4. IsFiniteSet(cached)
    <3> HIDE DEF f, cached
    <3> QED BY <2>2, <2>3, FS_Surjection
  <2> QED BY <2>1, <2>4
<1>3. \A id \in cached : t[id] \in SUBSET (lo..hi)
  BY DEF Window
<1>4. CASE unused # {}
  <2>1. kickable \in kSubset(Min({11, Cardinality(unused)}), unused)
    BY <1>4 DEF Kickable
  <2>2. Cardinality(unused) \in Nat /\ Cardinality(unused) # 0
    <3>1. unused \in SUBSET cached
      OBVIOUS
    <3> HIDE DEF unused, cached
    <3>2. IsFiniteSet(unused)
      BY <1>2, <3>1, FS_Subset
    <3> QED BY <1>4, <3>2, FS_EmptySet, FS_CardinalityType
  <2>3. Min({11, Cardinality(unused)}) \in {11, Cardinality(unused)}
    <3> DEFINE S == {11, Cardinality(unused)}
    <3>1. S \in SUBSET Nat /\ S # {}
      BY <2>2
    <3> HIDE DEF S
    <3>2. Min(S) \in S
      BY <3>1, MinIs
    <3> QED BY <3>2 DEF S
  <2>4. kickable \subseteq unused /\ Cardinality(kickable) # 0
    <3>1. kickable \subseteq unused /\ Cardinality(kickable) = Min({11, Cardinality(unused)})
      BY <2>1 DEF kSubset
    <3> HIDE DEF unused
    <3> QED BY <2>2, <2>3, <3>1
  <2>5. kickable # {}
    BY <2>4, FS_EmptySet
  <2> QED BY <2>4, <2>5
<1>5. CASE unused = {}
  <2>1. kickable = {id \in cached : \A other \in cached : Min(t[other]) <= Min(t[id])}
    BY <1>5 DEF Kickable
  <2>2. ASSUME NEW id \in cached PROVE Min(t[id]) \in 0..hi
    <3>1. t[id] # {} /\ t[id] \in SUBSET Nat /\ t[id] \in SUBSET (lo..hi)
      BY <1>3, <1>5
    <3>2. Min(t[id]) \in t[id]
      BY <3>1, MinIs
    <3> QED BY <3>1, <3>2
  <2> DEFINE Z == {Min(t[id]) : id \in cached}
  <2>3. PICK z \in Z : \A y \in Z : y <= z
    <3>1. Z \in SUBSET (0..hi) /\ Z # {}
      <4> HIDE DEF cached
      <4> QED BY <1>2, <2>2
    <3> HIDE DEF Z
    <3> QED BY <3>1, MaxIs
  <2>4. PICK id \in cached : z = Min(t[id])
    BY <2>3
  <2>5. id \in kickable
    <3> HIDE DEF cached
    <3> QED BY <2>1, <2>3, <2>4
  <2> QED BY <2>1, <2>5
<1> QED BY <1>4, <1>5

\* An access leaves its container in front, and the records as they are.
LEMMA OptAccessStep ==
  ASSUME NEW t, NEW lo \in Nat, NEW hi \in Nat, Window(t, lo, hi), NEW id \in Ids, id \in DOMAIN t,
         cache \in Seq(Ids), Len(cache) <= CacheSize, IsInjective(cache), ToSet(cache) \subseteq DOMAIN t,
         OptAccess(id, t)
  PROVE  /\ cache' \in Seq(Ids) /\ Len(cache') <= CacheSize /\ IsInjective(cache')
         /\ cache' # <<>> /\ cache'[1] = id
         /\ ToSet(cache') \subseteq DOMAIN table' /\ Window(table', lo, hi)
         /\ reads' = reads \/ reads' = reads + 1
         /\ (cache # <<>> /\ cache[1] = id) => reads' = reads
<1>1. Len(cache) \in Nat /\ DOMAIN cache = 1..Len(cache) /\ CacheSize \in Nat /\ CacheSize # 0
  BY RestoreAssumption
<1>2. CASE \E i \in DOMAIN cache : cache[i] = id
  <2> DEFINE hits == {i \in DOMAIN cache : cache[i] = id}
  <2>1. Min(hits) \in hits
    <3>1. hits \in SUBSET Nat /\ hits # {}
      BY <1>1, <1>2
    <3> HIDE DEF hits
    <3> QED BY <3>1, MinIs
  <2>2. PICK i \in 1..Len(cache) : i = Min(hits) /\ cache[i] = id
    BY <1>1, <2>1
  <2>3. cache' = Promoted(i) /\ table' = t /\ reads' = reads
    BY <1>2, <2>2 DEF OptAccess
  <2>4. /\ cache' \in Seq(Ids) /\ Len(cache') = Len(cache) /\ cache'[1] = id
        /\ IsInjective(cache') /\ ToSet(cache') = ToSet(cache)
    BY <2>2, <2>3, CachePromoted
  <2>5. cache' # <<>>
    BY <1>1, <1>2, <2>4
  <2> QED BY <2>3, <2>4, <2>5
<1>3. CASE ~ \E i \in DOMAIN cache : cache[i] = id
  <2>1. OptInsert(id, t) /\ id \notin ToSet(cache) /\ reads' = reads + 1
    BY <1>3 DEF OptAccess, OptInsert, ToSet
  <2>2. ~(cache # <<>> /\ cache[1] = id)
    <3>1. cache # <<>> => 1 \in DOMAIN cache
      BY <1>1
    <3> QED BY <1>3, <3>1
  <2>3. CASE Len(cache) < CacheSize
    <3>1. cache' = Inserted(cache, id) /\ table' = t
      BY <2>1, <2>3 DEF OptInsert
    <3>2. /\ cache' \in Seq(Ids) /\ Len(cache') <= CacheSize /\ cache'[1] = id /\ cache' # <<>>
          /\ IsInjective(cache') /\ ToSet(cache') \subseteq ToSet(cache) \cup {id}
      BY <2>1, <3>1, CacheInserted
    <3> QED BY <2>1, <2>2, <3>1, <3>2
  <2>4. CASE ~(Len(cache) < CacheSize)
    <3>1. PICK kickable \in Kickable(t) :
            /\ cache' = Inserted(RemoveAt(cache, KickedAt(kickable)), id)
            /\ table' = [x \in DOMAIN t \ {y \in {cache[KickedAt(kickable)]} : t[y] = {}} |-> t[x]]
      BY <2>1, <2>4 DEF OptInsert
    <3>2. kickable # {} /\ kickable \subseteq ToSet(cache)
      <4>1. cache # <<>>
        BY <1>1, <2>4
      <4> QED BY <4>1, KickableIs
    <3>3. PICK at \in 1..Len(cache) : at = KickedAt(kickable)
      <4> DEFINE K == {i \in DOMAIN cache : cache[i] \in kickable}
      <4>1. K \in SUBSET (0..Len(cache)) /\ K # {}
        BY <1>1, <3>2 DEF ToSet
      <4>2. Max(K) \in K
        <5> HIDE DEF K
        <5> QED BY <1>1, <4>1, MaxIs
      <4> QED BY <1>1, <4>2 DEF KickedAt
    <3>4. PICK kicked : kicked = cache[at]
      OBVIOUS
    <3>5. PICK r \in Seq(Ids) :
            /\ r = RemoveAt(cache, at) /\ Len(r) = Len(cache) - 1 /\ IsInjective(r)
            /\ ToSet(r) = ToSet(cache) \ {kicked}
      BY <3>4, CacheRemoval
    <3>6. Len(r) <= CacheSize /\ id \notin ToSet(r)
      BY <1>1, <2>1, <3>5
    <3>7. /\ cache' = Inserted(r, id)
          /\ table' = [x \in DOMAIN t \ {y \in {kicked} : t[y] = {}} |-> t[x]]
      BY <3>1, <3>3, <3>4, <3>5
    <3>8. /\ cache' \in Seq(Ids) /\ Len(cache') <= CacheSize /\ cache'[1] = id /\ cache' # <<>>
          /\ IsInjective(cache') /\ ToSet(cache') \subseteq ToSet(r) \cup {id}
      BY <3>5, <3>6, <3>7, CacheInserted
    <3>9. Window(table', lo, hi) /\ DOMAIN t \ {kicked} \subseteq DOMAIN table'
      BY <3>7, WindowDropped
    <3>10. id # kicked
      BY <1>1, <1>3, <3>4
    <3>11. ToSet(cache') \subseteq DOMAIN table'
      BY <3>5, <3>8, <3>9, <3>10
    <3> QED BY <2>1, <2>2, <3>8, <3>9, <3>11
  <2> QED BY <2>3, <2>4
<1> QED BY <1>2, <1>3

\* How many records are read next.
LEMMA FillSizeIs ==
  ASSUME NEW s \in Nat, NEW b \in Nat, b <= config.window, config.window \in Nat,
         Len(records) \in Nat, s <= Len(records)
  PROVE  /\ FillSize(s, b) \in Nat /\ FillSize(s, b) <= config.window - b
         /\ s + FillSize(s, b) <= Len(records)
         /\ b < config.window /\ s < Len(records) => FillSize(s, b) # 0
<1> DEFINE x == config.window - b
           y == Len(records) - s
           S == {x, y}
<1>1. x \in Nat /\ y \in Nat
  OBVIOUS
<1>2. S \in SUBSET Nat /\ S # {} /\ x \in S /\ y \in S
  BY <1>1
<1>3. FillSize(s, b) = Min(S)
  BY DEF FillSize
<1>4. Min(S) \in S /\ Min(S) <= x /\ Min(S) <= y
  <2> HIDE DEF S
  <2> QED BY <1>2, MinIs
<1>5. FillSize(s, b) = x \/ FillSize(s, b) = y
  BY <1>3, <1>4
<1> QED BY <1>1, <1>3, <1>4, <1>5

\* The accesses and the records of the backup go together.
LEMMA BackupIs ==
  ASSUME Stream
  PROVE  /\ config.window \in Nat /\ config.window # 0
         /\ Len(records) \in Nat /\ Cardinality(Accesses(All)) \in Nat
         /\ Len(records) = Cardinality(Accesses(All)) + 1
         /\ \A p \in 1..Len(records) : records[p] \in Ids \cup {TEMPORARY_ID}
         /\ \A q \in Accesses(All) : /\ Upto(Accesses(All), q) \in 1..Cardinality(Accesses(All))
                                     /\ records[Upto(Accesses(All), q)] = All[q].id
<1>1. config \in Configs /\ recipe \in Recipes /\ records = Records(recipe)
  BY DEF Stream, BackupInv
<1>2. config.window \in Nat /\ config.window # 0
  BY <1>1, RestoreAssumption
<1> QED BY <1>1, <1>2, RecordsAre DEF All

\* optimal_restore_thread passes on the chunk it was asked for, and its window
\* goes with it: the assertion of optimal_cache_window_slides does not fail.
LEMMA OptRestoreStep ==
  ASSUME IInv, NEW c, Pops(c), OptRestore(c)
  PROVE  IInv'
<1> DEFINE s == sequence_number
           b == buffered
           k == IF 2 * b <= config.window THEN FillSize(s, b) ELSE 0
           t == FillTable(table, s, k)
           S == Accesses(All)
           n == Upto(S, Popped)
<1>1. /\ config.cache = "opt" /\ ~IsMark(c) /\ last_id' = c.id
      /\ c.id = last_id =>
           /\ OptAccess(c.id, table) /\ out' = <<Restored(c, cache'[1])>>
           /\ UNCHANGED <<sequence_number, buffered, status>>
      /\ c.id # last_id /\ c.id \in DOMAIN t =>
           /\ OptAccess(c.id, [t EXCEPT ![c.id] = IF @ = {} THEN @ ELSE @ \ {Min(@)}])
           /\ out' = <<Restored(c, cache'[1])>>
           /\ sequence_number' = s + k /\ buffered' = b + k - 1
           /\ UNCHANGED status
      /\ area' = area /\ size' = size
  BY DEF OptRestore, areaVars
<1> HIDE DEF k, t
<1>2. Stream /\ AreaInv /\ CacheInv /\ WindowInv
  BY DEF IInv
<1>3. cache \in Seq(Ids) /\ Len(cache) <= CacheSize /\ IsInjective(cache)
  BY <1>2 DEF CacheInv
<1>4. /\ s \in 0..Len(records) /\ b \in 0..config.window
      /\ s = b + n
      /\ Window(table, s - b + 1, s)
      /\ ToSet(cache) \subseteq DOMAIN table
      /\ LastChunk(All, Popped, last_id)
      /\ last_id # TEMPORARY_ID => cache # <<>> /\ cache[1] = last_id
  BY <1>1, <1>2 DEF WindowInv
<1>5. c.id \in Ids /\ c.fp \in Contents[c.id] /\ c.kind = "chunk" /\ c.id # TEMPORARY_ID
  <2>1. c.id \in Ids /\ c.fp \in Contents[c.id] /\ c.kind = "chunk"
    BY <1>1, <1>2, PopsNext, PieceIs DEF IsMark
  <2>2. TEMPORARY_ID \notin Ids
    BY RestoreAssumption DEF TEMPORARY_ID
  <2> QED BY <2>1, <2>2
<1>6. /\ All' = All /\ records' = records /\ config' = config /\ Popped \in Nat
      /\ c = All[Popped + 1] /\ Popped + 1 \in Chunks(All)
      /\ Chunks(All) \in SUBSET (1..Len(All)) /\ Chunks(All) \in SUBSET Nat
      /\ S \in SUBSET Nat
  BY <1>1, <1>2, PopsOne
<1>7. (Popped + 1 \in S <=> c.id # last_id) /\ LastChunk(All, Popped + 1, c.id)
  <2>1. \A q \in Chunks(All) : 1 <= q
    BY <1>6
  <2> QED BY <1>4, <1>5, <1>6, <2>1, NextChunk
<1>8. n \in Nat /\ Upto(S, Popped + 1) = n + (IF Popped + 1 \in S THEN 1 ELSE 0)
  BY <1>6, UptoStep, Zenon
<1>9. /\ config.window \in Nat /\ config.window # 0 /\ Len(records) \in Nat
      /\ Cardinality(S) \in Nat /\ Len(records) = Cardinality(S) + 1
      /\ \A p \in 1..Len(records) : records[p] \in Ids \cup {TEMPORARY_ID}
      /\ \A q \in S : Upto(S, q) \in 1..Cardinality(S) /\ records[Upto(S, q)] = All[q].id
  BY <1>2, BackupIs
<1> HIDE DEF S, n
<1>10. s \in Nat /\ b \in Nat /\ s <= Len(records) /\ b <= config.window /\ s - b + 1 = n + 1
       /\ n + 1 \in Nat /\ n + 1 <= s + 1
  BY <1>4, <1>8, <1>9
<1>11. /\ cache' \in Seq(Ids) /\ Len(cache') <= CacheSize /\ IsInjective(cache')
       /\ cache' # <<>> /\ cache'[1] = c.id /\ ToSet(cache') \subseteq DOMAIN table'
       /\ out' = <<Restored(c, cache'[1])>> /\ status' = status
       /\ reads' = reads \/ reads' = reads + 1
       /\ sequence_number' \in 0..Len(records) /\ buffered' \in 0..config.window
       /\ sequence_number' = buffered' + Upto(S, Popped + 1)
       /\ Window(table', sequence_number' - buffered' + 1, sequence_number')
  <2>1. CASE c.id = last_id
    <3>1. OptAccess(c.id, table) /\ Window(table, n + 1, s)
      BY <1>1, <1>4, <1>10, <2>1
    <3>2. c.id \in DOMAIN table
      <4>1. 1 \in DOMAIN cache /\ cache[1] = c.id
        BY <1>3, <1>4, <1>5, <2>1
      <4> QED BY <1>4, <4>1 DEF ToSet
    <3>3. /\ cache' \in Seq(Ids) /\ Len(cache') <= CacheSize /\ IsInjective(cache')
          /\ cache' # <<>> /\ cache'[1] = c.id
          /\ ToSet(cache') \subseteq DOMAIN table' /\ Window(table', n + 1, s)
          /\ reads' = reads \/ reads' = reads + 1
      BY <1>3, <1>4, <1>5, <1>10, <3>1, <3>2, OptAccessStep
    <3>4. sequence_number' = s /\ buffered' = b /\ Upto(S, Popped + 1) = n
      BY <1>1, <1>7, <1>8, <2>1
    <3>5. /\ sequence_number' \in 0..Len(records) /\ buffered' \in 0..config.window
          /\ sequence_number' = buffered' + Upto(S, Popped + 1)
          /\ sequence_number' - buffered' + 1 = n + 1
      BY <1>4, <1>10, <3>4
    <3> QED BY <1>1, <2>1, <3>3, <3>4, <3>5
  <2>2. CASE c.id # last_id
    <3>1. Popped + 1 \in S /\ Upto(S, Popped + 1) = n + 1
      BY <1>7, <1>8, <2>2
    <3>2. n + 1 <= Cardinality(S) /\ records[n + 1] = c.id
      <4>1. PICK q \in S : q = Popped + 1
        BY <3>1
      <4>2. Upto(S, q) \in 1..Cardinality(S) /\ records[Upto(S, q)] = All[q].id
        BY <1>9
      <4>3. Upto(S, q) = n + 1 /\ All[q] = c
        BY <1>6, <3>1, <4>1
      <4> QED BY <1>9, <4>2, <4>3
    <3>3. k \in Nat /\ s + k <= Len(records) /\ b + k <= config.window /\ n + 1 <= s + k
      <4>1. /\ FillSize(s, b) \in Nat /\ FillSize(s, b) <= config.window - b
            /\ s + FillSize(s, b) <= Len(records)
            /\ b < config.window /\ s < Len(records) => FillSize(s, b) # 0
        BY <1>9, <1>10, FillSizeIs
      <4>2. k \in Nat /\ s + k <= Len(records) /\ b + k <= config.window
        <5>1. k = FillSize(s, b) \/ k = 0
          BY DEF k
        <5> QED BY <1>9, <1>10, <4>1, <5>1, SMTT(60)
      <4>3. CASE b = 0
        <5>1. s = n /\ s < Len(records) /\ b < config.window
          BY <1>4, <1>8, <1>9, <1>10, <3>2, <4>3
        <5>2. k = FillSize(s, b)
          BY <1>9, <4>3 DEF k
        <5> QED BY <1>8, <4>1, <4>2, <5>1, <5>2
      <4>4. CASE b # 0
        BY <1>4, <1>8, <1>10, <4>2, <4>4
      <4> QED BY <4>2, <4>3, <4>4
    <3>4. /\ Window(t, n + 1, s + k) /\ DOMAIN table \subseteq DOMAIN t
      <4>1. Window(table, n + 1, s)
        BY <1>4, <1>10
      <4> QED BY <1>9, <1>10, <3>3, <4>1, WindowFilled DEF t
    <3>5. PICK u : u = [t EXCEPT ![c.id] = IF @ = {} THEN @ ELSE @ \ {Min(@)}]
      OBVIOUS
    <3>6. s + k \in Nat
      BY <1>10, <3>3
    <3>7. c.id \in DOMAIN t /\ Window(u, (n + 1) + 1, s + k) /\ DOMAIN u = DOMAIN t
      BY <1>10, <3>2, <3>3, <3>4, <3>5, <3>6, WindowUsed
    <3>8. /\ OptAccess(c.id, u) /\ out' = <<Restored(c, cache'[1])>>
          /\ sequence_number' = s + k /\ buffered' = b + k - 1 /\ status' = status
      BY <1>1, <2>2, <3>5, <3>7
    <3>9. (n + 1) + 1 \in Nat /\ ToSet(cache) \subseteq DOMAIN u
      BY <1>4, <1>8, <3>4, <3>7
    <3>10. /\ cache' \in Seq(Ids) /\ Len(cache') <= CacheSize /\ IsInjective(cache')
           /\ cache' # <<>> /\ cache'[1] = c.id
           /\ ToSet(cache') \subseteq DOMAIN table' /\ Window(table', (n + 1) + 1, s + k)
           /\ reads' = reads \/ reads' = reads + 1
      BY <1>3, <1>5, <3>6, <3>7, <3>8, <3>9, OptAccessStep
    <3>11. /\ sequence_number' \in 0..Len(records) /\ buffered' \in 0..config.window
           /\ sequence_number' = buffered' + Upto(S, Popped + 1)
           /\ sequence_number' - buffered' + 1 = (n + 1) + 1
      BY <1>4, <1>8, <1>9, <1>10, <3>1, <3>3, <3>8
    <3> QED BY <3>8, <3>10, <3>11
  <2> QED BY <2>1, <2>2
<1>12. Restored(c, cache'[1]) = View(c)
  BY <1>5, <1>11 DEF Restored, View
<1>13. Stream' /\ AreaInv' /\ CacheInv' /\ Popped' = Popped + 1
  BY <1>1, <1>2, <1>11, <1>12, PassedStep
<1>14. WindowInv'
  <2>1. Window(table, sequence_number - buffered + 1, sequence_number)'
    BY <1>6, <1>11 DEF Window
  <2> QED BY <1>1, <1>5, <1>6, <1>7, <1>11, <1>13, <2>1 DEF WindowInv, S
<1> QED BY <1>13, <1>14 DEF IInv

-----------------------------------------------------------------------------
(* The invariant.                                                          *)

\* It holds when the job begins.
LEMMA InitInvariant == Init => IInv
<1> SUFFICES ASSUME Init PROVE IInv
  OBVIOUS
<1>1. /\ config \in Configs /\ recipe \in Recipes /\ records = Records(recipe)
      /\ source = Source(recipe) /\ file = 1 /\ next = 0
      /\ restore_recipe_queue = <<>> /\ restore_chunk_queue = <<>> /\ terminated = {}
      /\ cache = <<>> /\ reads = 0 /\ last_id = TEMPORARY_ID
      /\ area = <<>> /\ size = 0 /\ out = <<>> /\ written = <<>> /\ status = "running"
  BY DEF Init
<1>2. Sent = 0 /\ Taken = 0 /\ Popped = 0 /\ Fetched = 0
  BY <1>1 DEF Sent, Taken, Popped, Fetched
<1>3. QueueSize \in Nat /\ CacheSize \in Nat
  BY RestoreAssumption
<1>4. Stream
  <2>1. BackupInv
    BY <1>1 DEF BackupInv
  <2>2. ReaderInv
    <3>1. Len(recipe) \in Nat /\ Len(recipe) # 0 /\ Len(recipe[1]) \in Nat
      <4>1. Len(recipe) \in Nat /\ Len(recipe) # 0 /\ \A i \in 1..Len(recipe) : Len(recipe[i]) \in Nat
        BY <1>1, RecipeIs
      <4>2. 1 \in 1..Len(recipe)
        BY <4>1
      <4> QED BY <4>1, <4>2
    <3>2. PICK off : Offsets(recipe, off)
      BY <1>1, ItemsAre
    <3>3. Fetched = off[file - 1] + next
      <4>1. off[0] = 0 /\ file - 1 = 0
        BY <1>1, <3>2 DEF Offsets
      <4> QED BY <1>1, <1>2, <4>1
    <3>4. file \in 1..Len(recipe) + 1 /\ file <= Len(recipe) /\ next <= Len(recipe[file]) + 1
      BY <1>1, <3>1
    <3> QED BY <1>1, <3>2, <3>3, <3>4 DEF ReaderInv
  <2>3. QueueInv
    BY <1>1, <1>3 DEF QueueInv
  <2>4. EndInv
    BY <1>1 DEF EndInv
  <2>5. Matches
    BY <1>1 DEF Matches, Stretch, AreaStretch
  <2> QED BY <2>1, <2>2, <2>3, <2>4, <2>5 DEF Stream
<1>5. AreaInv
  <2>1. SizeOfAll(<<>>) = 0
    <3>1. Steps(Sizes(<<>>), Len(<<>>), [i \in 0..0 |-> 0]) /\ Len(<<>>) = 0
      BY DEF Steps
    <3> DEFINE g == [i \in 0..0 |-> 0]
    <3>2. g[0] = 0
      OBVIOUS
    <3> HIDE DEF g
    <3>3. SizeOfAll(<<>>) = g[Len(<<>>)]
      BY <3>1, SizeIsSum DEF g
    <3> QED BY <3>1, <3>2, <3>3
  <2>2. Cardinality(Chunks(area)) = 0
    <3>1. Chunks(area) = {}
      BY <1>1 DEF Chunks
    <3> QED BY <3>1, FS_EmptySet
  <2> QED BY <1>1, <2>1, <2>2 DEF AreaInv, AreaBounded
<1>6. /\ All \in Seq(Piece) /\ Chunks(All) \in SUBSET (1..Len(All)) /\ Len(All) \in Nat
      /\ Accesses(All) \in SUBSET (1..Len(All))
  BY <1>1, ItemsAre, AccessesAre DEF All
<1>7. Upto(Chunks(All), 0) = 0 /\ Upto(Accesses(All), 0) = 0
  BY <1>6, UptoEnds
<1>8. ToSet(cache) = {} /\ IsInjective(cache)
  BY <1>1 DEF ToSet, IsInjective
<1>9. CacheInv
  BY <1>1, <1>2, <1>3, <1>7, <1>8 DEF CacheInv
<1>10. WindowInv
  <2>1. CASE config.cache = "opt"
    <3> DEFINE k == FillSize(0, 0)
    <3>1. table = FillTable(Nothing, 0, k) /\ sequence_number = k /\ buffered = k
      BY <2>1 DEF Init
    <3> HIDE DEF k
    <3>2. /\ config.window \in Nat /\ Len(records) \in Nat
          /\ \A p \in 1..Len(records) : records[p] \in Ids \cup {TEMPORARY_ID}
      BY <1>4, BackupIs
    <3>3. k \in Nat /\ k <= config.window /\ 0 + k <= Len(records)
      <4>1. /\ FillSize(0, 0) \in Nat /\ FillSize(0, 0) <= config.window - 0
            /\ 0 + FillSize(0, 0) <= Len(records)
        BY <3>2, FillSizeIs
      <4> QED BY <3>2, <4>1 DEF k
    <3>4. Window(Nothing, 1, 0)
      BY DEF Window, Nothing
    <3>5. Window(table, 1, 0 + k)
      <4>1. 1 \in Nat /\ 0 \in Nat /\ 1 <= 0 + 1
        OBVIOUS
      <4> QED BY <3>1, <3>2, <3>3, <3>4, <4>1, WindowFilled
    <3>6. sequence_number - buffered + 1 = 1 /\ sequence_number = 0 + k
      BY <3>1, <3>3
    <3>7. LastChunk(All, Popped, last_id)
      <4>1. 1..Popped = {}
        BY <1>2
      <4> QED BY <1>1, <4>1 DEF LastChunk
    <3>8. sequence_number = buffered + Upto(Accesses(All), Popped)
      BY <1>2, <1>7, <3>1, <3>3
    <3>9. sequence_number \in 0..Len(records) /\ buffered \in 0..config.window
      BY <3>1, <3>2, <3>3
    <3> QED BY <1>1, <1>8, <2>1, <3>5, <3>6, <3>7, <3>8, <3>9 DEF WindowInv
  <2>2. CASE config.cache # "opt"
    BY <1>1, <2>2 DEF WindowInv, Init
  <2> QED BY <2>1, <2>2
<1> QED BY <1>4, <1>5, <1>9, <1>10 DEF IInv

\* What the other threads and the end of the restore thread leave alone.
LEMMA OthersKeep ==
  ASSUME AreaInv, CacheInv, WindowInv, Popped' = Popped, Taken' = Taken,
         UNCHANGED <<config, recipe, records, cache, reads, table, sequence_number, buffered,
                     last_id, area, size>>
  PROVE  AreaInv' /\ CacheInv' /\ WindowInv'
<1>1. All' = All
  BY DEF All
<1>2. AreaInv'
  <2>1. AreaBounded'
    BY DEF AreaInv, AreaBounded, AreaSize
  <2> QED BY <2>1 DEF AreaInv
<1>3. CacheInv'
  BY <1>1 DEF CacheInv
<1>4. WindowInv'
  BY <1>1 DEF WindowInv, Window
<1> QED BY <1>2, <1>3, <1>4

\* Every step keeps it.
LEMMA NextInvariant == IInv /\ [Next]_vars => IInv'
<1> SUFFICES ASSUME IInv, [Next]_vars PROVE IInv'
  OBVIOUS
<1>1. Stream /\ AreaInv /\ CacheInv /\ WindowInv
  BY DEF IInv
<1>2. CASE ReadRecipe
  <2>1. UNCHANGED <<config, recipe, records, cache, reads, table, sequence_number, buffered,
                    last_id, area, size>>
    BY <1>2 DEF ReadRecipe, backup, optVars, areaVars
  <2> QED BY <1>1, <1>2, <2>1, StreamReadRecipe, OthersKeep DEF IInv
<1>3. CASE ReadRecipeEnd \/ RestoreEnd \/ WriteEnd
  <2>1. UNCHANGED <<config, recipe, records, cache, reads, table, sequence_number, buffered,
                    last_id, area, size>>
    BY <1>3 DEF ReadRecipeEnd, RestoreEnd, WriteEnd, backup, optVars, areaVars
  <2> QED BY <1>1, <1>3, <2>1, StreamEnds, OthersKeep DEF IInv
<1>4. CASE PushChunk
  <2>1. UNCHANGED <<config, recipe, records, cache, reads, table, sequence_number, buffered,
                    last_id, area, size>>
    BY <1>4 DEF PushChunk, backup, optVars, areaVars
  <2> QED BY <1>1, <1>4, <2>1, StreamPushChunk, OthersKeep DEF IInv
<1>5. CASE WriteChunk
  <2>1. UNCHANGED <<config, recipe, records, cache, reads, table, sequence_number, buffered,
                    last_id, area, size>>
    BY <1>5 DEF WriteChunk, backup, optVars, areaVars
  <2> QED BY <1>1, <1>5, <2>1, StreamWriteChunk, OthersKeep DEF IInv
<1>6. CASE RestoreNext
  <2>1. PICK c : /\ Pops(c)
                 /\ \/ config.cache # "asm" /\ PassMark(c)
                    \/ LruRestore(c) \/ OptRestore(c) \/ AsmRestore(c)
    BY <1>6 DEF RestoreNext
  <2>2. CASE config.cache # "asm" /\ PassMark(c)
    BY <2>1, <2>2, PassMarkStep
  <2>3. CASE LruRestore(c)
    BY <2>1, <2>3, LruRestoreStep
  <2>4. CASE OptRestore(c)
    BY <2>1, <2>4, OptRestoreStep
  <2>5. CASE AsmRestore(c)
    <3>1. Stream' /\ AreaInv' /\ CacheInv'
      BY <1>1, <2>1, <2>5, AsmRestoreStep
    <3>2. WindowInv'
      <4>1. /\ config.cache = "asm" /\ config' = config
            /\ UNCHANGED <<table, sequence_number, buffered, last_id>>
        BY <2>1, <2>5 DEF AsmRestore, Pops, backup, optVars
      <4> QED BY <1>1, <4>1 DEF WindowInv
    <3> QED BY <3>1, <3>2 DEF IInv
  <2> QED BY <2>1, <2>2, <2>3, <2>4, <2>5
<1>7. CASE AsmDrain
  <2>1. Stream' /\ AreaInv' /\ CacheInv'
    BY <1>1, <1>7, AsmDrainStep
  <2>2. WindowInv'
    <3>1. /\ config.cache = "asm" /\ config' = config
          /\ UNCHANGED <<table, sequence_number, buffered, last_id>>
      BY <1>7 DEF AsmDrain, backup, optVars
    <3> QED BY <1>1, <3>1 DEF WindowInv
  <2> QED BY <2>1, <2>2 DEF IInv
<1>8. CASE UNCHANGED vars
  <2>1. UNCHANGED <<config, source, recipe, records, file, next, restore_recipe_queue,
                    restore_chunk_queue, terminated, cache, reads, table, sequence_number, buffered,
                    last_id, area, size, out, written, status>>
    BY <1>8 DEF vars, backup, reader, optVars, areaVars
  <2>2. All' = All /\ Sent' = Sent /\ Taken' = Taken /\ Popped' = Popped /\ Fetched' = Fetched
    BY <2>1 DEF All, Sent, Taken, Popped, Fetched
  <2>3. BackupInv' /\ ReaderInv' /\ QueueInv' /\ EndInv' /\ Matches'
    BY <1>1, <2>1, <2>2 DEF Stream, BackupInv, ReaderInv, QueueInv, EndInv, Matches
  <2> QED BY <1>1, <2>1, <2>2, <2>3, OthersKeep DEF IInv, Stream
<1> QED BY <1>2, <1>3, <1>4, <1>5, <1>6, <1>7, <1>8
        DEF Next, RecipeThread, RestoreThread, WriteThread

\* The inductive invariant of a restore job: every queue, the area and what is
\* written hold the part of the backup that is theirs, and the window of the
\* optimal cache has just the accesses to come.
THEOREM RestoreInvariant == Spec => []IInv
<1> QED BY InitInvariant, NextInvariant, PTL DEF Spec

-----------------------------------------------------------------------------
(* What it means.                                                          *)

\* The access records keep in step with the recipe, whatever the window: the
\* assertion of optimal_cache_window_slides never fails, and no more containers
\* are read than there are chunks.
THEOREM AlwaysInStep == Spec => []InStep
<1>1. IInv => InStep
  <2> SUFFICES ASSUME IInv PROVE InStep
    OBVIOUS
  <2>1. Stream /\ AreaInv /\ CacheInv /\ WindowInv
    BY DEF IInv
  <2>2. BackupInv /\ ReaderInv /\ QueueInv /\ EndInv
    BY <2>1 DEF Stream
  <2>3. reads \in 0..Cardinality(Chunks(source))
    <3>1. /\ All \in Seq(Piece) /\ Len(All) \in Nat /\ Len(source) = Len(All)
          /\ \A q \in 1..Len(All) : source[q] = View(All[q])
      BY <2>2, AllIs
    <3>2. DOMAIN All = 1..Len(All)
      BY <3>1
    <3>3. DOMAIN source = DOMAIN All
      BY <2>2 DEF BackupInv, Source, All
    <3>4. Chunks(source) = Chunks(All)
      BY <3>1, <3>2, <3>3 DEF Chunks, IsMark, View
    <3>5. Chunks(All) \in SUBSET (1..Len(All)) /\ Chunks(All) \in SUBSET Nat
      BY <3>2 DEF Chunks
    <3>6. Upto(Chunks(All), Len(All)) = Cardinality(Chunks(All)) /\ Cardinality(Chunks(All)) \in Nat
      BY <3>1, <3>5, UptoEnds
    <3>7. Taken \in Nat /\ Taken <= Len(All)
      <4>1. /\ Taken \in Nat /\ Len(area) \in Nat /\ Len(restore_recipe_queue) \in Nat
            /\ Fetched = Taken + Len(area) + Len(restore_recipe_queue)
        BY <2>2, Lengths DEF Fetched, Popped
      <4>2. Fetched <= Len(All)
        BY <2>2, AllIs
      <4> QED BY <3>1, <4>1, <4>2
    <3>8. Upto(Chunks(All), Taken) <= Upto(Chunks(All), Len(All)) /\ Upto(Chunks(All), Taken) \in Nat
      BY <3>1, <3>5, <3>7, UptoRise, Zenon
    <3>9. reads \in Nat /\ reads <= Upto(Chunks(All), Taken)
      BY <2>1 DEF CacheInv
    <3> QED BY <3>4, <3>6, <3>8, <3>9
  <2>4. /\ config.window \in Nat /\ Len(records) \in Nat
    BY <2>1, BackupIs
  <2>5. /\ DOMAIN table \subseteq Ids \cup {TEMPORARY_ID}
        /\ sequence_number \in 0..Len(records) /\ buffered \in 0..config.window
        /\ last_id \in Ids \cup {TEMPORARY_ID}
    <3>1. CASE config.cache = "opt"
      BY <2>1, <3>1 DEF WindowInv, Window
    <3>2. CASE config.cache # "opt"
      BY <2>1, <2>4, <3>2 DEF WindowInv, Nothing
    <3> QED BY <3>1, <3>2
  <2>6. TypeOK
    <3>1. file <= Len(recipe) => next <= Len(recipe[file]) + 1
      BY <2>2 DEF ReaderInv
    <3> QED BY <2>1, <2>2, <2>3, <2>5, <3>1
            DEF TypeOK, BackupInv, ReaderInv, QueueInv, EndInv, CacheInv, AreaInv
  <2>7. AccessesInStep
    <3>1. ASSUME config.cache = "opt"
          PROVE  /\ status # "aborted" /\ ToSet(cache) \subseteq DOMAIN table
                 /\ Window(table, sequence_number - buffered + 1, sequence_number)
      BY <2>1, <2>2, <3>1 DEF WindowInv, EndInv
    <3>2. ASSUME NEW lo, NEW hi, Window(table, lo, hi)
          PROVE  UNION {table[id] : id \in DOMAIN table} = lo..hi
      BY <3>2 DEF Window
    <3> QED BY <3>1, <3>2 DEF AccessesInStep
  <2> QED BY <2>6, <2>7 DEF InStep
<1> QED BY <1>1, RestoreInvariant, PTL

\* The assembly area holds a bounded number of chunks, whatever the containers.
THEOREM AlwaysAreaBounded == Spec => []AreaBounded
<1>1. IInv => AreaBounded
  BY DEF IInv, AreaInv
<1> QED BY <1>1, RestoreInvariant, PTL

\* Each step that writes anything writes what comes next in the backup: the safety
\* of FileCopy, with lru_restore_thread, optimal_restore_thread and
\* assembly_restore_thread alike.
THEOREM RestoreCopies == Spec => Copying!FCInit /\ [][Copying!Copy]_(Copying!fcVars)
<1>1. Init => Copying!FCInit
  BY DEF Init, Copying!FCInit
<1>2. IInv /\ [Next]_vars => [Copying!Copy]_(Copying!fcVars)
  <2> SUFFICES ASSUME IInv, [Next]_vars PROVE [Copying!Copy]_(Copying!fcVars)
    OBVIOUS
  <2>1. source' = source
    BY DEF vars, backup, Next, RecipeThread, RestoreThread, WriteThread, ReadRecipe, ReadRecipeEnd,
           RestoreNext, Pops, AsmDrain, PushChunk, RestoreEnd, WriteChunk, WriteEnd
  <2>2. CASE WriteChunk
    <3>1. Len(written) < Len(source) /\ written' = Append(written, source[Len(written) + 1])
      BY <2>2, StreamWriteChunk DEF IInv
    <3> QED BY <2>1, <3>1 DEF Copying!Copy
  <2>3. CASE ~WriteChunk
    <3>1. written' = written
      BY <2>3 DEF vars, Next, RecipeThread, RestoreThread, WriteThread, ReadRecipe, ReadRecipeEnd,
                  RestoreNext, Pops, AsmDrain, PushChunk, RestoreEnd, WriteEnd
    <3> QED BY <2>1, <3>1 DEF Copying!fcVars
  <2> QED BY <2>2, <2>3
<1> QED BY <1>1, <1>2, RestoreInvariant, PTL DEF Spec

\* A job that is done has written the whole backup.
Whole == status = "done" => written = source

\* When the job is done, the backup has been restored to its end: nothing is left
\* in a queue, in the area or with the restore thread when the write thread ends.
THEOREM RestoredWhole == Spec => []Whole
<1>1. IInv => Whole
  <2> SUFFICES ASSUME IInv, status = "done" PROVE written = source
    BY DEF Whole
  <2>1. Stream /\ BackupInv /\ ReaderInv /\ QueueInv /\ EndInv /\ Matches
    BY DEF IInv, Stream
  <2>2. /\ restore_chunk_queue = <<>> /\ restore_recipe_queue = <<>> /\ out = <<>> /\ area = <<>>
        /\ file > Len(recipe)
    BY <2>1 DEF EndInv
  <2>3. Len(written) \in Nat /\ Len(written) = Fetched
    BY <2>1, <2>2, Lengths DEF Fetched, Popped, Taken, Sent
  <2>4. Len(written) = Len(All) /\ Len(source) = Len(All) /\ Len(All) \in Nat /\ All \in Seq(Piece)
    BY <2>1, <2>2, <2>3, AllIs
  <2>5. \A i \in 1..Len(written) : written[i] = source[i]
    <3>1. \A i \in 1..Len(written) : written[i] = source[0 + i] /\ 0 + i = i
      BY <2>1, <2>3 DEF Matches, Stretch
    <3> QED BY <3>1
  <2>6. source = [i \in 1..Len(All) |-> source[i]]
    <3>1. DOMAIN All = 1..Len(All)
      BY <2>4
    <3> QED BY <2>1, <3>1 DEF BackupInv, Source, All
  <2>7. written = [i \in 1..Len(written) |-> written[i]]
    BY <2>1 DEF QueueInv
  <2> QED BY <2>4, <2>5, <2>6, <2>7
<1> QED BY <1>1, RestoreInvariant, PTL

-----------------------------------------------------------------------------
(* The fewest reads.                                                       *)

\* What container r may be read into cache c makes of it.
After(c, r) ==
  {d \cup {r} : d \in IF Cardinality(c) < CacheSize THEN {c} ELSE {c \ {v} : v \in c}}

\* The reads needed from record p on with cache c, row having those from the next
\* record on.
CostOf(row, p, c) ==
  IF p = Len(records) THEN 0
  ELSE IF records[p] \in c THEN row[c] ELSE 1 + Min({row[e] : e \in After(c, records[p])})

\* m has the reads needed from record n on, and from each that follows.
Costs(m, n) ==
  m = [p \in n..Len(records) |-> [c \in SUBSET Ids |-> CostOf(m[p + 1], p, c)]]

\* There is such an m.
LEMMA CostsExist ==
  ASSUME Len(records) \in Nat, Len(records) # 0
  PROVE  \E m : Costs(m, 1)
<1> DEFINE L == Len(records)
           T == {n \in Nat : n < L => \E m : Costs(m, L - n)}
<1>1. 0 \in T
  <2> DEFINE m == [p \in L..L |-> [c \in SUBSET Ids |-> 0]]
  <2>1. \A p \in L..L : p = L
    OBVIOUS
  <2>2. m = [p \in L..L |-> [c \in SUBSET Ids |-> CostOf(m[p + 1], p, c)]]
    BY <2>1 DEF CostOf
  <2>3. Costs(m, L) /\ L - 0 = L
    BY <2>2 DEF Costs
  <2> QED BY <2>3
<1>2. ASSUME NEW n \in Nat, n \in T PROVE n + 1 \in T
  <2>1. ASSUME n + 1 < L PROVE \E m : Costs(m, L - (n + 1))
    <3> DEFINE lo == L - (n + 1)
    <3>1. lo \in Nat /\ L - n = lo + 1 /\ L \in Nat /\ lo < L
      BY <2>1
    <3>2. PICK f : Costs(f, lo + 1)
      BY <1>2, <2>1, <3>1
    <3> HIDE DEF lo, L
    <3> DEFINE g == [p \in lo..L |-> IF p = lo THEN [c \in SUBSET Ids |-> CostOf(f[lo + 1], lo, c)]
                                     ELSE f[p]]
    <3>4. lo \in lo..L /\ \A p \in lo..L : p # lo => p \in lo + 1..L /\ p # lo
      BY <3>1
    <3>5. g[lo] = [c \in SUBSET Ids |-> CostOf(f[lo + 1], lo, c)] /\ \A p \in lo + 1..L : g[p] = f[p]
      <4>1. \A p \in lo + 1..L : p \in lo..L /\ p # lo
        BY <3>1
      <4> QED BY <3>4, <4>1
    <3> HIDE DEF g
    <3>6. ASSUME NEW p \in lo..L PROVE g[p] = [c \in SUBSET Ids |-> CostOf(g[p + 1], p, c)]
      <4>1. CASE p = lo
        <5>1. g[lo + 1] = f[lo + 1]
          <6>1. lo + 1 \in lo + 1..L
            BY <3>1
          <6> QED BY <3>5, <6>1
        <5> QED BY <3>5, <4>1, <5>1
      <4>2. CASE p # lo
        <5>1. p \in lo + 1..L
          BY <3>4, <4>2
        <5>2. g[p] = [c \in SUBSET Ids |-> CostOf(f[p + 1], p, c)]
          BY <3>2, <3>5, <5>1 DEF Costs, L
        <5>3. ASSUME NEW c PROVE CostOf(f[p + 1], p, c) = CostOf(g[p + 1], p, c)
          <6>1. CASE p = L
            BY <6>1 DEF CostOf, L
          <6>2. CASE p # L
            <7>1. p + 1 \in lo + 1..L
              BY <3>1, <5>1, <6>2
            <7> QED BY <3>5, <7>1
          <6> QED BY <6>1, <6>2
        <5> QED BY <5>2, <5>3
      <4> QED BY <4>1, <4>2
    <3>7. g = [p \in lo..L |-> [c \in SUBSET Ids |-> CostOf(g[p + 1], p, c)]]
      <4>1. g = [p \in lo..L |-> g[p]]
        BY DEF g
      <4> QED BY <3>6, <4>1
    <3>8. Costs(g, lo)
      BY <3>7 DEF Costs, L
    <3> QED BY <3>8 DEF lo, L
  <2> QED BY <2>1
<1>3. L - 1 \in T
  <2>1. L - 1 \in Nat
    OBVIOUS
  <2> HIDE DEF T
  <2> QED BY <1>1, <1>2, <2>1, Inductive
<1>4. L - 1 \in Nat /\ L - 1 < L /\ L - (L - 1) = 1
  OBVIOUS
<1> QED BY <1>3, <1>4

\* FewestReads takes it from the first record on, with an empty cache.
LEMMA FewestIs ==
  ASSUME Len(records) \in Nat, Len(records) # 0
  PROVE  \E m : Costs(m, 1) /\ FewestReads = m[1][{}]
<1> DEFINE F(m) == [p \in 1..Len(records) |->
                     [c \in SUBSET Ids |->
                        IF p = Len(records) THEN 0
                        ELSE IF records[p] \in c THEN m[p + 1][c]
                        ELSE 1 + Min({m[p + 1][d \cup {records[p]}] :
                               d \in IF Cardinality(c) < CacheSize THEN {c} ELSE {c \ {v} : v \in c}})]]
           cost == CHOOSE m : m = F(m)
<1>1. FewestReads = cost[1][{}]
  BY DEF FewestReads
<1>2. ASSUME NEW m PROVE F(m) = [p \in 1..Len(records) |-> [c \in SUBSET Ids |-> CostOf(m[p + 1], p, c)]]
  BY DEF CostOf, After
<1> HIDE DEF F
<1>3. PICK m : Costs(m, 1)
  BY CostsExist
<1>4. m = F(m)
  BY <1>2, <1>3 DEF Costs
<1>5. cost = F(cost)
  BY <1>4
<1> HIDE DEF cost
<1>6. Costs(cost, 1)
  <2>1. cost = [p \in 1..Len(records) |-> [c \in SUBSET Ids |-> CostOf(cost[p + 1], p, c)]]
    BY <1>2, <1>5
  <2> QED BY <2>1 DEF Costs
<1> QED BY <1>1, <1>6

\* The records of accesses are those of containers, and there is an end mark.
Recorded ==
  /\ Len(records) \in Nat /\ Len(records) # 0
  /\ \A p \in 1..Len(records) - 1 : records[p] \in Ids

\* The containers X may be what is cached.
Fits(X) == X \in SUBSET Ids /\ IsFiniteSet(X) /\ Cardinality(X) <= CacheSize
Room(X) == Cardinality(X) < CacheSize

\* One more in the cache, and one in place of another.
LEMMA FitsWith ==
  ASSUME NEW X, Fits(X), NEW x \in Ids
  PROVE  /\ Cardinality(X) \in Nat
         /\ x \notin X => Cardinality(X \cup {x}) = Cardinality(X) + 1
         /\ x \notin X /\ Room(X) => Fits(X \cup {x})
         /\ \A v \in X : Fits(X \ {v}) /\ Room(X \ {v}) /\ Cardinality(X \ {v}) + 1 = Cardinality(X)
<1>1. CacheSize \in Nat /\ IsFiniteSet(X) /\ X \in SUBSET Ids /\ Cardinality(X) <= CacheSize
  BY RestoreAssumption DEF Fits
<1>2. Cardinality(X) \in Nat
  BY <1>1, FS_CardinalityType
<1>3. /\ IsFiniteSet(X \cup {x})
      /\ Cardinality(X \cup {x}) = IF x \in X THEN Cardinality(X) ELSE Cardinality(X) + 1
  BY <1>1, FS_AddElement, Zenon
<1>4. x \notin X /\ Room(X) => Fits(X \cup {x})
  BY <1>1, <1>2, <1>3 DEF Fits, Room
<1>5. ASSUME NEW v \in X
      PROVE  Fits(X \ {v}) /\ Room(X \ {v}) /\ Cardinality(X \ {v}) + 1 = Cardinality(X)
  <2>1. /\ IsFiniteSet(X \ {v})
        /\ Cardinality(X \ {v}) = IF v \in X THEN Cardinality(X) - 1 ELSE Cardinality(X)
    BY <1>1, FS_RemoveElement, Zenon
  <2>2. Cardinality(X \ {v}) = Cardinality(X) - 1
    BY <2>1
  <2>3. X \ {v} \in SUBSET Ids
    BY <1>1
  <2> HIDE <2>1
  <2> QED BY <1>1, <1>2, <2>1, <2>2, <2>3 DEF Fits, Room
<1> QED BY <1>2, <1>3, <1>4, <1>5

\* Every cache has its number of reads from record p on.
Counted(m, p) == \A X : Fits(X) => m[p][X] \in Nat

\* What the reads from record p on are, by those from the next.
Hits(m, p) == \A X : Fits(X) /\ records[p] \in X => m[p][X] = m[p + 1][X]
Reads(m, p) ==
  \A X : Fits(X) /\ records[p] \notin X /\ Room(X) => m[p][X] = 1 + m[p + 1][X \cup {records[p]}]
Kicks(m, p) ==
  \A X : Fits(X) /\ records[p] \notin X /\ ~Room(X) =>
    /\ \A v \in X : m[p][X] <= 1 + m[p + 1][(X \ {v}) \cup {records[p]}]
    /\ \E v \in X : m[p][X] = 1 + m[p + 1][(X \ {v}) \cup {records[p]}]

\* So there are such numbers at record p if there are at the next.
LEMMA CostsCount ==
  ASSUME Recorded, NEW m, Costs(m, 1), NEW p \in 1..Len(records) - 1, Counted(m, p + 1)
  PROVE  Counted(m, p) /\ Hits(m, p) /\ Reads(m, p) /\ Kicks(m, p)
<1> DEFINE r == records[p]
<1>1. p \in 1..Len(records) /\ p + 1 \in 1..Len(records) /\ p # Len(records) /\ r \in Ids
  BY DEF Recorded
<1>2. m[p] = [c \in SUBSET Ids |-> CostOf(m[p + 1], p, c)]
  BY <1>1 DEF Costs
<1>3. ASSUME NEW X, Fits(X)
      PROVE  m[p][X] = IF r \in X THEN m[p + 1][X]
                       ELSE 1 + Min({m[p + 1][e] : e \in After(X, r)})
  <2>1. X \in SUBSET Ids
    BY <1>3 DEF Fits
  <2>2. m[p][X] = CostOf(m[p + 1], p, X)
    BY <1>2, <2>1
  <2> QED BY <1>1, <2>2 DEF CostOf
<1> HIDE DEF r
<1>4. ASSUME NEW X, Fits(X), r \notin X
      PROVE  /\ \A e \in After(X, r) : m[p + 1][e] \in Nat /\ m[p][X] <= 1 + m[p + 1][e]
             /\ \E e \in After(X, r) : m[p][X] = 1 + m[p + 1][e]
  <2> DEFINE Z == {m[p + 1][e] : e \in After(X, r)}
  <2>1. \A e \in After(X, r) : m[p + 1][e] \in Nat
    <3>1. ASSUME NEW e \in After(X, r) PROVE Fits(e)
      <4>1. CASE Room(X)
        <5>1. e = X \cup {r}
          BY <4>1 DEF After, Room
        <5> QED BY <1>1, <1>4, <4>1, <5>1, FitsWith
      <4>2. CASE ~Room(X)
        <5>1. PICK v \in X : e = (X \ {v}) \cup {r}
          BY <4>2 DEF After, Room
        <5>2. Fits(X \ {v}) /\ Room(X \ {v}) /\ r \notin X \ {v}
          BY <1>1, <1>4, FitsWith
        <5> QED BY <1>1, <5>1, <5>2, FitsWith
      <4> QED BY <4>1, <4>2
    <3> QED BY <3>1 DEF Counted
  <2>2. After(X, r) # {}
    <3>1. CASE Room(X)
      BY <3>1 DEF After, Room
    <3>2. CASE ~Room(X)
      <4>1. CacheSize \in Nat /\ CacheSize # 0 /\ Cardinality({}) = 0
        BY RestoreAssumption, FS_EmptySet
      <4>2. PICK v : v \in X
        <5>1. Cardinality(X) # 0
          BY <3>2, <4>1 DEF Room
        <5> QED BY <4>1, <5>1
      <4>3. After(X, r) = {d \cup {r} : d \in {X \ {x} : x \in X}}
        BY <3>2 DEF After, Room
      <4>4. (X \ {v}) \cup {r} \in After(X, r)
        BY <4>2, <4>3
      <4> QED BY <4>4
    <3> QED BY <3>1, <3>2
  <2>3. Z \in SUBSET Nat /\ Z # {}
    BY <2>1, <2>2
  <2> HIDE DEF Z
  <2>4. Min(Z) \in Z /\ \A y \in Z : Min(Z) <= y
    BY <2>3, MinIs
  <2>5. m[p][X] = 1 + Min(Z)
    BY <1>3, <1>4 DEF Z
  <2>6. PICK e \in After(X, r) : Min(Z) = m[p + 1][e]
    BY <2>4 DEF Z
  <2>7. \A f \in After(X, r) : Min(Z) <= m[p + 1][f]
    BY <2>4 DEF Z
  <2>8. Min(Z) \in Nat
    BY <2>3, <2>4
  <2> QED BY <2>1, <2>5, <2>6, <2>7, <2>8, SMTT(30)
<1>5. Hits(m, p)
  BY <1>3 DEF Hits, r
<1>6. Reads(m, p)
  <2>1. ASSUME NEW X, Fits(X), r \notin X, Room(X) PROVE m[p][X] = 1 + m[p + 1][X \cup {r}]
    <3>1. After(X, r) = {X \cup {r}}
      BY <2>1 DEF After, Room
    <3> QED BY <1>4, <2>1, <3>1
  <2> QED BY <2>1 DEF Reads, r
<1>7. Kicks(m, p)
  <2>1. ASSUME NEW X, Fits(X), r \notin X, ~Room(X)
        PROVE  /\ \A v \in X : m[p][X] <= 1 + m[p + 1][(X \ {v}) \cup {r}]
               /\ \E v \in X : m[p][X] = 1 + m[p + 1][(X \ {v}) \cup {r}]
    <3>1. After(X, r) = {d \cup {r} : d \in {X \ {x} : x \in X}}
      BY <2>1 DEF After, Room
    <3>2. ASSUME NEW v \in X PROVE m[p][X] <= 1 + m[p + 1][(X \ {v}) \cup {r}]
      <4>1. (X \ {v}) \cup {r} \in After(X, r)
        BY <3>1
      <4> QED BY <1>4, <2>1, <4>1
    <3>3. PICK e \in After(X, r) : m[p][X] = 1 + m[p + 1][e]
      BY <1>4, <2>1
    <3>4. PICK v \in X : e = (X \ {v}) \cup {r}
      BY <3>1
    <3> QED BY <3>2, <3>3, <3>4
  <2> QED BY <2>1 DEF Kicks, r
<1>8. Counted(m, p)
  <2>1. ASSUME NEW X, Fits(X) PROVE m[p][X] \in Nat
    <3>1. CASE r \in X
      BY <1>3, <2>1, <3>1 DEF Counted
    <3>2. CASE r \notin X
      <4>1. PICK e \in After(X, r) : m[p + 1][e] \in Nat /\ m[p][X] = 1 + m[p + 1][e]
        BY <1>4, <2>1, <3>2
      <4> QED BY <4>1
    <3> QED BY <3>1, <3>2
  <2> QED BY <2>1 DEF Counted
<1> QED BY <1>5, <1>6, <1>7, <1>8

\* From record p on, a is accessed before b is.
Sooner(p, a, b) ==
  \A q \in p..Len(records) - 1 : records[q] = b => \E o \in p..q : records[o] = a

\* With one more container cached there are at most as many reads, and at most one
\* less.
Growing(m, p) ==
  \A X, b : Fits(X) /\ Room(X) /\ b \in Ids /\ b \notin X =>
    m[p][X \cup {b}] <= m[p][X] /\ m[p][X] <= m[p][X \cup {b}] + 1

\* With a in place of b there is at most one read more, and none if a is accessed
\* before.
Swapping(m, p) ==
  \A X, a, b, e :
    Fits(X) /\ Room(X) /\ a \in Ids \ X /\ b \in Ids \ X /\ a # b /\ e \in {0, 1}
      /\ (e = 0 => Sooner(p, a, b)) =>
    m[p][X \cup {a}] <= m[p][X \cup {b}] + e

\* A cache with r in place of v, which v or b may join.
LEMMA Replaced ==
  ASSUME NEW X, Fits(X), Room(X), NEW v \in X, NEW r \in Ids, r \notin X
  PROVE  LET Y == (X \ {v}) \cup {r} IN
         /\ Fits(Y) /\ Room(Y) /\ v \in Ids \ Y /\ Y \cup {v} = X \cup {r}
         /\ \A b \in Ids : b \notin X /\ r # b =>
              b \in Ids \ Y /\ v # b /\ Y \cup {b} = ((X \cup {b}) \ {v}) \cup {r}
<1> DEFINE Y == (X \ {v}) \cup {r}
<1>1. v \in Ids
  BY DEF Fits
<1>2. Fits(X \ {v}) /\ Room(X \ {v}) /\ Cardinality(X \ {v}) + 1 = Cardinality(X)
  BY <1>1, FitsWith
<1>3. r \notin X \ {v}
  OBVIOUS
<1>4. Fits(Y) /\ Cardinality(Y) = Cardinality(X \ {v}) + 1
  BY <1>2, <1>3, FitsWith
<1>5. Room(Y)
  BY <1>2, <1>4 DEF Room
<1> QED BY <1>1, <1>4, <1>5

\* The first of them, by what holds at the next record.
LEMMA GrowingStep ==
  ASSUME NEW m, NEW p, records[p] \in Ids, Counted(m, p), Counted(m, p + 1),
         Hits(m, p), Reads(m, p), Kicks(m, p), Growing(m, p + 1), Swapping(m, p + 1)
  PROVE  Growing(m, p)
<1> SUFFICES ASSUME NEW X, NEW b, Fits(X), Room(X), b \in Ids, b \notin X
             PROVE  m[p][X \cup {b}] <= m[p][X] /\ m[p][X] <= m[p][X \cup {b}] + 1
  BY DEF Growing
<1> DEFINE r == records[p]
           M(Y) == m[p][Y]
           N(Y) == m[p + 1][Y]
<1>1. Fits(X \cup {b}) /\ M(X) \in Nat /\ M(X \cup {b}) \in Nat
      /\ N(X) \in Nat /\ N(X \cup {b}) \in Nat
  BY FitsWith DEF Counted
<1>2. /\ \A Y : Fits(Y) => N(Y) \in Nat
      /\ \A Y : Fits(Y) /\ r \in Y => M(Y) = N(Y)
      /\ \A Y : Fits(Y) /\ r \notin Y /\ Room(Y) => M(Y) = 1 + N(Y \cup {r})
      /\ \A Y : Fits(Y) /\ r \notin Y /\ ~Room(Y) =>
           /\ \A v \in Y : M(Y) <= 1 + N((Y \ {v}) \cup {r})
           /\ \E v \in Y : M(Y) = 1 + N((Y \ {v}) \cup {r})
  BY DEF Counted, Hits, Reads, Kicks
<1>3. \A Y, x : Fits(Y) /\ Room(Y) /\ x \in Ids /\ x \notin Y =>
        N(Y \cup {x}) <= N(Y) /\ N(Y) <= N(Y \cup {x}) + 1
  BY DEF Growing
<1>4. \A Y, x, y : Fits(Y) /\ Room(Y) /\ x \in Ids \ Y /\ y \in Ids \ Y /\ x # y =>
        N(Y \cup {x}) <= N(Y \cup {y}) + 1
  <2>1. 1 \in {0, 1} /\ ~(1 = 0)
    OBVIOUS
  <2> QED BY <2>1, Zenon DEF Swapping
<1>5. r \in Ids
  OBVIOUS
<1> SUFFICES M(X \cup {b}) <= M(X) /\ M(X) <= M(X \cup {b}) + 1
  OBVIOUS
<1> HIDE DEF r, M, N
<1>6. CASE r \in X
  BY <1>1, <1>2, <1>3, <1>6
<1>7. CASE r = b
  BY <1>1, <1>2, <1>7
<1>8. CASE r \notin X /\ r # b
  <2>1. M(X) = 1 + N(X \cup {r}) /\ Fits(X \cup {r}) /\ N(X \cup {r}) \in Nat
        /\ r \notin X \cup {b} /\ b \notin X \cup {r}
    BY <1>2, <1>5, <1>8, FitsWith
  <2>2. CASE Room(X \cup {b})
    <3>1. M(X \cup {b}) = 1 + N((X \cup {b}) \cup {r})
      BY <1>1, <1>2, <2>1, <2>2
    <3>2. (X \cup {b}) \cup {r} = (X \cup {r}) \cup {b}
      OBVIOUS
    <3>3. Room(X \cup {r})
      BY <1>5, <1>8, <2>2, FitsWith DEF Room
    <3>4. /\ N((X \cup {r}) \cup {b}) <= N(X \cup {r})
          /\ N(X \cup {r}) <= N((X \cup {r}) \cup {b}) + 1
      BY <1>3, <2>1, <3>3
    <3>5. N((X \cup {r}) \cup {b}) \in Nat
      BY <1>2, <2>1, <3>3, FitsWith
    <3>6. M(X \cup {b}) = 1 + N((X \cup {r}) \cup {b})
      BY <3>1, <3>2
    <3> QED BY ONLY <1>1, <2>1, <3>4, <3>5, <3>6
  <2>3. CASE ~Room(X \cup {b})
    <3>1. /\ \A v \in X \cup {b} : M(X \cup {b}) <= 1 + N(((X \cup {b}) \ {v}) \cup {r})
          /\ \E v \in X \cup {b} : M(X \cup {b}) = 1 + N(((X \cup {b}) \ {v}) \cup {r})
      BY <1>1, <1>2, <2>1, <2>3
    <3>2. (X \cup {b}) \ {b} = X
      OBVIOUS
    <3>3. M(X \cup {b}) <= 1 + N(X \cup {r})
      BY <3>1, <3>2
    <3>4. PICK v \in X \cup {b} : M(X \cup {b}) = 1 + N(((X \cup {b}) \ {v}) \cup {r})
      BY <3>1
    <3>5. CASE v = b
      <4>1. M(X \cup {b}) = 1 + N(X \cup {r})
        BY <3>2, <3>4, <3>5
      <4> QED BY <1>1, <2>1, <4>1
    <3>6. CASE v # b
      <4> DEFINE Y == (X \ {v}) \cup {r}
      <4>1. v \in X /\ v \in Ids
        BY <3>6 DEF Fits
      <4>2. /\ Fits(Y) /\ Room(Y) /\ v \in Ids \ Y /\ b \in Ids \ Y
            /\ Y \cup {v} = X \cup {r} /\ Y \cup {b} = ((X \cup {b}) \ {v}) \cup {r}
        BY <1>5, <1>8, <4>1, Replaced
      <4>3. N(Y \cup {v}) <= N(Y \cup {b}) + 1
        <5> HIDE DEF Y
        <5> QED BY <1>4, <3>6, <4>2
      <4>4. M(X \cup {b}) = 1 + N(Y \cup {b}) /\ N(X \cup {r}) <= N(Y \cup {b}) + 1
        BY <3>4, <4>2, <4>3
      <4>5. N(Y \cup {b}) \in Nat
        <5> HIDE DEF Y
        <5> QED BY <1>2, <4>2, FitsWith
      <4> HIDE DEF Y
      <4> QED BY <1>1, <2>1, <3>3, <4>4, <4>5
    <3> QED BY <3>5, <3>6
  <2> QED BY <2>2, <2>3
<1> QED BY <1>6, <1>7, <1>8

\* The second of them.
LEMMA SwappingStep ==
  ASSUME NEW m, Len(records) \in Nat, NEW p \in 1..Len(records) - 1, records[p] \in Ids,
         Counted(m, p), Counted(m, p + 1),
         Hits(m, p), Reads(m, p), Kicks(m, p), Growing(m, p + 1), Swapping(m, p + 1)
  PROVE  Swapping(m, p)
<1> SUFFICES ASSUME NEW X, NEW a, NEW b, NEW e \in {0, 1}, Fits(X), Room(X),
                    a \in Ids \ X, b \in Ids \ X, a # b, e = 0 => Sooner(p, a, b)
             PROVE  m[p][X \cup {a}] <= m[p][X \cup {b}] + e
  BY DEF Swapping
<1> DEFINE r == records[p]
           M(Y) == m[p][Y]
           N(Y) == m[p + 1][Y]
<1>1. /\ Fits(X \cup {a}) /\ Fits(X \cup {b})
      /\ M(X \cup {a}) \in Nat /\ M(X \cup {b}) \in Nat
      /\ N(X \cup {a}) \in Nat /\ N(X \cup {b}) \in Nat
      /\ Room(X \cup {a}) <=> Room(X \cup {b})
  <2>1. Fits(X \cup {a}) /\ Fits(X \cup {b})
        /\ Cardinality(X \cup {a}) = Cardinality(X) + 1
        /\ Cardinality(X \cup {b}) = Cardinality(X) + 1
    BY FitsWith
  <2>2. Room(X \cup {a}) <=> Room(X \cup {b})
    BY <2>1 DEF Room
  <2> QED BY <2>1, <2>2 DEF Counted
<1>2. /\ \A Y : Fits(Y) => N(Y) \in Nat
      /\ \A Y : Fits(Y) /\ r \in Y => M(Y) = N(Y)
      /\ \A Y : Fits(Y) /\ r \notin Y /\ Room(Y) => M(Y) = 1 + N(Y \cup {r})
      /\ \A Y : Fits(Y) /\ r \notin Y /\ ~Room(Y) =>
           /\ \A v \in Y : M(Y) <= 1 + N((Y \ {v}) \cup {r})
           /\ \E v \in Y : M(Y) = 1 + N((Y \ {v}) \cup {r})
  BY DEF Counted, Hits, Reads, Kicks
<1>3. \A Y, x : Fits(Y) /\ Room(Y) /\ x \in Ids /\ x \notin Y =>
        N(Y \cup {x}) <= N(Y) /\ N(Y) <= N(Y \cup {x}) + 1
  BY DEF Growing
<1>4. \A Y, x, y : Fits(Y) /\ Room(Y) /\ x \in Ids \ Y /\ y \in Ids \ Y /\ x # y =>
        N(Y \cup {x}) <= N(Y \cup {y}) + 1
  <2>1. 1 \in {0, 1} /\ ~(1 = 0)
    OBVIOUS
  <2> QED BY <2>1, Zenon DEF Swapping
<1>5. r # a =>
        \A Y : Fits(Y) /\ Room(Y) /\ a \in Ids \ Y /\ b \in Ids \ Y =>
          N(Y \cup {a}) <= N(Y \cup {b}) + e
  <2>1. ASSUME r # a, e = 0 PROVE Sooner(p + 1, a, b)
    <3>1. Sooner(p, a, b)
      BY <2>1
    <3>2. ASSUME NEW q \in p + 1..Len(records) - 1, records[q] = b
          PROVE  \E o \in p + 1..q : records[o] = a
      <4>1. q \in p..Len(records) - 1
        OBVIOUS
      <4>2. PICK o \in p..q : records[o] = a
        BY <3>1, <3>2, <4>1 DEF Sooner
      <4>3. o # p
        BY <2>1, <4>2
      <4> QED BY <4>2, <4>3
    <3> QED BY <3>2 DEF Sooner
  <2> QED BY <2>1, Zenon DEF Swapping
<1>6. r \in Ids /\ (r = b => e = 1) /\ e \in Nat
  <2>1. ASSUME r = b, e = 0 PROVE FALSE
    <3>1. p \in p..Len(records) - 1 /\ \A o \in p..p : o = p
      OBVIOUS
    <3>2. \E o \in p..p : records[o] = a
      BY <2>1, <3>1 DEF Sooner
    <3> QED BY <2>1, <3>1, <3>2
  <2> QED BY <2>1
<1> SUFFICES M(X \cup {a}) <= M(X \cup {b}) + e
  OBVIOUS
<1> HIDE DEF r, M, N
<1>7. CASE r \in X
  <2>1. M(X \cup {a}) = N(X \cup {a}) /\ M(X \cup {b}) = N(X \cup {b})
    BY <1>1, <1>2, <1>7
  <2> QED BY <1>5, <1>7, <2>1
<1>8. CASE r = a
  <2>1. M(X \cup {a}) = N(X \cup {a}) /\ r \notin X \cup {b}
    BY <1>1, <1>2, <1>8
  <2>2. CASE Room(X \cup {b})
    <3>1. M(X \cup {b}) = 1 + N((X \cup {b}) \cup {a})
      BY <1>1, <1>2, <1>8, <2>1, <2>2
    <3>2. (X \cup {b}) \cup {a} = (X \cup {a}) \cup {b} /\ b \notin X \cup {a}
      OBVIOUS
    <3>3. N(X \cup {a}) <= N((X \cup {a}) \cup {b}) + 1
      BY <1>1, <1>3, <2>2, <3>2
    <3>4. N((X \cup {a}) \cup {b}) \in Nat
      BY <1>1, <1>2, <2>2, <3>2, FitsWith
    <3>5. M(X \cup {b}) = 1 + N((X \cup {a}) \cup {b})
      BY <3>1, <3>2
    <3> QED BY ONLY <1>1, <1>6, <2>1, <3>3, <3>4, <3>5
  <2>3. CASE ~Room(X \cup {b})
    <3>1. PICK v \in X \cup {b} : M(X \cup {b}) = 1 + N(((X \cup {b}) \ {v}) \cup {a})
      BY <1>1, <1>2, <1>8, <2>1, <2>3
    <3>2. CASE v = b
      <4>1. (X \cup {b}) \ {v} = X
        BY <3>2
      <4>2. M(X \cup {b}) = 1 + N(X \cup {a})
        BY <3>1, <4>1
      <4> QED BY ONLY <1>1, <1>6, <2>1, <4>2
    <3>3. CASE v # b
      <4> DEFINE Y == (X \ {v}) \cup {a}
      <4>1. v \in X
        BY <3>3
      <4>2. /\ Fits(Y) /\ Room(Y) /\ v \in Ids \ Y /\ b \in Ids \ Y
            /\ Y \cup {v} = X \cup {a} /\ Y \cup {b} = ((X \cup {b}) \ {v}) \cup {a}
        <5>1. a \in Ids /\ a \notin X /\ b \in Ids /\ b \notin X /\ a # b
          OBVIOUS
        <5>2. Fits(Y) /\ Room(Y) /\ v \in Ids \ Y /\ Y \cup {v} = X \cup {a}
          BY <4>1, <5>1, Replaced
        <5>3. v # b /\ b \in Ids \ Y /\ Y \cup {b} = ((X \cup {b}) \ {v}) \cup {a}
          BY <3>3, <4>1, <5>1
        <5> QED BY <5>2, <5>3
      <4> HIDE DEF Y
      <4>3. N(Y \cup {v}) <= N(Y \cup {b}) + 1
        BY <1>4, <3>3, <4>2
      <4>4. M(X \cup {b}) = 1 + N(Y \cup {b}) /\ N(X \cup {a}) <= N(Y \cup {b}) + 1
        BY <3>1, <4>2, <4>3
      <4>5. N(Y \cup {b}) \in Nat
        BY <1>2, <4>2, FitsWith
      <4> QED BY ONLY <1>1, <1>6, <2>1, <4>4, <4>5
    <3> QED BY <3>2, <3>3
  <2> QED BY <2>2, <2>3
<1>9. CASE r = b
  <2>1. M(X \cup {b}) = N(X \cup {b}) /\ r \notin X \cup {a} /\ e = 1
    BY <1>1, <1>2, <1>6, <1>9
  <2>2. CASE Room(X \cup {a})
    <3>1. M(X \cup {a}) = 1 + N((X \cup {a}) \cup {b})
      BY <1>1, <1>2, <1>9, <2>1, <2>2
    <3>2. (X \cup {a}) \cup {b} = (X \cup {b}) \cup {a} /\ a \notin X \cup {b}
      OBVIOUS
    <3>3. N((X \cup {b}) \cup {a}) <= N(X \cup {b})
      BY <1>1, <1>3, <2>2, <3>2
    <3>4. N((X \cup {b}) \cup {a}) \in Nat
      BY <1>1, <1>2, <2>2, <3>2, FitsWith
    <3>5. M(X \cup {a}) = 1 + N((X \cup {b}) \cup {a})
      BY <3>1, <3>2
    <3> QED BY ONLY <1>1, <2>1, <3>3, <3>4, <3>5
  <2>3. CASE ~Room(X \cup {a})
    <3>1. \A v \in X \cup {a} : M(X \cup {a}) <= 1 + N(((X \cup {a}) \ {v}) \cup {b})
      BY <1>1, <1>2, <1>9, <2>1, <2>3
    <3>2. (X \cup {a}) \ {a} = X
      OBVIOUS
    <3>3. M(X \cup {a}) <= 1 + N(X \cup {b})
      BY <3>1, <3>2
    <3> QED BY ONLY <1>1, <2>1, <3>3
  <2> QED BY <2>2, <2>3
<1>10. CASE r \notin X /\ r # a /\ r # b
  <2>1. /\ r \notin X \cup {a} /\ r \notin X \cup {b} /\ a \in Ids \ (X \cup {r})
        /\ b \in Ids \ (X \cup {r}) /\ Fits(X \cup {r})
        /\ Cardinality(X \cup {r}) = Cardinality(X) + 1
    BY <1>6, <1>10, FitsWith
  <2>2. CASE Room(X \cup {b})
    <3>1. /\ M(X \cup {a}) = 1 + N((X \cup {a}) \cup {r})
          /\ M(X \cup {b}) = 1 + N((X \cup {b}) \cup {r})
      BY <1>1, <1>2, <2>1, <2>2
    <3>2. /\ (X \cup {a}) \cup {r} = (X \cup {r}) \cup {a}
          /\ (X \cup {b}) \cup {r} = (X \cup {r}) \cup {b}
      OBVIOUS
    <3>3. Room(X \cup {r})
      <4>1. Cardinality(X \cup {b}) = Cardinality(X) + 1
        BY FitsWith
      <4> QED BY <2>1, <2>2, <4>1 DEF Room
    <3>4. N((X \cup {r}) \cup {a}) <= N((X \cup {r}) \cup {b}) + e
      BY <1>5, <1>10, <2>1, <3>3
    <3>5. N((X \cup {r}) \cup {a}) \in Nat /\ N((X \cup {r}) \cup {b}) \in Nat
      BY <1>2, <2>1, <3>3, FitsWith
    <3>6. M(X \cup {a}) = 1 + N((X \cup {r}) \cup {a}) /\ M(X \cup {b}) = 1 + N((X \cup {r}) \cup {b})
      BY <3>1, <3>2
    <3> QED BY ONLY <1>6, <3>4, <3>5, <3>6
  <2>3. CASE ~Room(X \cup {b})
    <3>1. /\ \A v \in X \cup {a} : M(X \cup {a}) <= 1 + N(((X \cup {a}) \ {v}) \cup {r})
          /\ \E v \in X \cup {b} : M(X \cup {b}) = 1 + N(((X \cup {b}) \ {v}) \cup {r})
      BY <1>1, <1>2, <2>1, <2>3
    <3>2. PICK v \in X \cup {b} : M(X \cup {b}) = 1 + N(((X \cup {b}) \ {v}) \cup {r})
      BY <3>1
    <3>3. CASE v = b
      <4>1. (X \cup {b}) \ {v} = X /\ (X \cup {a}) \ {a} = X
        BY <3>3
      <4>2. M(X \cup {b}) = 1 + N(X \cup {r}) /\ M(X \cup {a}) <= 1 + N(X \cup {r})
        BY <3>1, <3>2, <4>1
      <4> QED BY ONLY <1>1, <1>6, <4>2
    <3>4. CASE v # b
      <4> DEFINE Y == (X \ {v}) \cup {r}
      <4>1. v \in X
        BY <3>4
      <4>2. /\ Fits(Y) /\ Room(Y) /\ a \in Ids \ Y /\ b \in Ids \ Y
            /\ Y \cup {a} = ((X \cup {a}) \ {v}) \cup {r}
            /\ Y \cup {b} = ((X \cup {b}) \ {v}) \cup {r}
        BY <1>6, <1>10, <4>1, Replaced
      <4> HIDE DEF Y
      <4>3. N(Y \cup {a}) <= N(Y \cup {b}) + e
        BY <1>5, <1>10, <4>2
      <4>4. M(X \cup {b}) = 1 + N(Y \cup {b}) /\ M(X \cup {a}) <= 1 + N(Y \cup {a})
        BY <3>1, <3>2, <4>1, <4>2
      <4>5. N(Y \cup {a}) \in Nat /\ N(Y \cup {b}) \in Nat
        BY <1>2, <4>2, FitsWith
      <4> QED BY ONLY <1>1, <1>6, <4>3, <4>4, <4>5
    <3> QED BY <3>3, <3>4
  <2> QED BY <2>2, <2>3
<1> QED BY <1>7, <1>8, <1>9, <1>10

\* Both hold from every record on.
LEMMA Exchange ==
  ASSUME Recorded, NEW m, Costs(m, 1), NEW p \in 1..Len(records)
  PROVE  Counted(m, p) /\ Growing(m, p) /\ Swapping(m, p)
<1> DEFINE L == Len(records)
           G(q) == Counted(m, q) /\ Growing(m, q) /\ Swapping(m, q)
           T == {n \in Nat : n < L => G(L - n)}
<1>1. L \in Nat /\ L # 0
  BY DEF Recorded
<1>2. 0 \in T
  <2>1. L \in 1..L /\ L - 0 = L
    BY <1>1
  <2>2. \A X : Fits(X) => m[L][X] = 0
    <3>1. m[L] = [c \in SUBSET Ids |-> CostOf(m[L + 1], L, c)]
      BY <2>1 DEF Costs
    <3> QED BY <3>1 DEF CostOf, Fits
  <2>3. \A X, b : Fits(X) /\ Room(X) /\ b \in Ids /\ b \notin X => Fits(X \cup {b})
    BY FitsWith
  <2>4. G(L)
    <3> HIDE DEF L
    <3>1. Counted(m, L)
      BY <2>2 DEF Counted
    <3>2. Growing(m, L)
      BY <2>2, <2>3 DEF Growing
    <3>3. Swapping(m, L)
      BY <2>2, <2>3 DEF Swapping
    <3> QED BY <3>1, <3>2, <3>3
  <2> QED BY <2>1, <2>4
<1>3. ASSUME NEW n \in Nat, n \in T PROVE n + 1 \in T
  <2>1. ASSUME n + 1 < L PROVE G(L - (n + 1))
    <3> DEFINE q == L - (n + 1)
    <3>1. q \in 1..L - 1 /\ L - n = q + 1 /\ n < L
      BY <1>1, <2>1
    <3>2. G(q + 1)
      BY <1>3, <3>1
    <3> HIDE DEF q
    <3>3. records[q] \in Ids
      BY <3>1 DEF Recorded
    <3>4. Counted(m, q) /\ Hits(m, q) /\ Reads(m, q) /\ Kicks(m, q)
      BY <3>1, <3>2, CostsCount
    <3>5. Growing(m, q) /\ Swapping(m, q)
      BY <1>1, <3>1, <3>2, <3>3, <3>4, GrowingStep, SwappingStep
    <3>6. G(q)
      BY <3>4, <3>5
    <3> QED BY <3>6 DEF q
  <2> QED BY <2>1
<1>4. L - p \in T
  <2>1. L - p \in Nat
    BY <1>1
  <2> HIDE DEF T
  <2> QED BY <1>2, <1>3, <2>1, Inductive
<1>5. L - p < L /\ L - (L - p) = p
  BY <1>1
<1> HIDE DEF G
<1>6. G(p)
  BY <1>4, <1>5
<1> QED BY <1>6 DEF G

-----------------------------------------------------------------------------
(* The optimal cache reads as few.                                         *)

\* Every record but the last is that of an access.
LEMMA RecordedIs ==
  ASSUME Stream
  PROVE  Recorded
<1>1. /\ Len(records) \in Nat /\ Cardinality(Accesses(All)) \in Nat
      /\ Len(records) = Cardinality(Accesses(All)) + 1
      /\ \A q \in Accesses(All) : records[Upto(Accesses(All), q)] = All[q].id
  BY BackupIs
<1>2. /\ Len(All) \in Nat /\ Accesses(All) \in SUBSET Chunks(All)
      /\ Accesses(All) \in SUBSET (1..Len(All))
  BY AccessesAre DEF Stream, BackupInv, All
<1>3. All \in Seq(Piece) /\ DOMAIN All = 1..Len(All)
  BY AllIs DEF Stream
<1>4. ASSUME NEW w \in 1..Len(records) - 1 PROVE records[w] \in Ids
  <2>1. w \in 1..Cardinality(Accesses(All))
    BY <1>1
  <2>2. PICK q \in Accesses(All) : Upto(Accesses(All), q) = w
    BY <1>2, <2>1, UptoReaches
  <2>3. All[q] \in Piece /\ All[q].kind = "chunk"
    BY <1>2, <1>3 DEF Chunks, IsMark
  <2>4. All[q].id \in Ids
    BY <2>3, PieceIs
  <2> QED BY <1>1, <2>2, <2>4
<1> QED BY <1>1, <1>4 DEF Recorded

\* A cache without repetitions has as many containers as places.
LEMMA CacheCount ==
  ASSUME NEW s \in Seq(Ids), IsInjective(s)
  PROVE  ToSet(s) \in SUBSET Ids /\ IsFiniteSet(ToSet(s)) /\ Cardinality(ToSet(s)) = Len(s)
<1>1. Len(s) \in Nat /\ DOMAIN s = 1..Len(s) /\ s \in [1..Len(s) -> Ids]
  OBVIOUS
<1>2. ToSet(s) = {s[i] : i \in 1..Len(s)}
  BY <1>1 DEF ToSet
<1>3. s \in Bijection(1..Len(s), ToSet(s))
  BY <1>1, <1>2 DEF Bijection, Injection, Surjection, IsInjective
<1>4. IsFiniteSet(1..Len(s)) /\ Cardinality(1..Len(s)) = Len(s)
  BY <1>1, FS_Interval
<1>5. IsFiniteSet(ToSet(s)) /\ Cardinality(ToSet(s)) = Cardinality(1..Len(s))
  BY <1>3, <1>4, FS_Bijection, FS_Surjection DEF Bijection
<1> QED BY <1>1, <1>2, <1>4, <1>5

\* Where there is room nothing is dropped.
LEMMA CacheJoined ==
  ASSUME NEW s \in Seq(Ids), IsInjective(s), Len(s) < CacheSize, NEW x \in Ids, x \notin ToSet(s)
  PROVE  ToSet(Inserted(s, x)) = ToSet(s) \cup {x}
<1>1. SubSeq(s, 1, Len(s)) = s /\ Len(s) \in Nat /\ CacheSize \in Nat
  BY RestoreAssumption
<1>2. Len(s) # CacheSize
  <2>1. Len(s) < CacheSize /\ Len(s) \in Nat /\ CacheSize \in Nat
    BY <1>1
  <2> QED BY ONLY <2>1
<1>3. Inserted(s, x) = <<x>> \o s
  BY <1>1, <1>2, Zenon DEF Inserted
<1> QED BY <1>3, CacheFront

\* What is kicked is accessed after all that stays.
LEMMA KickedLast ==
  ASSUME Len(records) \in Nat, NEW t, NEW lo \in Nat, lo # 0, Window(t, lo, Len(records)),
         ToSet(cache) \subseteq DOMAIN t,
         NEW kickable \in Kickable(t), NEW kicked \in kickable, kickable \subseteq ToSet(cache),
         NEW v \in ToSet(cache)
  PROVE  Sooner(lo, v, kicked)
<1> DEFINE cached == ToSet(cache)
           unused == {id \in cached : t[id] = {}}
<1>1. \A id \in cached : t[id] = {q \in lo..Len(records) : records[q] = id}
  BY DEF Window
<1>2. \A id \in cached : t[id] \in SUBSET Nat
  BY <1>1
<1>3. SUFFICES ASSUME NEW q \in lo..Len(records) - 1, records[q] = kicked
               PROVE  \E o \in lo..q : records[o] = v
  BY DEF Sooner
<1>4. q \in t[kicked] /\ kicked \in cached
  BY <1>1, <1>3
<1>5. unused = {}
  <2>1. ASSUME unused # {} PROVE kickable \subseteq unused
    BY <2>1 DEF Kickable, kSubset
  <2> QED BY <1>4, <2>1
<1>6. Min(t[v]) <= Min(t[kicked])
  <2>1. kickable = {id \in cached : \A other \in cached : Min(t[other]) <= Min(t[id])}
    BY <1>5 DEF Kickable
  <2> QED BY <2>1
<1>7. Min(t[v]) \in t[v] /\ Min(t[kicked]) <= q /\ Min(t[kicked]) \in Nat
  <2>1. t[v] # {} /\ t[kicked] # {}
    BY <1>4, <1>5
  <2>2. Min(t[v]) \in t[v]
    BY <1>2, <2>1, MinIs
  <2>3. Min(t[kicked]) \in t[kicked] /\ \A y \in t[kicked] : Min(t[kicked]) <= y
    BY <1>2, <1>4, <2>1, MinIs
  <2> QED BY <1>2, <1>4, <2>2, <2>3
<1> DEFINE o == Min(t[v])
<1>8. o \in lo..Len(records) /\ records[o] = v
  BY <1>1, <1>7
<1>9. o <= q
  <2> HIDE DEF o
  <2>1. o \in Nat /\ o <= Min(t[kicked])
    BY <1>6, <1>8 DEF o
  <2> QED BY <1>7, <2>1
<1> HIDE DEF o
<1>10. o \in lo..q
  BY <1>8, <1>9
<1> QED BY <1>8, <1>10

\* What is found is moved to the front.
LEMMA OptHit ==
  ASSUME NEW t, NEW id, cache \in Seq(Ids), IsInjective(cache), id \in ToSet(cache),
         OptAccess(id, t)
  PROVE  ToSet(cache') = ToSet(cache) /\ reads' = reads
<1> DEFINE hits == {i \in DOMAIN cache : cache[i] = id}
<1>1. DOMAIN cache = 1..Len(cache) /\ hits # {} /\ hits \in SUBSET Nat
  BY DEF ToSet
<1>2. Min(hits) \in hits
  <2> HIDE DEF hits
  <2> QED BY <1>1, MinIs
<1>3. PICK i \in 1..Len(cache) : i = Min(hits)
  BY <1>1, <1>2
<1>4. cache' = Promoted(i) /\ reads' = reads
  BY <1>1, <1>3 DEF OptAccess
<1> QED BY <1>4, CachePromoted

\* An access leaves the reads that are made and those that are needed the same
\* together.
LEMMA OptAccessReads ==
  ASSUME Recorded, NEW m, Costs(m, 1), NEW p \in 1..Len(records) - 1,
         NEW t, Window(t, p + 1, Len(records)), ToSet(cache) \subseteq DOMAIN t,
         cache \in Seq(Ids), Len(cache) <= CacheSize, IsInjective(cache), reads \in Nat,
         OptAccess(records[p], t)
  PROVE  reads' + m[p + 1][ToSet(cache')] = reads + m[p][ToSet(cache)]
<1> DEFINE id == records[p]
           C == ToSet(cache)
<1>1. /\ Len(records) \in Nat /\ id \in Ids /\ p \in 1..Len(records) /\ p + 1 \in 1..Len(records)
      /\ CacheSize \in Nat /\ Len(cache) \in Nat
  BY RestoreAssumption DEF Recorded
<1>2. Fits(C) /\ Cardinality(C) = Len(cache)
  BY CacheCount DEF Fits
<1>3. Counted(m, p + 1) /\ Swapping(m, p + 1)
  BY <1>1, Exchange
<1>4. Counted(m, p) /\ Hits(m, p) /\ Reads(m, p) /\ Kicks(m, p)
  BY <1>3, CostsCount
<1>5. m[p][C] \in Nat
  BY <1>2, <1>4 DEF Counted
<1> SUFFICES reads' + m[p + 1][ToSet(cache')] = reads + m[p][C]
  OBVIOUS
<1>6. CASE id \in C
  <2>1. ToSet(cache') = C /\ reads' = reads
    BY <1>6, OptHit
  <2>2. m[p][C] = m[p + 1][C]
    BY <1>2, <1>4, <1>6 DEF Hits
  <2> QED BY <2>1, <2>2
<1>7. CASE id \notin C
  <2>1. OptInsert(id, t) /\ reads' = reads + 1
    BY <1>7 DEF OptAccess, OptInsert, ToSet
  <2>2. CASE Len(cache) < CacheSize
    <3>1. cache' = Inserted(cache, id)
      BY <2>1, <2>2 DEF OptInsert
    <3>2. ToSet(cache') = C \cup {id}
      BY <1>1, <1>7, <2>2, <3>1, CacheJoined
    <3>3. m[p][C] = 1 + m[p + 1][C \cup {id}]
      BY <1>2, <1>4, <1>7, <2>2 DEF Reads, Room
    <3>4. m[p + 1][C \cup {id}] \in Nat
      BY <1>1, <1>2, <1>3, <1>7, <2>2, FitsWith DEF Counted, Room
    <3> DEFINE after == m[p + 1][C \cup {id}]
    <3>5. /\ reads \in Nat /\ reads' = reads + 1 /\ after \in Nat /\ m[p][C] = 1 + after
          /\ m[p + 1][ToSet(cache')] = after
      BY <2>1, <3>2, <3>3, <3>4
    <3> HIDE DEF id, C, after
    <3> QED BY ONLY <3>5
  <2>3. CASE ~(Len(cache) < CacheSize)
    <3>1. PICK kickable \in Kickable(t) :
            cache' = Inserted(RemoveAt(cache, KickedAt(kickable)), id)
      BY <2>1, <2>3 DEF OptInsert
    <3>2. kickable # {} /\ kickable \subseteq C
      <4>1. cache # <<>> /\ p + 1 \in Nat /\ Len(records) \in Nat
        BY <1>1, <2>3, RestoreAssumption
      <4> QED BY <4>1, KickableIs
    <3>3. PICK at \in 1..Len(cache) : at = KickedAt(kickable) /\ cache[at] \in kickable
      <4> DEFINE K == {i \in DOMAIN cache : cache[i] \in kickable}
      <4>1. K \in SUBSET (0..Len(cache)) /\ K # {}
        BY <1>1, <3>2 DEF ToSet
      <4>2. Max(K) \in K
        <5> HIDE DEF K
        <5> QED BY <1>1, <4>1, MaxIs
      <4>3. KickedAt(kickable) = Max(K)
        BY DEF KickedAt
      <4>4. Max(K) \in 1..Len(cache) /\ cache[Max(K)] \in kickable
        BY <1>1, <4>2
      <4> HIDE DEF K
      <4> QED BY <4>3, <4>4
    <3>4. PICK kicked : kicked = cache[at] /\ kicked \in kickable /\ kicked \in C /\ kicked \in Ids
      BY <1>1, <3>2, <3>3
    <3>5. PICK r \in Seq(Ids) :
            /\ r = RemoveAt(cache, at) /\ Len(r) = Len(cache) - 1 /\ IsInjective(r)
            /\ ToSet(r) = C \ {kicked}
      BY <3>4, CacheRemoval
    <3>6. ToSet(cache') = (C \ {kicked}) \cup {id}
      <4>1. cache' = Inserted(r, id)
        BY <3>1, <3>3, <3>5
      <4>2. Len(r) < CacheSize /\ id \notin ToSet(r)
        BY <1>1, <1>7, <3>5
      <4> QED BY <1>1, <3>5, <4>1, <4>2, CacheJoined
    <3>7. /\ \A v \in C : m[p][C] <= 1 + m[p + 1][(C \ {v}) \cup {id}]
          /\ \E v \in C : m[p][C] = 1 + m[p + 1][(C \ {v}) \cup {id}]
      BY <1>2, <1>4, <1>7, <2>3 DEF Kicks, Room
    <3>8. PICK v \in C : m[p][C] = 1 + m[p + 1][(C \ {v}) \cup {id}]
      BY <3>7
    <3> DEFINE with == m[p + 1][(C \ {kicked}) \cup {id}]
               best == m[p + 1][(C \ {v}) \cup {id}]
    <3>9. with \in Nat /\ best \in Nat
      <4>1. \A x \in C : Fits(C \ {x}) /\ Room(C \ {x}) /\ id \notin C \ {x}
        BY <1>1, <1>2, <1>7, FitsWith
      <4>2. Fits((C \ {kicked}) \cup {id}) /\ Fits((C \ {v}) \cup {id})
        BY <1>1, <3>4, <4>1, FitsWith
      <4> QED BY <1>3, <4>2 DEF Counted
    <3>10. with <= best
      <4>1. CASE v = kicked
        BY <3>9, <4>1
      <4>2. CASE v # kicked
        <5>1. Sooner(p + 1, v, kicked)
          <6>1. p + 1 \in Nat /\ p + 1 # 0
            OBVIOUS
          <6> QED BY <1>1, <3>2, <3>4, <6>1, KickedLast
        <5> DEFINE D == C \ {kicked}
                   B == (D \ {v}) \cup {id}
        <5>2. Fits(D) /\ Room(D) /\ v \in D /\ id \notin D
          BY <1>1, <1>2, <1>7, <3>4, <4>2, FitsWith
        <5>3. /\ Fits(B) /\ Room(B) /\ v \in Ids \ B /\ B \cup {v} = D \cup {id}
              /\ kicked \in Ids \ B /\ B \cup {kicked} = ((D \cup {kicked}) \ {v}) \cup {id}
          <6>1. kicked \notin D /\ id # kicked /\ kicked \in Ids
            BY <1>7, <3>4
          <6> HIDE DEF D, id
          <6>2. /\ Fits(B) /\ Room(B) /\ v \in Ids \ B /\ B \cup {v} = D \cup {id}
                /\ \A b \in Ids : b \notin D /\ id # b =>
                     b \in Ids \ B /\ v # b /\ B \cup {b} = ((D \cup {b}) \ {v}) \cup {id}
            BY <1>1, <5>2, Replaced
          <6> HIDE DEF B
          <6> QED BY <6>1, <6>2
        <5>4. D \cup {kicked} = C
          BY <3>4
        <5> HIDE DEF B, D
        <5>5. m[p + 1][B \cup {v}] <= m[p + 1][B \cup {kicked}] + 0
          <6>1. 0 \in {0, 1}
            OBVIOUS
          <6> QED BY <1>3, <4>2, <5>1, <5>3, <6>1, Zenon DEF Swapping
        <5>6. m[p + 1][B \cup {v}] = with /\ m[p + 1][B \cup {kicked}] = best
          BY <5>3, <5>4 DEF D
        <5> HIDE DEF with, best
        <5> QED BY <3>9, <5>5, <5>6
      <4> QED BY <4>1, <4>2
    <3>11. m[p][C] <= 1 + with /\ m[p][C] = 1 + best
      BY <3>4, <3>7, <3>8
    <3>12. m[p + 1][ToSet(cache')] = with
      BY <3>6
    <3> HIDE DEF with, best, C, id
    <3> QED BY <1>5, <2>1, <3>9, <3>10, <3>11, <3>12, SMTT(30)
  <2> QED BY <2>2, <2>3
<1> QED BY <1>6, <1>7

\* With a window for all records, the reads that are made and those that are
\* needed for the records to come are together the fewest.
OptInv ==
  config.cache = "opt" /\ config.window >= Len(records) =>
    /\ sequence_number = Len(records)
    /\ \A m : Costs(m, 1) =>
         reads + m[sequence_number - buffered + 1][ToSet(cache)] = m[1][{}]

\* The backup stays, and what it takes to read it.
LEMMA CostsStay ==
  ASSUME records' = records, NEW m, Costs(m, 1)'
  PROVE  Costs(m, 1)
<1>1. \A row, p, c : CostOf(row, p, c)' = CostOf(row, p, c)
  BY DEF CostOf
<1>2. m = [p \in 1..Len(records) |-> [c \in SUBSET Ids |-> CostOf(m[p + 1], p, c)]]
  <2>1. m = [p \in 1..Len(records) |-> [c \in SUBSET Ids |-> CostOf(m[p + 1], p, c)']]
    BY DEF Costs
  <2> QED BY <1>1, <2>1
<1> QED BY <1>2 DEF Costs

\* So they are at the beginning.
LEMMA OptBeginning == Init => OptInv
<1> SUFFICES ASSUME Init, config.cache = "opt", config.window >= Len(records)
             PROVE  /\ sequence_number = Len(records)
                    /\ \A m : reads + m[sequence_number - buffered + 1][ToSet(cache)] = m[1][{}]
                                \/ ~Costs(m, 1)
  BY DEF OptInv
<1>1. Stream
  BY InitInvariant DEF IInv
<1>2. /\ sequence_number = FillSize(0, 0) /\ buffered = FillSize(0, 0)
      /\ cache = <<>> /\ reads = 0
  BY DEF Init
<1>3. /\ config.window \in Nat /\ Len(records) \in Nat /\ Len(records) # 0
  BY <1>1, BackupIs, RecordedIs DEF Recorded
<1>4. FillSize(0, 0) = Len(records)
  <2> DEFINE x == config.window - 0
             y == Len(records) - 0
             Z == {x, y}
  <2>1. Z \in SUBSET Nat /\ Z # {} /\ x \in Z /\ y \in Z /\ y <= x /\ y = Len(records)
    BY <1>3
  <2>2. FillSize(0, 0) = Min(Z)
    BY DEF FillSize
  <2> HIDE DEF x, y
  <2>3. (Min(Z) = x \/ Min(Z) = y) /\ Min(Z) <= y /\ x \in Nat /\ y \in Nat
    <3>1. Min(Z) \in Z /\ \A z \in Z : Min(Z) <= z
      <4> HIDE DEF Z
      <4> QED BY <2>1, MinIs
    <3> QED BY <2>1, <3>1
  <2> HIDE DEF Z
  <2> QED BY <2>1, <2>2, <2>3
<1>5. ToSet(cache) = {}
  BY <1>2 DEF ToSet
<1>6. ASSUME NEW m, Costs(m, 1)
      PROVE  reads + m[sequence_number - buffered + 1][ToSet(cache)] = m[1][{}]
  <2>1. 1 \in 1..Len(records) /\ sequence_number - buffered + 1 = 1
    BY <1>2, <1>3, <1>4
  <2>2. Fits({})
    BY FS_EmptySet, RestoreAssumption DEF Fits
  <2>3. m[1][{}] \in Nat
    BY <1>1, <1>6, <2>1, <2>2, RecordedIs, Exchange DEF Counted
  <2>4. m[sequence_number - buffered + 1][ToSet(cache)] = m[1][{}]
    BY <1>5, <2>1
  <2> QED BY <1>2, <2>3, <2>4
<1> QED BY <1>2, <1>4, <1>6

\* An access keeps them so.
LEMMA OptRestoreReads ==
  ASSUME IInv, OptInv, NEW c, Pops(c), OptRestore(c)
  PROVE  OptInv'
<1> DEFINE s == sequence_number
           b == buffered
           L == Len(records)
           k == IF 2 * b <= config.window THEN FillSize(s, b) ELSE 0
           t == FillTable(table, s, k)
           n == s - b
<1>1. Stream /\ CacheInv /\ WindowInv /\ IInv'
  BY OptRestoreStep DEF IInv
<1>2. /\ config.cache = "opt" /\ ~IsMark(c) /\ last_id' = c.id
      /\ c.id = last_id =>
           OptAccess(c.id, table) /\ UNCHANGED <<sequence_number, buffered>>
      /\ c.id # last_id /\ c.id \in DOMAIN t =>
           /\ OptAccess(c.id, [t EXCEPT ![c.id] = IF @ = {} THEN @ ELSE @ \ {Min(@)}])
           /\ sequence_number' = s + k /\ buffered' = b + k - 1
  BY DEF OptRestore
<1> HIDE DEF k, t
<1>3. records' = records /\ config' = config
  BY <1>1, PopsOne
<1> SUFFICES ASSUME config.window >= L
             PROVE  /\ sequence_number' = L
                    /\ \A m : Costs(m, 1) =>
                         reads' + m[sequence_number' - buffered' + 1][ToSet(cache')] = m[1][{}]
  <2>1. \A m : Costs(m, 1)' => Costs(m, 1)
    BY <1>3, CostsStay
  <2> QED BY <1>3, <2>1 DEF OptInv
<1>4. s = L /\ \A m : Costs(m, 1) => reads + m[n + 1][ToSet(cache)] = m[1][{}]
  BY <1>2 DEF OptInv
<1>5. /\ cache \in Seq(Ids) /\ Len(cache) <= CacheSize /\ IsInjective(cache) /\ reads \in Nat
  BY <1>1 DEF CacheInv
<1>6. /\ s \in 0..L /\ b \in 0..config.window /\ s = b + Upto(Accesses(All), Popped)
      /\ Window(table, s - b + 1, s) /\ ToSet(cache) \subseteq DOMAIN table
      /\ LastChunk(All, Popped, last_id)
      /\ last_id # TEMPORARY_ID => cache # <<>> /\ cache[1] = last_id
  BY <1>1, <1>2 DEF WindowInv
<1>7. c.id \in Ids /\ c.id # TEMPORARY_ID
  <2>1. c.id \in Ids
    BY <1>1, <1>2, PopsNext, PieceIs DEF IsMark
  <2> QED BY <2>1, RestoreAssumption DEF TEMPORARY_ID
<1>8. CASE c.id = last_id
  <2>1. c.id \in ToSet(cache)
    <3>1. 1 \in DOMAIN cache /\ cache[1] = c.id
      BY <1>5, <1>6, <1>7, <1>8
    <3> QED BY <3>1 DEF ToSet
  <2>2. ToSet(cache') = ToSet(cache) /\ reads' = reads
    BY <1>2, <1>5, <1>8, <2>1, OptHit
  <2>3. sequence_number' = L /\ sequence_number' - buffered' + 1 = n + 1
    BY <1>2, <1>4, <1>8
  <2> QED BY <1>4, <2>2, <2>3
<1>9. CASE c.id # last_id
  <2>1. /\ config.window \in Nat /\ L \in Nat /\ Recorded
        /\ Cardinality(Accesses(All)) \in Nat /\ L = Cardinality(Accesses(All)) + 1
        /\ \A p \in 1..L : records[p] \in Ids \cup {TEMPORARY_ID}
        /\ \A q \in Accesses(All) : /\ Upto(Accesses(All), q) \in 1..Cardinality(Accesses(All))
                                    /\ records[Upto(Accesses(All), q)] = All[q].id
    BY <1>1, BackupIs, RecordedIs
  <2>2. n \in Nat /\ n + 1 \in 1..L - 1 /\ records[n + 1] = c.id
    <3>1. /\ Popped \in Nat /\ c = All[Popped + 1] /\ Popped + 1 \in Chunks(All)
          /\ Chunks(All) \in SUBSET (1..Len(All)) /\ Chunks(All) \in SUBSET Nat
          /\ Accesses(All) \in SUBSET Nat
      BY <1>1, <1>2, PopsOne
    <3>2. Popped + 1 \in Accesses(All)
      <4>1. \A q \in Chunks(All) : 1 <= q
        BY <3>1
      <4> QED BY <1>6, <1>7, <1>9, <3>1, <4>1, NextChunk
    <3>3. /\ Upto(Accesses(All), Popped) \in Nat
          /\ Upto(Accesses(All), Popped + 1)
               = Upto(Accesses(All), Popped) + (IF Popped + 1 \in Accesses(All) THEN 1 ELSE 0)
      BY <3>1, UptoStep, Zenon
    <3>4. n = Upto(Accesses(All), Popped) /\ n \in Nat
      BY <1>6, <2>1, <3>3
    <3>5. Upto(Accesses(All), Popped + 1) = n + 1
      BY <3>2, <3>3, <3>4
    <3>6. PICK q \in Accesses(All) : q = Popped + 1
      BY <3>2
    <3>7. Upto(Accesses(All), q) \in 1..Cardinality(Accesses(All))
          /\ records[Upto(Accesses(All), q)] = All[q].id
      BY <2>1
    <3>8. n + 1 \in 1..Cardinality(Accesses(All)) /\ records[n + 1] = c.id
      BY <3>1, <3>5, <3>6, <3>7
    <3> HIDE DEF n
    <3> QED BY <2>1, <3>4, <3>8
  <2>3. k = 0
    <3>1. FillSize(s, b) \in Nat /\ s + FillSize(s, b) <= L
      <4>1. s \in Nat /\ b \in Nat /\ b <= config.window /\ s <= L
        BY <1>6, <2>1
      <4> QED BY <2>1, <4>1, FillSizeIs
    <3>2. FillSize(s, b) = 0
      BY ONLY <1>4, <2>1, <3>1
    <3> QED BY <3>2 DEF k
  <2>4. Window(t, n + 1, L) /\ DOMAIN table \subseteq DOMAIN t
    <3>1. /\ n + 1 \in Nat /\ L \in Nat /\ 0 \in Nat /\ n + 1 <= L + 1 /\ L + 0 <= Len(records)
          /\ L + 0 = L
      BY <2>1, <2>2
    <3>2. Window(table, n + 1, L) /\ t = FillTable(table, L, 0)
      BY <1>4, <1>6, <2>3 DEF t
    <3> HIDE DEF n
    <3>3. /\ Window(FillTable(table, L, 0), n + 1, L + 0)
          /\ DOMAIN table \subseteq DOMAIN FillTable(table, L, 0)
      BY <2>1, <3>1, <3>2, WindowFilled
    <3> QED BY <3>1, <3>2, <3>3
  <2>5. PICK u : u = [t EXCEPT ![c.id] = IF @ = {} THEN @ ELSE @ \ {Min(@)}]
    OBVIOUS
  <2>6. c.id \in DOMAIN t /\ Window(u, (n + 1) + 1, L) /\ DOMAIN u = DOMAIN t
    <3>1. n + 1 \in Nat /\ L \in Nat /\ n + 1 <= L
      BY <2>1, <2>2
    <3> HIDE DEF n
    <3> QED BY <2>2, <2>4, <2>5, <3>1, WindowUsed
  <2>7. OptAccess(c.id, u) /\ sequence_number' = s + 0 /\ buffered' = b + 0 - 1
    BY <1>2, <1>9, <2>3, <2>5, <2>6
  <2>8. ASSUME NEW m, Costs(m, 1)
        PROVE  reads' + m[(n + 1) + 1][ToSet(cache')] = reads + m[n + 1][ToSet(cache)]
    <3>1. OptAccess(records[n + 1], u) /\ ToSet(cache) \subseteq DOMAIN u
      BY <1>6, <2>2, <2>4, <2>6, <2>7
    <3> HIDE DEF n
    <3> QED BY <1>5, <2>1, <2>2, <2>6, <2>8, <3>1, OptAccessReads
  <2>9. sequence_number' = L /\ sequence_number' - buffered' + 1 = (n + 1) + 1
    BY <1>4, <1>6, <2>1, <2>7
  <2> QED BY <1>4, <2>8, <2>9
<1> QED BY <1>8, <1>9

\* So does every step.
LEMMA OptNext == IInv /\ OptInv /\ [Next]_vars => OptInv'
<1> SUFFICES ASSUME IInv, OptInv, [Next]_vars PROVE OptInv'
  OBVIOUS
<1>1. ASSUME UNCHANGED <<config, records, cache, reads, sequence_number, buffered>> PROVE OptInv'
  <2>1. \A m : Costs(m, 1)' => Costs(m, 1)
    BY <1>1, CostsStay
  <2> QED BY <1>1, <2>1 DEF OptInv
<1>2. ASSUME config.cache # "opt", config' = config PROVE OptInv'
  BY <1>2 DEF OptInv
<1>3. CASE RestoreNext
  <2>1. PICK c : /\ Pops(c)
                 /\ \/ config.cache # "asm" /\ PassMark(c)
                    \/ LruRestore(c) \/ OptRestore(c) \/ AsmRestore(c)
    BY <1>3 DEF RestoreNext
  <2>2. config' = config /\ records' = records
    BY <2>1 DEF Pops, backup
  <2>3. CASE PassMark(c)
    <3>1. UNCHANGED <<cache, reads, sequence_number, buffered>>
      BY <2>3 DEF PassMark, optVars
    <3> QED BY <1>1, <2>2, <3>1
  <2>4. CASE LruRestore(c) \/ AsmRestore(c)
    <3>1. config.cache # "opt"
      BY <2>4 DEF LruRestore, AsmRestore
    <3> QED BY <1>2, <2>2, <3>1
  <2>5. CASE OptRestore(c)
    BY <2>1, <2>5, OptRestoreReads
  <2> QED BY <2>1, <2>3, <2>4, <2>5
<1>4. CASE AsmDrain
  <2>1. config.cache # "opt" /\ config' = config
    BY <1>4 DEF AsmDrain, backup
  <2> QED BY <1>2, <2>1
<1>5. CASE \/ ReadRecipe \/ ReadRecipeEnd \/ PushChunk \/ RestoreEnd \/ WriteChunk \/ WriteEnd
           \/ UNCHANGED vars
  <2>1. UNCHANGED <<config, records, cache, reads, sequence_number, buffered>>
    BY <1>5 DEF vars, ReadRecipe, ReadRecipeEnd, PushChunk, RestoreEnd, WriteChunk, WriteEnd,
                backup, optVars
  <2> QED BY <1>1, <2>1
<1> QED BY <1>3, <1>4, <1>5 DEF Next, RecipeThread, RestoreThread, WriteThread

\* The optimal cache is optimal: with a window for all records no replacement of
\* containers, whatever it knows, does with fewer reads than
\* optimal_restore_thread, which kicks what is not accessed any more or accessed
\* last.
THEOREM AlwaysOptimalReads == Spec => []OptimalReads
<1>1. IInv /\ OptInv => OptimalReads
  <2> SUFFICES ASSUME IInv, OptInv, status = "done", config.cache = "opt",
                      config.window >= Len(records)
               PROVE  reads = FewestReads
    BY DEF OptimalReads
  <2>1. Stream /\ BackupInv /\ ReaderInv /\ QueueInv /\ EndInv /\ CacheInv /\ WindowInv
    BY DEF IInv, Stream
  <2>2. /\ Len(records) \in Nat /\ Len(records) # 0 /\ Recorded
        /\ Cardinality(Accesses(All)) \in Nat /\ Len(records) = Cardinality(Accesses(All)) + 1
    BY <2>1, BackupIs, RecordedIs DEF Recorded
  <2>3. PICK m : Costs(m, 1) /\ FewestReads = m[1][{}]
    BY <2>2, FewestIs
  <2>4. reads + m[sequence_number - buffered + 1][ToSet(cache)] = m[1][{}]
    BY <2>3 DEF OptInv
  <2>5. Popped = Len(All) /\ Len(All) \in Nat
    <3>1. /\ restore_recipe_queue = <<>> /\ file > Len(recipe)
      BY <2>1 DEF EndInv
    <3>2. Fetched = Len(All) /\ Len(All) \in Nat
      BY <2>1, <3>1, AllIs
    <3>3. Popped \in Nat /\ Fetched = Popped
      BY <2>1, <3>1, Lengths DEF Fetched
    <3> QED BY <3>2, <3>3
  <2>6. sequence_number - buffered + 1 = Len(records)
    <3>1. Accesses(All) \in SUBSET (1..Len(All))
      BY <2>1, AccessesAre DEF BackupInv, All
    <3>2. Upto(Accesses(All), Popped) = Cardinality(Accesses(All))
      BY <2>5, <3>1, UptoEnds
    <3>3. /\ sequence_number \in 0..Len(records) /\ buffered \in 0..config.window
          /\ sequence_number = buffered + Upto(Accesses(All), Popped)
      BY <2>1 DEF WindowInv
    <3>4. config.window \in Nat
      BY <2>1, BackupIs
    <3> QED BY <2>2, <3>2, <3>3, <3>4
  <2>7. m[Len(records)][ToSet(cache)] = 0
    <3>1. Len(records) \in 1..Len(records)
      BY <2>2
    <3>2. m[Len(records)] = [c \in SUBSET Ids |-> CostOf(m[Len(records) + 1], Len(records), c)]
      BY <2>3, <3>1 DEF Costs
    <3>3. ToSet(cache) \in SUBSET Ids
      BY <2>1, CacheCount DEF CacheInv
    <3> QED BY <3>2, <3>3 DEF CostOf
  <2>8. reads \in Nat
    BY <2>1 DEF CacheInv
  <2> QED BY <2>3, <2>4, <2>6, <2>7, <2>8
<1> QED BY <1>1, InitInvariant, NextInvariant, OptBeginning, OptNext, PTL DEF Spec
=============================================================================
