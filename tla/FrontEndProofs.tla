--------------------------- MODULE FrontEndProofs ---------------------------
(***************************************************************************)
(* chunk_thread stays within leftbuf, for every tree, every block size and *)
(* every geometry that start_chunk_phase accepts; behind it, chunks and    *)
(* segments have the sizes that were configured, and the assertions of the *)
(* phases hold; and what the dedup thread is delivered are the files of    *)
(* the tree, cut as if each had been read at once.                         *)
(*                                                                         *)
(* First the chunking algorithms themselves: each makes progress and stays *)
(* within the bytes it is given.  That a block fits behind what is left of *)
(* the one before it then rests on the order of read_queue: what the chunk *)
(* thread takes for a block is one, and no mark of a file, because marks   *)
(* and blocks alternate as they must.  The same order goes on through the  *)
(* other queues and the trace to the job that reads it.  That only the     *)
(* last segment is short rests on the NULL: it is the last that comes, and *)
(* with it the phases before the dedup phase have ended.                   *)
(*                                                                         *)
(* The stream of the files is last.  It has places: so many files, so many *)
(* bytes of the last.  Every element on its way, in whatever form, leads   *)
(* from one place to the next, and all of them together, popped, queued,   *)
(* written to the trace or held in the buffer, form one chain from what    *)
(* has been delivered to where the read thread is.  Each step moves one    *)
(* link of it.                                                             *)
(***************************************************************************)
EXTENDS FrontEnd, FiniteSetTheorems, SequenceTheorems, TLAPS

\* What the algorithms need of a prepared geometry.
Usable(g) ==
  /\ g.algorithm \in Algorithm
  /\ g.min \in Nat \ {0} /\ g.max \in Nat \ {0}
  /\ g.algorithm \in {"fixed", "file"} => g.avg \in Nat \ {0}

-----------------------------------------------------------------------------
(* Earliest and Latest choose from the set they are given.                 *)

\* The first of the cut points that match is one of them, if there is one.
LEMMA EarliestChosen ==
  ASSUME NEW S \in SUBSET Nat, NEW o
  PROVE  Earliest(S, o) \in S \cup {o}
<1>1. CASE S = {}
  BY <1>1 DEF Earliest
<1>2. CASE S # {}
  <2>1. PICK x \in S : \A y \in S : ~ (<<y, x>> \in OpToRel(<, Nat))
    BY <1>2, WFMin, NatLessThanWellFounded, Zenon
  <2>2. \A y \in S : ~(y < x)
    BY <2>1, Zenon DEF OpToRel
  <2>3. \A y \in S : x <= y
    BY <2>2
  <2>4. (CHOOSE i \in S : \A j \in S : i <= j) \in S
    BY <2>3
  <2> QED BY <1>2, <2>4 DEF Earliest
<1> QED BY <1>1, <1>2

\* The largest of S is as far below n as the smallest of its mirror image is above 0.
LEMMA LatestChosen ==
  ASSUME NEW n \in Nat, NEW S \in SUBSET (0..n), NEW o
  PROVE  Latest(S, o) \in S \cup {o}
<1>1. CASE S = {}
  BY <1>1 DEF Latest
<1>2. CASE S # {}
  <2> DEFINE T == {i \in 0..n : n - i \in S}
  <2>1. T \subseteq Nat /\ T # {}
    <3>1. PICK s \in S : TRUE
      BY <1>2
    <3>2. s \in 0..n
      BY <3>1
    <3>3. n - s \in 0..n /\ n - (n - s) = s
      BY <3>2
    <3>4. n - s \in T
      BY <3>1, <3>3
    <3>5. T \subseteq Nat
      OBVIOUS
    <3> QED BY <3>4, <3>5
  <2> HIDE DEF T
  <2>2. PICK x \in T : \A y \in T : ~ (<<y, x>> \in OpToRel(<, Nat))
    BY <2>1, WFMin, NatLessThanWellFounded, Zenon
  <2>3. \A y \in T : ~(y < x)
    BY <2>1, <2>2, Zenon DEF OpToRel
  <2>4. x \in 0..n /\ n - x \in S
    BY DEF T
  <2>5. ASSUME NEW j \in S PROVE n - x >= j
    <3>1. j \in 0..n /\ n - j \in 0..n /\ n - (n - j) = j
      OBVIOUS
    <3>2. n - j \in T
      BY <3>1 DEF T
    <3>3. ~(n - j < x)
      BY <2>3, <3>2
    <3> QED BY <2>4, <3>1, <3>3
  <2>6. (CHOOSE i \in S : \A j \in S : i >= j) \in S
    BY <2>4, <2>5
  <2> QED BY <1>2, <2>6 DEF Latest
<1> QED BY <1>1, <1>2

-----------------------------------------------------------------------------
(* Each algorithm.                                                         *)

\* A fixed-size chunk is not empty, no larger than the average and than what is left.
LEMMA FixedBounds ==
  ASSUME NEW g, g.avg \in Nat \ {0}, NEW p, Len(p) \in Nat \ {0}
  PROVE  fixed_chunk_data(g, p) \in 1..Len(p) /\ fixed_chunk_data(g, p) <= g.avg
BY DEF fixed_chunk_data, Smaller

\* The cut points of a scan are within the buffer and not beyond chunk_max_size.
LEMMA ScanBounds ==
  ASSUME NEW g, Usable(g), NEW p, Len(p) \in Nat, Len(p) > g.min,
         NEW S \in SUBSET Scanned(g, p),
         NEW o \in 1..Len(p)
  PROVE  /\ S \in SUBSET Nat /\ S \in SUBSET (0..Len(p))
         /\ \A n \in S \cup {o} : n \in 1..Len(p) /\ (o <= g.max => n <= g.max)
BY DEF Usable, Scanned, Smaller

\* Both forms of Rabin chunking stay within what is left and chunk_max_size.
LEMMA RabinBounds ==
  ASSUME NEW g, Usable(g), NEW p, Len(p) \in Nat, Len(p) > g.min
  PROVE  /\ rabin_chunk_data(g, p) \in 1..Len(p) /\ rabin_chunk_data(g, p) <= g.max
         /\ normalized_rabin_chunk_data(g, p) \in 1..Len(p)
         /\ normalized_rabin_chunk_data(g, p) <= g.max
<1>1. Smaller(g.max, Len(p)) \in 1..Len(p) /\ Smaller(g.max, Len(p)) <= g.max
  BY DEF Usable, Smaller
<1>2. ASSUME NEW S \in SUBSET Scanned(g, p)
      PROVE  /\ Earliest(S, Smaller(g.max, Len(p))) \in 1..Len(p)
             /\ Earliest(S, Smaller(g.max, Len(p))) <= g.max
  <2>1. S \in SUBSET Nat
    BY <1>1, ScanBounds
  <2>2. Earliest(S, Smaller(g.max, Len(p))) \in S \cup {Smaller(g.max, Len(p))}
    BY <2>1, EarliestChosen
  <2>3. \A n \in S \cup {Smaller(g.max, Len(p))} : n \in 1..Len(p) /\ n <= g.max
    BY <1>1, ScanBounds
  <2> QED BY <2>2, <2>3
<1>3. /\ {i \in Scanned(g, p) : Matches(p[i], Middle)} \in SUBSET Scanned(g, p)
      /\ {i \in Scanned(g, p) : Matches(p[i], IF i < g.avg THEN Strict ELSE Loose)}
           \in SUBSET Scanned(g, p)
  OBVIOUS
<1> QED BY <1>2, <1>3 DEF rabin_chunk_data, normalized_rabin_chunk_data

\* So does TTTD, whichever of its two masks decides.
LEMMA TttdBounds ==
  ASSUME NEW g, Usable(g), NEW p, Len(p) \in Nat, Len(p) > g.min
  PROVE  tttd_chunk_data(g, p) \in 1..Len(p) /\ tttd_chunk_data(g, p) <= g.max
<1> DEFINE S == {i \in Scanned(g, p) : Matches(p[i], Loose) /\ Matches(p[i], Middle)}
           B == {i \in Scanned(g, p) : Matches(p[i], Loose)}
           o == Smaller(g.max, Len(p))
<1>1. o \in 1..Len(p) /\ o <= g.max
  BY DEF Usable, Smaller
<1>2. S \in SUBSET Scanned(g, p) /\ B \in SUBSET Scanned(g, p)
  OBVIOUS
<1>3. tttd_chunk_data(g, p) = Earliest(S, Latest(B, o))
  BY DEF tttd_chunk_data
<1> HIDE DEF S, B, o
<1>4. Latest(B, o) \in B \cup {o}
  <2>1. B \in SUBSET (0..Len(p))
    BY <1>1, <1>2, ScanBounds
  <2> QED BY <2>1, LatestChosen
<1>5. Latest(B, o) \in 1..Len(p) /\ Latest(B, o) <= g.max
  BY <1>1, <1>2, <1>4, ScanBounds
<1>6. S \in SUBSET Nat
  BY <1>1, <1>2, ScanBounds
<1>7. Earliest(S, Latest(B, o)) \in S \cup {Latest(B, o)}
  BY <1>6, EarliestChosen
<1>8. Earliest(S, Latest(B, o)) \in 1..Len(p) /\ Earliest(S, Latest(B, o)) <= g.max
  BY <1>2, <1>5, <1>7, ScanBounds
<1> QED BY <1>3, <1>8

\* FastCDC does where chunk_min_size is not the larger one.
LEMMA FastcdcBounds ==
  ASSUME NEW g, Usable(g), NEW p, Len(p) \in Nat, Len(p) > g.min
  PROVE  /\ fastcdc_chunk_data(g, p) \in 1..Len(p)
         /\ g.min <= g.max => fastcdc_chunk_data(g, p) <= g.max
<1> DEFINE S == {i \in Scanned(g, p) :
                   Matches(p[i+1], IF i < g.avg THEN Strict ELSE Loose)}
           o == Larger(g.min, Smaller(g.max, Len(p)))
<1>1. o \in 1..Len(p) /\ (g.min <= g.max => o <= g.max)
  BY DEF Usable, Smaller, Larger
<1>2. S \in SUBSET Scanned(g, p)
  OBVIOUS
<1>3. fastcdc_chunk_data(g, p) = Earliest(S, o)
  BY DEF fastcdc_chunk_data
<1> HIDE DEF S, o
<1>4. Earliest(S, o) \in S \cup {o}
  BY <1>1, <1>2, ScanBounds, EarliestChosen
<1>5. /\ Earliest(S, o) \in 1..Len(p)
      /\ g.min <= g.max => Earliest(S, o) <= g.max
  BY <1>1, <1>2, <1>4, ScanBounds
<1> QED BY <1>3, <1>5

\* AE cuts within what is left.
LEMMA AeBounds ==
  ASSUME NEW g, NEW p, Len(p) \in Nat \ {0}
  PROVE  ae_chunk_data(g, p) \in 1..Len(p)
<1> DEFINE S == {k \in 1..Len(p)-Word : /\ p[k+1] > p[Extreme(p, k)+1]
                                        /\ \/ k = Extreme(p, k) + ae_window(g)
                                           \/ k = g.max}
<1>1. S \in SUBSET Nat /\ S \subseteq 1..Len(p)
  BY DEF Word
<1>2. ae_chunk_data(g, p) = Earliest(S, Len(p))
  BY DEF ae_chunk_data
<1> HIDE DEF S
<1>3. Earliest(S, Len(p)) \in S \cup {Len(p)}
  BY <1>1, EarliestChosen
<1>4. \A n \in Nat \ {0} : n \in 1..n
  OBVIOUS
<1>5. Len(p) \in 1..Len(p)
  BY <1>4, Zenon
<1>6. S \cup {Len(p)} \subseteq 1..Len(p)
  BY <1>1, <1>5, Zenon
<1> QED BY <1>2, <1>3, <1>6, Zenon

-----------------------------------------------------------------------------
(* All of them.                                                            *)

\* chunking is the function of the algorithm that is configured.
LEMMA ChunkingCases ==
  ASSUME NEW g, NEW p, ~TooShort(g, p)
  PROVE  /\ g.algorithm \in {"fixed", "file"} => chunking(g, p) = fixed_chunk_data(g, p)
         /\ g.algorithm = "ae" => chunking(g, p) = ae_chunk_data(g, p)
         /\ g.algorithm = "rabin" => chunking(g, p) = rabin_chunk_data(g, p)
         /\ g.algorithm = "normalized rabin" => chunking(g, p) = normalized_rabin_chunk_data(g, p)
         /\ g.algorithm = "tttd" => chunking(g, p) = tttd_chunk_data(g, p)
         /\ g.algorithm = "fastcdc" => chunking(g, p) = fastcdc_chunk_data(g, p)
BY DEF chunking

\* chunking cuts at least one byte and no more than are left: chunk_thread comes to
\* the end of every file, and its left buffer never runs below zero.
THEOREM ChunkingProgresses ==
  ASSUME NEW g, Usable(g), NEW p, Len(p) \in Nat \ {0}
  PROVE  chunking(g, p) \in 1..Len(p)
<1>1. CASE TooShort(g, p)
  BY <1>1 DEF chunking
<1>2. CASE ~TooShort(g, p) /\ g.algorithm \in {"fixed", "file"}
  BY <1>2, FixedBounds, ChunkingCases DEF Usable
<1>3. CASE ~TooShort(g, p) /\ g.algorithm = "ae"
  BY <1>3, AeBounds, ChunkingCases
<1>4. CASE ~TooShort(g, p) /\ g.algorithm \in {"rabin", "normalized rabin", "tttd", "fastcdc"}
  <2>1. ~(Len(p) <= g.min)
    BY <1>4 DEF TooShort
  <2>2. Len(p) > g.min
    BY <2>1 DEF Usable
  <2>3. CASE g.algorithm \in {"rabin", "normalized rabin"}
    BY <1>4, <2>2, <2>3, RabinBounds, ChunkingCases, Zenon
  <2>4. CASE g.algorithm = "tttd"
    BY <1>4, <2>2, <2>4, TttdBounds, ChunkingCases, Zenon
  <2>5. CASE g.algorithm = "fastcdc"
    BY <1>4, <2>2, <2>5, FastcdcBounds, ChunkingCases, Zenon
  <2> QED BY <1>4, <2>3, <2>4, <2>5
<1> QED BY <1>1, <1>2, <1>3, <1>4 DEF Usable, Algorithm

\* No chunk is larger than chunk_max_size, where the sizes are in order, but for AE.
THEOREM ChunkingBounded ==
  ASSUME NEW g, Usable(g), NEW p, Len(p) \in Nat \ {0}, g.algorithm # "ae",
         g.min <= g.max, g.algorithm \in {"fixed", "file"} => g.avg <= g.max
  PROVE  chunking(g, p) <= g.max
<1>1. CASE TooShort(g, p)
  <2>1. chunking(g, p) = Len(p) /\ Len(p) <= g.min
    BY <1>1 DEF chunking, TooShort
  <2> QED BY <2>1 DEF Usable
<1>2. CASE ~TooShort(g, p) /\ g.algorithm \in {"fixed", "file"}
  <2>1. fixed_chunk_data(g, p) \in 1..Len(p) /\ fixed_chunk_data(g, p) <= g.avg
    BY <1>2, FixedBounds DEF Usable
  <2>2. chunking(g, p) = fixed_chunk_data(g, p)
    BY <1>2, ChunkingCases
  <2> QED BY <1>2, <2>1, <2>2 DEF Usable
<1>3. CASE ~TooShort(g, p) /\ g.algorithm \in {"rabin", "normalized rabin", "tttd", "fastcdc"}
  <2>1. ~(Len(p) <= g.min)
    BY <1>3 DEF TooShort
  <2>2. Len(p) > g.min
    BY <2>1 DEF Usable
  <2> QED BY <1>3, <2>2, RabinBounds, TttdBounds, FastcdcBounds, ChunkingCases
<1> QED BY <1>1, <1>2, <1>3 DEF Usable, Algorithm

-----------------------------------------------------------------------------
(* The buffer of chunk_thread.                                             *)

\* What the queues hold.
Element == [type : {"FILE_START", "FILE_END", "NULL", "data"}, data : Seq(Nat) \cup Seq(Byte),
            fp : {<<>>}, size : Nat]
Continues(e) == e.type \in {"data", "FILE_END"}
Opens(e) == e.type \in {"FILE_START", "data"}

\* The chunk thread is between the FILE_START and the FILE_END of a file.
InFile == chunker.pc = "first" \/ (chunker.pc = "cut" /\ chunker.c = Nothing)

Types ==
  /\ source \in Sources /\ config \in Configs
  /\ reading \in BOOLEAN /\ unread \in Seq(Byte)
  /\ read_queue \in Seq(Element)
  /\ chunker \in [pc : {"start", "first", "cut", "done"}, c : {Nothing, FILE_END},
                  leftoff : Nat, leftlen : Nat]
  /\ leftbuf \in [1..BufferSize -> Byte]

\* A block of a file is no larger than DEFAULT_BLOCK_SIZE.
Blocks ==
  \A i \in 1..Len(read_queue) :
    /\ read_queue[i].type = "data" =>
         read_queue[i].data \in Seq(Byte) /\ read_queue[i].size <= config.block
    /\ read_queue[i].type = "FILE_END" => read_queue[i] = FILE_END
    /\ read_queue[i].type = "NULL" => read_queue[i] = NULL

\* Marks and blocks alternate, from the chunk thread to the read thread.
Order ==
  /\ \A i \in 1..Len(read_queue) :
       Continues(read_queue[i]) <=> IF i = 1 THEN InFile ELSE Opens(read_queue[i-1])
  /\ reading <=> IF read_queue = <<>> THEN InFile ELSE Opens(read_queue[Len(read_queue)])

\* Between two files nothing is left.
Empty ==
  chunker.pc # "cut" => chunker.leftoff = 0 /\ chunker.leftlen = 0 /\ chunker.c = Nothing

BufferInv == Types /\ Blocks /\ Order /\ Empty /\ LeftBufferFits

-----------------------------------------------------------------------------
\* A prepared geometry is one that the chunking algorithms work with.
LEMMA PreparedUsable ==
  ASSUME config \in Configs
  PROVE  Usable(geometry) /\ config.block \in Nat \ {0} /\ BufferSize \in Nat \ {0}
<1>1. /\ config.geometry \in Geometry /\ config.block \in Nat \ {0}
  BY FrontEndAssumption DEF Config
<1>2. /\ config.geometry.algorithm \in Algorithm /\ config.geometry.min \in Nat \ {0}
      /\ config.geometry.avg \in Nat \ {0} /\ config.geometry.max \in Nat \ {0}
      /\ DOMAIN config.geometry = {"algorithm", "min", "avg", "max"}
  BY <1>1 DEF Geometry
<1>3. CASE config.geometry.algorithm \in {"rabin", "normalized rabin", "tttd"}
  <2>1. geometry = [config.geometry EXCEPT !.avg = PowerOfTwo(@)]
    BY <1>3 DEF geometry, Prepared
  <2>2. geometry.algorithm = config.geometry.algorithm /\ geometry.min = config.geometry.min
        /\ geometry.max = config.geometry.max
    BY <1>1, <2>1 DEF Geometry
  <2>3. BufferSize \in Nat \ {0}
    BY <1>1, <1>2, <2>2 DEF BufferSize
  <2>4. geometry.algorithm \notin {"fixed", "file"}
    BY <1>3, <2>2
  <2> QED BY <1>1, <1>2, <2>2, <2>3, <2>4 DEF Usable
<1>4. CASE config.geometry.algorithm = "fixed"
  <2>1. geometry = [config.geometry EXCEPT !.max = config.geometry.avg]
    BY <1>4 DEF geometry, Prepared
  <2>2. geometry.algorithm = config.geometry.algorithm /\ geometry.min = config.geometry.min
        /\ geometry.max = config.geometry.avg /\ geometry.avg = config.geometry.avg
    BY <1>1, <2>1 DEF Geometry
  <2> QED BY <1>1, <1>2, <1>4, <2>2 DEF Usable, BufferSize
<1>5. CASE config.geometry.algorithm = "file"
  <2>1. geometry = [config.geometry EXCEPT !.avg = ContainerRoom, !.max = ContainerRoom]
    BY <1>5 DEF geometry, Prepared
  <2>2. geometry.algorithm = config.geometry.algorithm /\ geometry.min = config.geometry.min
        /\ geometry.max = ContainerRoom /\ geometry.avg = ContainerRoom
    BY <1>1, <2>1 DEF Geometry
  <2> QED BY <1>1, <1>2, <1>5, <2>2, ChunkingAssumption DEF Usable, BufferSize
<1>6. CASE config.geometry.algorithm \in {"fastcdc", "ae"}
  <2>1. geometry = config.geometry
    BY <1>6 DEF geometry, Prepared
  <2> QED BY <1>1, <1>2, <1>6, <2>1 DEF Usable, BufferSize
<1> QED BY <1>2, <1>3, <1>4, <1>5, <1>6 DEF Algorithm

\* The invariant holds at the start of a backup.
LEMMA InitBuffer == Init => BufferInv
<1> SUFFICES ASSUME Init PROVE BufferInv
  OBVIOUS
<1>1. config \in Configs /\ BufferSize \in Nat
  BY PreparedUsable DEF Init
<1>2. (CHOOSE b \in Byte : TRUE) \in Byte
  BY ChunkingAssumption
<1>3. leftbuf \in [1..BufferSize -> Byte]
  BY <1>2 DEF Init
<1>4. chunker \in [pc : {"start", "first", "cut", "done"}, c : {Nothing, FILE_END},
                   leftoff : Nat, leftlen : Nat]
  BY DEF Init
<1>5. Types
  <2>1. unread \in Seq(Byte) /\ read_queue \in Seq(Element)
    BY DEF Init
  <2>2. source \in Sources /\ config \in Configs /\ reading \in BOOLEAN
    BY DEF Init
  <2> QED BY <1>3, <1>4, <2>1, <2>2 DEF Types
<1>6. Blocks /\ Order /\ Empty /\ LeftBufferFits
  BY <1>1 DEF Init, Blocks, Order, Empty, LeftBufferFits, InFile
<1> QED BY <1>5, <1>6 DEF BufferInv

-----------------------------------------------------------------------------
(* What leaves the state of the buffer alone.                              *)

bufferVars == <<source, config, reading, unread, read_queue, chunker, leftbuf>>

\* Steps that leave the read and chunk threads' state alone keep it.
LEMMA OthersKeepBuffer ==
  ASSUME BufferInv, UNCHANGED bufferVars
  PROVE  BufferInv'
BY DEF BufferInv, Types, Blocks, Order, Empty, LeftBufferFits, InFile, bufferVars, BufferSize,
       geometry

-----------------------------------------------------------------------------
(* The read thread appends.                                                *)

\* What the read thread pushes fits behind what is in read_queue.
LEMMA AppendKeepsBuffer ==
  ASSUME BufferInv, NEW e \in Element, read_queue' = Append(read_queue, e),
         UNCHANGED <<source, config, chunker, leftbuf>>,
         reading' \in BOOLEAN, unread' \in Seq(Byte),
         e.type = "data" => e.data \in Seq(Byte) /\ e.size <= config.block,
         e.type = "FILE_END" => e = FILE_END, e.type = "NULL" => e = NULL,
         Continues(e) <=> reading, Opens(e) <=> reading'
  PROVE  BufferInv'
<1> USE DEF BufferInv
<1>1. read_queue \in Seq(Element) /\ Len(read_queue) \in Nat
  BY DEF Types
<1>2. /\ read_queue' \in Seq(Element) /\ read_queue' # <<>>
      /\ Len(read_queue') = Len(read_queue) + 1
      /\ \A i \in 1..Len(read_queue) : read_queue'[i] = read_queue[i]
      /\ read_queue'[Len(read_queue) + 1] = e
  BY <1>1, AppendProperties
<1>3. Types' /\ Empty' /\ LeftBufferFits' /\ (InFile' <=> InFile)
  BY <1>2 DEF Types, Empty, LeftBufferFits, InFile, BufferSize, geometry
<1>4. Blocks'
  BY <1>1, <1>2 DEF Blocks
<1>5. Order'
  <2>1. ASSUME NEW i \in 1..Len(read_queue')
        PROVE  Continues(read_queue'[i]) <=>
                 IF i = 1 THEN InFile' ELSE Opens(read_queue'[i-1])
    <3>1. CASE i \in 1..Len(read_queue)
      <4>1. i # 1 => i - 1 \in 1..Len(read_queue)
        BY <1>1, <3>1
      <4>2. read_queue'[i] = read_queue[i] /\ (i # 1 => read_queue'[i-1] = read_queue[i-1])
        BY <1>2, <3>1, <4>1
      <4>3. Continues(read_queue[i]) <=> IF i = 1 THEN InFile ELSE Opens(read_queue[i-1])
        BY <3>1 DEF Order
      <4> QED BY <1>3, <4>2, <4>3
    <3>2. CASE i = Len(read_queue) + 1
      <4>1. read_queue'[i] = e
        BY <1>2, <3>2
      <4>2. CASE read_queue = <<>>
        <5>1. i = 1 /\ (reading <=> InFile)
          BY <3>2, <4>2 DEF Order
        <5> QED BY <1>3, <4>1, <5>1
      <4>3. CASE read_queue # <<>>
        <5>1. i # 1 /\ i - 1 = Len(read_queue) /\ i - 1 \in 1..Len(read_queue)
          BY <1>1, <3>2, <4>3, EmptySeq
        <5>2. reading <=> Opens(read_queue[i-1])
          BY <4>3, <5>1 DEF Order
        <5>3. read_queue'[i-1] = read_queue[i-1]
          BY <1>2, <5>1
        <5> QED BY <4>1, <5>1, <5>2, <5>3
      <4> QED BY <4>2, <4>3
    <3> QED BY <1>1, <1>2, <3>1, <3>2
  <2>2. reading' <=> Opens(read_queue'[Len(read_queue')])
    BY <1>1, <1>2
  <2> QED BY <1>2, <2>1, <2>2 DEF Order
<1> QED BY <1>3, <1>4, <1>5

\* The read thread keeps it.
LEMMA ReadKeepsBuffer ==
  ASSUME BufferInv, Read
  PROVE  BufferInv'
<1>1. /\ source \in Seq(Entry) /\ config \in Configs /\ unread \in Seq(Byte)
      /\ reading \in BOOLEAN
  BY FrontEndAssumption DEF BufferInv, Types
<1>2. CASE OpenFile
  <2>1. source[at] \in Entry /\ ~reading
    BY <1>1, <1>2 DEF OpenFile, AtEntry
  <2>2. source[at].name \in Seq(Nat) /\ source[at].bytes \in Seq(Byte)
    BY <2>1 DEF Entry
  <2>3. FILE_START(source[at].name) \in Element
    BY <2>2 DEF FILE_START, Chunk, Element
  <2> QED BY <1>2, <2>1, <2>2, <2>3, AppendKeepsBuffer
          DEF OpenFile, chunkVars, FILE_START, Chunk, Continues, Opens
<1>3. CASE ReadBlock
  <2> DEFINE n == Smaller(config.block, Len(unread))
             block == SubSeq(unread, 1, n)
             e == Chunk("data", block)
  <2>1. n \in 1..Len(unread) /\ n <= config.block /\ Len(unread) \in Nat
    BY <1>1, <1>3, PreparedUsable, EmptySeq DEF ReadBlock, Smaller
  <2>2. block \in Seq(Byte) /\ Len(block) = n
    BY <1>1, <2>1, SubSeqProperties
  <2>3. SubSeq(unread, n+1, Len(unread)) \in Seq(Byte)
    BY <1>1, <2>1, SubSeqProperties
  <2>4. /\ read_queue' = Append(read_queue, e) /\ unread' = SubSeq(unread, n+1, Len(unread))
        /\ reading /\ UNCHANGED <<source, config, reading, chunker, leftbuf>>
    BY <1>3 DEF ReadBlock, chunkVars
  <2> HIDE DEF n, block
  <2>5. e \in Element /\ e.type = "data" /\ e.data = block /\ e.size = n
    BY <2>1, <2>2 DEF Chunk, Element
  <2> HIDE DEF e
  <2> QED BY <1>1, <2>1, <2>2, <2>3, <2>4, <2>5, AppendKeepsBuffer DEF Continues, Opens
<1>4. CASE CloseFile
  <2>1. FILE_END \in Element /\ FILE_END.type = "FILE_END"
    BY DEF FILE_END, Chunk, Element
  <2> QED BY <1>1, <1>4, <2>1, AppendKeepsBuffer DEF CloseFile, chunkVars, Continues, Opens
<1>5. CASE EntryGone
  BY <1>5, OthersKeepBuffer DEF EntryGone, bufferVars, chunkVars
<1>6. CASE ReadEnds
  <2>1. NULL \in Element /\ NULL.type = "NULL"
    BY DEF NULL, Chunk, Element
  <2> QED BY <1>1, <1>6, <2>1, AppendKeepsBuffer DEF ReadEnds, chunkVars, Continues, Opens
<1> QED BY <1>2, <1>3, <1>4, <1>5, <1>6 DEF Read

-----------------------------------------------------------------------------
(* The chunk thread takes the head.                                        *)

\* A mark or a block comes after a FILE_START, and it is a block unless it is FILE_END.
LEMMA HeadInFile ==
  ASSUME BufferInv, read_queue # <<>>
  PROVE  /\ Head(read_queue) \in Element
         /\ Continues(Head(read_queue)) <=> InFile
         /\ ~InFile => Head(read_queue) = NULL \/ Head(read_queue).type = "FILE_START"
         /\ InFile /\ Head(read_queue) # FILE_END =>
              /\ Head(read_queue).type = "data" /\ Head(read_queue).data \in Seq(Byte)
              /\ Head(read_queue).size \in Nat /\ Head(read_queue).size <= config.block
<1> USE DEF BufferInv
<1>1. read_queue \in Seq(Element) /\ 1 \in 1..Len(read_queue)
  BY EmptySeq DEF Types
<1>2. Head(read_queue) = read_queue[1] /\ Head(read_queue) \in Element
  BY <1>1
<1>3. Continues(Head(read_queue)) <=> InFile
  BY <1>1, <1>2 DEF Order
<1> QED BY <1>1, <1>2, <1>3 DEF Blocks, Continues, Element

\* The queue without its head is in order, if the head is what the chunk thread
\* goes into or out of a file with.
LEMMA TailInOrder ==
  ASSUME BufferInv, read_queue # <<>>, read_queue' = Tail(read_queue),
         UNCHANGED <<source, config, reading>>,
         InFile' <=> Opens(Head(read_queue))
  PROVE  read_queue' \in Seq(Element) /\ Blocks' /\ Order'
<1> USE DEF BufferInv
<1>1. read_queue \in Seq(Element) /\ Len(read_queue) \in Nat \ {0}
  BY EmptySeq DEF Types
<1>2. /\ read_queue' \in Seq(Element) /\ Len(read_queue') = Len(read_queue) - 1
      /\ \A i \in 1..Len(read_queue') : read_queue'[i] = read_queue[i+1]
      /\ Head(read_queue) = read_queue[1]
  BY <1>1, HeadTailProperties
<1>3. Blocks'
  BY <1>1, <1>2 DEF Blocks
<1>4. ASSUME NEW i \in 1..Len(read_queue')
      PROVE  Continues(read_queue'[i]) <=>
               IF i = 1 THEN InFile' ELSE Opens(read_queue'[i-1])
  <2>1. i + 1 \in 1..Len(read_queue) /\ i + 1 # 1 /\ (i + 1) - 1 = i
    BY <1>1, <1>2
  <2>2. Continues(read_queue[i+1]) <=> Opens(read_queue[i])
    BY <2>1 DEF Order
  <2>3. i # 1 => i - 1 \in 1..Len(read_queue') /\ (i - 1) + 1 = i
    BY <1>1, <1>2
  <2>4. i # 1 => read_queue'[i-1] = read_queue[i]
    BY <1>2, <2>3
  <2> QED BY <1>2, <2>2, <2>4
<1>5. reading <=> Opens(read_queue[Len(read_queue)])
  BY DEF Order
<1>6. CASE read_queue' = <<>>
  <2>1. Len(read_queue) = 1
    BY <1>1, <1>2, <1>6
  <2>2. reading' <=> InFile'
    BY <1>2, <1>5, <2>1
  <2> QED BY <1>2, <1>3, <1>4, <1>6, <2>2 DEF Order
<1>7. CASE read_queue' # <<>>
  <2>1. Len(read_queue') \in 1..Len(read_queue')
    BY <1>1, <1>2, <1>7, EmptySeq
  <2>2. read_queue'[Len(read_queue')] = read_queue[Len(read_queue)]
    BY <1>1, <1>2, <2>1
  <2> QED BY <1>2, <1>3, <1>4, <1>5, <1>7, <2>2 DEF Order
<1> QED BY <1>6, <1>7

\* A block copied into the buffer leaves it a buffer of bytes.
LEMMA CopiedBytes ==
  ASSUME BufferInv, NEW to \in Nat, NEW data \in Seq(Byte)
  PROVE  Copied(to, data) \in [1..BufferSize -> Byte]
<1>1. leftbuf \in [1..BufferSize -> Byte]
  BY DEF BufferInv, Types
<1>2. BufferSize \in Nat /\ Len(data) \in Nat
  BY PreparedUsable DEF BufferInv, Types
<1>3. ASSUME NEW i \in 1..BufferSize, i \in to+1..to+Len(data)
      PROVE  data[i-to] \in Byte
  <2>1. i - to \in 1..Len(data)
    BY <1>2, <1>3
  <2> QED BY <2>1
<1> QED BY <1>1, <1>3 DEF Copied

\* The chunk thread keeps it: memcpy and memmove stay within leftbuf.
LEMMA CutKeepsBuffer ==
  ASSUME BufferInv, Cut
  PROVE  BufferInv'
<1>1. /\ Usable(geometry) /\ config.block \in Nat \ {0} /\ geometry.max \in Nat \ {0}
      /\ BufferSize = config.block + geometry.max /\ BufferSize \in Nat
  BY PreparedUsable DEF BufferInv, Types, Usable, BufferSize
<1>2. /\ chunker \in [pc : {"start", "first", "cut", "done"}, c : {Nothing, FILE_END},
                      leftoff : Nat, leftlen : Nat]
      /\ leftbuf \in [1..BufferSize -> Byte]
      /\ chunker.leftoff + chunker.leftlen <= BufferSize
  BY DEF BufferInv, Types, LeftBufferFits
<1>3. FILE_END # Nothing /\ NULL.type = "NULL" /\ FILE_END.type = "FILE_END"
  BY DEF FILE_END, Nothing, NULL, Chunk
<1>4. CASE ChunkFileStart
  <2> DEFINE e == Head(read_queue)
             pc == IF e = NULL THEN "done" ELSE "first"
  <2>1. ~InFile /\ read_queue # <<>> /\ chunker.pc = "start"
    BY <1>4 DEF ChunkFileStart, InFile
  <2>2. e = NULL \/ e.type = "FILE_START"
    BY <2>1, HeadInFile
  <2>3. /\ UNCHANGED <<source, config, reading, unread, leftbuf>>
        /\ read_queue' = Tail(read_queue) /\ chunker' = [chunker EXCEPT !.pc = pc]
    BY <1>4 DEF ChunkFileStart, readVars
  <2>4. chunker.leftoff = 0 /\ chunker.leftlen = 0 /\ chunker.c = Nothing
    BY <2>1 DEF BufferInv, Empty
  <2>5. InFile' <=> Opens(e)
    BY <1>2, <1>3, <2>2, <2>3 DEF InFile, Opens
  <2>6. read_queue' \in Seq(Element) /\ Blocks' /\ Order'
    BY <2>1, <2>3, <2>5, TailInOrder
  <2>7. Types' /\ Empty' /\ LeftBufferFits'
    BY <1>1, <1>2, <2>3, <2>4, <2>6
       DEF BufferInv, Types, Empty, LeftBufferFits, BufferSize, geometry
  <2> QED BY <2>6, <2>7 DEF BufferInv
<1>5. CASE ChunkFirst
  <2> DEFINE e == Head(read_queue)
  <2>1. InFile /\ read_queue # <<>> /\ chunker.pc = "first"
    BY <1>5 DEF ChunkFirst, InFile
  <2>2. chunker.leftoff = 0 /\ chunker.leftlen = 0 /\ chunker.c = Nothing
    BY <2>1 DEF BufferInv, Empty
  <2>3. /\ UNCHANGED <<source, config, reading, unread>>
        /\ read_queue' = Tail(read_queue)
    BY <1>5 DEF ChunkFirst, readVars
  <2>4. CASE e = FILE_END
    <3>1. chunker' = [chunker EXCEPT !.pc = "cut", !.c = e] /\ leftbuf' = leftbuf
      BY <1>5, <2>4 DEF ChunkFirst
    <3>2. InFile' <=> Opens(e)
      BY <1>2, <1>3, <2>4, <3>1 DEF InFile, Opens
    <3>3. read_queue' \in Seq(Element) /\ Blocks' /\ Order'
      BY <2>1, <2>3, <3>2, TailInOrder
    <3>4. Types' /\ Empty' /\ LeftBufferFits'
      BY <1>1, <1>2, <2>2, <2>3, <2>4, <3>1, <3>3
         DEF BufferInv, Types, Empty, LeftBufferFits, BufferSize, geometry
    <3> QED BY <3>3, <3>4 DEF BufferInv
  <2>5. CASE e # FILE_END
    <3>1. /\ e.type = "data" /\ e.data \in Seq(Byte)
          /\ e.size \in Nat /\ e.size <= config.block
      BY <2>1, <2>5, HeadInFile
    <3>2. /\ chunker' = [chunker EXCEPT !.pc = "cut", !.leftlen = @ + e.size]
          /\ leftbuf' = Copied(0, e.data)
      BY <1>5, <2>5 DEF ChunkFirst
    <3>3. InFile' <=> Opens(e)
      BY <1>2, <2>2, <3>1, <3>2 DEF InFile, Opens
    <3>4. read_queue' \in Seq(Element) /\ Blocks' /\ Order'
      BY <2>1, <2>3, <3>3, TailInOrder
    <3>5. leftbuf' \in [1..BufferSize -> Byte]
      BY <3>1, <3>2, CopiedBytes
    <3>6. chunker'.leftoff = 0 /\ chunker'.leftlen = e.size /\ chunker'.pc = "cut"
      BY <1>2, <2>2, <3>1, <3>2
    <3>7. chunker' \in [pc : {"start", "first", "cut", "done"}, c : {Nothing, FILE_END},
                        leftoff : Nat, leftlen : Nat]
      <4>1. \A k \in Nat : [chunker EXCEPT !.pc = "cut", !.leftlen = k] \in
                 [pc : {"start", "first", "cut", "done"}, c : {Nothing, FILE_END},
                  leftoff : Nat, leftlen : Nat]
        BY <1>2
      <4>2. chunker.leftlen + e.size \in Nat
        BY <1>2, <3>1
      <4>3. chunker' = [chunker EXCEPT !.pc = "cut", !.leftlen = chunker.leftlen + e.size]
        BY <3>2
      <4> HIDE DEF e
      <4> QED BY <4>1, <4>2, <4>3, Zenon
    <3>8. UNCHANGED BufferSize
      BY <2>3 DEF BufferSize, geometry
    <3>9. Types'
      BY <2>3, <3>4, <3>5, <3>7, <3>8 DEF BufferInv, Types
    <3>10. Empty' /\ LeftBufferFits'
      BY <1>1, <3>1, <3>6, <3>8 DEF Empty, LeftBufferFits
    <3> QED BY <3>4, <3>9, <3>10 DEF BufferInv
  <2> QED BY <2>4, <2>5
<1>6. CASE ChunkFill
  <2> DEFINE e == Head(read_queue)
  <2>1. /\ InFile /\ read_queue # <<>> /\ chunker.pc = "cut" /\ chunker.c = Nothing
        /\ chunker.leftlen < geometry.max
    BY <1>6 DEF ChunkFill, Hungry, InFile
  <2>2. /\ UNCHANGED <<source, config, reading, unread>>
        /\ read_queue' = Tail(read_queue)
    BY <1>6 DEF ChunkFill, readVars
  <2>3. CASE e = FILE_END
    <3>1. chunker' = [chunker EXCEPT !.c = e] /\ leftbuf' = leftbuf
      BY <1>6, <2>3 DEF ChunkFill
    <3>2. InFile' <=> Opens(e)
      BY <1>2, <1>3, <2>1, <2>3, <3>1 DEF InFile, Opens
    <3>3. read_queue' \in Seq(Element) /\ Blocks' /\ Order'
      BY <2>1, <2>2, <3>2, TailInOrder
    <3>4. Types' /\ Empty' /\ LeftBufferFits'
      BY <1>1, <1>2, <2>1, <2>2, <2>3, <3>1, <3>3
         DEF BufferInv, Types, Empty, LeftBufferFits, BufferSize, geometry
    <3> QED BY <3>3, <3>4 DEF BufferInv
  <2>4. CASE e # FILE_END
    <3>1. /\ e.type = "data" /\ e.data \in Seq(Byte)
          /\ e.size \in Nat /\ e.size <= config.block
      BY <2>1, <2>4, HeadInFile
    <3>2. /\ chunker' = [chunker EXCEPT !.leftoff = 0, !.leftlen = @ + e.size]
          /\ leftbuf' = [i \in DOMAIN leftbuf |->
                           IF i <= chunker.leftlen THEN leftbuf[chunker.leftoff + i]
                           ELSE Copied(chunker.leftlen, e.data)[i]]
      BY <1>6, <2>4 DEF ChunkFill
    <3>3. InFile' <=> Opens(e)
      BY <1>2, <2>1, <3>1, <3>2 DEF InFile, Opens
    <3>4. read_queue' \in Seq(Element) /\ Blocks' /\ Order'
      BY <2>1, <2>2, <3>3, TailInOrder
    <3>5. leftbuf' \in [1..BufferSize -> Byte]
      <4>1. Copied(chunker.leftlen, e.data) \in [1..BufferSize -> Byte]
        BY <1>2, <3>1, CopiedBytes
      <4>2. ASSUME NEW i \in 1..BufferSize, i <= chunker.leftlen
            PROVE  leftbuf[chunker.leftoff + i] \in Byte
        <5>1. chunker.leftoff + i \in 1..BufferSize
          BY <1>1, <1>2, <4>2
        <5> QED BY <1>2, <5>1
      <4> QED BY <1>2, <3>2, <4>1, <4>2
    <3>6. /\ chunker'.leftoff = 0 /\ chunker'.leftlen = chunker.leftlen + e.size
          /\ chunker'.pc = "cut"
      BY <1>2, <2>1, <3>1, <3>2
    <3>7. chunker'.leftoff + chunker'.leftlen <= BufferSize
      BY <1>1, <1>2, <2>1, <3>1, <3>6
    <3>8. chunker' \in [pc : {"start", "first", "cut", "done"}, c : {Nothing, FILE_END},
                        leftoff : Nat, leftlen : Nat]
      <4>1. \A k \in Nat : [chunker EXCEPT !.leftoff = 0, !.leftlen = k] \in
                 [pc : {"start", "first", "cut", "done"}, c : {Nothing, FILE_END},
                  leftoff : Nat, leftlen : Nat]
        BY <1>2
      <4>2. chunker.leftlen + e.size \in Nat
        BY <1>2, <3>1
      <4>3. chunker' = [chunker EXCEPT !.leftoff = 0, !.leftlen = chunker.leftlen + e.size]
        BY <3>2
      <4> HIDE DEF e
      <4> QED BY <4>1, <4>2, <4>3, Zenon
    <3>9. UNCHANGED BufferSize
      BY <2>2 DEF BufferSize, geometry
    <3>10. Types'
      BY <2>2, <3>4, <3>5, <3>8, <3>9 DEF BufferInv, Types
    <3>11. Empty' /\ LeftBufferFits'
      BY <3>6, <3>7, <3>9 DEF Empty, LeftBufferFits
    <3> QED BY <3>4, <3>10, <3>11 DEF BufferInv
  <2> QED BY <2>3, <2>4
<1>7. CASE ChunkCut
  <2> DEFINE left == SubSeq(leftbuf, chunker.leftoff + 1, chunker.leftoff + chunker.leftlen)
             n == chunking(geometry, left)
  <2>1. /\ chunker.pc = "cut" /\ chunker.leftlen > 0
        /\ chunker' = [chunker EXCEPT !.leftoff = @ + n, !.leftlen = @ - n]
        /\ UNCHANGED <<source, config, reading, unread, read_queue, leftbuf>>
    BY <1>7 DEF ChunkCut, readVars
  <2>2. Len(left) = chunker.leftlen
    <3>1. \A i \in chunker.leftoff + 1..chunker.leftoff + chunker.leftlen : leftbuf[i] \in Byte
      <4>1. chunker.leftoff + 1..chunker.leftoff + chunker.leftlen \subseteq 1..BufferSize
        BY <1>1, <1>2
      <4> QED BY <1>2, <4>1
    <3>2. Len(left) = IF chunker.leftoff + 1 <= chunker.leftoff + chunker.leftlen
                      THEN chunker.leftoff + chunker.leftlen - (chunker.leftoff + 1) + 1 ELSE 0
      BY <1>2, <3>1, SubSeqProperties
    <3> QED BY <1>2, <2>1, <3>2
  <2>3. n \in 1..chunker.leftlen
    <3>1. Len(left) \in Nat \ {0}
      BY <1>2, <2>1, <2>2
    <3>2. n \in 1..Len(left)
      BY <1>1, <3>1, ChunkingProgresses
    <3> QED BY <2>2, <3>2
  <2> HIDE DEF n
  <2>4. /\ chunker'.leftoff = chunker.leftoff + n /\ chunker'.leftlen = chunker.leftlen - n
        /\ chunker'.pc = chunker.pc /\ chunker'.c = chunker.c
        /\ chunker'.leftoff \in Nat /\ chunker'.leftlen \in Nat
        /\ chunker'.leftoff + chunker'.leftlen <= BufferSize
    BY <1>1, <1>2, <2>1, <2>3
  <2>5. Types'
    BY <1>2, <2>1, <2>3, <2>4 DEF BufferInv, Types, BufferSize, geometry
  <2>6. Blocks' /\ Order' /\ Empty' /\ LeftBufferFits'
    BY <2>1, <2>4 DEF BufferInv, Blocks, Order, Empty, LeftBufferFits, InFile, BufferSize,
                      geometry
  <2> QED BY <2>5, <2>6 DEF BufferInv
<1>8. CASE ChunkFileEnd
  <2>1. /\ chunker.pc = "cut" /\ chunker.leftlen = 0 /\ ~Hungry
        /\ chunker' = [chunker EXCEPT !.pc = "start", !.c = Nothing, !.leftoff = 0]
        /\ UNCHANGED <<source, config, reading, unread, read_queue, leftbuf>>
    BY <1>8 DEF ChunkFileEnd, readVars
  <2>2. chunker.c # Nothing
    BY <1>1, <2>1 DEF Hungry
  <2>3. /\ chunker'.pc = "start" /\ chunker'.c = Nothing /\ chunker'.leftoff = 0
        /\ chunker'.leftlen = 0
    BY <1>2, <2>1
  <2>4. ~InFile /\ ~InFile'
    BY <2>1, <2>2, <2>3 DEF InFile
  <2>5. Types'
    BY <1>2, <2>1 DEF BufferInv, Types, BufferSize, geometry
  <2>6. Blocks' /\ Order' /\ Empty' /\ LeftBufferFits'
    BY <1>1, <2>1, <2>3, <2>4
       DEF BufferInv, Blocks, Order, Empty, LeftBufferFits, BufferSize, geometry
  <2> QED BY <2>5, <2>6 DEF BufferInv
<1>9. CASE ChunkPush
  BY <1>9, OthersKeepBuffer DEF ChunkPush, readVars, bufferVars
<1> QED BY <1>4, <1>5, <1>6, <1>7, <1>8, <1>9 DEF Cut

-----------------------------------------------------------------------------
(* The buffer is safe.                                                     *)

\* Every step keeps it.
LEMMA NextKeepsBuffer ==
  ASSUME BufferInv, [Next]_vars
  PROVE  BufferInv'
<1>1. CASE Read
  BY <1>1, ReadKeepsBuffer
<1>2. CASE Cut
  BY <1>2, CutKeepsBuffer
<1>3. CASE Hash
  BY <1>3, OthersKeepBuffer DEF Hash, HashPop, HashPush, readVars, chunkVars, bufferVars
<1>4. CASE Trace
  BY <1>4, OthersKeepBuffer
     DEF Trace, TraceWrite, TraceFileStart, TraceChunk, TraceEnds, readVars, chunkVars,
         bufferVars
<1>5. CASE Dedup
  BY <1>5, OthersKeepBuffer DEF Dedup, DedupPop, DedupPopTrace, readVars, chunkVars, bufferVars
<1>6. CASE UNCHANGED vars
  BY <1>6, OthersKeepBuffer DEF vars, readVars, chunkVars, bufferVars
<1> QED BY <1>1, <1>2, <1>3, <1>4, <1>5, <1>6 DEF Next

\* The invariant holds in every reachable state of the front end.
THEOREM SpecBuffer == Spec => []BufferInv
BY InitBuffer, NextKeepsBuffer, PTL DEF Spec

\* chunk_thread never writes past the end of leftbuf, whatever the files, the block
\* size and the chunking algorithm.
THEOREM LeftBufferIsSafe == Spec => []LeftBufferFits
<1>1. BufferInv => LeftBufferFits
  BY DEF BufferInv
<1> QED BY <1>1, SpecBuffer, PTL

\* The first assertion of chunk_thread holds: what follows a FILE_END is a FILE_START or
\* the end of read_queue.
THEOREM FilesAlternate ==
  Spec => [](chunker.pc = "start" /\ read_queue # <<>> =>
               Head(read_queue) = NULL \/ Head(read_queue).type = "FILE_START")
<1>1. BufferInv => (chunker.pc = "start" /\ read_queue # <<>> =>
                      Head(read_queue) = NULL \/ Head(read_queue).type = "FILE_START")
  BY HeadInFile DEF InFile
<1> QED BY <1>1, SpecBuffer, PTL

-----------------------------------------------------------------------------
(* Behind the chunk thread.                                                *)

\* What passes through the queues, with the fingerprint or without.
Piece == {x \in [type : {"FILE_START", "FILE_END", "NULL", "data"}, data : Seq(Nat),
                 fp : Seq(Nat), size : Nat] : x.type = "NULL" => x = NULL}

\* A sequence of whatever it holds.
IsSequence(q) == q \in Seq(ToSet(q))

\* e is in q; nothing follows it.
Has(q, e) == \E i \in 1..Len(q) : q[i] = e
Ending(q, e) == \A i \in 1..Len(q) : q[i] = e => i = Len(q)

\* Where an element begins and where it ends: inside of a file or outside.
Before(e) == IF Continues(e) THEN "inside" ELSE "outside"
After(e) == IF Opens(e) THEN "inside" ELSE "outside"

\* The elements of q lead from a to z.
Leads(q, a, z) ==
  /\ \A i \in 1..Len(q) : Before(q[i]) = IF i = 1 THEN a ELSE After(q[i-1])
  /\ z = IF q = <<>> THEN a ELSE After(q[Len(q)])

\* Where the chunk thread is with what it has pushed, and where the trace ends.
Cutting == IF chunker.pc \in {"first", "cut"} THEN "inside" ELSE "outside"
Traced ==
  IF trace # <<>> /\ Head(trace[Len(trace)]) \in {"name", "chunk"} THEN "inside" ELSE "outside"

\* The queues.
FlowTypes ==
  /\ chunk_queue \in Seq(Piece) /\ hash_queue \in Seq(Piece)
  /\ out \in (Piece \ {NULL}) \cup {Nothing}
  /\ hasher \in (Piece \ {NULL}) \cup {Nothing}
  /\ IsSequence(trace_queue)

\* From the chunk thread to the trace, marks and chunks alternate as in read_queue.
FlowOrder ==
  /\ out # Nothing => After(out) = Cutting
  /\ \E c, h \in {"inside", "outside"} :
       /\ Leads(chunk_queue, c, IF out = Nothing THEN Cutting ELSE Before(out))
       /\ IF hasher = Nothing THEN h = c ELSE h = Before(hasher) /\ c = After(hasher)
       /\ config.trace => Leads(hash_queue, Traced, h)

\* The lines of a trace, and which may follow one that begins with b.
Line == {StreamEnd, <<"file_end">>} \cup {<<"file_start", n>> : n \in Nat}
          \cup {<<"name", d>> : d \in Seq(Nat)}
          \cup {<<"chunk", hash2code(f), n>> : f \in Seq(Nat), n \in Nat}
Follows(b) ==
  CASE b = "file_start" -> {"name"}
    [] b \in {"name", "chunk"} -> {"chunk", "file_end"}
    [] OTHER -> {"file_start", "stream_end"}

\* Each line of t follows the one before.
InOrder(t) ==
  \A i \in 1..Len(t) :
    /\ i = 1 => Head(t[i]) \in Follows("stream_end")
    /\ i # 1 => Head(t[i]) \in Follows(Head(t[i-1]))

TraceInv ==
  /\ trace \in Seq(Line) /\ line \in 0..Len(trace)
  /\ InOrder(trace)
  /\ trace # <<>> => Head(trace[Len(trace)]) # "file_start"
  /\ line > 0 => Head(trace[line]) # "file_start"

\* Without a trace there is none.
TraceUsed == ~config.trace => trace = <<>> /\ trace_queue = <<>>

\* NULL is the last that goes through each of the queues.
ReadEnded == at = Len(source) + 2
CutEnded == chunker.pc = "done" /\ ReadEnded /\ read_queue = <<>> /\ out = Nothing
HashEnded == CutEnded /\ chunk_queue = <<>> /\ hasher = Nothing
TraceEnded == HashEnded /\ hash_queue = <<>>
EndInv ==
  /\ at \in 1..Len(source) + 2
  /\ reading => at \in 1..Len(source)
  /\ Has(read_queue, NULL) => ReadEnded
  /\ chunker.pc = "done" => CutEnded
  /\ Has(chunk_queue, NULL) => CutEnded
  /\ Has(hash_queue, NULL) => HashEnded
  /\ Has(trace, StreamEnd) => TraceEnded
  /\ Has(trace_queue, NULL) => TraceEnded /\ line = Len(trace)
  /\ Ending(read_queue, NULL) /\ Ending(chunk_queue, NULL) /\ Ending(hash_queue, NULL)
  /\ Ending(trace, StreamEnd) /\ Ending(trace_queue, NULL)

\* The segment under construction is none yet.
Unclosed ==
  CASE config.segmenting = "fixed" -> ChunkNum(tmp) < config.every
    [] config.segmenting = "file_defined" -> ~Has(tmp, FILE_END)
    [] OTHER -> NoAnchor(tmp) /\ (ChunkNum(tmp) <= config.segmin \/ ChunkNum(tmp) < config.segmax)

SegmentInv ==
  /\ IsSequence(tmp) /\ IsSequence(segments)
  /\ SegmentsAsConfigured
  /\ Ended \/ Unclosed

FrontInv ==
  BufferInv /\ ChunkSizeBounded /\ FlowTypes /\ FlowOrder /\ TraceInv /\ TraceUsed /\ EndInv /\ SegmentInv

\* An empty sequence has no element, another one has a last.
LEMMA LengthOf ==
  ASSUME NEW S, NEW q \in Seq(S)
  PROVE  Len(q) \in Nat /\ (q = <<>> <=> Len(q) = 0) /\ (q # <<>> => Len(q) \in 1..Len(q))
         /\ DOMAIN q = 1..Len(q) /\ \A i \in 1..Len(q) : q[i] \in S
<1>1. Len(q) \in Nat /\ (q = <<>> <=> Len(q) = 0) /\ DOMAIN q = 1..Len(q)
      /\ \A i \in 1..Len(q) : q[i] \in S
  BY EmptySeq
<1> QED BY <1>1

\* What Append does.
LEMMA Appended ==
  ASSUME NEW S, NEW q \in Seq(S), NEW e \in S
  PROVE  /\ Append(q, e) \in Seq(S) /\ Len(Append(q, e)) = Len(q) + 1 /\ Append(q, e) # <<>>
         /\ \A i \in 1..Len(q) : Append(q, e)[i] = q[i]
         /\ Append(q, e)[Len(q) + 1] = e
OBVIOUS

\* What it does twice.
LEMMA AppendedTwice ==
  ASSUME NEW S, NEW q \in Seq(S), NEW x \in S, NEW y \in S
  PROVE  q \o <<x, y>> = Append(Append(q, x), y)
<1>1. <<x>> \in Seq(S) /\ <<y>> \in Seq(S)
  OBVIOUS
<1>2. <<x, y>> = Append(<<x>>, y)
  OBVIOUS
<1>3. Append(<<x>>, y) = <<x>> \o <<y>>
  BY <1>1, AppendIsConcat
<1>4. q \o (<<x>> \o <<y>>) = (q \o <<x>>) \o <<y>>
  BY <1>1, ConcatAssociative
<1>5. Append(q, x) = q \o <<x>> /\ Append(q, x) \in Seq(S)
  BY AppendIsConcat, Appended
<1>6. Append(Append(q, x), y) = Append(q, x) \o <<y>>
  BY <1>5, AppendIsConcat
<1> QED BY <1>2, <1>3, <1>4, <1>5, <1>6

\* What Tail does.
LEMMA Popped ==
  ASSUME NEW S, NEW q \in Seq(S), q # <<>>
  PROVE  /\ Tail(q) \in Seq(S) /\ Len(Tail(q)) = Len(q) - 1 /\ Head(q) = q[1] /\ Head(q) \in S
         /\ \A i \in 1..Len(Tail(q)) : Tail(q)[i] = q[i+1] /\ i + 1 \in 1..Len(q)
<1>1. /\ Tail(q) \in Seq(S) /\ Len(Tail(q)) = Len(q) - 1 /\ Head(q) = q[1] /\ Head(q) \in S
      /\ \A i \in 1..Len(Tail(q)) : Tail(q)[i] = q[i+1]
  BY HeadTailProperties
<1>2. Len(q) \in Nat
  OBVIOUS
<1> QED BY <1>1, <1>2

\* A mark that comes last where none was before.
LEMMA EndingAppend ==
  ASSUME NEW S, NEW q \in Seq(S), NEW e \in S, NEW x, ~Has(q, x)
  PROVE  Ending(Append(q, e), x) /\ (Has(Append(q, e), x) => e = x)
<1> DEFINE r == Append(q, e)
<1>1. /\ Len(r) = Len(q) + 1 /\ Len(q) \in Nat
      /\ \A i \in 1..Len(q) : r[i] = q[i]
      /\ r[Len(q) + 1] = e
  BY Appended
<1> HIDE DEF r
<1>2. ASSUME NEW i \in 1..Len(r), r[i] = x PROVE i = Len(r) /\ e = x
  <2>1. i \in 1..Len(q) \/ i = Len(q) + 1
    BY <1>1
  <2> QED BY <1>1, <1>2, <2>1 DEF Has
<1> QED BY <1>2 DEF Ending, Has, r

\* What is left when the head of a queue is popped.
LEMMA EndingTail ==
  ASSUME NEW S, NEW q \in Seq(S), q # <<>>, NEW x, Ending(q, x)
  PROVE  /\ Ending(Tail(q), x) /\ (Has(Tail(q), x) => Has(q, x))
         /\ Head(q) = x => Tail(q) = <<>> /\ Has(q, x)
<1> DEFINE r == Tail(q)
<1>1. /\ r \in Seq(S) /\ Len(r) = Len(q) - 1 /\ Head(q) = q[1]
      /\ \A i \in 1..Len(r) : r[i] = q[i+1] /\ i + 1 \in 1..Len(q)
  BY Popped
<1> HIDE DEF r
<1>2. Len(q) \in Nat /\ 1 \in 1..Len(q) /\ Len(r) \in Nat /\ (r = <<>> <=> Len(r) = 0)
  BY <1>1, LengthOf
<1>3. Ending(r, x)
  <2>1. ASSUME NEW i \in 1..Len(r), r[i] = x PROVE i = Len(r)
    <3>1. i + 1 = Len(q)
      BY <1>1, <2>1 DEF Ending
    <3> QED BY <1>1, <1>2, <3>1
  <2> QED BY <2>1 DEF Ending
<1>4. Has(r, x) => Has(q, x)
  BY <1>1 DEF Has
<1>5. ASSUME Head(q) = x PROVE r = <<>> /\ Has(q, x)
  <2>1. 1 = Len(q)
    BY <1>1, <1>2, <1>5 DEF Ending
  <2>2. Len(r) = 0
    BY <1>1, <2>1
  <2> QED BY <1>1, <1>2, <1>5, <2>2 DEF Has
<1> QED BY <1>3, <1>4, <1>5 DEF r

\* An element that begins where q ends.
LEMMA LeadsAppend ==
  ASSUME NEW S, NEW q \in Seq(S), NEW e \in S, NEW a, Leads(q, a, Before(e))
  PROVE  Leads(Append(q, e), a, After(e))
<1> DEFINE r == Append(q, e)
<1>1. /\ Len(r) = Len(q) + 1 /\ Len(q) \in Nat /\ r # <<>> /\ (q = <<>> <=> Len(q) = 0)
      /\ \A i \in 1..Len(q) : r[i] = q[i]
      /\ r[Len(q) + 1] = e
  BY Appended, LengthOf
<1> HIDE DEF r
<1>2. ASSUME NEW i \in 1..Len(r) PROVE Before(r[i]) = IF i = 1 THEN a ELSE After(r[i-1])
  <2>1. CASE i \in 1..Len(q)
    <3>1. i # 1 => i - 1 \in 1..Len(q)
      BY <1>1, <2>1
    <3> QED BY <1>1, <2>1, <3>1 DEF Leads
  <2>2. CASE i \notin 1..Len(q)
    <3>1. i = Len(q) + 1 /\ i - 1 = Len(q) /\ (i = 1 <=> Len(q) = 0) /\ (i # 1 => i - 1 \in 1..Len(q))
      BY <1>1, <2>2
    <3> QED BY <1>1, <3>1 DEF Leads
  <2> QED BY <2>1, <2>2
<1>3. After(e) = IF r = <<>> THEN a ELSE After(r[Len(r)])
  BY <1>1
<1> QED BY <1>2, <1>3 DEF Leads, r

\* The head begins where the queue does.
LEMMA LeadsTail ==
  ASSUME NEW S, NEW q \in Seq(S), q # <<>>, NEW a, NEW z, Leads(q, a, z)
  PROVE  Before(Head(q)) = a /\ Leads(Tail(q), After(Head(q)), z)
<1> DEFINE r == Tail(q)
<1>1. /\ r \in Seq(S) /\ Len(r) = Len(q) - 1 /\ Head(q) = q[1]
      /\ \A i \in 1..Len(r) : r[i] = q[i+1] /\ i + 1 \in 1..Len(q)
  BY Popped
<1> HIDE DEF r
<1>2. Len(q) \in Nat /\ 1 \in 1..Len(q) /\ Len(r) \in Nat /\ (r = <<>> <=> Len(r) = 0)
  BY <1>1, LengthOf
<1>3. Before(Head(q)) = a
  BY <1>1, <1>2 DEF Leads
<1>4. ASSUME NEW i \in 1..Len(r) PROVE Before(r[i]) = IF i = 1 THEN After(q[1]) ELSE After(r[i-1])
  <2>1. r[i] = q[i+1] /\ i + 1 \in 1..Len(q) /\ i + 1 # 1 /\ (i + 1) - 1 = i
    BY <1>1, <1>2
  <2>2. Before(q[i+1]) = After(q[i])
    BY <2>1 DEF Leads
  <2>3. i # 1 => i - 1 \in 1..Len(r) /\ (i - 1) + 1 = i
    BY <1>2
  <2>4. i # 1 => r[i-1] = q[i]
    BY <1>1, <2>3
  <2> QED BY <2>1, <2>2, <2>4
<1>5. z = IF r = <<>> THEN After(q[1]) ELSE After(r[Len(r)])
  <2>1. z = After(q[Len(q)])
    BY DEF Leads
  <2>2. r = <<>> => Len(q) = 1
    BY <1>1, <1>2
  <2>3. r # <<>> => r[Len(r)] = q[Len(q)]
    <3>1. r # <<>> => Len(r) \in 1..Len(r) /\ Len(r) + 1 = Len(q)
      BY <1>1, <1>2, LengthOf
    <3> QED BY <1>1, <3>1
  <2> QED BY <2>1, <2>2, <2>3
<1>6. Leads(r, After(Head(q)), z)
  BY <1>1, <1>4, <1>5 DEF Leads
<1> QED BY <1>3, <1>6 DEF r

\* A sequence is one of its elements, and stays one.
LEMMA SequenceAppend ==
  ASSUME NEW q, IsSequence(q), NEW e
  PROVE  /\ IsSequence(Append(q, e)) /\ q \in Seq(ToSet(q) \cup {e})
         /\ Len(Append(q, e)) = Len(q) + 1 /\ Len(q) \in Nat
         /\ Append(q, e) # <<>> /\ (q = <<>> <=> Len(q) = 0)
         /\ \A i \in 1..Len(q) : Append(q, e)[i] = q[i]
         /\ Append(q, e)[Len(q) + 1] = e
<1> DEFINE S == ToSet(q) \cup {e}
           r == Append(q, e)
<1>1. /\ Len(q) \in Nat /\ (q = <<>> <=> Len(q) = 0) /\ DOMAIN q = 1..Len(q)
  BY LengthOf DEF IsSequence
<1>2. q \in Seq(S)
  <2>1. q = [i \in 1..Len(q) |-> q[i]]
    BY DEF IsSequence
  <2>2. \A i \in 1..Len(q) : q[i] \in S
    BY <1>1 DEF ToSet
  <2> HIDE DEF S
  <2> QED BY <1>1, <2>1, <2>2
<1>3. e \in S
  OBVIOUS
<1> HIDE DEF S
<1>4. /\ r \in Seq(S) /\ Len(r) = Len(q) + 1 /\ r # <<>>
      /\ \A i \in 1..Len(q) : r[i] = q[i]
      /\ r[Len(q) + 1] = e
  BY <1>2, <1>3, Appended
<1>5. IsSequence(r)
  <2> HIDE DEF r
  <2>1. r = [i \in 1..Len(r) |-> r[i]] /\ Len(r) \in Nat /\ DOMAIN r = 1..Len(r)
    BY <1>4
  <2>2. \A i \in 1..Len(r) : r[i] \in ToSet(r)
    BY <2>1 DEF ToSet
  <2> QED BY <2>1, <2>2 DEF IsSequence
<1> QED BY <1>1, <1>2, <1>4, <1>5 DEF S

\* So does its tail.
LEMMA SequenceTail ==
  ASSUME NEW q, IsSequence(q), q # <<>>
  PROVE  IsSequence(Tail(q))
<1>1. Tail(q) \in Seq(ToSet(q))
  BY Popped DEF IsSequence
<1> DEFINE r == Tail(q)
<1> HIDE DEF r
<1>2. r \in Seq(ToSet(q))
  BY <1>1 DEF r
<1>3. r = [i \in 1..Len(r) |-> r[i]] /\ Len(r) \in Nat /\ DOMAIN r = 1..Len(r)
  BY <1>2
<1>4. \A i \in 1..Len(r) : r[i] \in ToSet(r)
  BY <1>3 DEF ToSet
<1>5. IsSequence(r)
  BY <1>3, <1>4 DEF IsSequence
<1> QED BY <1>5 DEF r

-----------------------------------------------------------------------------
(* The chunk thread's steps, seen from behind.                             *)

\* The marks are what they are called.
LEMMA Marks ==
  /\ NULL \in Piece /\ NULL.type = "NULL" /\ FILE_END \in Piece \ {NULL}
  /\ FILE_END.type = "FILE_END" /\ Nothing.type = "nothing" /\ Nothing \notin Piece
  /\ FILE_END # Nothing
  /\ Before(NULL) = "outside" /\ After(NULL) = "outside"
  /\ Before(FILE_END) = "inside" /\ After(FILE_END) = "outside"
<1>1. Len(<<>>) = 0 /\ <<>> \in Seq(Nat)
  OBVIOUS
<1> QED BY <1>1 DEF NULL, FILE_END, Nothing, Chunk, Piece, Before, After, Continues, Opens

\* The bytes of a file are numbers.
LEMMA BytesAreNumbers ==
  ASSUME NEW d \in Seq(Byte)
  PROVE  d \in Seq(Nat)
<1>1. Len(d) \in Nat /\ d = [i \in 1..Len(d) |-> d[i]] /\ \A i \in 1..Len(d) : d[i] \in Byte
  OBVIOUS
<1>2. Byte \subseteq 0..255
  BY ChunkingAssumption
<1>3. \A x \in 0..255 : x \in Nat
  OBVIOUS
<1>4. \A b \in Byte : b \in Nat
  BY <1>2, <1>3, Zenon
<1>5. \A i \in 1..Len(d) : d[i] \in Nat
  BY <1>1, <1>4, Zenon
<1> QED BY <1>1, <1>5

\* A chunk that is cut has data of its size, within the bounds of the geometry.
LEMMA CutIs ==
  ASSUME BufferInv, ChunkCut
  PROVE  /\ chunker.pc = "cut" /\ chunker'.pc = "cut"
         /\ out' \in Piece /\ out'.type = "data"
         /\ geometry.algorithm # "ae" /\ geometry.min <= geometry.max => out'.size <= geometry.max
<1> DEFINE left == SubSeq(leftbuf, chunker.leftoff + 1, chunker.leftoff + chunker.leftlen)
           n == chunking(geometry, left)
<1>1. /\ Usable(geometry) /\ config.block \in Nat \ {0} /\ geometry.max \in Nat \ {0}
      /\ BufferSize = config.block + geometry.max /\ BufferSize \in Nat
  BY PreparedUsable DEF BufferInv, Types, Usable, BufferSize
<1>2. /\ chunker \in [pc : {"start", "first", "cut", "done"}, c : {Nothing, FILE_END},
                      leftoff : Nat, leftlen : Nat]
      /\ leftbuf \in [1..BufferSize -> Byte]
      /\ chunker.leftoff + chunker.leftlen <= BufferSize
  BY DEF BufferInv, Types, LeftBufferFits
<1>3. /\ chunker.pc = "cut" /\ chunker.leftlen > 0
      /\ chunker' = [chunker EXCEPT !.leftoff = @ + n, !.leftlen = @ - n]
      /\ out' = Chunk("data", SubSeq(left, 1, n))
  BY DEF ChunkCut
<1>4. left \in Seq(Byte) /\ Len(left) = chunker.leftlen
  <2>1. \A i \in chunker.leftoff + 1..chunker.leftoff + chunker.leftlen : leftbuf[i] \in Byte
    <3>1. chunker.leftoff + 1..chunker.leftoff + chunker.leftlen \subseteq 1..BufferSize
      BY <1>1, <1>2
    <3> QED BY <1>2, <3>1
  <2>2. /\ left \in Seq(Byte)
        /\ Len(left) = IF chunker.leftoff + 1 <= chunker.leftoff + chunker.leftlen
                       THEN chunker.leftoff + chunker.leftlen - (chunker.leftoff + 1) + 1 ELSE 0
    BY <1>2, <2>1, SubSeqProperties
  <2> QED BY <1>2, <1>3, <2>2
<1> HIDE DEF left
<1>5. Len(left) \in Nat \ {0}
  BY <1>2, <1>3, <1>4
<1>6. n \in 1..Len(left)
  BY <1>1, <1>5, ChunkingProgresses
<1>7. geometry.algorithm # "ae" /\ geometry.min <= geometry.max => n <= geometry.max
  <2>1. geometry.avg <= geometry.max
    BY FrontEndAssumption DEF BufferInv, Types, Accepted, geometry
  <2> QED BY <1>1, <1>5, <2>1, ChunkingBounded
<1> HIDE DEF n
<1>8. SubSeq(left, 1, n) \in Seq(Byte) /\ Len(SubSeq(left, 1, n)) = n /\ n \in Nat
  <2>1. \A i \in 1..n : left[i] \in Byte
    BY <1>4, <1>5, <1>6
  <2>2. /\ SubSeq(left, 1, n) \in Seq(Byte)
        /\ Len(SubSeq(left, 1, n)) = IF 1 <= n THEN n - 1 + 1 ELSE 0
    BY <1>6, <2>1, SubSeqProperties
  <2> QED BY <1>6, <2>2
<1>9. chunker'.pc = "cut"
  BY <1>2, <1>3
<1>10. SubSeq(left, 1, n) \in Seq(Nat) /\ <<>> \in Seq(Nat)
  <2>1. SubSeq(left, 1, n) \in Seq(Nat)
    BY <1>8, BytesAreNumbers, Zenon
  <2> QED BY <2>1
<1> QED BY <1>3, <1>7, <1>8, <1>9, <1>10 DEF Chunk, Piece

\* What the chunk thread does: it keeps what it has pushed, pushes the NULL, takes a
\* FILE_START, a chunk or a FILE_END in hand, or pushes that.
LEMMA CutCases ==
  ASSUME BufferInv, Cut
  PROVE  \/ /\ chunker.pc = "start" /\ chunker'.pc = "done" /\ out = Nothing /\ out' = Nothing
            /\ read_queue # <<>> /\ Head(read_queue) = NULL /\ read_queue' = Tail(read_queue)
            /\ chunk_queue' = Append(chunk_queue, NULL)
         \/ /\ chunker.pc = "start" /\ chunker'.pc = "first" /\ out = Nothing
            /\ out' \in Piece /\ out'.type = "FILE_START"
            /\ read_queue # <<>> /\ read_queue' = Tail(read_queue)
            /\ chunk_queue' = chunk_queue
         \/ /\ chunker.pc \in {"first", "cut"} /\ chunker'.pc = "cut" /\ out = Nothing
            /\ out' = Nothing
            /\ read_queue # <<>> /\ read_queue' = Tail(read_queue)
            /\ chunk_queue' = chunk_queue
         \/ /\ chunker.pc = "cut" /\ chunker'.pc = "cut" /\ out = Nothing
            /\ out' \in Piece /\ out'.type = "data"
            /\ geometry.algorithm # "ae" /\ geometry.min <= geometry.max
                 => out'.size <= geometry.max
            /\ read_queue' = read_queue /\ chunk_queue' = chunk_queue
         \/ /\ chunker.pc = "cut" /\ chunker'.pc = "start" /\ out = Nothing /\ out' = FILE_END
            /\ read_queue' = read_queue /\ chunk_queue' = chunk_queue
         \/ /\ chunker' = chunker /\ out # Nothing /\ out' = Nothing
            /\ chunk_queue' = Append(chunk_queue, out)
            /\ read_queue' = read_queue
<1>1. chunker \in [pc : {"start", "first", "cut", "done"}, c : {Nothing, FILE_END},
                   leftoff : Nat, leftlen : Nat]
  BY DEF BufferInv, Types
<1>2. CASE ChunkFileStart
  <2>1. /\ chunker.pc = "start" /\ out = Nothing /\ read_queue # <<>>
        /\ read_queue' = Tail(read_queue)
    BY <1>2 DEF ChunkFileStart
  <2>2. CASE Head(read_queue) = NULL
    <3>1. /\ chunk_queue' = Append(chunk_queue, NULL) /\ chunker'.pc = "done" /\ out' = out
      BY <1>1, <1>2, <2>2 DEF ChunkFileStart
    <3> QED BY <2>1, <2>2, <3>1
  <2>3. CASE Head(read_queue) # NULL
    <3>1. out' = Head(read_queue) /\ chunker'.pc = "first" /\ chunk_queue' = chunk_queue
      BY <1>1, <1>2, <2>3 DEF ChunkFileStart
    <3>2. Head(read_queue) \in Element /\ Head(read_queue).type = "FILE_START"
      BY <2>1, <2>3, HeadInFile DEF InFile
    <3>3. Head(read_queue) \in Piece
      <4>1. <<>> \in Seq(Nat)
        OBVIOUS
      <4> QED BY <3>2, <4>1, BytesAreNumbers DEF Element, Piece
    <3> QED BY <2>1, <3>1, <3>2, <3>3
  <2> QED BY <2>2, <2>3
<1>3. CASE ChunkFirst
  <2>1. chunker'.pc = "cut"
    BY <1>1, <1>3 DEF ChunkFirst
  <2> QED BY <1>3, <2>1 DEF ChunkFirst
<1>4. CASE ChunkFill
  <2>1. chunker'.pc = "cut"
    BY <1>1, <1>4 DEF ChunkFill
  <2> QED BY <1>4, <2>1 DEF ChunkFill
<1>5. CASE ChunkCut
  BY <1>5, CutIs DEF ChunkCut
<1>6. CASE ChunkFileEnd
  <2>1. chunker.c = FILE_END
    <3>1. geometry.max \in Nat \ {0}
      BY PreparedUsable DEF BufferInv, Types, Usable
    <3> QED BY <1>1, <1>6, <3>1 DEF ChunkFileEnd, Hungry
  <2>2. chunker'.pc = "start"
    BY <1>1, <1>6 DEF ChunkFileEnd
  <2> QED BY <1>6, <2>1, <2>2 DEF ChunkFileEnd
<1>7. CASE ChunkPush
  BY <1>7 DEF ChunkPush
<1> QED BY <1>2, <1>3, <1>4, <1>5, <1>6, <1>7 DEF Cut

\* The step leaves the other threads as they are.
LEMMA CutLeaves ==
  ASSUME Cut
  PROVE  UNCHANGED <<source, config, geometry, at, reading, hash_queue, hasher, trace, line,
                     trace_queue, tmp, segments>>
BY DEF Cut, ChunkFileStart, ChunkFirst, ChunkFill, ChunkCut, ChunkFileEnd, ChunkPush, readVars,
       traceVars, segVars, geometry

-----------------------------------------------------------------------------
(* Every step keeps the order of what flows, and the NULL at its end.      *)

\* What follows a NULL has not been read: the chunk thread has none behind it.
LEMMA CutNotEnded ==
  ASSUME BufferInv, EndInv, Cut
  PROVE  /\ ~CutEnded
         /\ ~Has(chunk_queue, NULL) /\ ~Has(hash_queue, NULL) /\ ~Has(trace, StreamEnd)
         /\ ~Has(trace_queue, NULL)
<1>1. ~CutEnded
  <2>1. chunker.pc # "done" \/ out # Nothing
    BY CutCases
  <2> QED BY <2>1 DEF CutEnded
<1> QED BY <1>1 DEF EndInv, HashEnded, TraceEnded, CutEnded

\* The chunk thread hands on elements in order.
LEMMA CutKeepsFlow ==
  ASSUME BufferInv, FlowTypes, FlowOrder, EndInv, ChunkSizeBounded, Cut
  PROVE  FlowTypes' /\ FlowOrder' /\ ChunkSizeBounded'
<1>1. UNCHANGED <<config, geometry, hash_queue, hasher, trace, trace_queue>>
  BY CutLeaves
<1>2. /\ chunk_queue \in Seq(Piece) /\ hash_queue \in Seq(Piece)
      /\ out \in (Piece \ {NULL}) \cup {Nothing}
      /\ hasher \in (Piece \ {NULL}) \cup {Nothing}
      /\ IsSequence(trace_queue)
  BY DEF FlowTypes
<1>3. PICK c \in {"inside", "outside"}, h \in {"inside", "outside"} :
        /\ Leads(chunk_queue, c, IF out = Nothing THEN Cutting ELSE Before(out))
        /\ IF hasher = Nothing THEN h = c ELSE h = Before(hasher) /\ c = After(hasher)
        /\ config.trace => Leads(hash_queue, Traced, h)
  BY DEF FlowOrder
<1>4. out # Nothing => After(out) = Cutting
  BY DEF FlowOrder
<1>5. /\ chunk_queue' \in Seq(Piece) /\ out' \in (Piece \ {NULL}) \cup {Nothing}
      /\ IsData(out') /\ geometry.algorithm # "ae" /\ geometry.min <= geometry.max
           => out'.size <= geometry.max
      /\ out' # Nothing => After(out') = Cutting'
      /\ Leads(chunk_queue', c, IF out' = Nothing THEN Cutting' ELSE Before(out'))
  <2>1. CASE /\ chunker.pc = "start" /\ chunker'.pc = "done" /\ out = Nothing /\ out' = Nothing
             /\ chunk_queue' = Append(chunk_queue, NULL)
    <3>1. Cutting = "outside" /\ Cutting' = "outside"
      BY <2>1 DEF Cutting
    <3>2. Leads(chunk_queue', c, "outside") /\ chunk_queue' \in Seq(Piece)
      <4>1. Leads(chunk_queue, c, Before(NULL))
        BY <1>3, <2>1, <3>1, Marks
      <4>2. Leads(Append(chunk_queue, NULL), c, After(NULL))
        BY <1>2, <4>1, Marks, LeadsAppend
      <4> QED BY <1>2, <2>1, <4>2, Marks, Appended
    <3> QED BY <2>1, <3>1, <3>2, Marks DEF IsData
  <2>2. CASE /\ chunker.pc = "start" /\ chunker'.pc = "first" /\ out = Nothing
             /\ out' \in Piece /\ out'.type = "FILE_START" /\ chunk_queue' = chunk_queue
    <3>1. Cutting = "outside" /\ Cutting' = "inside"
      BY <2>2 DEF Cutting
    <3>2. Before(out') = "outside" /\ After(out') = "inside" /\ out' # Nothing /\ out' # NULL
      BY <2>2, Marks DEF Before, After, Continues, Opens
    <3> QED BY <1>2, <1>3, <2>2, <3>1, <3>2 DEF IsData
  <2>3. CASE /\ chunker.pc \in {"first", "cut"} /\ chunker'.pc = "cut" /\ out = Nothing
             /\ out' = Nothing /\ chunk_queue' = chunk_queue
    <3>1. Cutting = Cutting'
      BY <2>3 DEF Cutting
    <3> QED BY <1>2, <1>3, <2>3, <3>1, Marks DEF IsData
  <2>4. CASE /\ chunker.pc = "cut" /\ chunker'.pc = "cut" /\ out = Nothing
             /\ out' \in Piece /\ out'.type = "data"
             /\ geometry.algorithm # "ae" /\ geometry.min <= geometry.max
                 => out'.size <= geometry.max
             /\ chunk_queue' = chunk_queue
    <3>1. Cutting = "inside" /\ Cutting' = "inside"
      BY <2>4 DEF Cutting
    <3>2. Before(out') = "inside" /\ After(out') = "inside" /\ out' # Nothing /\ out' # NULL
      BY <2>4, Marks DEF Before, After, Continues, Opens
    <3> QED BY <1>2, <1>3, <2>4, <3>1, <3>2 DEF IsData
  <2>5. CASE /\ chunker.pc = "cut" /\ chunker'.pc = "start" /\ out = Nothing /\ out' = FILE_END
             /\ chunk_queue' = chunk_queue
    <3>1. Cutting = "inside" /\ Cutting' = "outside"
      BY <2>5 DEF Cutting
    <3> QED BY <1>2, <1>3, <2>5, <3>1, Marks DEF IsData
  <2>6. CASE /\ chunker' = chunker /\ out # Nothing /\ out' = Nothing
             /\ chunk_queue' = Append(chunk_queue, out)
    <3>1. Cutting' = Cutting /\ out \in Piece
      BY <1>2, <2>6 DEF Cutting
    <3>2. Leads(chunk_queue', c, Cutting) /\ chunk_queue' \in Seq(Piece)
      <4>1. Leads(chunk_queue, c, Before(out))
        BY <1>3, <2>6
      <4>2. Leads(Append(chunk_queue, out), c, After(out))
        BY <1>2, <3>1, <4>1, LeadsAppend
      <4> QED BY <1>2, <1>4, <2>6, <3>1, <4>2, Appended
    <3> QED BY <2>6, <3>1, <3>2, Marks DEF IsData
  <2> QED BY <2>1, <2>2, <2>3, <2>4, <2>5, <2>6, CutCases, Zenon
<1>6. FlowTypes'
  BY <1>1, <1>2, <1>5 DEF FlowTypes
<1>7. FlowOrder'
  <2>1. Traced' = Traced
    BY <1>1 DEF Traced
  <2> QED BY <1>1, <1>3, <1>5, <2>1 DEF FlowOrder
<1>8. ChunkSizeBounded'
  BY <1>1, <1>5 DEF ChunkSizeBounded, MaximalChunkSize
<1> QED BY <1>6, <1>7, <1>8

\* Nothing follows the NULL of the chunk thread.
LEMMA CutKeepsEnd ==
  ASSUME BufferInv, FlowTypes, EndInv, Cut
  PROVE  EndInv'
<1>1. UNCHANGED <<source, at, reading, hash_queue, hasher, trace, line, trace_queue>>
  BY CutLeaves
<1>2. /\ ~Has(chunk_queue, NULL) /\ ~Has(hash_queue, NULL) /\ ~Has(trace, StreamEnd)
      /\ ~Has(trace_queue, NULL)
  BY CutNotEnded
<1>3. read_queue \in Seq(Element) /\ chunk_queue \in Seq(Piece) /\ out \in (Piece \ {NULL}) \cup {Nothing}
  BY DEF BufferInv, Types, FlowTypes
<1>4. /\ Ending(read_queue', NULL) /\ (Has(read_queue', NULL) => Has(read_queue, NULL))
      /\ Ending(chunk_queue', NULL)
      /\ chunker'.pc = "done" => ReadEnded /\ read_queue' = <<>> /\ out' = Nothing
      /\ Has(chunk_queue', NULL) => chunker'.pc = "done"
  <2>1. read_queue # <<>> =>
          /\ Ending(Tail(read_queue), NULL) /\ (Has(Tail(read_queue), NULL) => Has(read_queue, NULL))
          /\ Head(read_queue) = NULL => Tail(read_queue) = <<>> /\ ReadEnded
    BY <1>3, EndingTail DEF EndInv
  <2>2. \A e \in Piece : /\ Ending(Append(chunk_queue, e), NULL)
                         /\ Has(Append(chunk_queue, e), NULL) => e = NULL
    BY <1>2, <1>3, EndingAppend
  <2>3. CASE /\ chunker'.pc = "done" /\ out' = Nothing
             /\ read_queue # <<>> /\ Head(read_queue) = NULL /\ read_queue' = Tail(read_queue)
             /\ chunk_queue' = Append(chunk_queue, NULL)
    BY <2>1, <2>2, <2>3, Marks
  <2>4. CASE /\ chunker'.pc # "done" /\ read_queue # <<>> /\ read_queue' = Tail(read_queue)
             /\ chunk_queue' = chunk_queue
    BY <1>2, <2>1, <2>4 DEF EndInv
  <2>5. CASE /\ chunker'.pc # "done" /\ read_queue' = read_queue /\ chunk_queue' = chunk_queue
    BY <1>2, <2>5 DEF EndInv
  <2>6. CASE /\ chunker' = chunker /\ out # Nothing /\ chunk_queue' = Append(chunk_queue, out)
             /\ read_queue' = read_queue
    <3>1. chunker'.pc # "done"
      BY <2>6 DEF EndInv, CutEnded
    <3>2. out \in Piece /\ out # NULL
      BY <1>3, <2>6
    <3>3. Ending(chunk_queue', NULL) /\ ~Has(chunk_queue', NULL)
      BY <2>2, <2>6, <3>2
    <3> QED BY <2>6, <3>1, <3>3 DEF EndInv
  <2> QED BY <2>3, <2>4, <2>5, <2>6, CutCases
<1>5. ReadEnded' = ReadEnded
  BY <1>1 DEF ReadEnded
<1> QED BY <1>1, <1>2, <1>4, <1>5 DEF EndInv, CutEnded

\* The read thread pushes the NULL when it has come to the end.
LEMMA ReadKeepsEnd ==
  ASSUME BufferInv, EndInv, Read
  PROVE  EndInv'
<1>1. /\ source \in Seq(Entry) /\ Len(source) \in Nat /\ read_queue \in Seq(Element)
      /\ NULL \in Element /\ DOMAIN source = 1..Len(source)
  <2>1. NULL \in Element
    BY Marks DEF NULL, Chunk, Element
  <2> QED BY <2>1, FrontEndAssumption, LengthOf DEF BufferInv, Types
<1>2. UNCHANGED <<source, chunker, chunk_queue, hash_queue, out, hasher, trace, line, trace_queue>>
  BY DEF Read, OpenFile, ReadBlock, CloseFile, EntryGone, ReadEnds, chunkVars, traceVars
<1>3. ~ReadEnded /\ ~Has(read_queue, NULL)
  <2>1. ~ReadEnded
    <3>1. reading => at # Len(source) + 2
      BY <1>1 DEF EndInv
    <3>2. ~reading => at # Len(source) + 2
      BY <1>1 DEF Read, OpenFile, ReadBlock, CloseFile, EntryGone, ReadEnds, AtEntry
    <3> QED BY <3>1, <3>2 DEF ReadEnded
  <2> QED BY <2>1 DEF EndInv
<1>4. /\ chunker.pc # "done" /\ ~Has(chunk_queue, NULL) /\ ~Has(hash_queue, NULL)
      /\ ~Has(trace, StreamEnd) /\ ~Has(trace_queue, NULL)
  BY <1>3 DEF EndInv, CutEnded, HashEnded, TraceEnded
<1>5. \A e \in Element : /\ Ending(Append(read_queue, e), NULL)
                         /\ Has(Append(read_queue, e), NULL) => e = NULL
  BY <1>1, <1>3, EndingAppend
<1>6. /\ at' \in 1..Len(source) + 2
      /\ reading' => at' \in 1..Len(source)
      /\ Ending(read_queue', NULL)
      /\ Has(read_queue', NULL) => at' = Len(source) + 2
  <2>1. CASE OpenFile
    <3>1. reading' /\ at' = at /\ at \in 1..Len(source)
      BY <1>1, <2>1 DEF OpenFile, AtEntry
    <3>2. FILE_START(source[at].name) \in Element /\ FILE_START(source[at].name) # NULL
      <4>1. source[at] \in Entry
        BY <1>1, <3>1
      <4>2. source[at].name \in Seq(Nat)
        BY <4>1 DEF Entry
      <4> QED BY <4>2, Marks DEF FILE_START, NULL, Chunk, Element
    <3> QED BY <1>1, <1>5, <2>1, <3>1, <3>2 DEF OpenFile
  <2>2. CASE ReadBlock
    <3> DEFINE n == Smaller(config.block, Len(unread))
               d == SubSeq(unread, 1, n)
    <3>1. reading' = reading /\ at' = at /\ read_queue' = Append(read_queue, Chunk("data", d))
      BY <2>2 DEF ReadBlock
    <3>2. d \in Seq(Byte)
      <4>1. unread \in Seq(Byte) /\ unread # <<>>
        BY <2>2 DEF ReadBlock, BufferInv, Types
      <4>2. n \in 1..Len(unread) /\ Len(unread) \in Nat
        BY <4>1, PreparedUsable, EmptySeq DEF Smaller, BufferInv, Types
      <4> QED BY <4>1, <4>2, SubSeqProperties
    <3> HIDE DEF d
    <3>3. Chunk("data", d) \in Element /\ Chunk("data", d) # NULL
      BY <3>2, Marks DEF NULL, Chunk, Element
    <3> QED BY <1>5, <3>1, <3>3 DEF EndInv
  <2>3. CASE CloseFile
    <3>1. ~reading' /\ at' = at + 1 /\ at \in 1..Len(source) /\ read_queue' = Append(read_queue, FILE_END)
      BY <2>3 DEF CloseFile, EndInv
    <3>2. FILE_END \in Element /\ FILE_END # NULL
      BY Marks DEF FILE_END, NULL, Chunk, Element
    <3> QED BY <1>1, <1>5, <3>1, <3>2
  <2>4. CASE EntryGone
    <3> DEFINE S == {i \in at+1..Len(source) : source[i].depth < source[at].depth}
    <3>1. ~reading' /\ read_queue' = read_queue /\ at \in 1..Len(source)
          /\ at' = Earliest(S, Len(source) + 1)
      BY <1>1, <2>4 DEF EntryGone, AtEntry
    <3>2. S \in SUBSET Nat /\ S \subseteq 1..Len(source)
      BY <1>1, <3>1
    <3> HIDE DEF S
    <3>3. at' \in S \cup {Len(source) + 1}
      BY <3>1, <3>2, EarliestChosen
    <3>4. at' \in 1..Len(source) + 1
      BY <1>1, <3>2, <3>3
    <3> QED BY <1>1, <1>3, <3>1, <3>4 DEF EndInv
  <2>5. CASE ReadEnds
    BY <1>1, <1>5, <2>5 DEF ReadEnds
  <2> QED BY <2>1, <2>2, <2>3, <2>4, <2>5 DEF Read
<1>7. ReadEnded' <=> at' = Len(source) + 2
  BY <1>2 DEF ReadEnded
<1> QED BY <1>2, <1>4, <1>6, <1>7 DEF EndInv

\* The hash thread hands on elements in order, a chunk with its fingerprint.
LEMMA HashKeeps ==
  ASSUME FlowTypes, FlowOrder, EndInv, Hash
  PROVE  FlowTypes' /\ FlowOrder' /\ EndInv'
<1>1. UNCHANGED <<source, config, at, reading, read_queue, chunker, out, trace, line, trace_queue>>
  BY DEF Hash, HashPop, HashPush, readVars, chunkVars, traceVars
<1>2. /\ chunk_queue \in Seq(Piece) /\ hash_queue \in Seq(Piece)
      /\ out \in (Piece \ {NULL}) \cup {Nothing}
      /\ hasher \in (Piece \ {NULL}) \cup {Nothing}
      /\ IsSequence(trace_queue)
  BY DEF FlowTypes
<1>3. PICK c \in {"inside", "outside"}, h \in {"inside", "outside"} :
        /\ Leads(chunk_queue, c, IF out = Nothing THEN Cutting ELSE Before(out))
        /\ IF hasher = Nothing THEN h = c ELSE h = Before(hasher) /\ c = After(hasher)
        /\ config.trace => Leads(hash_queue, Traced, h)
  BY DEF FlowOrder
<1>4. Cutting' = Cutting /\ Traced' = Traced /\ ReadEnded' = ReadEnded /\ CutEnded' = CutEnded
  BY <1>1 DEF Cutting, Traced, ReadEnded, CutEnded
<1>5. /\ ~HashEnded /\ ~Has(hash_queue, NULL) /\ ~Has(trace, StreamEnd) /\ ~Has(trace_queue, NULL)
  <2>1. ~HashEnded
    BY DEF Hash, HashPop, HashPush, HashEnded
  <2> QED BY <2>1 DEF EndInv, TraceEnded
<1>6. \A e \in Piece : /\ Append(hash_queue, e) \in Seq(Piece)
                       /\ Ending(Append(hash_queue, e), NULL)
                       /\ Has(Append(hash_queue, e), NULL) => e = NULL
                       /\ config.trace /\ h = Before(e) =>
                            Leads(Append(hash_queue, e), Traced, After(e))
  BY <1>2, <1>3, <1>5, EndingAppend, LeadsAppend, Appended
<1>7. CASE HashPop
  <2> DEFINE e == Head(chunk_queue)
             z == IF out = Nothing THEN Cutting ELSE Before(out)
             hashed == IF IsData(e) THEN [e EXCEPT !.fp = e.data] ELSE e
  <2>1. hasher = Nothing /\ h = c /\ chunk_queue # <<>> /\ chunk_queue' = Tail(chunk_queue)
    BY <1>3, <1>7 DEF HashPop
  <2>2. /\ chunk_queue' \in Seq(Piece) /\ e \in Piece /\ Ending(chunk_queue', NULL)
        /\ Has(chunk_queue', NULL) => Has(chunk_queue, NULL)
        /\ e = NULL => chunk_queue' = <<>> /\ Has(chunk_queue, NULL)
    <3>1. Ending(chunk_queue, NULL)
      BY DEF EndInv
    <3>2. Tail(chunk_queue) \in Seq(Piece) /\ e \in Piece
      BY <1>2, <2>1, Popped
    <3>3. /\ Ending(Tail(chunk_queue), NULL)
          /\ Has(Tail(chunk_queue), NULL) => Has(chunk_queue, NULL)
          /\ e = NULL => Tail(chunk_queue) = <<>> /\ Has(chunk_queue, NULL)
      BY <1>2, <2>1, <3>1, EndingTail
    <3> QED BY <2>1, <3>2, <3>3
  <2>3. Before(e) = c /\ Leads(chunk_queue', After(e), z)
    BY <1>2, <1>3, <2>1, LeadsTail
  <2>4. After(e) \in {"inside", "outside"}
    BY DEF After
  <2>5. CASE e = NULL
    <3>1. hash_queue' = Append(hash_queue, NULL) /\ hasher' = Nothing
      BY <1>7, <2>1, <2>5 DEF HashPop
    <3>2. CutEnded
      BY <2>2, <2>5 DEF EndInv
    <3>3. HashEnded'
      BY <1>4, <2>2, <2>5, <3>1, <3>2 DEF HashEnded
    <3>4. FlowTypes'
      BY <1>1, <1>2, <1>6, <2>2, <3>1, Marks DEF FlowTypes
    <3>5. FlowOrder'
      <4>1. config.trace => Leads(hash_queue', Traced, After(e))
        BY <1>3, <1>6, <2>1, <2>2, <2>3, <2>5, <3>1
      <4> QED BY <1>1, <1>4, <2>3, <2>4, <3>1, <4>1 DEF FlowOrder
    <3>6. Ending(hash_queue', NULL)
      BY <1>6, <3>1, Marks
    <3>7. EndInv'
      BY <1>1, <1>4, <1>5, <2>2, <3>2, <3>3, <3>6 DEF EndInv
    <3> QED BY <3>4, <3>5, <3>7
  <2>6. CASE e # NULL
    <3>1. hash_queue' = hash_queue /\ hasher' = hashed
      BY <1>7, <2>6 DEF HashPop
    <3>2. /\ hashed \in Piece \ {NULL} /\ hashed # Nothing
          /\ Before(hashed) = Before(e) /\ After(hashed) = After(e)
      BY <2>2, <2>6, Marks DEF Piece, Before, After, Continues, Opens, IsData
    <3> HIDE DEF hashed
    <3>3. FlowTypes'
      BY <1>1, <1>2, <2>2, <3>1, <3>2 DEF FlowTypes
    <3>4. FlowOrder'
      <4>1. h = Before(hasher') /\ After(e) = After(hasher') /\ hasher' # Nothing
        BY <2>1, <2>3, <3>1, <3>2
      <4>2. config.trace => Leads(hash_queue', Traced, h)
        BY <1>3, <3>1
      <4> QED BY <1>1, <1>4, <2>3, <2>4, <4>1, <4>2 DEF FlowOrder
    <3>5. EndInv'
      BY <1>1, <1>4, <1>5, <2>2, <3>1 DEF EndInv
    <3> QED BY <3>3, <3>4, <3>5
  <2> QED BY <2>5, <2>6
<1>8. CASE HashPush
  <2>1. /\ hasher # Nothing /\ hash_queue' = Append(hash_queue, hasher) /\ hasher' = Nothing
        /\ chunk_queue' = chunk_queue
    BY <1>8 DEF HashPush
  <2>2. hasher \in Piece /\ hasher # NULL /\ h = Before(hasher) /\ c = After(hasher)
    BY <1>2, <1>3, <2>1
  <2>3. FlowTypes'
    BY <1>1, <1>2, <1>6, <2>1, <2>2 DEF FlowTypes
  <2>4. FlowOrder'
    <3>1. config.trace => Leads(hash_queue', Traced, c)
      BY <1>6, <2>1, <2>2
    <3> QED BY <1>1, <1>3, <1>4, <2>1, <3>1 DEF FlowOrder
  <2>5. Ending(hash_queue', NULL) /\ ~Has(hash_queue', NULL)
    BY <1>6, <2>1, <2>2
  <2>6. EndInv'
    BY <1>1, <1>4, <1>5, <2>1, <2>5 DEF EndInv
  <2> QED BY <2>3, <2>4, <2>6
<1> QED BY <1>7, <1>8 DEF Hash

-----------------------------------------------------------------------------
(* The trace.                                                              *)

\* The lines there are, and how each begins.
LEMMA LineKinds ==
  /\ StreamEnd \in Line /\ <<"file_end">> \in Line
  /\ \A n \in Nat : <<"file_start", n>> \in Line
  /\ \A d \in Seq(Nat) : <<"name", d>> \in Line
  /\ \A f \in Seq(Nat), n \in Nat : <<"chunk", hash2code(f), n>> \in Line
<1>1. StreamEnd \in Line
  BY DEF Line
<1>2. <<"file_end">> \in Line
  BY DEF Line
<1>3. \A n \in Nat : <<"file_start", n>> \in Line
  BY DEF Line
<1>4. \A d \in Seq(Nat) : <<"name", d>> \in Line
  BY DEF Line
<1>5. \A f \in Seq(Nat), n \in Nat : <<"chunk", hash2code(f), n>> \in Line
  BY DEF Line
<1> QED BY <1>1, <1>2, <1>3, <1>4, <1>5

\* How they begin.
LEMMA LineHeads ==
  /\ Head(StreamEnd) = "stream_end" /\ Head(<<"file_end">>) = "file_end"
  /\ \A n : Head(<<"file_start", n>>) = "file_start" /\ Head(<<"name", n>>) = "name"
  /\ \A f, n : Head(<<"chunk", f, n>>) = "chunk"
<1>1. Head(StreamEnd) = "stream_end"
  BY DEF StreamEnd
<1>2. Head(<<"file_end">>) = "file_end"
  OBVIOUS
<1>3. \A n : Head(<<"file_start", n>>) = "file_start"
  OBVIOUS
<1>4. \A n : Head(<<"name", n>>) = "name"
  OBVIOUS
<1>5. \A f, n : Head(<<"chunk", f, n>>) = "chunk"
  OBVIOUS
<1> QED BY <1>1, <1>2, <1>3, <1>4, <1>5

\* A line may follow one that leads to where it belongs.
LEMMA FollowsIs ==
  /\ Follows("file_start") = {"name"}
  /\ \A b : b \in {"name", "chunk"} => Follows(b) = {"chunk", "file_end"}
  /\ \A b : b \notin {"name", "chunk", "file_start"} => Follows(b) = {"file_start", "stream_end"}
<1>1. Follows("file_start") = {"name"}
  BY DEF Follows
<1>2. ASSUME NEW b, b \in {"name", "chunk"} PROVE Follows(b) = {"chunk", "file_end"}
  BY <1>2 DEF Follows
<1>3. ASSUME NEW b, b \notin {"name", "chunk", "file_start"}
      PROVE  Follows(b) = {"file_start", "stream_end"}
  BY <1>3 DEF Follows
<1> QED BY <1>1, <1>2, <1>3

\* The lines that make_trace writes of an element.
LEMMA LinesAre ==
  ASSUME NEW e \in Piece
  PROVE  \/ /\ e = NULL /\ Before(e) = "outside" /\ After(e) = "outside"
            /\ Lines(e) = <<StreamEnd>>
         \/ /\ e # NULL /\ Before(e) = "outside" /\ After(e) = "inside"
            /\ Lines(e) = << <<"file_start", e.size>>, <<"name", e.data>> >>
            /\ e.size \in Nat /\ e.data \in Seq(Nat)
         \/ /\ e # NULL /\ Before(e) = "inside" /\ After(e) = "outside"
            /\ Lines(e) = << <<"file_end">> >>
         \/ /\ e # NULL /\ Before(e) = "inside" /\ After(e) = "inside"
            /\ Lines(e) = << <<"chunk", hash2code(e.fp), e.size>> >>
            /\ e.fp \in Seq(Nat) /\ e.size \in Nat
<1>1. e.type \in {"FILE_START", "FILE_END", "NULL", "data"} /\ e.data \in Seq(Nat) /\ e.fp \in Seq(Nat)
      /\ e.size \in Nat
  BY DEF Piece
<1>2. CASE e.type = "NULL"
  <2>1. e = NULL /\ Before(e) = "outside" /\ After(e) = "outside"
    BY <1>2, Marks DEF Piece
  <2>2. Lines(e) = <<StreamEnd>>
    BY <1>2, <2>1 DEF Lines
  <2> QED BY <2>1, <2>2
<1>3. CASE e.type = "FILE_START"
  <2>1. e # NULL /\ Before(e) = "outside" /\ After(e) = "inside"
    BY <1>3, Marks DEF Before, After, Continues, Opens
  <2>2. Lines(e) = << <<"file_start", e.size>>, <<"name", e.data>> >>
    BY <1>3, <2>1 DEF Lines
  <2> QED BY <1>1, <2>1, <2>2
<1>4. CASE e.type = "FILE_END"
  <2>1. e # NULL /\ Before(e) = "inside" /\ After(e) = "outside"
    BY <1>4, Marks DEF Before, After, Continues, Opens
  <2>2. Lines(e) = << <<"file_end">> >>
    BY <1>4, <2>1 DEF Lines
  <2> QED BY <2>1, <2>2
<1>5. CASE e.type = "data"
  <2>1. e # NULL /\ Before(e) = "inside" /\ After(e) = "inside"
    BY <1>5, Marks DEF Before, After, Continues, Opens
  <2>2. Lines(e) = << <<"chunk", hash2code(e.fp), e.size>> >>
    BY <1>5, <2>1 DEF Lines
  <2> QED BY <1>1, <2>1, <2>2
<1> QED BY <1>1, <1>2, <1>3, <1>4, <1>5

\* One line or two, each of which may follow the one before.
LEMMA LinesFollow ==
  ASSUME NEW e \in Piece, NEW b, b # "file_start",
         b \in {"name", "chunk"} <=> Before(e) = "inside"
  PROVE  \/ \E x \in Line :
              /\ Lines(e) = <<x>> /\ Head(x) \in Follows(b) /\ Head(x) # "file_start"
              /\ Head(x) \in {"name", "chunk"} <=> After(e) = "inside"
              /\ x = StreamEnd => e = NULL
         \/ \E x, y \in Line :
              /\ Lines(e) = <<x, y>> /\ Head(x) \in Follows(b) /\ Head(y) \in Follows(Head(x))
              /\ Head(y) = "name" /\ After(e) = "inside"
              /\ x # StreamEnd /\ y # StreamEnd
<1>1. CASE /\ e = NULL /\ Before(e) = "outside" /\ After(e) = "outside"
           /\ Lines(e) = <<StreamEnd>>
  <2>1. Head(StreamEnd) \in Follows(b)
    BY <1>1, LineHeads, FollowsIs
  <2> QED BY <1>1, <2>1, LineKinds, LineHeads
<1>2. CASE /\ e # NULL /\ Before(e) = "outside" /\ After(e) = "inside"
           /\ Lines(e) = << <<"file_start", e.size>>, <<"name", e.data>> >>
           /\ e.size \in Nat /\ e.data \in Seq(Nat)
  <2>1. PICK x \in Line : x = <<"file_start", e.size>> /\ Head(x) = "file_start"
    BY <1>2, LineKinds, LineHeads
  <2>2. PICK y \in Line : y = <<"name", e.data>> /\ Head(y) = "name"
    BY <1>2, LineKinds, LineHeads
  <2>3. Head(x) \in Follows(b) /\ Head(y) \in Follows(Head(x))
    BY <1>2, <2>1, <2>2, FollowsIs
  <2>4. x # StreamEnd /\ y # StreamEnd
    BY <2>1, <2>2, LineHeads
  <2>5. Lines(e) = <<x, y>>
    BY <1>2, <2>1, <2>2
  <2> QED BY <1>2, <2>2, <2>3, <2>4, <2>5
<1>3. CASE /\ e # NULL /\ Before(e) = "inside" /\ After(e) = "outside"
           /\ Lines(e) = << <<"file_end">> >>
  <2>1. PICK x \in Line : x = <<"file_end">> /\ Head(x) = "file_end"
    BY LineKinds, LineHeads
  <2>2. Head(x) \in Follows(b) /\ x # StreamEnd
    BY <1>3, <2>1, LineHeads, FollowsIs
  <2> QED BY <1>3, <2>1, <2>2
<1>4. CASE /\ e # NULL /\ Before(e) = "inside" /\ After(e) = "inside"
           /\ Lines(e) = << <<"chunk", hash2code(e.fp), e.size>> >>
           /\ e.fp \in Seq(Nat) /\ e.size \in Nat
  <2>1. PICK x \in Line : x = <<"chunk", hash2code(e.fp), e.size>> /\ Head(x) = "chunk"
    BY <1>4, LineKinds, LineHeads
  <2>2. Head(x) \in Follows(b) /\ x # StreamEnd
    BY <1>4, <2>1, LineHeads, FollowsIs
  <2> QED BY <1>4, <2>1, <2>2
<1> QED BY <1>1, <1>2, <1>3, <1>4, LinesAre

\* A line that may follow the last one.
LEMMA LineAppended ==
  ASSUME NEW t \in Seq(Line), InOrder(t), NEW x \in Line,
         t = <<>> => Head(x) \in Follows("stream_end"),
         t # <<>> => Head(x) \in Follows(Head(t[Len(t)]))
  PROVE  InOrder(Append(t, x))
<1> DEFINE r == Append(t, x)
<1>1. /\ Len(r) = Len(t) + 1 /\ Len(t) \in Nat /\ (t = <<>> <=> Len(t) = 0)
      /\ \A i \in 1..Len(t) : r[i] = t[i]
      /\ r[Len(t) + 1] = x
  BY Appended, LengthOf
<1> HIDE DEF r
<1>2. ASSUME NEW i \in 1..Len(r)
      PROVE  /\ i = 1 => Head(r[i]) \in Follows("stream_end")
             /\ i # 1 => Head(r[i]) \in Follows(Head(r[i-1]))
  <2>1. CASE i \in 1..Len(t)
    <3>1. i # 1 => i - 1 \in 1..Len(t)
      BY <1>1, <2>1
    <3>2. /\ i = 1 => Head(t[i]) \in Follows("stream_end")
          /\ i # 1 => Head(t[i]) \in Follows(Head(t[i-1]))
      BY <2>1 DEF InOrder
    <3> QED BY <1>1, <2>1, <3>1, <3>2
  <2>2. CASE i \notin 1..Len(t)
    <3>1. /\ i = Len(t) + 1 /\ i - 1 = Len(t) /\ (i = 1 <=> t = <<>>)
          /\ i # 1 => i - 1 \in 1..Len(t)
      BY <1>1, <2>2
    <3>2. r[i] = x /\ (i # 1 => r[i-1] = t[Len(t)])
      BY <1>1, <3>1
    <3> QED BY <3>1, <3>2
  <2> QED BY <2>1, <2>2
<1> QED BY <1>2 DEF InOrder, r

\* make_trace writes the lines of an element that begins where the trace ends.
LEMMA TraceWritten ==
  ASSUME TraceInv, NEW e \in Piece, Before(e) = Traced,
         trace' = trace \o Lines(e), line' = line, ~Has(trace, StreamEnd)
  PROVE  /\ TraceInv' /\ Traced' = After(e)
         /\ Ending(trace', StreamEnd) /\ (Has(trace', StreamEnd) => e = NULL)
<1>1. PICK b : b = IF trace = <<>> THEN "stream_end" ELSE Head(trace[Len(trace)])
  OBVIOUS
<1>2. b # "file_start" /\ (b \in {"name", "chunk"} <=> Before(e) = "inside")
  BY <1>1 DEF TraceInv, Traced
<1>3. trace \in Seq(Line) /\ line \in 0..Len(trace) /\ Len(trace) \in Nat /\ InOrder(trace)
      /\ (line > 0 => Head(trace[line]) # "file_start")
  BY LengthOf DEF TraceInv, InOrder
<1>4. /\ trace' \in Seq(Line) /\ InOrder(trace') /\ trace' # <<>>
      /\ Len(trace') \in Nat /\ Len(trace) <= Len(trace')
      /\ \A i \in 1..Len(trace) : trace'[i] = trace[i]
      /\ Head(trace'[Len(trace')]) # "file_start"
      /\ Head(trace'[Len(trace')]) \in {"name", "chunk"} <=> After(e) = "inside"
      /\ Ending(trace', StreamEnd)
      /\ Has(trace', StreamEnd) => e = NULL
  <2>1. ASSUME NEW x \in Line,
               Lines(e) = <<x>>, Head(x) \in Follows(b), Head(x) # "file_start",
               Head(x) \in {"name", "chunk"} <=> After(e) = "inside",
               x = StreamEnd => e = NULL
        PROVE  <1>4
    <3>1. trace' = Append(trace, x)
      BY <1>3, <2>1, AppendIsConcat
    <3>2. /\ trace' \in Seq(Line) /\ Len(trace') = Len(trace) + 1 /\ trace' # <<>>
          /\ \A i \in 1..Len(trace) : trace'[i] = trace[i]
          /\ trace'[Len(trace) + 1] = x
      BY <1>3, <3>1, Appended
    <3>3. InOrder(trace')
      BY <1>1, <1>3, <2>1, <3>1, LineAppended
    <3>4. Ending(trace', StreamEnd) /\ (Has(trace', StreamEnd) => x = StreamEnd)
      BY <1>3, <3>1, EndingAppend
    <3>5. Len(trace') \in Nat /\ Len(trace) <= Len(trace') /\ trace'[Len(trace')] = x
      BY <1>3, <3>2
    <3> QED BY <2>1, <3>2, <3>3, <3>4, <3>5
  <2>2. ASSUME NEW x \in Line, NEW y \in Line,
               Lines(e) = <<x, y>>, Head(x) \in Follows(b), Head(y) \in Follows(Head(x)),
               Head(y) = "name", After(e) = "inside", x # StreamEnd, y # StreamEnd
        PROVE  <1>4
    <3>1. PICK t : t = Append(trace, x)
      OBVIOUS
    <3>2. /\ t \in Seq(Line) /\ Len(t) = Len(trace) + 1 /\ t # <<>>
          /\ \A i \in 1..Len(trace) : t[i] = trace[i]
          /\ t[Len(trace) + 1] = x
      BY <1>3, <3>1, Appended
    <3>3. InOrder(t) /\ t[Len(t)] = x
      BY <1>1, <1>3, <2>2, <3>1, <3>2, LineAppended
    <3>4. ~Has(t, StreamEnd)
      BY <1>3, <2>2, <3>1, EndingAppend
    <3>5. trace' = Append(t, y)
      BY <1>3, <2>2, <3>1, AppendedTwice
    <3>6. /\ trace' \in Seq(Line) /\ Len(trace') = Len(t) + 1 /\ trace' # <<>>
          /\ \A i \in 1..Len(t) : trace'[i] = t[i]
          /\ trace'[Len(t) + 1] = y
      BY <3>2, <3>5, Appended
    <3>7. InOrder(trace')
      BY <2>2, <3>2, <3>3, <3>5, LineAppended
    <3>8. Ending(trace', StreamEnd) /\ ~Has(trace', StreamEnd)
      <4>1. Ending(Append(t, y), StreamEnd) /\ (Has(Append(t, y), StreamEnd) => y = StreamEnd)
        BY <3>2, <3>4, EndingAppend
      <4> QED BY <2>2, <3>5, <4>1
    <3>9. /\ Len(trace') \in Nat /\ Len(trace) <= Len(trace') /\ trace'[Len(trace')] = y
          /\ \A i \in 1..Len(trace) : i \in 1..Len(t)
      BY <1>3, <3>2, <3>6
    <3> QED BY <2>2, <3>2, <3>6, <3>7, <3>8, <3>9
  <2> QED BY <1>2, <2>1, <2>2, LinesFollow
<1>5. line' \in 0..Len(trace') /\ (line' > 0 => Head(trace'[line']) # "file_start")
  <2>1. line > 0 => line \in 1..Len(trace) /\ trace'[line] = trace[line]
    BY <1>3, <1>4
  <2>2. line \in 0..Len(trace')
    BY <1>3, <1>4
  <2> QED BY <1>3, <2>1, <2>2
<1>6. TraceInv'
  BY <1>4, <1>5 DEF TraceInv, InOrder
<1>7. Traced' = After(e)
  <2>1. After(e) \in {"inside", "outside"}
    BY DEF After
  <2> QED BY <1>4, <2>1 DEF Traced
<1> QED BY <1>4, <1>6, <1>7

\* Only the last line says that it is the end.
LEMMA EndLine ==
  ASSUME NEW x \in Line, Head(x) = "stream_end"
  PROVE  x = StreamEnd
<1>1. CASE x = <<"file_end">>
  BY <1>1, LineHeads
<1>2. ASSUME NEW n \in Nat, x = <<"file_start", n>> PROVE FALSE
  BY <1>2, LineHeads
<1>3. ASSUME NEW d \in Seq(Nat), x = <<"name", d>> PROVE FALSE
  BY <1>3, LineHeads
<1>4. ASSUME NEW f \in Seq(Nat), NEW n \in Nat, x = <<"chunk", hash2code(f), n>> PROVE FALSE
  BY <1>4, LineHeads
<1> QED BY <1>1, <1>2, <1>3, <1>4 DEF Line

\* What read_trace_thread reads next.
LEMMA NextIs ==
  ASSUME TraceInv, TraceReader
  PROVE  /\ line + 1 \in 1..Len(trace) /\ NextLine \in Line /\ Has(trace, StreamEnd)
         /\ Len(trace) \in Nat /\ line \in Nat
         /\ TraceInFile => Head(NextLine) \in {"chunk", "file_end"}
         /\ ~TraceInFile => Head(NextLine) \in {"file_start", "stream_end"}
<1>1. /\ trace \in Seq(Line) /\ Len(trace) \in Nat /\ line \in 0..Len(trace) /\ line < Len(trace)
      /\ trace # <<>> /\ trace[Len(trace)] = StreamEnd
  BY LengthOf DEF TraceInv, TraceReader, Last
<1>2. line + 1 \in 1..Len(trace) /\ Len(trace) \in 1..Len(trace)
  BY <1>1
<1>3. NextLine \in Line /\ NextLine = trace[line + 1]
  BY <1>1, <1>2, LengthOf DEF NextLine
<1>4. Has(trace, StreamEnd)
  BY <1>1, <1>2 DEF Has
<1>5. CASE line = 0
  <2>1. Head(trace[1]) \in Follows("stream_end")
    BY <1>2, <1>5 DEF TraceInv, InOrder
  <2> QED BY <1>1, <1>2, <1>3, <1>4, <1>5, <2>1, FollowsIs DEF TraceInFile
<1>6. CASE line # 0
  <2>1. Head(trace[line + 1]) \in Follows(Head(trace[line]))
    <3>1. line + 1 # 1 /\ (line + 1) - 1 = line
      BY <1>1, <1>6
    <3> QED BY <1>2, <3>1 DEF TraceInv, InOrder
  <2>2. Head(trace[line]) # "file_start" /\ line > 0
    BY <1>1, <1>6 DEF TraceInv
  <2> QED BY <1>1, <1>2, <1>3, <1>4, <2>1, <2>2, FollowsIs DEF TraceInFile
<1> QED BY <1>5, <1>6

\* The trace threads leave the others as they are.
LEMMA TraceLeaves ==
  ASSUME Trace
  PROVE  UNCHANGED <<source, config, geometry, at, reading, read_queue, chunk_queue, chunker,
                     leftbuf, out, hasher, tmp, segments>>
BY DEF Trace, TraceWrite, TraceFileStart, TraceChunk, TraceEnds, readVars, chunkVars, segVars,
       geometry

\* What read_trace_thread does: it reads one line, or two, and pushes what they say.
LEMMA ReaderCases ==
  ASSUME TraceInv, TraceUsed, EndInv, TraceFileStart \/ TraceChunk \/ TraceEnds
  PROVE  /\ config.trace /\ TraceReader /\ trace' = trace /\ hash_queue' = hash_queue
         /\ line' \in 1..Len(trace) /\ Head(trace[line']) # "file_start"
         /\ \E e : /\ trace_queue' = Append(trace_queue, e)
                   /\ e = NULL => line' = Len(trace)
<1>1. /\ TraceReader /\ trace' = trace /\ hash_queue' = hash_queue
  BY DEF TraceFileStart, TraceChunk, TraceEnds
<1>2. config.trace
  BY <1>1 DEF TraceUsed, TraceReader
<1>3. /\ line + 1 \in 1..Len(trace) /\ NextLine \in Line /\ NextLine = trace[line + 1]
      /\ Len(trace) \in Nat /\ line \in Nat
      /\ TraceInFile => Head(NextLine) \in {"chunk", "file_end"}
      /\ ~TraceInFile => Head(NextLine) \in {"file_start", "stream_end"}
  BY <1>1, NextIs DEF NextLine
<1>4. CASE TraceFileStart
  <2>1. /\ ~TraceInFile /\ NextLine # StreamEnd /\ line' = line + 2
        /\ trace_queue' = Append(trace_queue, FILE_START(SubSeq(trace[line+2][2], 1, NextLine[2])))
    BY <1>4 DEF TraceFileStart
  <2>2. Head(NextLine) = "file_start"
    BY <1>3, <2>1, EndLine
  <2>3. line + 2 \in 1..Len(trace)
    <3>1. line + 1 # Len(trace)
      BY <1>1, <1>3, <2>1 DEF TraceReader, Last
    <3> QED BY <1>3, <3>1
  <2>4. Head(trace[line + 2]) = "name"
    <3>1. line + 2 # 1 /\ (line + 2) - 1 = line + 1
      BY <1>3
    <3>2. Head(trace[line + 2]) \in Follows(Head(trace[line + 1]))
      BY <2>3, <3>1 DEF TraceInv, InOrder
    <3> QED BY <1>3, <2>2, <3>2, FollowsIs
  <2>5. FILE_START(SubSeq(trace[line+2][2], 1, NextLine[2])) # NULL
    BY DEF FILE_START, NULL, Chunk
  <2> QED BY <1>1, <1>2, <2>1, <2>3, <2>4, <2>5
<1>5. CASE TraceChunk
  <2> DEFINE e == IF Head(NextLine) = "file_end" THEN FILE_END
                  ELSE [type |-> "data", data |-> <<>>, fp |-> code2hash(NextLine[2]),
                        size |-> NextLine[3]]
  <2>1. TraceInFile /\ line' = line + 1 /\ trace_queue' = Append(trace_queue, e)
    BY <1>5 DEF TraceChunk
  <2>2. e # NULL
    BY DEF FILE_END, NULL, Chunk
  <2> HIDE DEF e
  <2> QED BY <1>1, <1>2, <1>3, <2>1, <2>2
<1>6. CASE TraceEnds
  <2>1. /\ NextLine = StreamEnd /\ line' = line + 1 /\ trace_queue' = Append(trace_queue, NULL)
    BY <1>6 DEF TraceEnds
  <2>2. line + 1 = Len(trace)
    BY <1>3, <2>1 DEF EndInv, Ending
  <2> QED BY <1>1, <1>2, <1>3, <2>1, <2>2, LineHeads
<1> QED BY <1>4, <1>5, <1>6

\* The trace is written in order, to its end, and read from there.
LEMMA TraceKeeps ==
  ASSUME FlowTypes, FlowOrder, TraceInv, TraceUsed, EndInv, Trace
  PROVE  FlowTypes' /\ FlowOrder' /\ TraceInv' /\ TraceUsed' /\ EndInv'
<1>1. UNCHANGED <<source, config, at, reading, read_queue, chunk_queue, chunker, out, hasher>>
  BY TraceLeaves
<1>2. /\ chunk_queue \in Seq(Piece) /\ hash_queue \in Seq(Piece)
      /\ out \in (Piece \ {NULL}) \cup {Nothing}
      /\ hasher \in (Piece \ {NULL}) \cup {Nothing}
      /\ IsSequence(trace_queue)
  BY DEF FlowTypes
<1>3. PICK c \in {"inside", "outside"}, h \in {"inside", "outside"} :
        /\ Leads(chunk_queue, c, IF out = Nothing THEN Cutting ELSE Before(out))
        /\ IF hasher = Nothing THEN h = c ELSE h = Before(hasher) /\ c = After(hasher)
        /\ config.trace => Leads(hash_queue, Traced, h)
  BY DEF FlowOrder
<1>4. /\ Cutting' = Cutting /\ ReadEnded' = ReadEnded /\ CutEnded' = CutEnded
      /\ HashEnded' = HashEnded
  BY <1>1 DEF Cutting, ReadEnded, CutEnded, HashEnded
<1>5. CASE TraceWrite
  <2> DEFINE e == Head(hash_queue)
  <2>1. /\ config.trace /\ hash_queue # <<>> /\ hash_queue' = Tail(hash_queue)
        /\ trace' = trace \o Lines(e) /\ line' = line /\ trace_queue' = trace_queue
    BY <1>5 DEF TraceWrite
  <2>2. ~TraceEnded /\ ~Has(trace, StreamEnd) /\ ~Has(trace_queue, NULL)
    BY <2>1 DEF EndInv, TraceEnded
  <2>3. hash_queue' \in Seq(Piece) /\ e \in Piece
    BY <1>2, <2>1, Popped
  <2>4. /\ Ending(hash_queue', NULL) /\ (Has(hash_queue', NULL) => HashEnded)
        /\ e = NULL => hash_queue' = <<>> /\ HashEnded
    <3>1. Ending(hash_queue, NULL)
      BY DEF EndInv
    <3>2. /\ Ending(Tail(hash_queue), NULL)
          /\ Has(Tail(hash_queue), NULL) => Has(hash_queue, NULL)
          /\ e = NULL => Tail(hash_queue) = <<>> /\ Has(hash_queue, NULL)
      BY <1>2, <2>1, <3>1, EndingTail
    <3> QED BY <2>1, <3>2 DEF EndInv
  <2>5. Before(e) = Traced /\ Leads(hash_queue', After(e), h)
    BY <1>2, <1>3, <2>1, LeadsTail
  <2>6. /\ TraceInv' /\ Traced' = After(e)
        /\ Ending(trace', StreamEnd) /\ (Has(trace', StreamEnd) => e = NULL)
    BY <2>1, <2>2, <2>3, <2>5, TraceWritten
  <2>7. FlowTypes'
    BY <1>1, <1>2, <2>1, <2>3 DEF FlowTypes
  <2>8. FlowOrder'
    BY <1>1, <1>3, <1>4, <2>5, <2>6 DEF FlowOrder
  <2>9. TraceUsed'
    BY <1>1, <2>1 DEF TraceUsed
  <2>10. e = NULL => TraceEnded'
    BY <1>4, <2>4 DEF TraceEnded
  <2>11. EndInv'
    BY <1>1, <1>4, <2>1, <2>2, <2>4, <2>6, <2>10 DEF EndInv
  <2> QED BY <2>6, <2>7, <2>8, <2>9, <2>11
<1>6. CASE TraceFileStart \/ TraceChunk \/ TraceEnds
  <2>1. /\ config.trace /\ TraceReader /\ trace' = trace /\ hash_queue' = hash_queue
        /\ line' \in 1..Len(trace) /\ Head(trace[line']) # "file_start"
    BY <1>6, ReaderCases
  <2>2. PICK e : trace_queue' = Append(trace_queue, e) /\ (e = NULL => line' = Len(trace))
    BY <1>6, ReaderCases
  <2>3. TraceEnded /\ TraceEnded'
    <3>1. TraceEnded
      BY <2>1, NextIs DEF EndInv
    <3> QED BY <1>4, <2>1, <3>1 DEF TraceEnded
  <2>4. ~Has(trace_queue, NULL)
    BY <2>1, NextIs DEF EndInv, TraceReader
  <2>5. /\ IsSequence(trace_queue') /\ Ending(trace_queue', NULL)
        /\ Has(trace_queue', NULL) => e = NULL
    <3>1. IsSequence(trace_queue') /\ trace_queue \in Seq(ToSet(trace_queue) \cup {e})
      BY <1>2, <2>2, SequenceAppend
    <3>2. PICK S : trace_queue \in Seq(S) /\ e \in S
      BY <3>1
    <3>3. Ending(Append(trace_queue, e), NULL) /\ (Has(Append(trace_queue, e), NULL) => e = NULL)
      BY <2>4, <3>2, EndingAppend
    <3> QED BY <2>2, <3>1, <3>3
  <2>6. FlowTypes'
    BY <1>1, <1>2, <2>1, <2>5 DEF FlowTypes
  <2>7. FlowOrder'
    <3>1. Traced' = Traced
      BY <2>1 DEF Traced
    <3> QED BY <1>1, <1>3, <1>4, <2>1, <3>1 DEF FlowOrder
  <2>8. TraceInv'
    <3>1. line' \in 0..Len(trace)
      BY <2>1, NextIs
    <3> QED BY <2>1, <3>1 DEF TraceInv
  <2>9. TraceUsed'
    BY <1>1, <2>1 DEF TraceUsed
  <2>10. EndInv'
    BY <1>1, <1>4, <2>1, <2>2, <2>3, <2>5 DEF EndInv
  <2> QED BY <2>6, <2>7, <2>8, <2>9, <2>10
<1> QED BY <1>5, <1>6 DEF Trace

-----------------------------------------------------------------------------
(* Segmenting.                                                             *)

\* The chunks of a sequence are counted.
LEMMA Counted ==
  ASSUME NEW s, Len(s) \in Nat, DOMAIN s = 1..Len(s)
  PROVE  /\ DataAt(s) \subseteq 1..Len(s) /\ IsFiniteSet(DataAt(s)) /\ ChunkNum(s) \in Nat
         /\ \A i : IsFiniteSet(DataAt(s) \cap 1..i) /\ Cardinality(DataAt(s) \cap 1..i) \in Nat
<1>1. DataAt(s) \subseteq 1..Len(s)
  BY DEF DataAt
<1>2. IsFiniteSet(1..Len(s))
  BY FS_Interval
<1>3. IsFiniteSet(DataAt(s))
  BY <1>1, <1>2, FS_Subset
<1>4. \A i : IsFiniteSet(DataAt(s) \cap 1..i)
  BY <1>3, FS_Subset
<1> QED BY <1>1, <1>3, <1>4, FS_CardinalityType DEF ChunkNum

\* No chunks in an empty segment, and one at most in the first place.
LEMMA CountEmpty ==
  /\ ChunkNum(<<>>) = 0 /\ NoAnchor(<<>>)
  /\ \A e : /\ ChunkNum(<<e>>) <= 1 /\ ChunkNum(<<e>>) \in Nat
            /\ config.segmin \in Nat \ {0} => NoAnchor(<<e>>)
<1>1. DataAt(<<>>) = {}
  BY DEF DataAt
<1>2. ASSUME NEW e PROVE Cardinality(DataAt(<<e>>)) \in {0, 1} /\ DataAt(<<e>>) \subseteq {1}
  <2>1. DataAt(<<e>>) = {} \/ DataAt(<<e>>) = {1}
    BY DEF DataAt
  <2> QED BY <2>1, FS_EmptySet, FS_Singleton
<1>3. ASSUME NEW e, config.segmin \in Nat \ {0} PROVE NoAnchor(<<e>>)
  <2>1. ASSUME NEW i \in DataAt(<<e>>) PROVE ~(Cardinality(DataAt(<<e>>) \cap 1..i) > config.segmin)
    <3>1. i = 1 /\ DataAt(<<e>>) \cap 1..i = DataAt(<<e>>)
      BY <1>2, <2>1
    <3> QED BY <1>2, <1>3, <3>1
  <2> QED BY <2>1 DEF NoAnchor
<1>4. ChunkNum(<<>>) = 0 /\ NoAnchor(<<>>)
  BY <1>1, FS_EmptySet DEF ChunkNum, NoAnchor
<1>5. ASSUME NEW e PROVE ChunkNum(<<e>>) <= 1 /\ ChunkNum(<<e>>) \in Nat
  BY <1>2 DEF ChunkNum
<1> QED BY <1>3, <1>4, <1>5

\* An interval with one more.
LEMMA OneMore ==
  ASSUME NEW n \in Nat
  PROVE  /\ n + 1 \in 1..n + 1 /\ n + 1 \notin 1..n
         /\ \A i \in 1..n + 1 : i # n + 1 => i \in 1..n
         /\ \A i \in 1..n : i \in 1..n + 1 /\ n + 1 \notin 1..i
OBVIOUS

\* One more, if what is appended is a chunk.
LEMMA CountAppend ==
  ASSUME NEW s, NEW r, NEW e, Len(s) \in Nat, DOMAIN s = 1..Len(s),
         Len(r) = Len(s) + 1, DOMAIN r = 1..Len(r),
         \A i \in 1..Len(s) : r[i] = s[i], r[Len(r)] = e
  PROVE  /\ ChunkNum(r) = IF IsData(e) THEN ChunkNum(s) + 1 ELSE ChunkNum(s)
         /\ ChunkNum(s) \in Nat /\ ChunkNum(r) \in Nat
         /\ NoAnchor(s) /\ (IsData(e) /\ ChunkNum(s) + 1 > config.segmin => ~Anchor(e))
              => NoAnchor(r)
<1> DEFINE n == Len(s)
<1>0. n \in Nat /\ Len(r) = n + 1
  OBVIOUS
<1> HIDE DEF n
<1>1. n \in Nat /\ n = Len(s) /\ Len(r) = n + 1 /\ n + 1 \in 1..n + 1 /\ n + 1 \notin 1..n
  BY <1>0, OneMore DEF n
<1>2. DataAt(r) = DataAt(s) \cup (IF IsData(e) THEN {n + 1} ELSE {})
  <2>1. /\ \A i \in 1..n + 1 : i # n + 1 => i \in 1..n
        /\ \A i \in 1..n : i \in 1..n + 1
    BY <1>1, OneMore, Zenon
  <2> QED BY <1>1, <2>1 DEF DataAt
<1>3. /\ DataAt(s) \subseteq 1..n /\ IsFiniteSet(DataAt(s)) /\ ChunkNum(s) \in Nat
  BY <1>1, Counted
<1>4. ChunkNum(r) = IF IsData(e) THEN ChunkNum(s) + 1 ELSE ChunkNum(s)
  <2>1. n + 1 \notin DataAt(s)
    BY <1>1, <1>3
  <2>2. Cardinality(DataAt(s) \cup {n + 1}) = Cardinality(DataAt(s)) + 1
    BY <1>3, <2>1, FS_AddElement
  <2> QED BY <1>2, <2>2 DEF ChunkNum
<1>5. ASSUME NoAnchor(s), IsData(e) /\ ChunkNum(s) + 1 > config.segmin => ~Anchor(e),
             NEW i \in DataAt(r), Cardinality(DataAt(r) \cap 1..i) > config.segmin
      PROVE  ~Anchor(r[i])
  <2>1. CASE i = n + 1
    <3>1. IsData(e) /\ DataAt(r) \cap 1..i = DataAt(r)
      <4>1. i \notin DataAt(s)
        BY <1>1, <1>3, <2>1
      <4>2. DataAt(r) \subseteq 1..n + 1
        BY <1>1 DEF DataAt
      <4> QED BY <1>2, <1>5, <2>1, <4>1, <4>2
    <3> QED BY <1>1, <1>4, <1>5, <2>1, <3>1 DEF ChunkNum
  <2>2. CASE i # n + 1
    <3>1. i \in DataAt(s) /\ i \in 1..n
      BY <1>2, <1>3, <1>5, <2>2
    <3>2. n + 1 \notin 1..i
      BY <1>1, <3>1, OneMore, Zenon
    <3>3. DataAt(r) \cap 1..i = DataAt(s) \cap 1..i
      BY <1>2, <3>2
    <3> QED BY <1>1, <1>5, <3>1, <3>3 DEF NoAnchor
  <2> QED BY <2>1, <2>2
<1>6. ChunkNum(r) \in Nat
  BY <1>3, <1>4
<1> QED BY <1>3, <1>4, <1>5, <1>6 DEF NoAnchor

\* What comes after what follows a segment does not matter.
LEMMA NextExtended ==
  ASSUME NEW s, NEW n, NEW m, AsConfigured(s, n), n # <<>> => m # <<>> /\ m[1] = n[1]
  PROVE  AsConfigured(s, m)
BY DEF AsConfigured

\* A segment with one more element: what is appended to, and the segment it makes.
LEMMA SegmentAppended ==
  ASSUME NEW s, IsSequence(s), NEW e
  PROVE  /\ Len(s) \in Nat /\ DOMAIN s = 1..Len(s)
         /\ IsSequence(Append(s, e)) /\ Append(s, e) # <<>>
         /\ Len(Append(s, e)) = Len(s) + 1 /\ DOMAIN Append(s, e) = 1..Len(Append(s, e))
         /\ \A i \in 1..Len(s) : Append(s, e)[i] = s[i]
         /\ Append(s, e)[Len(Append(s, e))] = e
         /\ s # <<>> => 1 \in 1..Len(s)
<1> DEFINE r == Append(s, e)
<1>1. IsSequence(r) /\ r # <<>> /\ Len(s) \in Nat /\ (s = <<>> <=> Len(s) = 0)
  BY SequenceAppend
<1>2. Len(r) = Len(s) + 1 /\ r[Len(s) + 1] = e
  BY SequenceAppend
<1>3. \A i \in 1..Len(s) : r[i] = s[i]
  BY SequenceAppend
<1> HIDE DEF r
<1>4. DOMAIN s = 1..Len(s) /\ DOMAIN r = 1..Len(r)
  BY <1>1, LengthOf DEF IsSequence
<1>5. s # <<>> => 1 \in 1..Len(s)
  BY <1>1
<1> QED BY <1>1, <1>2, <1>3, <1>4, <1>5 DEF r

\* The numbers and the method of segmenting.
LEMMA SegmentingIs ==
  ASSUME config \in Configs
  PROVE  /\ config.segmenting \in {"fixed", "file_defined", "content_defined"}
         /\ config.every \in Nat \ {0} /\ config.segmin \in Nat \ {0}
         /\ config.segmax \in Nat \ {0}
BY FrontEndAssumption DEF Config

\* What each method promises.
LEMMA AsConfiguredIs ==
  ASSUME NEW s, NEW next
  PROVE  /\ /\ config.segmenting = "fixed"
            /\ ChunkNum(s) = config.every /\ IsData(Last(s))
            => AsConfigured(s, next)
         /\ /\ config.segmenting = "file_defined"
            /\ {i \in DOMAIN s : s[i] = FILE_END} = {Len(s)}
            => AsConfigured(s, next)
         /\ /\ config.segmenting = "content_defined"
            /\ ChunkNum(s) \in config.segmin .. Larger(config.segmin + 1, config.segmax)
            /\ NoAnchor(s)
            /\ \/ next # <<>> /\ IsData(next[1]) /\ Anchor(next[1])
               \/ IsData(Last(s)) /\ ChunkNum(s) >= config.segmax
            => AsConfigured(s, next)
<1>1. ASSUME config.segmenting = "fixed", ChunkNum(s) = config.every, IsData(Last(s))
      PROVE  AsConfigured(s, next)
  BY <1>1 DEF AsConfigured
<1> DEFINE F == {i \in DOMAIN s : s[i] = FILE_END} = {Len(s)}
<1>2. ASSUME config.segmenting = "file_defined", F PROVE AsConfigured(s, next)
  <2>1. AsConfigured(s, next) <=> F
    BY <1>2 DEF AsConfigured
  <2> QED BY <1>2, <2>1
<1>3. ASSUME config.segmenting = "content_defined",
             ChunkNum(s) \in config.segmin .. Larger(config.segmin + 1, config.segmax),
             NoAnchor(s),
             \/ next # <<>> /\ IsData(next[1]) /\ Anchor(next[1])
             \/ IsData(Last(s)) /\ ChunkNum(s) >= config.segmax
      PROVE  AsConfigured(s, next)
  BY <1>3 DEF AsConfigured
<1> QED BY <1>1, <1>2, <1>3

\* A segment under construction that is closed before e is as configured.
LEMMA ClosedBefore ==
  ASSUME config \in Configs, IsSequence(tmp), Unclosed, NEW e, ClosesBefore(e)
  PROVE  AsConfigured(tmp, <<e>>)
<1>1. /\ config.segmenting = "content_defined" /\ IsData(e) /\ ChunkNum(tmp) >= config.segmin
      /\ Anchor(e)
  BY DEF ClosesBefore
<1>2. ChunkNum(tmp) \in Nat
  BY SegmentAppended, Counted
<1>3. NoAnchor(tmp) /\ (ChunkNum(tmp) <= config.segmin \/ ChunkNum(tmp) < config.segmax)
  BY <1>1 DEF Unclosed
<1>4. ChunkNum(tmp) \in config.segmin .. Larger(config.segmin + 1, config.segmax)
  BY <1>1, <1>2, <1>3, SegmentingIs DEF Larger
<1>5. <<e>> # <<>> /\ <<e>>[1] = e
  OBVIOUS
<1> QED BY <1>1, <1>3, <1>4, <1>5, AsConfiguredIs

\* So is one that is closed after e.
LEMMA ClosedAfter ==
  ASSUME config \in Configs, IsSequence(tmp), Unclosed, NEW e, ClosesAfter(e)
  PROVE  AsConfigured(Append(tmp, e), <<>>)
<1> DEFINE r == Append(tmp, e)
<1>1. /\ Len(tmp) \in Nat /\ DOMAIN tmp = 1..Len(tmp)
      /\ Len(r) = Len(tmp) + 1 /\ DOMAIN r = 1..Len(r)
      /\ \A i \in 1..Len(tmp) : r[i] = tmp[i]
      /\ r[Len(r)] = e
  BY SegmentAppended
<1> SUFFICES AsConfigured(r, <<>>)
  OBVIOUS
<1> HIDE DEF r
<1>2. /\ ChunkNum(r) = IF IsData(e) THEN ChunkNum(tmp) + 1 ELSE ChunkNum(tmp)
      /\ ChunkNum(tmp) \in Nat
      /\ NoAnchor(tmp) /\ (IsData(e) /\ ChunkNum(tmp) + 1 > config.segmin => ~Anchor(e))
           => NoAnchor(r)
  BY <1>1, CountAppend
<1>3. Last(r) = e
  BY <1>1 DEF Last
<1>4. CASE config.segmenting = "fixed"
  <2>1. IsData(e) /\ ChunkNum(tmp) + 1 = config.every
    BY <1>4 DEF ClosesAfter
  <2>2. ChunkNum(r) = config.every
    BY <1>2, <2>1
  <2> QED BY <1>3, <1>4, <2>1, <2>2, AsConfiguredIs
<1>5. CASE config.segmenting = "file_defined"
  <2>1. e = FILE_END /\ ~Has(tmp, FILE_END)
    BY <1>5 DEF ClosesAfter, Unclosed
  <2>2. ASSUME NEW i \in 1..Len(r), r[i] = FILE_END PROVE i = Len(r)
    <3>1. i \in 1..Len(tmp) \/ i = Len(r)
      BY <1>1
    <3> QED BY <1>1, <2>1, <2>2, <3>1 DEF Has
  <2>3. Len(r) \in 1..Len(r)
    BY <1>1
  <2>4. {i \in DOMAIN r : r[i] = FILE_END} = {Len(r)}
    BY <1>1, <2>1, <2>2, <2>3
  <2> QED BY <1>5, <2>4, AsConfiguredIs
<1>6. CASE config.segmenting = "content_defined"
  <2>1. /\ IsData(e) /\ ChunkNum(tmp) >= config.segmin /\ ~Anchor(e)
        /\ ChunkNum(tmp) + 1 >= config.segmax
    BY <1>6 DEF ClosesAfter
  <2>2. NoAnchor(tmp) /\ (ChunkNum(tmp) <= config.segmin \/ ChunkNum(tmp) < config.segmax)
    BY <1>6 DEF Unclosed
  <2>3. ChunkNum(r) = ChunkNum(tmp) + 1 /\ NoAnchor(r)
    BY <1>2, <2>1, <2>2
  <2>4. ChunkNum(r) \in config.segmin .. Larger(config.segmin + 1, config.segmax)
        /\ ChunkNum(r) >= config.segmax
    BY <1>2, <2>1, <2>2, <2>3, SegmentingIs DEF Larger
  <2> QED BY <1>3, <1>6, <2>1, <2>3, <2>4, AsConfiguredIs
<1> QED BY <1>4, <1>5, <1>6, SegmentingIs

\* One that is closed neither before nor after e is still under construction.
LEMMA StillUnclosed ==
  ASSUME config \in Configs, IsSequence(tmp), Unclosed, NEW e, config' = config,
         ~ClosesBefore(e), ~ClosesAfter(e), tmp' = Append(tmp, e)
  PROVE  Unclosed'
<1>1. /\ Len(tmp) \in Nat /\ DOMAIN tmp = 1..Len(tmp)
      /\ Len(tmp') = Len(tmp) + 1 /\ DOMAIN tmp' = 1..Len(tmp')
      /\ \A i \in 1..Len(tmp) : tmp'[i] = tmp[i]
      /\ tmp'[Len(tmp')] = e
  BY SegmentAppended
<1>2. PICK r : r = tmp'
  OBVIOUS
<1>3. /\ ChunkNum(r) = IF IsData(e) THEN ChunkNum(tmp) + 1 ELSE ChunkNum(tmp)
      /\ ChunkNum(tmp) \in Nat
      /\ NoAnchor(tmp) /\ (IsData(e) /\ ChunkNum(tmp) + 1 > config.segmin => ~Anchor(e))
           => NoAnchor(r)
  BY <1>1, <1>2, CountAppend
<1>4. ChunkNum(tmp)' = ChunkNum(r) /\ NoAnchor(tmp)' = NoAnchor(r)
  BY <1>2 DEF ChunkNum, NoAnchor, DataAt, Anchor
<1>5. CASE config.segmenting = "fixed"
  <2>1. ChunkNum(tmp) < config.every /\ ~(IsData(e) /\ ChunkNum(tmp) + 1 = config.every)
    BY <1>5 DEF Unclosed, ClosesAfter
  <2>2. ChunkNum(r) < config.every
    BY <1>3, <2>1, SegmentingIs
  <2> QED BY <1>4, <1>5, <2>2 DEF Unclosed
<1>6. CASE config.segmenting = "file_defined"
  <2>1. ~Has(tmp, FILE_END) /\ e # FILE_END
    BY <1>6 DEF Unclosed, ClosesAfter
  <2>2. ~Has(tmp', FILE_END)
    <3>1. ASSUME NEW i \in 1..Len(r), r[i] = FILE_END PROVE FALSE
      <4>1. i \in 1..Len(tmp) \/ i = Len(r)
        BY <1>1, <1>2
      <4> QED BY <1>1, <1>2, <2>1, <3>1, <4>1 DEF Has
    <3> QED BY <1>2, <3>1 DEF Has
  <2>3. Has(tmp, FILE_END)' = Has(tmp', FILE_END)
    BY DEF Has, FILE_END, Chunk
  <2> QED BY <1>6, <2>2, <2>3 DEF Unclosed
<1>7. CASE config.segmenting = "content_defined"
  <2>1. NoAnchor(tmp) /\ (ChunkNum(tmp) <= config.segmin \/ ChunkNum(tmp) < config.segmax)
    BY <1>7 DEF Unclosed
  <2>2. CASE ~IsData(e)
    <3>1. NoAnchor(r) /\ ChunkNum(r) = ChunkNum(tmp)
      BY <1>3, <2>1, <2>2
    <3> QED BY <1>4, <1>7, <2>1, <3>1 DEF Unclosed
  <2>3. CASE IsData(e) /\ ChunkNum(tmp) < config.segmin
    <3>1. NoAnchor(r) /\ ChunkNum(r) <= config.segmin
      BY <1>3, <2>1, <2>3, SegmentingIs
    <3> QED BY <1>4, <1>7, <3>1 DEF Unclosed
  <2>4. CASE IsData(e) /\ ~(ChunkNum(tmp) < config.segmin)
    <3>1. ChunkNum(tmp) >= config.segmin
      BY <1>3, <2>4, SegmentingIs
    <3>2. ~Anchor(e) /\ ~(ChunkNum(tmp) + 1 >= config.segmax)
      BY <1>7, <2>4, <3>1 DEF ClosesBefore, ClosesAfter
    <3>3. NoAnchor(r) /\ ChunkNum(r) < config.segmax
      BY <1>3, <2>1, <2>4, <3>2, SegmentingIs
    <3> QED BY <1>4, <1>7, <3>3 DEF Unclosed
  <2> QED BY <2>2, <2>3, <2>4
<1> QED BY <1>5, <1>6, <1>7, SegmentingIs

\* The methods stay as configured.
LEMMA SameMethod ==
  ASSUME config' = config
  PROVE  SegmentsAsConfigured' <=>
           \A k \in DOMAIN segments' :
             \/ Ended' /\ k = Len(segments')
             \/ AsConfigured(segments'[k],
                             IF k < Len(segments') THEN segments'[k+1] ELSE tmp')
BY DEF SegmentsAsConfigured, AsConfigured, NoAnchor, Anchor

\* What follows the segment k.
Following(k) == IF k < Len(segments) THEN segments[k+1] ELSE tmp

\* While it goes on, every segment is as configured.
LEMMA AllConfigured ==
  ASSUME SegmentInv, ~Ended
  PROVE  /\ \A k \in DOMAIN segments : AsConfigured(segments[k], Following(k))
         /\ IsSequence(tmp) /\ IsSequence(segments) /\ Unclosed
BY DEF SegmentInv, SegmentsAsConfigured, Following

\* A segment s that begins with the one under construction is closed.
LEMMA SegmentClosed ==
  ASSUME SegmentInv, ~Ended, config' = config, NEW s, tmp # <<>> => s # <<>> /\ s[1] = tmp[1],
         segments' = Append(segments, s), AsConfigured(s, tmp') \/ Ended'
  PROVE  SegmentsAsConfigured' /\ IsSequence(segments')
<1>1. /\ Len(segments) \in Nat /\ DOMAIN segments = 1..Len(segments) /\ IsSequence(segments')
      /\ Len(segments') = Len(segments) + 1 /\ DOMAIN segments' = 1..Len(segments')
      /\ \A i \in 1..Len(segments) : segments'[i] = segments[i]
      /\ segments'[Len(segments')] = s
  BY AllConfigured, SegmentAppended
<1>2. ASSUME NEW k \in DOMAIN segments'
      PROVE  \/ Ended' /\ k = Len(segments')
             \/ AsConfigured(segments'[k],
                             IF k < Len(segments') THEN segments'[k+1] ELSE tmp')
  <2>1. CASE k = Len(segments')
    BY <1>1, <2>1
  <2>2. CASE k # Len(segments')
    <3>1. k \in 1..Len(segments) /\ k < Len(segments')
          /\ (k < Len(segments) => k + 1 \in 1..Len(segments))
          /\ (~(k < Len(segments)) => k + 1 = Len(segments'))
      BY <1>1, <2>2
    <3>2. AsConfigured(segments[k], Following(k))
      BY <1>1, <3>1, AllConfigured
    <3>3. Following(k) # <<>> => segments'[k+1] # <<>> /\ segments'[k+1][1] = Following(k)[1]
      BY <1>1, <3>1 DEF Following
    <3>4. AsConfigured(segments[k], segments'[k+1])
      BY <3>2, <3>3, NextExtended, Zenon
    <3> QED BY <1>1, <3>1, <3>4
  <2> QED BY <2>1, <2>2
<1> QED BY <1>1, <1>2, SameMethod

\* The segment under construction is begun or goes on.
LEMMA Continued ==
  ASSUME SegmentInv, ~Ended, config' = config, NEW e, tmp' = Append(tmp, e), segments' = segments
  PROVE  SegmentsAsConfigured' /\ IsSequence(segments')
<1>1. /\ IsSequence(segments) /\ IsSequence(tmp) /\ tmp' # <<>>
      /\ tmp # <<>> => tmp'[1] = tmp[1]
  BY AllConfigured, SegmentAppended
<1>2. ASSUME NEW k \in DOMAIN segments'
      PROVE  AsConfigured(segments'[k], IF k < Len(segments') THEN segments'[k+1] ELSE tmp')
  <2>1. AsConfigured(segments[k], Following(k))
    BY AllConfigured
  <2>2. CASE k < Len(segments)
    BY <2>1, <2>2 DEF Following
  <2>3. CASE ~(k < Len(segments))
    <3>1. AsConfigured(segments[k], tmp)
      BY <2>1, <2>3 DEF Following
    <3>2. AsConfigured(segments[k], tmp')
      BY <1>1, <3>1, NextExtended, Zenon
    <3> QED BY <2>3, <3>2
  <2> QED BY <2>2, <2>3
<1> QED BY <1>1, <1>2, SameMethod

\* A new segment, or one with a single element, is not to be closed yet.
LEMMA UnclosedNew ==
  ASSUME config \in Configs, config' = config,
         tmp' = <<>> \/ (config.segmenting = "content_defined" /\ \E e : tmp' = <<e>>)
  PROVE  Unclosed' /\ IsSequence(tmp')
<1>1. CASE tmp' = <<>>
  <2>1. ChunkNum(<<>>) = 0 /\ NoAnchor(<<>>) /\ ~Has(<<>>, FILE_END)
    BY CountEmpty DEF Has
  <2>2. ChunkNum(tmp)' = 0 /\ NoAnchor(tmp)' /\ ~Has(tmp, FILE_END)'
    BY <1>1, <2>1 DEF ChunkNum, NoAnchor, DataAt, Anchor, Has, FILE_END, Chunk
  <2>3. IsSequence(tmp')
    BY <1>1 DEF IsSequence
  <2> QED BY <2>2, <2>3, SegmentingIs DEF Unclosed
<1>2. ASSUME config.segmenting = "content_defined", NEW e, tmp' = <<e>>
      PROVE  Unclosed' /\ IsSequence(tmp')
  <2>1. ChunkNum(<<e>>) <= 1 /\ ChunkNum(<<e>>) \in Nat /\ NoAnchor(<<e>>)
    BY CountEmpty, SegmentingIs
  <2>2. ChunkNum(tmp)' = ChunkNum(<<e>>) /\ NoAnchor(tmp)'
    BY <1>2, <2>1 DEF ChunkNum, NoAnchor, DataAt, Anchor
  <2>3. IsSequence(tmp')
    BY <1>2 DEF IsSequence, ToSet
  <2>4. ChunkNum(tmp)' <= config.segmin
    BY <2>1, <2>2, SegmentingIs
  <2> QED BY <1>2, <2>2, <2>3, <2>4 DEF Unclosed
<1> QED BY <1>1, <1>2

\* The next element closes a segment as configured, or the segment goes on.
LEMMA SegmentKeeps ==
  ASSUME config \in Configs, config' = config, SegmentInv, ~Ended,
         NEW e, Segment(e), e = NULL => Ended'
  PROVE  SegmentInv'
<1>1. IsSequence(tmp) /\ IsSequence(segments) /\ Unclosed
  BY AllConfigured
<1>2. CASE e = NULL
  <2>1. segments' = Append(segments, tmp) /\ tmp' = <<>> /\ Ended'
    <3>1. ~ClosesBefore(e) /\ ~ClosesAfter(e)
      BY <1>2, Marks DEF ClosesBefore, ClosesAfter, IsData
    <3>2. segments' = Append(segments, tmp) /\ tmp' = <<>>
      BY <1>2, <3>1 DEF Segment
    <3> QED BY <1>2, <3>2
  <2>2. SegmentsAsConfigured' /\ IsSequence(segments')
    BY <2>1, SegmentClosed
  <2>3. IsSequence(tmp')
    BY <2>1, UnclosedNew
  <2> QED BY <2>1, <2>2, <2>3 DEF SegmentInv
<1>3. CASE e # NULL /\ ClosesBefore(e)
  <2>1. segments' = Append(segments, tmp) /\ tmp' = <<e>>
    <3>1. ~ClosesAfter(e)
      BY <1>3 DEF ClosesBefore, ClosesAfter
    <3> QED BY <1>3, <3>1 DEF Segment
  <2>2. AsConfigured(tmp, tmp')
    BY <1>1, <1>3, <2>1, ClosedBefore
  <2>3. SegmentsAsConfigured' /\ IsSequence(segments')
    BY <2>1, <2>2, SegmentClosed
  <2>4. Unclosed' /\ IsSequence(tmp')
    BY <1>3, <2>1, UnclosedNew DEF ClosesBefore
  <2> QED BY <2>3, <2>4 DEF SegmentInv
<1>4. CASE e # NULL /\ ~ClosesBefore(e) /\ ClosesAfter(e)
  <2>1. segments' = Append(segments, Append(tmp, e)) /\ tmp' = <<>>
    BY <1>4 DEF Segment
  <2>2. AsConfigured(Append(tmp, e), tmp')
    BY <1>1, <1>4, <2>1, ClosedAfter
  <2>3. tmp # <<>> => Append(tmp, e) # <<>> /\ Append(tmp, e)[1] = tmp[1]
    BY <1>1, SegmentAppended
  <2>4. SegmentsAsConfigured' /\ IsSequence(segments')
    BY <2>1, <2>2, <2>3, SegmentClosed
  <2>5. Unclosed' /\ IsSequence(tmp')
    BY <2>1, UnclosedNew
  <2> QED BY <2>4, <2>5 DEF SegmentInv
<1>5. CASE e # NULL /\ ~ClosesBefore(e) /\ ~ClosesAfter(e)
  <2>1. tmp' = Append(tmp, e) /\ segments' = segments
    BY <1>5 DEF Segment
  <2>2. SegmentsAsConfigured' /\ IsSequence(segments')
    BY <2>1, Continued
  <2>3. IsSequence(tmp') /\ Unclosed'
    BY <1>1, <1>5, <2>1, StillUnclosed, SegmentAppended
  <2> QED BY <2>2, <2>3 DEF SegmentInv
<1> QED BY <1>2, <1>3, <1>4, <1>5

\* The dedup thread closes the segments of what it pops; the NULL is the last.
LEMMA DedupKeeps ==
  ASSUME BufferInv, FlowTypes, FlowOrder, TraceInv, TraceUsed, EndInv, SegmentInv, Dedup
  PROVE  FlowTypes' /\ FlowOrder' /\ TraceInv' /\ TraceUsed' /\ EndInv' /\ SegmentInv'
<1>1. UNCHANGED <<source, config, at, reading, read_queue, chunk_queue, chunker, out, hasher,
                  trace, line>>
  BY DEF Dedup, DedupPop, DedupPopTrace, readVars, chunkVars, traceVars
<1>2. config \in Configs
  BY DEF BufferInv, Types
<1>3. /\ chunk_queue \in Seq(Piece) /\ hash_queue \in Seq(Piece)
      /\ out \in (Piece \ {NULL}) \cup {Nothing}
      /\ hasher \in (Piece \ {NULL}) \cup {Nothing}
      /\ IsSequence(trace_queue)
  BY DEF FlowTypes
<1>4. /\ Cutting' = Cutting /\ Traced' = Traced /\ ReadEnded' = ReadEnded /\ CutEnded' = CutEnded
      /\ HashEnded' = HashEnded
  BY <1>1 DEF Cutting, Traced, ReadEnded, CutEnded, HashEnded
<1>5. TraceInv'
  BY <1>1 DEF TraceInv
<1>6. ~Ended
  BY DEF Dedup, DedupPop, DedupPopTrace, Ended
<1>7. CASE DedupPop
  <2> DEFINE e == Head(hash_queue)
  <2>1. /\ ~config.trace /\ hash_queue # <<>> /\ hash_queue' = Tail(hash_queue)
        /\ Segment(e) /\ trace_queue' = trace_queue
    BY <1>7 DEF DedupPop, traceVars
  <2>2. ~TraceEnded /\ ~Has(trace, StreamEnd) /\ ~Has(trace_queue, NULL)
    BY <2>1 DEF EndInv, TraceEnded
  <2>3. hash_queue' \in Seq(Piece)
    BY <1>3, <2>1, Popped
  <2>4. /\ Ending(hash_queue', NULL) /\ (Has(hash_queue', NULL) => HashEnded)
        /\ e = NULL => hash_queue' = <<>> /\ HashEnded
    <3>1. Ending(hash_queue, NULL)
      BY DEF EndInv
    <3>2. /\ Ending(Tail(hash_queue), NULL)
          /\ Has(Tail(hash_queue), NULL) => Has(hash_queue, NULL)
          /\ e = NULL => Tail(hash_queue) = <<>> /\ Has(hash_queue, NULL)
      BY <1>3, <2>1, <3>1, EndingTail
    <3> QED BY <2>1, <3>2 DEF EndInv
  <2>5. FlowTypes' /\ TraceUsed'
    BY <1>1, <1>3, <2>1, <2>3 DEF FlowTypes, TraceUsed
  <2>6. FlowOrder'
    BY <1>1, <1>4, <2>1 DEF FlowOrder
  <2>7. EndInv'
    BY <1>1, <1>4, <2>1, <2>2, <2>4 DEF EndInv
  <2>8. e = NULL => Ended'
    <3>1. trace = <<>> /\ trace_queue = <<>> /\ line = Len(trace)
      BY <2>1 DEF TraceUsed, TraceInv
    <3> QED BY <1>1, <2>1, <2>4, <3>1 DEF Ended, HashEnded, CutEnded
  <2>9. SegmentInv'
    BY <1>1, <1>2, <1>6, <2>1, <2>8, SegmentKeeps
  <2> QED BY <1>5, <2>5, <2>6, <2>7, <2>9
<1>8. CASE DedupPopTrace
  <2> DEFINE e == Head(trace_queue)
  <2>1. /\ config.trace /\ trace_queue # <<>> /\ trace_queue' = Tail(trace_queue)
        /\ Segment(e) /\ hash_queue' = hash_queue
    BY <1>8 DEF DedupPopTrace
  <2>2. TraceEnded' = TraceEnded
    BY <1>4, <2>1 DEF TraceEnded
  <2>3. IsSequence(trace_queue')
    BY <1>3, <2>1, SequenceTail
  <2>4. /\ Ending(trace_queue', NULL)
        /\ Has(trace_queue', NULL) => TraceEnded /\ line = Len(trace)
        /\ e = NULL => trace_queue' = <<>> /\ TraceEnded /\ line = Len(trace)
    <3>1. Ending(trace_queue, NULL)
      BY DEF EndInv
    <3>2. /\ Ending(Tail(trace_queue), NULL)
          /\ Has(Tail(trace_queue), NULL) => Has(trace_queue, NULL)
          /\ e = NULL => Tail(trace_queue) = <<>> /\ Has(trace_queue, NULL)
      BY <1>3, <2>1, <3>1, EndingTail DEF IsSequence
    <3> QED BY <2>1, <3>2 DEF EndInv
  <2>5. FlowTypes' /\ TraceUsed'
    BY <1>1, <1>3, <2>1, <2>3 DEF FlowTypes, TraceUsed
  <2>6. FlowOrder'
    BY <1>1, <1>4, <2>1 DEF FlowOrder
  <2>7. EndInv'
    BY <1>1, <1>4, <2>1, <2>2, <2>4 DEF EndInv
  <2>8. e = NULL => Ended'
    BY <1>1, <2>1, <2>4 DEF Ended, TraceEnded, HashEnded, CutEnded
  <2>9. SegmentInv'
    BY <1>1, <1>2, <1>6, <2>1, <2>8, SegmentKeeps
  <2> QED BY <1>5, <2>5, <2>6, <2>7, <2>9
<1> QED BY <1>7, <1>8 DEF Dedup

-----------------------------------------------------------------------------
(* All of it together.                                                     *)

\* Once NULL has come through there is nothing left to do.
LEMMA EndedIsLast ==
  ASSUME BufferInv, TraceInv, EndInv, Ended
  PROVE  ~Read /\ ~Cut /\ ~Hash /\ ~Trace
<1>1. ReadEnded /\ CutEnded
  BY DEF Ended, EndInv, CutEnded
<1>2. ~Read
  <2>1. source \in Seq(Entry) /\ Len(source) \in Nat /\ DOMAIN source = 1..Len(source)
    BY FrontEndAssumption, LengthOf DEF BufferInv, Types
  <2>2. ~reading /\ at \notin DOMAIN source /\ at # Len(source) + 1
    BY <1>1, <2>1 DEF EndInv, ReadEnded
  <2> QED BY <2>2 DEF Read, OpenFile, ReadBlock, CloseFile, EntryGone, ReadEnds, AtEntry
<1>3. ~Cut
  BY <1>1, CutNotEnded
<1>4. ~Hash
  BY DEF Hash, HashPop, HashPush, Ended
<1>5. ~Trace
  <2>1. ~TraceReader
    BY LengthOf DEF TraceReader, Ended, TraceInv
  <2> QED BY <2>1 DEF Trace, TraceWrite, TraceFileStart, TraceChunk, TraceEnds, Ended
<1> QED BY <1>2, <1>3, <1>4, <1>5

\* The segments are as they were while the dedup thread waits.
LEMMA SegmentsStay ==
  ASSUME BufferInv, TraceInv, EndInv, SegmentInv, Read \/ Cut \/ Hash \/ Trace,
         UNCHANGED <<config, tmp, segments>>
  PROVE  SegmentInv'
<1>1. ~Ended
  BY EndedIsLast
<1>2. \A k \in DOMAIN segments : AsConfigured(segments[k], Following(k))
  BY <1>1, AllConfigured
<1>3. SegmentsAsConfigured'
  BY <1>2, SameMethod DEF Following
<1>4. IsSequence(tmp') /\ IsSequence(segments')
  BY DEF SegmentInv
<1>5. Unclosed'
  BY <1>1 DEF SegmentInv, Unclosed, NoAnchor, Anchor, Has
<1> QED BY <1>3, <1>4, <1>5 DEF SegmentInv

\* The threads behind the chunk thread leave its output alone.
LEMMA SizesStay ==
  ASSUME ChunkSizeBounded, UNCHANGED <<config, out>>
  PROVE  ChunkSizeBounded'
BY DEF ChunkSizeBounded, MaximalChunkSize, geometry

\* It holds at the start.
LEMMA InitFront == Init => FrontInv
<1> SUFFICES ASSUME Init PROVE FrontInv
  OBVIOUS
<1>1. BufferInv
  BY InitBuffer
<1>2. ChunkSizeBounded
  BY Marks DEF Init, ChunkSizeBounded, MaximalChunkSize, IsData
<1>3. FlowTypes
  BY DEF Init, FlowTypes, IsSequence
<1>4. FlowOrder
  <2>1. Cutting = "outside" /\ Traced = "outside"
    BY DEF Init, Cutting, Traced
  <2>2. Leads(<<>>, "outside", "outside")
    BY DEF Leads
  <2> QED BY <2>1, <2>2 DEF Init, FlowOrder
<1>5. TraceInv /\ TraceUsed
  BY DEF Init, TraceInv, TraceUsed, InOrder
<1>6. EndInv
  <2>1. source \in Seq(Entry) /\ Len(source) \in Nat
    BY FrontEndAssumption, LengthOf DEF Init
  <2>2. \A x : ~Has(<<>>, x) /\ Ending(<<>>, x)
    BY DEF Has, Ending
  <2> QED BY <2>1, <2>2 DEF Init, EndInv
<1>7. SegmentInv
  <2>1. IsSequence(tmp) /\ IsSequence(segments) /\ SegmentsAsConfigured
    BY DEF Init, IsSequence, SegmentsAsConfigured
  <2>2. Unclosed
    <3>1. ChunkNum(<<>>) = 0 /\ NoAnchor(<<>>) /\ ~Has(<<>>, FILE_END)
      BY CountEmpty DEF Has
    <3> QED BY <3>1, SegmentingIs DEF Init, Unclosed
  <2> QED BY <2>1, <2>2 DEF SegmentInv
<1> QED BY <1>1, <1>2, <1>3, <1>4, <1>5, <1>6, <1>7 DEF FrontInv

\* Every step keeps it.
LEMMA NextFront ==
  ASSUME FrontInv, [Next]_vars
  PROVE  FrontInv'
<1> USE DEF FrontInv
<1>1. BufferInv'
  BY NextKeepsBuffer
<1>2. CASE Read
  <2>1. UNCHANGED <<config, chunk_queue, hash_queue, trace_queue, chunker, out, hasher, trace,
                    line, tmp, segments>>
    BY <1>2 DEF Read, OpenFile, ReadBlock, CloseFile, EntryGone, ReadEnds, chunkVars, traceVars,
                segVars
  <2>2. FlowTypes' /\ FlowOrder' /\ TraceInv' /\ TraceUsed'
    BY <2>1 DEF FlowTypes, FlowOrder, Cutting, Traced, TraceInv, TraceUsed
  <2>3. EndInv' /\ SegmentInv' /\ ChunkSizeBounded'
    BY <1>2, <2>1, ReadKeepsEnd, SegmentsStay, SizesStay
  <2> QED BY <1>1, <2>2, <2>3
<1>3. CASE Cut
  <2>1. UNCHANGED <<config, trace, line, trace_queue, tmp, segments>>
    BY <1>3, CutLeaves
  <2>2. FlowTypes' /\ FlowOrder' /\ ChunkSizeBounded' /\ EndInv'
    BY <1>3, CutKeepsFlow, CutKeepsEnd
  <2>3. TraceInv' /\ TraceUsed'
    BY <2>1 DEF TraceInv, TraceUsed
  <2>4. SegmentInv'
    BY <1>3, <2>1, SegmentsStay
  <2> QED BY <1>1, <2>2, <2>3, <2>4
<1>4. CASE Hash
  <2>1. UNCHANGED <<config, out, trace, line, trace_queue, tmp, segments>>
    BY <1>4 DEF Hash, HashPop, HashPush, chunkVars, traceVars, segVars
  <2>2. FlowTypes' /\ FlowOrder' /\ EndInv'
    BY <1>4, HashKeeps
  <2>3. TraceInv' /\ TraceUsed'
    BY <2>1 DEF TraceInv, TraceUsed
  <2>4. SegmentInv' /\ ChunkSizeBounded'
    BY <1>4, <2>1, SegmentsStay, SizesStay
  <2> QED BY <1>1, <2>2, <2>3, <2>4
<1>5. CASE Trace
  <2>1. UNCHANGED <<config, out, tmp, segments>>
    BY <1>5, TraceLeaves
  <2>2. FlowTypes' /\ FlowOrder' /\ TraceInv' /\ TraceUsed' /\ EndInv'
    BY <1>5, TraceKeeps
  <2>3. SegmentInv' /\ ChunkSizeBounded'
    BY <1>5, <2>1, SegmentsStay, SizesStay
  <2> QED BY <1>1, <2>2, <2>3
<1>6. CASE Dedup
  <2>1. UNCHANGED <<config, out>>
    BY <1>6 DEF Dedup, DedupPop, DedupPopTrace, chunkVars
  <2>2. /\ FlowTypes' /\ FlowOrder' /\ TraceInv' /\ TraceUsed' /\ EndInv' /\ SegmentInv'
        /\ ChunkSizeBounded'
    BY <1>6, <2>1, DedupKeeps, SizesStay
  <2> QED BY <1>1, <2>2
<1>7. CASE UNCHANGED vars
  <2>1. UNCHANGED <<source, config, at, reading, read_queue, chunk_queue, hash_queue, chunker,
                    out, hasher, trace, line, trace_queue, tmp, segments>>
    BY <1>7 DEF vars, readVars, chunkVars, traceVars, segVars
  <2>2. FlowTypes' /\ FlowOrder' /\ TraceInv' /\ TraceUsed' /\ ChunkSizeBounded'
    BY <2>1, SizesStay DEF FlowTypes, FlowOrder, Cutting, Traced, TraceInv, TraceUsed
  <2>3. EndInv'
    BY <2>1 DEF EndInv, ReadEnded, CutEnded, HashEnded, TraceEnded
  <2>4. SegmentInv'
    <3>1. Ended' = Ended
      BY <2>1 DEF Ended
    <3>2. SegmentsAsConfigured'
      BY <2>1, <3>1, SameMethod DEF SegmentInv, SegmentsAsConfigured
    <3>3. Unclosed' = Unclosed
      BY <2>1 DEF Unclosed, NoAnchor, Anchor, Has
    <3> QED BY <2>1, <3>1, <3>2, <3>3 DEF SegmentInv
  <2> QED BY <1>1, <2>2, <2>3, <2>4
<1> QED BY <1>2, <1>3, <1>4, <1>5, <1>6, <1>7 DEF Next

\* From the chunk thread to the dedup thread or the trace, marks and chunks alternate,
\* nothing follows the NULL of a queue, and the segment under construction is not to be
\* closed yet.
THEOREM SpecFront == Spec => []FrontInv
BY InitFront, NextFront, PTL DEF Spec

\* The variables of the phases have their types, and the assertions of chunk_thread and
\* read_trace_thread hold: between two files, of a tree or of a trace, comes a FILE_START
\* or the end.
THEOREM AlwaysStateSound == Spec => []StateSound
<1>1. FrontInv => StateSound
  <2> SUFFICES ASSUME FrontInv PROVE StateSound
    OBVIOUS
  <2> USE DEF FrontInv
  <2>1. TypeOK
    <3>1. at \in 1..Len(source) + 2 /\ line \in 0..Len(trace)
      BY DEF EndInv, TraceInv
    <3> QED BY <3>1 DEF TypeOK, BufferInv, Types
  <2>2. chunker.pc = "start" /\ out = Nothing /\ read_queue # <<>>
          => Head(read_queue).type \in {"FILE_START", "NULL"}
    BY HeadInFile, Marks DEF InFile
  <2>3. TraceReader /\ ~TraceInFile => Head(NextLine) \in {"file_start", "stream_end"}
    BY NextIs
  <2> QED BY <2>1, <2>2, <2>3 DEF StateSound, AssertionsHold
<1> QED BY <1>1, SpecFront, PTL

\* No chunk exceeds chunk_max_size, but for AE and for a minimum above the maximum; and
\* every segment but the last has the number of chunks, the file or the anchor that
\* its method promises.
THEOREM AlwaysSizesAsConfigured == Spec => []SizesAsConfigured
<1>1. FrontInv => SizesAsConfigured
  BY DEF FrontInv, SegmentInv, SizesAsConfigured
<1> QED BY <1>1, SpecFront, PTL

-----------------------------------------------------------------------------
(* The stream of the files, and the places in it.                          *)

\* A place in the stream of the files F: n files have been started, the last of them is
\* open or not, and off bytes of it have passed; in a trace its size may have been told
\* and its name not.
Place == [n : Nat, open : BOOLEAN, off : Nat, naming : BOOLEAN]
At(n, open, off) == [n |-> n, open |-> open, off |-> off, naming |-> FALSE]

\* Inside of a file, and before one.
Inside(F, a) == a.open /\ ~a.naming /\ a.n \in DOMAIN F /\ a.off <= Len(F[a.n].bytes)
Outside(F, a) == ~a.open /\ a.n + 1 \in DOMAIN F

\* The next n bytes, and all that are left.
Bytes(F, a, n) == SubSeq(F[a.n].bytes, a.off + 1, a.off + n)
Left(F, a) == SubSeq(F[a.n].bytes, a.off + 1, Len(F[a.n].bytes))

\* From a to b: into a file, n bytes on, a chunk of n bytes on, out of the file.
Starts(F, a, b) == Outside(F, a) /\ b = At(a.n + 1, TRUE, 0)
Moves(F, a, n, b) ==
  /\ Inside(F, a) /\ n \in Nat \ {0} /\ a.off + n <= Len(F[a.n].bytes)
  /\ b = At(a.n, TRUE, a.off + n)
Cuts(F, g, a, n, b) ==
  Moves(F, a, n, b) /\ (g.algorithm = "ae" \/ n = chunking(g, Left(F, a)))
Finishes(F, a, b) == Inside(F, a) /\ a.off = Len(F[a.n].bytes) /\ b = At(a.n, FALSE, 0)

\* The element e leads from a to b: a mark, a block, a chunk before and after the hash
\* thread, a line of the trace.
Mark(F, a, e, b) ==
  \/ e = NULL /\ b = a
  \/ e = FILE_END /\ Finishes(F, a, b)
  \/ ~a.naming /\ Starts(F, a, b) /\ e = FILE_START(F[a.n + 1].name)
Block(F, a, e, b) == Moves(F, a, e.size, b) /\ e = Chunk("data", Bytes(F, a, e.size))
Unhashed(F, g, a, e, b) == Cuts(F, g, a, e.size, b) /\ e = Chunk("data", Bytes(F, a, e.size))
Hashed(F, g, a, e, b) == Cuts(F, g, a, e.size, b) /\ IsData(e) /\ e.fp = Bytes(F, a, e.size)
Written(F, g, a, e, b) ==
  \/ e = StreamEnd /\ b = a
  \/ e = <<"file_end">> /\ Finishes(F, a, b)
  \/ /\ ~a.naming /\ Outside(F, a) /\ b = [a EXCEPT !.naming = TRUE]
     /\ e = <<"file_start", Len(F[a.n + 1].name)>>
  \/ a.naming /\ Starts(F, a, b) /\ e = <<"name", F[a.n + 1].name>>
  \/ Cuts(F, g, a, e[3], b) /\ e = <<"chunk", hash2code(Bytes(F, a, e[3])), e[3]>>

\* A stream S is of one of these kinds.
Stream(kind) == [kind |-> kind, files |-> Files, geometry |-> geometry]
Legal(S, a, e, b) ==
  \/ S.kind # "lines" /\ Mark(S.files, a, e, b)
  \/ S.kind = "blocks" /\ Block(S.files, a, e, b)
  \/ S.kind = "chunks" /\ Unhashed(S.files, S.geometry, a, e, b)
  \/ S.kind = "hashed" /\ Hashed(S.files, S.geometry, a, e, b)
  \/ S.kind = "lines" /\ Written(S.files, S.geometry, a, e, b)

\* The elements of q from i to j lead from a to b.
Path(S, a, q, i, j, b) ==
  \E h \in [i..j+1 -> Place] :
    h[i] = a /\ h[j+1] = b /\ \A k \in i..j : Legal(S, h[k], q[k], h[k+1])
Through(S, a, q, b) == Path(S, a, q, 1, Len(q), b)

\* Nothing leads nowhere.
LEMMA PathEmpty ==
  ASSUME NEW S, NEW a \in Place, NEW q, NEW i \in Nat, NEW b
  PROVE  Path(S, a, q, i + 1, i, b) <=> b = a
<1>1. ASSUME Path(S, a, q, i + 1, i, b) PROVE b = a
  BY <1>1 DEF Path
<1>2. ASSUME b = a PROVE Path(S, a, q, i + 1, i, b)
  <2> DEFINE h == [k \in (i+1)..(i+1) |-> a]
  <2>1. h \in [(i+1)..(i+1) -> Place] /\ h[i+1] = a
    OBVIOUS
  <2>2. (i+1)..i = {}
    OBVIOUS
  <2> HIDE DEF h
  <2> QED BY <1>2, <2>1, <2>2 DEF Path
<1> QED BY <1>1, <1>2

\* One more at the end.
LEMMA PathAppend ==
  ASSUME NEW S, NEW a, NEW q, NEW r, NEW i \in Nat, NEW j \in Nat, i <= j + 1,
         NEW m, NEW b \in Place, Path(S, a, q, i, j, m),
         \A k \in i..j : r[k] = q[k], Legal(S, m, r[j+1], b)
  PROVE  Path(S, a, r, i, j + 1, b)
<1>1. PICK h \in [i..j+1 -> Place] :
        h[i] = a /\ h[j+1] = m /\ \A k \in i..j : Legal(S, h[k], q[k], h[k+1])
  BY DEF Path
<1> DEFINE f == [k \in i..(j+1)+1 |-> IF k = (j+1)+1 THEN b ELSE h[k]]
<1>2. f \in [i..(j+1)+1 -> Place]
  <2>1. \A k \in i..(j+1)+1 : k # (j+1)+1 => k \in i..j+1
    OBVIOUS
  <2> QED BY <2>1
<1>3. f[(j+1)+1] = b /\ \A k \in i..j+1 : f[k] = h[k]
  <2>1. (j+1)+1 \in i..(j+1)+1 /\ \A k \in i..j+1 : k \in i..(j+1)+1 /\ k # (j+1)+1
    OBVIOUS
  <2> QED BY <2>1
<1> HIDE DEF f
<1>4. i \in i..j+1 /\ j + 1 \in i..j+1
  OBVIOUS
<1>5. ASSUME NEW k \in i..j+1 PROVE Legal(S, f[k], r[k], f[k+1])
  <2>1. CASE k = j + 1
    BY <1>1, <1>3, <1>4, <2>1
  <2>2. CASE k # j + 1
    <3>1. k \in i..j /\ k + 1 \in i..j+1
      BY <2>2
    <3> QED BY <1>1, <1>3, <3>1
  <2> QED BY <2>1, <2>2
<1>6. f[i] = a
  BY <1>1, <1>3, <1>4
<1> QED BY <1>2, <1>3, <1>5, <1>6 DEF Path

\* One less at the beginning.
LEMMA PathPop ==
  ASSUME NEW S, NEW a, NEW q, NEW i \in Nat, NEW j \in Nat, i <= j, NEW b, Path(S, a, q, i, j, b)
  PROVE  \E m \in Place : Legal(S, a, q[i], m) /\ Path(S, m, q, i + 1, j, b)
<1>1. PICK h \in [i..j+1 -> Place] :
        h[i] = a /\ h[j+1] = b /\ \A k \in i..j : Legal(S, h[k], q[k], h[k+1])
  BY DEF Path
<1> DEFINE f == [k \in (i+1)..j+1 |-> h[k]]
<1>2. i \in i..j /\ i + 1 \in i..j+1 /\ \A k \in (i+1)..j+1 : k \in i..j+1
  OBVIOUS
<1>3. f \in [(i+1)..j+1 -> Place] /\ \A k \in (i+1)..j+1 : f[k] = h[k]
  BY <1>2
<1>4. i + 1 \in (i+1)..j+1 /\ j + 1 \in (i+1)..j+1
      /\ \A k \in (i+1)..j : k \in i..j /\ k \in (i+1)..j+1 /\ k + 1 \in (i+1)..j+1
  OBVIOUS
<1> HIDE DEF f
<1>5. Path(S, h[i+1], q, i + 1, j, b)
  BY <1>1, <1>3, <1>4 DEF Path
<1>6. h[i+1] \in Place /\ Legal(S, a, q[i], h[i+1])
  BY <1>1, <1>2
<1> QED BY <1>5, <1>6

\* The same elements lead to the same place, wherever they are kept.
LEMMA PathMoved ==
  ASSUME NEW S, NEW a, NEW q, NEW r, NEW i \in Nat, NEW j \in Nat, i <= j + 1, NEW b,
         Path(S, a, q, i + 1, j + 1, b), \A k \in i..j : r[k] = q[k+1]
  PROVE  Path(S, a, r, i, j, b)
<1>1. PICK h \in [(i+1)..(j+1)+1 -> Place] :
        /\ h[i+1] = a /\ h[(j+1)+1] = b
        /\ \A k \in (i+1)..(j+1) : Legal(S, h[k], q[k], h[k+1])
  BY DEF Path
<1> DEFINE f == [k \in i..j+1 |-> h[k+1]]
<1>2. \A k \in i..j+1 : k + 1 \in (i+1)..(j+1)+1
  OBVIOUS
<1>3. f \in [i..j+1 -> Place] /\ \A k \in i..j+1 : f[k] = h[k+1]
  BY <1>2
<1>4. i \in i..j+1 /\ j + 1 \in i..j+1
      /\ \A k \in i..j : k \in i..j+1 /\ k + 1 \in i..j+1 /\ k + 1 \in (i+1)..(j+1)
  OBVIOUS
<1> HIDE DEF f
<1> QED BY <1>1, <1>3, <1>4 DEF Path

\* An empty queue leads nowhere.
LEMMA ThroughEmpty ==
  ASSUME NEW S, NEW a \in Place, NEW b
  PROVE  Through(S, a, <<>>, b) <=> b = a
<1>1. Path(S, a, <<>>, 0 + 1, 0, b) <=> b = a
  BY PathEmpty
<1> QED BY <1>1 DEF Through

\* What is pushed onto a queue leads further.
LEMMA ThroughPush ==
  ASSUME NEW S, NEW a, NEW T, NEW q \in Seq(T), NEW e \in T, NEW m, NEW b \in Place,
         Through(S, a, q, m), Legal(S, m, e, b)
  PROVE  Through(S, a, Append(q, e), b)
<1>1. /\ Len(q) \in Nat /\ Len(Append(q, e)) = Len(q) + 1
      /\ \A k \in 1..Len(q) : Append(q, e)[k] = q[k]
      /\ Append(q, e)[Len(q) + 1] = e
  BY Appended, LengthOf
<1>2. 1 <= Len(q) + 1
  BY <1>1
<1>3. Path(S, a, Append(q, e), 1, Len(q) + 1, b)
  BY <1>1, <1>2, PathAppend DEF Through
<1> QED BY <1>1, <1>3 DEF Through

\* What is popped from it is what came first.
LEMMA ThroughPop ==
  ASSUME NEW S, NEW a, NEW T, NEW q \in Seq(T), q # <<>>, NEW b, Through(S, a, q, b)
  PROVE  \E m \in Place : Legal(S, a, Head(q), m) /\ Through(S, m, Tail(q), b)
<1>1. /\ Len(q) \in Nat /\ Len(Tail(q)) = Len(q) - 1 /\ Head(q) = q[1] /\ Len(q) # 0
      /\ \A k \in 1..Len(Tail(q)) : Tail(q)[k] = q[k+1]
  BY Popped, LengthOf
<1>2. Len(Tail(q)) \in Nat /\ Len(q) = Len(Tail(q)) + 1 /\ 1 <= Len(q) /\ 1 <= Len(Tail(q)) + 1
  BY <1>1
<1>3. PICK m \in Place : Legal(S, a, q[1], m) /\ Path(S, m, q, 1 + 1, Len(q), b)
  BY <1>1, <1>2, PathPop DEF Through
<1>4. Path(S, m, Tail(q), 1, Len(Tail(q)), b)
  BY <1>1, <1>2, <1>3, PathMoved
<1> QED BY <1>1, <1>3, <1>4 DEF Through

-----------------------------------------------------------------------------
(* What has been delivered.                                                *)

\* A set of numbers has a least one.
LEMMA LeastNumber ==
  ASSUME NEW S \in SUBSET Nat, S # {}
  PROVE  \E x \in S : \A y \in S : x <= y
<1>1. PICK x \in S : \A y \in S : ~ (<<y, x>> \in OpToRel(<, Nat))
  BY WFMin, NatLessThanWellFounded, Zenon
<1>2. \A y \in S : ~(y < x)
  BY <1>1, Zenon DEF OpToRel
<1> QED BY <1>2

\* Induction: what has 0 and with each number the next has all of them.
LEMMA Inductive ==
  ASSUME NEW S, 0 \in S, \A n \in Nat : n \in S => n + 1 \in S
  PROVE  \A n \in Nat : n \in S
<1> SUFFICES ASSUME Nat \ S # {} PROVE FALSE
  OBVIOUS
<1>1. PICK x \in Nat \ S : \A y \in Nat \ S : x <= y
  <2>1. Nat \ S \in SUBSET Nat
    OBVIOUS
  <2> QED BY <2>1, LeastNumber
<1>2. x # 0 /\ x - 1 \in Nat /\ ~(x <= x - 1) /\ x = (x - 1) + 1
  BY <1>1
<1>3. x - 1 \in S
  BY <1>1, <1>2
<1> QED BY <1>1, <1>2, <1>3

\* f begins with v, and each value makes the next by G.
Iterates(G, v, n, f) == f[0] = v /\ \A i \in 1..n : f[i] = G[i][f[i-1]]

\* There is such an f.
LEMMA IteratesExist ==
  ASSUME NEW V, NEW v \in V, NEW n \in Nat, NEW G \in [1..n -> [V -> V]]
  PROVE  \E f \in [0..n -> V] : Iterates(G, v, n, f)
<1> DEFINE T == {m \in Nat : m <= n => \E f \in [0..m -> V] : Iterates(G, v, m, f)}
<1>1. 0 \in T
  <2> DEFINE f == [i \in 0..0 |-> v]
  <2>1. f \in [0..0 -> V] /\ f[0] = v /\ 1..0 = {}
    OBVIOUS
  <2> HIDE DEF f
  <2> QED BY <2>1 DEF Iterates
<1>2. ASSUME NEW m \in Nat, m \in T PROVE m + 1 \in T
  <2>1. ASSUME m + 1 <= n PROVE \E f \in [0..m+1 -> V] : Iterates(G, v, m + 1, f)
    <3>1. PICK f \in [0..m -> V] : Iterates(G, v, m, f)
      BY <1>2, <2>1
    <3> DEFINE h == [i \in 0..m+1 |-> IF i = m + 1 THEN G[m+1][f[m]] ELSE f[i]]
    <3>2. G[m+1][f[m]] \in V
      <4>1. m + 1 \in 1..n /\ m \in 0..m
        BY <2>1
      <4> QED BY <4>1
    <3>3. h \in [0..m+1 -> V]
      <4>1. \A i \in 0..m+1 : i # m + 1 => i \in 0..m
        OBVIOUS
      <4> QED BY <3>2, <4>1
    <3>4. h[m+1] = G[m+1][f[m]] /\ \A i \in 0..m : h[i] = f[i]
      <4>1. m + 1 \in 0..m+1 /\ \A i \in 0..m : i \in 0..m+1 /\ i # m + 1
        OBVIOUS
      <4> QED BY <4>1
    <3> HIDE DEF h
    <3>5. 0 \in 0..m /\ m \in 0..m /\ (m + 1) - 1 = m
          /\ \A i \in 1..m+1 : i # m + 1 => i \in 1..m /\ i \in 0..m /\ i - 1 \in 0..m
      OBVIOUS
    <3>6. Iterates(G, v, m + 1, h)
      BY <3>1, <3>4, <3>5 DEF Iterates
    <3> QED BY <3>3, <3>6
  <2> QED BY <2>1
<1> HIDE DEF T
<1>3. n \in T
  BY <1>1, <1>2, Inductive
<1> QED BY <1>3 DEF T

\* The parts of s are put together one after the other.
LEMMA FlattenIs ==
  ASSUME NEW P, NEW s \in Seq(Seq(P)),
         NEW G, \A i \in 1..Len(s) : \A u \in Seq(P) : G[i][u] = u \o s[i],
         NEW f \in [0..Len(s) -> Seq(P)], Iterates(G, <<>>, Len(s), f)
  PROVE  FlattenSeq(s) = f[Len(s)]
<1>1. Len(s) \in Nat /\ \A i \in 1..Len(s) : s[i] \in Seq(P)
  OBVIOUS
<1>2. \A i \in 1..Len(s) : i \in 0..Len(s) /\ i - 1 \in 0..Len(s)
  BY <1>1
<1>3. f[0] = <<>> /\ \A i \in 1..Len(s) : f[i] = f[i-1] \o s[i]
  BY <1>2 DEF Iterates
<1>4. CASE Len(s) = 0
  <2>1. s = <<>>
    BY <1>4, LengthOf
  <2> QED BY <1>3, <1>4, <2>1 DEF FlattenSeq
<1>5. CASE Len(s) # 0
  <2> DEFINE flat == CHOOSE t : t = [i \in 1..Len(s) |-> IF i = 1 THEN s[i] ELSE t[i-1] \o s[i]]
             r == [i \in 1..Len(s) |-> f[i]]
  <2>1. FlattenSeq(s) = flat[Len(s)]
    BY <1>5 DEF FlattenSeq
  <2>2. ASSUME NEW i \in 1..Len(s) PROVE r[i] = IF i = 1 THEN s[i] ELSE r[i-1] \o s[i]
    <3>1. CASE i = 1
      <4>1. f[1] = f[0] \o s[1] /\ s[1] \in Seq(P)
        <5>1. 1 \in 1..Len(s) /\ 1 - 1 = 0
          BY <1>1, <1>5
        <5> QED BY <1>1, <1>3, <5>1
      <4>2. <<>> \o s[1] = s[1]
        BY <4>1
      <4> QED BY <1>3, <3>1, <4>1, <4>2
    <3>2. CASE i # 1
      <4>1. i - 1 \in 1..Len(s)
        BY <1>1, <3>2
      <4> QED BY <1>3, <3>2, <4>1
    <3> QED BY <3>1, <3>2
  <2>3. r = [i \in 1..Len(s) |-> IF i = 1 THEN s[i] ELSE r[i-1] \o s[i]]
    <3>1. r = [i \in 1..Len(s) |-> r[i]]
      OBVIOUS
    <3> HIDE DEF r
    <3> QED BY <2>2, <3>1, Zenon
  <2>4. \A i \in 1..Len(s) : r[i] = f[i]
    OBVIOUS
  <2> HIDE DEF r
  <2>5. flat = [i \in 1..Len(s) |-> IF i = 1 THEN s[i] ELSE flat[i-1] \o s[i]]
    BY <2>3, Zenon
  <2> HIDE DEF flat
  <2> DEFINE T == {n \in Nat : n + 1 <= Len(s) => flat[n+1] = r[n+1]}
  <2>6. 0 \in T
    <3>1. 1 \in 1..Len(s)
      BY <1>1, <1>5
    <3>2. flat[1] = s[1] /\ r[1] = s[1]
      BY <2>2, <2>5, <3>1
    <3> QED BY <3>2
  <2>7. ASSUME NEW n \in Nat, n \in T PROVE n + 1 \in T
    <3>1. ASSUME (n + 1) + 1 <= Len(s) PROVE flat[(n+1)+1] = r[(n+1)+1]
      <4>1. PICK m \in 1..Len(s) : m = (n + 1) + 1
        BY <1>1, <3>1
      <4>2. PICK k \in 1..Len(s) : k = n + 1 /\ m # 1 /\ m - 1 = k
        BY <1>1, <3>1, <4>1
      <4>3. flat[k] = r[k]
        BY <2>7, <4>2
      <4>4. flat[m] = flat[m-1] \o s[m]
        BY <2>5, <4>2, Zenon
      <4>5. r[m] = r[m-1] \o s[m]
        BY <2>2, <4>2
      <4> QED BY <4>1, <4>2, <4>3, <4>4, <4>5
    <3> QED BY <3>1
  <2>8. PICK n \in Nat : Len(s) = n + 1
    <3>1. Len(s) - 1 \in Nat /\ Len(s) = (Len(s) - 1) + 1
      BY <1>1, <1>5
    <3> QED BY <3>1
  <2> HIDE DEF T
  <2>9. n \in T
    BY <2>6, <2>7, Inductive
  <2>10. Len(s) \in 1..Len(s)
    BY <1>1, <1>5
  <2> QED BY <2>1, <2>4, <2>8, <2>9, <2>10 DEF T
<1> QED BY <1>4, <1>5

\* One part more.
LEMMA FlattenAppend ==
  ASSUME NEW P, NEW s \in Seq(Seq(P)), NEW x \in Seq(P)
  PROVE  FlattenSeq(s) \in Seq(P) /\ FlattenSeq(Append(s, x)) = FlattenSeq(s) \o x
<1> DEFINE r == Append(s, x)
           n == Len(s)
<1>1. r \in Seq(Seq(P)) /\ n \in Nat /\ Len(r) = n + 1 /\ r[n+1] = x /\ \A i \in 1..n : r[i] = s[i]
  BY Appended, LengthOf
<1> HIDE DEF r
<1>2. PICK G \in [1..n+1 -> [Seq(P) -> Seq(P)]] :
        \A i \in 1..n+1 : \A u \in Seq(P) : G[i][u] = u \o r[i]
  <2> DEFINE K == [i \in 1..n+1 |-> [u \in Seq(P) |-> u \o r[i]]]
  <2>1. ASSUME NEW i \in 1..n+1, NEW u \in Seq(P) PROVE u \o r[i] \in Seq(P)
    <3>1. r[i] \in Seq(P)
      BY <1>1
    <3> QED BY <3>1
  <2>2. K \in [1..n+1 -> [Seq(P) -> Seq(P)]]
    BY <2>1
  <2>3. \A i \in 1..n+1 : \A u \in Seq(P) : K[i][u] = u \o r[i]
    OBVIOUS
  <2> QED BY <2>2, <2>3
<1>3. <<>> \in Seq(P)
  OBVIOUS
<1>4. PICK f \in [0..n+1 -> Seq(P)] : Iterates(G, <<>>, n + 1, f)
  <2>1. n + 1 \in Nat
    BY <1>1
  <2> HIDE DEF n
  <2> QED BY <1>2, <1>3, <2>1, IteratesExist
<1>5. FlattenSeq(r) = f[n+1]
  <2>1. /\ \A i \in 1..Len(r) : \A u \in Seq(P) : G[i][u] = u \o r[i]
        /\ f \in [0..Len(r) -> Seq(P)] /\ Iterates(G, <<>>, Len(r), f)
    BY <1>1, <1>2, <1>4
  <2>2. FlattenSeq(r) = f[Len(r)]
    BY <1>1, <2>1, FlattenIs, Zenon
  <2> QED BY <1>1, <2>2
<1> DEFINE h == [i \in 0..n |-> f[i]]
<1>6. FlattenSeq(s) = f[n] /\ f[n] \in Seq(P)
  <2>1. /\ n \in 0..n+1 /\ n \in 0..n /\ 0 \in 0..n
        /\ \A i \in 0..n : i \in 0..n+1
        /\ \A i \in 1..n : i \in 1..n+1 /\ i \in 0..n /\ i - 1 \in 0..n
    BY <1>1
  <2>2. h \in [0..n -> Seq(P)] /\ \A i \in 0..n : h[i] = f[i]
    BY <1>4, <2>1
  <2> HIDE DEF h
  <2>3. Iterates(G, <<>>, n, h)
    BY <1>4, <2>1, <2>2 DEF Iterates
  <2>4. \A i \in 1..n : \A u \in Seq(P) : G[i][u] = u \o s[i]
    BY <1>1, <1>2, <2>1
  <2>5. FlattenSeq(s) = h[n]
    BY <2>2, <2>3, <2>4, FlattenIs
  <2> QED BY <2>1, <2>2, <2>5
<1>7. f[n+1] = f[n] \o x
  <2>1. n + 1 \in 1..n+1 /\ (n + 1) - 1 = n
    BY <1>1
  <2>2. f[n+1] = G[n+1][f[n]]
    BY <1>4, <2>1 DEF Iterates
  <2> QED BY <1>1, <1>2, <1>6, <2>1, <2>2
<1> QED BY <1>5, <1>6, <1>7 DEF r

\* What the next element adds to what is delivered.
LEMMA DeliveredNext ==
  ASSUME NEW P, NEW s \in Seq(Seq(P)), NEW t \in Seq(P), NEW e \in P
  PROVE  /\ FlattenSeq(Append(s, t)) \in Seq(P)
         /\ FlattenSeq(Append(Append(s, t), <<>>)) = FlattenSeq(Append(s, t))
         /\ FlattenSeq(Append(Append(s, t), <<e>>)) = Append(FlattenSeq(Append(s, t)), e)
         /\ FlattenSeq(Append(Append(s, Append(t, e)), <<>>)) = Append(FlattenSeq(Append(s, t)), e)
         /\ FlattenSeq(Append(s, Append(t, e))) = Append(FlattenSeq(Append(s, t)), e)
<1> DEFINE d == FlattenSeq(s)
<1>1. <<>> \in Seq(P) /\ <<e>> \in Seq(P) /\ Append(t, e) \in Seq(P)
  OBVIOUS
<1>2. Append(s, t) \in Seq(Seq(P)) /\ Append(s, Append(t, e)) \in Seq(Seq(P))
  BY <1>1, Appended
<1>3. d \in Seq(P) /\ FlattenSeq(Append(s, t)) = d \o t
  BY FlattenAppend
<1>4. FlattenSeq(Append(s, Append(t, e))) = d \o Append(t, e)
  BY <1>1, FlattenAppend
<1>5. /\ FlattenSeq(Append(Append(s, t), <<>>)) = FlattenSeq(Append(s, t)) \o <<>>
      /\ FlattenSeq(Append(Append(s, t), <<e>>)) = FlattenSeq(Append(s, t)) \o <<e>>
      /\ FlattenSeq(Append(Append(s, Append(t, e)), <<>>))
           = FlattenSeq(Append(s, Append(t, e))) \o <<>>
  BY <1>1, <1>2, FlattenAppend
<1> HIDE DEF d
<1>6. d \o t \in Seq(P) /\ (d \o t) \o <<>> = d \o t
  BY <1>3
<1>7. (d \o t) \o <<e>> = Append(d \o t, e)
  BY <1>6, AppendIsConcat
<1>8. d \o Append(t, e) = Append(d \o t, e) /\ Append(d \o t, e) \in Seq(P)
  <2>1. Append(t, e) = t \o <<e>>
    BY AppendIsConcat
  <2>2. d \o (t \o <<e>>) = (d \o t) \o <<e>>
    BY <1>1, <1>3, ConcatAssociative
  <2>3. Append(d \o t, e) \in Seq(P)
    BY <1>6, Appended
  <2> QED BY <1>7, <2>1, <2>2, <2>3
<1>9. Append(d \o t, e) \o <<>> = Append(d \o t, e)
  BY <1>8
<1> QED BY <1>3, <1>4, <1>5, <1>6, <1>7, <1>8, <1>9

\* The content of a delivered stream.
ContentOf(d) ==
  LET content[i \in 0..Len(d)] ==
        IF i > 0 /\ IsData(d[i]) THEN content[i-1] \o d[i].fp ELSE <<>>
  IN content[Len(d)]

\* It is what the fingerprints make since the last mark.
LEMMA ContentIs ==
  ASSUME NEW d, Len(d) \in Nat,
         NEW G, \A i \in 1..Len(d) : \A u \in Seq(Nat) :
                  G[i][u] = IF IsData(d[i]) THEN u \o d[i].fp ELSE <<>>,
         NEW f \in [0..Len(d) -> Seq(Nat)], Iterates(G, <<>>, Len(d), f)
  PROVE  ContentOf(d) = f[Len(d)]
<1> DEFINE content == CHOOSE t : t = [i \in 0..Len(d) |->
                        IF i > 0 /\ IsData(d[i]) THEN t[i-1] \o d[i].fp ELSE <<>>]
<1>1. ContentOf(d) = content[Len(d)]
  BY DEF ContentOf
<1>2. ASSUME NEW i \in 0..Len(d)
      PROVE  f[i] = IF i > 0 /\ IsData(d[i]) THEN f[i-1] \o d[i].fp ELSE <<>>
  <2>1. CASE i = 0
    BY <2>1 DEF Iterates
  <2>2. CASE i # 0
    <3>1. i \in 1..Len(d) /\ i - 1 \in 0..Len(d) /\ i > 0
      BY <2>2
    <3>2. f[i] = G[i][f[i-1]] /\ f[i-1] \in Seq(Nat)
      BY <3>1 DEF Iterates
    <3> QED BY <3>1, <3>2
  <2> QED BY <2>1, <2>2
<1>3. f = [i \in 0..Len(d) |-> IF i > 0 /\ IsData(d[i]) THEN f[i-1] \o d[i].fp ELSE <<>>]
  <2>1. f = [i \in 0..Len(d) |-> f[i]]
    OBVIOUS
  <2> QED BY <1>2, <2>1, Zenon
<1>4. content = [i \in 0..Len(d) |->
                   IF i > 0 /\ IsData(d[i]) THEN content[i-1] \o d[i].fp ELSE <<>>]
  BY <1>3, Zenon
<1> HIDE DEF content
<1>5. \A i \in 0..Len(d) :
        content[i] = IF i > 0 /\ IsData(d[i]) THEN content[i-1] \o d[i].fp ELSE <<>>
  BY <1>4, Zenon
<1> DEFINE T == {m \in Nat : m <= Len(d) => content[m] = f[m]}
<1>6. 0 \in T
  <2>1. 0 \in 0..Len(d) /\ ~(0 > 0)
    OBVIOUS
  <2>2. content[0] = <<>> /\ f[0] = <<>>
    BY <1>2, <1>5, <2>1
  <2> QED BY <2>2
<1>7. ASSUME NEW m \in Nat, m \in T PROVE m + 1 \in T
  <2>1. ASSUME m + 1 <= Len(d) PROVE content[m+1] = f[m+1]
    <3>1. PICK k \in 0..Len(d) : k = m + 1 /\ k - 1 = m
      BY <2>1
    <3>2. content[k-1] = f[k-1]
      BY <1>7, <2>1, <3>1
    <3>3. content[k] = f[k]
      <4> HIDE DEF T
      <4> QED BY <1>2, <1>5, <3>2, Zenon
    <3> QED BY <3>1, <3>3
  <2> QED BY <2>1
<1> HIDE DEF T
<1>8. Len(d) \in T
  BY <1>6, <1>7, Inductive
<1> QED BY <1>1, <1>8 DEF T

\* The next element adds its fingerprint, or ends it.
LEMMA ContentNext ==
  ASSUME NEW d \in Seq(Piece), NEW e \in Piece
  PROVE  /\ ContentOf(d) \in Seq(Nat)
         /\ ContentOf(Append(d, e)) = IF IsData(e) THEN ContentOf(d) \o e.fp ELSE <<>>
<1> DEFINE r == Append(d, e)
           n == Len(d)
<1>1. r \in Seq(Piece) /\ n \in Nat /\ Len(r) = n + 1 /\ r[n+1] = e /\ \A i \in 1..n : r[i] = d[i]
  BY Appended, LengthOf
<1> HIDE DEF r
<1>2. \A i \in 1..n+1 : r[i].fp \in Seq(Nat)
  <2>1. \A p \in Piece : p.fp \in Seq(Nat)
    BY DEF Piece
  <2>2. \A i \in 1..n+1 : r[i] \in Piece
    BY <1>1
  <2> QED BY <2>1, <2>2
<1>3. PICK G \in [1..n+1 -> [Seq(Nat) -> Seq(Nat)]] :
        \A i \in 1..n+1 : \A u \in Seq(Nat) :
          G[i][u] = IF IsData(r[i]) THEN u \o r[i].fp ELSE <<>>
  <2> DEFINE K == [i \in 1..n+1 |-> [u \in Seq(Nat) |-> IF IsData(r[i]) THEN u \o r[i].fp ELSE <<>>]]
  <2>1. ASSUME NEW i \in 1..n+1, NEW u \in Seq(Nat)
        PROVE  (IF IsData(r[i]) THEN u \o r[i].fp ELSE <<>>) \in Seq(Nat)
    <3>1. u \o r[i].fp \in Seq(Nat) /\ <<>> \in Seq(Nat)
      BY <1>2
    <3> QED BY <3>1
  <2>2. K \in [1..n+1 -> [Seq(Nat) -> Seq(Nat)]]
    BY <2>1
  <2>3. \A i \in 1..n+1 : \A u \in Seq(Nat) :
          K[i][u] = IF IsData(r[i]) THEN u \o r[i].fp ELSE <<>>
    OBVIOUS
  <2> QED BY <2>2, <2>3
<1>4. PICK f \in [0..n+1 -> Seq(Nat)] : Iterates(G, <<>>, n + 1, f)
  <2>1. n + 1 \in Nat /\ <<>> \in Seq(Nat)
    BY <1>1
  <2> HIDE DEF n
  <2> QED BY <1>3, <2>1, IteratesExist
<1>5. ContentOf(r) = f[n+1]
  <2>1. /\ \A i \in 1..Len(r) : \A u \in Seq(Nat) :
             G[i][u] = IF IsData(r[i]) THEN u \o r[i].fp ELSE <<>>
        /\ f \in [0..Len(r) -> Seq(Nat)] /\ Iterates(G, <<>>, Len(r), f) /\ Len(r) \in Nat
    BY <1>1, <1>3, <1>4
  <2>2. ContentOf(r) = f[Len(r)]
    BY <2>1, ContentIs, Zenon
  <2> QED BY <1>1, <2>2
<1>6. ContentOf(d) = f[n] /\ f[n] \in Seq(Nat)
  <2> DEFINE h == [i \in 0..n |-> f[i]]
  <2>1. /\ n \in 0..n+1 /\ n \in 0..n /\ 0 \in 0..n
        /\ \A i \in 0..n : i \in 0..n+1
        /\ \A i \in 1..n : i \in 1..n+1 /\ i \in 0..n /\ i - 1 \in 0..n
    BY <1>1
  <2>2. h \in [0..n -> Seq(Nat)] /\ \A i \in 0..n : h[i] = f[i]
    BY <1>4, <2>1
  <2> HIDE DEF h
  <2>3. Iterates(G, <<>>, n, h)
    BY <1>4, <2>1, <2>2 DEF Iterates
  <2>4. \A i \in 1..n : \A u \in Seq(Nat) : G[i][u] = IF IsData(d[i]) THEN u \o d[i].fp ELSE <<>>
    BY <1>1, <1>3, <2>1
  <2>5. ContentOf(d) = h[n]
    BY <1>1, <2>2, <2>3, <2>4, ContentIs
  <2> QED BY <2>1, <2>2, <2>5
<1>7. f[n+1] = IF IsData(e) THEN f[n] \o e.fp ELSE <<>>
  <2>1. n + 1 \in 1..n+1 /\ (n + 1) - 1 = n
    BY <1>1
  <2>2. f[n+1] = G[n+1][f[n]]
    BY <1>4, <2>1 DEF Iterates
  <2> QED BY <1>1, <1>3, <1>6, <2>1, <2>2
<1> QED BY <1>5, <1>6, <1>7 DEF r

\* How many elements are marks of a kind, and where the stream has come to.
OpenedIn(d) == Cardinality({i \in DOMAIN d : d[i].type = "FILE_START"})
ClosedIn(d) == Cardinality({i \in DOMAIN d : d[i] = FILE_END})
ReachedIn(d) ==
  IF OpenedIn(d) = ClosedIn(d) THEN At(OpenedIn(d), FALSE, Len(ContentOf(d)))
  ELSE At(OpenedIn(d), TRUE, Len(ContentOf(d)))

\* One more element of a kind.
LEMMA OneMoreOf ==
  ASSUME NEW n \in Nat, NEW A \in SUBSET (1..n), NEW B, B = A \/ B = A \cup {n + 1}
  PROVE  /\ Cardinality(A) \in Nat
         /\ B = A => Cardinality(B) = Cardinality(A)
         /\ B # A => Cardinality(B) = Cardinality(A) + 1
<1>1. IsFiniteSet(A) /\ n + 1 \notin A
  <2>1. IsFiniteSet(1..n)
    BY FS_Interval
  <2>2. A \subseteq 1..n /\ n + 1 \notin 1..n
    OBVIOUS
  <2> QED BY <2>1, <2>2, FS_Subset
<1>2. Cardinality(A) \in Nat /\ Cardinality(A \cup {n + 1}) = Cardinality(A) + 1
  BY <1>1, FS_CardinalityType, FS_AddElement
<1> QED BY <1>2

\* The next element opens a file, closes it or neither.
LEMMA MarksNext ==
  ASSUME NEW d \in Seq(Piece), NEW e \in Piece
  PROVE  /\ OpenedIn(d) \in Nat /\ ClosedIn(d) \in Nat
         /\ OpenedIn(Append(d, e)) = OpenedIn(d) + (IF e.type = "FILE_START" THEN 1 ELSE 0)
         /\ ClosedIn(Append(d, e)) = ClosedIn(d) + (IF e = FILE_END THEN 1 ELSE 0)
<1> DEFINE r == Append(d, e)
           n == Len(d)
<1>1. /\ r \in Seq(Piece) /\ n \in Nat /\ Len(r) = n + 1 /\ r[n+1] = e
      /\ \A i \in 1..n : r[i] = d[i]
      /\ DOMAIN d = 1..n /\ DOMAIN r = 1..n+1
  <2>1. r \in Seq(Piece) /\ n \in Nat /\ Len(r) = n + 1 /\ r[n+1] = e /\ \A i \in 1..n : r[i] = d[i]
    BY Appended, LengthOf
  <2> QED BY <2>1, LengthOf
<1> HIDE DEF r
<1>2. n + 1 \in 1..n+1 /\ n + 1 \notin 1..n /\ \A i \in 1..n+1 : i \in 1..n \/ i = n + 1
  BY <1>1
<1> HIDE DEF n
<1> DEFINE A == {i \in DOMAIN d : d[i].type = "FILE_START"}
           B == {i \in DOMAIN r : r[i].type = "FILE_START"}
           C == {i \in DOMAIN d : d[i] = FILE_END}
           D == {i \in DOMAIN r : r[i] = FILE_END}
<1>3. B = IF e.type = "FILE_START" THEN A \cup {n + 1} ELSE A
  <2>1. ASSUME NEW i PROVE i \in B <=> i \in A \/ (i = n + 1 /\ e.type = "FILE_START")
    BY <1>1, <1>2
  <2> HIDE DEF A, B
  <2> QED BY <2>1
<1>4. D = IF e = FILE_END THEN C \cup {n + 1} ELSE C
  <2>1. ASSUME NEW i PROVE i \in D <=> i \in C \/ (i = n + 1 /\ e = FILE_END)
    BY <1>1, <1>2
  <2> HIDE DEF C, D
  <2> QED BY <2>1
<1>5. A \subseteq 1..n /\ C \subseteq 1..n /\ n + 1 \notin A /\ n + 1 \notin C
  BY <1>1, <1>2
<1>6. /\ OpenedIn(d) = Cardinality(A) /\ OpenedIn(r) = Cardinality(B)
      /\ ClosedIn(d) = Cardinality(C) /\ ClosedIn(r) = Cardinality(D)
  BY DEF OpenedIn, ClosedIn
<1> HIDE DEF A, B, C, D
<1>7. /\ Cardinality(A) \in Nat /\ Cardinality(C) \in Nat
      /\ Cardinality(B) = Cardinality(A) + (IF e.type = "FILE_START" THEN 1 ELSE 0)
      /\ Cardinality(D) = Cardinality(C) + (IF e = FILE_END THEN 1 ELSE 0)
  <2>1. /\ Cardinality(A) \in Nat
        /\ B = A => Cardinality(B) = Cardinality(A)
        /\ B # A => Cardinality(B) = Cardinality(A) + 1
    BY <1>1, <1>3, <1>5, OneMoreOf
  <2>2. /\ Cardinality(C) \in Nat
        /\ D = C => Cardinality(D) = Cardinality(C)
        /\ D # C => Cardinality(D) = Cardinality(C) + 1
    BY <1>1, <1>4, <1>5, OneMoreOf
  <2>3. (e.type = "FILE_START" <=> B # A) /\ (e = FILE_END <=> D # C)
    BY <1>3, <1>4, <1>5
  <2> QED BY <2>1, <2>2, <2>3
<1> QED BY <1>6, <1>7 DEF r

-----------------------------------------------------------------------------
(* The files that find_one_file comes to.                                  *)

\* How many numbers of S there are up to n.
Upto(S, n) == Cardinality({v \in S : v <= n})

\* They are one more at each of them.
LEMMA UptoStep ==
  ASSUME NEW S \in SUBSET (Nat \ {0}), NEW n \in Nat
  PROVE  /\ Upto(S, n) \in Nat /\ Upto(S, 0) = 0
         /\ Upto(S, n + 1) = Upto(S, n) + (IF n + 1 \in S THEN 1 ELSE 0)
<1> DEFINE A == {v \in S : v <= n}
           B == {v \in S : v <= n + 1}
<1>1. A \subseteq 1..n /\ n + 1 \notin A
  <2>1. \A v \in Nat \ {0} : v <= n <=> v \in 1..n
    OBVIOUS
  <2>2. n + 1 \notin 1..n
    OBVIOUS
  <2> QED BY <2>1, <2>2
<1>2. B = IF n + 1 \in S THEN A \cup {n + 1} ELSE A
  <2>1. \A v \in S : v <= n + 1 <=> v <= n \/ v = n + 1
    OBVIOUS
  <2> QED BY <2>1
<1>3. Upto(S, n) = Cardinality(A) /\ Upto(S, n + 1) = Cardinality(B)
  BY DEF Upto
<1>4. Upto(S, 0) = 0
  <2>1. {v \in S : v <= 0} = {}
    <3>1. \A v \in Nat \ {0} : ~(v <= 0)
      OBVIOUS
    <3> QED BY <3>1
  <2> QED BY <2>1, FS_EmptySet DEF Upto
<1> HIDE DEF A, B
<1>5. /\ Cardinality(A) \in Nat
      /\ B = A => Cardinality(B) = Cardinality(A)
      /\ B # A => Cardinality(B) = Cardinality(A) + 1
  BY <1>1, <1>2, OneMoreOf
<1>6. n + 1 \in S <=> B # A
  BY <1>1, <1>2
<1> QED BY <1>3, <1>4, <1>5, <1>6

\* They are not fewer further on.
LEMMA UptoRises ==
  ASSUME NEW S \in SUBSET (Nat \ {0}), NEW m \in Nat, NEW n \in Nat, m <= n
  PROVE  Upto(S, m) \in Nat /\ Upto(S, n) \in Nat /\ Upto(S, m) <= Upto(S, n)
<1> DEFINE T == {k \in Nat : Upto(S, m) <= Upto(S, m + k)}
<1>1. 0 \in T
  <2>1. Upto(S, m) \in Nat /\ m + 0 = m
    BY UptoStep
  <2> QED BY <2>1
<1>2. ASSUME NEW k \in Nat, k \in T PROVE k + 1 \in T
  <2>1. m + k \in Nat /\ (m + k) + 1 = m + (k + 1)
    OBVIOUS
  <2>2. /\ Upto(S, m + k) \in Nat
        /\ Upto(S, (m + k) + 1) = Upto(S, m + k) + (IF (m + k) + 1 \in S THEN 1 ELSE 0)
    BY <2>1, UptoStep
  <2>3. Upto(S, m) \in Nat /\ Upto(S, m) <= Upto(S, m + k)
    BY <1>2, UptoStep
  <2>4. Upto(S, m) <= Upto(S, (m + k) + 1)
    BY <2>2, <2>3
  <2> QED BY <2>1, <2>4
<1> HIDE DEF T
<1>3. n - m \in Nat /\ m + (n - m) = n
  OBVIOUS
<1>4. n - m \in T
  BY <1>1, <1>2, <1>3, Inductive
<1> QED BY <1>3, <1>4, UptoStep DEF T

\* Each number is reached at one place of S.
LEMMA UptoReaches ==
  ASSUME NEW S \in SUBSET (Nat \ {0})
  PROVE  /\ \A n \in Nat : \A m \in 1..Upto(S, n) : \E i \in S : Upto(S, i) = m
         /\ \A i, j \in S : Upto(S, i) = Upto(S, j) => i = j
<1> DEFINE T == {n \in Nat : \A m \in 1..Upto(S, n) : \E i \in S : Upto(S, i) = m}
<1>1. 0 \in T
  BY UptoStep
<1>2. ASSUME NEW n \in Nat, n \in T PROVE n + 1 \in T
  <2>1. ASSUME NEW m \in 1..Upto(S, n + 1) PROVE \E i \in S : Upto(S, i) = m
    <3>1. /\ Upto(S, n) \in Nat
          /\ Upto(S, n + 1) = Upto(S, n) + (IF n + 1 \in S THEN 1 ELSE 0)
      BY UptoStep
    <3>2. m \in 1..Upto(S, n) \/ (m = Upto(S, n + 1) /\ n + 1 \in S)
      BY <3>1
    <3> QED BY <1>2, <3>2
  <2> QED BY <2>1
<1>3. \A n \in Nat : n \in T
  <2> HIDE DEF T
  <2> QED BY <1>1, <1>2, Inductive
<1>4. ASSUME NEW i \in S, NEW j \in S, i < j PROVE Upto(S, i) # Upto(S, j)
  <2>1. PICK k \in Nat : j = k + 1 /\ i <= k /\ i \in Nat
    <3>1. j - 1 \in Nat /\ j = (j - 1) + 1 /\ i <= j - 1 /\ i \in Nat
      BY <1>4
    <3> QED BY <3>1
  <2>2. Upto(S, i) \in Nat /\ Upto(S, k) \in Nat /\ Upto(S, i) <= Upto(S, k)
    BY <2>1, UptoRises
  <2>3. Upto(S, k + 1) = Upto(S, k) + 1
    BY <2>1, UptoStep
  <2> QED BY <2>1, <2>2, <2>3
<1>5. ASSUME NEW i \in S, NEW j \in S, Upto(S, i) = Upto(S, j) PROVE i = j
  <2>1. i \in Nat /\ j \in Nat
    OBVIOUS
  <2>2. i < j \/ j < i \/ i = j
    BY <2>1
  <2>3. ~(i < j) /\ ~(j < i)
    BY <1>4, <1>5
  <2> QED BY <2>2, <2>3
<1> QED BY <1>3, <1>5 DEF T

\* The files are the visible entries, in order.
LEMMA FilesAre ==
  ASSUME source \in Sources
  PROVE  /\ source \in Seq(Entry) /\ Len(source) \in Nat /\ DOMAIN source = 1..Len(source)
         /\ Visible \in SUBSET (Nat \ {0}) /\ Visible \subseteq 1..Len(source)
         /\ Files \in Seq(Entry) /\ DOMAIN Files = 1..Len(Files)
         /\ \A i \in Visible : Upto(Visible, i) \in DOMAIN Files /\ Files[Upto(Visible, i)] = source[i]
<1>1. source \in Seq(Entry) /\ Len(source) \in Nat /\ DOMAIN source = 1..Len(source)
  BY FrontEndAssumption, LengthOf
<1>2. Visible \subseteq 1..Len(source) /\ Visible \in SUBSET (Nat \ {0})
  <2>1. Visible \subseteq DOMAIN source
    BY DEF Visible
  <2> QED BY <1>1, <2>1
<1> DEFINE n == Cardinality(Visible)
           Nth(m) == CHOOSE i \in Visible : Cardinality({v \in Visible : v <= i}) = m
<1>3. n = Upto(Visible, Len(source)) /\ n \in Nat
  <2>1. {v \in Visible : v <= Len(source)} = Visible
    <3>1. \A v \in Visible : v <= Len(source)
      BY <1>1, <1>2
    <3> QED BY <3>1
  <2>2. Upto(Visible, Len(source)) \in Nat
    BY <1>1, <1>2, UptoStep
  <2> QED BY <2>1, <2>2 DEF Upto
<1>4. \A m : Nth(m) = CHOOSE i \in Visible : Upto(Visible, i) = m
  BY DEF Upto
<1>5. Files = [m \in 1..n |-> source[Nth(m)]]
  BY DEF Files
<1> HIDE DEF n, Nth
<1>6. ASSUME NEW m \in 1..n PROVE Nth(m) \in Visible /\ Upto(Visible, Nth(m)) = m
  <2>1. \E i \in Visible : Upto(Visible, i) = m
    <3>1. m \in 1..Upto(Visible, Len(source))
      BY <1>3
    <3> QED BY <1>1, <1>2, <3>1, UptoReaches
  <2> QED BY <1>4, <2>1
<1>7. \A m \in 1..n : source[Nth(m)] \in Entry
  <2>1. \A i \in Visible : source[i] \in Entry
    BY <1>1, <1>2
  <2> QED BY <1>6, <2>1
<1>8. Files \in Seq(Entry) /\ Len(Files) = n /\ DOMAIN Files = 1..n
  BY <1>3, <1>5, <1>7
<1>9. ASSUME NEW i \in Visible
      PROVE  Upto(Visible, i) \in 1..n /\ Files[Upto(Visible, i)] = source[i]
  <2>1. PICK k \in Nat : i = k + 1
    <3>1. i - 1 \in Nat /\ i = (i - 1) + 1
      BY <1>2
    <3> QED BY <3>1
  <2>2. Upto(Visible, i) = Upto(Visible, k) + 1 /\ Upto(Visible, k) \in Nat
    BY <1>2, <2>1, UptoStep
  <2>3. Upto(Visible, i) <= n
    <3>1. i \in Nat /\ i <= Len(source)
      BY <1>1, <1>2
    <3> QED BY <1>1, <1>2, <1>3, <3>1, UptoRises
  <2>4. Upto(Visible, i) \in 1..n
    BY <1>3, <2>2, <2>3
  <2>5. Nth(Upto(Visible, i)) = i
    <3>1. Nth(Upto(Visible, i)) \in Visible /\ Upto(Visible, Nth(Upto(Visible, i))) = Upto(Visible, i)
      BY <1>6, <2>4
    <3> QED BY <1>2, <3>1, UptoReaches
  <2> QED BY <1>5, <2>4, <2>5
<1> QED BY <1>1, <1>2, <1>8, <1>9

-----------------------------------------------------------------------------
(* Where the chunks of a file end.                                         *)

\* What SubSeq returns of a sequence of bytes.
LEMMA SubSeqIs ==
  ASSUME NEW P, NEW p \in Seq(P), NEW off \in Nat, NEW n \in Nat, off + n <= Len(p)
  PROVE  /\ SubSeq(p, off + 1, off + n) \in Seq(P)
         /\ Len(SubSeq(p, off + 1, off + n)) = n
         /\ \A i \in 1..n : SubSeq(p, off + 1, off + n)[i] = p[off + i]
<1>1. Len(p) \in Nat /\ \A i \in 1..Len(p) : p[i] \in P
  OBVIOUS
<1>2. \A i \in off+1..off+n : p[i] \in P
  BY <1>1
<1>3. /\ SubSeq(p, off + 1, off + n) \in Seq(P)
      /\ Len(SubSeq(p, off + 1, off + n)) = IF off + 1 <= off + n THEN (off + n) - (off + 1) + 1 ELSE 0
      /\ \A i \in 1..(off + n) - (off + 1) + 1 : SubSeq(p, off + 1, off + n)[i] = p[off + 1 + i - 1]
  BY <1>2, SubSeqProperties
<1>4. (off + n) - (off + 1) + 1 = n /\ (off + 1 <= off + n <=> n # 0)
      /\ \A i \in 1..n : off + 1 + i - 1 = off + i
  OBVIOUS
<1> QED BY <1>3, <1>4

\* The bytes that pass, and those that are left.
LEMMA BytesAre ==
  ASSUME NEW F \in Seq(Entry), NEW a \in Place, Inside(F, a)
  PROVE  /\ F[a.n].bytes \in Seq(Byte) /\ Len(F[a.n].bytes) \in Nat
         /\ Left(F, a) \in Seq(Byte) /\ Len(Left(F, a)) = Len(F[a.n].bytes) - a.off
         /\ \A i \in 1..Len(F[a.n].bytes) - a.off : Left(F, a)[i] = F[a.n].bytes[a.off + i]
         /\ \A n \in Nat : a.off + n <= Len(F[a.n].bytes) =>
              /\ Bytes(F, a, n) \in Seq(Byte) /\ Len(Bytes(F, a, n)) = n
              /\ \A i \in 1..n : Bytes(F, a, n)[i] = F[a.n].bytes[a.off + i]
<1> DEFINE p == F[a.n].bytes
<1>1. p \in Seq(Byte) /\ a.off \in Nat
  <2>1. F[a.n] \in Entry
    BY LengthOf DEF Inside
  <2>2. \A e \in Entry : e.bytes \in Seq(Byte)
    BY DEF Entry
  <2> QED BY <2>1, <2>2 DEF Place
<1>2. Len(p) \in Nat /\ a.off <= Len(p)
  BY <1>1 DEF Inside
<1>3. Left(F, a) = SubSeq(p, a.off + 1, Len(p)) /\ \A n : Bytes(F, a, n) = SubSeq(p, a.off + 1, a.off + n)
  BY DEF Left, Bytes
<1> HIDE DEF p
<1>4. /\ Left(F, a) \in Seq(Byte) /\ Len(Left(F, a)) = Len(p) - a.off
      /\ \A i \in 1..Len(p) - a.off : Left(F, a)[i] = p[a.off + i]
  <2>1. PICK n \in Nat : n = Len(p) - a.off /\ a.off + n = Len(p)
    <3>1. Len(p) - a.off \in Nat /\ a.off + (Len(p) - a.off) = Len(p)
      BY <1>1, <1>2
    <3> QED BY <3>1
  <2>2. /\ SubSeq(p, a.off + 1, a.off + n) \in Seq(Byte)
        /\ Len(SubSeq(p, a.off + 1, a.off + n)) = n
        /\ \A i \in 1..n : SubSeq(p, a.off + 1, a.off + n)[i] = p[a.off + i]
    <3>1. a.off + n <= Len(p) /\ p \in Seq(Byte) /\ a.off \in Nat
      BY <1>1, <1>2, <2>1
    <3> QED BY <3>1, SubSeqIs, SMTT(30)
  <2> QED BY <1>3, <2>1, <2>2
<1>5. ASSUME NEW n \in Nat, a.off + n <= Len(p)
      PROVE  /\ Bytes(F, a, n) \in Seq(Byte) /\ Len(Bytes(F, a, n)) = n
             /\ \A i \in 1..n : Bytes(F, a, n)[i] = p[a.off + i]
  <2>1. Bytes(F, a, n) = SubSeq(p, a.off + 1, a.off + n)
    BY <1>3
  <2>2. /\ SubSeq(p, a.off + 1, a.off + n) \in Seq(Byte)
        /\ Len(SubSeq(p, a.off + 1, a.off + n)) = n
        /\ \A i \in 1..n : SubSeq(p, a.off + 1, a.off + n)[i] = p[a.off + i]
    BY <1>1, <1>5, SubSeqIs, SMTT(30)
  <2> QED BY <2>1, <2>2
<1> QED BY <1>1, <1>2, <1>4, <1>5 DEF p

\* What a scan begins with is not behind what it ends with.
Ordered(g) ==
  g.algorithm \in {"rabin", "normalized rabin", "tttd", "fastcdc"} => g.min <= g.max

\* Where a chunk ends does not depend on what follows the first chunk_max_size bytes,
\* but for AE.
LEMMA CutEarly ==
  ASSUME NEW g, Usable(g), g.algorithm # "ae", Ordered(g),
         g.algorithm \in {"fixed", "file"} => g.avg <= g.max,
         NEW p, Len(p) \in Nat, NEW q, Len(q) \in Nat, Len(p) <= Len(q), g.max <= Len(p),
         \A i \in 1..Len(p) : p[i] = q[i]
  PROVE  chunking(g, p) = chunking(g, q)
<1>1. g.min \in Nat \ {0} /\ g.max \in Nat \ {0} /\ g.algorithm \in Algorithm
  BY DEF Usable
<1>2. CASE g.algorithm \in {"fixed", "file"}
  <2>1. ~TooShort(g, p) /\ ~TooShort(g, q)
    BY <1>2 DEF TooShort
  <2>2. g.avg \in Nat
    BY <1>2 DEF Usable
  <2>3. fixed_chunk_data(g, p) = g.avg /\ fixed_chunk_data(g, q) = g.avg
    BY <1>1, <1>2, <2>2 DEF fixed_chunk_data, Smaller
  <2> QED BY <1>2, <2>1, <2>3, ChunkingCases
<1>3. CASE g.algorithm \in {"rabin", "normalized rabin", "tttd", "fastcdc"}
  <2>0. g.min <= g.max
    BY <1>3, Zenon DEF Ordered
  <2>1. Smaller(g.max, Len(p)) = g.max /\ Smaller(g.max, Len(q)) = g.max
    BY <1>1 DEF Smaller
  <2>2. Scanned(g, p) = g.min..g.max-1 /\ Scanned(g, q) = g.min..g.max-1
    BY <2>1 DEF Scanned
  <2>3. \A i \in g.min..g.max-1 : p[i] = q[i] /\ p[i+1] = q[i+1]
    <3>1. \A i \in g.min..g.max-1 : i \in 1..Len(p) /\ i + 1 \in 1..Len(p)
      BY <1>1
    <3> QED BY <3>1
  <2>4. Larger(g.min, g.max) = g.max
    BY <1>1, <2>0 DEF Larger
  <2>5. /\ rabin_chunk_data(g, p) = rabin_chunk_data(g, q)
        /\ normalized_rabin_chunk_data(g, p) = normalized_rabin_chunk_data(g, q)
        /\ tttd_chunk_data(g, p) = tttd_chunk_data(g, q)
        /\ fastcdc_chunk_data(g, p) = fastcdc_chunk_data(g, q)
    <3> DEFINE I == g.min..g.max-1
    <3>1. \A m : {i \in I : Matches(p[i], m)} = {i \in I : Matches(q[i], m)}
      BY <2>3
    <3>2. {i \in I : Matches(p[i], IF i < g.avg THEN Strict ELSE Loose)}
            = {i \in I : Matches(q[i], IF i < g.avg THEN Strict ELSE Loose)}
      BY <2>3
    <3>3. {i \in I : Matches(p[i], Loose) /\ Matches(p[i], Middle)}
            = {i \in I : Matches(q[i], Loose) /\ Matches(q[i], Middle)}
      BY <2>3
    <3>4. {i \in I : Matches(p[i+1], IF i < g.avg THEN Strict ELSE Loose)}
            = {i \in I : Matches(q[i+1], IF i < g.avg THEN Strict ELSE Loose)}
      BY <2>3
    <3>5. rabin_chunk_data(g, p) = rabin_chunk_data(g, q)
      BY <2>1, <2>2, <3>1, Zenon DEF rabin_chunk_data
    <3>6. normalized_rabin_chunk_data(g, p) = normalized_rabin_chunk_data(g, q)
      BY <2>1, <2>2, <3>2, Zenon DEF normalized_rabin_chunk_data
    <3>7. tttd_chunk_data(g, p) = tttd_chunk_data(g, q)
      BY <2>1, <2>2, <3>1, <3>3, Zenon DEF tttd_chunk_data
    <3>8. fastcdc_chunk_data(g, p) = fastcdc_chunk_data(g, q)
      BY <2>1, <2>2, <3>4, Zenon DEF fastcdc_chunk_data
    <3> QED BY <3>5, <3>6, <3>7, <3>8
  <2>6. ASSUME NEW r, Len(r) \in Nat, g.max <= Len(r), TooShort(g, r)
        PROVE  g.min = g.max /\ chunking(g, r) = g.max
    <3>1. Len(r) <= g.min
      BY <1>3, <2>6 DEF TooShort
    <3>2. chunking(g, r) = Len(r)
      BY <2>6 DEF chunking
    <3> QED BY <1>1, <2>0, <2>6, <3>1, <3>2
  <2>7. ASSUME NEW r, Len(r) \in Nat, g.max <= Len(r), g.min = g.max, ~TooShort(g, r)
        PROVE  chunking(g, r) = g.max
    <3>1. Smaller(g.max, Len(r)) = g.max /\ Scanned(g, r) = {} /\ Larger(g.min, g.max) = g.max
      BY <1>1, <2>7 DEF Smaller, Scanned, Larger
    <3>2. \A o : Earliest({}, o) = o /\ Latest({}, o) = o
      BY DEF Earliest, Latest
    <3>3. rabin_chunk_data(g, r) = g.max
      <4>1. {i \in Scanned(g, r) : Matches(r[i], Middle)} = {}
        BY <3>1
      <4> QED BY <3>1, <3>2, <4>1 DEF rabin_chunk_data
    <3>4. normalized_rabin_chunk_data(g, r) = g.max
      <4>1. {i \in Scanned(g, r) : Matches(r[i], IF i < g.avg THEN Strict ELSE Loose)} = {}
        BY <3>1
      <4> QED BY <3>1, <3>2, <4>1 DEF normalized_rabin_chunk_data
    <3>5. tttd_chunk_data(g, r) = g.max
      <4>1. /\ {i \in Scanned(g, r) : Matches(r[i], Loose) /\ Matches(r[i], Middle)} = {}
            /\ {i \in Scanned(g, r) : Matches(r[i], Loose)} = {}
        BY <3>1
      <4> QED BY <3>1, <3>2, <4>1 DEF tttd_chunk_data
    <3>6. fastcdc_chunk_data(g, r) = g.max
      <4>1. {i \in Scanned(g, r) : Matches(r[i+1], IF i < g.avg THEN Strict ELSE Loose)} = {}
        BY <3>1
      <4> QED BY <3>1, <3>2, <4>1 DEF fastcdc_chunk_data
    <3> QED BY <1>3, <2>7, <3>3, <3>4, <3>5, <3>6, ChunkingCases
  <2>8. g.max <= Len(q)
    BY <1>1
  <2>9. CASE g.min = g.max
    BY <2>6, <2>7, <2>8, <2>9
  <2>10. CASE g.min # g.max
    <3>1. ~TooShort(g, p) /\ ~TooShort(g, q)
      BY <2>6, <2>8, <2>10
    <3> QED BY <1>3, <2>5, <3>1, ChunkingCases
  <2> QED BY <2>9, <2>10
<1> QED BY <1>1, <1>2, <1>3 DEF Algorithm

-----------------------------------------------------------------------------
(* What is written is read.                                                *)

\* The digits of a byte give the byte.
LEMMA DigitsGive ==
  ASSUME NEW b \in 0..255
  PROVE  (HexValue(HexDigit(b \div 16)) * 16 + HexValue(HexDigit(b % 16))) % 256 = b
<1>1. ASSUME NEW d \in 0..15 PROVE HexValue(HexDigit(d)) = d
  <2>1. CASE d < 10
    BY <2>1 DEF HexDigit, HexValue
  <2>2. CASE ~(d < 10)
    BY <2>2 DEF HexDigit, HexValue
  <2> QED BY <2>1, <2>2
<1>2. PICK q \in 0..15, r \in 0..15 : b = 16 * q + r
  OBVIOUS
<1>3. b \div 16 = q /\ b % 16 = r
  BY <1>2
<1>4. (q * 16 + r) % 256 = b
  BY <1>2
<1> QED BY <1>1, <1>3, <1>4

\* code2hash gives back what hash2code was given.
LEMMA HashReadBack ==
  ASSUME NEW h \in Seq(Byte)
  PROVE  code2hash(hash2code(h)) = h
<1> DEFINE code == hash2code(h)
           n == Len(h)
<1>1. n \in Nat /\ \A i \in 1..n : h[i] \in 0..255
  <2>1. n \in Nat /\ \A i \in 1..n : h[i] \in Byte
    OBVIOUS
  <2>2. Byte \subseteq 0..255
    BY ChunkingAssumption
  <2> QED BY <2>1, <2>2
<1>2. code = [k \in 1..2*n |-> HexDigit(IF k % 2 = 1 THEN h[(k+1) \div 2] \div 16
                                         ELSE h[k \div 2] % 16)]
  BY DEF hash2code
<1> HIDE DEF n
<1>3. Len(code) = 2 * n
  <2>1. 2 * n \in Nat
    BY <1>1
  <2> HIDE DEF code
  <2> QED BY <1>2, <2>1
<1>4. (2 * n) \div 2 = n
  BY <1>1
<1>5. ASSUME NEW i \in 1..n
      PROVE  (HexValue(code[2*i-1]) * 16 + HexValue(code[2*i])) % 256 = h[i]
  <2>1. /\ 2*i-1 \in 1..2*n /\ (2*i-1) % 2 = 1 /\ ((2*i-1)+1) \div 2 = i
        /\ 2*i \in 1..2*n /\ (2*i) % 2 = 0 /\ (2*i) \div 2 = i
    BY <1>1
  <2>2. code[2*i-1] = HexDigit(h[i] \div 16)
    <3> HIDE DEF code
    <3> QED BY <1>2, <2>1
  <2>3. code[2*i] = HexDigit(h[i] % 16)
    <3> HIDE DEF code
    <3> QED BY <1>2, <2>1
  <2>4. (HexValue(HexDigit(h[i] \div 16)) * 16 + HexValue(HexDigit(h[i] % 16))) % 256 = h[i]
    <3>1. h[i] \in 0..255
      BY <1>1
    <3> QED BY <3>1, DigitsGive, Zenon
  <2> HIDE DEF code
  <2> QED BY <2>2, <2>3, <2>4, Zenon
<1> HIDE DEF code
<1>6. code2hash(code) = [i \in 1..n |-> h[i]]
  BY <1>3, <1>4, <1>5 DEF code2hash
<1>7. h = [i \in 1..n |-> h[i]]
  BY DEF n
<1> QED BY <1>6, <1>7 DEF code

-----------------------------------------------------------------------------
(* The geometry.                                                           *)

\* There is a power of two that has the highest bit of n alone.
LEMMA PowerIs ==
  ASSUME NEW n \in Nat \ {0}
  PROVE  PowerOfTwo(n) \in Nat \ {0}
<1> DEFINE power == CHOOSE t : t = [k \in 0..n |-> IF k = 0 THEN 1 ELSE 2 * t[k-1]]
<1>1. PowerOfTwo(n) = CHOOSE p \in {power[k] : k \in 0..n} : p <= n /\ n < 2 * p
  BY DEF PowerOfTwo
<1>2. PICK f \in [0..n -> Nat] : \A k \in 0..n : f[k] = IF k = 0 THEN 1 ELSE 2 * f[k-1]
  <2> DEFINE G == [k \in 1..n |-> [x \in Nat |-> 2 * x]]
  <2>1. G \in [1..n -> [Nat -> Nat]] /\ \A k \in 1..n : \A x \in Nat : G[k][x] = 2 * x
    OBVIOUS
  <2> HIDE DEF G
  <2>2. PICK f \in [0..n -> Nat] : Iterates(G, 1, n, f)
    BY <2>1, IteratesExist
  <2>3. ASSUME NEW k \in 0..n PROVE f[k] = IF k = 0 THEN 1 ELSE 2 * f[k-1]
    <3>1. CASE k = 0
      BY <2>2, <3>1 DEF Iterates
    <3>2. CASE k # 0
      <4>1. k \in 1..n /\ k - 1 \in 0..n
        BY <3>2
      <4> QED BY <2>1, <2>2, <3>2, <4>1 DEF Iterates
    <3> QED BY <3>1, <3>2
  <2> QED BY <2>3
<1>3. f = [k \in 0..n |-> IF k = 0 THEN 1 ELSE 2 * f[k-1]]
  <2>1. f = [k \in 0..n |-> f[k]]
    OBVIOUS
  <2> QED BY <1>2, <2>1, Zenon
<1>4. power = [k \in 0..n |-> IF k = 0 THEN 1 ELSE 2 * power[k-1]]
  BY <1>3, Zenon
<1> HIDE DEF power
<1>5. \A k \in 0..n : power[k] = IF k = 0 THEN 1 ELSE 2 * power[k-1]
  BY <1>4, Zenon
<1> DEFINE T == {m \in Nat : m <= n => power[m] \in Nat /\ power[m] >= m + 1}
<1>6. 0 \in T
  BY <1>5
<1>7. ASSUME NEW m \in Nat, m \in T PROVE m + 1 \in T
  <2>1. ASSUME m + 1 <= n PROVE power[m+1] \in Nat /\ power[m+1] >= (m + 1) + 1
    <3>1. m + 1 \in 0..n /\ m + 1 # 0 /\ (m + 1) - 1 = m
      BY <2>1
    <3>2. power[m+1] = 2 * power[m]
      BY <1>5, <3>1
    <3> QED BY <1>7, <2>1, <3>2
  <2> QED BY <2>1
<1> HIDE DEF T
<1>8. \A k \in 0..n : power[k] \in Nat /\ power[k] >= k + 1
  <2>1. \A m \in Nat : m \in T
    BY <1>6, <1>7, Inductive
  <2> QED BY <2>1 DEF T
<1>9. \E k \in 0..n : power[k] <= n /\ n < 2 * power[k]
  <2> DEFINE S == {k \in 0..n : n < 2 * power[k]}
  <2>1. n \in S
    <3>1. n \in 0..n
      OBVIOUS
    <3> QED BY <1>8, <3>1
  <2>2. PICK k \in S : \A j \in S : k <= j
    <3>1. S \in SUBSET Nat /\ S # {}
      BY <2>1
    <3> QED BY <3>1, LeastNumber
  <2>3. CASE k = 0
    BY <1>5, <2>2, <2>3
  <2>4. CASE k # 0
    <3>1. k - 1 \in 0..n /\ ~(k <= k - 1)
      BY <2>2, <2>4
    <3>2. ~(n < 2 * power[k-1])
      BY <2>2, <3>1
    <3>3. power[k] = 2 * power[k-1] /\ power[k-1] \in Nat
      BY <1>5, <1>8, <2>2, <2>4, <3>1
    <3> QED BY <2>2, <3>2, <3>3
  <2> QED BY <2>3, <2>4
<1>10. PowerOfTwo(n) \in {power[k] : k \in 0..n}
  BY <1>1, <1>9
<1> QED BY <1>8, <1>10

\* A prepared geometry is one.
LEMMA GeometryIs ==
  ASSUME config \in Configs
  PROVE  /\ geometry \in Geometry /\ Usable(geometry) /\ geometry.avg <= geometry.max
         /\ geometry.algorithm \in {"rabin", "normalized rabin", "tttd"} => geometry.min <= geometry.max
         /\ geometry.algorithm = "fastcdc" =>
              config.geometry.algorithm = "fastcdc" /\ geometry = config.geometry
<1>1. config.geometry \in Geometry /\ Accepted(geometry)
  BY FrontEndAssumption DEF Config, geometry
<1>2. /\ config.geometry.algorithm \in Algorithm /\ config.geometry.min \in Nat \ {0}
      /\ config.geometry.avg \in Nat \ {0} /\ config.geometry.max \in Nat \ {0}
  BY <1>1 DEF Geometry
<1>3. Usable(geometry)
  BY PreparedUsable
<1>4. geometry \in Geometry /\ geometry.algorithm = config.geometry.algorithm
      /\ (geometry.algorithm = "fastcdc" => geometry = config.geometry)
  <2>1. CASE config.geometry.algorithm \in {"rabin", "normalized rabin", "tttd"}
    <3>1. geometry = [config.geometry EXCEPT !.avg = PowerOfTwo(config.geometry.avg)]
      BY <2>1 DEF geometry, Prepared
    <3>2. PowerOfTwo(config.geometry.avg) \in Nat \ {0}
      BY <1>2, PowerIs
    <3> QED BY <1>1, <2>1, <3>1, <3>2 DEF Geometry
  <2>2. CASE config.geometry.algorithm = "fixed"
    <3>1. geometry = [config.geometry EXCEPT !.max = config.geometry.avg]
      BY <2>2 DEF geometry, Prepared
    <3> QED BY <1>1, <1>2, <2>2, <3>1 DEF Geometry
  <2>3. CASE config.geometry.algorithm = "file"
    <3>1. geometry = [config.geometry EXCEPT !.avg = ContainerRoom, !.max = ContainerRoom]
      BY <2>3 DEF geometry, Prepared
    <3> QED BY <1>1, <2>3, <3>1, ChunkingAssumption DEF Geometry
  <2>4. CASE config.geometry.algorithm \in {"fastcdc", "ae"}
    <3>1. geometry = config.geometry
      BY <2>4 DEF geometry, Prepared
    <3> QED BY <1>1, <3>1
  <2> QED BY <1>2, <2>1, <2>2, <2>3, <2>4 DEF Algorithm
<1>5. geometry.min \in Nat /\ geometry.avg \in Nat /\ geometry.max \in Nat
  BY <1>4 DEF Geometry
<1>6. geometry.avg <= geometry.max
      /\ (geometry.algorithm \in {"rabin", "normalized rabin", "tttd"} => geometry.min <= geometry.avg)
  BY <1>1 DEF Accepted
<1>7. geometry.min <= geometry.avg => geometry.min <= geometry.max
  <2>1. geometry.avg <= geometry.max
    BY <1>6, Zenon
  <2> QED BY ONLY <1>5, <2>1
<1> QED BY <1>3, <1>4, <1>6, <1>7, Zenon

-----------------------------------------------------------------------------
(* How the delivered stream goes on.                                       *)

\* What a place is made of.
LEMMA AtIs ==
  ASSUME NEW n \in Nat, NEW off \in Nat
  PROVE  /\ At(n, FALSE, off) \in Place /\ At(n, TRUE, off) \in Place
         /\ At(n, FALSE, off).n = n /\ At(n, FALSE, off).off = off
         /\ At(n, TRUE, off).n = n /\ At(n, TRUE, off).off = off
         /\ ~At(n, FALSE, off).open /\ At(n, TRUE, off).open
         /\ ~At(n, FALSE, off).naming /\ ~At(n, TRUE, off).naming
BY DEF At, Place

\* At most one file is open.
Balanced(d) == OpenedIn(d) = ClosedIn(d) \/ OpenedIn(d) = ClosedIn(d) + 1

\* An element that is legal where the stream has come to takes it further.
LEMMA ReachedNext ==
  ASSUME NEW d \in Seq(Piece), NEW e \in Piece, e # NULL, Balanced(d),
         NEW F \in Seq(Entry), NEW g, NEW b,
         Mark(F, ReachedIn(d), e, b) \/ Hashed(F, g, ReachedIn(d), e, b)
  PROVE  ReachedIn(Append(d, e)) = b /\ Balanced(Append(d, e))
<1> DEFINE a == ReachedIn(d)
           r == Append(d, e)
<1>1. /\ OpenedIn(d) \in Nat /\ ClosedIn(d) \in Nat
      /\ OpenedIn(r) = OpenedIn(d) + (IF e.type = "FILE_START" THEN 1 ELSE 0)
      /\ ClosedIn(r) = ClosedIn(d) + (IF e = FILE_END THEN 1 ELSE 0)
  BY MarksNext
<1>2. /\ ContentOf(d) \in Seq(Nat)
      /\ ContentOf(r) = IF IsData(e) THEN ContentOf(d) \o e.fp ELSE <<>>
  BY ContentNext
<1>3. /\ a.n = OpenedIn(d) /\ (a.open <=> OpenedIn(d) # ClosedIn(d)) /\ a.off = Len(ContentOf(d))
      /\ a \in Place
  <2>1. Len(ContentOf(d)) \in Nat
    BY <1>2
  <2>2. PICK n \in Nat, off \in Nat : n = OpenedIn(d) /\ off = Len(ContentOf(d))
    BY <1>1, <2>1
  <2>3. /\ OpenedIn(d) = ClosedIn(d) => a = At(n, FALSE, off)
        /\ OpenedIn(d) # ClosedIn(d) => a = At(n, TRUE, off)
    BY <2>2 DEF ReachedIn
  <2> HIDE DEF a
  <2>4. At(n, FALSE, off).n = n /\ At(n, FALSE, off).off = off /\ ~At(n, FALSE, off).open
    BY DEF At, Place
  <2>5. At(n, TRUE, off).n = n /\ At(n, TRUE, off).off = off /\ At(n, TRUE, off).open
    BY DEF At, Place
  <2>6. At(n, FALSE, off) \in Place /\ At(n, TRUE, off) \in Place
    BY DEF At, Place
  <2> QED BY <2>2, <2>3, <2>4, <2>5, <2>6
<1> HIDE DEF a, r
<1>4. CASE e = FILE_END /\ Finishes(F, a, b)
  <2>1. e.type = "FILE_END" /\ ~IsData(e)
    BY <1>4, Marks DEF IsData
  <2>2. OpenedIn(d) = ClosedIn(d) + 1
    <3>1. OpenedIn(d) # ClosedIn(d)
      BY <1>3, <1>4 DEF Finishes, Inside
    <3> QED BY <3>1 DEF Balanced
  <2>3. OpenedIn(r) = OpenedIn(d) /\ ClosedIn(r) = OpenedIn(d) /\ Len(ContentOf(r)) = 0
    BY <1>1, <1>2, <1>4, <2>1, <2>2
  <2> QED BY <1>3, <1>4, <2>3 DEF Finishes, Balanced, ReachedIn, r
<1>5. CASE Starts(F, a, b) /\ e = FILE_START(F[a.n + 1].name)
  <2>1. e.type = "FILE_START" /\ ~IsData(e) /\ e # FILE_END
    BY <1>5, Marks DEF IsData, FILE_START, Chunk
  <2>2. OpenedIn(d) = ClosedIn(d)
    BY <1>3, <1>5 DEF Starts, Outside
  <2>3. OpenedIn(r) = OpenedIn(d) + 1 /\ ClosedIn(r) = OpenedIn(d) /\ Len(ContentOf(r)) = 0
    BY <1>1, <1>2, <2>1, <2>2
  <2>4. OpenedIn(r) # ClosedIn(r)
    BY <1>1, <2>3
  <2> QED BY <1>3, <1>5, <2>3, <2>4 DEF Starts, Balanced, ReachedIn, r
<1>6. CASE Hashed(F, g, a, e, b)
  <2>1. IsData(e) /\ e.type # "FILE_START" /\ e # FILE_END
    BY <1>6, Marks DEF Hashed, IsData
  <2>2. Inside(F, a) /\ e.size \in Nat /\ a.off + e.size <= Len(F[a.n].bytes)
        /\ b = At(a.n, TRUE, a.off + e.size) /\ e.fp = Bytes(F, a, e.size)
    BY <1>6 DEF Hashed, Cuts, Moves
  <2>3. e.fp \in Seq(Nat) /\ Len(e.fp) = e.size
    <3>1. Bytes(F, a, e.size) \in Seq(Byte) /\ Len(Bytes(F, a, e.size)) = e.size
      BY <1>3, <2>2, BytesAre
    <3> QED BY <2>2, <3>1, BytesAreNumbers
  <2>4. OpenedIn(r) = OpenedIn(d) /\ ClosedIn(r) = ClosedIn(d)
    BY <1>1, <2>1
  <2>5. Len(ContentOf(r)) = a.off + e.size
    <3>1. ContentOf(r) = ContentOf(d) \o e.fp
      BY <1>2, <2>1
    <3> QED BY <1>2, <1>3, <2>3, <3>1
  <2>6. OpenedIn(r) # ClosedIn(r)
    BY <1>3, <2>2, <2>4 DEF Inside
  <2> QED BY <1>3, <2>2, <2>4, <2>5, <2>6 DEF Balanced, ReachedIn, r
<1> QED BY <1>4, <1>5, <1>6 DEF Mark, a

-----------------------------------------------------------------------------
(* From the read thread to the dedup thread.                               *)

\* Entry i of the tree s is not listed: it comes behind one that is gone, in its directory
\* or in one below it.
Unlisted(s, i) ==
  \E g \in 1..i-1 : s[g].kind = "gone" /\ \A k \in g+1..i : s[k].depth >= s[g].depth

\* The read thread is at w: in the tree s, of which the entries V are visible, it is at
\* entry i, with a file open of which left is left.
Reading(s, V, i, open, left, w) ==
  /\ ~w.naming /\ (w.open <=> open)
  /\ w.n = Upto(V, IF open THEN i ELSE i - 1)
  /\ open => /\ i \in V /\ w.off <= Len(s[i].bytes)
             /\ left = SubSeq(s[i].bytes, w.off + 1, Len(s[i].bytes))
  /\ i \in DOMAIN s => ~Unlisted(s, i)

\* Two sequences of the same elements are one.
LEMMA SameSequence ==
  ASSUME NEW P, NEW p \in Seq(P), NEW q \in Seq(P), Len(p) = Len(q),
         \A i \in 1..Len(p) : p[i] = q[i]
  PROVE  p = q
<1>1. p = [i \in 1..Len(p) |-> p[i]] /\ q = [i \in 1..Len(q) |-> q[i]]
  OBVIOUS
<1> QED BY <1>1

\* The first of what is left, and what is left then.
LEMMA LeftOfLeft ==
  ASSUME NEW P, NEW p \in Seq(P), NEW off \in Nat, off <= Len(p), NEW n \in Nat,
         off + n <= Len(p), NEW left, left = SubSeq(p, off + 1, Len(p))
  PROVE  /\ left \in Seq(P) /\ Len(left) = Len(p) - off
         /\ SubSeq(left, 1, n) = SubSeq(p, off + 1, off + n)
         /\ SubSeq(left, n + 1, Len(left)) = SubSeq(p, (off + n) + 1, Len(p))
<1>1. Len(p) \in Nat
  OBVIOUS
<1>2. PICK m \in Nat : m = Len(p) - off /\ off + m = Len(p)
  <2>1. Len(p) - off \in Nat /\ off + (Len(p) - off) = Len(p)
    BY <1>1
  <2> QED BY <2>1
<1>3. left \in Seq(P) /\ Len(left) = m /\ \A i \in 1..m : left[i] = p[off + i]
  <2>1. off + m <= Len(p)
    BY <1>1, <1>2
  <2>2. /\ SubSeq(p, off + 1, off + m) \in Seq(P) /\ Len(SubSeq(p, off + 1, off + m)) = m
        /\ \A i \in 1..m : SubSeq(p, off + 1, off + m)[i] = p[off + i]
    BY <2>1, SubSeqIs
  <2> QED BY <1>2, <2>2
<1>4. SubSeq(left, 1, n) = SubSeq(p, off + 1, off + n)
  <2>1. /\ SubSeq(left, 0 + 1, 0 + n) \in Seq(P) /\ Len(SubSeq(left, 0 + 1, 0 + n)) = n
        /\ \A i \in 1..n : SubSeq(left, 0 + 1, 0 + n)[i] = left[0 + i]
    <3>1. 0 + n <= Len(left) /\ 0 \in Nat /\ left \in Seq(P)
      BY <1>1, <1>2, <1>3
    <3> QED BY <3>1, SubSeqIs
  <2>2. /\ SubSeq(p, off + 1, off + n) \in Seq(P) /\ Len(SubSeq(p, off + 1, off + n)) = n
        /\ \A i \in 1..n : SubSeq(p, off + 1, off + n)[i] = p[off + i]
    BY SubSeqIs
  <2>3. 0 + 1 = 1 /\ 0 + n = n /\ \A i \in 1..n : 0 + i = i /\ i \in 1..m
    BY <1>1, <1>2
  <2>4. \A i \in 1..n : SubSeq(left, 1, n)[i] = SubSeq(p, off + 1, off + n)[i]
    BY <1>3, <2>1, <2>2, <2>3
  <2> QED BY <2>1, <2>2, <2>3, <2>4, SameSequence
<1>5. SubSeq(left, n + 1, Len(left)) = SubSeq(p, (off + n) + 1, Len(p))
  <2>1. PICK k \in Nat : m = n + k /\ n + k <= Len(left) /\ (off + n) + k <= Len(p)
                         /\ (off + n) + k = Len(p) /\ off + n \in Nat
    <3>1. m - n \in Nat /\ m = n + (m - n) /\ (off + n) + (m - n) = Len(p)
      BY <1>1, <1>2
    <3> QED BY <1>1, <1>3, <3>1
  <2>2. /\ SubSeq(left, n + 1, n + k) \in Seq(P) /\ Len(SubSeq(left, n + 1, n + k)) = k
        /\ \A i \in 1..k : SubSeq(left, n + 1, n + k)[i] = left[n + i]
    <3>1. n + k <= Len(left) /\ left \in Seq(P)
      BY <1>3, <2>1
    <3> QED BY <3>1, SubSeqIs
  <2>3. /\ SubSeq(p, (off + n) + 1, (off + n) + k) \in Seq(P)
        /\ Len(SubSeq(p, (off + n) + 1, (off + n) + k)) = k
        /\ \A i \in 1..k : SubSeq(p, (off + n) + 1, (off + n) + k)[i] = p[(off + n) + i]
    <3>1. (off + n) + k <= Len(p) /\ off + n \in Nat
      BY <2>1
    <3> QED BY <3>1, SubSeqIs
  <2>4. \A i \in 1..k : n + i \in 1..m /\ off + (n + i) = (off + n) + i
    BY <2>1
  <2>5. \A i \in 1..k : SubSeq(left, n + 1, n + k)[i] = SubSeq(p, (off + n) + 1, (off + n) + k)[i]
    BY <1>3, <2>2, <2>3, <2>4
  <2>6. SubSeq(left, n + 1, n + k) = SubSeq(p, (off + n) + 1, (off + n) + k)
    BY <2>2, <2>3, <2>5, SameSequence
  <2> QED BY <1>3, <2>1, <2>6
<1> QED BY <1>2, <1>3, <1>4, <1>5

\* Which entries find_one_file comes to.
LEMMA VisibleIs ==
  ASSUME source \in Sources
  PROVE  /\ \A i \in 1..Len(source) : source[i] \in Entry
         /\ \A i \in 1..Len(source) : i \in Visible <=> source[i].kind = "file" /\ ~Unlisted(source, i)
<1>1. source \in Seq(Entry) /\ Len(source) \in Nat /\ DOMAIN source = 1..Len(source)
  BY FilesAre
<1>2. \A i \in 1..Len(source) : source[i] \in Entry /\ source[i].depth \in Nat
  <2>1. \A i \in 1..Len(source) : source[i] \in Entry
    BY <1>1
  <2>2. \A e \in Entry : e.depth \in Nat
    BY DEF Entry
  <2> QED BY <2>1, <2>2
<1>3. ASSUME NEW i \in 1..Len(source)
      PROVE  i \in Visible <=> source[i].kind = "file" /\ ~Unlisted(source, i)
  <2>1. \A g \in 1..i-1 : \A k \in g+1..i :
          source[k].depth < source[g].depth <=> ~(source[k].depth >= source[g].depth)
    <3>1. \A g \in 1..i-1 : g \in 1..Len(source) /\ \A k \in g+1..i : k \in 1..Len(source)
      BY <1>1
    <3>2. \A m, n \in Nat : m < n <=> ~(m >= n)
      OBVIOUS
    <3> QED BY <1>2, <3>1, <3>2
  <2>2. ~Unlisted(source, i) <=> \A g \in 1..i-1 : source[g].kind = "gone" =>
                           \E k \in g+1..i : source[k].depth < source[g].depth
    BY <2>1 DEF Unlisted
  <2> QED BY <1>1, <2>2 DEF Visible
<1> QED BY <1>2, <1>3

\* Numbers between which none of S is have as many of S below them.
LEMMA UptoSame ==
  ASSUME NEW S \in SUBSET (Nat \ {0}), NEW m \in Nat, NEW n \in Nat, m <= n,
         \A i \in m+1..n : i \notin S
  PROVE  Upto(S, n) = Upto(S, m)
<1>1. \A v \in S : v <= n <=> v <= m
  <2>1. ASSUME NEW v \in S, v <= n, ~(v <= m) PROVE FALSE
    <3>1. v \in m+1..n
      BY <2>1
    <3> QED BY <3>1
  <2> QED BY <2>1
<1>2. {v \in S : v <= n} = {v \in S : v <= m}
  BY <1>1
<1> QED BY <1>2 DEF Upto

\* What is skipped behind an entry that is gone is not listed; what it goes on with is.
LEMMA GoneSkips ==
  ASSUME source \in Sources, NEW a \in 1..Len(source), source[a].kind = "gone", ~Unlisted(source, a),
         NEW z, z = Earliest({i \in a+1..Len(source) : source[i].depth < source[a].depth},
                             Len(source) + 1)
  PROVE  /\ z \in a+1..Len(source)+1 /\ \A i \in a..z-1 : i \notin Visible
         /\ z \in DOMAIN source => ~Unlisted(source, z)
<1> DEFINE S == {i \in a+1..Len(source) : source[i].depth < source[a].depth}
<1>1. source \in Seq(Entry) /\ Len(source) \in Nat /\ DOMAIN source = 1..Len(source)
  BY FilesAre
<1>2. \A i \in 1..Len(source) : source[i].depth \in Nat
  <2>1. \A e \in Entry : e.depth \in Nat
    BY DEF Entry
  <2> QED BY <2>1, VisibleIs
<1>3. /\ z \in a+1..Len(source)+1 /\ (z \in S \/ z = Len(source) + 1)
      /\ \A i \in S : z <= i
  <2>1. CASE S = {}
    <3>1. z = Len(source) + 1
      BY <2>1 DEF Earliest
    <3> QED BY <1>1, <2>1, <3>1
  <2>2. CASE S # {}
    <3>1. S \in SUBSET Nat
      BY <1>1
    <3>2. \E x \in S : \A y \in S : x <= y
      BY <2>2, <3>1, LeastNumber
    <3>3. z = CHOOSE x \in S : \A y \in S : x <= y
      BY <2>2, Zenon DEF Earliest
    <3>4. z \in S /\ \A y \in S : z <= y
      BY <3>2, <3>3
    <3> QED BY <1>1, <3>4
  <2> QED BY <2>1, <2>2
<1>4. ASSUME NEW i \in a+1..z-1 PROVE i \in 1..Len(source) /\ source[i].depth >= source[a].depth
  <2>1. i \in a+1..Len(source) /\ ~(z <= i) /\ i \in 1..Len(source)
    BY <1>1, <1>3
  <2>2. i \notin S
    BY <1>3, <2>1
  <2>3. ~(source[i].depth < source[a].depth)
    BY <2>1, <2>2
  <2> QED BY <1>2, <2>1, <2>3
<1>5. ASSUME NEW i \in a..z-1 PROVE i \notin Visible
  <2>1. CASE i = a
    BY <2>1, VisibleIs
  <2>2. CASE i # a
    <3>0. a \in Nat /\ a >= 1 /\ z \in Nat
      BY <1>1, <1>3
    <3>1. i \in a+1..z-1 /\ a \in 1..i-1 /\ \A k \in a+1..i : k \in a+1..z-1
      BY ONLY <2>2, <3>0, i \in a..z-1
    <3>2. Unlisted(source, i)
      BY <1>4, <3>1 DEF Unlisted
    <3> QED BY <1>4, <3>1, <3>2, VisibleIs
  <2> QED BY <2>1, <2>2
<1>6. ASSUME z \in DOMAIN source, NEW g \in 1..z-1, source[g].kind = "gone",
             \A k \in g+1..z : source[k].depth >= source[g].depth
      PROVE  FALSE
  <2>1. z \in 1..Len(source) /\ source[z].depth < source[a].depth
    BY <1>1, <1>3, <1>6
  <2>2. z \in g+1..z /\ g \in 1..Len(source) /\ source[z].depth >= source[g].depth
    BY <1>1, <1>6, <2>1
  <2>3. CASE g < a
    <3>0. a \in Nat /\ z \in Nat /\ g \in Nat /\ g >= 1 /\ a <= z
      BY <1>1, <1>3
    <3>1. g \in 1..a-1 /\ \A k \in g+1..a : k \in g+1..z
      BY ONLY <2>3, <3>0
    <3> QED BY <1>6, <3>1 DEF Unlisted
  <2>4. CASE g = a
    BY <1>2, <2>1, <2>2, <2>4
  <2>5. CASE g > a
    <3>1. g \in a+1..z-1
      BY <1>1, <1>3, <2>5
    <3>2. source[g].depth >= source[a].depth
      BY <1>4, <3>1
    <3> QED BY <1>2, <2>1, <2>2, <3>2, SMTT(30)
  <2> QED BY <1>1, <2>2, <2>3, <2>4, <2>5
<1>7. z \in DOMAIN source => ~Unlisted(source, z)
  BY <1>6 DEF Unlisted
<1> HIDE DEF S
<1> QED BY <1>3, <1>5, <1>7

\* What the read thread pushes comes next in the stream of the files.
LEMMA ReadMoves ==
  ASSUME BufferInv, EndInv, Read, NEW r, NEW w \in Place,
         Through(Stream("blocks"), r, read_queue, w),
         Reading(source, Visible, at, reading, unread, w)
  PROVE  \E z \in Place : /\ Through(Stream("blocks"), r, read_queue', z)
                          /\ Reading(source, Visible, at', reading', unread', z)
<1> DEFINE F == Files
           V == Visible
<1>1. /\ source \in Seq(Entry) /\ Len(source) \in Nat /\ DOMAIN source = 1..Len(source)
      /\ V \in SUBSET (Nat \ {0}) /\ V \subseteq 1..Len(source)
      /\ F \in Seq(Entry) /\ DOMAIN F = 1..Len(F)
      /\ \A i \in V : Upto(V, i) \in DOMAIN F /\ F[Upto(V, i)] = source[i]
  BY FilesAre DEF BufferInv, Types
<1>2. /\ \A i \in 1..Len(source) : source[i] \in Entry
      /\ \A i \in 1..Len(source) : i \in V <=> source[i].kind = "file" /\ ~Unlisted(source, i)
  BY VisibleIs DEF BufferInv, Types
<1>3. /\ read_queue \in Seq(Element) /\ at \in 1..Len(source) + 2
      /\ (reading => at \in 1..Len(source))
  BY DEF BufferInv, Types, EndInv
<1>4. /\ w.n \in Nat /\ w.off \in Nat /\ ~w.naming /\ (w.open <=> reading)
  BY DEF Place, Reading
<1>5. \A i \in 1..Len(source) : source[i].bytes \in Seq(Byte) /\ source[i].name \in Seq(Nat)
  <2>1. \A e \in Entry : e.bytes \in Seq(Byte) /\ e.name \in Seq(Nat)
    BY DEF Entry
  <2> QED BY <1>2, <2>1
<1>6. ASSUME NEW e \in Element, NEW z \in Place, Legal(Stream("blocks"), w, e, z),
             read_queue' = Append(read_queue, e)
      PROVE  Through(Stream("blocks"), r, read_queue', z)
  BY <1>3, <1>6, ThroughPush
<1>7. ASSUME NEW z, NEW e
      PROVE  /\ Mark(F, w, e, z) => Legal(Stream("blocks"), w, e, z)
             /\ Block(F, w, e, z) => Legal(Stream("blocks"), w, e, z)
  BY DEF Legal, Stream
<1>8. CASE OpenFile
  <2>1. /\ ~reading /\ at \in 1..Len(source) /\ source[at].kind = "file"
        /\ read_queue' = Append(read_queue, FILE_START(source[at].name))
        /\ at' = at /\ reading' = TRUE /\ unread' = source[at].bytes
    BY <1>1, <1>8 DEF OpenFile, AtEntry
  <2>2. at \in V /\ ~Unlisted(source, at)
    BY <1>1, <1>2, <2>1 DEF Reading
  <2>3. w.n + 1 = Upto(V, at)
    <3>1. PICK k \in Nat : at = k + 1 /\ k = at - 1
      <4>1. at - 1 \in Nat /\ at = (at - 1) + 1
        BY <2>1
      <4> QED BY <4>1
    <3>2. w.n = Upto(V, k)
      BY <2>1, <3>1 DEF Reading
    <3> QED BY <1>1, <2>2, <3>1, <3>2, UptoStep
  <2>4. PICK z \in Place : /\ z = At(w.n + 1, TRUE, 0)
                          /\ z.n = w.n + 1 /\ z.off = 0 /\ z.open /\ ~z.naming
    <3>1. w.n + 1 \in Nat /\ 0 \in Nat
      BY <1>4
    <3> DEFINE y == At(w.n + 1, TRUE, 0)
    <3>2. y \in Place /\ y.n = w.n + 1 /\ y.off = 0 /\ y.open /\ ~y.naming
      BY <3>1 DEF At, Place
    <3> HIDE DEF y
    <3>3. \E z \in Place : z = y /\ z.n = w.n + 1 /\ z.off = 0 /\ z.open /\ ~z.naming
      BY <3>2, Zenon
    <3> QED BY <3>3 DEF y
  <2>5. Starts(F, w, z)
    BY <1>1, <1>4, <2>1, <2>2, <2>3, <2>4 DEF Starts, Outside
  <2>6. Mark(F, w, FILE_START(source[at].name), z)
    BY <1>1, <1>4, <2>2, <2>3, <2>5 DEF Mark
  <2>7. FILE_START(source[at].name) \in Element
    BY <1>5, <2>1 DEF FILE_START, Chunk, Element
  <2>8. z.n = Upto(V, at) /\ z.off = 0 /\ z.open /\ ~z.naming
    BY <2>3, <2>4
  <2>9. Reading(source, V, at', reading', unread', z)
    <3>1. unread' = SubSeq(source[at].bytes, 0 + 1, Len(source[at].bytes))
      BY <1>5, <2>1
    <3>2. 0 <= Len(source[at].bytes)
      BY <1>5, <2>1
    <3> QED BY <2>1, <2>2, <2>8, <3>1, <3>2 DEF Reading
  <2> QED BY <1>6, <1>7, <2>1, <2>6, <2>7, <2>9
<1>9. ASSUME reading
      PROVE  /\ at \in 1..Len(source) /\ at \in V /\ ~Unlisted(source, at)
             /\ w.n \in DOMAIN F /\ F[w.n] = source[at] /\ w.n = Upto(V, at)
             /\ Inside(F, w) /\ source[at].bytes \in Seq(Byte) /\ w.off <= Len(source[at].bytes)
             /\ unread = SubSeq(source[at].bytes, w.off + 1, Len(source[at].bytes))
  <2>1. /\ at \in V /\ w.off <= Len(source[at].bytes) /\ w.n = Upto(V, at)
        /\ unread = SubSeq(source[at].bytes, w.off + 1, Len(source[at].bytes))
    BY <1>9 DEF Reading
  <2>2. /\ at \in 1..Len(source) /\ w.n \in DOMAIN F /\ F[w.n] = source[at]
    BY <1>1, <2>1
  <2>3. ~Unlisted(source, at) /\ source[at].bytes \in Seq(Byte)
    BY <1>2, <1>5, <2>1, <2>2
  <2>4. Inside(F, w)
    BY <1>4, <1>9, <2>1, <2>2 DEF Inside
  <2> QED BY <2>1, <2>2, <2>3, <2>4
<1>10. CASE ReadBlock
  <2> DEFINE n == Smaller(config.block, Len(unread))
             p == source[at].bytes
  <2>1. /\ reading /\ unread # <<>> /\ at' = at /\ reading' = reading
        /\ read_queue' = Append(read_queue, Chunk("data", SubSeq(unread, 1, n)))
        /\ unread' = SubSeq(unread, n+1, Len(unread))
    BY <1>10 DEF ReadBlock
  <2>2. p \in Seq(Byte) /\ Len(p) \in Nat
    BY <1>9, <2>1, LengthOf
  <2>3. unread = SubSeq(p, w.off + 1, Len(p)) /\ w.off <= Len(p)
    BY <1>9, <2>1
  <2> HIDE DEF p
  <2>4. unread \in Seq(Byte) /\ Len(unread) = Len(p) - w.off
    <3>1. w.off + 0 <= Len(p) /\ 0 \in Nat
      BY <1>4, <2>2, <2>3
    <3> QED BY <1>4, <2>2, <2>3, <3>1, LeftOfLeft
  <2>5. n \in Nat \ {0} /\ w.off + n <= Len(p)
    <3>1. Len(unread) \in Nat \ {0}
      BY <2>1, <2>4, EmptySeq
    <3>2. config.block \in Nat \ {0}
      BY PreparedUsable DEF BufferInv, Types
    <3> QED BY <1>4, <2>2, <2>4, <3>1, <3>2 DEF Smaller
  <2> HIDE DEF n
  <2>6. /\ SubSeq(unread, 1, n) = SubSeq(p, w.off + 1, w.off + n)
        /\ SubSeq(unread, n + 1, Len(unread)) = SubSeq(p, (w.off + n) + 1, Len(p))
    <3>1. n \in Nat /\ w.off \in Nat /\ w.off + n <= Len(p)
      BY <1>4, <2>5
    <3>2. PICK off \in Nat : off = w.off
      BY <3>1
    <3>3. unread = SubSeq(p, off + 1, Len(p)) /\ off <= Len(p) /\ off + n <= Len(p)
      BY <2>3, <3>1, <3>2
    <3>4. /\ SubSeq(unread, 1, n) = SubSeq(p, off + 1, off + n)
          /\ SubSeq(unread, n + 1, Len(unread)) = SubSeq(p, (off + n) + 1, Len(p))
      BY <2>2, <3>1, <3>3, LeftOfLeft, SMTT(30)
    <3> QED BY <3>2, <3>4
  <2> DEFINE e == Chunk("data", SubSeq(unread, 1, n))
  <2>7. /\ SubSeq(unread, 1, n) \in Seq(Byte) /\ Len(SubSeq(unread, 1, n)) = n
    <3>1. n \in Nat /\ w.off \in Nat /\ w.off + n <= Len(p)
      BY <1>4, <2>5
    <3>2. /\ SubSeq(p, w.off + 1, w.off + n) \in Seq(Byte) /\ Len(SubSeq(p, w.off + 1, w.off + n)) = n
      BY <2>2, <3>1, SubSeqIs
    <3> QED BY <2>6, <3>2
  <2>8. e \in Element /\ e.size = n
    BY <2>5, <2>7 DEF Chunk, Element
  <2>9. PICK z \in Place : /\ z = At(w.n, TRUE, w.off + n)
                          /\ z.n = w.n /\ z.off = w.off + n /\ z.open /\ ~z.naming
    <3>1. w.n \in Nat /\ w.off + n \in Nat
      BY <1>4, <2>5
    <3> DEFINE y == At(w.n, TRUE, w.off + n)
    <3>2. y \in Place /\ y.n = w.n /\ y.off = w.off + n /\ y.open /\ ~y.naming
      BY <3>1 DEF At, Place
    <3> HIDE DEF y
    <3>3. \E z \in Place : z = y /\ z.n = w.n /\ z.off = w.off + n /\ z.open /\ ~z.naming
      BY <3>2, Zenon
    <3> QED BY <3>3 DEF y
  <2>10. Block(F, w, e, z)
    <3>1. Moves(F, w, n, z)
      BY <1>9, <2>1, <2>5, <2>9 DEF Moves, p
    <3>2. e = Chunk("data", Bytes(F, w, n))
      BY <1>9, <2>1, <2>6 DEF Bytes, p
    <3> QED BY <2>8, <3>1, <3>2 DEF Block
  <2>11. Reading(source, V, at', reading', unread', z)
    BY <1>9, <2>1, <2>5, <2>6, <2>9 DEF Reading, p
  <2> HIDE DEF e
  <2>12. read_queue' = Append(read_queue, e)
    BY <2>1 DEF e
  <2> QED BY <1>6, <1>7, <2>8, <2>10, <2>11, <2>12
<1>11. CASE CloseFile
  <2>1. /\ reading /\ unread = <<>> /\ at' = at + 1 /\ reading' = FALSE
        /\ read_queue' = Append(read_queue, FILE_END)
    BY <1>11 DEF CloseFile
  <2>2. w.off = Len(source[at].bytes)
    <3> DEFINE p == source[at].bytes
    <3>1. p \in Seq(Byte) /\ Len(p) \in Nat /\ unread = SubSeq(p, w.off + 1, Len(p)) /\ w.off <= Len(p)
      BY <1>9, <2>1, LengthOf
    <3> HIDE DEF p
    <3>2. w.off + 0 <= Len(p) /\ 0 \in Nat
      BY <1>4, <3>1
    <3>3. Len(unread) = Len(p) - w.off
      BY <1>4, <3>1, <3>2, LeftOfLeft
    <3>4. Len(unread) = 0
      BY <2>1
    <3>5. w.off = Len(p)
      BY <1>4, <3>1, <3>3, <3>4
    <3> QED BY <3>5 DEF p
  <2>3. PICK z \in Place : /\ z = At(w.n, FALSE, 0)
                          /\ z.n = w.n /\ z.off = 0 /\ ~z.open /\ ~z.naming
    <3>1. w.n \in Nat /\ 0 \in Nat
      BY <1>4
    <3> DEFINE y == At(w.n, FALSE, 0)
    <3>2. y \in Place /\ y.n = w.n /\ y.off = 0 /\ ~y.open /\ ~y.naming
      BY <3>1 DEF At, Place
    <3> HIDE DEF y
    <3>3. \E z \in Place : z = y /\ z.n = w.n /\ z.off = 0 /\ ~z.open /\ ~z.naming
      BY <3>2, Zenon
    <3> QED BY <3>3 DEF y
  <2>4. Mark(F, w, FILE_END, z)
    BY <1>9, <2>1, <2>2, <2>3 DEF Mark, Finishes
  <2>5. FILE_END \in Element
    BY DEF FILE_END, Chunk, Element
  <2>6. at + 1 \in DOMAIN source => ~Unlisted(source, at + 1)
    <3>1. ASSUME at + 1 \in DOMAIN source, NEW g \in 1..(at+1)-1, source[g].kind = "gone",
                 \A k \in g+1..at+1 : source[k].depth >= source[g].depth
          PROVE  FALSE
      <4>1. source[at].kind = "file" /\ at \in Nat
        BY <1>2, <1>3, <1>9, <2>1
      <4>2. g \in 1..at-1
        BY <3>1, <4>1
      <4>3. \A k \in g+1..at : k \in g+1..at+1
        BY <4>1
      <4>4. Unlisted(source, at)
        BY <3>1, <4>2, <4>3 DEF Unlisted
      <4> QED BY <1>9, <2>1, <4>4
    <3> QED BY <3>1 DEF Unlisted
  <2>7. Reading(source, V, at', reading', unread', z)
    <3>1. (at + 1) - 1 = at
      BY <1>3
    <3> QED BY <1>9, <2>1, <2>3, <2>6, <3>1 DEF Reading
  <2> QED BY <1>6, <1>7, <2>1, <2>4, <2>5, <2>7
<1>12. ASSUME NEW j \in Nat, at <= j, \A i \in at..j-1 : i \notin V, j \in DOMAIN source => ~Unlisted(source, j),
              ~reading, at' = j, reading' = reading
       PROVE  Reading(source, V, at', reading', unread', w)
  <2>1. PICK m \in Nat, n \in Nat : m = at - 1 /\ n = j - 1 /\ m <= n /\ \A i \in m+1..n : i \in at..j-1
    <3>1. at \in Nat /\ at - 1 \in Nat /\ j - 1 \in Nat /\ at - 1 <= j - 1 /\ (at - 1) + 1 = at
      BY <1>3, <1>12
    <3> QED BY <3>1
  <2>2. Upto(V, n) = Upto(V, m)
    BY <1>1, <1>12, <2>1, UptoSame
  <2>3. w.n = Upto(V, m)
    BY <1>12, <2>1 DEF Reading
  <2> QED BY <1>4, <1>12, <2>1, <2>2, <2>3 DEF Reading
<1>13. CASE EntryGone
  <2> DEFINE S == {i \in at+1..Len(source) : source[i].depth < source[at].depth}
  <2>1. /\ ~reading /\ at \in 1..Len(source) /\ source[at].kind = "gone"
        /\ at' = Earliest(S, Len(source) + 1)
        /\ reading' = reading /\ read_queue' = read_queue
    BY <1>1, <1>13 DEF EntryGone, AtEntry
  <2>2. ~Unlisted(source, at)
    BY <1>1, <2>1 DEF Reading
  <2>3. /\ at' \in at+1..Len(source)+1 /\ \A i \in at..at'-1 : i \notin Visible
        /\ at' \in DOMAIN source => ~Unlisted(source, at')
    <3>1. source \in Sources
      BY DEF BufferInv, Types
    <3> QED BY <2>1, <2>2, <3>1, GoneSkips
  <2>4. at' \in Nat /\ at <= at'
    BY <1>1, <1>3, <2>3
  <2> HIDE DEF S
  <2> QED BY <1>12, <2>1, <2>3, <2>4
<1>14. CASE ReadEnds
  <2>1. /\ ~reading /\ at = Len(source) + 1 /\ at' = at + 1 /\ reading' = reading
        /\ read_queue' = Append(read_queue, NULL)
    BY <1>14 DEF ReadEnds
  <2>2. /\ at + 1 \in Nat /\ at <= at + 1 /\ \A i \in at..(at+1)-1 : i \notin V
        /\ at + 1 \notin DOMAIN source
    BY <1>1, <2>1
  <2>3. Reading(source, V, at', reading', unread', w)
    BY <1>12, <2>1, <2>2
  <2>4. NULL \in Element /\ Mark(F, w, NULL, w)
    BY DEF NULL, Chunk, Element, Mark
  <2> QED BY <1>6, <1>7, <2>1, <2>3, <2>4
<1> QED BY <1>8, <1>10, <1>11, <1>13, <1>14 DEF Read

\* Which elements lead where.
LEMMA LegalIs ==
  ASSUME NEW kind \in {"blocks", "chunks", "hashed"}, NEW a, NEW e, NEW b
  PROVE  /\ Mark(Files, a, e, b) => Legal(Stream(kind), a, e, b)
         /\ kind = "blocks" /\ Block(Files, a, e, b) => Legal(Stream(kind), a, e, b)
         /\ kind = "chunks" /\ Unhashed(Files, geometry, a, e, b) => Legal(Stream(kind), a, e, b)
         /\ kind = "hashed" /\ Hashed(Files, geometry, a, e, b) => Legal(Stream(kind), a, e, b)
         /\ Legal(Stream(kind), a, e, b) /\ e.type # "data" => Mark(Files, a, e, b)
         /\ Legal(Stream(kind), a, e, b) /\ e.type = "data" =>
              /\ kind = "blocks" => Block(Files, a, e, b)
              /\ kind = "chunks" => Unhashed(Files, geometry, a, e, b)
              /\ kind = "hashed" => Hashed(Files, geometry, a, e, b)
<1>1. /\ Stream(kind).kind = kind /\ Stream(kind).files = Files /\ Stream(kind).geometry = geometry
      /\ kind # "lines"
  BY DEF Stream
<1>2. Mark(Files, a, e, b) => e.type # "data"
  BY Marks DEF Mark, FILE_START, Chunk
<1>3. \A d : Chunk("data", d).type = "data"
  BY DEF Chunk
<1>4. Block(Files, a, e, b) => e.type = "data"
  BY <1>3 DEF Block
<1>5. Unhashed(Files, geometry, a, e, b) => e.type = "data"
  BY <1>3 DEF Unhashed
<1>6. Hashed(Files, geometry, a, e, b) => e.type = "data"
  BY DEF Hashed, IsData
<1> HIDE DEF Stream
<1> QED BY <1>1, <1>2, <1>4, <1>5, <1>6 DEF Legal

\* Where the marks lead.
LEMMA MarkIs ==
  ASSUME NEW F, NEW a, NEW e, NEW b, Mark(F, a, e, b)
  PROVE  /\ e = NULL => b = a
         /\ e = FILE_END => Finishes(F, a, b)
         /\ e.type = "FILE_START" =>
              ~a.naming /\ Starts(F, a, b) /\ e = FILE_START(F[a.n + 1].name)
         /\ e = NULL \/ e = FILE_END \/ e.type = "FILE_START"
<1>1. NULL # FILE_END /\ NULL.type # "FILE_START" /\ FILE_END.type # "FILE_START"
  BY Marks
<1>2. \A d : FILE_START(d).type = "FILE_START" /\ FILE_START(d) # NULL /\ FILE_START(d) # FILE_END
  BY Marks DEF FILE_START, Chunk
<1> QED BY <1>1, <1>2 DEF Mark

-----------------------------------------------------------------------------
(* The chunk thread takes blocks and gives chunks.                         *)

\* An element in hand leads on.
Held(S, a, e, b) == IF e = Nothing THEN b = a ELSE Legal(S, a, e, b)

\* The chunk thread, in state t and with the buffer buf, has cut up to o and has taken what
\* is before r: the bytes between them are in the buffer.
Buffered(F, t, buf, o, r) ==
  IF t.pc \in {"first", "cut"}
  THEN /\ Inside(F, o) /\ o.off + t.leftlen <= Len(F[o.n].bytes)
       /\ IF t.c = Nothing THEN r = At(o.n, TRUE, o.off + t.leftlen)
          ELSE r = At(o.n, FALSE, 0) /\ o.off + t.leftlen = Len(F[o.n].bytes)
       /\ \A i \in 1..t.leftlen : buf[t.leftoff + i] = F[o.n].bytes[o.off + i]
  ELSE r = o /\ ~o.open

\* fastcdc is the only scan whose chunk_min_size start_chunk_phase does not compare.
LEMMA GeometryOrdered ==
  ASSUME config \in Configs,
         \A c \in Configs : c.geometry.algorithm = "fastcdc" => c.geometry.min <= c.geometry.max
  PROVE  Ordered(geometry)
<1>1. geometry.algorithm \in {"rabin", "normalized rabin", "tttd"} => geometry.min <= geometry.max
  BY GeometryIs, Zenon
<1>2. geometry.algorithm = "fastcdc" => geometry.min <= geometry.max
  BY GeometryIs, Zenon
<1> QED BY <1>1, <1>2, Zenon DEF Ordered

\* It starts a file or ends.
LEMMA StartMoves ==
  ASSUME BufferInv, FlowTypes, ChunkFileStart, NEW c, NEW o \in Place, NEW r \in Place, NEW w,
         Through(Stream("chunks"), c, chunk_queue, o),
         Buffered(Files, chunker, leftbuf, o, r), Through(Stream("blocks"), r, read_queue, w)
  PROVE  \E p, m \in Place :
           /\ Through(Stream("chunks"), c, chunk_queue', o)
           /\ Held(Stream("chunks"), o, out', p)
           /\ Buffered(Files, chunker', leftbuf', p, m)
           /\ Through(Stream("blocks"), m, read_queue', w)
<1> DEFINE e == Head(read_queue)
<1>1. /\ chunker.pc = "start" /\ out = Nothing /\ read_queue # <<>> /\ read_queue' = Tail(read_queue)
      /\ leftbuf' = leftbuf
  BY DEF ChunkFileStart
<1>2. /\ read_queue \in Seq(Element) /\ chunk_queue \in Seq(Piece)
      /\ chunker \in [pc : {"start", "first", "cut", "done"}, c : {Nothing, FILE_END},
                      leftoff : Nat, leftlen : Nat]
  BY DEF BufferInv, Types, FlowTypes
<1>3. r = o /\ ~o.open
  BY <1>1 DEF Buffered
<1>4. PICK m \in Place : Legal(Stream("blocks"), r, e, m) /\ Through(Stream("blocks"), m, Tail(read_queue), w)
  BY <1>1, <1>2, ThroughPop
<1>5. e = NULL \/ e.type = "FILE_START"
  BY <1>1, HeadInFile DEF InFile
<1>6. Mark(Files, r, e, m)
  BY <1>4, <1>5, LegalIs, Marks
<1> HIDE DEF e
<1>7. CASE e = NULL
  <2>1. /\ chunk_queue' = Append(chunk_queue, NULL) /\ chunker' = [chunker EXCEPT !.pc = "done"]
        /\ out' = Nothing
    BY <1>1, <1>7 DEF ChunkFileStart, e
  <2>2. m = o
    BY <1>3, <1>6, <1>7, MarkIs
  <2>3. Legal(Stream("chunks"), o, NULL, o)
    BY LegalIs DEF Mark
  <2>4. Through(Stream("chunks"), c, chunk_queue', o)
    BY <1>2, <2>1, <2>3, Marks, ThroughPush
  <2>5. Buffered(Files, chunker', leftbuf', o, o)
    BY <1>2, <1>3, <2>1 DEF Buffered
  <2> QED BY <1>1, <1>4, <2>1, <2>2, <2>4, <2>5 DEF Held
<1>8. CASE e # NULL
  <2>1. out' = e /\ chunker' = [chunker EXCEPT !.pc = "first"] /\ chunk_queue' = chunk_queue
    BY <1>8 DEF ChunkFileStart, e
  <2>2. Legal(Stream("chunks"), o, e, m) /\ e # Nothing
    BY <1>3, <1>5, <1>6, <1>8, LegalIs, Marks
  <2>3. Starts(Files, r, m)
    BY <1>5, <1>6, <1>8, MarkIs
  <2>4. chunker.leftoff = 0 /\ chunker.leftlen = 0 /\ chunker.c = Nothing
    BY <1>1 DEF BufferInv, Empty
  <2>5. chunker'.pc = "first" /\ chunker'.leftoff = 0 /\ chunker'.leftlen = 0 /\ chunker'.c = Nothing
    BY <1>2, <2>1, <2>4
  <2>6. /\ m.open /\ ~m.naming /\ m.n \in DOMAIN Files /\ m.off = 0 /\ m = At(m.n, TRUE, 0)
    BY <2>3 DEF Starts, Outside, At
  <2>7. Len(Files[m.n].bytes) \in Nat
    <3>1. Files[m.n] \in Entry
      BY <2>6, FilesAre DEF BufferInv, Types
    <3>2. \A x \in Entry : x.bytes \in Seq(Byte)
      BY DEF Entry
    <3> QED BY <3>1, <3>2
  <2>8. Buffered(Files, chunker', leftbuf', m, m)
    <3>1. Inside(Files, m) /\ m.off + 0 <= Len(Files[m.n].bytes) /\ m.off + 0 = 0 /\ 1..0 = {}
      BY <2>6, <2>7 DEF Inside
    <3> QED BY <2>5, <2>6, <3>1 DEF Buffered
  <2> QED BY <1>1, <1>4, <2>1, <2>2, <2>8 DEF Held
<1> QED BY <1>7, <1>8

\* What the chunk thread does to the buffer with a block.
LEMMA Filled ==
  ASSUME BufferInv, ChunkFirst \/ ChunkFill
  PROVE  /\ out = Nothing /\ out' = Nothing /\ chunk_queue' = chunk_queue
         /\ read_queue # <<>> /\ read_queue' = Tail(read_queue)
         /\ chunker.pc \in {"first", "cut"} /\ chunker.c = Nothing /\ chunker'.pc = "cut"
         /\ Head(read_queue) = FILE_END =>
              /\ chunker'.c = FILE_END /\ leftbuf' = leftbuf
              /\ chunker'.leftoff = chunker.leftoff /\ chunker'.leftlen = chunker.leftlen
         /\ Head(read_queue) # FILE_END =>
              /\ chunker'.c = Nothing /\ chunker'.leftoff = 0
              /\ chunker'.leftlen = chunker.leftlen + Head(read_queue).size
              /\ \A i \in DOMAIN leftbuf :
                   leftbuf'[i] = IF i <= chunker.leftlen THEN leftbuf[chunker.leftoff + i]
                                 ELSE Copied(chunker.leftlen, Head(read_queue).data)[i]
<1> DEFINE e == Head(read_queue)
<1>1. /\ chunker \in [pc : {"start", "first", "cut", "done"}, c : {Nothing, FILE_END},
                      leftoff : Nat, leftlen : Nat]
      /\ leftbuf \in [1..BufferSize -> Byte] /\ BufferSize \in Nat
  BY PreparedUsable DEF BufferInv, Types
<1>2. CASE ChunkFirst
  <2>1. chunker.pc = "first" /\ chunker.leftoff = 0 /\ chunker.leftlen = 0 /\ chunker.c = Nothing
    BY <1>2 DEF ChunkFirst, BufferInv, Empty
  <2>2. /\ out = Nothing /\ out' = Nothing /\ chunk_queue' = chunk_queue
        /\ read_queue # <<>> /\ read_queue' = Tail(read_queue)
    BY <1>2 DEF ChunkFirst
  <2>3. CASE e = FILE_END
    <3>1. chunker' = [chunker EXCEPT !.pc = "cut", !.c = e] /\ leftbuf' = leftbuf
      BY <1>2, <2>3 DEF ChunkFirst
    <3> QED BY <1>1, <2>1, <2>2, <2>3, <3>1
  <2>4. CASE e # FILE_END
    <3>1. /\ chunker' = [chunker EXCEPT !.pc = "cut", !.leftlen = @ + e.size]
          /\ leftbuf' = Copied(0, e.data)
      BY <1>2, <2>4 DEF ChunkFirst
    <3>2. \A i \in DOMAIN leftbuf : ~(i <= 0)
      BY <1>1
    <3>3. /\ chunker'.pc = "cut" /\ chunker'.c = Nothing /\ chunker'.leftoff = 0
          /\ chunker'.leftlen = chunker.leftlen + e.size
      BY <1>1, <2>1, <3>1
    <3> QED BY <2>1, <2>2, <2>4, <3>1, <3>2, <3>3
  <2> QED BY <2>3, <2>4
<1>3. CASE ChunkFill
  <2>1. chunker.pc = "cut" /\ chunker.c = Nothing
    BY <1>3 DEF ChunkFill, Hungry
  <2>2. /\ out = Nothing /\ out' = Nothing /\ chunk_queue' = chunk_queue
        /\ read_queue # <<>> /\ read_queue' = Tail(read_queue)
    BY <1>3 DEF ChunkFill
  <2>3. CASE e = FILE_END
    <3>1. chunker' = [chunker EXCEPT !.c = e] /\ leftbuf' = leftbuf
      BY <1>3, <2>3 DEF ChunkFill
    <3> QED BY <1>1, <2>1, <2>2, <2>3, <3>1
  <2>4. CASE e # FILE_END
    <3>1. /\ chunker' = [chunker EXCEPT !.leftoff = 0, !.leftlen = @ + e.size]
          /\ leftbuf' = [i \in DOMAIN leftbuf |->
                           IF i <= chunker.leftlen THEN leftbuf[chunker.leftoff + i]
                           ELSE Copied(chunker.leftlen, e.data)[i]]
      BY <1>3, <2>4 DEF ChunkFill
    <3>2. /\ chunker'.pc = "cut" /\ chunker'.c = Nothing /\ chunker'.leftoff = 0
          /\ chunker'.leftlen = chunker.leftlen + e.size
      BY <1>1, <2>1, <3>1
    <3> QED BY <2>1, <2>2, <2>4, <3>1, <3>2
  <2> QED BY <2>3, <2>4
<1> QED BY <1>2, <1>3

\* A block goes behind what is left in the buffer, as it comes in the file.
LEMMA FillMoves ==
  ASSUME BufferInv, ChunkFirst \/ ChunkFill, NEW o \in Place, NEW r \in Place, NEW w,
         Buffered(Files, chunker, leftbuf, o, r), Through(Stream("blocks"), r, read_queue, w)
  PROVE  \E m \in Place : /\ Buffered(Files, chunker', leftbuf', o, m)
                          /\ Through(Stream("blocks"), m, read_queue', w)
<1> DEFINE e == Head(read_queue)
           len == chunker.leftlen
           off == chunker.leftoff
           p == Files[o.n].bytes
<1>1. /\ read_queue # <<>> /\ read_queue' = Tail(read_queue)
      /\ chunker.pc \in {"first", "cut"} /\ chunker.c = Nothing /\ chunker'.pc = "cut"
      /\ e = FILE_END =>
           /\ chunker'.c = FILE_END /\ leftbuf' = leftbuf
           /\ chunker'.leftoff = off /\ chunker'.leftlen = len
      /\ e # FILE_END =>
           /\ chunker'.c = Nothing /\ chunker'.leftoff = 0 /\ chunker'.leftlen = len + e.size
           /\ \A i \in DOMAIN leftbuf :
                leftbuf'[i] = IF i <= len THEN leftbuf[off + i] ELSE Copied(len, e.data)[i]
  BY Filled
<1>2. /\ read_queue \in Seq(Element) /\ leftbuf \in [1..BufferSize -> Byte] /\ BufferSize \in Nat
      /\ len \in Nat /\ off \in Nat
  BY PreparedUsable DEF BufferInv, Types
<1>3. /\ Inside(Files, o) /\ o.off + len <= Len(p) /\ r = At(o.n, TRUE, o.off + len)
      /\ \A i \in 1..len : leftbuf[off + i] = p[o.off + i]
  BY <1>1 DEF Buffered
<1>4. Files \in Seq(Entry) /\ p \in Seq(Byte) /\ Len(p) \in Nat
  BY <1>3, FilesAre, BytesAre DEF BufferInv, Types
<1>5. PICK m \in Place : Legal(Stream("blocks"), r, e, m) /\ Through(Stream("blocks"), m, Tail(read_queue), w)
  BY <1>1, <1>2, ThroughPop
<1>6. e = FILE_END \/ (e.type = "data" /\ e.data \in Seq(Byte) /\ e.size \in Nat)
  <2>1. InFile
    BY <1>1 DEF InFile
  <2> QED BY <1>1, <2>1, HeadInFile
<1>7. r.n = o.n /\ r.off = o.off + len /\ o.n \in Nat /\ o.off \in Nat
  <2>1. o.n \in Nat /\ o.off \in Nat
    BY DEF Place
  <2>2. o.off + len \in Nat
    BY <1>2, <2>1
  <2> QED BY <1>3, <2>1, <2>2 DEF At
<1> HIDE DEF e
<1>8. CASE e = FILE_END
  <2>1. Finishes(Files, r, m)
    BY <1>5, <1>8, LegalIs, MarkIs, Marks
  <2>2. m = At(o.n, FALSE, 0) /\ o.off + len = Len(p)
    BY <1>7, <2>1 DEF Finishes
  <2>3. chunker'.c # Nothing
    BY <1>1, <1>8, Marks
  <2>4. Buffered(Files, chunker', leftbuf', o, m)
    BY <1>1, <1>3, <1>8, <2>2, <2>3 DEF Buffered
  <2> QED BY <1>1, <1>5, <2>4
<1>9. CASE e # FILE_END
  <2>1. Block(Files, r, e, m)
    BY <1>5, <1>6, <1>9, LegalIs
  <2>2. /\ Inside(Files, r) /\ r.off + e.size <= Len(Files[r.n].bytes)
        /\ m = At(r.n, TRUE, r.off + e.size) /\ e.data = Bytes(Files, r, e.size)
    <3>1. \A d : Chunk("data", d).data = d
      BY DEF Chunk
    <3>2. e = Chunk("data", Bytes(Files, r, e.size))
      BY <2>1 DEF Block
    <3> QED BY <2>1, <3>1, <3>2 DEF Block, Moves
  <2>3. Len(e.data) = e.size /\ \A i \in 1..e.size : e.data[i] = p[r.off + i]
    BY <1>4, <1>6, <1>7, <1>9, <2>2, BytesAre, SMTT(30)
  <2>4. len + e.size <= BufferSize
    <3>1. BufferInv'
      <4>1. Next
        BY DEF Next, Cut
      <4> QED BY <4>1, NextKeepsBuffer
    <3>2. BufferSize' = BufferSize
      BY DEF ChunkFirst, ChunkFill, BufferSize, geometry
    <3>3. chunker'.leftoff + chunker'.leftlen <= BufferSize
      BY <3>1, <3>2 DEF BufferInv, LeftBufferFits
    <3> QED BY <1>1, <1>2, <1>6, <1>9, <3>3
  <2>5. ASSUME NEW i \in 1..len + e.size PROVE leftbuf'[i] = p[o.off + i]
    <3>1. i \in DOMAIN leftbuf /\ i \in 1..BufferSize
      BY <1>2, <1>6, <1>9, <2>4
    <3>2. CASE i <= len
      <4>1. i \in 1..len
        BY <1>2, <3>2
      <4> QED BY <1>1, <1>3, <1>9, <3>1, <3>2, <4>1
    <3>3. CASE ~(i <= len)
      <4>1. i \in len+1..len+Len(e.data)
        BY <1>2, <1>6, <1>9, <2>3, <3>3
      <4>2. Copied(len, e.data)[i] = e.data[i-len]
        BY <3>1, <4>1 DEF Copied
      <4>3. i - len \in 1..e.size /\ r.off + (i - len) = o.off + i
        BY <1>2, <1>6, <1>7, <1>9, <3>3, SMTT(30)
      <4> QED BY <1>1, <1>9, <2>3, <3>1, <3>3, <4>2, <4>3
    <3> QED BY <3>2, <3>3
  <2>6. /\ o.off + (len + e.size) <= Len(p) /\ m = At(o.n, TRUE, o.off + (len + e.size))
    <3>1. r.off + e.size = o.off + (len + e.size)
      BY <1>2, <1>6, <1>7, <1>9
    <3> QED BY <1>7, <2>2, <3>1
  <2>7. \A i \in 1..len + e.size : leftbuf'[0 + i] = p[o.off + i]
    <3>1. \A i \in 1..len + e.size : 0 + i = i
      OBVIOUS
    <3> QED BY <2>5, <3>1
  <2>8. Buffered(Files, chunker', leftbuf', o, m)
    BY <1>1, <1>3, <1>9, <2>6, <2>7 DEF Buffered
  <2> QED BY <1>1, <1>5, <2>8
<1> QED BY <1>8, <1>9

\* What is cut is the next chunk of the file, though the file may go on behind the buffer.
LEMMA ChunkMoves ==
  ASSUME BufferInv, ChunkCut, Ordered(geometry), NEW o \in Place, NEW r,
         Buffered(Files, chunker, leftbuf, o, r)
  PROVE  \E p \in Place : /\ Held(Stream("chunks"), o, out', p)
                          /\ Buffered(Files, chunker', leftbuf', p, r)
<1> DEFINE len == chunker.leftlen
           off == chunker.leftoff
           left == SubSeq(leftbuf, off + 1, off + len)
           n == chunking(geometry, left)
           p == Files[o.n].bytes
<1>1. /\ Usable(geometry) /\ geometry.max \in Nat \ {0} /\ BufferSize \in Nat
  BY PreparedUsable DEF BufferInv, Types, Usable
<1>2. /\ chunker \in [pc : {"start", "first", "cut", "done"}, c : {Nothing, FILE_END},
                      leftoff : Nat, leftlen : Nat]
      /\ leftbuf \in [1..BufferSize -> Byte] /\ off + len <= BufferSize
  BY DEF BufferInv, Types, LeftBufferFits
<1>3. /\ chunker.pc = "cut" /\ ~Hungry /\ len > 0
      /\ out' = Chunk("data", SubSeq(left, 1, n)) /\ leftbuf' = leftbuf
      /\ chunker' = [chunker EXCEPT !.leftoff = @ + n, !.leftlen = @ - n]
  BY DEF ChunkCut
<1>4. /\ Inside(Files, o) /\ o.off + len <= Len(p)
      /\ IF chunker.c = Nothing THEN r = At(o.n, TRUE, o.off + len)
         ELSE r = At(o.n, FALSE, 0) /\ o.off + len = Len(p)
      /\ \A i \in 1..len : leftbuf[off + i] = p[o.off + i]
  BY <1>3 DEF Buffered
<1>5. /\ p \in Seq(Byte) /\ Len(p) \in Nat
      /\ Left(Files, o) \in Seq(Byte) /\ Len(Left(Files, o)) = Len(p) - o.off
      /\ \A i \in 1..Len(p) - o.off : Left(Files, o)[i] = p[o.off + i]
      /\ \A k \in Nat : o.off + k <= Len(p) =>
           /\ Bytes(Files, o, k) \in Seq(Byte) /\ Len(Bytes(Files, o, k)) = k
           /\ \A i \in 1..k : Bytes(Files, o, k)[i] = p[o.off + i]
  <2>1. Files \in Seq(Entry) /\ Inside(Files, o)
    BY <1>4, FilesAre DEF BufferInv, Types
  <2> QED BY <2>1, BytesAre
<1> HIDE DEF p
<1>6. o.n \in Nat /\ o.off \in Nat /\ len \in Nat \ {0} /\ off \in Nat
  BY <1>2, <1>3 DEF Place
<1>7. /\ left \in Seq(Byte) /\ Len(left) = len
      /\ \A i \in 1..len : left[i] = p[o.off + i]
  <2>1. \A i \in off+1..off+len : leftbuf[i] \in Byte
    <3>1. off+1..off+len \subseteq 1..BufferSize
      BY <1>1, <1>2, <1>6
    <3> QED BY <1>2, <3>1
  <2>2. /\ left \in Seq(Byte)
        /\ Len(left) = IF off + 1 <= off + len THEN off + len - (off + 1) + 1 ELSE 0
        /\ \A i \in 1..off + len - (off + 1) + 1 : left[i] = leftbuf[off + 1 + i - 1]
    BY <1>6, <2>1, SubSeqProperties
  <2>3. off + len - (off + 1) + 1 = len /\ off + 1 <= off + len
        /\ \A i \in 1..len : off + 1 + i - 1 = off + i
    BY <1>6
  <2> QED BY <1>4, <2>2, <2>3
<1> HIDE DEF left
<1>8. n \in 1..len
  <2>1. Len(left) \in Nat \ {0}
    BY <1>6, <1>7
  <2> QED BY <1>1, <1>7, <2>1, ChunkingProgresses
<1>9. geometry.algorithm = "ae" \/ n = chunking(geometry, Left(Files, o))
  <2>1. CASE chunker.c = Nothing
    <3>1. geometry.max <= len
      BY <1>1, <1>3, <1>6, <2>1 DEF Hungry
    <3>2. /\ Len(left) \in Nat /\ Len(Left(Files, o)) \in Nat /\ Len(left) <= Len(Left(Files, o))
          /\ geometry.max <= Len(left) /\ \A i \in 1..Len(left) : left[i] = Left(Files, o)[i]
      BY <1>4, <1>5, <1>6, <1>7, <3>1
    <3>3. geometry.algorithm \in {"fixed", "file"} => geometry.avg <= geometry.max
      BY GeometryIs DEF BufferInv, Types
    <3>4. ASSUME geometry.algorithm # "ae" PROVE n = chunking(geometry, Left(Files, o))
      BY <1>1, <3>2, <3>3, <3>4, CutEarly
    <3> QED BY <3>4
  <2>2. CASE chunker.c # Nothing
    <3>1. Len(left) = Len(Left(Files, o)) /\ \A i \in 1..Len(left) : left[i] = Left(Files, o)[i]
      BY <1>4, <1>5, <1>6, <1>7, <2>2
    <3>2. left = Left(Files, o)
      BY <1>5, <1>7, <3>1, SameSequence
    <3> QED BY <3>2
  <2> QED BY <2>1, <2>2
<1>10. PICK k \in Nat \ {0} : k = n /\ k <= len
  BY <1>6, <1>8
<1>11. SubSeq(left, 1, k) = Bytes(Files, o, k) /\ o.off + k <= Len(p)
       /\ Len(SubSeq(left, 1, k)) = k
  <2>1. o.off + k <= Len(p) /\ k \in Nat
    BY <1>4, <1>5, <1>6, <1>10
  <2>2. /\ SubSeq(left, 0 + 1, 0 + k) \in Seq(Byte) /\ Len(SubSeq(left, 0 + 1, 0 + k)) = k
        /\ \A i \in 1..k : SubSeq(left, 0 + 1, 0 + k)[i] = left[0 + i]
    <3>1. 0 + k <= Len(left) /\ 0 \in Nat /\ k \in Nat /\ left \in Seq(Byte)
      BY <1>7, <1>10
    <3> QED BY <3>1, SubSeqIs
  <2>3. 0 + 1 = 1 /\ 0 + k = k /\ \A i \in 1..k : 0 + i = i /\ i \in 1..len
    BY <1>6, <1>10
  <2>4. /\ Bytes(Files, o, k) \in Seq(Byte) /\ Len(Bytes(Files, o, k)) = k
        /\ \A i \in 1..k : Bytes(Files, o, k)[i] = p[o.off + i]
    BY <1>5, <2>1
  <2>5. \A i \in 1..k : SubSeq(left, 1, k)[i] = Bytes(Files, o, k)[i]
    BY <1>7, <2>2, <2>3, <2>4
  <2> QED BY <2>1, <2>2, <2>3, <2>4, <2>5, SameSequence
<1> DEFINE e == Chunk("data", SubSeq(left, 1, k))
           q == At(o.n, TRUE, o.off + k)
<1>12. q \in Place /\ q.n = o.n /\ q.off = o.off + k /\ q.open /\ ~q.naming
  <2>1. o.n \in Nat /\ o.off + k \in Nat
    BY <1>6, <1>10
  <2> QED BY <2>1 DEF At, Place
<1>13. e.size = k /\ e.type = "data" /\ e # Nothing
  BY <1>11, Marks DEF Chunk
<1>14. Unhashed(Files, geometry, o, e, q)
  <2>1. Moves(Files, o, k, q)
    BY <1>4, <1>11 DEF Moves, p
  <2>2. Cuts(Files, geometry, o, k, q)
    BY <1>9, <1>10, <2>1 DEF Cuts
  <2>3. e = Chunk("data", Bytes(Files, o, k))
    BY <1>11
  <2> HIDE DEF e, q
  <2> QED BY <1>13, <2>2, <2>3 DEF Unhashed
<1>15. /\ chunker'.pc = "cut" /\ chunker'.c = chunker.c
       /\ chunker'.leftoff = off + k /\ chunker'.leftlen = len - k
  BY <1>2, <1>3, <1>10
<1> HIDE DEF q, e, n
<1>16. out' = e
  BY <1>3, <1>10 DEF e
<1>17. Held(Stream("chunks"), o, out', q)
  BY <1>13, <1>14, <1>16, LegalIs DEF Held
<1>18. Buffered(Files, chunker', leftbuf', q, r)
  <2>1. Inside(Files, q)
    BY <1>4, <1>11, <1>12 DEF Inside, p
  <2>2. q.off + (len - k) = o.off + len
    BY <1>6, <1>10, <1>12
  <2>3. ASSUME NEW i \in 1..len - k PROVE leftbuf[(off + k) + i] = p[q.off + i]
    <3>1. k + i \in 1..len /\ (off + k) + i = off + (k + i) /\ q.off + i = o.off + (k + i)
      BY <1>6, <1>10, <1>12
    <3> QED BY <1>4, <3>1 DEF p
  <2>4. /\ q.off + (len - k) <= Len(p)
        /\ IF chunker.c = Nothing THEN r = At(q.n, TRUE, q.off + (len - k))
           ELSE r = At(q.n, FALSE, 0) /\ q.off + (len - k) = Len(p)
    BY <1>4, <1>12, <2>2 DEF p
  <2> QED BY <1>3, <1>12, <1>15, <2>1, <2>3, <2>4 DEF Buffered, p
<1> QED BY <1>12, <1>17, <1>18

\* The chunk thread moves from place to place, and nothing is lost or doubled on the way.
LEMMA CutMoves ==
  ASSUME BufferInv, FlowTypes, Cut, Ordered(geometry),
         NEW c, NEW x \in Place, NEW o \in Place, NEW r \in Place, NEW w,
         Through(Stream("chunks"), c, chunk_queue, x), Held(Stream("chunks"), x, out, o),
         Buffered(Files, chunker, leftbuf, o, r), Through(Stream("blocks"), r, read_queue, w)
  PROVE  \E y, p, m \in Place :
           /\ Through(Stream("chunks"), c, chunk_queue', y)
           /\ Held(Stream("chunks"), y, out', p)
           /\ Buffered(Files, chunker', leftbuf', p, m)
           /\ Through(Stream("blocks"), m, read_queue', w)
<1>1. /\ chunk_queue \in Seq(Piece) /\ out \in (Piece \ {NULL}) \cup {Nothing}
      /\ chunker \in [pc : {"start", "first", "cut", "done"}, c : {Nothing, FILE_END},
                      leftoff : Nat, leftlen : Nat]
      /\ geometry.max \in Nat \ {0}
  BY PreparedUsable DEF BufferInv, Types, FlowTypes, Usable
<1>2. out = Nothing => o = x
  BY DEF Held
<1>3. CASE ChunkFileStart
  <2>1. out = Nothing
    BY <1>3 DEF ChunkFileStart
  <2> QED BY <1>2, <1>3, <2>1, StartMoves
<1>4. CASE ChunkFirst \/ ChunkFill
  <2>1. out = Nothing /\ out' = Nothing /\ chunk_queue' = chunk_queue
    BY <1>4, Filled
  <2>2. PICK m \in Place : /\ Buffered(Files, chunker', leftbuf', o, m)
                           /\ Through(Stream("blocks"), m, read_queue', w)
    BY <1>4, FillMoves
  <2>3. Held(Stream("chunks"), o, out', o)
    BY <2>1 DEF Held
  <2> QED BY <1>2, <2>1, <2>2, <2>3
<1>5. CASE ChunkCut
  <2>1. out = Nothing /\ chunk_queue' = chunk_queue /\ read_queue' = read_queue
    BY <1>5 DEF ChunkCut
  <2>2. PICK p \in Place : /\ Held(Stream("chunks"), o, out', p)
                           /\ Buffered(Files, chunker', leftbuf', p, r)
    BY <1>5, ChunkMoves
  <2> QED BY <1>2, <2>1, <2>2
<1>6. CASE ChunkFileEnd
  <2>1. /\ out = Nothing /\ chunk_queue' = chunk_queue /\ read_queue' = read_queue
        /\ chunker.pc = "cut" /\ ~Hungry /\ chunker.leftlen = 0 /\ out' = chunker.c
        /\ chunker' = [chunker EXCEPT !.pc = "start", !.c = Nothing, !.leftoff = 0]
    BY <1>6 DEF ChunkFileEnd
  <2>2. chunker.c # Nothing /\ out' = FILE_END
    BY <1>1, <2>1 DEF Hungry
  <2>3. /\ Inside(Files, o) /\ r = At(o.n, FALSE, 0) /\ o.off = Len(Files[o.n].bytes)
    <3>1. Inside(Files, o) /\ r = At(o.n, FALSE, 0) /\ o.off + 0 = Len(Files[o.n].bytes)
      BY <2>1, <2>2 DEF Buffered
    <3> QED BY <3>1 DEF Place
  <2>4. Held(Stream("chunks"), o, out', r)
    <3>1. Mark(Files, o, FILE_END, r)
      BY <2>3 DEF Mark, Finishes
    <3> QED BY <2>2, <3>1, LegalIs, Marks DEF Held
  <2>5. Buffered(Files, chunker', leftbuf', r, r)
    <3>1. chunker'.pc = "start"
      BY <1>1, <2>1
    <3>2. ~r.open
      BY <2>3 DEF At
    <3> QED BY <3>1, <3>2 DEF Buffered
  <2> QED BY <1>2, <2>1, <2>4, <2>5
<1>7. CASE ChunkPush
  <2>1. /\ out # Nothing /\ out' = Nothing /\ chunk_queue' = Append(chunk_queue, out)
        /\ UNCHANGED <<read_queue, chunker, leftbuf>>
    BY <1>7 DEF ChunkPush
  <2>2. Through(Stream("chunks"), c, chunk_queue', o)
    <3>1. Legal(Stream("chunks"), x, out, o) /\ out \in Piece
      BY <1>1, <2>1 DEF Held
    <3> QED BY <1>1, <2>1, <3>1, ThroughPush
  <2>3. Held(Stream("chunks"), o, out', o)
    BY <2>1 DEF Held
  <2> QED BY <2>1, <2>2, <2>3
<1> QED BY <1>3, <1>4, <1>5, <1>6, <1>7 DEF Cut

-----------------------------------------------------------------------------
(* The hash thread adds the fingerprint.                                   *)

\* It pushes what it pops, a chunk with its content as its fingerprint.
LEMMA HashMoves ==
  ASSUME FlowTypes, Hash, NEW v, NEW h \in Place, NEW c \in Place, NEW x,
         Through(Stream("hashed"), v, hash_queue, h), Held(Stream("hashed"), h, hasher, c),
         Through(Stream("chunks"), c, chunk_queue, x)
  PROVE  \E k, d \in Place :
           /\ Through(Stream("hashed"), v, hash_queue', k) /\ Held(Stream("hashed"), k, hasher', d)
           /\ Through(Stream("chunks"), d, chunk_queue', x)
<1>1. /\ chunk_queue \in Seq(Piece) /\ hash_queue \in Seq(Piece)
      /\ hasher \in (Piece \ {NULL}) \cup {Nothing}
  BY DEF FlowTypes
<1>2. CASE HashPop
  <2> DEFINE e == Head(chunk_queue)
             hashed == [e EXCEPT !.fp = e.data]
  <2>1. hasher = Nothing /\ h = c /\ chunk_queue # <<>> /\ chunk_queue' = Tail(chunk_queue)
    BY <1>2 DEF HashPop, Held
  <2>2. PICK d \in Place : /\ Legal(Stream("chunks"), c, e, d)
                           /\ Through(Stream("chunks"), d, chunk_queue', x)
    BY <1>1, <2>1, ThroughPop
  <2>3. e \in Piece
    BY <1>1, <2>1, Popped
  <2>4. CASE e = NULL
    <3>1. hash_queue' = Append(hash_queue, NULL) /\ hasher' = hasher
      BY <1>2, <2>4 DEF HashPop
    <3>2. d = c
      BY <2>2, <2>4, LegalIs, MarkIs, Marks
    <3>3. Legal(Stream("hashed"), h, NULL, h)
      BY LegalIs DEF Mark
    <3>4. Through(Stream("hashed"), v, hash_queue', h)
      BY <1>1, <3>1, <3>3, Marks, ThroughPush
    <3>5. Held(Stream("hashed"), h, hasher', c)
      BY <2>1, <3>1 DEF Held
    <3> QED BY <2>2, <3>2, <3>4, <3>5
  <2>5. CASE e # NULL
    <3>1. hash_queue' = hash_queue /\ hasher' = IF IsData(e) THEN hashed ELSE e
      BY <1>2, <2>5 DEF HashPop
    <3>2. hasher' # Nothing
      <4>1. e.type # "nothing" /\ hashed.type = e.type /\ Nothing.type = "nothing"
        BY <2>3, Marks DEF Piece
      <4> QED BY <3>1, <4>1
    <3>3. Legal(Stream("hashed"), c, hasher', d)
      <4>1. CASE IsData(e)
        <5>1. Unhashed(Files, geometry, c, e, d)
          BY <2>2, <4>1, LegalIs DEF IsData
        <5>2. /\ Cuts(Files, geometry, c, e.size, d) /\ e = Chunk("data", Bytes(Files, c, e.size))
          BY <5>1 DEF Unhashed
        <5>3. e.data = Bytes(Files, c, e.size)
          <6>1. \A b : Chunk("data", b).data = b
            BY DEF Chunk
          <6> QED BY <5>2, <6>1
        <5>4. hashed.type = "data" /\ hashed.size = e.size /\ hashed.fp = e.data
          BY <2>3, <4>1 DEF Piece, IsData
        <5> HIDE DEF hashed
        <5>5. Hashed(Files, geometry, c, hashed, d)
          BY <5>2, <5>3, <5>4 DEF Hashed, IsData
        <5> QED BY <3>1, <4>1, <5>5, LegalIs
      <4>2. CASE ~IsData(e)
        BY <2>2, <3>1, <4>2, LegalIs DEF IsData
      <4> QED BY <4>1, <4>2
    <3>4. Held(Stream("hashed"), h, hasher', d)
      BY <2>1, <3>2, <3>3 DEF Held
    <3> QED BY <2>2, <3>1, <3>4
  <2> QED BY <2>4, <2>5
<1>3. CASE HashPush
  <2>1. /\ hasher # Nothing /\ hasher' = Nothing /\ hash_queue' = Append(hash_queue, hasher)
        /\ chunk_queue' = chunk_queue
    BY <1>3 DEF HashPush
  <2>2. Through(Stream("hashed"), v, hash_queue', c)
    <3>1. Legal(Stream("hashed"), h, hasher, c) /\ hasher \in Piece
      BY <1>1, <2>1 DEF Held
    <3> QED BY <1>1, <2>1, <3>1, ThroughPush
  <2>3. Held(Stream("hashed"), c, hasher', c)
    BY <2>1 DEF Held
  <2> QED BY <2>1, <2>2, <2>3
<1> QED BY <1>2, <1>3 DEF Hash

-----------------------------------------------------------------------------
(* The trace has the lines of what was written, and is read as it.         *)

\* What the lines of a trace say.
LEMMA WrittenIs ==
  ASSUME NEW F, NEW g, NEW a, NEW l, NEW b, Written(F, g, a, l, b)
  PROVE  /\ Head(l) = "stream_end" => b = a
         /\ Head(l) = "file_end" => Finishes(F, a, b)
         /\ Head(l) = "file_start" =>
              /\ ~a.naming /\ Outside(F, a) /\ b = [a EXCEPT !.naming = TRUE]
              /\ l = <<"file_start", Len(F[a.n + 1].name)>>
         /\ Head(l) = "name" => Starts(F, a, b) /\ l = <<"name", F[a.n + 1].name>>
         /\ Head(l) = "chunk" =>
              Cuts(F, g, a, l[3], b) /\ l = <<"chunk", hash2code(Bytes(F, a, l[3])), l[3]>>
<1>1. CASE l = StreamEnd /\ b = a
  BY <1>1, LineHeads
<1>2. CASE l = <<"file_end">> /\ Finishes(F, a, b)
  BY <1>2, LineHeads
<1>3. CASE /\ ~a.naming /\ Outside(F, a) /\ b = [a EXCEPT !.naming = TRUE]
           /\ l = <<"file_start", Len(F[a.n + 1].name)>>
  BY <1>3, LineHeads
<1>4. CASE a.naming /\ Starts(F, a, b) /\ l = <<"name", F[a.n + 1].name>>
  BY <1>4, LineHeads
<1>5. CASE Cuts(F, g, a, l[3], b) /\ l = <<"chunk", hash2code(Bytes(F, a, l[3])), l[3]>>
  <2>1. Head(l) = "chunk"
    BY <1>5, LineHeads
  <2> QED BY <1>5, <2>1
<1> QED BY <1>1, <1>2, <1>3, <1>4, <1>5 DEF Written

\* A line is legal where it may be written.
LEMMA LegalLine ==
  ASSUME NEW a, NEW l, NEW b
  PROVE  Legal(Stream("lines"), a, l, b) <=> Written(Files, geometry, a, l, b)
BY DEF Legal, Stream

\* The name of a file and its content are what the tree says.
LEMMA FileIs ==
  ASSUME source \in Sources, NEW n \in DOMAIN Files
  PROVE  Files[n].name \in Seq(Nat) /\ Len(Files[n].name) \in Nat
<1>1. Files[n] \in Entry
  BY FilesAre
<1>2. \A e \in Entry : e.name \in Seq(Nat)
  BY DEF Entry
<1> QED BY <1>1, <1>2, LengthOf

\* A line more.
LEMMA LineMoves ==
  ASSUME NEW S, NEW u, NEW t \in Seq(Line), NEW i \in Nat, i <= Len(t), NEW x \in Line,
         NEW m, NEW b \in Place, Path(S, u, t, i + 1, Len(t), m), Legal(S, m, x, b)
  PROVE  Path(S, u, Append(t, x), i + 1, Len(Append(t, x)), b)
<1>1. /\ Len(t) \in Nat /\ Len(Append(t, x)) = Len(t) + 1
      /\ \A k \in 1..Len(t) : Append(t, x)[k] = t[k]
      /\ Append(t, x)[Len(t) + 1] = x
  BY Appended, LengthOf
<1>2. i + 1 \in Nat /\ i + 1 <= Len(t) + 1 /\ \A k \in i+1..Len(t) : k \in 1..Len(t)
  BY <1>1
<1>3. \A k \in i+1..Len(t) : Append(t, x)[k] = t[k]
  BY <1>1, <1>2
<1>4. Legal(S, m, Append(t, x)[Len(t) + 1], b)
  BY <1>1
<1>5. Path(S, u, Append(t, x), i + 1, Len(t) + 1, b)
  BY <1>1, <1>2, <1>3, <1>4, PathAppend, Zenon
<1> QED BY <1>1, <1>5

\* make_trace writes the lines of what it pops.
LEMMA WriteMoves ==
  ASSUME BufferInv, FlowTypes, TraceInv, TraceWrite, NEW u, NEW v \in Place, NEW h,
         Path(Stream("lines"), u, trace, line + 1, Len(trace), v),
         Through(Stream("hashed"), v, hash_queue, h)
  PROVE  \E z \in Place : /\ Path(Stream("lines"), u, trace', line + 1, Len(trace'), z)
                          /\ Through(Stream("hashed"), z, hash_queue', h)
<1> DEFINE e == Head(hash_queue)
<1>1. /\ hash_queue # <<>> /\ hash_queue' = Tail(hash_queue) /\ trace' = trace \o Lines(e)
      /\ hash_queue \in Seq(Piece) /\ trace \in Seq(Line) /\ line \in Nat /\ line <= Len(trace)
      /\ source \in Sources
  BY LengthOf DEF TraceWrite, FlowTypes, TraceInv, BufferInv, Types
<1>2. e \in Piece
  BY <1>1, Popped
<1>3. PICK z \in Place : /\ Legal(Stream("hashed"), v, e, z)
                         /\ Through(Stream("hashed"), z, hash_queue', h)
  BY <1>1, ThroughPop
<1> HIDE DEF e
<1>4. ASSUME NEW x \in Line, Lines(e) = <<x>>, Written(Files, geometry, v, x, z)
      PROVE  Path(Stream("lines"), u, trace', line + 1, Len(trace'), z)
  <2>1. trace' = Append(trace, x)
    BY <1>1, <1>4, AppendIsConcat
  <2>2. Legal(Stream("lines"), v, x, z)
    BY <1>4, LegalLine
  <2> QED BY <1>1, <2>1, <2>2, LineMoves
<1>5. CASE e = NULL
  <2>1. Lines(e) = <<StreamEnd>>
    BY <1>2, <1>5, LinesAre
  <2>2. z = v
    BY <1>3, <1>5, LegalIs, MarkIs, Marks
  <2>3. Written(Files, geometry, v, StreamEnd, z)
    BY <2>2 DEF Written
  <2> QED BY <1>3, <1>4, <2>1, <2>3, LineKinds
<1>6. CASE e = FILE_END
  <2>1. Lines(e) = << <<"file_end">> >>
    BY <1>2, <1>6, LinesAre, Marks
  <2>2. Finishes(Files, v, z)
    BY <1>3, <1>6, LegalIs, MarkIs, Marks
  <2>3. Written(Files, geometry, v, <<"file_end">>, z)
    BY <2>2 DEF Written
  <2> QED BY <1>3, <1>4, <2>1, <2>3, LineKinds
<1>7. CASE e.type = "data"
  <2>1. Before(e) = "inside" /\ After(e) = "inside"
    BY <1>7 DEF Before, After, Continues, Opens
  <2>2. /\ Lines(e) = << <<"chunk", hash2code(e.fp), e.size>> >>
        /\ e.fp \in Seq(Nat) /\ e.size \in Nat
    BY <1>2, <2>1, LinesAre, Marks
  <2>3. Hashed(Files, geometry, v, e, z)
    BY <1>3, <1>7, LegalIs
  <2>4. Cuts(Files, geometry, v, e.size, z) /\ e.fp = Bytes(Files, v, e.size)
    BY <2>3 DEF Hashed
  <2> DEFINE x == <<"chunk", hash2code(e.fp), e.size>>
  <2>5. x[3] = e.size /\ x \in Line
    BY <2>2, LineKinds
  <2>6. x = <<"chunk", hash2code(Bytes(Files, v, e.size)), e.size>>
    BY <2>4
  <2> HIDE DEF x
  <2>7. Written(Files, geometry, v, x, z)
    BY <2>4, <2>5, <2>6 DEF Written
  <2>8. Lines(e) = <<x>>
    BY <2>2 DEF x
  <2> QED BY <1>3, <1>4, <2>5, <2>7, <2>8
<1>8. CASE e.type = "FILE_START"
  <2>1. Before(e) = "outside" /\ After(e) = "inside" /\ e # NULL
    BY <1>8, Marks DEF Before, After, Continues, Opens
  <2>2. /\ Lines(e) = << <<"file_start", e.size>>, <<"name", e.data>> >>
        /\ e.size \in Nat /\ e.data \in Seq(Nat)
    BY <1>2, <2>1, LinesAre
  <2>3. ~v.naming /\ Starts(Files, v, z) /\ e = FILE_START(Files[v.n + 1].name)
    BY <1>3, <1>8, LegalIs, MarkIs
  <2>4. e.data = Files[v.n + 1].name /\ e.size = Len(Files[v.n + 1].name)
    <3>1. \A d : FILE_START(d).data = d /\ FILE_START(d).size = Len(d)
      BY DEF FILE_START, Chunk
    <3> QED BY <2>3, <3>1
  <2> DEFINE x == <<"file_start", e.size>>
             y == <<"name", e.data>>
             m == [v EXCEPT !.naming = TRUE]
  <2>5. x \in Line /\ y \in Line
    BY <2>2, LineKinds
  <2>6. m \in Place /\ m.n = v.n /\ (m.open <=> v.open) /\ m.naming
    BY DEF Place
  <2>7. x = <<"file_start", Len(Files[v.n + 1].name)>> /\ y = <<"name", Files[m.n + 1].name>>
    BY <2>4, <2>6
  <2>8. Lines(e) = <<x, y>>
    BY <2>2
  <2>9. m = [v EXCEPT !.naming = TRUE]
    OBVIOUS
  <2> HIDE DEF x, y, m
  <2>10. Written(Files, geometry, v, x, m)
    BY <2>3, <2>7, <2>9 DEF Written, Starts
  <2>11. Starts(Files, m, z)
    BY <2>3, <2>6 DEF Starts, Outside
  <2>12. Written(Files, geometry, m, y, z)
    BY <2>6, <2>7, <2>11 DEF Written
  <2>13. Path(Stream("lines"), u, Append(trace, x), line + 1, Len(Append(trace, x)), m)
    BY <1>1, <2>5, <2>6, <2>10, LegalLine, LineMoves
  <2>14. Append(trace, x) \in Seq(Line) /\ line <= Len(Append(trace, x))
    BY <1>1, <2>5, Appended, LengthOf
  <2>15. trace' = Append(Append(trace, x), y)
    <3>1. trace \in Seq(Line) /\ x \in Line /\ y \in Line
      BY <1>1, <2>5
    <3>2. trace \o <<x, y>> = Append(Append(trace, x), y)
      BY <3>1, AppendedTwice
    <3> QED BY <1>1, <2>8, <3>2
  <2>16. Path(Stream("lines"), u, trace', line + 1, Len(trace'), z)
    BY <1>1, <2>5, <2>6, <2>12, <2>13, <2>14, <2>15, LegalLine, LineMoves
  <2> QED BY <1>3, <2>16
<1> QED BY <1>2, <1>5, <1>6, <1>7, <1>8, <1>3, LegalIs, MarkIs

\* What read_trace_thread pushes is what the lines it reads were written of.
LEMMA ReaderMoves ==
  ASSUME BufferInv, TraceInv, TraceFileStart \/ TraceChunk \/ TraceEnds,
         trace_queue \in Seq(Piece), NEW s, NEW u \in Place, NEW v,
         Through(Stream("hashed"), s, trace_queue, u),
         Path(Stream("lines"), u, trace, line + 1, Len(trace), v)
  PROVE  /\ trace_queue' \in Seq(Piece)
         /\ \E z \in Place : /\ Through(Stream("hashed"), s, trace_queue', z)
                             /\ Path(Stream("lines"), z, trace', line' + 1, Len(trace'), v)
<1> DEFINE F == Files
           l == NextLine
<1>1. /\ TraceReader /\ trace' = trace
  BY DEF TraceFileStart, TraceChunk, TraceEnds
<1>2. /\ line + 1 \in 1..Len(trace) /\ l \in Line /\ l = trace[line + 1]
      /\ Len(trace) \in Nat /\ line \in Nat
      /\ TraceInFile => Head(l) \in {"chunk", "file_end"}
      /\ ~TraceInFile => Head(l) \in {"file_start", "stream_end"}
  BY <1>1, NextIs DEF NextLine
<1>3. source \in Sources /\ F \in Seq(Entry)
  BY FilesAre DEF BufferInv, Types
<1> HIDE DEF F, l
<1>4. PICK m \in Place : /\ Legal(Stream("lines"), u, l, m)
                         /\ Path(Stream("lines"), m, trace, (line + 1) + 1, Len(trace), v)
  <2>1. line + 1 \in Nat /\ Len(trace) \in Nat /\ line + 1 <= Len(trace)
    BY <1>2
  <2>2. \E m \in Place : /\ Legal(Stream("lines"), u, trace[line + 1], m)
                         /\ Path(Stream("lines"), m, trace, (line + 1) + 1, Len(trace), v)
    BY <2>1, PathPop
  <2> QED BY <1>2, <2>2
<1>5. Written(F, geometry, u, l, m)
  BY <1>4, LegalLine DEF F
<1>6. ASSUME NEW e \in Piece, trace_queue' = Append(trace_queue, e), NEW z \in Place,
             Legal(Stream("hashed"), u, e, z)
      PROVE  trace_queue' \in Seq(Piece) /\ Through(Stream("hashed"), s, trace_queue', z)
  BY <1>6, Appended, ThroughPush
<1>7. CASE TraceFileStart
  <2> DEFINE k == trace[line + 2]
             e == FILE_START(SubSeq(k[2], 1, l[2]))
  <2>1. ~TraceInFile /\ l # StreamEnd /\ line' = line + 2 /\ trace_queue' = Append(trace_queue, e)
    BY <1>7 DEF TraceFileStart, l
  <2>2. Head(l) = "file_start"
    BY <1>2, <2>1, EndLine
  <2>3. (line + 1) + 1 \in 1..Len(trace) /\ (line + 1) + 1 = line + 2 /\ line + 2 # 1
        /\ (line + 2) - 1 = line + 1 /\ (line + 1) + 1 \in Nat /\ (line + 1) + 1 <= Len(trace)
    <3>1. line + 1 # Len(trace)
      BY <1>1, <1>2, <2>1 DEF TraceReader, Last
    <3> QED BY <1>2, <3>1
  <2>4. Head(k) = "name"
    <3>1. Head(trace[line + 2]) \in Follows(Head(trace[line + 1]))
      BY <2>3 DEF TraceInv, InOrder
    <3> QED BY <1>2, <2>2, <3>1, FollowsIs
  <2>5. PICK z \in Place : /\ Legal(Stream("lines"), m, k, z)
                           /\ Path(Stream("lines"), z, trace, line' + 1, Len(trace), v)
    <3>1. \E z \in Place : /\ Legal(Stream("lines"), m, trace[(line + 1) + 1], z)
                           /\ Path(Stream("lines"), z, trace, ((line + 1) + 1) + 1, Len(trace), v)
      BY <1>2, <1>4, <2>3, PathPop
    <3>2. ((line + 1) + 1) + 1 = line' + 1
      BY <2>1, <2>3
    <3> QED BY <2>3, <3>1, <3>2
  <2>6. /\ ~u.naming /\ Outside(F, u) /\ m = [u EXCEPT !.naming = TRUE]
        /\ l = <<"file_start", Len(F[u.n + 1].name)>>
    BY <1>5, <2>2, WrittenIs
  <2> HIDE DEF k
  <2>7. Starts(F, m, z) /\ k = <<"name", F[m.n + 1].name>>
    <3>1. Written(F, geometry, m, k, z)
      BY <2>5, LegalLine DEF F
    <3> QED BY <2>4, <3>1, WrittenIs
  <2>8. m.n = u.n
    BY <2>6 DEF Place
  <2> DEFINE name == F[u.n + 1].name
  <2>9. name \in Seq(Nat) /\ Len(name) \in Nat
    <3>1. u.n + 1 \in DOMAIN F
      BY <2>6 DEF Outside
    <3> QED BY <1>3, <3>1, FileIs DEF F
  <2>10. k[2] = name /\ l[2] = Len(name)
    BY <2>6, <2>7, <2>8
  <2>11. e = FILE_START(name)
    <3>1. SubSeq(name, 1, Len(name)) = name
      BY <2>9
    <3> QED BY <2>10, <3>1
  <2>12. e \in Piece
    <3>1. FILE_START(name) = [type |-> "FILE_START", data |-> name, fp |-> <<>>, size |-> Len(name)]
      BY DEF FILE_START, Chunk
    <3>2. <<>> \in Seq(Nat)
      OBVIOUS
    <3> HIDE DEF name
    <3>3. FILE_START(name) \in Piece
      BY <2>9, <3>1, <3>2 DEF Piece
    <3> QED BY <2>11, <3>3
  <2>13. Mark(F, u, e, z)
    BY <2>6, <2>7, <2>8, <2>11 DEF Mark, Starts
  <2> HIDE DEF e
  <2>14. Legal(Stream("hashed"), u, e, z)
    BY <2>13, LegalIs DEF F
  <2> QED BY <1>1, <1>6, <2>1, <2>5, <2>12, <2>14
<1>8. CASE TraceChunk
  <2> DEFINE e == [type |-> "data", data |-> <<>>, fp |-> code2hash(l[2]), size |-> l[3]]
  <2>1. TraceInFile /\ line' = line + 1
        /\ trace_queue' = Append(trace_queue, IF Head(l) = "file_end" THEN FILE_END ELSE e)
    BY <1>8 DEF TraceChunk, l
  <2>2. CASE Head(l) = "file_end"
    <3>1. Finishes(F, u, m)
      BY <1>5, <2>2, WrittenIs
    <3>2. Mark(F, u, FILE_END, m)
      BY <3>1 DEF Mark
    <3>3. Legal(Stream("hashed"), u, FILE_END, m)
      BY <3>2, LegalIs DEF F
    <3>4. trace_queue' = Append(trace_queue, FILE_END)
      BY <2>1, <2>2
    <3> QED BY <1>1, <1>4, <1>6, <2>1, <3>3, <3>4, Marks
  <2>3. CASE Head(l) = "chunk"
    <3>1. Cuts(F, geometry, u, l[3], m) /\ l = <<"chunk", hash2code(Bytes(F, u, l[3])), l[3]>>
      BY <1>5, <2>3, WrittenIs
    <3>2. Inside(F, u) /\ l[3] \in Nat /\ u.off + l[3] <= Len(F[u.n].bytes)
      BY <3>1 DEF Cuts, Moves
    <3>3. Bytes(F, u, l[3]) \in Seq(Byte)
      BY <1>3, <3>2, BytesAre
    <3>4. code2hash(l[2]) = Bytes(F, u, l[3])
      <4>1. l[2] = hash2code(Bytes(F, u, l[3]))
        BY <3>1
      <4> QED BY <3>3, <4>1, HashReadBack
    <3>5. Bytes(F, u, l[3]) \in Seq(Nat) /\ <<>> \in Seq(Nat)
      BY <3>3, BytesAreNumbers
    <3>6. e.type = "data" /\ e.size = l[3] /\ e.fp = Bytes(F, u, e.size) /\ e \in Piece
      BY <3>2, <3>4, <3>5 DEF Piece
    <3>7. trace_queue' = Append(trace_queue, e)
      BY <2>1, <2>3
    <3> HIDE DEF e
    <3>8. Hashed(F, geometry, u, e, m)
      BY <3>1, <3>6 DEF Hashed, IsData
    <3>9. Legal(Stream("hashed"), u, e, m)
      BY <3>8, LegalIs DEF F
    <3> QED BY <1>1, <1>4, <1>6, <2>1, <3>6, <3>7, <3>9
  <2> QED BY <1>2, <2>1, <2>2, <2>3
<1>9. CASE TraceEnds
  <2>1. l = StreamEnd /\ line' = line + 1 /\ trace_queue' = Append(trace_queue, NULL)
    BY <1>9 DEF TraceEnds, l
  <2>2. m = u
    BY <1>5, <2>1, LineHeads, WrittenIs
  <2>3. Legal(Stream("hashed"), u, NULL, u)
    BY LegalIs DEF Mark
  <2> QED BY <1>1, <1>4, <1>6, <2>1, <2>2, <2>3, Marks
<1> QED BY <1>7, <1>8, <1>9

-----------------------------------------------------------------------------
(* The dedup thread, and the whole chain.                                  *)

\* What is popped is delivered, in the segment under construction or in the one returned.
LEMMA SegmentDelivers ==
  ASSUME NEW e \in Piece, Segment(e), tmp \in Seq(Piece), segments \in Seq(Seq(Piece))
  PROVE  /\ tmp' \in Seq(Piece) /\ segments' \in Seq(Seq(Piece))
         /\ delivered \in Seq(Piece)
         /\ e = NULL => delivered' = delivered
         /\ e # NULL => delivered' = Append(delivered, e)
<1>1. <<>> \in Seq(Piece) /\ <<e>> \in Seq(Piece) /\ Append(tmp, e) \in Seq(Piece)
  OBVIOUS
<1>2. \A t \in Seq(Piece) : Append(segments, t) \in Seq(Seq(Piece))
  BY Appended
<1>3. \/ e = NULL /\ segments' = Append(segments, tmp) /\ tmp' = <<>>
      \/ e # NULL /\ segments' = Append(segments, tmp) /\ tmp' = <<e>>
      \/ e # NULL /\ segments' = Append(segments, Append(tmp, e)) /\ tmp' = <<>>
      \/ e # NULL /\ segments' = segments /\ tmp' = Append(tmp, e)
  <2>1. CASE e = NULL
    <3>1. ~ClosesBefore(e) /\ ~ClosesAfter(e)
      <4>1. ~IsData(e) /\ e # FILE_END
        BY <2>1, Marks DEF IsData
      <4> QED BY <4>1 DEF ClosesBefore, ClosesAfter
    <3> QED BY <2>1, <3>1 DEF Segment
  <2>2. CASE e # NULL /\ ClosesBefore(e)
    <3>1. ~ClosesAfter(e)
      BY <2>2 DEF ClosesBefore, ClosesAfter
    <3> QED BY <2>2, <3>1 DEF Segment
  <2>3. CASE e # NULL /\ ~ClosesBefore(e) /\ ClosesAfter(e)
    BY <2>3 DEF Segment
  <2>4. CASE e # NULL /\ ~ClosesBefore(e) /\ ~ClosesAfter(e)
    BY <2>4 DEF Segment
  <2> QED BY <2>1, <2>2, <2>3, <2>4
<1>4. /\ delivered = FlattenSeq(Append(segments, tmp))
      /\ delivered' = FlattenSeq(Append(segments', tmp'))
  BY DEF delivered
<1>5. /\ FlattenSeq(Append(segments, tmp)) \in Seq(Piece)
      /\ FlattenSeq(Append(Append(segments, tmp), <<>>)) = FlattenSeq(Append(segments, tmp))
      /\ FlattenSeq(Append(Append(segments, tmp), <<e>>)) = Append(FlattenSeq(Append(segments, tmp)), e)
      /\ FlattenSeq(Append(Append(segments, Append(tmp, e)), <<>>))
           = Append(FlattenSeq(Append(segments, tmp)), e)
      /\ FlattenSeq(Append(segments, Append(tmp, e))) = Append(FlattenSeq(Append(segments, tmp)), e)
  BY DeliveredNext
<1> QED BY <1>1, <1>2, <1>3, <1>4, <1>5

\* The step of the stream from d to r: nothing new, or an element that is legal where it
\* has come to.
Further(d, r) ==
  \/ r = d
  \/ \E e \in Piece \ {NULL} : /\ r = Append(d, e)
                              /\ Legal(Stream("hashed"), ReachedIn(d), e, ReachedIn(r))

\* The dedup thread takes the stream further.
LEMMA DedupMoves ==
  ASSUME BufferInv, Balanced(delivered), tmp \in Seq(Piece), segments \in Seq(Seq(Piece)),
         NEW q \in Seq(Piece), q # <<>>, Segment(Head(q)), NEW u,
         Through(Stream("hashed"), ReachedIn(delivered), q, u)
  PROVE  /\ tmp' \in Seq(Piece) /\ segments' \in Seq(Seq(Piece))
         /\ Balanced(delivered') /\ Further(delivered, delivered')
         /\ Through(Stream("hashed"), ReachedIn(delivered'), Tail(q), u)
<1> DEFINE e == Head(q)
           d == delivered
           r == delivered'
<1>1. e \in Piece
  BY Popped
<1>2. PICK m \in Place : /\ Legal(Stream("hashed"), ReachedIn(d), e, m)
                         /\ Through(Stream("hashed"), m, Tail(q), u)
  BY ThroughPop
<1>3. Segment(e)
  OBVIOUS
<1> HIDE DEF e
<1>4. /\ tmp' \in Seq(Piece) /\ segments' \in Seq(Seq(Piece)) /\ d \in Seq(Piece)
      /\ e = NULL => r = d
      /\ e # NULL => r = Append(d, e)
  BY <1>1, <1>3, SegmentDelivers
<1> HIDE DEF d, r
<1>5. CASE e = NULL
  <2>1. m = ReachedIn(d)
    BY <1>2, <1>5, LegalIs, MarkIs, Marks
  <2> QED BY <1>2, <1>4, <1>5, <2>1 DEF d, r, Further
<1>6. CASE e # NULL
  <2>1. \/ Mark(Files, ReachedIn(d), e, m)
        \/ Hashed(Files, geometry, ReachedIn(d), e, m)
    BY <1>2, LegalIs
  <2>2. Files \in Seq(Entry)
    BY FilesAre DEF BufferInv, Types
  <2>3. Balanced(d)
    BY DEF d
  <2>4. ReachedIn(Append(d, e)) = m /\ Balanced(Append(d, e))
    BY <1>1, <1>4, <1>6, <2>1, <2>2, <2>3, ReachedNext
  <2>5. r = Append(d, e) /\ ReachedIn(r) = m /\ Balanced(r)
    BY <1>4, <1>6, <2>4
  <2>6. Further(d, r)
    BY <1>1, <1>2, <1>6, <2>5 DEF Further
  <2> QED BY <1>2, <1>4, <2>5, <2>6 DEF d, r
<1> QED BY <1>5, <1>6

\* From what is delivered back to the read thread, whatever is on its way comes next in
\* the stream of the files: popped by the dedup thread, in the queues, in the trace, in
\* the hands of the threads and in the buffer.
Chain ==
  /\ trace_queue \in Seq(Piece) /\ tmp \in Seq(Piece) /\ segments \in Seq(Seq(Piece))
  /\ Balanced(delivered)
  /\ \E u, v, h, c, x, o, r, w \in Place :
       /\ Through(Stream("hashed"), ReachedIn(delivered), trace_queue, u)
       /\ Path(Stream("lines"), u, trace, line + 1, Len(trace), v)
       /\ Through(Stream("hashed"), v, hash_queue, h)
       /\ Held(Stream("hashed"), h, hasher, c)
       /\ Through(Stream("chunks"), c, chunk_queue, x)
       /\ Held(Stream("chunks"), x, out, o)
       /\ Buffered(Files, chunker, leftbuf, o, r)
       /\ Through(Stream("blocks"), r, read_queue, w)
       /\ Reading(source, Visible, at, reading, unread, w)

\* At first nothing has been delivered.
LEMMA NothingReached ==
  /\ FlattenSeq(Append(<<>>, <<>>)) = <<>>
  /\ OpenedIn(<<>>) = 0 /\ ClosedIn(<<>>) = 0 /\ ContentOf(<<>>) = <<>>
  /\ ReachedIn(<<>>) = At(0, FALSE, 0)
<1>1. FlattenSeq(Append(<<>>, <<>>)) = <<>>
  <2>1. FlattenSeq(<<>>) = <<>>
    BY DEF FlattenSeq
  <2>2. <<>> \in Seq(Seq(Nat)) /\ <<>> \in Seq(Nat)
    OBVIOUS
  <2>3. FlattenSeq(Append(<<>>, <<>>)) = FlattenSeq(<<>>) \o <<>>
    BY <2>2, FlattenAppend
  <2>4. <<>> \o <<>> = <<>>
    OBVIOUS
  <2> QED BY <2>1, <2>3, <2>4
<1>2. OpenedIn(<<>>) = 0 /\ ClosedIn(<<>>) = 0
  <2> DEFINE none == <<>>
  <2>1. DOMAIN none = {}
    OBVIOUS
  <2>2. {i \in DOMAIN none : none[i].type = "FILE_START"} = {} /\ {i \in DOMAIN none : none[i] = FILE_END} = {}
    BY <2>1
  <2>3. Cardinality({}) = 0
    BY FS_EmptySet
  <2> QED BY <2>2, <2>3 DEF OpenedIn, ClosedIn
<1>3. ContentOf(<<>>) = <<>>
  <2> DEFINE none == <<>>
             f == [i \in 0..0 |-> <<>>]
             G == <<>>
  <2>1. Len(none) = 0 /\ Len(none) \in Nat /\ 1..0 = {} /\ 0 \in Nat
    OBVIOUS
  <2>2. f \in [0..0 -> Seq(Nat)] /\ f[0] = <<>>
    OBVIOUS
  <2> HIDE DEF none, f, G
  <2>3. /\ Len(none) \in Nat /\ f \in [0..Len(none) -> Seq(Nat)]
        /\ \A i \in 1..Len(none) : \A u \in Seq(Nat) :
             G[i][u] = IF IsData(none[i]) THEN u \o none[i].fp ELSE <<>>
    BY <2>1, <2>2
  <2>4. Iterates(G, <<>>, Len(none), f)
    BY <2>1, <2>2 DEF Iterates
  <2>5. ContentOf(none) = f[Len(none)]
    BY <2>3, <2>4, ContentIs, Zenon
  <2> QED BY <2>1, <2>2, <2>5 DEF none
<1>4. ReachedIn(<<>>) = At(0, FALSE, 0)
  <2>1. Len(<<>>) = 0
    OBVIOUS
  <2> QED BY <1>2, <1>3, <2>1 DEF ReachedIn
<1> QED BY <1>1, <1>2, <1>3, <1>4

\* The stream has come to a place.
LEMMA ReachedIsPlace ==
  ASSUME NEW t \in Seq(Piece), NEW s \in Seq(Seq(Piece))
  PROVE  ReachedIn(FlattenSeq(Append(s, t))) \in Place
<1> DEFINE d == FlattenSeq(Append(s, t))
<1>1. NULL \in Piece /\ d \in Seq(Piece)
  BY Marks, DeliveredNext
<1> HIDE DEF d
<1>2. OpenedIn(d) \in Nat /\ ContentOf(d) \in Seq(Nat)
  BY <1>1, MarksNext, ContentNext
<1>3. Len(ContentOf(d)) \in Nat
  BY <1>2
<1>4. ReachedIn(d) \in Place
  BY <1>2, <1>3, AtIs DEF ReachedIn
<1> QED BY <1>4 DEF d

\* The chain before the first step.
LEMMA InitChain == Init => Chain
<1> SUFFICES ASSUME Init PROVE Chain
  OBVIOUS
<1> DEFINE a == At(0, FALSE, 0)
<1>1. a \in Place /\ a.n = 0 /\ ~a.open /\ ~a.naming
  BY DEF At, Place
<1>2. delivered = <<>> /\ ReachedIn(delivered) = a /\ Balanced(delivered)
  BY NothingReached DEF Init, delivered, Balanced
<1> HIDE DEF a
<1>3. <<>> \in Seq(Piece) /\ <<>> \in Seq(Seq(Piece)) /\ Len(<<>>) = 0
  OBVIOUS
<1>4. \A S : Through(S, a, <<>>, a) /\ Path(S, a, <<>>, 1, 0, a) /\ Held(S, a, Nothing, a)
  <2>1. \A S : Through(S, a, <<>>, a) /\ Held(S, a, Nothing, a)
    BY <1>1, ThroughEmpty DEF Held
  <2> QED BY <1>3, <2>1 DEF Through
<1>5. Buffered(Files, chunker, leftbuf, a, a)
  <2>1. chunker.pc = "start"
    BY DEF Init
  <2> QED BY <1>1, <2>1 DEF Buffered
<1>6. Reading(source, Visible, at, reading, unread, a)
  <2>1. at = 1 /\ ~reading /\ source \in Sources
    BY DEF Init
  <2>2. Upto(Visible, 0) = 0
    BY <2>1, FilesAre, UptoStep
  <2>3. ~Unlisted(source, 1)
    <3>1. 1..1-1 = {}
      OBVIOUS
    <3> QED BY <3>1 DEF Unlisted
  <2>4. at - 1 = 0
    BY <2>1
  <2> QED BY <1>1, <2>1, <2>2, <2>3, <2>4 DEF Reading
<1>7. /\ trace_queue = <<>> /\ trace = <<>> /\ line + 1 = 1 /\ Len(trace) = 0
      /\ hash_queue = <<>> /\ hasher = Nothing /\ chunk_queue = <<>> /\ out = Nothing
      /\ read_queue = <<>> /\ tmp = <<>> /\ segments = <<>>
  BY DEF Init
<1>8. /\ Through(Stream("hashed"), ReachedIn(delivered), trace_queue, a)
      /\ Path(Stream("lines"), a, trace, line + 1, Len(trace), a)
      /\ Through(Stream("hashed"), a, hash_queue, a)
      /\ Held(Stream("hashed"), a, hasher, a)
      /\ Through(Stream("chunks"), a, chunk_queue, a)
      /\ Held(Stream("chunks"), a, out, a)
      /\ Through(Stream("blocks"), a, read_queue, a)
  BY <1>2, <1>4, <1>7
<1>9. trace_queue \in Seq(Piece) /\ tmp \in Seq(Piece) /\ segments \in Seq(Seq(Piece))
  BY <1>3, <1>7
<1> QED BY <1>1, <1>2, <1>5, <1>6, <1>8, <1>9, Zenon DEF Chain

\* The files do not change.
LEMMA SameFiles ==
  ASSUME source' = source, config' = config
  PROVE  /\ Files' = Files /\ Visible' = Visible /\ geometry' = geometry
         /\ Stream("blocks")' = Stream("blocks") /\ Stream("chunks")' = Stream("chunks")
         /\ Stream("hashed")' = Stream("hashed") /\ Stream("lines")' = Stream("lines")
<1>1. Visible' = Visible
  BY DEF Visible
<1>2. Files' = Files
  BY <1>1 DEF Files
<1>3. geometry' = geometry
  BY DEF geometry
<1> QED BY <1>1, <1>2, <1>3 DEF Stream

\* The chain after a step.
LEMMA ChainKept ==
  ASSUME source' = source, config' = config,
         trace_queue' \in Seq(Piece), tmp' \in Seq(Piece), segments' \in Seq(Seq(Piece)),
         Balanced(delivered'),
         NEW u \in Place, NEW v \in Place, NEW h \in Place, NEW c \in Place, NEW x \in Place,
         NEW o \in Place, NEW r \in Place, NEW w \in Place,
         Through(Stream("hashed"), ReachedIn(delivered'), trace_queue', u),
         Path(Stream("lines"), u, trace', line' + 1, Len(trace'), v),
         Through(Stream("hashed"), v, hash_queue', h),
         Held(Stream("hashed"), h, hasher', c),
         Through(Stream("chunks"), c, chunk_queue', x),
         Held(Stream("chunks"), x, out', o),
         Buffered(Files, chunker', leftbuf', o, r),
         Through(Stream("blocks"), r, read_queue', w),
         Reading(source, Visible, at', reading', unread', w)
  PROVE  Chain'
<1>1. /\ Through(Stream("hashed")', ReachedIn(delivered'), trace_queue', u)
      /\ Path(Stream("lines")', u, trace', line' + 1, Len(trace'), v)
      /\ Through(Stream("hashed")', v, hash_queue', h)
      /\ Held(Stream("hashed")', h, hasher', c)
      /\ Through(Stream("chunks")', c, chunk_queue', x)
      /\ Held(Stream("chunks")', x, out', o)
      /\ Buffered(Files', chunker', leftbuf', o, r)
      /\ Through(Stream("blocks")', r, read_queue', w)
      /\ Reading(source', Visible', at', reading', unread', w)
  BY SameFiles
<1> QED BY <1>1, Zenon DEF Chain

\* fastcdc is the only scan whose chunk_min_size start_chunk_phase does not compare: with
\* one above chunk_max_size, chunks would end where the buffer happens to end.
FastcdcOrdered ==
  \A c \in Configs : c.geometry.algorithm = "fastcdc" => c.geometry.min <= c.geometry.max

\* A step of a thread moves the chain at one place, and delivers an element at most.
LEMMA NextChain ==
  ASSUME FastcdcOrdered, FrontInv, Chain, Next
  PROVE  Chain' /\ Further(delivered, delivered')
<1> USE DEF FrontInv
<1>1. /\ trace_queue \in Seq(Piece) /\ tmp \in Seq(Piece) /\ segments \in Seq(Seq(Piece))
      /\ Balanced(delivered)
  BY DEF Chain
<1>2. PICK u, v, h, c, x, o, r, w \in Place :
        /\ Through(Stream("hashed"), ReachedIn(delivered), trace_queue, u)
        /\ Path(Stream("lines"), u, trace, line + 1, Len(trace), v)
        /\ Through(Stream("hashed"), v, hash_queue, h)
        /\ Held(Stream("hashed"), h, hasher, c)
        /\ Through(Stream("chunks"), c, chunk_queue, x)
        /\ Held(Stream("chunks"), x, out, o)
        /\ Buffered(Files, chunker, leftbuf, o, r)
        /\ Through(Stream("blocks"), r, read_queue, w)
        /\ Reading(source, Visible, at, reading, unread, w)
  BY Zenon DEF Chain
<1>3. ASSUME tmp' = tmp, segments' = segments
      PROVE  /\ delivered' = delivered /\ ReachedIn(delivered') = ReachedIn(delivered)
             /\ Balanced(delivered') /\ Further(delivered, delivered')
             /\ tmp' \in Seq(Piece) /\ segments' \in Seq(Seq(Piece))
  <2>1. delivered' = delivered
    BY <1>3 DEF delivered
  <2> QED BY <1>1, <1>3, <2>1 DEF Further
<1>4. CASE Read
  <2>1. /\ source' = source /\ config' = config /\ trace_queue' = trace_queue /\ trace' = trace
        /\ line' = line /\ hash_queue' = hash_queue /\ hasher' = hasher
        /\ chunk_queue' = chunk_queue /\ out' = out /\ chunker' = chunker /\ leftbuf' = leftbuf
        /\ tmp' = tmp /\ segments' = segments
    BY <1>4 DEF Read, OpenFile, ReadBlock, CloseFile, EntryGone, ReadEnds, chunkVars, traceVars,
                segVars
  <2>2. PICK z \in Place : /\ Through(Stream("blocks"), r, read_queue', z)
                           /\ Reading(source, Visible, at', reading', unread', z)
    BY <1>2, <1>4, ReadMoves
  <2>3. /\ Through(Stream("hashed"), ReachedIn(delivered'), trace_queue', u)
        /\ Path(Stream("lines"), u, trace', line' + 1, Len(trace'), v)
        /\ Through(Stream("hashed"), v, hash_queue', h)
        /\ Held(Stream("hashed"), h, hasher', c)
        /\ Through(Stream("chunks"), c, chunk_queue', x)
        /\ Held(Stream("chunks"), x, out', o)
        /\ Buffered(Files, chunker', leftbuf', o, r)
        /\ trace_queue' \in Seq(Piece)
    BY <1>1, <1>2, <1>3, <2>1
  <2> QED BY <1>3, <2>1, <2>2, <2>3, ChainKept
<1>5. CASE Cut
  <2>1. /\ source' = source /\ config' = config /\ trace_queue' = trace_queue /\ trace' = trace
        /\ line' = line /\ hash_queue' = hash_queue /\ hasher' = hasher
        /\ at' = at /\ reading' = reading /\ unread' = unread /\ tmp' = tmp /\ segments' = segments
    BY <1>5 DEF Cut, ChunkFileStart, ChunkFirst, ChunkFill, ChunkCut, ChunkFileEnd, ChunkPush,
                readVars, traceVars, segVars
  <2>2. Ordered(geometry)
    BY GeometryOrdered DEF FastcdcOrdered, BufferInv, Types
  <2>3. PICK y, p, m \in Place :
          /\ Through(Stream("chunks"), c, chunk_queue', y)
          /\ Held(Stream("chunks"), y, out', p)
          /\ Buffered(Files, chunker', leftbuf', p, m)
          /\ Through(Stream("blocks"), m, read_queue', w)
    BY <1>2, <1>5, <2>2, CutMoves
  <2>4. /\ Through(Stream("hashed"), ReachedIn(delivered'), trace_queue', u)
        /\ Path(Stream("lines"), u, trace', line' + 1, Len(trace'), v)
        /\ Through(Stream("hashed"), v, hash_queue', h)
        /\ Held(Stream("hashed"), h, hasher', c)
        /\ Reading(source, Visible, at', reading', unread', w)
        /\ trace_queue' \in Seq(Piece)
    BY <1>1, <1>2, <1>3, <2>1
  <2> QED BY <1>3, <2>1, <2>3, <2>4, ChainKept
<1>6. CASE Hash
  <2>1. /\ source' = source /\ config' = config /\ trace_queue' = trace_queue /\ trace' = trace
        /\ line' = line /\ out' = out /\ chunker' = chunker /\ leftbuf' = leftbuf
        /\ read_queue' = read_queue
        /\ at' = at /\ reading' = reading /\ unread' = unread /\ tmp' = tmp /\ segments' = segments
    BY <1>6 DEF Hash, HashPop, HashPush, readVars, chunkVars, traceVars, segVars
  <2>2. PICK k, d \in Place :
          /\ Through(Stream("hashed"), v, hash_queue', k) /\ Held(Stream("hashed"), k, hasher', d)
          /\ Through(Stream("chunks"), d, chunk_queue', x)
    BY <1>2, <1>6, HashMoves
  <2>3. /\ Through(Stream("hashed"), ReachedIn(delivered'), trace_queue', u)
        /\ Path(Stream("lines"), u, trace', line' + 1, Len(trace'), v)
        /\ Held(Stream("chunks"), x, out', o)
        /\ Buffered(Files, chunker', leftbuf', o, r)
        /\ Through(Stream("blocks"), r, read_queue', w)
        /\ Reading(source, Visible, at', reading', unread', w)
        /\ trace_queue' \in Seq(Piece)
    BY <1>1, <1>2, <1>3, <2>1
  <2> QED BY <1>3, <2>1, <2>2, <2>3, ChainKept
<1>7. ASSUME UNCHANGED <<source, config, read_queue, chunk_queue, chunker, leftbuf, out, hasher,
                         at, reading, unread>>
      PROVE  /\ Held(Stream("hashed"), h, hasher', c)
             /\ Through(Stream("chunks"), c, chunk_queue', x)
             /\ Held(Stream("chunks"), x, out', o)
             /\ Buffered(Files, chunker', leftbuf', o, r)
             /\ Through(Stream("blocks"), r, read_queue', w)
             /\ Reading(source, Visible, at', reading', unread', w)
             /\ source' = source /\ config' = config
  BY <1>2, <1>7
<1>8. CASE Trace
  <2>1. /\ UNCHANGED <<source, config, read_queue, chunk_queue, chunker, leftbuf, out, hasher,
                       at, reading, unread>>
        /\ tmp' = tmp /\ segments' = segments
    BY <1>8 DEF Trace, TraceWrite, TraceFileStart, TraceChunk, TraceEnds, readVars, chunkVars, segVars
  <2>2. CASE TraceWrite
    <3>1. trace_queue' = trace_queue /\ line' = line
      BY <2>2 DEF TraceWrite
    <3>2. PICK z \in Place : /\ Path(Stream("lines"), u, trace', line + 1, Len(trace'), z)
                             /\ Through(Stream("hashed"), z, hash_queue', h)
      BY <1>2, <2>2, WriteMoves
    <3>3. /\ Through(Stream("hashed"), ReachedIn(delivered'), trace_queue', u)
          /\ Path(Stream("lines"), u, trace', line' + 1, Len(trace'), z)
          /\ trace_queue' \in Seq(Piece)
      BY <1>1, <1>2, <1>3, <2>1, <3>1, <3>2
    <3> QED BY <1>3, <1>7, <2>1, <3>2, <3>3, ChainKept
  <2>3. CASE TraceFileStart \/ TraceChunk \/ TraceEnds
    <3>1. hash_queue' = hash_queue
      BY <2>3 DEF TraceFileStart, TraceChunk, TraceEnds
    <3>2. PICK z \in Place : /\ Through(Stream("hashed"), ReachedIn(delivered), trace_queue', z)
                             /\ Path(Stream("lines"), z, trace', line' + 1, Len(trace'), v)
      BY <1>1, <1>2, <2>3, ReaderMoves
    <3>3. trace_queue' \in Seq(Piece)
      BY <1>1, <1>2, <2>3, ReaderMoves
    <3>4. /\ Through(Stream("hashed"), ReachedIn(delivered'), trace_queue', z)
          /\ Through(Stream("hashed"), v, hash_queue', h)
      BY <1>2, <1>3, <2>1, <3>1, <3>2
    <3> QED BY <1>3, <1>7, <2>1, <3>2, <3>3, <3>4, ChainKept
  <2> QED BY <1>8, <2>2, <2>3 DEF Trace
<1>9. CASE DedupPop
  <2>1. /\ UNCHANGED <<source, config, read_queue, chunk_queue, chunker, leftbuf, out, hasher,
                       at, reading, unread>>
        /\ trace' = trace /\ line' = line /\ trace_queue' = trace_queue
        /\ ~config.trace /\ hash_queue # <<>> /\ Segment(Head(hash_queue))
        /\ hash_queue' = Tail(hash_queue)
    BY <1>9 DEF DedupPop, readVars, chunkVars, traceVars
  <2>2. trace = <<>> /\ trace_queue = <<>> /\ line = 0 /\ Len(trace) = 0
    <3>1. trace = <<>> /\ trace_queue = <<>> /\ line \in 0..Len(trace)
      BY <2>1 DEF TraceUsed, TraceInv
    <3>2. Len(<<>>) = 0
      OBVIOUS
    <3> QED BY <3>1, <3>2
  <2>3. ReachedIn(delivered) \in Place
    BY <1>1, ReachedIsPlace DEF delivered
  <2>4. u = ReachedIn(delivered) /\ v = u
    <3>1. Through(Stream("hashed"), ReachedIn(delivered), <<>>, u)
      BY <1>2, <2>2
    <3>2. Path(Stream("lines"), u, trace, 0 + 1, 0, v) /\ 0 \in Nat
      BY <1>2, <2>2
    <3> QED BY <2>3, <3>1, <3>2, ThroughEmpty, PathEmpty
  <2>5. hash_queue \in Seq(Piece) /\ Through(Stream("hashed"), ReachedIn(delivered), hash_queue, h)
    BY <1>2, <2>4 DEF FlowTypes
  <2>6. /\ tmp' \in Seq(Piece) /\ segments' \in Seq(Seq(Piece))
        /\ Balanced(delivered') /\ Further(delivered, delivered')
        /\ Through(Stream("hashed"), ReachedIn(delivered'), hash_queue', h)
    BY <1>1, <2>1, <2>5, DedupMoves
  <2> DEFINE z == ReachedIn(delivered')
  <2>7. z \in Place
    BY <2>6, ReachedIsPlace DEF delivered
  <2>8. /\ Through(Stream("hashed"), ReachedIn(delivered'), trace_queue', z)
        /\ Path(Stream("lines"), z, trace', line' + 1, Len(trace'), z)
    <3>1. Through(Stream("hashed"), z, <<>>, z) /\ Path(Stream("lines"), z, trace, 0 + 1, 0, z)
      BY <2>7, ThroughEmpty, PathEmpty
    <3> QED BY <2>1, <2>2, <3>1
  <2>9. Through(Stream("hashed"), z, hash_queue', h) /\ trace_queue' \in Seq(Piece)
    BY <1>1, <2>1, <2>6
  <2> HIDE DEF z
  <2> QED BY <1>2, <1>7, <2>1, <2>6, <2>7, <2>8, <2>9, ChainKept
<1>10. CASE DedupPopTrace
  <2>1. /\ UNCHANGED <<source, config, read_queue, chunk_queue, chunker, leftbuf, out, hasher,
                       at, reading, unread>>
        /\ trace' = trace /\ line' = line /\ hash_queue' = hash_queue
        /\ trace_queue # <<>> /\ Segment(Head(trace_queue)) /\ trace_queue' = Tail(trace_queue)
    BY <1>10 DEF DedupPopTrace, readVars, chunkVars
  <2>2. /\ tmp' \in Seq(Piece) /\ segments' \in Seq(Seq(Piece))
        /\ Balanced(delivered') /\ Further(delivered, delivered')
        /\ Through(Stream("hashed"), ReachedIn(delivered'), trace_queue', u)
    BY <1>1, <1>2, <2>1, DedupMoves
  <2>3. /\ trace_queue' \in Seq(Piece)
        /\ Path(Stream("lines"), u, trace', line' + 1, Len(trace'), v)
        /\ Through(Stream("hashed"), v, hash_queue', h)
    BY <1>1, <1>2, <2>1, Popped
  <2> QED BY <1>2, <1>7, <2>1, <2>2, <2>3, ChainKept
<1> QED BY <1>4, <1>5, <1>6, <1>8, <1>9, <1>10 DEF Next, Dedup

-----------------------------------------------------------------------------
(* The abstract specification.                                             *)

\* The algorithms of the abstract specification are those of the threads.
LEMMA SameChunking ==
  /\ Abstract!Geometry = Geometry
  /\ \A g, p : Abstract!chunking(g, p) = chunking(g, p)
<1>1. Abstract!Geometry = Geometry
  BY DEF Abstract!Geometry, Geometry, Abstract!Algorithm, Algorithm
<1>2. ASSUME NEW g, NEW p PROVE Abstract!chunking(g, p) = chunking(g, p)
  <2> DEFINE Chosen(a, short, len, fixed, ae, rabin, normalized, tttd, fastcdc) ==
               IF short THEN len
               ELSE CASE a \in {"fixed", "file"} -> fixed
                      [] a = "ae" -> ae
                      [] a = "rabin" -> rabin
                      [] a = "normalized rabin" -> normalized
                      [] a = "tttd" -> tttd
                      [] a = "fastcdc" -> fastcdc
  <2>1. chunking(g, p) =
          Chosen(g.algorithm, TooShort(g, p), Len(p), fixed_chunk_data(g, p), ae_chunk_data(g, p),
                 rabin_chunk_data(g, p), normalized_rabin_chunk_data(g, p),
                 tttd_chunk_data(g, p), fastcdc_chunk_data(g, p))
    BY Zenon DEF chunking
  <2>2. Abstract!chunking(g, p) =
          Chosen(g.algorithm, Abstract!TooShort(g, p), Len(p), Abstract!fixed_chunk_data(g, p),
                 Abstract!ae_chunk_data(g, p), Abstract!rabin_chunk_data(g, p),
                 Abstract!normalized_rabin_chunk_data(g, p), Abstract!tttd_chunk_data(g, p),
                 Abstract!fastcdc_chunk_data(g, p))
    BY Zenon DEF Abstract!chunking
  <2> HIDE DEF Chosen
  <2>3. Abstract!fixed_chunk_data(g, p) = fixed_chunk_data(g, p)
    BY Zenon DEF Abstract!fixed_chunk_data, fixed_chunk_data, Abstract!Smaller, Smaller
  <2>4. Abstract!rabin_chunk_data(g, p) = rabin_chunk_data(g, p)
    BY Zenon DEF Abstract!rabin_chunk_data, rabin_chunk_data, Abstract!Scanned, Scanned,
       Abstract!Smaller, Smaller, Abstract!Matches, Matches, Abstract!Earliest, Earliest,
       Abstract!Middle, Middle
  <2>5. Abstract!normalized_rabin_chunk_data(g, p) = normalized_rabin_chunk_data(g, p)
    BY Zenon DEF Abstract!normalized_rabin_chunk_data, normalized_rabin_chunk_data,
       Abstract!Scanned, Scanned, Abstract!Smaller, Smaller, Abstract!Matches, Matches,
       Abstract!Earliest, Earliest, Abstract!Loose, Loose, Abstract!Strict, Strict
  <2>6. Abstract!tttd_chunk_data(g, p) = tttd_chunk_data(g, p)
    BY Zenon DEF Abstract!tttd_chunk_data, tttd_chunk_data, Abstract!Scanned, Scanned,
       Abstract!Smaller, Smaller, Abstract!Matches, Matches, Abstract!Earliest, Earliest,
       Abstract!Latest, Latest, Abstract!Loose, Loose, Abstract!Middle, Middle
  <2>7. Abstract!fastcdc_chunk_data(g, p) = fastcdc_chunk_data(g, p)
    BY Zenon DEF Abstract!fastcdc_chunk_data, fastcdc_chunk_data, Abstract!Scanned, Scanned,
       Abstract!Smaller, Smaller, Abstract!Larger, Larger, Abstract!Matches, Matches,
       Abstract!Earliest, Earliest, Abstract!Loose, Loose, Abstract!Strict, Strict
  <2>8. Abstract!ae_chunk_data(g, p) = ae_chunk_data(g, p)
    BY Zenon DEF Abstract!ae_chunk_data, ae_chunk_data, Abstract!Extreme, Extreme,
       Abstract!ae_window, ae_window, Abstract!Word, Word, Abstract!Earliest, Earliest
  <2>9. Abstract!TooShort(g, p) = TooShort(g, p)
    BY Zenon DEF Abstract!TooShort, TooShort, Abstract!ae_window, ae_window, Abstract!Word, Word
  <2> QED BY <2>1, <2>2, <2>3, <2>4, <2>5, <2>6, <2>7, <2>8, <2>9, Zenon
<1> QED BY <1>1, <1>2

\* What the abstract specification sees: the files to come, whether one is open, what is
\* left of it, and what has been delivered.
ToCome == SubSeq(Files, Opened + 1, Len(Files))
IsOpen == Opened > Closed
Remaining ==
  IF Opened = Closed THEN <<>>
  ELSE SubSeq(Files[Opened].bytes, Len(Content) + 1, Len(Files[Opened].bytes))
SeenStream == [i \in DOMAIN delivered |-> Seen(delivered[i])]

\* It says where the stream has come to.
LEMMA PlaceIs ==
  ASSUME NEW d \in Seq(Piece), Balanced(d)
  PROVE  LET a == ReachedIn(d)
         IN  /\ a \in Place /\ a.n = OpenedIn(d) /\ a.off = Len(ContentOf(d))
             /\ OpenedIn(d) > ClosedIn(d) <=> a.open
             /\ OpenedIn(d) = ClosedIn(d) <=> ~a.open
<1>1. OpenedIn(d) \in Nat /\ ClosedIn(d) \in Nat /\ ContentOf(d) \in Seq(Nat)
  BY Marks, MarksNext, ContentNext
<1>2. PICK n \in Nat, off \in Nat : n = OpenedIn(d) /\ off = Len(ContentOf(d))
  <2>1. Len(ContentOf(d)) \in Nat
    BY <1>1
  <2> QED BY <1>1, <2>1
<1>3. /\ OpenedIn(d) = ClosedIn(d) => ReachedIn(d) = At(n, FALSE, off)
      /\ OpenedIn(d) # ClosedIn(d) => ReachedIn(d) = At(n, TRUE, off)
  BY <1>2 DEF ReachedIn
<1>4. At(n, FALSE, off) \in Place /\ At(n, TRUE, off) \in Place
  BY DEF At, Place
<1>5. At(n, FALSE, off).n = n /\ At(n, FALSE, off).off = off /\ ~At(n, FALSE, off).open
  BY DEF At, Place
<1>6. At(n, TRUE, off).n = n /\ At(n, TRUE, off).off = off /\ At(n, TRUE, off).open
  BY DEF At, Place
<1>7. OpenedIn(d) > ClosedIn(d) <=> OpenedIn(d) # ClosedIn(d)
  BY <1>1 DEF Balanced
<1> QED BY <1>2, <1>3, <1>4, <1>5, <1>6, <1>7

\* What is seen of one element more.
LEMMA SeenAppend ==
  ASSUME NEW d \in Seq(Piece), NEW e \in Piece
  PROVE  [i \in DOMAIN Append(d, e) |-> Seen(Append(d, e)[i])]
           = Append([i \in DOMAIN d |-> Seen(d[i])], Seen(e))
<1> DEFINE P == {Seen(x) : x \in Piece}
           r == Append(d, e)
           n == Len(d)
           p == [i \in DOMAIN d |-> Seen(d[i])]
           q == [i \in DOMAIN r |-> Seen(r[i])]
<1>1. /\ n \in Nat /\ DOMAIN d = 1..n /\ \A i \in 1..n : d[i] \in Piece
      /\ r \in Seq(Piece) /\ Len(r) = n + 1 /\ DOMAIN r = 1..n+1
      /\ r[n+1] = e /\ \A i \in 1..n : r[i] = d[i]
  <2>1. r \in Seq(Piece) /\ Len(r) = n + 1 /\ r[n+1] = e /\ \A i \in 1..n : r[i] = d[i]
    BY Appended
  <2> QED BY <2>1, LengthOf
<1> HIDE DEF n, r
<1>2. p \in Seq(P) /\ Len(p) = n /\ \A i \in 1..n : p[i] = Seen(d[i])
  BY <1>1
<1>3. Seen(e) \in P /\ \A i \in 1..n+1 : r[i] \in Piece
  BY <1>1, LengthOf
<1>4. q \in Seq(P) /\ Len(q) = n + 1 /\ \A i \in 1..n+1 : q[i] = Seen(r[i])
  BY <1>1, <1>3
<1> HIDE DEF p, q, P
<1>5. /\ Append(p, Seen(e)) \in Seq(P) /\ Len(Append(p, Seen(e))) = n + 1
      /\ \A i \in 1..n : Append(p, Seen(e))[i] = p[i]
      /\ Append(p, Seen(e))[n+1] = Seen(e)
  BY <1>2, <1>3, Appended
<1>6. ASSUME NEW i \in 1..n+1 PROVE q[i] = Append(p, Seen(e))[i]
  BY <1>1, <1>2, <1>4, <1>5
<1>7. q = Append(p, Seen(e))
  BY <1>4, <1>5, <1>6, SameSequence
<1> QED BY <1>7 DEF p, q, r

\* The next file is the first of those to come.
LEMMA NextToCome ==
  ASSUME NEW F \in Seq(Entry), NEW n \in Nat, n + 1 \in DOMAIN F
  PROVE  LET s == SubSeq(F, n + 1, Len(F))
         IN  s # <<>> /\ Head(s) = F[n+1] /\ Tail(s) = SubSeq(F, (n + 1) + 1, Len(F))
<1> DEFINE s == SubSeq(F, n + 1, Len(F))
           t == SubSeq(F, (n + 1) + 1, Len(F))
<1>1. Len(F) \in Nat /\ DOMAIN F = 1..Len(F)
  BY LengthOf
<1>2. PICK m \in Nat : Len(F) = n + 1 + m
  <2>1. Len(F) - (n + 1) \in Nat /\ Len(F) = n + 1 + (Len(F) - (n + 1))
    BY <1>1
  <2> QED BY <2>1
<1>3. s \in Seq(Entry) /\ Len(s) = m + 1 /\ \A i \in 1..m+1 : s[i] = F[n + i]
  <2>1. m + 1 \in Nat /\ n + (m + 1) <= Len(F) /\ n + (m + 1) = Len(F)
    BY <1>2
  <2>2. /\ SubSeq(F, n + 1, n + (m + 1)) \in Seq(Entry)
        /\ Len(SubSeq(F, n + 1, n + (m + 1))) = m + 1
        /\ \A i \in 1..m+1 : SubSeq(F, n + 1, n + (m + 1))[i] = F[n + i]
    BY <2>1, SubSeqIs
  <2> QED BY <2>1, <2>2
<1>4. t \in Seq(Entry) /\ Len(t) = m /\ \A i \in 1..m : t[i] = F[(n + 1) + i]
  <2>1. PICK k \in Nat : k = n + 1 /\ k + m <= Len(F) /\ k + m = Len(F)
    BY <1>2
  <2>2. k + m <= Len(F)
    BY <2>1
  <2>3. /\ SubSeq(F, k + 1, k + m) \in Seq(Entry) /\ Len(SubSeq(F, k + 1, k + m)) = m
        /\ \A i \in 1..m : SubSeq(F, k + 1, k + m)[i] = F[k + i]
    BY <2>2, SubSeqIs
  <2> QED BY <2>1, <2>3
<1> HIDE DEF s, t
<1>5. s # <<>>
  BY <1>3, LengthOf
<1>6. /\ Tail(s) \in Seq(Entry) /\ Len(Tail(s)) = Len(s) - 1 /\ Head(s) = s[1]
      /\ \A i \in 1..Len(Tail(s)) : Tail(s)[i] = s[i+1]
  BY <1>3, <1>5, Popped
<1>7. ASSUME NEW i \in 1..Len(Tail(s)) PROVE Tail(s)[i] = t[i]
  <2>1. i \in 1..m /\ i + 1 \in 1..m+1 /\ n + (i + 1) = (n + 1) + i
    BY <1>2, <1>3, <1>6
  <2> QED BY <1>3, <1>4, <1>6, <2>1
<1>8. Len(Tail(s)) = Len(t)
  BY <1>3, <1>4, <1>6
<1>9. Tail(s) = t
  BY <1>4, <1>6, <1>7, <1>8, SameSequence
<1>10. Head(s) = F[n+1]
  <2>1. 1 \in 1..m+1
    OBVIOUS
  <2> QED BY <1>3, <1>6, <2>1
<1> QED BY <1>5, <1>9, <1>10 DEF s, t

\* How the elements are seen.
LEMMA SeenIs ==
  ASSUME NEW e
  PROVE  /\ IsData(e) => Seen(e) = <<"chunk", e.fp, e.size>>
         /\ e = FILE_END => Seen(e) = <<"FILE_END">>
         /\ e.type = "FILE_START" => Seen(e) = <<"FILE_START", e.data>>
<1>1. FILE_END.type = "FILE_END"
  BY Marks
<1>2. ASSUME IsData(e) PROVE Seen(e) = <<"chunk", e.fp, e.size>>
  <2>1. e # FILE_END
    BY <1>1, <1>2 DEF IsData
  <2> QED BY <1>2, <2>1 DEF Seen
<1>3. ASSUME e = FILE_END PROVE Seen(e) = <<"FILE_END">>
  <2>1. ~IsData(e)
    BY <1>1, <1>3 DEF IsData
  <2> QED BY <1>3, <2>1 DEF Seen
<1>4. ASSUME e.type = "FILE_START" PROVE Seen(e) = <<"FILE_START", e.data>>
  <2>1. ~IsData(e) /\ e # FILE_END
    BY <1>1, <1>4 DEF IsData
  <2> QED BY <2>1 DEF Seen
<1> QED BY <1>2, <1>3, <1>4

\* The abstract state by the place that has been reached.
LEMMA ViewIs ==
  ASSUME delivered \in Seq(Piece), Balanced(delivered)
  PROVE  LET a == ReachedIn(delivered)
         IN  /\ a \in Place /\ ToCome = SubSeq(Files, a.n + 1, Len(Files)) /\ (IsOpen <=> a.open)
             /\ ~a.open => Remaining = <<>>
             /\ a.open => Remaining = Left(Files, a)
<1>1. /\ Opened = OpenedIn(delivered) /\ Closed = ClosedIn(delivered)
      /\ Content = ContentOf(delivered)
  BY Zenon DEF Opened, OpenedIn, Closed, ClosedIn, Content, ContentOf
<1> DEFINE a == ReachedIn(delivered)
<1>2. /\ a \in Place /\ a.n = OpenedIn(delivered) /\ a.off = Len(ContentOf(delivered))
      /\ OpenedIn(delivered) > ClosedIn(delivered) <=> a.open
      /\ OpenedIn(delivered) = ClosedIn(delivered) <=> ~a.open
  BY PlaceIs
<1> HIDE DEF a
<1>3. IsOpen <=> a.open
  BY <1>1, <1>2 DEF IsOpen
<1>4. ToCome = SubSeq(Files, a.n + 1, Len(Files))
  BY <1>1, <1>2 DEF ToCome
<1>5. Remaining = IF ~a.open THEN <<>> ELSE Left(Files, a)
  BY <1>1, <1>2 DEF Remaining, Left
<1> QED BY <1>2, <1>3, <1>4, <1>5 DEF a

\* It is the same after the step.
LEMMA NewViewIs ==
  ASSUME delivered' \in Seq(Piece), Balanced(delivered'), Files' = Files
  PROVE  LET b == ReachedIn(delivered')
         IN  /\ b \in Place /\ ToCome' = SubSeq(Files, b.n + 1, Len(Files)) /\ (IsOpen' <=> b.open)
             /\ ~b.open => Remaining' = <<>>
             /\ b.open => Remaining' = Left(Files, b)
<1>1. /\ Opened' = OpenedIn(delivered') /\ Closed' = ClosedIn(delivered')
      /\ Content' = ContentOf(delivered')
  BY Zenon DEF Opened, OpenedIn, Closed, ClosedIn, Content, ContentOf
<1> DEFINE b == ReachedIn(delivered')
<1>2. /\ b \in Place /\ b.n = OpenedIn(delivered') /\ b.off = Len(ContentOf(delivered'))
      /\ OpenedIn(delivered') > ClosedIn(delivered') <=> b.open
      /\ OpenedIn(delivered') = ClosedIn(delivered') <=> ~b.open
  BY PlaceIs
<1> HIDE DEF b
<1>3. IsOpen' <=> b.open
  BY <1>1, <1>2 DEF IsOpen
<1>4. ToCome' = SubSeq(Files, b.n + 1, Len(Files))
  BY <1>1, <1>2 DEF ToCome
<1>5. Remaining' = IF ~b.open THEN <<>> ELSE Left(Files, b)
  BY <1>1, <1>2 DEF Remaining, Left
<1> QED BY <1>2, <1>3, <1>4, <1>5 DEF b

\* What is delivered starts a file, is the next piece of it or ends it.
LEMMA DeliveryIsStep ==
  ASSUME BufferInv, source' = source, config' = config,
         delivered \in Seq(Piece), delivered' \in Seq(Piece),
         Balanced(delivered), Balanced(delivered'), Further(delivered, delivered')
  PROVE  [Abstract!CFNext]_<<geometry, ToCome, IsOpen, Remaining, SeenStream>>
<1> DEFINE a == ReachedIn(delivered)
           b == ReachedIn(delivered')
           F == Files
           q == ToCome
           rest == Remaining
<1>1. /\ F \in Seq(Entry) /\ F' = F /\ geometry' = geometry
  BY FilesAre, SameFiles DEF BufferInv, Types
<1>2. /\ a \in Place /\ q = SubSeq(F, a.n + 1, Len(F)) /\ (IsOpen <=> a.open)
      /\ ~a.open => rest = <<>>
      /\ a.open => rest = Left(F, a)
  BY ViewIs
<1>3. /\ b \in Place /\ q' = SubSeq(F, b.n + 1, Len(F)) /\ (IsOpen' <=> b.open)
      /\ ~b.open => rest' = <<>>
      /\ b.open => rest' = Left(F, b)
  BY <1>1, NewViewIs
<1>4. CASE delivered' = delivered
  <2>1. a = b /\ SeenStream' = SeenStream
    BY <1>4 DEF SeenStream
  <2>2. q' = q /\ rest' = rest
    BY <1>2, <1>3, <2>1
  <2>3. IsOpen' = IsOpen
    <3>1. Opened' = Opened /\ Closed' = Closed
      BY <1>4 DEF Opened, Closed
    <3> QED BY <3>1 DEF IsOpen
  <2> QED BY <1>1, <2>1, <2>2, <2>3
<1>5. CASE delivered' # delivered
  <2>1. PICK e \in Piece \ {NULL} : /\ delivered' = Append(delivered, e)
                                   /\ Legal(Stream("hashed"), a, e, b)
    BY <1>5 DEF Further
  <2>2. SeenStream' = Append(SeenStream, Seen(e))
    <3>1. [i \in DOMAIN Append(delivered, e) |-> Seen(Append(delivered, e)[i])]
            = Append([i \in DOMAIN delivered |-> Seen(delivered[i])], Seen(e))
      BY SeenAppend
    <3> QED BY <2>1, <3>1 DEF SeenStream
  <2> HIDE DEF a, b, F, q, rest
  <2>3. \A x \in Place : Inside(F, x) =>
          /\ F[x.n].bytes \in Seq(Byte) /\ Len(F[x.n].bytes) \in Nat
          /\ Left(F, x) \in Seq(Byte) /\ Len(Left(F, x)) = Len(F[x.n].bytes) - x.off
    BY <1>1, BytesAre
  <2>4. CASE e.type = "FILE_START"
    <3>1. Starts(F, a, b) /\ e = FILE_START(F[a.n + 1].name)
      BY <2>1, <2>4, LegalIs, MarkIs DEF F
    <3>2. ~a.open /\ a.n \in Nat /\ a.n + 1 \in DOMAIN F
      BY <1>2, <3>1 DEF Starts, Outside, Place
    <3>3. PICK n \in Nat : n = a.n + 1 /\ b = At(n, TRUE, 0)
      <4>1. a.n + 1 \in Nat /\ b = At(a.n + 1, TRUE, 0)
        BY <3>1, <3>2 DEF Starts
      <4> QED BY <4>1
    <3>4. b.open /\ b.n = n /\ b.off = 0
      <4>1. 0 \in Nat
        OBVIOUS
      <4>2. At(n, TRUE, 0).n = n /\ At(n, TRUE, 0).off = 0 /\ At(n, TRUE, 0).open
        BY <4>1 DEF At, Place
      <4> QED BY <3>3, <4>2
    <3>5. /\ q # <<>> /\ Head(q) = F[n] /\ Tail(q) = SubSeq(F, n + 1, Len(F))
      BY <1>1, <1>2, <3>2, <3>3, NextToCome
    <3>6. q' = Tail(q)
      BY <1>3, <3>4, <3>5
    <3>7. rest' = Head(q).bytes
      <4>1. Left(F, b) = SubSeq(F[n].bytes, 1, Len(F[n].bytes))
        BY <3>4 DEF Left
      <4>2. F[n].bytes \in Seq(Byte)
        <5>1. F[n] \in Entry
          BY <1>1, <3>2, <3>3
        <5> QED BY <5>1 DEF Entry
      <4>3. SubSeq(F[n].bytes, 1, Len(F[n].bytes)) = F[n].bytes
        BY <4>2
      <4> QED BY <1>3, <3>4, <3>5, <4>1, <4>3
    <3>8. Seen(e) = <<"FILE_START", Head(q).name>>
      <4>1. \A d : FILE_START(d).data = d
        BY DEF FILE_START, Chunk
      <4>2. e.data = Head(q).name
        BY <3>1, <3>3, <3>5, <4>1
      <4> QED BY <2>4, <4>2, SeenIs
    <3>9. ~IsOpen /\ IsOpen' = TRUE
      BY <1>2, <1>3, <3>2, <3>4 DEF IsOpen
    <3>10. SeenStream' = Append(SeenStream, <<"FILE_START", Head(q).name>>)
      BY <2>2, <3>8
    <3>11. Abstract!Start
      BY <1>1, <3>5, <3>6, <3>7, <3>9, <3>10
      DEF Abstract!Start, q, rest, ToCome, IsOpen, Remaining, SeenStream
    <3> QED BY <3>11 DEF Abstract!CFNext
  <2>5. CASE e = FILE_END
    <3>1. Finishes(F, a, b)
      BY <2>1, <2>5, LegalIs, MarkIs, Marks DEF F
    <3>2. Inside(F, a) /\ a.open /\ a.off = Len(F[a.n].bytes) /\ a.n \in Nat /\ b = At(a.n, FALSE, 0)
      BY <1>2, <3>1 DEF Finishes, Inside, Place
    <3>3. ~b.open /\ b.n = a.n
      <4>1. a.n \in Nat /\ 0 \in Nat
        BY <3>2
      <4>2. At(a.n, FALSE, 0).n = a.n /\ ~At(a.n, FALSE, 0).open
        BY <4>1 DEF At, Place
      <4> QED BY <3>2, <4>2
    <3>4. rest = <<>> /\ rest' = <<>>
      <4>1. Left(F, a) \in Seq(Byte) /\ Len(Left(F, a)) = 0
        BY <1>2, <2>3, <3>2
      <4>2. Left(F, a) = <<>>
        BY <4>1, LengthOf
      <4> QED BY <1>2, <1>3, <3>2, <3>3, <4>2
    <3>5. q' = q /\ rest' = rest
      BY <1>2, <1>3, <3>3, <3>4
    <3>6. IsOpen /\ IsOpen' = FALSE
      <4>1. IsOpen /\ ~IsOpen'
        BY <1>2, <1>3, <3>2, <3>3
      <4>2. ~(Opened' > Closed')
        BY <4>1 DEF IsOpen
      <4>3. (Opened' > Closed') = FALSE
        BY <4>2
      <4>4. IsOpen' = FALSE
        BY <4>3, Zenon DEF IsOpen
      <4> QED BY <4>1, <4>4, Zenon
    <3>7. SeenStream' = Append(SeenStream, <<"FILE_END">>)
      BY <2>2, <2>5, SeenIs
    <3>8. Abstract!End
      BY <1>1, <3>4, <3>5, <3>6, <3>7
      DEF Abstract!End, q, rest, ToCome, IsOpen, Remaining, SeenStream
    <3> QED BY <3>8 DEF Abstract!CFNext
  <2>6. CASE e.type = "data"
    <3> DEFINE p == F[a.n].bytes
    <3>1. /\ Cuts(F, geometry, a, e.size, b) /\ IsData(e) /\ e.fp = Bytes(F, a, e.size)
      BY <2>1, <2>6, LegalIs DEF F, Hashed
    <3>2. PICK n \in Nat \ {0} : n = e.size
      BY <3>1 DEF Cuts, Moves
    <3>3. /\ Inside(F, a) /\ a.open /\ a.off + n <= Len(p) /\ a.n \in Nat /\ a.off \in Nat
          /\ b = At(a.n, TRUE, a.off + n)
          /\ geometry.algorithm = "ae" \/ n = chunking(geometry, Left(F, a))
      BY <1>2, <3>1, <3>2 DEF Cuts, Moves, Inside, Place
    <3>4. /\ p \in Seq(Byte) /\ Len(p) \in Nat
          /\ Left(F, a) \in Seq(Byte) /\ Len(Left(F, a)) = Len(p) - a.off
      BY <1>2, <2>3, <3>3
    <3>5. b.open /\ b.n = a.n /\ b.off = a.off + n
      <4>1. PICK m \in Nat, k \in Nat : m = a.n /\ k = a.off + n
        BY <3>3
      <4>2. At(m, TRUE, k).n = m /\ At(m, TRUE, k).off = k /\ At(m, TRUE, k).open
        BY DEF At, Place
      <4> QED BY <3>3, <4>1, <4>2
    <3>6. rest = SubSeq(p, a.off + 1, Len(p)) /\ rest' = SubSeq(p, (a.off + n) + 1, Len(p))
      BY <1>2, <1>3, <3>3, <3>5 DEF Left
    <3>7. n \in 1..Len(rest) /\ rest # <<>>
      <4>1. rest = Left(F, a) /\ Len(rest) \in Nat
        BY <1>2, <3>3, <3>4
      <4>2. n \in 1..Len(rest)
        BY <3>3, <3>4, <4>1, SMTT(30)
      <4> QED BY <3>4, <4>1, <4>2, LengthOf
    <3>8. /\ SubSeq(rest, 1, n) = SubSeq(p, a.off + 1, a.off + n)
          /\ SubSeq(rest, n + 1, Len(rest)) = SubSeq(p, (a.off + n) + 1, Len(p))
      <4>1. p \in Seq(Byte) /\ a.off \in Nat /\ a.off <= Len(p) /\ a.off + n <= Len(p)
        BY <3>3, <3>4
      <4>2. PICK off \in Nat : off = a.off
        BY <4>1
      <4>3. rest = SubSeq(p, off + 1, Len(p)) /\ off <= Len(p) /\ off + n <= Len(p)
        BY <3>6, <4>1, <4>2
      <4> HIDE DEF p, rest
      <4>4. /\ SubSeq(rest, 1, n) = SubSeq(p, off + 1, off + n)
            /\ SubSeq(rest, n + 1, Len(rest)) = SubSeq(p, (off + n) + 1, Len(p))
        BY <4>1, <4>3, LeftOfLeft, SMTT(30)
      <4> QED BY <4>2, <4>4
    <3> HIDE DEF p
    <3>9. e.fp = SubSeq(rest, 1, n) /\ rest' = SubSeq(rest, n + 1, Len(rest))
      BY <3>1, <3>2, <3>6, <3>8 DEF Bytes, p
    <3>10. q' = q
      BY <1>2, <1>3, <3>5
    <3>11. IsOpen /\ IsOpen' = IsOpen
      BY <1>2, <1>3, <3>3, <3>5 DEF IsOpen
    <3>12. SeenStream' = Append(SeenStream, <<"chunk", SubSeq(rest, 1, n), n>>)
      BY <2>2, <3>1, <3>2, <3>9, SeenIs
    <3>13. n \in IF geometry.algorithm = "ae" THEN 1..Len(rest)
                 ELSE {Abstract!chunking(geometry, rest)}
      <4>1. geometry.algorithm = "ae" \/ n = Abstract!chunking(geometry, rest)
        BY <1>2, <3>3, SameChunking
      <4> QED BY <3>7, <4>1
    <3>14. Abstract!Piece
      BY <1>1, <3>7, <3>9, <3>10, <3>11, <3>12, <3>13, Zenon
      DEF Abstract!Piece, q, rest, ToCome, IsOpen, Remaining, SeenStream
    <3> QED BY <3>14 DEF Abstract!CFNext
  <2> QED BY <2>1, <2>4, <2>5, <2>6, LegalIs, MarkIs
<1> QED BY <1>4, <1>5

\* No step changes the tree or the configuration.
LEMMA NextSource ==
  ASSUME [Next]_vars
  PROVE  source' = source /\ config' = config
BY DEF Next, vars, Read, OpenFile, ReadBlock, CloseFile, EntryGone, ReadEnds, Cut,
       ChunkFileStart, ChunkFirst, ChunkFill, ChunkCut, ChunkFileEnd, ChunkPush, Hash, HashPop,
       HashPush, Trace, TraceWrite, TraceFileStart, TraceChunk, TraceEnds, Dedup, DedupPop,
       DedupPopTrace

\* The chain is kept, with what it says of a step.
LEMMA ChainHolds ==
  ASSUME FastcdcOrdered, FrontInv, Chain, [Next]_vars
  PROVE  Chain' /\ Further(delivered, delivered')
<1>1. CASE Next
  BY <1>1, NextChain
<1>2. CASE UNCHANGED vars
  <2>1. /\ UNCHANGED <<source, config, at, reading, unread, read_queue, chunk_queue, hash_queue,
                       trace_queue, chunker, leftbuf, out, hasher, trace, line, tmp, segments>>
    BY <1>2 DEF vars, readVars, chunkVars, traceVars, segVars
  <2>2. delivered' = delivered
    BY <2>1 DEF delivered
  <2>3. PICK u, v, h, c, x, o, r, w \in Place :
          /\ Through(Stream("hashed"), ReachedIn(delivered), trace_queue, u)
          /\ Path(Stream("lines"), u, trace, line + 1, Len(trace), v)
          /\ Through(Stream("hashed"), v, hash_queue, h)
          /\ Held(Stream("hashed"), h, hasher, c)
          /\ Through(Stream("chunks"), c, chunk_queue, x)
          /\ Held(Stream("chunks"), x, out, o)
          /\ Buffered(Files, chunker, leftbuf, o, r)
          /\ Through(Stream("blocks"), r, read_queue, w)
          /\ Reading(source, Visible, at, reading, unread, w)
    BY Zenon DEF Chain
  <2>4. /\ trace_queue' \in Seq(Piece) /\ tmp' \in Seq(Piece) /\ segments' \in Seq(Seq(Piece))
        /\ Balanced(delivered')
    BY <2>1, <2>2 DEF Chain
  <2>5. /\ Through(Stream("hashed"), ReachedIn(delivered'), trace_queue', u)
        /\ Path(Stream("lines"), u, trace', line' + 1, Len(trace'), v)
        /\ Through(Stream("hashed"), v, hash_queue', h)
        /\ Held(Stream("hashed"), h, hasher', c)
        /\ Through(Stream("chunks"), c, chunk_queue', x)
        /\ Held(Stream("chunks"), x, out', o)
        /\ Buffered(Files, chunker', leftbuf', o, r)
        /\ Through(Stream("blocks"), r, read_queue', w)
        /\ Reading(source, Visible, at', reading', unread', w)
    BY <2>1, <2>2, <2>3
  <2>6. Chain'
    BY <2>1, <2>4, <2>5, ChainKept
  <2> QED BY <2>2, <2>6 DEF Further
<1> QED BY <1>1, <1>2

\* Whatever the blocks, the queues and the trace, what the dedup thread is delivered are the
\* files of the tree one after the other, cut as if each had been read at once: start of a
\* file, its pieces, its end.  fastcdc with a minimum above the maximum, which nothing
\* refuses, would cut otherwise.
THEOREM FrontEndIsChunkedFiles ==
  ASSUME \A c \in Configs : c.geometry.algorithm = "fastcdc" => c.geometry.min <= c.geometry.max
  PROVE  Spec => ImplementsChunkedFiles
<1>1. FastcdcOrdered
  BY DEF FastcdcOrdered
<1>2. Init => Abstract!CFInit
  <2> SUFFICES ASSUME Init PROVE Abstract!CFInit
    OBVIOUS
  <2>1. geometry \in Geometry
    <3>1. config \in Configs
      BY DEF Init
    <3> QED BY <3>1, GeometryIs
  <2>2. delivered = <<>>
    BY NothingReached DEF Init, delivered
  <2>3. Opened = 0 /\ Closed = 0
    <3>1. Opened = OpenedIn(delivered) /\ Closed = ClosedIn(delivered)
      BY Zenon DEF Opened, OpenedIn, Closed, ClosedIn
    <3> QED BY <2>2, <3>1, NothingReached
  <2>4. (Opened > Closed) = FALSE
    BY <2>3
  <2>5. [i \in DOMAIN delivered |-> Seen(delivered[i])] = <<>>
    BY <2>2
  <2> QED BY <2>1, <2>3, <2>4, <2>5, SameChunking DEF Abstract!CFInit
<1>3. FrontInv /\ Chain /\ FrontInv' /\ [Next]_vars
        => Chain' /\ [Abstract!CFNext]_<<geometry, ToCome, IsOpen, Remaining, SeenStream>>
  <2> SUFFICES ASSUME FrontInv, Chain, FrontInv', [Next]_vars
               PROVE  Chain' /\ [Abstract!CFNext]_<<geometry, ToCome, IsOpen, Remaining, SeenStream>>
    OBVIOUS
  <2>1. Chain' /\ Further(delivered, delivered')
    BY <1>1, ChainHolds
  <2>2. delivered \in Seq(Piece) /\ Balanced(delivered)
    BY Marks, DeliveredNext DEF Chain, delivered
  <2>3. delivered' \in Seq(Piece) /\ Balanced(delivered')
    <3>1. tmp' \in Seq(Piece) /\ segments' \in Seq(Seq(Piece)) /\ Balanced(delivered')
      BY <2>1 DEF Chain
    <3> QED BY <3>1, Marks, DeliveredNext DEF delivered
  <2>4. source' = source /\ config' = config
    BY NextSource
  <2>5. BufferInv
    BY DEF FrontInv
  <2> QED BY <2>1, <2>2, <2>3, <2>4, <2>5, DeliveryIsStep
<1>4. FrontInv /\ Chain /\ FrontInv' /\ [Next]_vars
        => Chain' /\ [Abstract!CFNext]_<<geometry, SubSeq(Files, Opened + 1, Len(Files)),
                       Opened > Closed,
                       IF Opened = Closed THEN <<>>
                       ELSE SubSeq(Files[Opened].bytes, Len(Content) + 1, Len(Files[Opened].bytes)),
                       [i \in DOMAIN delivered |-> Seen(delivered[i])]>>
  BY <1>3 DEF ToCome, IsOpen, Remaining, SeenStream
<1> QED BY <1>2, <1>4, InitChain, SpecFront, PTL DEF Spec, ImplementsChunkedFiles, Abstract!CFSpec
=============================================================================
