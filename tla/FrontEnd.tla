------------------------------ MODULE FrontEnd ------------------------------
(***************************************************************************)
(* From a directory to segments: the read thread walks the tree and cuts   *)
(* files into blocks (read_phase.c), the chunk thread cuts the blocks of a *)
(* file into chunks (chunk_phase.c), the hash thread adds the fingerprints *)
(* (hash_phase.c) and the dedup thread groups the chunks into segments     *)
(* (segmenting_method.c).  With a trace, make_trace takes the place of the *)
(* dedup thread and writes fingerprints to a text file, and a later job    *)
(* reads them back from it (trace_phase.c).                                *)
(*                                                                         *)
(* The queues between the threads are those of module SyncQueue: bounded,  *)
(* in order, and popping NULL when terminated and empty; here the NULL is  *)
(* the last element.  A fingerprint is the content itself, byte by byte:   *)
(* SHA-1 without collisions, and of no fixed length.                       *)
(***************************************************************************)
EXTENDS Chunking, FiniteSets, SequencesExt

CONSTANTS
  Sources,      \* the trees: their entries in the order readdir and recursion give
  Configs,      \* how destor may be configured
  Capacity      \* of each queue (10, 100 and 100)

\* An entry of a tree.  An entry that is gone was listed by readdir, and stat
\* fails on it.  Directories count by the depth of their entries.
Entry == [depth : Nat, kind : {"file", "gone"}, name : Seq(Nat), bytes : Seq(Byte)]

\* segmenting is index_segment_algorithm, with its number every; segmin and segmax
\* are index_segment_min and _max.  block is DEFAULT_BLOCK_SIZE.  trace says that
\* the backup is made from a trace of the tree (SIMULATION_ALL).
Config == [geometry : Geometry, block : Nat \ {0}, trace : BOOLEAN,
           segmenting : {"fixed", "file_defined", "content_defined"},
           every : Nat \ {0}, segmin : Nat \ {0}, segmax : Nat \ {0}]

ASSUME FrontEndAssumption ==
  /\ \A s \in Sources : s \in Seq(Entry)
  /\ \A c \in Configs : c \in Config /\ Accepted(Prepared(c.geometry))
  /\ Capacity \in Nat \ {0}

\* An element of a queue.
Chunk(type, data) == [type |-> type, data |-> data, fp |-> <<>>, size |-> Len(data)]
FILE_START(name) == Chunk("FILE_START", name)
FILE_END == Chunk("FILE_END", <<>>)
NULL == Chunk("NULL", <<>>)
IsData(c) == c.type = "data"

VARIABLES
  source, config,
  at,           \* the entry find_one_file is at
  reading,      \* whether read_file has a file open
  unread,       \* what it has not read of it
  read_queue, chunk_queue, hash_queue, trace_queue,
  chunker,      \* the locals of chunk_thread: pc, c, leftoff, leftlen
  leftbuf,      \* its buffer
  out,          \* what it is about to push
  hasher,       \* what sha1_thread is about to push
  trace,        \* the lines of the trace file
  line,         \* how many of them read_trace_thread has read
  tmp,          \* the segment under construction
  segments      \* those returned by segmenting

readVars == <<at, reading, unread>>
chunkVars == <<chunker, leftbuf, out>>
traceVars == <<trace, line, trace_queue>>
segVars == <<tmp, segments>>
vars == <<source, config, readVars, read_queue, chunk_queue, hash_queue, chunkVars,
          hasher, traceVars, segVars>>

geometry == Prepared(config.geometry)
BufferSize == config.block + geometry.max

Nothing == Chunk("nothing", <<>>)

Room(queue) == Len(queue) < Capacity

Init ==
  /\ source \in Sources
  /\ config \in Configs
  /\ at = 1 /\ reading = FALSE /\ unread = <<>>
  /\ read_queue = <<>> /\ chunk_queue = <<>> /\ hash_queue = <<>> /\ trace_queue = <<>>
  /\ chunker = [pc |-> "start", c |-> Nothing, leftoff |-> 0, leftlen |-> 0]
  /\ leftbuf = [i \in 1..BufferSize |-> CHOOSE b \in Byte : TRUE]
  /\ out = Nothing /\ hasher = Nothing
  /\ trace = <<>> /\ line = 0
  /\ tmp = <<>> /\ segments = <<>>

-----------------------------------------------------------------------------
(* The read thread.                                                        *)

AtEntry == ~reading /\ at \in DOMAIN source

\* read_file opens the entry and announces it.
OpenFile ==
  /\ AtEntry /\ source[at].kind = "file" /\ Room(read_queue)
  /\ read_queue' = Append(read_queue, FILE_START(source[at].name))
  /\ reading' = TRUE
  /\ unread' = source[at].bytes
  /\ UNCHANGED <<source, config, at, chunk_queue, hash_queue, chunkVars, hasher,
                 traceVars, segVars>>

ReadBlock ==
  /\ reading /\ unread # <<>> /\ Room(read_queue)
  /\ LET n == Smaller(config.block, Len(unread)) IN
       /\ read_queue' = Append(read_queue, Chunk("data", SubSeq(unread, 1, n)))
       /\ unread' = SubSeq(unread, n+1, Len(unread))
  /\ UNCHANGED <<source, config, at, reading, chunk_queue, hash_queue, chunkVars, hasher,
                 traceVars, segVars>>

CloseFile ==
  /\ reading /\ unread = <<>> /\ Room(read_queue)
  /\ read_queue' = Append(read_queue, FILE_END)
  /\ reading' = FALSE
  /\ at' = at + 1
  /\ UNCHANGED <<source, config, unread, chunk_queue, hash_queue, chunkVars, hasher,
                 traceVars, segVars>>

\* stat fails: find_one_file returns, and the rest of this directory is not read.
EntryGone ==
  /\ AtEntry /\ source[at].kind = "gone"
  /\ at' = Earliest({i \in at+1..Len(source) : source[i].depth < source[at].depth},
                    Len(source) + 1)
  /\ UNCHANGED <<source, config, reading, unread, read_queue, chunk_queue, hash_queue,
                 chunkVars, hasher, traceVars, segVars>>

\* Mutant of ReadEnds: read_queue is not terminated.
ReadEndsSilently ==
  /\ ~reading /\ at = Len(source) + 1
  /\ at' = at + 1
  /\ UNCHANGED <<source, config, reading, unread, read_queue, chunk_queue, hash_queue,
                 chunkVars, hasher, traceVars, segVars>>

\* read_thread terminates read_queue.
ReadEnds ==
  /\ ~reading /\ at = Len(source) + 1
  /\ at' = at + 1
  /\ read_queue' = Append(read_queue, NULL)
  /\ UNCHANGED <<source, config, reading, unread, chunk_queue, hash_queue, chunkVars,
                 hasher, traceVars, segVars>>

-----------------------------------------------------------------------------
(* The chunk thread.                                                       *)

\* memcpy(leftbuf + to, data, Len(data)).
Copied(to, data) ==
  [i \in DOMAIN leftbuf |-> IF i \in to+1..to+Len(data) THEN data[i-to] ELSE leftbuf[i]]

\* Mutant of Hungry: a chunk is cut as soon as there is enough for the smallest.
HungryBelowMinimum == chunker.leftlen < geometry.min /\ chunker.c = Nothing

\* Room for more data: c == NULL and fewer than chunk_max_size bytes are left.
Hungry == chunker.leftlen < geometry.max /\ chunker.c = Nothing

ChunkFileStart ==
  /\ chunker.pc = "start" /\ out = Nothing /\ read_queue # <<>>
  /\ read_queue' = Tail(read_queue)
  /\ IF Head(read_queue) = NULL
       THEN /\ chunk_queue' = Append(chunk_queue, NULL)
            /\ chunker' = [chunker EXCEPT !.pc = "done"]
            /\ UNCHANGED out
       ELSE /\ out' = Head(read_queue)
            /\ chunker' = [chunker EXCEPT !.pc = "first"]
            /\ UNCHANGED chunk_queue
  /\ UNCHANGED <<source, config, readVars, hash_queue, leftbuf, hasher, traceVars, segVars>>

\* The first block of a file goes to the front of the buffer.
ChunkFirst ==
  /\ chunker.pc = "first" /\ out = Nothing /\ read_queue # <<>>
  /\ read_queue' = Tail(read_queue)
  /\ LET c == Head(read_queue) IN
       IF c = FILE_END
         THEN /\ chunker' = [chunker EXCEPT !.pc = "cut", !.c = c]
              /\ UNCHANGED leftbuf
         ELSE /\ chunker' = [chunker EXCEPT !.pc = "cut", !.leftlen = @ + c.size]
              /\ leftbuf' = Copied(0, c.data)
  /\ UNCHANGED <<source, config, readVars, chunk_queue, hash_queue, out, hasher, traceVars,
                 segVars>>

\* What is left moves to the front, and the next block goes behind it.
ChunkFill ==
  /\ chunker.pc = "cut" /\ out = Nothing /\ Hungry /\ read_queue # <<>>
  /\ read_queue' = Tail(read_queue)
  /\ LET c == Head(read_queue) IN
       IF c = FILE_END
         THEN /\ chunker' = [chunker EXCEPT !.c = c]
              /\ UNCHANGED leftbuf
         ELSE /\ chunker' = [chunker EXCEPT !.leftoff = 0, !.leftlen = @ + c.size]
              /\ leftbuf' = [i \in DOMAIN leftbuf |->
                               IF i <= chunker.leftlen THEN leftbuf[chunker.leftoff + i]
                               ELSE Copied(chunker.leftlen, c.data)[i]]
  /\ UNCHANGED <<source, config, readVars, chunk_queue, hash_queue, out, hasher, traceVars,
                 segVars>>

ChunkCut ==
  /\ chunker.pc = "cut" /\ out = Nothing /\ ~Hungry /\ chunker.leftlen > 0
  /\ LET left == SubSeq(leftbuf, chunker.leftoff + 1, chunker.leftoff + chunker.leftlen)
         n == chunking(geometry, left)
     IN /\ out' = Chunk("data", SubSeq(left, 1, n))
        /\ chunker' = [chunker EXCEPT !.leftoff = @ + n, !.leftlen = @ - n]
  /\ UNCHANGED <<source, config, readVars, read_queue, chunk_queue, hash_queue, leftbuf,
                 hasher, traceVars, segVars>>

\* Mutants of ChunkFileEnd: the next file starts with the offset of this one, or
\* with its FILE_END.
ChunkFileEndKeepOffset ==
  /\ chunker.pc = "cut" /\ out = Nothing /\ ~Hungry /\ chunker.leftlen = 0
  /\ out' = chunker.c
  /\ chunker' = [chunker EXCEPT !.pc = "start", !.c = Nothing]
  /\ UNCHANGED <<source, config, readVars, read_queue, chunk_queue, hash_queue, leftbuf,
                 hasher, traceVars, segVars>>
ChunkFileEndKeepMark ==
  /\ chunker.pc = "cut" /\ out = Nothing /\ ~Hungry /\ chunker.leftlen = 0
  /\ out' = chunker.c
  /\ chunker' = [chunker EXCEPT !.pc = "start", !.leftoff = 0]
  /\ UNCHANGED <<source, config, readVars, read_queue, chunk_queue, hash_queue, leftbuf,
                 hasher, traceVars, segVars>>

\* All of the file is cut: the FILE_END follows.
ChunkFileEnd ==
  /\ chunker.pc = "cut" /\ out = Nothing /\ ~Hungry /\ chunker.leftlen = 0
  /\ out' = chunker.c
  /\ chunker' = [chunker EXCEPT !.pc = "start", !.c = Nothing, !.leftoff = 0]
  /\ UNCHANGED <<source, config, readVars, read_queue, chunk_queue, hash_queue, leftbuf,
                 hasher, traceVars, segVars>>

ChunkPush ==
  /\ out # Nothing /\ Room(chunk_queue)
  /\ chunk_queue' = Append(chunk_queue, out)
  /\ out' = Nothing
  /\ UNCHANGED <<source, config, readVars, read_queue, hash_queue, chunker, leftbuf, hasher,
                 traceVars, segVars>>

-----------------------------------------------------------------------------
(* The hash thread.                                                        *)

HashPop ==
  /\ hasher = Nothing /\ chunk_queue # <<>>
  /\ chunk_queue' = Tail(chunk_queue)
  /\ LET c == Head(chunk_queue) IN
       IF c = NULL
         THEN hash_queue' = Append(hash_queue, NULL) /\ UNCHANGED hasher
         ELSE /\ hasher' = IF IsData(c) THEN [c EXCEPT !.fp = c.data] ELSE c
              /\ UNCHANGED hash_queue
  /\ UNCHANGED <<source, config, readVars, read_queue, chunkVars, traceVars, segVars>>

HashPush ==
  /\ hasher # Nothing /\ Room(hash_queue)
  /\ hash_queue' = Append(hash_queue, hasher)
  /\ hasher' = Nothing
  /\ UNCHANGED <<source, config, readVars, read_queue, chunk_queue, chunkVars, traceVars,
                 segVars>>

-----------------------------------------------------------------------------
(* The trace of a tree, and the job that reads it.                         *)

\* Two characters for every byte: 0 to 9 are 48 to 57, A to F 65 to 70.
HexDigit(d) == IF d < 10 THEN d + 48 ELSE d + 55
hash2code(hash) ==
  [k \in 1..2*Len(hash) |-> HexDigit(IF k % 2 = 1 THEN hash[(k+1) \div 2] \div 16
                                     ELSE hash[k \div 2] % 16)]

\* Lower-case digits count as well, and everything else as a decimal digit.
HexValue(a) == IF a \in 65..70 THEN a - 55 ELSE IF a \in 97..102 THEN a - 87 ELSE a - 48
code2hash(code) ==
  [i \in 1..Len(code) \div 2 |-> (HexValue(code[2*i-1]) * 16 + HexValue(code[2*i])) % 256]

StreamEnd == <<"stream_end">>
Lines(c) ==
  CASE c = NULL -> <<StreamEnd>>
    [] c.type = "FILE_START" -> << <<"file_start", c.size>>, <<"name", c.data>> >>
    [] c.type = "FILE_END" -> << <<"file_end">> >>
    [] OTHER -> << <<"chunk", hash2code(c.fp), c.size>> >>

TraceWrite ==
  /\ config.trace /\ hash_queue # <<>>
  /\ hash_queue' = Tail(hash_queue)
  /\ trace' = trace \o Lines(Head(hash_queue))
  /\ UNCHANGED <<source, config, readVars, read_queue, chunk_queue, chunkVars, hasher, line,
                 trace_queue, segVars>>

\* The backup job: its trace is complete.
TraceReader == trace # <<>> /\ Last(trace) = StreamEnd /\ line < Len(trace)
TraceInFile == line > 0 /\ Head(trace[line]) \in {"name", "chunk"}
NextLine == trace[line + 1]

TraceFileStart ==
  /\ TraceReader /\ ~TraceInFile /\ NextLine # StreamEnd /\ Room(trace_queue)
  /\ trace_queue' = Append(trace_queue, FILE_START(SubSeq(trace[line+2][2], 1, NextLine[2])))
  /\ line' = line + 2
  /\ UNCHANGED <<source, config, readVars, read_queue, chunk_queue, hash_queue, chunkVars,
                 hasher, trace, segVars>>

\* A chunk of a trace has a fingerprint and a size, and no data.
TraceChunk ==
  /\ TraceReader /\ TraceInFile /\ Room(trace_queue)
  /\ trace_queue' =
       Append(trace_queue,
              IF Head(NextLine) = "file_end" THEN FILE_END
              ELSE [type |-> "data", data |-> <<>>, fp |-> code2hash(NextLine[2]),
                    size |-> NextLine[3]])
  /\ line' = line + 1
  /\ UNCHANGED <<source, config, readVars, read_queue, chunk_queue, hash_queue, chunkVars,
                 hasher, trace, segVars>>

TraceEnds ==
  /\ TraceReader /\ ~TraceInFile /\ NextLine = StreamEnd
  /\ trace_queue' = Append(trace_queue, NULL)
  /\ line' = line + 1
  /\ UNCHANGED <<source, config, readVars, read_queue, chunk_queue, hash_queue, chunkVars,
                 hasher, trace, segVars>>

-----------------------------------------------------------------------------
(* Segmenting.                                                             *)

\* The places of the chunks in a segment, and chunk_num.
DataAt(s) == {i \in DOMAIN s : IsData(s[i])}
ChunkNum(s) == Cardinality(DataAt(s))

\* Four bytes of the fingerprint decide; here the last one does.
Anchor(c) == Last(c.fp) % config.every = 0

\* The segment under construction is returned without c, which starts the next.
ClosesBefore(c) ==
  /\ config.segmenting = "content_defined" /\ IsData(c)
  /\ ChunkNum(tmp) >= config.segmin /\ Anchor(c)

\* Mutant of ClosesAfter: one chunk more than index_segment_max.
ClosesAfterTooLate(c) ==
  CASE config.segmenting = "fixed" -> IsData(c) /\ ChunkNum(tmp) + 1 = config.every
    [] config.segmenting = "file_defined" -> c = FILE_END
    [] OTHER -> /\ IsData(c) /\ ChunkNum(tmp) >= config.segmin /\ ~Anchor(c)
                /\ ChunkNum(tmp) >= config.segmax

\* It is returned with c.
ClosesAfter(c) ==
  CASE config.segmenting = "fixed" -> IsData(c) /\ ChunkNum(tmp) + 1 = config.every
    [] config.segmenting = "file_defined" -> c = FILE_END
    [] OTHER -> /\ IsData(c) /\ ChunkNum(tmp) >= config.segmin /\ ~Anchor(c)
                /\ ChunkNum(tmp) + 1 >= config.segmax

\* Without a boundary the dedup thread asks for the next chunk.
Segment(c) ==
  CASE c = NULL -> segments' = Append(segments, tmp) /\ tmp' = <<>>
    [] ClosesBefore(c) -> segments' = Append(segments, tmp) /\ tmp' = <<c>>
    [] ClosesAfter(c) -> segments' = Append(segments, Append(tmp, c)) /\ tmp' = <<>>
    [] OTHER -> tmp' = Append(tmp, c) /\ UNCHANGED segments

DedupPop ==
  /\ ~config.trace /\ hash_queue # <<>>
  /\ Segment(Head(hash_queue))
  /\ hash_queue' = Tail(hash_queue)
  /\ UNCHANGED <<source, config, readVars, read_queue, chunk_queue, chunkVars, hasher,
                 traceVars>>

DedupPopTrace ==
  /\ config.trace /\ trace_queue # <<>>
  /\ Segment(Head(trace_queue))
  /\ trace_queue' = Tail(trace_queue)
  /\ UNCHANGED <<source, config, readVars, read_queue, chunk_queue, hash_queue, chunkVars,
                 hasher, trace, line>>

-----------------------------------------------------------------------------

Read == OpenFile \/ ReadBlock \/ CloseFile \/ EntryGone \/ ReadEnds
Cut == ChunkFileStart \/ ChunkFirst \/ ChunkFill \/ ChunkCut \/ ChunkFileEnd \/ ChunkPush
Hash == HashPop \/ HashPush
Trace == TraceWrite \/ TraceFileStart \/ TraceChunk \/ TraceEnds
Dedup == DedupPop \/ DedupPopTrace

Next == Read \/ Cut \/ Hash \/ Trace \/ Dedup

\* A thread goes on while it does not wait for a queue.
Spec == Init /\ [][Next]_vars /\ WF_vars(Read) /\ WF_vars(Cut) /\ WF_vars(Hash)
             /\ WF_vars(Trace) /\ WF_vars(Dedup)

-----------------------------------------------------------------------------
(* Properties.                                                             *)

\* The types of the variables.
TypeOK ==
  /\ source \in Sources /\ config \in Configs
  /\ at \in 1..Len(source)+2 /\ reading \in BOOLEAN /\ unread \in Seq(Byte)
  /\ chunker.pc \in {"start", "first", "cut", "done"}
  /\ chunker.c \in {Nothing, FILE_END}
  /\ chunker.leftoff \in Nat /\ chunker.leftlen \in Nat
  /\ leftbuf \in [1..BufferSize -> Byte]
  /\ line \in 0..Len(trace)

\* chunk_thread never writes past the block and the chunk it allocated leftbuf
\* for: memcpy puts a whole block behind what is left of the one before it.
LeftBufferFits == chunker.leftoff + chunker.leftlen <= BufferSize

\* The assertions of chunk_thread and read_trace_thread: between two files comes
\* a FILE_START or the end.
AssertionsHold ==
  /\ (chunker.pc = "start" /\ out = Nothing /\ read_queue # <<>>)
        => Head(read_queue).type \in {"FILE_START", "NULL"}
  /\ (TraceReader /\ ~TraceInFile) => Head(NextLine) \in {"file_start", "stream_end"}

\* The assertions hold, and the phases are what their types say.
StateSound == TypeOK /\ AssertionsHold

\* The dedup thread has popped the NULL.
Ended ==
  /\ chunker.pc = "done" /\ hasher = Nothing /\ line = Len(trace)
  /\ read_queue = <<>> /\ chunk_queue = <<>> /\ hash_queue = <<>> /\ trace_queue = <<>>

\* No chunk beyond the first index_segment_min is an anchor.
NoAnchor(s) ==
  \A i \in DataAt(s) : Cardinality(DataAt(s) \cap 1..i) > config.segmin => ~Anchor(s[i])

\* A segment s before next is as its algorithm promises: a fixed number of chunks,
\* the chunks of one file, or at least index_segment_min chunks up to the next anchor
\* or index_segment_max.
AsConfigured(s, next) ==
  CASE config.segmenting = "fixed" -> ChunkNum(s) = config.every /\ IsData(Last(s))
    [] config.segmenting = "file_defined" -> {i \in DOMAIN s : s[i] = FILE_END} = {Len(s)}
    [] OTHER ->
         /\ ChunkNum(s) \in config.segmin .. Larger(config.segmin + 1, config.segmax)
         /\ NoAnchor(s)
         /\ \/ next # <<>> /\ IsData(next[1]) /\ Anchor(next[1])
            \/ IsData(Last(s)) /\ ChunkNum(s) >= config.segmax

\* All segments but the last are.
SegmentsAsConfigured ==
  \A k \in DOMAIN segments :
    \/ Ended /\ k = Len(segments)
    \/ AsConfigured(segments[k], IF k < Len(segments) THEN segments[k+1] ELSE tmp)

\* destor.config:33, "the average/maximal/minmal chunk size": no chunk is larger than
\* chunk_max_size, the size of the buffer zeros it is compared with.
MaximalChunkSize == IsData(out) => out.size <= geometry.max

\* It holds but for AE, which looks for an extreme as far as the bytes at hand reach,
\* and where chunk_min_size is the larger one.
ChunkSizeBounded ==
  (geometry.algorithm # "ae" /\ geometry.min <= geometry.max) => MaximalChunkSize

\* Chunks and segments have the sizes that were configured.
SizesAsConfigured == ChunkSizeBounded /\ SegmentsAsConfigured

-----------------------------------------------------------------------------
(* Whatever the blocks, the queues and the trace, what reaches the dedup   *)
(* thread is the files one after the other, cut as if each had been read   *)
(* at once.                                                                *)

delivered == FlattenSeq(Append(segments, tmp))

\* Those find_one_file comes to: no entry is gone before them in their directory or
\* in one above it.
Visible ==
  {i \in DOMAIN source : /\ source[i].kind = "file"
                         /\ \A g \in 1..i-1 : source[g].kind = "gone" =>
                              \E k \in g+1..i : source[k].depth < source[g].depth}
Files ==
  [n \in 1..Cardinality(Visible) |->
     source[CHOOSE i \in Visible : Cardinality({v \in Visible : v <= i}) = n]]

Opened == Cardinality({i \in DOMAIN delivered : delivered[i].type = "FILE_START"})
Closed == Cardinality({i \in DOMAIN delivered : delivered[i] = FILE_END})

\* What was delivered of the file that is open.
Content ==
  LET content[i \in 0..Len(delivered)] ==
        IF i > 0 /\ IsData(delivered[i]) THEN content[i-1] \o delivered[i].fp ELSE <<>>
  IN content[Len(delivered)]

Seen(c) == CASE IsData(c) -> <<"chunk", c.fp, c.size>>
             [] c = FILE_END -> <<"FILE_END">>
             [] OTHER -> <<"FILE_START", c.data>>

Abstract == INSTANCE ChunkedFiles WITH
  geometry <- geometry,
  files <- SubSeq(Files, Opened + 1, Len(Files)),
  open <- Opened > Closed,
  rest <- IF Opened = Closed THEN <<>>
          ELSE SubSeq(Files[Opened].bytes, Len(Content) + 1, Len(Files[Opened].bytes)),
  stream <- [i \in DOMAIN delivered |-> Seen(delivered[i])]

\* It implements the abstract specification of a chunked stream.
ImplementsChunkedFiles == Abstract!CFSpec

\* Every file is delivered whole, and the dedup phase comes to its end.
AllDelivered == <>(Ended /\ Closed = Len(Files))
=============================================================================
