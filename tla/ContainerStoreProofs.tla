------------------------ MODULE ContainerStoreProofs ------------------------
(***************************************************************************)
(* The container store loses and overwrites nothing, for any number of     *)
(* containers, any capacity of container_buffer and any number of          *)
(* sessions, with and without crashes.                                     *)
(***************************************************************************)
EXTENDS ContainerStore, TLAPS

\* The counter is ahead of every container handed over, and the container at
\* hand has the last id it gave out.
IdsInv ==
  /\ \A id \in DOMAIN handed : id < count
  /\ buf # NoContainer /\ filter # "ended" =>
       /\ count = buf.id + 1
       /\ header <= buf.id
       /\ buf.id \notin DOMAIN handed
  /\ store = "closed" => header = count
  /\ header <= count

\* The queue holds containers as they were handed over, and append_thread
\* works on its head.
QueueInv ==
  /\ \A i \in 1..Len(queue) : /\ queue[i].id \in DOMAIN handed
                              /\ handed[queue[i].id] = queue[i].fps
  /\ appender \in {"write", "pop"} => queue # <<>> /\ top = queue[1]
  /\ appender = "ended" => queue = <<>> /\ store \in {"terminated", "closed"}
  /\ appender = "pop" => pool[top.id] = top.fps
  /\ store \in {"index_saved", "terminated", "closed"} => filter = "ended"
  /\ store = "closed" => appender = "ended"

\* What a clean close has covered is in the pool.
HeaderInv ==
  \A id \in DOMAIN handed : id < header => pool[id] = handed[id]

\* The filter phase starts to hand over only if the model has an id left.
BoundInv == filter = "hand_over" => buf # NoContainer /\ count < MaxContainers
LastInv == filter = "hand_over_last" => buf # NoContainer

\* The inductive invariant.
IInv == /\ TypeOK /\ BufferedOrWritten /\ IdsInv /\ QueueInv /\ HeaderInv
        /\ BoundInv /\ LastInv

-----------------------------------------------------------------------------
\* The store as a fresh installation finds it.
LEMMA InitIInv == Init => IInv
<1> SUFFICES ASSUME Init PROVE IInv
  OBVIOUS
<1>1. torn \in BOOLEAN
  BY DEF Init
<1>2. TypeOK
  BY <1>1, StoreAssumption DEF Init, TypeOK, Nothing, Unwritten, Ids
<1>3. BufferedOrWritten /\ IdsInv /\ QueueInv /\ HeaderInv /\ BoundInv /\ LastInv
  BY DEF Init, BufferedOrWritten, IdsInv, QueueInv, HeaderInv, BoundInv, LastInv, Nothing
<1> QED BY <1>2, <1>3 DEF IInv

-----------------------------------------------------------------------------
\* A chunk goes into the container at hand.
LEMMA AddChunkKeepsIInv ==
  ASSUME IInv, NEW fp \in FP, AddChunk(fp)
  PROVE  IInv'
<1> USE StoreAssumption DEF IInv, AddChunk
<1>1. /\ buf' \in Containers
      /\ count' \in 0..MaxContainers
  <2>1. CASE buf = NoContainer
    BY <2>1 DEF TypeOK, NewContainer, Containers, Ids
  <2>2. CASE buf # NoContainer
    BY <2>2 DEF TypeOK, Containers
  <2> QED BY <2>1, <2>2
<1>2. TypeOK'
  BY <1>1 DEF TypeOK, diskVars, dedupVars, appendVars
<1>3. BufferedOrWritten' /\ HeaderInv' /\ BoundInv' /\ LastInv' /\ QueueInv'
  BY DEF BufferedOrWritten, HeaderInv, BoundInv, LastInv, QueueInv, diskVars, appendVars
<1>4. IdsInv'
  <2>1. CASE buf = NoContainer
    BY <2>1 DEF IdsInv, QueueInv, TypeOK, NewContainer, diskVars, Ids
  <2>2. CASE buf # NoContainer
    <3>1. buf'.id = buf.id /\ count' = count
      BY <2>2 DEF TypeOK, Containers
    <3> QED BY <2>2, <3>1 DEF IdsInv, QueueInv, TypeOK, diskVars
  <2> QED BY <2>1, <2>2
<1> QED BY <1>2, <1>3, <1>4

\* What a hand-over does to the queue and to the history: the container is in
\* the queue, and nothing that was handed over before changes.
LEMMA HandOverKeeps ==
  ASSUME IInv, HandOver(buf), buf # NoContainer, filter # "ended",
         UNCHANGED <<pool, appender, top, header>>
  PROVE  /\ queue' \in Seq(Containers)
         /\ DOMAIN handed' = DOMAIN handed \cup {buf.id}
         /\ DOMAIN handed' \subseteq Ids
         /\ \A id \in DOMAIN handed' : handed'[id] \in SUBSET FP
         /\ BufferedOrWritten'
         /\ HeaderInv'
         /\ \A i \in 1..Len(queue') : /\ queue'[i].id \in DOMAIN handed'
                                      /\ handed'[queue'[i].id] = queue'[i].fps
         /\ appender' \in {"write", "pop"} => queue' # <<>> /\ top' = queue'[1]
<1> USE StoreAssumption DEF IInv, HandOver
<1>1. buf \in Containers /\ buf.id \in Ids /\ buf.fps \in SUBSET FP
  BY DEF TypeOK, Containers
<1>2. buf.id \notin DOMAIN handed
  BY DEF IdsInv
<1>3. /\ queue' \in Seq(Containers)
      /\ Len(queue') = Len(queue) + 1
      /\ queue'[Len(queue) + 1] = buf
      /\ \A i \in 1..Len(queue) : queue'[i] = queue[i]
  BY <1>1 DEF TypeOK
<1>4. /\ DOMAIN handed' = DOMAIN handed \cup {buf.id}
      /\ handed'[buf.id] = buf.fps
      /\ \A id \in DOMAIN handed : handed'[id] = handed[id]
  BY <1>2
<1>5. /\ DOMAIN handed' \subseteq Ids
      /\ \A id \in DOMAIN handed' : handed'[id] \in SUBSET FP
  BY <1>1, <1>4 DEF TypeOK
<1>6. \A i \in 1..Len(queue') : /\ queue'[i].id \in DOMAIN handed'
                                /\ handed'[queue'[i].id] = queue'[i].fps
  <2> SUFFICES ASSUME NEW i \in 1..Len(queue')
               PROVE  /\ queue'[i].id \in DOMAIN handed'
                      /\ handed'[queue'[i].id] = queue'[i].fps
    OBVIOUS
  <2>0. Len(queue) \in Nat
    BY DEF TypeOK
  <2>1. CASE i = Len(queue) + 1
    BY <2>1, <1>3, <1>4
  <2>2. CASE i \in 1..Len(queue)
    BY <2>2, <1>3, <1>4 DEF QueueInv
  <2> QED BY <2>0, <2>1, <2>2, <1>3
<1>7. BufferedOrWritten'
  <2> SUFFICES ASSUME NEW id \in DOMAIN handed'
               PROVE  \/ \E i \in DOMAIN queue' : queue'[i] = [id |-> id, fps |-> handed'[id]]
                      \/ pool'[id] = handed'[id]
    BY DEF BufferedOrWritten
  <2>0. /\ DOMAIN queue = 1..Len(queue) /\ DOMAIN queue' = 1..Len(queue')
        /\ Len(queue) \in Nat
    BY <1>3 DEF TypeOK
  <2>1. CASE id = buf.id
    <3>1. buf = [id |-> id, fps |-> handed'[id]]
      BY <2>1, <1>1, <1>4 DEF Containers
    <3>2. queue'[Len(queue) + 1] = [id |-> id, fps |-> handed'[id]]
      BY <3>1, <1>3
    <3>3. Len(queue) + 1 \in DOMAIN queue'
      BY <2>0, <1>3
    <3> QED BY <3>2, <3>3
  <2>2. CASE id \in DOMAIN handed
    BY <2>2, <2>0, <1>3, <1>4 DEF BufferedOrWritten
  <2> QED BY <2>1, <2>2, <1>4
<1>8. HeaderInv'
  <2>1. ~(buf.id < header)
    BY <1>1 DEF IdsInv, TypeOK, Ids
  <2> QED BY <2>1, <1>4 DEF HeaderInv
<1>9. appender' \in {"write", "pop"} => queue' # <<>> /\ top' = queue'[1]
  BY <1>3 DEF QueueInv, TypeOK
<1> QED BY <1>3, <1>4, <1>5, <1>6, <1>7, <1>8, <1>9

\* A full container is handed over and the next one takes the chunk.
LEMMA HandOverFullKeepsIInv ==
  ASSUME IInv, HandOverFull
  PROVE  IInv'
<1> USE StoreAssumption DEF HandOverFull, diskVars, dedupVars, appendVars
<1>1. buf # NoContainer /\ count < MaxContainers /\ buf.id \in Ids
  BY DEF IInv, BoundInv, TypeOK, Containers
<1>2. /\ queue' \in Seq(Containers)
      /\ DOMAIN handed' = DOMAIN handed \cup {buf.id}
      /\ DOMAIN handed' \subseteq Ids
      /\ \A id \in DOMAIN handed' : handed'[id] \in SUBSET FP
      /\ BufferedOrWritten'
      /\ HeaderInv'
      /\ \A i \in 1..Len(queue') : /\ queue'[i].id \in DOMAIN handed'
                                   /\ handed'[queue'[i].id] = queue'[i].fps
      /\ appender' \in {"write", "pop"} => queue' # <<>> /\ top' = queue'[1]
  BY <1>1, HandOverKeeps
<1>3. /\ buf' \in Containers /\ buf'.id = count
      /\ count' = count + 1 /\ count' \in 0..MaxContainers
  BY <1>1 DEF IInv, TypeOK, NewContainer, Containers, Ids
<1>4. TypeOK'
  BY <1>2, <1>3 DEF IInv, TypeOK
<1>5. IdsInv'
  BY <1>1, <1>2, <1>3 DEF IInv, IdsInv, TypeOK, QueueInv, Ids
<1>6. QueueInv'
  BY <1>2 DEF IInv, QueueInv
<1>7. BoundInv' /\ LastInv'
  BY DEF BoundInv, LastInv
<1> QED BY <1>2, <1>4, <1>5, <1>6, <1>7 DEF IInv

\* The last container is handed over.
LEMMA HandOverLastKeepsIInv ==
  ASSUME IInv, HandOverLast
  PROVE  IInv'
<1> USE StoreAssumption DEF HandOverLast, diskVars, dedupVars, appendVars
<1>1. buf # NoContainer /\ buf.id \in Ids
  BY DEF IInv, LastInv, TypeOK, Containers
<1>2. /\ queue' \in Seq(Containers)
      /\ DOMAIN handed' = DOMAIN handed \cup {buf.id}
      /\ DOMAIN handed' \subseteq Ids
      /\ \A id \in DOMAIN handed' : handed'[id] \in SUBSET FP
      /\ BufferedOrWritten'
      /\ HeaderInv'
      /\ \A i \in 1..Len(queue') : /\ queue'[i].id \in DOMAIN handed'
                                   /\ handed'[queue'[i].id] = queue'[i].fps
      /\ appender' \in {"write", "pop"} => queue' # <<>> /\ top' = queue'[1]
  BY <1>1, HandOverKeeps
<1>3. TypeOK'
  BY <1>2 DEF IInv, TypeOK
<1>4. IdsInv'
  BY <1>1, <1>2 DEF IInv, IdsInv, TypeOK, QueueInv, Ids
<1>5. QueueInv'
  BY <1>2 DEF IInv, QueueInv
<1>6. BoundInv' /\ LastInv'
  BY DEF BoundInv, LastInv
<1> QED BY <1>2, <1>3, <1>4, <1>5, <1>6 DEF IInv

-----------------------------------------------------------------------------
\* append_thread looks at the head, or finds the queue terminated and empty.
LEMMA AppendGetTopKeepsIInv ==
  ASSUME IInv, AppendGetTop
  PROVE  IInv'
<1> USE StoreAssumption DEF IInv, AppendGetTop, filterVars, diskVars, dedupVars
<1>1. queue # <<>> => Head(queue) \in Containers /\ Head(queue) = queue[1]
  BY DEF TypeOK
<1>2. TypeOK'
  BY <1>1 DEF TypeOK
<1>3. BufferedOrWritten' /\ HeaderInv' /\ BoundInv' /\ LastInv' /\ IdsInv'
  BY DEF BufferedOrWritten, HeaderInv, BoundInv, LastInv, IdsInv
<1>4. QueueInv'
  BY <1>1 DEF QueueInv
<1> QED BY <1>2, <1>3, <1>4

\* The head of the queue is written where it belongs.
LEMMA AppendWriteKeepsIInv ==
  ASSUME IInv, AppendWrite
  PROVE  IInv' /\ \A id \in Ids : id < header => pool'[id] = pool[id]
<1> USE StoreAssumption DEF IInv, AppendWrite, filterVars, dedupVars
<1>1. queue # <<>> /\ top = queue[1] /\ top \in Containers /\ Len(queue) \in Nat \ {0}
  BY DEF QueueInv, TypeOK
<1>2. /\ top.id \in Ids /\ top.fps \in SUBSET FP
      /\ top.id \in DOMAIN handed /\ handed[top.id] = top.fps
  BY <1>1 DEF QueueInv, Containers
<1>3. /\ pool' \in [Ids -> SUBSET FP]
      /\ pool'[top.id] = top.fps
      /\ \A id \in Ids : id # top.id => pool'[id] = pool[id]
  BY <1>2 DEF TypeOK
<1>4. TypeOK'
  BY <1>3 DEF TypeOK
<1>5. \A id \in DOMAIN handed : pool[id] = handed[id] => pool'[id] = handed[id]
  BY <1>2, <1>3 DEF TypeOK
<1>6. BufferedOrWritten' /\ HeaderInv'
  BY <1>5 DEF BufferedOrWritten, HeaderInv
<1>7. BoundInv' /\ LastInv' /\ IdsInv'
  BY DEF BoundInv, LastInv, IdsInv
<1>8. QueueInv'
  BY <1>1, <1>3 DEF QueueInv
<1>9. \A id \in Ids : id < header => pool'[id] = pool[id]
  BY <1>2, <1>3 DEF HeaderInv
<1> QED BY <1>4, <1>6, <1>7, <1>8, <1>9

\* The head of the queue, which is in the pool by now, leaves the queue.
LEMMA AppendPopKeepsIInv ==
  ASSUME IInv, AppendPop
  PROVE  IInv'
<1> USE StoreAssumption DEF IInv, AppendPop, filterVars, diskVars, dedupVars
<1>1. /\ queue # <<>> /\ top = queue[1] /\ Len(queue) \in Nat \ {0}
      /\ pool[top.id] = top.fps
      /\ top.id \in DOMAIN handed /\ handed[top.id] = top.fps
  BY DEF QueueInv, TypeOK
<1>2. /\ queue' \in Seq(Containers)
      /\ Len(queue') = Len(queue) - 1
      /\ \A i \in 1..Len(queue') : queue'[i] = queue[i + 1]
  BY <1>1 DEF TypeOK
<1>3. TypeOK'
  BY <1>2 DEF TypeOK
<1>4. BufferedOrWritten'
  <2> SUFFICES ASSUME NEW id \in DOMAIN handed, pool[id] # handed[id]
               PROVE  \E i \in DOMAIN queue' : queue'[i] = [id |-> id, fps |-> handed[id]]
    BY DEF BufferedOrWritten
  <2>1. PICK j \in DOMAIN queue : queue[j] = [id |-> id, fps |-> handed[id]]
    BY DEF BufferedOrWritten
  <2>2. j \in 1..Len(queue) /\ j # 1
    BY <2>1, <1>1 DEF TypeOK
  <2>3. j - 1 \in 1..Len(queue') /\ queue'[j - 1] = queue[j]
    BY <2>2, <1>2, <1>1
  <2>4. DOMAIN queue' = 1..Len(queue')
    BY <1>2
  <2> QED BY <2>1, <2>3, <2>4
<1>5. HeaderInv' /\ BoundInv' /\ LastInv' /\ IdsInv'
  BY DEF HeaderInv, BoundInv, LastInv, IdsInv
<1>6. QueueInv'
  <2> SUFFICES ASSUME NEW i \in 1..Len(queue')
               PROVE  /\ queue'[i].id \in DOMAIN handed
                      /\ handed[queue'[i].id] = queue'[i].fps
    BY DEF QueueInv
  <2>1. i + 1 \in 1..Len(queue)
    BY <1>1, <1>2
  <2> QED BY <2>1, <1>2 DEF QueueInv
<1> QED BY <1>3, <1>4, <1>5, <1>6

-----------------------------------------------------------------------------
\* The counter is saved after append_thread has written everything.
LEMMA CloseKeepsIInv ==
  ASSUME IInv, Close
  PROVE  IInv' /\ header' >= header
<1> USE StoreAssumption DEF IInv, Close, filterVars, dedupVars, appendVars
<1>1. filter = "ended" /\ queue = <<>>
  BY DEF QueueInv
<1>2. \A id \in DOMAIN handed : pool[id] = handed[id]
  BY <1>1 DEF BufferedOrWritten
<1>3. TypeOK'
  BY DEF TypeOK
<1>4. BufferedOrWritten' /\ HeaderInv' /\ BoundInv' /\ LastInv'
  BY <1>1, <1>2 DEF BufferedOrWritten, HeaderInv, BoundInv, LastInv
<1>5. IdsInv' /\ header' >= header
  BY <1>1 DEF IdsInv, TypeOK
<1>6. QueueInv'
  BY DEF QueueInv
<1> QED BY <1>3, <1>4, <1>5, <1>6

\* What a fresh process finds: everything that is still accounted for is below
\* the counter it reads, and in the pool.
LEMMA RestartKeepsIInv ==
  ASSUME IInv, Restart, torn' \in BOOLEAN,
         \/ store = "closed" /\ UNCHANGED handed
         \/ handed' = [id \in {i \in DOMAIN handed : i < header} |-> handed[id]]
  PROVE  IInv'
<1> USE StoreAssumption DEF IInv, Restart, diskVars
<1>1. /\ DOMAIN handed' \subseteq DOMAIN handed
      /\ \A id \in DOMAIN handed' : handed'[id] = handed[id] /\ id < header
  BY DEF IdsInv
<1>2. TypeOK'
  <2>1. DOMAIN handed' \subseteq Ids /\ \A id \in DOMAIN handed' : handed'[id] \in SUBSET FP
    BY <1>1 DEF TypeOK
  <2> QED BY <2>1 DEF TypeOK
<1>3. HeaderInv' /\ BufferedOrWritten'
  BY <1>1 DEF HeaderInv, BufferedOrWritten
<1>4. BoundInv' /\ LastInv'
  BY DEF BoundInv, LastInv
<1>5. IdsInv'
  BY <1>1 DEF IdsInv, TypeOK
<1>6. QueueInv'
  BY DEF QueueInv
<1> QED BY <1>2, <1>3, <1>4, <1>5, <1>6

-----------------------------------------------------------------------------
\* Every step keeps the invariant and leaves alone what a clean close covered.
LEMMA StepIInv ==
  ASSUME IInv, Next
  PROVE  IInv' /\ header' >= header /\ \A id \in Ids : id < header => pool'[id] = pool[id]
<1> USE DEF filterVars, dedupVars, appendVars, diskVars
<1>0. header \in Nat
  BY DEF IInv, TypeOK
<1>1. ASSUME FilterLock \/ FilterUnlock PROVE IInv' /\ UNCHANGED diskVars
  <2>1. TypeOK' /\ BoundInv' /\ LastInv'
    BY <1>1 DEF FilterLock, FilterUnlock, IInv, TypeOK, BoundInv, LastInv
  <2>2. BufferedOrWritten' /\ HeaderInv' /\ IdsInv' /\ QueueInv'
    BY <1>1 DEF FilterLock, FilterUnlock, IInv, BufferedOrWritten, HeaderInv, IdsInv, QueueInv
  <2> QED BY <1>1, <2>1, <2>2 DEF FilterLock, FilterUnlock, IInv
<1>2. ASSUME NEW fp \in FP, AddChunk(fp) PROVE IInv' /\ UNCHANGED diskVars
  BY <1>2, AddChunkKeepsIInv DEF AddChunk
<1>3. ASSUME NEW fp \in FP, SealFull(fp) PROVE IInv' /\ UNCHANGED diskVars
  <2>1. buf.id \in Ids
    BY <1>3 DEF SealFull, IInv, TypeOK, Containers
  <2>2. TypeOK' /\ BoundInv' /\ LastInv'
    BY <1>3, <2>1 DEF SealFull, IInv, TypeOK, BoundInv, LastInv
  <2>3. BufferedOrWritten' /\ HeaderInv' /\ IdsInv' /\ QueueInv'
    BY <1>3 DEF SealFull, IInv, BufferedOrWritten, HeaderInv, IdsInv, QueueInv
  <2> QED BY <1>3, <2>2, <2>3 DEF SealFull, IInv
<1>4. ASSUME HandOverFull \/ HandOverLast PROVE IInv' /\ UNCHANGED diskVars
  BY <1>4, HandOverFullKeepsIInv, HandOverLastKeepsIInv DEF HandOverFull, HandOverLast
<1>5. ASSUME SealLast PROVE IInv' /\ UNCHANGED diskVars
  <2>1. buf # NoContainer => buf.id \in Ids
    BY DEF IInv, TypeOK, Containers
  <2>2. TypeOK' /\ BoundInv' /\ LastInv'
    BY <1>5, <2>1 DEF SealLast, IInv, TypeOK, BoundInv, LastInv
  <2>3. BufferedOrWritten' /\ HeaderInv' /\ IdsInv' /\ QueueInv'
    BY <1>5 DEF SealLast, IInv, BufferedOrWritten, HeaderInv, IdsInv, QueueInv
  <2> QED BY <1>5, <2>2, <2>3 DEF SealLast, IInv
<1>6. ASSUME AppendGetTop \/ AppendPop PROVE IInv' /\ UNCHANGED diskVars
  BY <1>6, AppendGetTopKeepsIInv, AppendPopKeepsIInv DEF AppendGetTop, AppendPop
<1>7. ASSUME AppendWrite
      PROVE  IInv' /\ header' = header /\ \A id \in Ids : id < header => pool'[id] = pool[id]
  BY <1>7, AppendWriteKeepsIInv DEF AppendWrite
<1>8. ASSUME Dedup PROVE IInv' /\ UNCHANGED diskVars
  <2>1. /\ UNCHANGED <<filterVars, appendVars, diskVars, queue, index, session, store, handed>>
        /\ lock' \in {"none", "filter", "dedup"}
        /\ dedup' \in {"idle", "find", "read", "ended"} /\ wanted' \in Nat
    BY <1>8 DEF Dedup, DedupLock, FindInBuffer, ReadFromPool, DedupEnd, IInv, TypeOK, Ids
  <2>2. TypeOK' /\ BoundInv' /\ LastInv'
    BY <2>1 DEF IInv, TypeOK, BoundInv, LastInv
  <2>3. BufferedOrWritten' /\ HeaderInv' /\ IdsInv' /\ QueueInv'
    BY <2>1 DEF IInv, BufferedOrWritten, HeaderInv, IdsInv, QueueInv
  <2> QED BY <2>1, <2>2, <2>3 DEF IInv
<1>9. ASSUME CloseIndex \/ Terminate PROVE IInv' /\ UNCHANGED <<pool, header>>
  <2>1. TypeOK' /\ BoundInv' /\ LastInv'
    BY <1>9 DEF CloseIndex, Terminate, IInv, TypeOK, BoundInv, LastInv
  <2>2. BufferedOrWritten' /\ HeaderInv' /\ IdsInv' /\ QueueInv'
    BY <1>9 DEF CloseIndex, Terminate, IInv, BufferedOrWritten, HeaderInv, IdsInv, QueueInv
  <2> QED BY <1>9, <2>1, <2>2 DEF CloseIndex, Terminate, IInv
<1>10. ASSUME Close PROVE IInv' /\ header' >= header /\ UNCHANGED pool
  BY <1>10, CloseKeepsIInv DEF Close
<1>11. ASSUME Reopen \/ CrashAndReopen PROVE IInv' /\ UNCHANGED <<pool, header>>
  <2>1. torn' \in BOOLEAN
    BY <1>11 DEF Reopen, CrashAndReopen, IInv, TypeOK
  <2> QED BY <1>11, <2>1, RestartKeepsIInv DEF Reopen, CrashAndReopen, Restart
<1> QED
  BY <1>0, <1>1, <1>2, <1>3, <1>4, <1>5, <1>6, <1>7, <1>8, <1>9, <1>10, <1>11
     DEF Next, Filter, Appender

\* A stuttering step too.
LEMMA BoxStepIInv == IInv /\ [Next]_vars => IInv'
<1>1. IInv /\ UNCHANGED vars => IInv'
  BY DEF vars, filterVars, dedupVars, appendVars, diskVars, IInv, TypeOK,
         BufferedOrWritten, IdsInv, QueueInv, HeaderInv, BoundInv, LastInv
<1> QED BY <1>1, StepIInv

-----------------------------------------------------------------------------
\* The inductive invariant holds in every reachable state.
THEOREM InductiveInvariant == Spec => []IInv
  BY InitIInv, BoxStepIInv, PTL DEF Spec

\* Type correctness of the store and of the three threads.
THEOREM TypeCorrect == Spec => []TypeOK
<1>1. IInv => TypeOK
  BY DEF IInv
<1> QED BY <1>1, InductiveInvariant, PTL

\* A container is in the buffer or written to disk, from its hand-over on.
THEOREM NothingIsLost == Spec => []BufferedOrWritten
<1>1. IInv => BufferedOrWritten
  BY DEF IInv
<1> QED BY <1>1, InductiveInvariant, PTL

\* No id is used for two containers, across sessions and crashes.
THEOREM NoIdIsReused == Spec => []IdsFresh
<1>1. IInv => IdsFresh
  BY DEF IInv, IdsInv, IdsFresh
<1> QED BY <1>1, InductiveInvariant, PTL

\* What a clean close has covered is never overwritten.
THEOREM CommittedIsSafe == Spec => CommittedNeverOverwritten
<1> DEFINE A == /\ header' >= header
                /\ \A id \in Ids : id < header => pool'[id] = pool[id]
<1>1. IInv /\ [Next]_vars => [A]_vars
  BY StepIInv
<1>2. Spec => [][A]_vars
  BY <1>1, InductiveInvariant, PTL DEF Spec
<1> QED BY <1>2 DEF CommittedNeverOverwritten

-----------------------------------------------------------------------------
(* What index_lock is for.  The index names containers that can be         *)
(* retrieved, except between index_update and the push, and then the dedup *)
(* phase is locked out or has ended.  A kill leaves it so, unless it comes *)
(* between the two saves of do_backup: the saved index names only what the *)
(* saved counter covers, outside of that window.                           *)

InHandOver == filter \in {"hand_over", "hand_over_last"}

LockInv ==
  /\ filter \in {"locked", "hand_over"} => lock = "filter"
  /\ dedup \in {"find", "read"} => lock = "dedup"
  /\ filter \in {"hand_over_last", "ended"} => dedup = "ended"

IndexInv ==
  ~torn =>
    /\ \A id \in index : id \in DOMAIN handed \/ (InHandOver /\ id = buf.id)
    /\ \A id \in htable :
         id \in DOMAIN handed /\ (store \in {"open", "closed"} => id < header)

RInv == LockInv /\ IndexInv /\ RetrievalSucceeds

\* The initial state is such a state.
LEMMA InitRInv == Init => RInv
  BY DEF Init, RInv, LockInv, IndexInv, InHandOver, RetrievalSucceeds, Nothing

\* Nothing that was handed over is forgotten, except by a kill.
LEMMA HandedGrows ==
  ASSUME IInv, Next, ~CrashAndReopen
  PROVE  \A id \in DOMAIN handed : id \in DOMAIN handed' /\ handed'[id] = handed[id]
<1>1. CASE HandOverFull \/ HandOverLast
  <2>1. HandOver(buf) /\ buf.id \notin DOMAIN handed
    BY <1>1 DEF HandOverFull, HandOverLast, IInv, IdsInv, BoundInv, LastInv
  <2> QED BY <2>1 DEF HandOver
<1>2. CASE ~(HandOverFull \/ HandOverLast)
  <2>1. handed' = handed
    BY <1>2 DEF Next, Filter, FilterLock, FilterUnlock, AddChunk, SealFull, SealLast, Appender,
                AppendGetTop, AppendWrite, AppendPop, Dedup, DedupLock, FindInBuffer,
                ReadFromPool, DedupEnd, CloseIndex, Terminate, Close, Reopen
  <2> QED BY <2>1
<1> QED BY <1>1, <1>2

\* Every step of the filter phase keeps the discipline.
LEMMA FilterKeepsRInv ==
  ASSUME IInv, RInv, Filter,
         \A id \in DOMAIN handed : id \in DOMAIN handed' /\ handed'[id] = handed[id]
  PROVE  RInv'
<1> USE DEF RInv, filterVars, dedupVars, appendVars, diskVars
<1>1. /\ UNCHANGED <<dedup, wanted, pool, header, htable, torn, store>>
      /\ filter' # filter => dedup = "ended" \/ lock # "dedup"
  BY DEF Filter, FilterLock, FilterUnlock, AddChunk, SealFull, HandOverFull, SealLast,
         HandOverLast, LockInv
<1>2. LockInv'
  BY DEF Filter, FilterLock, FilterUnlock, AddChunk, SealFull, HandOverFull, SealLast,
         HandOverLast, LockInv
<1>3. RetrievalSucceeds'
  BY <1>1 DEF RetrievalSucceeds
<1>4. IndexInv'
  <2>1. CASE HandOverFull \/ HandOverLast
    BY <1>1, <2>1 DEF HandOverFull, HandOverLast, HandOver, IndexInv, InHandOver
  <2>2. CASE SealLast \/ \E fp \in FP : SealFull(fp)
    BY <1>1, <2>2 DEF SealLast, SealFull, IndexInv, InHandOver
  <2>3. CASE FilterLock \/ FilterUnlock \/ \E fp \in FP : AddChunk(fp)
    BY <1>1, <2>3 DEF FilterLock, FilterUnlock, AddChunk, IndexInv, InHandOver
  <2> QED BY <2>1, <2>2, <2>3 DEF Filter
<1> QED BY <1>2, <1>3, <1>4

\* Every step keeps the discipline of index_lock and of the index.
LEMMA StepRInv ==
  ASSUME IInv, RInv, Next
  PROVE  RInv'
<1> USE DEF RInv, filterVars, dedupVars, appendVars, diskVars
<1>1. CASE Filter
  <2>1. ~CrashAndReopen
    BY <1>1 DEF CrashAndReopen, Restart, Filter, FilterLock, FilterUnlock, AddChunk, SealFull,
                HandOverFull, SealLast, HandOverLast, IInv, TypeOK
  <2> QED BY <1>1, <2>1, HandedGrows, FilterKeepsRInv
<1>2. CASE Appender
  <2>1. UNCHANGED <<filterVars, dedupVars, lock, index, header, htable, torn, store, handed>>
    BY <1>2 DEF Appender, AppendGetTop, AppendWrite, AppendPop
  <2>2. \A id \in DOMAIN handed : pool[id] = handed[id] => pool'[id] = handed[id]
    <3>1. CASE AppendWrite
      BY <3>1 DEF AppendWrite, IInv, QueueInv, TypeOK
    <3>2. CASE ~AppendWrite
      BY <1>2, <3>2 DEF Appender, AppendGetTop, AppendPop
    <3> QED BY <3>1, <3>2
  <2> QED BY <2>1, <2>2 DEF LockInv, IndexInv, InHandOver, RetrievalSucceeds
<1>3. CASE Dedup
  <2>1. UNCHANGED <<filterVars, diskVars, index, queue, store, handed>>
    BY <1>3 DEF Dedup, DedupLock, FindInBuffer, ReadFromPool, DedupEnd
  <2>2. IndexInv'
    BY <2>1 DEF IndexInv, InHandOver
  <2>3. LockInv'
    BY <1>3, <2>1 DEF LockInv, Dedup, DedupLock, FindInBuffer, ReadFromPool, DedupEnd
  <2>4. RetrievalSucceeds'
    <3>1. ASSUME NEW id \in index, DedupLock(id) PROVE RetrievalSucceeds'
      <4>1. ~InHandOver
        BY <3>1 DEF InHandOver, DedupLock, LockInv
      <4> QED BY <3>1, <4>1, <2>1 DEF DedupLock, RetrievalSucceeds, IndexInv
    <3>2. CASE FindInBuffer
      <4>1. ~torn /\ ~Buffered(wanted) => pool[wanted] = handed[wanted]
        BY <3>2 DEF FindInBuffer, Buffered, IInv, BufferedOrWritten, RetrievalSucceeds
      <4> QED BY <3>2, <4>1, <2>1 DEF FindInBuffer, RetrievalSucceeds
    <3>3. CASE ReadFromPool \/ DedupEnd
      BY <3>3, <2>1 DEF ReadFromPool, DedupEnd, RetrievalSucceeds
    <3> QED BY <1>3, <3>1, <3>2, <3>3 DEF Dedup
  <2> QED BY <2>2, <2>3, <2>4
<1>4. CASE CloseIndex \/ Terminate
  <2>1. UNCHANGED <<filterVars, dedupVars, lock, index, pool, header, torn, handed>>
    BY <1>4 DEF CloseIndex, Terminate
  <2>2. IndexInv'
    BY <1>4, <2>1 DEF CloseIndex, Terminate, IInv, QueueInv, IndexInv, InHandOver
  <2> QED BY <2>1, <2>2 DEF LockInv, RetrievalSucceeds
<1>5. CASE Close
  <2>1. /\ UNCHANGED <<filterVars, dedupVars, lock, index, htable, pool, torn, handed>>
        /\ header' = count
    BY <1>5 DEF Close
  <2>2. \A id \in DOMAIN handed : id < count
    BY DEF IInv, IdsInv
  <2> QED BY <2>1, <2>2 DEF LockInv, IndexInv, InHandOver, RetrievalSucceeds
<1>6. CASE Reopen
  BY <1>6 DEF Reopen, Restart, LockInv, IndexInv, InHandOver, RetrievalSucceeds
<1>7. CASE CrashAndReopen
  <2>1. /\ ~torn' => ~torn /\ store = "open"
        /\ UNCHANGED <<header, htable>> /\ index' = htable
        /\ \A id \in DOMAIN handed : id < header => id \in DOMAIN handed'
    BY <1>7 DEF CrashAndReopen, Restart, IInv, TypeOK
  <2>2. IndexInv'
    BY <2>1 DEF IndexInv
  <2>3. filter' = "idle" /\ dedup' = "idle"
    BY <1>7 DEF CrashAndReopen, Restart
  <2> QED BY <2>2, <2>3 DEF LockInv, RetrievalSucceeds
<1> QED
  BY <1>1, <1>2, <1>3, <1>4, <1>5, <1>6, <1>7 DEF Next

\* The discipline holds in every reachable state.
LEMMA LockDiscipline == Spec => []RInv
<1>1. IInv /\ RInv /\ [Next]_vars => RInv'
  <2>1. RInv /\ UNCHANGED vars => RInv'
    BY DEF RInv, LockInv, IndexInv, InHandOver, RetrievalSucceeds, vars, filterVars, dedupVars,
           appendVars, diskVars
  <2> QED BY <2>1, StepRInv
<1> QED BY <1>1, InitRInv, InductiveInvariant, PTL DEF Spec

\* index_lock and the order of write and pop in append_thread make every
\* retrieval find its container, unless a kill tore the two saves apart.
THEOREM RetrievalIsSafe == Spec => []RetrievalSucceeds
<1>1. RInv => RetrievalSucceeds
  BY DEF RInv
<1> QED BY <1>1, LockDiscipline, InductiveInvariant, PTL

\* A closed store has everything in the pool, below the saved counter, and the
\* saved index names nothing else unless a kill tore the two saves apart.
THEOREM CloseIsDurable == Spec => []ClosedIsDurable
<1>1. IInv /\ RInv => ClosedIsDurable
  <2>1. ASSUME IInv, store = "closed"
        PROVE  \A id \in DOMAIN handed : pool[id] = handed[id] /\ id < header
    <3>1. queue = <<>> /\ header = count
      BY <2>1 DEF IInv, QueueInv, IdsInv
    <3> QED BY <2>1, <3>1 DEF IInv, BufferedOrWritten, IdsInv
  <2>2. RInv /\ ~torn => htable \subseteq DOMAIN handed
    BY DEF RInv, IndexInv
  <2> QED BY <2>1, <2>2 DEF ClosedIsDurable
<1> QED BY <1>1, LockDiscipline, InductiveInvariant, PTL
-----------------------------------------------------------------------------
(* The refinement of ContainerMap: a hand-over stores, a close commits, a   *)
(* kill loses, and everything else is a stutter.                            *)

Stored == [id \in DOMAIN handed |-> Retrieve(id)]
Handed == [id \in DOMAIN handed |-> handed[id]]

\* What a retrieval returns is what was handed over.
LEMMA RetrievesHanded == IInv => Stored = Handed
<1> SUFFICES ASSUME IInv, NEW id \in DOMAIN handed PROVE Retrieve(id) = handed[id]
  BY DEF Stored, Handed
<1>1. DOMAIN queue = 1..Len(queue)
  BY DEF IInv, TypeOK
<1>2. CASE Buffered(id)
  <2>1. PICK i \in DOMAIN queue : i = CHOOSE j \in DOMAIN queue : queue[j].id = id
    BY <1>2 DEF Buffered
  <2>2. queue[i].id = id
    BY <1>2, <2>1 DEF Buffered
  <2> QED BY <1>1, <1>2, <2>1, <2>2 DEF Retrieve, IInv, QueueInv
<1>3. CASE ~Buffered(id)
  BY <1>3 DEF Retrieve, Buffered, IInv, BufferedOrWritten
<1> QED BY <1>2, <1>3

\* A step on what was handed over.
AbstractStep ==
  \/ UNCHANGED <<Handed, header>>
  \/ \E id \in Ids, fps \in SUBSET FP :
       /\ id \notin DOMAIN Handed /\ id >= header
       /\ Handed' = [i \in DOMAIN Handed \cup {id} |-> IF i = id THEN fps ELSE Handed[i]]
       /\ header' = header
  \/ \E id \in Ids :
       /\ id + 1 >= header /\ \A i \in DOMAIN Handed : i < id + 1
       /\ header' = id + 1
       /\ Handed' = Handed
  \/ /\ Crashes
     /\ Handed' = [id \in {i \in DOMAIN Handed : i < header} |-> Handed[id]]
     /\ header' = header

\* Every step of the store is such a step.
LEMMA StepIsAbstract ==
  ASSUME IInv, [Next]_vars
  PROVE  AbstractStep
<1> USE DEF filterVars, dedupVars, appendVars, diskVars
<1>1. CASE HandOverFull \/ HandOverLast
  <2>1. /\ buf # NoContainer /\ filter # "ended" /\ HandOver(buf) /\ header' = header
    BY <1>1 DEF HandOverFull, HandOverLast, IInv, BoundInv, LastInv
  <2>2. /\ buf.id \in Ids /\ buf.fps \in SUBSET FP
        /\ buf.id \notin DOMAIN handed /\ buf.id >= header
    BY <2>1, StoreAssumption DEF IInv, TypeOK, IdsInv, Containers, Ids
  <2>3. Handed' = [i \in DOMAIN Handed \cup {buf.id} |->
                     IF i = buf.id THEN buf.fps ELSE Handed[i]]
    BY <2>1, <2>2 DEF HandOver, Handed
  <2> QED BY <2>1, <2>2, <2>3 DEF AbstractStep, Handed
<1>2. CASE Close
  <2>1. /\ header' = count /\ count \in Nat /\ header \in Nat /\ header <= count
        /\ count <= MaxContainers /\ Handed' = Handed
        /\ \A id \in DOMAIN Handed : id < count
    BY <1>2, StoreAssumption DEF Close, IInv, TypeOK, IdsInv, Handed
  <2>2. CASE count = 0
    BY <2>1, <2>2 DEF AbstractStep
  <2>3. CASE count # 0
    <3>1. count - 1 \in Ids /\ count = (count - 1) + 1
      BY <2>1, <2>3, StoreAssumption DEF Ids
    <3> QED BY <2>1, <3>1 DEF AbstractStep
  <2> QED BY <2>2, <2>3
<1>3. CASE CrashAndReopen
  BY <1>3 DEF CrashAndReopen, Restart, AbstractStep, Handed
<1>4. CASE UNCHANGED <<handed, header>>
  BY <1>4 DEF AbstractStep, Handed
<1> QED
  BY <1>1, <1>2, <1>3, <1>4
     DEF Next, vars, Filter, FilterLock, FilterUnlock, AddChunk, SealFull, SealLast, Appender,
         AppendGetTop, AppendWrite, AppendPop, Dedup, DedupLock, FindInBuffer, ReadFromPool,
         DedupEnd, CloseIndex, Terminate, Reopen, Restart

\* The store is a write-once map whose closed part survives a kill, although
\* containers move from buffer to pool and the counter is saved at close only.
THEOREM StoreIsContainerMap == Spec => ImplementsContainerMap
<1>1. Init => CM!CMInit
  BY DEF Init, Nothing, CM!CMInit
<1>2. (IInv => Stored = Handed)'
  BY RetrievesHanded, PTL
<1>3. IInv /\ IInv' /\ [Next]_vars => [CM!CMNext]_<<Stored, header>>
  <2> SUFFICES ASSUME IInv, IInv', [Next]_vars
               PROVE  [CM!CMNext]_<<Stored, header>>
    OBVIOUS
  <2>1. Stored = Handed /\ Stored' = Handed'
    BY <1>2, RetrievesHanded
  <2>2. AbstractStep
    BY StepIsAbstract
  <2> QED BY <2>1, <2>2 DEF AbstractStep, CM!CMNext, CM!Store, CM!Commit, CM!Lose, Stored
<1> QED BY <1>1, <1>3, InductiveInvariant, PTL DEF Spec, ImplementsContainerMap, CM!CMSpec, Stored
=============================================================================
