------------------------- MODULE SectorCacheProofs -------------------------
(***************************************************************************)
(* Theorems about SectorCache, for every number of sectors, every cache    *)
(* and queue size and every read-ahead.                                    *)
(*                                                                         *)
(* The argument: a queue with one job per sector determines the disk that  *)
(* the card becomes (ExecutedLemma); queueing a write changes that disk    *)
(* at the written sector only, whether the write is merged, appended or    *)
(* makes the queue flush (QueuedLemma); so the card with the queue applied *)
(* follows the abstract write-back disk, and the cache follows the card    *)
(* with the queue applied except where a read-ahead brought in older data. *)
(***************************************************************************)
EXTENDS SectorCache, FiniteSetTheorems, TLAPS

GoodQueue(q) ==
  /\ q \in Seq(Job)
  /\ Len(q) <= QueueCapacity
  /\ OneJobPerSector(q)

-----------------------------------------------------------------------------
(* The queue *)

\* The only job for a sector is the one that Executed picks.
LEMMA TheJobLemma ==
  ASSUME NEW q \in Seq(Job), OneJobPerSector(q), NEW j \in DOMAIN q
  PROVE  /\ q[j].sector \in Sectors
         /\ q[j].sector \in Pending(q)
         /\ (CHOOSE k \in JobsFor(q, q[j].sector) :
               \A l \in JobsFor(q, q[j].sector) : l <= k) = j
<1>1. q[j] \in Job
  OBVIOUS
<1>2. JobsFor(q, q[j].sector) = {j}
  BY DEF JobsFor, OneJobPerSector
<1>3. q[j].sector \in Sectors
  BY <1>1 DEF Job
<1>4. j \in Int
  OBVIOUS
<1>5. \A l \in {j} : l <= j
  BY <1>4
<1>6. (CHOOSE k \in {j} : \A l \in {j} : l <= k) = j
  BY <1>5
<1> QED
  BY <1>2, <1>3, <1>6 DEF Pending

\* Executing a queue writes each job's data to its sector and leaves the
\* sectors without a job alone.
LEMMA ExecutedLemma ==
  ASSUME NEW q \in Seq(Job), OneJobPerSector(q), NEW c \in Contents
  PROVE  /\ Executed(c, q) \in Contents
         /\ \A j \in DOMAIN q : Executed(c, q)[q[j].sector] = q[j].data
         /\ \A s \in Sectors : s \notin Pending(q) => Executed(c, q)[s] = c[s]
<1>1. ASSUME NEW j \in DOMAIN q
      PROVE  Executed(c, q)[q[j].sector] = q[j].data
  BY <1>1, TheJobLemma DEF Executed
<1>2. ASSUME NEW s \in Sectors, s \notin Pending(q)
      PROVE  Executed(c, q)[s] = c[s]
  BY <1>2 DEF Executed
<1>3. ASSUME NEW s \in Sectors
      PROVE  Executed(c, q)[s] \in Values
  <2>1. CASE s \in Pending(q)
    <3>1. PICK j \in DOMAIN q : q[j].sector = s
      BY <2>1 DEF Pending, JobsFor
    <3>2. q[j] \in Job
      OBVIOUS
    <3> QED
      BY <3>1, <3>2, <1>1 DEF Job
  <2>2. CASE s \notin Pending(q)
    BY <2>2, <1>2 DEF Contents
  <2> QED
    BY <2>1, <2>2
<1>4. Executed(c, q) \in Contents
  <2>1. Executed(c, q) = [s \in Sectors |-> Executed(c, q)[s]]
    BY DEF Executed
  <2> QED
    BY <2>1, <1>3 DEF Contents
<1> QED
  BY <1>1, <1>2, <1>4

\* An empty queue changes nothing.
LEMMA ExecutedEmptyLemma ==
  ASSUME NEW c \in Contents
  PROVE  Executed(c, <<>>) = c
<1>1. Pending(<<>>) = {}
  BY DEF Pending, JobsFor
<1>2. Executed(c, <<>>) = [s \in Sectors |-> c[s]]
  BY <1>1 DEF Executed
<1> QED
  BY <1>2 DEF Contents

\* queue_write_sector keeps the queue well formed and changes the disk that
\* the card and the queue stand for at the written sector only.
LEMMA QueuedLemma ==
  ASSUME NEW q, GoodQueue(q), NEW c \in Contents,
         NEW s \in Sectors, NEW v \in Values
  PROVE  /\ GoodQueue(Queued(q, s, v))
         /\ CardWhenQueued(c, q, s) \in Contents
         /\ Executed(CardWhenQueued(c, q, s), Queued(q, s, v))
              = [Executed(c, q) EXCEPT ![s] = v]
<1> DEFINE nq == Queued(q, s, v)
           nc == CardWhenQueued(c, q, s)
           job == [sector |-> s, data |-> v]
<1>0. q \in Seq(Job) /\ OneJobPerSector(q) /\ Len(q) <= QueueCapacity
  BY DEF GoodQueue
<1>1. job \in Job
  BY DEF Job
<1>2. CASE s \in Pending(q)
  <2>1. PICK i \in DOMAIN q : q[i].sector = s
    BY <1>2 DEF Pending, JobsFor
  <2>2. \A j \in DOMAIN q : q[j] \in Job
    BY <1>0
  <2>3. nq = [j \in DOMAIN q |-> IF q[j].sector = s
                                   THEN [q[j] EXCEPT !.data = v] ELSE q[j]]
    BY <1>2 DEF Queued
  <2>4. \A j \in DOMAIN q : nq[j] \in Job /\ nq[j].sector = q[j].sector
    BY <2>2, <2>3 DEF Job
  <2>5. nq \in Seq(Job) /\ Len(nq) = Len(q) /\ DOMAIN nq = DOMAIN q
    <3>1. DOMAIN q = 1 .. Len(q) /\ Len(q) \in Nat
      BY <1>0
    <3>2. nq \in [1 .. Len(q) -> Job]
      BY <3>1, <2>3, <2>4
    <3>3. nq \in Seq(Job)
      BY <3>1, <3>2
    <3> QED
      BY <3>1, <3>2, <3>3
  <2>6. OneJobPerSector(nq)
    BY <1>0, <2>4, <2>5 DEF OneJobPerSector
  <2>7. nc = c
    BY <1>2 DEF CardWhenQueued
  <2>8. ASSUME NEW t \in Sectors
        PROVE  Executed(nc, nq)[t] = [Executed(c, q) EXCEPT ![s] = v][t]
    <3>0. Executed(c, q) \in Contents
      BY <1>0, ExecutedLemma
    <3>1. CASE t = s
      <4>1. nq[i].data = v /\ nq[i].sector = s
        BY <2>1, <2>2, <2>3 DEF Job
      <4> QED
        BY <4>1, <3>0, <3>1, <2>5, <2>6, <2>7, ExecutedLemma DEF Contents
    <3>2. CASE t # s /\ t \in Pending(q)
      <4>1. PICK j \in DOMAIN q : q[j].sector = t
        BY <3>2 DEF Pending, JobsFor
      <4>2. nq[j] = q[j]
        BY <4>1, <3>2, <2>3
      <4>3. Executed(nc, nq)[t] = q[j].data
        BY <4>1, <4>2, <2>5, <2>6, <2>7, ExecutedLemma
      <4>4. Executed(c, q)[t] = q[j].data
        BY <4>1, <1>0, ExecutedLemma
      <4> QED
        BY <4>3, <4>4, <3>0, <3>2 DEF Contents
    <3>3. CASE t # s /\ t \notin Pending(q)
      <4>1. t \notin Pending(nq)
        BY <3>3, <2>4, <2>5 DEF Pending, JobsFor
      <4> QED
        BY <4>1, <3>0, <3>3, <1>0, <2>5, <2>6, <2>7, ExecutedLemma DEF Contents
    <3> QED
      BY <3>1, <3>2, <3>3
  <2>9. Executed(nc, nq) = [Executed(c, q) EXCEPT ![s] = v]
    <3>1. Executed(nc, nq) \in Contents /\ Executed(c, q) \in Contents
      BY <1>0, <2>5, <2>6, <2>7, ExecutedLemma
    <3> QED
      BY <3>1, <2>8 DEF Contents
  <2> QED
    BY <1>0, <2>5, <2>6, <2>7, <2>9 DEF GoodQueue
<1>3. CASE s \notin Pending(q)
  <2> DEFINE base == IF Full(q) THEN <<>> ELSE q
  <2>1. nq = Append(base, job)
    BY <1>3 DEF Queued
  <2>2. /\ base \in Seq(Job)
        /\ OneJobPerSector(base)
        /\ Len(base) < QueueCapacity
        /\ s \notin Pending(base)
    BY <1>0, <1>3, SizesAssumption DEF Full, OneJobPerSector, Pending, JobsFor
  <2>3. nc \in Contents /\ Executed(nc, base) = Executed(c, q)
    <3>1. CASE Full(q)
      <4>1. nc = Executed(c, q) /\ base = <<>>
        BY <1>3, <3>1 DEF CardWhenQueued
      <4> QED
        BY <4>1, <1>0, ExecutedLemma, ExecutedEmptyLemma
    <3>2. CASE ~Full(q)
      BY <3>2 DEF CardWhenQueued
    <3> QED
      BY <3>1, <3>2
  <2>4. /\ nq \in Seq(Job)
        /\ Len(nq) = Len(base) + 1
        /\ DOMAIN nq = 1 .. Len(base) + 1
        /\ nq[Len(base) + 1] = job
        /\ \A j \in DOMAIN base : nq[j] = base[j]
        /\ DOMAIN base = 1 .. Len(base)
        /\ Len(base) \in Nat
    BY <2>1, <2>2, <1>1
  <2>5. \A j \in DOMAIN base : base[j].sector # s
    BY <2>2 DEF Pending, JobsFor
  <2>6. OneJobPerSector(nq)
    <3> SUFFICES ASSUME NEW i \in DOMAIN nq, NEW j \in DOMAIN nq,
                        nq[i].sector = nq[j].sector
                 PROVE  i = j
      BY DEF OneJobPerSector
    <3>1. job.sector = s
      OBVIOUS
    <3>2. CASE i \in DOMAIN base /\ j \in DOMAIN base
      BY <3>2, <2>2, <2>4 DEF OneJobPerSector
    <3>3. CASE i = Len(base) + 1 /\ j \in DOMAIN base
      BY <3>1, <3>3, <2>4, <2>5
    <3>4. CASE i \in DOMAIN base /\ j = Len(base) + 1
      BY <3>1, <3>4, <2>4, <2>5
    <3>5. CASE i = Len(base) + 1 /\ j = Len(base) + 1
      BY <3>5
    <3> HIDE DEF base
    <3> QED
      BY <3>2, <3>3, <3>4, <3>5, <2>4
  <2>7. Len(nq) <= QueueCapacity
    <3> HIDE DEF base, nq
    <3> QED
      BY <2>2, <2>4, SizesAssumption
  <2> HIDE DEF base, nq, nc, job
  <2>8. ASSUME NEW t \in Sectors
        PROVE  Executed(nc, nq)[t] = [Executed(c, q) EXCEPT ![s] = v][t]
    <3>0. Executed(c, q) \in Contents
      BY <1>0, ExecutedLemma
    <3>1. CASE t = s
      <4>1. nq[Len(base) + 1].sector = s /\ nq[Len(base) + 1].data = v
        BY <2>4 DEF job
      <4>2. Len(base) + 1 \in DOMAIN nq
        BY <2>4
      <4>3. Executed(nc, nq)[s] = v
        BY <4>1, <4>2, <2>3, <2>4, <2>6, ExecutedLemma
      <4> QED
        BY <4>3, <3>0, <3>1 DEF Contents
    <3>2. CASE t # s /\ t \in Pending(base)
      <4>1. PICK j \in DOMAIN base : base[j].sector = t
        BY <3>2 DEF Pending, JobsFor
      <4>2. nq[j] = base[j] /\ j \in DOMAIN nq
        BY <4>1, <2>4
      <4>3. Executed(nc, nq)[t] = base[j].data
        BY <4>1, <4>2, <2>3, <2>4, <2>6, ExecutedLemma
      <4>4. Executed(nc, base)[t] = base[j].data
        BY <4>1, <2>2, <2>3, ExecutedLemma
      <4> QED
        BY <4>3, <4>4, <2>3, <3>0, <3>2 DEF Contents
    <3>3. CASE t # s /\ t \notin Pending(base)
      <4>1. t \notin Pending(nq)
        <5> SUFFICES ASSUME NEW j \in DOMAIN nq, nq[j].sector = t
                     PROVE  FALSE
          BY DEF Pending, JobsFor
        <5>1. j = Len(base) + 1 \/ j \in DOMAIN base
          BY <2>4
        <5>2. job.sector = s
          BY DEF job
        <5>3. j # Len(base) + 1
          BY <5>2, <2>4, <3>3
        <5>4. base[j].sector = t /\ j \in DOMAIN base
          BY <5>1, <5>3, <2>4
        <5> QED
          BY <5>4, <3>3 DEF Pending, JobsFor
      <4>2. Executed(nc, nq)[t] = nc[t] /\ Executed(nc, base)[t] = nc[t]
        BY <4>1, <3>3, <2>2, <2>3, <2>4, <2>6, ExecutedLemma
      <4> QED
        BY <4>2, <2>3, <3>0, <3>3 DEF Contents
    <3> QED
      BY <3>1, <3>2, <3>3
  <2>9. Executed(nc, nq) = [Executed(c, q) EXCEPT ![s] = v]
    <3>1. Executed(nc, nq) \in Contents /\ Executed(c, q) \in Contents
      BY <1>0, <2>3, <2>4, <2>6, ExecutedLemma
    <3> QED
      BY <3>1, <2>8 DEF Contents
  <2> QED
    BY <2>3, <2>4, <2>6, <2>7, <2>9 DEF GoodQueue, nq, nc
<1> QED
  BY <1>2, <1>3

-----------------------------------------------------------------------------
(* The inductive invariant *)

\* While a batch is being stored nothing is written, so what the batch holds
\* for a sector is still its latest content, except for the sectors that had a
\* queued write when the batch was fetched.
BatchIsLatest ==
  rd.active => \A s \in Sectors : s \notin rd.pending => rd.data[s] = Latest[s]

IInv ==
  /\ TypeOK
  /\ QueueHasOneJobPerSector
  /\ CoherentUnlessClobbered
  /\ BatchIsLatest

LEMMA LatestLemma ==
  ASSUME TypeOK, QueueHasOneJobPerSector
  PROVE  /\ GoodQueue(write_queue)
         /\ card \in Contents
         /\ Latest \in Contents
  BY ExecutedLemma DEF TypeOK, QueueHasOneJobPerSector, GoodQueue, Latest

\* A flush leaves the disk as it is and the queue empty.
LEMMA FlushLemma ==
  ASSUME IInv, card' = Latest, write_queue' = <<>>
  PROVE  /\ Latest' = Latest
         /\ card' \in Contents
         /\ write_queue' \in Seq(Job)
         /\ QueueHasOneJobPerSector'
<1>1. Latest \in Contents
  BY LatestLemma DEF IInv
<1>2. Latest' = Latest
  BY <1>1, ExecutedEmptyLemma DEF Latest
<1>3. QueueHasOneJobPerSector'
  BY SizesAssumption DEF QueueHasOneJobPerSector, OneJobPerSector
<1> QED
  BY <1>1, <1>2, <1>3

LEMMA InitLemma == Init => IInv
<1> SUFFICES ASSUME Init PROVE IInv
  OBVIOUS
<1>1. TypeOK
  BY SizesAssumption DEF Init, TypeOK, EmptyCache, NoRead, NoBuffer
<1>2. QueueHasOneJobPerSector
  BY SizesAssumption DEF Init, QueueHasOneJobPerSector, OneJobPerSector
<1>3. CoherentUnlessClobbered
  BY DEF Init, CoherentUnlessClobbered, EmptyCache, IsCached
<1>4. BatchIsLatest
  BY DEF Init, BatchIsLatest, NoRead
<1> QED
  BY <1>1, <1>2, <1>3, <1>4 DEF IInv

\* The steps that touch neither disk nor cache.
LEMMA CommandLemma ==
  ASSUME IInv,
         UNCHANGED <<card, write_queue, sector_cache, sector_cache_count, rd,
                     clobbered>>,
         cmd' \in {"prompt", "flushing", "putslot", "reading", "exited"},
         buffer' = NoBuffer
            \/ buffer' \in [returned : {TRUE}, sector : Sectors, data : Values]
  PROVE  IInv'
<1>1. TypeOK'
  BY DEF IInv, TypeOK
<1>2. QueueHasOneJobPerSector'
  BY DEF IInv, QueueHasOneJobPerSector, OneJobPerSector
<1>3. Latest' = Latest
  BY DEF Latest
<1>4. CoherentUnlessClobbered'
  BY <1>3 DEF IInv, CoherentUnlessClobbered, IsCached
<1>5. BatchIsLatest'
  BY <1>3 DEF IInv, BatchIsLatest
<1> QED
  BY <1>1, <1>2, <1>4, <1>5 DEF IInv

LEMMA WriteLemma ==
  ASSUME IInv, NEW s \in Sectors, NEW v \in Values, write_sector(s, v)
  PROVE  /\ IInv'
         /\ Latest' = [Latest EXCEPT ![s] = v]
         /\ card' = card \/ card' = Latest \/ card' = Latest'
<1> DEFINE queue  == Queued(write_queue, s, v)
           stored == CardWhenQueued(card, write_queue, s)
<1>1. GoodQueue(write_queue) /\ card \in Contents /\ Latest \in Contents
  BY LatestLemma DEF IInv
<1>2. /\ GoodQueue(queue)
      /\ stored \in Contents
      /\ Executed(stored, queue) = [Latest EXCEPT ![s] = v]
  BY <1>1, QueuedLemma DEF Latest
<1>3. stored = card \/ stored = Latest
  BY DEF CardWhenQueued, Latest
<1>4. Executed(stored, queue) \in Contents
  BY <1>2, ExecutedLemma DEF GoodQueue
<1>5. ~rd.active /\ rd' = rd
  BY DEF write_sector, Busy
<1> HIDE DEF queue, stored
<1>6. CASE /\ HasRoomFor(s)
           /\ Store(s, v)
           /\ clobbered' = clobbered \ {s}
           /\ write_queue' = queue
           /\ card' = stored
  <2>1. Latest' = [Latest EXCEPT ![s] = v]
    BY <1>2, <1>6 DEF Latest
  <2>2. TypeOK'
    <3>1. /\ sector_cache' \in [Sectors -> Values \cup {NotCached}]
          /\ sector_cache_count' \in 0 .. SECTOR_CACHE_SIZE
      BY <1>6, SizesAssumption DEF IInv, TypeOK, Store, HasRoomFor
    <3> QED
      BY <3>1, <1>2, <1>6 DEF IInv, TypeOK, write_sector, GoodQueue, NoBuffer
  <2>3. QueueHasOneJobPerSector'
    BY <1>2, <1>6 DEF GoodQueue, QueueHasOneJobPerSector
  <2>4. CoherentUnlessClobbered'
    <3> SUFFICES ASSUME NEW t \in Sectors, IsCached(t)', t \notin clobbered'
                 PROVE  sector_cache'[t] = Latest'[t]
      BY DEF CoherentUnlessClobbered
    <3>1. sector_cache' = [sector_cache EXCEPT ![s] = v]
      BY <1>6 DEF Store
    <3> QED
      BY <3>1, <2>1, <1>1, <1>6
         DEF IInv, TypeOK, CoherentUnlessClobbered, IsCached, Contents
  <2>5. BatchIsLatest'
    BY <1>5 DEF BatchIsLatest
  <2> QED
    BY <2>1, <2>2, <2>3, <2>4, <2>5, <1>3, <1>6 DEF IInv
<1>7. CASE /\ ~HasRoomFor(s)
           /\ ClearCache
           /\ write_queue' = <<>>
           /\ card' = Executed(stored, queue)
  <2>1. Latest' = card'
    BY <1>4, <1>7, ExecutedEmptyLemma DEF Latest
  <2>2. Latest' = [Latest EXCEPT ![s] = v]
    BY <2>1, <1>2, <1>7
  <2>3. TypeOK'
    BY <1>4, <1>7, SizesAssumption
       DEF IInv, TypeOK, ClearCache, EmptyCache, write_sector, NoBuffer
  <2>4. QueueHasOneJobPerSector'
    BY <1>7, SizesAssumption DEF QueueHasOneJobPerSector, OneJobPerSector
  <2>5. CoherentUnlessClobbered'
    BY <1>7 DEF ClearCache, EmptyCache, CoherentUnlessClobbered, IsCached
  <2>6. BatchIsLatest'
    BY <1>5 DEF BatchIsLatest
  <2> QED
    BY <2>1, <2>2, <2>3, <2>4, <2>5, <2>6 DEF IInv
<1> QED
  BY <1>6, <1>7 DEF write_sector, queue, stored

LEMMA ReadBatchLemma ==
  ASSUME IInv, NEW s \in Sectors, NEW n \in BatchSizes, ReadBatch(s, n)
  PROVE  IInv' /\ Latest' = Latest /\ card' = card
<1>1. GoodQueue(write_queue) /\ card \in Contents
  BY LatestLemma DEF IInv
<1>2. Latest' = Latest /\ card' = card
  BY DEF ReadBatch, Latest
<1>3. TypeOK'
  <2>1. n \in Nat \ {0}
    BY SizesAssumption
  <2>2. Pending(write_queue) \in SUBSET Sectors
    BY DEF Pending
  <2>3. rd' \in ReadInProgress /\ rd'.next <= rd'.end
    BY <1>1, <2>1, <2>2, SectorsAssumption DEF ReadBatch, ReadInProgress, Sectors
  <2> QED
    BY <2>3 DEF ReadBatch, IInv, TypeOK, NoBuffer
<1>4. QueueHasOneJobPerSector'
  BY DEF ReadBatch, IInv, QueueHasOneJobPerSector, OneJobPerSector
<1>5. CoherentUnlessClobbered'
  BY <1>2 DEF ReadBatch, IInv, CoherentUnlessClobbered, IsCached
<1>6. BatchIsLatest'
  <2>1. rd'.data = card /\ rd'.pending = Pending(write_queue)
    BY DEF ReadBatch
  <2> QED
    BY <1>1, <1>2, <2>1, ExecutedLemma DEF BatchIsLatest, GoodQueue, Latest
<1> QED
  BY <1>2, <1>3, <1>4, <1>5, <1>6 DEF IInv

LEMMA StoreNextLemma ==
  ASSUME IInv, StoreNext
  PROVE  IInv' /\ Latest' = Latest /\ card' \in {card, Latest}
<1> DEFINE t == rd.next
<1>1. rd \in ReadInProgress /\ rd.next < rd.end
  BY DEF IInv, TypeOK, StoreNext, NoRead
<1>2. t \in Sectors /\ rd.data[t] \in Values
  BY <1>1, SectorsAssumption DEF ReadInProgress, Sectors, Contents
<1>3. /\ rd' \in ReadInProgress
      /\ rd'.next <= rd'.end
      /\ rd'.data = rd.data
      /\ rd'.pending = rd.pending
  <2>1. rd' = [rd EXCEPT !.next = rd.next + 1]
    BY DEF StoreNext
  <2>2. rd.next + 1 \in 0 .. MaxSector + 1 /\ rd.next + 1 <= rd.end
    BY <1>1, SectorsAssumption DEF ReadInProgress
  <2>3. rd' \in ReadInProgress
    BY <1>1, <2>1, <2>2 DEF ReadInProgress
  <2>4. rd'.next = rd.next + 1 /\ rd'.end = rd.end
    BY <1>1, <2>1 DEF ReadInProgress
  <2>5. rd'.data = rd.data /\ rd'.pending = rd.pending
    BY <1>1, <2>1 DEF ReadInProgress
  <2> QED
    BY <2>2, <2>3, <2>4, <2>5
<1>4. Latest \in Contents
  BY LatestLemma DEF IInv
<1> HIDE DEF t
<1>5. CASE /\ HasRoomFor(rd.next)
           /\ Store(rd.next, rd.data[rd.next])
           /\ clobbered' = IF rd.next \in rd.pending
                             THEN clobbered \cup {rd.next}
                             ELSE clobbered \ {rd.next}
           /\ UNCHANGED <<card, write_queue>>
  <2>1. Latest' = Latest
    BY <1>5 DEF Latest
  <2>2. TypeOK'
    <3>1. /\ sector_cache' \in [Sectors -> Values \cup {NotCached}]
          /\ sector_cache_count' \in 0 .. SECTOR_CACHE_SIZE
      BY <1>2, <1>5, SizesAssumption DEF IInv, TypeOK, Store, HasRoomFor, t
    <3>2. clobbered' \in SUBSET Sectors
      BY <1>2, <1>5 DEF IInv, TypeOK, t
    <3> QED
      BY <3>1, <3>2, <1>3, <1>5 DEF IInv, TypeOK, StoreNext
  <2>3. QueueHasOneJobPerSector'
    BY <1>5 DEF IInv, QueueHasOneJobPerSector, OneJobPerSector
  <2>4. CoherentUnlessClobbered'
    <3> SUFFICES ASSUME NEW u \in Sectors, IsCached(u)', u \notin clobbered'
                 PROVE  sector_cache'[u] = Latest[u]
      BY <2>1 DEF CoherentUnlessClobbered
    <3>1. sector_cache' = [sector_cache EXCEPT ![t] = rd.data[t]]
      BY <1>5 DEF Store, t
    <3>2. CASE u = t
      <4>1. u \notin rd.pending
        BY <1>5, <3>2 DEF t
      <4>2. rd.data[u] = Latest[u]
        BY <4>1, <1>1 DEF IInv, BatchIsLatest, ReadInProgress
      <4> QED
        BY <3>1, <3>2, <4>2, <1>2 DEF IInv, TypeOK
    <3>3. CASE u # t
      <4>1. u \notin clobbered
        BY <1>5, <3>3 DEF t
      <4>2. sector_cache'[u] = sector_cache[u]
        BY <3>1, <3>3 DEF IInv, TypeOK
      <4> QED
        BY <4>1, <4>2 DEF IInv, CoherentUnlessClobbered, IsCached
    <3> QED
      BY <3>2, <3>3
  <2>5. BatchIsLatest'
    BY <1>1, <1>3, <2>1 DEF IInv, BatchIsLatest, ReadInProgress
  <2> QED
    BY <2>1, <2>2, <2>3, <2>4, <2>5, <1>5 DEF IInv
<1>6. CASE /\ ~HasRoomFor(rd.next)
           /\ ClearCache
           /\ card' = Latest
           /\ write_queue' = <<>>
  <2>1. /\ Latest' = Latest
        /\ card' \in Contents
        /\ write_queue' \in Seq(Job)
        /\ QueueHasOneJobPerSector'
    BY <1>6, FlushLemma
  <2>2. TypeOK'
    <3>1. /\ sector_cache' \in [Sectors -> Values \cup {NotCached}]
          /\ sector_cache_count' \in 0 .. SECTOR_CACHE_SIZE
          /\ clobbered' \in SUBSET Sectors
      BY <1>6, SizesAssumption DEF ClearCache, EmptyCache
    <3>2. UNCHANGED <<buffer, cmd>>
      BY DEF StoreNext
    <3> QED
      BY <2>1, <3>1, <3>2, <1>3 DEF IInv, TypeOK
  <2>3. CoherentUnlessClobbered'
    BY <1>6 DEF ClearCache, EmptyCache, CoherentUnlessClobbered, IsCached
  <2>4. BatchIsLatest'
    BY <1>1, <1>3, <2>1 DEF IInv, BatchIsLatest, ReadInProgress
  <2> QED
    BY <2>1, <2>2, <2>3, <2>4, <1>6 DEF IInv
<1> QED
  BY <1>5, <1>6 DEF StoreNext

LEMMA ReturnReadLemma ==
  ASSUME IInv, ReturnRead
  PROVE  IInv' /\ Latest' = Latest /\ card' = card
<1>1. rd \in ReadInProgress
  BY DEF IInv, TypeOK, ReturnRead, NoRead
<1>2. Latest' = Latest /\ card' = card
  BY DEF ReturnRead, Latest
<1>3. TypeOK'
  BY <1>1 DEF ReturnRead, IInv, TypeOK, ReadInProgress, NoRead, Contents
<1>4. QueueHasOneJobPerSector'
  BY DEF ReturnRead, IInv, QueueHasOneJobPerSector, OneJobPerSector
<1>5. CoherentUnlessClobbered'
  BY <1>2 DEF ReturnRead, IInv, CoherentUnlessClobbered, IsCached
<1>6. BatchIsLatest'
  BY DEF ReturnRead, BatchIsLatest, NoRead
<1> QED
  BY <1>2, <1>3, <1>4, <1>5, <1>6 DEF IInv

\* execute_write_queue, in the middle of a command or at its end.
LEMMA FlushStepLemma ==
  ASSUME IInv, Busy, card' = Latest, write_queue' = <<>>,
         UNCHANGED <<sector_cache, sector_cache_count, rd, clobbered>>,
         cmd' \in {"prompt", "flushing", "putslot", "reading", "exited"},
         buffer' = NoBuffer
  PROVE  IInv' /\ Latest' = Latest
<1>1. /\ Latest' = Latest
      /\ card' \in Contents
      /\ write_queue' \in Seq(Job)
      /\ QueueHasOneJobPerSector'
  BY FlushLemma
<1>2. TypeOK'
  BY <1>1 DEF IInv, TypeOK
<1>3. CoherentUnlessClobbered'
  BY <1>1 DEF IInv, CoherentUnlessClobbered, IsCached
<1>4. BatchIsLatest'
  BY DEF Busy, BatchIsLatest
<1> QED
  BY <1>1, <1>2, <1>3, <1>4 DEF IInv

LEMMA SectorCommandLemma ==
  ASSUME IInv, StartSectorCommand
  PROVE  IInv' /\ Latest' = Latest /\ card' = card
<1>1. Latest' = Latest /\ card' = card
  BY DEF StartSectorCommand, Latest
<1>2. TypeOK'
  BY SizesAssumption DEF StartSectorCommand, ClearCache, EmptyCache, IInv, TypeOK
<1>3. QueueHasOneJobPerSector'
  BY DEF StartSectorCommand, IInv, QueueHasOneJobPerSector, OneJobPerSector
<1>4. CoherentUnlessClobbered'
  BY DEF StartSectorCommand, ClearCache, EmptyCache, CoherentUnlessClobbered,
         IsCached
<1>5. BatchIsLatest'
  BY <1>1 DEF StartSectorCommand, IInv, BatchIsLatest
<1> QED
  BY <1>1, <1>2, <1>3, <1>4, <1>5 DEF IInv

-----------------------------------------------------------------------------
(* The steps, and what each does to the disk *)

DiskStep ==
  \/ \E s \in Sectors, v \in Values :
       /\ Latest' = [Latest EXCEPT ![s] = v]
       /\ card' \in {card, Latest, Latest'}
  \/ Latest' = Latest /\ card' \in {card, Latest}

LEMMA StepLemma ==
  ASSUME IInv, [Next]_vars
  PROVE  IInv' /\ DiskStep
<1>1. ASSUME NEW c \in Commands, StartCommand(c)
      PROVE  IInv' /\ DiskStep
  <2>1. IInv'
    BY <1>1, CommandLemma, CommandsAssumption DEF StartCommand
  <2> QED
    BY <2>1, <1>1 DEF StartCommand, DiskStep, Latest
<1>2. CASE StartSectorCommand
  BY <1>2, SectorCommandLemma DEF DiskStep
<1>3. ASSUME NEW s \in Sectors, NEW v \in Values, write_sector(s, v)
      PROVE  IInv' /\ DiskStep
  BY <1>3, WriteLemma DEF DiskStep
<1>4. ASSUME NEW s \in Sectors, ReadCached(s)
      PROVE  IInv' /\ DiskStep
  <2>1. buffer' \in [returned : {TRUE}, sector : Sectors, data : Values]
    BY <1>4 DEF ReadCached, IInv, TypeOK, IsCached
  <2>2. cmd' \in {"prompt", "flushing", "putslot", "reading", "exited"}
    BY <1>4 DEF ReadCached, IInv, TypeOK
  <2>3. IInv'
    BY <1>4, <2>1, <2>2, CommandLemma DEF ReadCached
  <2> QED
    BY <2>3, <1>4 DEF ReadCached, DiskStep, Latest
<1>5. ASSUME NEW s \in Sectors, NEW n \in BatchSizes, ReadBatch(s, n)
      PROVE  IInv' /\ DiskStep
  BY <1>5, ReadBatchLemma DEF DiskStep
<1>6. CASE StoreNext
  BY <1>6, StoreNextLemma DEF DiskStep
<1>7. CASE ReturnRead
  BY <1>7, ReturnReadLemma DEF DiskStep
<1>8. CASE execute_write_queue
  <2>1. IInv' /\ Latest' = Latest
    BY <1>8, FlushStepLemma DEF execute_write_queue, IInv, TypeOK
  <2> QED
    BY <2>1, <1>8 DEF execute_write_queue, DiskStep
<1>9. CASE EndCommand
  <2>1. CASE card' = Latest /\ write_queue' = <<>>
    <3>1. IInv' /\ Latest' = Latest
      BY <1>9, <2>1, FlushStepLemma DEF EndCommand
    <3> QED
      BY <3>1, <2>1 DEF DiskStep
  <2>2. CASE UNCHANGED <<card, write_queue>>
    <3>1. IInv'
      BY <1>9, <2>2, CommandLemma DEF EndCommand
    <3> QED
      BY <3>1, <2>2 DEF DiskStep, Latest
  <2> QED
    BY <1>9, <2>1, <2>2 DEF EndCommand
<1>10. CASE FailCommand
  <2>1. IInv'
    BY <1>10, CommandLemma DEF FailCommand
  <2> QED
    BY <2>1, <1>10 DEF FailCommand, DiskStep, Latest
<1>11. CASE Quit
  <2>1. IInv'
    BY <1>11, CommandLemma DEF Quit
  <2> QED
    BY <2>1, <1>11 DEF Quit, DiskStep, Latest
<1>12. CASE UNCHANGED vars
  <2>1. IInv'
    BY <1>12, CommandLemma DEF vars, IInv, TypeOK
  <2> QED
    BY <2>1, <1>12 DEF vars, DiskStep, Latest
<1> QED
  BY <1>1, <1>2, <1>3, <1>4, <1>5, <1>6, <1>7, <1>8, <1>9, <1>10, <1>11, <1>12
     DEF Next

-----------------------------------------------------------------------------
(* Theorems *)

THEOREM Invariance == Spec => []IInv
<1>1. Init => IInv
  BY InitLemma
<1>2. IInv /\ [Next]_vars => IInv'
  BY StepLemma
<1> QED
  BY <1>1, <1>2, PTL DEF Spec

\* Every variable of the sector layer keeps its type.
THEOREM TypeCorrect == Spec => []TypeOK
<1>1. IInv => TypeOK
  BY DEF IInv
<1> QED
  BY <1>1, Invariance, PTL

\* queue_write_sector never queues two jobs for one sector and never outgrows
\* write_data_buffer.
THEOREM OneJobPerSectorTheorem == Spec => []QueueHasOneJobPerSector
<1>1. IInv => QueueHasOneJobPerSector
  BY DEF IInv
<1> QED
  BY <1>1, Invariance, PTL

\* read_sector's cached copies are what was last written, except where a
\* read-ahead over a queued write clobbered them.
THEOREM CacheCoherence == Spec => []CoherentUnlessClobbered
<1>1. IInv => CoherentUnlessClobbered
  BY DEF IInv
<1> QED
  BY <1>1, Invariance, PTL

-----------------------------------------------------------------------------
(* Counting the entries of the cache *)

Entries == {s \in Sectors : IsCached(s)}

LEMMA StoreCountLemma ==
  ASSUME sector_cache \in [Sectors -> Values \cup {NotCached}],
         CountIsNumberOfEntries,
         NEW s \in Sectors, NEW v \in Values, Store(s, v)
  PROVE  CountIsNumberOfEntries'
<1>1. IsFiniteSet(Sectors)
  BY FS_Interval, SectorsAssumption DEF Sectors
<1>2. IsFiniteSet(Entries)
  BY <1>1, FS_Subset DEF Entries
<1>3. Entries' = Entries \cup {s}
  BY ValuesAssumption DEF Entries, Store, IsCached
<1>4. s \in Entries <=> IsCached(s)
  BY DEF Entries
<1>5. sector_cache_count = Cardinality(Entries)
  BY DEF CountIsNumberOfEntries, Entries
<1>6. Cardinality(Entries') = Cardinality(Entries)
                                 + (IF IsCached(s) THEN 0 ELSE 1)
  <2>1. Cardinality(Entries) \in Nat
    BY <1>2, FS_CardinalityType
  <2>2. Cardinality(Entries \cup {s})
          = IF s \in Entries THEN Cardinality(Entries)
                             ELSE Cardinality(Entries) + 1
    BY <1>2, FS_AddElement
  <2> QED
    BY <1>3, <1>4, <2>1, <2>2
<1>7. sector_cache_count' = Cardinality(Entries')
  BY <1>5, <1>6 DEF Store
<1> QED
  BY <1>7 DEF CountIsNumberOfEntries, Entries

LEMMA ClearCountLemma ==
  ASSUME ClearCache
  PROVE  CountIsNumberOfEntries'
<1>1. Entries' = {}
  BY DEF Entries, ClearCache, EmptyCache, IsCached
<1> QED
  BY <1>1, FS_EmptySet DEF CountIsNumberOfEntries, Entries, ClearCache

LEMMA CountStepLemma ==
  ASSUME IInv, CountIsNumberOfEntries, [Next]_vars
  PROVE  CountIsNumberOfEntries'
<1>1. CASE UNCHANGED <<sector_cache, sector_cache_count>>
  BY <1>1 DEF CountIsNumberOfEntries, IsCached
<1>2. ASSUME NEW s \in Sectors, NEW v \in Values, write_sector(s, v)
      PROVE  CountIsNumberOfEntries'
  BY <1>2, StoreCountLemma, ClearCountLemma DEF write_sector, IInv, TypeOK
<1>3. CASE StoreNext
  <2>1. rd \in ReadInProgress /\ rd.next < rd.end
    BY <1>3 DEF IInv, TypeOK, StoreNext, NoRead
  <2>2. rd.next \in Sectors /\ rd.data[rd.next] \in Values
    BY <2>1, SectorsAssumption DEF ReadInProgress, Sectors, Contents
  <2> QED
    BY <1>3, <2>2, StoreCountLemma, ClearCountLemma DEF StoreNext, IInv, TypeOK
<1>4. CASE StartSectorCommand
  BY <1>4, ClearCountLemma DEF StartSectorCommand
<1> QED
  BY <1>1, <1>2, <1>3, <1>4
     DEF Next, vars, StartCommand, ReadCached, ReadBatch, ReturnRead,
         execute_write_queue, EndCommand, FailCommand, Quit

\* sector_cache_count is the number of sectors with an entry.
THEOREM CountTheorem == Spec => []CountIsNumberOfEntries
<1>1. Init => CountIsNumberOfEntries
  <2> SUFFICES ASSUME Init PROVE CountIsNumberOfEntries
    OBVIOUS
  <2>1. Entries = {} /\ sector_cache_count = 0
    BY DEF Init, Entries, EmptyCache, IsCached
  <2> QED
    BY <2>1, FS_EmptySet DEF CountIsNumberOfEntries, Entries
<1>2. IInv /\ CountIsNumberOfEntries /\ [Next]_vars => CountIsNumberOfEntries'
  BY CountStepLemma
<1> QED
  BY <1>1, <1>2, Invariance, PTL DEF Spec

-----------------------------------------------------------------------------
\* The card and the queue together implement a disk with a write-back buffer:
\* no write is lost or undone, whatever merges and flushes happen.
THEOREM Refinement == Spec => ImplementsWriteBackDisk
<1>1. Init => Disk!Init
  <2> SUFFICES ASSUME Init PROVE Disk!Init
    OBVIOUS
  <2>1. card \in Contents /\ write_queue = <<>>
    BY DEF Init
  <2>2. Latest = card
    BY <2>1, ExecutedEmptyLemma DEF Latest
  <2> QED
    BY <2>1, <2>2 DEF Disk!Init, Disk!Contents, Contents
<1>2. IInv /\ [Next]_vars => [Disk!Next]_(Disk!vars)
  <2> SUFFICES ASSUME IInv, [Next]_vars PROVE [Disk!Next]_(Disk!vars)
    OBVIOUS
  <2>1. DiskStep
    BY StepLemma
  <2>2. ASSUME NEW s \in Sectors, NEW v \in Values,
               Latest' = [Latest EXCEPT ![s] = v],
               card' \in {card, Latest, Latest'}
        PROVE  Disk!Next
    BY <2>2 DEF Disk!Next, Disk!Write
  <2>3. CASE Latest' = Latest /\ card' \in {card, Latest}
    BY <2>3 DEF Disk!Next, Disk!Sync, Disk!vars
  <2> QED
    BY <2>1, <2>2, <2>3 DEF DiskStep
<1> QED
  BY <1>1, <1>2, Invariance, PTL DEF Spec, Disk!Spec, ImplementsWriteBackDisk

=============================================================================
