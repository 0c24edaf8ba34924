---------------------------- MODULE SectorCache ----------------------------
(***************************************************************************)
(* The sector layer of mega65_ftp (read_sector, write_sector and the       *)
(* physical write queue): the FAT32 code and the raw sector commands read  *)
(* and write 512-byte sectors through a sector cache, and writes collect   *)
(* in a queue of jobs that execute_write_queue sends to the MEGA65.        *)
(*                                                                         *)
(* The program is single threaded.  The loop of read_sector that stores a  *)
(* batch of sectors in the cache is one action per iteration, because it   *)
(* may flush the queue half way; every other function is one action.       *)
(***************************************************************************)
EXTENDS Integers, Sequences, FiniteSets

CONSTANTS
  MaxSector,          \* the modelled sectors are 0 .. MaxSector
  Values,             \* contents of a sector
  NotCached,          \* marks a sector without an entry in sector_cache
  SECTOR_CACHE_SIZE,  \* entries of the sector cache (4096)
  QueueCapacity,      \* sectors write_data_buffer may hold (32768 / 512)
  BatchSizes,         \* values batch_read_size takes (16, 64, 128)
  Commands            \* kinds of command the user types

ASSUME SectorsAssumption == MaxSector \in Nat
ASSUME ValuesAssumption == NotCached \notin Values
ASSUME SizesAssumption ==
  /\ SECTOR_CACHE_SIZE \in Nat \ {0}
  /\ QueueCapacity \in Nat \ {0}
  /\ BatchSizes \subseteq Nat \ {0}
ASSUME CommandsAssumption == Commands \subseteq {"flushing", "putslot", "reading"}

Sectors == 0 .. MaxSector
Contents == [Sectors -> Values]
Job == [sector : Sectors, data : Values]

VARIABLES
  card,                \* what the SD card holds
  write_queue,         \* write_sector_numbers with write_data_buffer
  sector_cache,        \* cached content of each sector, or NotCached
  sector_cache_count,  \* entries of sector_cache in use
  rd,                  \* the batch read_sector is storing in the cache
  buffer,              \* what the read_sector that just returned delivered
  cmd,                 \* the command being executed
  clobbered            \* history: cached sectors overwritten with card data
                       \* while a newer write to them was queued

vars == <<card, write_queue, sector_cache, sector_cache_count, rd, buffer,
          cmd, clobbered>>

-----------------------------------------------------------------------------
(* The write queue *)

JobsFor(q, s) == {j \in DOMAIN q : q[j].sector = s}

Pending(q) == {s \in Sectors : JobsFor(q, s) # {}}

\* The card after the jobs of q ran in order: the last job for a sector wins.
Executed(c, q) ==
  [s \in Sectors |->
     IF s \in Pending(q)
       THEN q[CHOOSE j \in JobsFor(q, s) : \A k \in JobsFor(q, s) : k <= j].data
       ELSE c[s]]

Full(q) == Len(q) >= QueueCapacity

\* Wrong variants, for the mutation runs: a second job instead of a merge, and
\* a merge that keeps the old data.
Queued_NoMerge(q, s, v) ==
  Append(IF Full(q) THEN <<>> ELSE q, [sector |-> s, data |-> v])

Queued_KeepOld(q, s, v) ==
  IF s \in Pending(q) THEN q ELSE Queued_NoMerge(q, s, v)

\* The queue after queue_write_sector: the write is merged into a queued job
\* for the same sector, or the queue is flushed when it is full and the job
\* appended.
Queued(q, s, v) ==
  IF s \in Pending(q)
    THEN [j \in DOMAIN q |-> IF q[j].sector = s THEN [q[j] EXCEPT !.data = v]
                                                ELSE q[j]]
    ELSE Append(IF Full(q) THEN <<>> ELSE q, [sector |-> s, data |-> v])

\* Wrong variant: a full queue is emptied without being executed.
CardWhenQueued_Dropped(c, q, s) == c

\* The card after queue_write_sector.
CardWhenQueued(c, q, s) ==
  IF s \notin Pending(q) /\ Full(q) THEN Executed(c, q) ELSE c

\* The logical content of the disk: the card with the queued writes applied.
Latest == Executed(card, write_queue)

-----------------------------------------------------------------------------
(* The sector cache *)

EmptyCache == [s \in Sectors |-> NotCached]

IsCached(s) == sector_cache[s] # NotCached

\* Wrong variant: off by one.
HasRoomFor_OneMore(s) == IsCached(s) \/ sector_cache_count <= SECTOR_CACHE_SIZE

HasRoomFor(s) == IsCached(s) \/ sector_cache_count < SECTOR_CACHE_SIZE

\* Wrong variant: an update is counted as a new entry.
Store_CountsUpdates(s, v) ==
  /\ sector_cache' = [sector_cache EXCEPT ![s] = v]
  /\ sector_cache_count' = IF sector_cache_count < SECTOR_CACHE_SIZE
                             THEN sector_cache_count + 1
                             ELSE sector_cache_count

Store(s, v) ==
  /\ sector_cache' = [sector_cache EXCEPT ![s] = v]
  /\ sector_cache_count' = sector_cache_count + (IF IsCached(s) THEN 0 ELSE 1)

ClearCache ==
  /\ sector_cache' = EmptyCache
  /\ sector_cache_count' = 0
  /\ clobbered' = {}

NoRead == [active |-> FALSE]
NoBuffer == [returned |-> FALSE]

Writing == cmd \in {"flushing", "putslot"}
Busy == (Writing \/ cmd = "reading") /\ ~rd.active

-----------------------------------------------------------------------------
Init ==
  /\ card \in Contents
  /\ write_queue = <<>>
  /\ sector_cache = EmptyCache
  /\ sector_cache_count = 0
  /\ rd = NoRead
  /\ buffer = NoBuffer
  /\ cmd = "prompt"
  /\ clobbered = {}

StartCommand(c) ==
  /\ cmd = "prompt"
  /\ cmd' = c
  /\ buffer' = NoBuffer
  /\ UNCHANGED <<card, write_queue, sector_cache, sector_cache_count, rd,
                 clobbered>>

\* "sector <n>" empties the cache before it reads.
StartSectorCommand ==
  /\ cmd = "prompt"
  /\ cmd' = "reading"
  /\ ClearCache
  /\ buffer' = NoBuffer
  /\ UNCHANGED <<card, write_queue, rd>>

write_sector(s, v) ==
  LET queue  == Queued(write_queue, s, v)
      stored == CardWhenQueued(card, write_queue, s)
  IN
  /\ Busy /\ Writing
  /\ buffer' = NoBuffer
  /\ \/ /\ HasRoomFor(s)
        /\ Store(s, v)
        /\ clobbered' = clobbered \ {s}
        /\ write_queue' = queue
        /\ card' = stored
     \/ /\ ~HasRoomFor(s)
        /\ ClearCache
        /\ write_queue' = <<>>
        /\ card' = Executed(stored, queue)
  /\ UNCHANGED <<rd, cmd>>

\* read_sector finds the sector in the cache.
ReadCached(s) ==
  /\ Busy
  /\ IsCached(s)
  /\ buffer' = [returned |-> TRUE, sector |-> s, data |-> sector_cache[s]]
  /\ UNCHANGED <<card, write_queue, sector_cache, sector_cache_count, rd, cmd,
                 clobbered>>

\* read_sector misses and fetches a batch from the card.  Sectors past the
\* modelled ones are left out of the batch.  (Only sdhc_check reads with
\* CACHE_NO, before the first command, when nothing is cached or queued.)
ReadBatch(s, n) ==
  /\ Busy
  /\ ~IsCached(s)
  /\ rd' = [active |-> TRUE, sector |-> s, next |-> s,
            end |-> IF s + n > MaxSector + 1 THEN MaxSector + 1 ELSE s + n,
            data |-> card, pending |-> Pending(write_queue)]
  /\ buffer' = NoBuffer
  /\ UNCHANGED <<card, write_queue, sector_cache, sector_cache_count, cmd,
                 clobbered>>

\* One iteration of the loop that stores the batch in the cache.
StoreNext ==
  /\ rd.active
  /\ rd.next < rd.end
  /\ \/ /\ HasRoomFor(rd.next)
        /\ Store(rd.next, rd.data[rd.next])
        /\ clobbered' = IF rd.next \in rd.pending THEN clobbered \cup {rd.next}
                                                  ELSE clobbered \ {rd.next}
        /\ UNCHANGED <<card, write_queue>>
     \/ /\ ~HasRoomFor(rd.next)
        /\ ClearCache
        /\ card' = Latest
        /\ write_queue' = <<>>
  /\ rd' = [rd EXCEPT !.next = @ + 1]
  /\ UNCHANGED <<buffer, cmd>>

\* read_sector returns the first sector of the batch.
ReturnRead ==
  /\ rd.active
  /\ rd.next = rd.end
  /\ buffer' = [returned |-> TRUE, sector |-> rd.sector,
                data |-> rd.data[rd.sector]]
  /\ rd' = NoRead
  /\ UNCHANGED <<card, write_queue, sector_cache, sector_cache_count, cmd,
                 clobbered>>

execute_write_queue ==
  /\ Busy /\ Writing
  /\ card' = Latest
  /\ write_queue' = <<>>
  /\ buffer' = NoBuffer
  /\ UNCHANGED <<sector_cache, sector_cache_count, rd, cmd, clobbered>>

\* The commands that write end with execute_write_queue; upload_slot does not.
EndCommand ==
  /\ Busy
  /\ cmd' = "prompt"
  /\ \/ cmd = "flushing" /\ card' = Latest /\ write_queue' = <<>>
     \/ cmd # "flushing" /\ UNCHANGED <<card, write_queue>>
  /\ buffer' = NoBuffer
  /\ UNCHANGED <<sector_cache, sector_cache_count, rd, clobbered>>

\* A command that gives up (no free cluster, a name that exists) returns
\* before it reaches its execute_write_queue.
FailCommand ==
  /\ Busy
  /\ cmd = "flushing"
  /\ cmd' = "prompt"
  /\ buffer' = NoBuffer
  /\ UNCHANGED <<card, write_queue, sector_cache, sector_cache_count, rd,
                 clobbered>>

\* "quit" resets the MEGA65 and exits.
Quit ==
  /\ cmd = "prompt"
  /\ cmd' = "exited"
  /\ buffer' = NoBuffer
  /\ UNCHANGED <<card, write_queue, sector_cache, sector_cache_count, rd,
                 clobbered>>

Next ==
  \/ \E c \in Commands : StartCommand(c)
  \/ StartSectorCommand
  \/ \E s \in Sectors, v \in Values : write_sector(s, v)
  \/ \E s \in Sectors : ReadCached(s)
  \/ \E s \in Sectors, n \in BatchSizes : ReadBatch(s, n)
  \/ StoreNext
  \/ ReturnRead
  \/ execute_write_queue
  \/ EndCommand
  \/ FailCommand
  \/ Quit

Spec == Init /\ [][Next]_vars

-----------------------------------------------------------------------------
(* Properties *)

ReadInProgress ==
  [active : {TRUE}, sector : Sectors, next : 0 .. MaxSector + 1,
   end : 1 .. MaxSector + 1, data : Contents, pending : SUBSET Sectors]

\* Every variable has its type; a read in progress stays inside its batch.
TypeOK ==
  /\ card \in Contents
  /\ write_queue \in Seq(Job)
  /\ sector_cache \in [Sectors -> Values \cup {NotCached}]
  /\ sector_cache_count \in 0 .. SECTOR_CACHE_SIZE
  /\ \/ rd = NoRead
     \/ rd \in ReadInProgress /\ rd.next <= rd.end
  /\ \/ buffer = NoBuffer
     \/ buffer \in [returned : {TRUE}, sector : Sectors, data : Values]
  /\ cmd \in {"prompt", "flushing", "putslot", "reading", "exited"}
  /\ clobbered \in SUBSET Sectors

OneJobPerSector(q) ==
  \A i, j \in DOMAIN q : q[i].sector = q[j].sector => i = j

\* Merging keeps at most one job per sector in a queue that never outgrows
\* write_data_buffer, so the order in which a flush writes distinct sectors,
\* or the batches it splits them into, cannot decide what a sector holds.
QueueHasOneJobPerSector ==
  /\ Len(write_queue) <= QueueCapacity
  /\ OneJobPerSector(write_queue)

\* sector_cache_count counts the entries in use: no sector has two entries
\* and no entry is lost until the cache is cleared.
CountIsNumberOfEntries ==
  sector_cache_count = Cardinality({s \in Sectors : IsCached(s)})

\* A cached sector holds what was last written to it, unless a read-ahead
\* replaced the entry with the card's content while the write was queued.
CoherentUnlessClobbered ==
  \A s \in Sectors : IsCached(s) /\ s \notin clobbered
                       => sector_cache[s] = Latest[s]

\* The sector layer behaves as a disk with a write-back buffer: the queue and
\* the card together always hold the last write to each sector, and a flush
\* leaves the card with all of them.
Disk == INSTANCE WriteBackDisk WITH latest <- Latest, stable <- card

ImplementsWriteBackDisk == Disk!Spec

\* What the comment in read_sector asks for: the buffer returned is the actual
\* sector asked for, as the program last wrote it.
ReadReturnsLastWrite ==
  buffer.returned => buffer.data = Latest[buffer.sector]

=============================================================================
