--------------------------- MODULE SerialTransfer ---------------------------
(***************************************************************************)
(* mega65_ftp over the serial line: the client writes data and a list of   *)
(* jobs into the memory of the MEGA65 through the monitor, then the number *)
(* of jobs, and remotesd.c, which polls that number, runs them and answers *)
(* on the same line.                                                       *)
(***************************************************************************)
EXTENDS Integers, Sequences, SequencesExt

CONSTANTS
  Half,         \* 0x80: the flag of a run in a code byte
  SectorSize,   \* 512
  MaxSector,    \* the modelled sectors of the card are 0 .. MaxSector
  Lookahead,    \* characters behind a header when it is recognised (31 - 24)
  Jobs,         \* what the client may ask for
  MaxJobs       \* bound on the jobs the client runs

SerialAssumption ==
  /\ Half \in Nat /\ Half > 4
  /\ SectorSize \in Nat \ {0}
  /\ MaxSector \in Nat
  /\ Lookahead \in Nat \ {0}
  /\ MaxJobs \in Nat

-----------------------------------------------------------------------------
(* The run-length code: the encoder of remotesd.c and the decoder of          *)
(* mega65_ftp.c.  A code byte below Half announces that many raw bytes, a     *)
(* code byte Half + n a run of n times the next byte.                         *)

\* Encoder: obuf[0..olen-1], the length and the value of the run at its end,
\* and what went out on the serial line.
rle_init(filler) ==
  [obuf |-> << >>, run |-> 0, last |-> filler, out |-> << >>]

SendRun(e) == e.out \o <<Half + e.run, e.last>>
SendRaw(e, bytes) ==
  IF bytes = << >> THEN e.out ELSE e.out \o <<Len(bytes)>> \o bytes

\* A full buffer announces Half - 1 bytes and sends Half: the last one was
\* never written, it is 0.
FlushFull(e) ==
  IF Len(e.obuf) = Half - 1
  THEN [e EXCEPT !.out = Append(SendRaw(e, e.obuf), 0), !.obuf = << >>, !.run = 0]
  ELSE IF e.run = Half - 1
  THEN [e EXCEPT !.out = SendRun(e), !.run = 0]
  ELSE e

PutSame(e, b) ==
  LET pending == Len(e.obuf) + 1 IN
  IF e.run + 1 = 3
  THEN [e EXCEPT !.run = 3, !.obuf = << >>,
                 !.out = IF pending > 3 THEN SendRaw(e, SubSeq(e.obuf, 1, pending - 3))
                                        ELSE e.out]
  ELSE IF e.run + 1 < 3
  THEN [e EXCEPT !.run = @ + 1, !.obuf = Append(@, b)]
  ELSE [e EXCEPT !.run = @ + 1]

\* Wrong variant: a run that ends is sent with the byte that ends it.
PutOther_EndsRun(e, b) ==
  [e EXCEPT !.out = IF e.run > 2 THEN SendRun([e EXCEPT !.last = b]) ELSE e.out,
            !.run = 1, !.last = b, !.obuf = Append(@, b)]

PutOther(e, b) ==
  [e EXCEPT !.out = IF e.run > 2 THEN SendRun(e) ELSE e.out,
            !.run = 1, !.last = b, !.obuf = Append(@, b)]

rle_write_byte(e, b) ==
  LET f == FlushFull(e) IN
  IF b = f.last THEN PutSame(f, b) ELSE PutOther(f, b)

rle_finalise(e) == IF e.run > 2 THEN SendRun(e) ELSE SendRaw(e, e.obuf)

\* Decoder: what is left of a run or of raw bytes, the bytes still expected
\* and the bytes received.
queue_data_decode(d, v) ==
  IF d.runLeft # 0
  THEN [d EXCEPT !.left = @ - d.runLeft, !.runLeft = 0,
                 !.data = @ \o [i \in 1 .. d.runLeft |-> v]]
  ELSE IF d.rawLeft # 0
  THEN [d EXCEPT !.left = @ - 1, !.rawLeft = @ - 1, !.data = Append(@, v)]
  ELSE IF v >= Half
  THEN [d EXCEPT !.runLeft = v % Half]
  ELSE [d EXCEPT !.rawLeft = v]

queue_data_decode_raw(d, v) ==
  [d EXCEPT !.left = @ - 1, !.data = Append(@, v)]

-----------------------------------------------------------------------------
(* Card and jobs *)

Sectors == 0 .. MaxSector
JobNumbers == 1 .. MaxJobs

\* The content job n writes to a sector; 0 is what the card held before.  The
\* bytes of a sector tell its contents apart.
Content(n, s) == (n - 1) * (MaxSector + 1) + s + 1
Flash(s) == 1 + 2 * s
Bytes(content) == [i \in 1 .. SectorSize |-> (content + i) % (2 * Half)]

VARIABLES
  pc,            \* client: "ready", "jobs", "count" or "results"
  jobNo,         \* client: jobs begun
  job,           \* client: the job at hand
  recent,        \* client: the last characters of text received
  decoder,       \* client: data_byte_count, run and raw counts, data
  rle_enable,    \* client: the data at hand is run-length coded
  mem,           \* MEGA65 memory: buffer at $50000, jobs at $C001, $C000
  srv,           \* remotesd.c: where it is in its loop, and its variables
  card,          \* content of each sector of the SD card
  line           \* characters on their way from the MEGA65 to the PC

clientVars == <<pc, jobNo, job, recent, decoder, rle_enable>>
serverVars == <<srv, card>>
vars == <<clientVars, mem, serverVars, line>>

NoJob == [kind |-> "none"]
NoDecoder == [left |-> 0, runLeft |-> 0, rawLeft |-> 0, data |-> << >>]

\* Characters: a header or a text stands for its last character; the texts
\* between data are longer than the lookahead.
Header(rle, size) == [is |-> "header", rle |-> rle, size |-> size]
Byte(v) == [is |-> "byte", v |-> v]
BatchDone == [is |-> "ftbatchdone"]
JobDone == [i \in 1 .. Lookahead |-> [is |-> "text"]]
Value(c) == IF c.is = "byte" THEN c.v ELSE 0
AsBytes(values) == [i \in DOMAIN values |-> Byte(values[i])]

Init ==
  /\ pc = "ready" /\ jobNo = 0 /\ job = NoJob
  /\ recent = << >> /\ decoder = NoDecoder /\ rle_enable = FALSE
  /\ mem = [buffer |-> << >>, jobs |-> << >>, count |-> 0]
  /\ srv = [at |-> "poll", jid |-> 0, job_count |-> 0, sector_count |-> 0,
            sector_number |-> 0, read_pending |-> FALSE, sd_buffer |-> 0,
            rle |-> rle_init(0), coded |-> 0]
  /\ card = [s \in Sectors |-> 0]
  /\ line = << >>

-----------------------------------------------------------------------------
(* The client *)

\* execute_write_queue puts the data of the queue in memory first, one job per
\* sector refers to it; every other job is a list of one.
ExecuteWrites(j) ==
  /\ pc = "ready" /\ jobNo < MaxJobs /\ j.kind = "write"
  /\ jobNo' = jobNo + 1 /\ job' = j /\ pc' = "jobs"
  /\ mem' = [mem EXCEPT !.buffer =
               [i \in 1 .. j.n |-> Content(jobNo + 1, j.start + i - 1)]]
  /\ UNCHANGED <<recent, decoder, rle_enable>>

ExecuteOther(j) ==
  /\ pc = "ready" /\ jobNo < MaxJobs /\ j.kind # "write"
  /\ jobNo' = jobNo + 1 /\ job' = j /\ pc' = "jobs"
  /\ UNCHANGED <<recent, decoder, rle_enable, mem>>

queue_cmds ==
  IF job.kind = "write"
  THEN [i \in 1 .. job.n |-> [kind |-> "write", sector |-> job.start + i - 1, slot |-> i]]
  ELSE <<job>>

\* queue_execute: the list of jobs, then their number; then the answers.
PushJobs ==
  /\ pc = "jobs"
  /\ mem' = [mem EXCEPT !.jobs = queue_cmds]
  /\ pc' = "count"
  /\ UNCHANGED <<jobNo, job, recent, decoder, rle_enable>>

PokeCount ==
  /\ pc = "count"
  /\ mem' = [mem EXCEPT !.count = Len(queue_cmds)]
  /\ pc' = "results"
  /\ decoder' = [decoder EXCEPT !.data = << >>, !.left = 0]
  /\ UNCHANGED <<jobNo, job, recent, rle_enable>>

decode(rle, d, c) ==
  IF d.left = 0 THEN d
  ELSE IF rle THEN queue_data_decode(d, Value(c))
              ELSE queue_data_decode_raw(d, Value(c))

ReceiveData(c) ==
  /\ decoder.left # 0
  /\ decoder' = decode(rle_enable, decoder, c)
  /\ UNCHANGED <<pc, jobNo, job, recent, rle_enable>>

\* A header is recognised when it has reached the start of the window of recent
\* characters: what follows it there is data already.
ReceiveText(c) ==
  LET all == Append(recent, c)
      window == IF Len(all) <= Lookahead + 1 THEN all ELSE Tail(all)
  IN
  /\ decoder.left = 0
  /\ recent' = window
  /\ IF c = BatchDone
     THEN pc' = "ready" /\ UNCHANGED <<decoder, rle_enable>>
     ELSE /\ pc' = pc
          /\ IF Head(window).is = "header" /\ Len(window) = Lookahead + 1
             THEN LET h == Head(window)
                      Decode(d, ch) == decode(h.rle, d, ch)
                  IN /\ rle_enable' = h.rle
                     /\ decoder' = FoldLeft(Decode,
                          [decoder EXCEPT !.left = h.size, !.runLeft = 0, !.rawLeft = 0],
                          Tail(window))
             ELSE UNCHANGED <<decoder, rle_enable>>
  /\ UNCHANGED <<jobNo, job>>

job_process_results ==
  /\ pc = "results" /\ line # << >>
  /\ line' = Tail(line)
  /\ ReceiveData(Head(line)) \/ ReceiveText(Head(line))
  /\ UNCHANGED mem

-----------------------------------------------------------------------------
(* remotesd.c.  Its memory of the job list is the list itself: it reads a   *)
(* job when it comes to it.                                                 *)

NextJob(r) ==
  LET jid == r.jid + 1 IN
  [r EXCEPT !.jid = jid, !.at = IF jid > r.job_count THEN "clear" ELSE "job"]

TakeList ==
  /\ srv.at = "poll" /\ mem.count # 0
  /\ srv' = NextJob([srv EXCEPT !.job_count = mem.count, !.jid = 0])
  /\ UNCHANGED <<card, mem, line>>

CurrentJob == mem.jobs[srv.jid]

WriteSector ==
  /\ srv.at = "job" /\ CurrentJob.kind = "write"
  /\ card' = [card EXCEPT ![CurrentJob.sector] = mem.buffer[CurrentJob.slot]]
  /\ srv' = NextJob(srv)
  /\ UNCHANGED <<mem, line>>

\* Sectors, of the card (0x04) or of the flash (0x0f), are streamed uncompressed;
\* the number of bytes comes first.
StartStream ==
  /\ srv.at = "job" /\ CurrentJob.kind \in {"read", "flash"}
  /\ line' = Append(line, Header(FALSE, CurrentJob.n * SectorSize))
  /\ srv' = [srv EXCEPT !.at = "stream", !.sector_count = CurrentJob.n,
                        !.sector_number = CurrentJob.start, !.read_pending = FALSE]
  /\ UNCHANGED <<card, mem>>

\* Wrong variant: the number of the sector is advanced before it is read.
ScheduleSector_Next ==
  /\ srv.at = "stream" /\ srv.sector_count # 0 /\ ~srv.read_pending
  /\ srv' = [srv EXCEPT !.read_pending = TRUE, !.sector_count = @ - 1,
                        !.sector_number = @ + 1,
                        !.sd_buffer = IF CurrentJob.kind = "flash"
                                      THEN Flash(srv.sector_number)
                                      ELSE card[(srv.sector_number + 1) % (MaxSector + 1)]]
  /\ UNCHANGED <<card, mem, line>>

ScheduleSector ==
  /\ srv.at = "stream" /\ srv.sector_count # 0 /\ ~srv.read_pending
  /\ srv' = [srv EXCEPT !.read_pending = TRUE, !.sector_count = @ - 1,
                        !.sector_number = @ + 1,
                        !.sd_buffer = IF CurrentJob.kind = "flash"
                                      THEN Flash(srv.sector_number)
                                      ELSE card[srv.sector_number]]
  /\ UNCHANGED <<card, mem, line>>

\* The sector is copied out of the SD buffer and sent in the same round.
SendSector ==
  /\ srv.at = "stream" /\ srv.read_pending
  /\ line' = line \o AsBytes(Bytes(srv.sd_buffer))
  /\ srv' = [srv EXCEPT !.read_pending = FALSE]
  /\ UNCHANGED <<card, mem>>

EndStream ==
  /\ srv.at = "stream" /\ srv.sector_count = 0 /\ ~srv.read_pending
  /\ line' = line \o JobDone
  /\ srv' = NextJob(srv)
  /\ UNCHANGED <<card, mem>>

\* Job 0x11: memory, run-length coded byte by byte as it goes out.
Filler == 2 * Half - 1

StartMemory ==
  /\ srv.at = "job" /\ CurrentJob.kind = "memory"
  /\ line' = Append(line, Header(TRUE, Len(CurrentJob.bytes)))
  /\ srv' = [srv EXCEPT !.at = "memory", !.rle = rle_init(Filler), !.coded = 0]
  /\ UNCHANGED <<card, mem>>

SendByte ==
  /\ srv.at = "memory" /\ srv.coded < Len(CurrentJob.bytes)
  /\ LET e == rle_write_byte(srv.rle, CurrentJob.bytes[srv.coded + 1]) IN
       /\ line' = line \o AsBytes(e.out)
       /\ srv' = [srv EXCEPT !.rle = [e EXCEPT !.out = << >>], !.coded = @ + 1]
  /\ UNCHANGED <<card, mem>>

EndMemory ==
  /\ srv.at = "memory" /\ srv.coded = Len(CurrentJob.bytes)
  /\ line' = line \o AsBytes(rle_finalise(srv.rle)) \o JobDone
  /\ srv' = NextJob(srv)
  /\ UNCHANGED <<card, mem>>

\* Mount and version jobs send nothing the client decodes.
OtherJob ==
  /\ srv.at = "job" /\ CurrentJob.kind \in {"mount", "version"}
  /\ line' = IF CurrentJob.kind = "version" THEN line \o JobDone ELSE line
  /\ srv' = NextJob(srv)
  /\ UNCHANGED <<card, mem>>

ClearCount ==
  /\ srv.at = "clear"
  /\ mem' = [mem EXCEPT !.count = 0]
  /\ srv' = [srv EXCEPT !.at = "report"]
  /\ UNCHANGED <<card, line>>

\* Wrong variant: the end of the batch is not reported.
ReportBatch_Silent ==
  /\ srv.at = "report"
  /\ srv' = [srv EXCEPT !.at = "poll"]
  /\ UNCHANGED <<card, mem, line>>

ReportBatch ==
  /\ srv.at = "report"
  /\ line' = Append(line, BatchDone)
  /\ srv' = [srv EXCEPT !.at = "poll"]
  /\ UNCHANGED <<card, mem>>

-----------------------------------------------------------------------------

Client ==
  /\ \/ /\ \/ \E j \in Jobs : ExecuteWrites(j) \/ ExecuteOther(j)
           \/ PushJobs
           \/ PokeCount
        /\ UNCHANGED line
     \/ job_process_results
  /\ UNCHANGED serverVars

Server ==
  /\ \/ TakeList \/ WriteSector \/ StartStream \/ ScheduleSector \/ SendSector
     \/ EndStream \/ StartMemory \/ SendByte \/ EndMemory \/ OtherJob
     \/ ClearCount \/ ReportBatch
  /\ UNCHANGED clientVars

Next == Client \/ Server

Spec == Init /\ [][Next]_vars

\* The MEGA65 polls and works in an endless loop, the client waits for its
\* answers in one.
Waiting ==
  /\ \/ (PushJobs \/ PokeCount) /\ UNCHANGED line
     \/ job_process_results
  /\ UNCHANGED serverVars

-----------------------------------------------------------------------------
(* Properties *)

\* Every variable has its type.
TypeOK ==
  /\ pc \in {"ready", "jobs", "count", "results"}
  /\ jobNo \in 0 .. MaxJobs /\ job \in Jobs \cup {NoJob}
  /\ Len(recent) <= Lookahead + 1
  /\ decoder.left \in Nat /\ decoder.runLeft \in Nat /\ decoder.rawLeft \in Nat
  /\ rle_enable \in BOOLEAN
  /\ mem.count \in 0 .. MaxSector + 1
  /\ srv.at \in {"poll", "job", "stream", "memory", "clear", "report"}
  /\ srv.sector_count \in 0 .. MaxSector + 1
  /\ card \in [Sectors -> 0 .. MaxJobs * (MaxSector + 1)]

\* What the bytes received for sector s of a read say.
ReadBack(s) ==
  LET first == (s - job.start) * SectorSize
      bytes == SubSeq(decoder.data, first + 1, first + SectorSize)
      fitting == {c \in 0 .. MaxJobs * (MaxSector + 1) : Bytes(c) = bytes}
  IN IF fitting = {} THEN -1 ELSE CHOOSE c \in fitting : TRUE

\* The serial protocol, too, is a disk that executes one job at a time.
Disk == INSTANCE RemoteDisk WITH
  disk    <- card,
  current <- IF pc = "ready" THEN NoJob ELSE job,
  begun   <- jobNo,
  result  <- IF pc = "ready" /\ job.kind = "read"
             THEN [s \in job.start .. job.start + job.n - 1 |-> ReadBack(s)]
             ELSE [s \in {} |-> 0]

\* Memory arrives as it was sent, through the run-length code, and the flash
\* without it.
MemoryArrives ==
  /\ pc = "ready" /\ job.kind = "memory" => decoder.data = job.bytes
  /\ pc = "ready" /\ job.kind = "flash" =>
       decoder.data = FlattenSeq([i \in 1 .. job.n |-> Bytes(Flash(job.start + i - 1))])

\* When the client takes a batch for finished, nothing of it is left: no
\* character on the line that the next batch could take for an answer, and
\* remotesd.c will not wipe out the number of jobs of the next batch.
QuietBetweenBatches ==
  pc \in {"ready", "jobs", "count"} =>
    /\ line = << >>
    /\ srv.at = "poll" /\ mem.count = 0

=============================================================================
