------------------------------ MODULE EthClient ------------------------------
(***************************************************************************)
(* The PC side of the Ethernet mode of mega65_ftp: process_jobs_ethernet   *)
(* and its job functions, on top of the window of unacknowledged frames of *)
(* etherload_common.  The program is one thread: it sends when a slot of   *)
(* the window is free and receives only inside expect_ack and the          *)
(* wait_..._acks loops.                                                    *)
(***************************************************************************)
EXTENDS EthNet

CONSTANTS
  WindowSize,   \* ethernet_window_size (3 or 28)
  Jobs,         \* the jobs the user's commands may queue
  MayTimeOut    \* TRUE: waits may give up after ETHERNET_TIMEOUT

ASSUME ClientAssumption ==
  /\ WindowSize \in Nat \ {0}
  /\ MayTimeOut \in BOOLEAN

\* The two bytes of a sector number.
Low(s) == s % Byte
High(s) == s \div Byte

\* A batch lies on the card.  What mega65_ftp writes lies in its partition,
\* which begins behind the first 256 sectors (see Matches).
ASSUME JobsAssumption ==
  \A j \in Jobs :
    /\ j.kind \in {"hello", "write", "read", "mount", "quit"}
    /\ j.start \in Sectors
    /\ j.n \in 1 .. MaxBatch
    /\ j.start + j.n - 1 \in Sectors
    /\ j.kind = "write" => High(j.start) # 0
    /\ j.kind = "mount" => j.name \in FileNames

\* ethl_set_queue_length(256) before reads: a batch always fits beside frames
\* an earlier job may have left behind.
MaxSlots == WindowSize + MaxBatch
Slots == 1 .. MaxSlots

VARIABLES
  pc,                   \* where the client is
  jobNo,                \* jobs started; numbers the current job
  job,                  \* the current job
  sent,                 \* packets of the current write batch handed over
  write_batch_counter,
  queue_length,
  frames,               \* unacked_frame_payloads, NoPacket where acknowledged
  order,                \* slots of the unacked frames, oldest first
  queue_read_data,      \* sectors received by the current read
  mount_file_response

clientVars == <<pc, jobNo, job, sent, write_batch_counter, queue_length,
                frames, order, queue_read_data, mount_file_response>>

NoJob == [kind |-> "none", start |-> 0, n |-> 1]
NoResponse == 255
NothingRead == [s \in {} |-> 0]

-----------------------------------------------------------------------------
(* The window *)

InQueue == 1 .. queue_length
Unacked == {k \in InQueue : frames[k] # NoPacket}
FreeSlots == InQueue \ Unacked

\* The i-th free slot.
Rank(k) == Cardinality({j \in FreeSlots : j <= k})
FreeSlot(i) == CHOOSE k \in FreeSlots : Rank(k) = i

\* maybe_send_ack resends the oldest unacked frame of the window.
Oldest ==
  LET first == CHOOSE i \in DOMAIN order :
                 /\ order[i] \in InQueue
                 /\ \A j \in DOMAIN order : order[j] \in InQueue => i <= j
  IN  frames[order[first]]

\* The order without an acknowledged slot.
Without(slot) ==
  RemoveAt(order, CHOOSE i \in DOMAIN order : order[i] = slot)

AllAcked == Unacked = {}

SlotsNeeded == IF job.kind = "read" THEN job.n ELSE queue_length

\* expect_ack and sendto: the frame is noted in the first free slot and sent.
SendFrame(packet) ==
  /\ frames' = [frames EXCEPT ![FreeSlot(1)] = packet]
  /\ order' = Append(order, FreeSlot(1))
  /\ toServer' = Sent(toServer, packet)

\* The bytes 7 to 11 of a packet, which is where the match looks: bytes 12 and
\* 13 are the high bytes of a sector number.  A file name has other characters.
OtherByte == -1
Bytes(p) ==
  IF p.op = "write"
    THEN <<p.counter, p.last, p.slot, Low(p.start), High(p.start)>>
    ELSE IF p.op = "read"
    THEN <<p.last, 0, Low(p.start), High(p.start), 0>>
    ELSE [i \in 1 .. 5 |-> OtherByte]

\* Wrong variant: the slot of a write acknowledgement and the sequence number
\* of a mount reply are not compared.
Matches_ByCommand(rx, tx) ==
  CASE rx.op = "write" -> tx.op = "write" /\ rx.counter = tx.counter
    [] rx.op = "read"  -> tx.op = "read" /\ rx.sector = tx.start
    [] OTHER           -> rx.op = tx.op

\* ethernet_match_payloads: does the reply acknowledge the frame?
Matches(rx, tx) ==
  CASE rx.op = "write" -> Bytes(rx) = Bytes(tx)
    [] rx.op = "read"  ->
         <<Low(rx.sector), High(rx.sector), 0>> = SubSeq(Bytes(tx), 3, 5)
    [] rx.op = "mount" -> tx.op = "mount" /\ rx.seq = tx.seq
    [] rx.op = "broken" -> FALSE
    [] OTHER -> TRUE

-----------------------------------------------------------------------------
(* The jobs *)

ClientInit ==
  /\ pc = "ready"
  /\ jobNo = 0
  /\ job = NoJob
  /\ sent = 0
  /\ write_batch_counter = 0
  /\ queue_length = WindowSize
  /\ frames = [k \in Slots |-> NoPacket]
  /\ order = <<>>
  /\ queue_read_data = NothingRead
  /\ mount_file_response = NoResponse

\* The next job is taken, the window set, and the wait for free slots entered.
\* The login comes first, and nothing after quit.
StartJob(j) ==
  /\ pc = "ready"
  /\ jobNo < MaxJobs
  /\ (j.kind = "hello") = (jobNo = 0 /\ ~LoggedIn)
  /\ job.kind # "quit"
  /\ jobNo' = jobNo + 1
  /\ job' = j
  /\ sent' = 0
  /\ queue_length' = CASE j.kind = "read"               -> MaxSlots
                       [] j.kind \in {"write", "mount"} -> WindowSize
                       [] OTHER                         -> queue_length
  /\ queue_read_data' = IF j.kind = "read" THEN NothingRead ELSE queue_read_data
  /\ pc' = "clear"
  /\ UNCHANGED <<write_batch_counter, frames, order, mount_file_response,
                 linkVars>>

\* The wait at the start of a job is over.  (If there is nothing to wait for the
\* code does not look for packets first; the model may, which is as if the
\* packet had come earlier.)
Cleared ==
  \/ job.kind = "hello"
  \/ Cardinality(FreeSlots) >= SlotsNeeded
  \/ MayTimeOut

BeginSending ==
  /\ pc = "clear"
  /\ Cleared
  /\ pc' = "send"
  /\ mount_file_response' =
       IF job.kind = "mount" THEN NoResponse ELSE mount_file_response
  /\ UNCHANGED <<jobNo, job, sent, write_batch_counter, queue_length, frames,
                 order, queue_read_data, linkVars>>

\* The loop of process_ethernet_write_sectors_job.
Packet(i) == WriteRequest(write_batch_counter, job.n - 1, i, job.start,
                          Content(jobNo, job.start + i))

SendWrite ==
  /\ pc \in {"send", "full"}
  /\ job.kind = "write"
  /\ FreeSlots # {}
  /\ SendFrame(Packet(sent))
  /\ sent' = sent + 1
  /\ pc' = IF sent' = job.n THEN "drain" ELSE "send"
  /\ UNCHANGED <<jobNo, job, write_batch_counter, queue_length,
                 queue_read_data, mount_file_response, toClient, losses>>

\* process_ethernet_read_sectors_job: an acknowledgement is expected for every
\* sector, and one request is sent for all of them.  The frames scheduled ask
\* for one sector in payload[7] = 1, which the MEGA65 reads as two.  (Slots are
\* short only after a wait was given up; the sectors without one are skipped.)
SendRead ==
  /\ pc = "send"
  /\ job.kind = "read"
  /\ frames' = [k \in Slots |->
                  IF k \in FreeSlots /\ Rank(k) <= job.n
                    THEN ReadRequest(job.start + Rank(k) - 1, 1)
                    ELSE frames[k]]
  /\ LET free == Cardinality(FreeSlots)
         scheduled == IF free < job.n THEN free ELSE job.n
     IN  order' = order \o [i \in 1 .. scheduled |-> FreeSlot(i)]
  /\ toServer' = Sent(toServer, ReadRequest(job.start, job.n - 1))
  /\ pc' = "drain"
  /\ UNCHANGED <<jobNo, job, sent, write_batch_counter, queue_length,
                 queue_read_data, mount_file_response, toClient, losses>>

\* The jobs of one packet: login, mount, quit.
SinglePacket == CASE job.kind = "mount" -> MountRequest(jobNo, job.name)
                  [] job.kind = "hello" -> HelloRequest
                  [] job.kind = "quit"  -> QuitRequest

SendSingle ==
  /\ pc \in {"send", "full"}
  /\ job.kind \in {"mount", "hello", "quit"}
  /\ FreeSlots # {}
  /\ SendFrame(SinglePacket)
  /\ pc' = "drain"
  /\ UNCHANGED <<jobNo, job, sent, write_batch_counter, queue_length,
                 queue_read_data, mount_file_response, toClient, losses>>

\* expect_ack finds no free slot and starts to receive.
WindowFull ==
  /\ pc = "send"
  /\ FreeSlots = {}
  /\ pc' = "full"
  /\ UNCHANGED <<jobNo, job, sent, write_batch_counter, queue_length, frames,
                 order, queue_read_data, mount_file_response, linkVars>>

\* expect_ack gives up; ethl_send_packet then does not send the packet, and
\* nobody looks at its result.
SkipPacket ==
  /\ pc = "full"
  /\ MayTimeOut
  /\ sent' = sent + 1
  /\ pc' = IF job.kind = "write" /\ sent' < job.n THEN "send" ELSE "drain"
  /\ UNCHANGED <<jobNo, job, write_batch_counter, queue_length, frames, order,
                 queue_read_data, mount_file_response, linkVars>>

\* The wait at the end of a job is over, by acknowledgement or by timeout.
FinishJob ==
  /\ pc = "drain"
  /\ AllAcked \/ MayTimeOut
  /\ pc' = "ready"
  /\ write_batch_counter' = IF job.kind = "write"
                              THEN (write_batch_counter + 1) % BatchMod
                              ELSE write_batch_counter
  /\ UNCHANGED <<jobNo, job, sent, queue_length, frames, order,
                 queue_read_data, mount_file_response, linkVars>>

-----------------------------------------------------------------------------
(* Receiving and resending, inside the waits *)

Waiting == pc \in {"clear", "full", "drain"}

\* check_if_ack: the first slot of the window that matches is freed, and
\* ethernet_process_result keeps what the reply brought.
Receive(i) ==
  LET rx == toClient[i]
      matching == {k \in Unacked : Matches(rx, frames[k])}
      slot == CHOOSE k \in matching : \A j \in matching : k <= j
  IN
  /\ Waiting
  /\ toClient' = RemoveAt(toClient, i)
  /\ \/ /\ matching = {}
        /\ UNCHANGED <<frames, order, queue_read_data, mount_file_response>>
     \/ /\ matching # {}
        /\ frames' = [frames EXCEPT ![slot] = NoPacket]
        /\ order' = Without(slot)
        /\ queue_read_data' =
             IF rx.op # "read" THEN queue_read_data
             ELSE [s \in DOMAIN queue_read_data \cup {rx.sector} |->
                     IF s = rx.sector THEN rx.data ELSE queue_read_data[s]]
        /\ mount_file_response' =
             IF rx.op = "mount" THEN rx.status ELSE mount_file_response
  /\ UNCHANGED <<pc, jobNo, job, sent, write_batch_counter, queue_length,
                 toServer, losses>>

\* maybe_send_ack after the retransmission interval.
Resend ==
  /\ Waiting
  /\ Unacked # {}
  /\ toServer' = Sent(toServer, Oldest)
  /\ UNCHANGED <<clientVars, toClient, losses>>

\* ethernet_timeout_handler: nothing was heard for ack_timeout (4 s).
GiveUp ==
  /\ Waiting
  /\ MayTimeOut
  /\ Unacked # {}
  /\ pc' = "exited"
  /\ UNCHANGED <<jobNo, job, sent, write_batch_counter, queue_length, frames,
                 order, queue_read_data, mount_file_response, linkVars>>

\* What the client does by itself once it has a job.
ClientWork ==
  \/ BeginSending
  \/ SendWrite
  \/ SendRead
  \/ SendSingle
  \/ WindowFull
  \/ SkipPacket
  \/ FinishJob

ClientStep ==
  \/ \E j \in Jobs : StartJob(j)
  \/ ClientWork
  \/ \E i \in Arriving(toClient) : Receive(i)
  \/ Resend
  \/ GiveUp

=============================================================================
