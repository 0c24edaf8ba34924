----------------------------- MODULE RemoteSDEth -----------------------------
(***************************************************************************)
(* remotesd_eth, the helper on the MEGA65 that executes the jobs arriving  *)
(* by Ethernet.  Its main loop calls process(), which sends the pending    *)
(* reply, finishes a write batch, advances a read batch by one sector and  *)
(* then takes the next packet (get_new_job).  One call of process() is the *)
(* action Transmit (while a reply is pending) followed by the action Poll. *)
(***************************************************************************)
EXTENDS EthNet

CONSTANT Mountable    \* the names mount_file finds on the card

ASSUME MountAssumption == Mountable \subseteq FileNames

VARIABLE srv          \* the program's variables, with the card as a field

NoMount == [seq |-> 0, name |-> "none"]

ServerStates ==
  [card : [Sectors -> Contents],
   send_buf : Replies \cup {NoPacket},
   logged_in : BOOLEAN,
   template : [op : {"none", "write", "read"}, last : Indices,
               start : Sectors],
   current_batch_counter : Counters,
   write_batch_active : BOOLEAN,
   batch_left : 0 .. MaxBatch,
   write_batch_max_id : Indices,
   slots_written : 0 .. MaxBatch,
   slot_ids_received : SUBSET Indices,
   sector_number_write : Sectors,
   write_cache : [Indices -> Contents],
   read_batch_active : BOOLEAN,
   sector_reading : BOOLEAN,
   sector_buffered : BOOLEAN,
   sector_number_read : Nat,
   buffered : [sector : Nat, data : Contents],
   last_mount : [seq : 0 .. MaxJobs, name : FileNames \cup {"none"}],
   quit_requested : BOOLEAN,
   state : {"running", "fatal", "reset"}]

ServerInit ==
  srv = [card |-> [s \in Sectors |-> 0],
         send_buf |-> NoPacket,              \* send_buf_size > 0: a packet
         logged_in |-> LoggedIn,             \* reply_template.ftp.dst_port
         template |-> [op |-> "none", last |-> 0, start |-> 0],
         current_batch_counter |-> BatchMod - 1,
         write_batch_active |-> FALSE,
         batch_left |-> 0,
         write_batch_max_id |-> 0,
         slots_written |-> 0,
         slot_ids_received |-> {},
         sector_number_write |-> 0,
         write_cache |-> [i \in Indices |-> 0],
         read_batch_active |-> FALSE,
         sector_reading |-> FALSE,
         sector_buffered |-> FALSE,
         sector_number_read |-> 0,
         buffered |-> [sector |-> 0, data |-> 0],  \* sector_number_buf, _buf
         last_mount |-> NoMount,             \* last_mount_seqnum, _filename
         quit_requested |-> FALSE,
         state |-> "running"]                \* or "fatal", "reset"

\* stop_fatal prints a message and stops the machine.
Fatal(s) == [s EXCEPT !.state = "fatal"]

-----------------------------------------------------------------------------
(* Writing *)

\* Wrong variant: the comparison runs the other way round.
Outdated_Swapped(previous, received) ==
  received # previous /\ (received - previous) % BatchMod < BatchMod \div 2

\* is_received_batch_counter_outdated, in modular arithmetic.
Outdated(previous, received) ==
  received # previous /\ (previous - received) % BatchMod < BatchMod \div 2

\* Wrong variant: the batch does not become the current one.
NewBatch_KeepCounter(s, p) ==
  [s EXCEPT !.write_batch_active = TRUE,
            !.slots_written = 0,
            !.slot_ids_received = {},
            !.batch_left = p.last + 1,
            !.write_batch_max_id = p.last,
            !.sector_number_write = p.start,
            !.template = [op |-> "write", last |-> p.last, start |-> p.start]]

\* init_new_write_batch.
NewBatch(s, p) ==
  IF p.last + 1 > 128 THEN Fatal(s)
  ELSE [s EXCEPT !.write_batch_active = TRUE,
                 !.slots_written = 0,
                 !.slot_ids_received = {},
                 !.batch_left = p.last + 1,
                 !.write_batch_max_id = p.last,
                 !.sector_number_write = p.start,
                 !.current_batch_counter = p.counter,
                 !.template = [op |-> "write", last |-> p.last,
                               start |-> p.start]]

\* multi_sector_write_next: the next slot goes to the card if it is there.
WriteNext(s) ==
  IF s.slots_written > s.write_batch_max_id THEN Fatal(s)
  ELSE IF s.slots_written \notin s.slot_ids_received THEN s
  ELSE [s EXCEPT
          !.card[s.sector_number_write + s.slots_written] =
             s.write_cache[s.slots_written],
          !.slots_written = @ + 1]

\* Wrong variants: a duplicate slot is counted once more; a slot is marked as
\* received but not counted.
HandleBatchWrite_Recount(s, p) ==
  [s EXCEPT !.slot_ids_received = @ \cup {p.slot},
            !.write_cache[p.slot] = p.data,
            !.batch_left = @ - 1]

HandleBatchWrite_NoCount(s, p) ==
  IF p.slot \in s.slot_ids_received THEN s
  ELSE WriteNext([s EXCEPT !.slot_ids_received = @ \cup {p.slot},
                           !.write_cache[p.slot] = p.data])

\* handle_batch_write: a slot received before must bring the same data.
HandleBatchWrite(s, p) ==
  IF p.slot \in s.slot_ids_received
    THEN IF s.write_cache[p.slot] = p.data THEN s ELSE Fatal(s)
    ELSE WriteNext([s EXCEPT !.slot_ids_received = @ \cup {p.slot},
                             !.write_cache[p.slot] = p.data,
                             !.batch_left = @ - 1])

\* Wrong variant: a batch waits for its last write as long as slots remain.
FinishBatch_Skip(s) ==
  IF s.batch_left = 0 /\ s.write_batch_active
    THEN [s EXCEPT !.write_batch_active = FALSE] ELSE s

\* process() writes the remaining slots once all of a batch are there.  (Were
\* one missing, its loop would not end.)
FinishBatch(s) ==
  LET rest == s.slots_written .. s.write_batch_max_id IN
  IF ~(s.batch_left = 0 /\ s.write_batch_active) THEN s
  ELSE IF ~(rest \subseteq s.slot_ids_received) THEN Fatal(s)
  ELSE [s EXCEPT
          !.card = [x \in Sectors |->
                      IF x - s.sector_number_write \in rest
                        THEN s.write_cache[x - s.sector_number_write]
                        ELSE @[x]],
          !.slots_written = s.write_batch_max_id + 1,
          !.write_batch_active = FALSE]

\* A request to write one sector.
WriteSingle(s, p) ==
  IF s.write_batch_active \/ Outdated(s.current_batch_counter, p.counter)
    THEN Fatal(s)
    ELSE [s EXCEPT
            !.current_batch_counter = p.counter,
            !.card[p.start + p.slot] = p.data,
            !.send_buf = WriteAck(p.counter, 0, 0, p.start + p.slot)]

\* Wrong variant: a packet of another batch is stored in the active one.
WriteMulti_AnyCounter(s, p) ==
  LET started == IF ~s.write_batch_active
                      /\ p.counter # s.current_batch_counter
                   THEN NewBatch(s, p) ELSE s
  IN  [HandleBatchWrite(started, p) EXCEPT !.send_buf =
         WriteAck(p.counter, started.template.last, p.slot,
                  started.template.start)]

\* A request of a batch: it starts the batch unless one is active or it
\* carries the current counter, and it is acknowledged in any case, with the
\* size and the start sector of the template.
WriteMulti(s, p) ==
  LET started == IF ~s.write_batch_active
                      /\ p.counter # s.current_batch_counter
                   THEN NewBatch(s, p) ELSE s
      handled == IF p.counter = started.current_batch_counter
                   THEN HandleBatchWrite(started, p) ELSE started
  IN  [handled EXCEPT !.send_buf =
         IF handled.template.op = "write"
           THEN WriteAck(p.counter, handled.template.last, p.slot,
                         handled.template.start)
           ELSE BrokenReply]

-----------------------------------------------------------------------------
(* Reading *)

StartRead(s, p) ==
  IF s.write_batch_active \/ p.last > 127 THEN Fatal(s)
  ELSE [s EXCEPT !.template = [op |-> "read", last |-> 0, start |-> @.start],
                 !.batch_left = p.last + 1,
                 !.sector_number_read = p.start,
                 !.read_batch_active = TRUE]

\* A buffered sector becomes the pending reply, with the template's header.
BuildReply(s) ==
  IF s.sector_buffered
    THEN [s EXCEPT !.sector_buffered = FALSE,
                   !.send_buf = IF s.template.op = "read"
                                  THEN SectorReply(s.buffered.sector,
                                                   s.buffered.data)
                                  ELSE BrokenReply]
    ELSE s

\* The card delivered the sector being read.  Cards do not end at MaxSector:
\* what lies behind it reads as 0.
CollectSector(s) ==
  IF s.sector_reading
    THEN [s EXCEPT
            !.buffered = [sector |-> s.sector_number_read,
                          data |-> IF s.sector_number_read \in Sectors
                                     THEN s.card[s.sector_number_read] ELSE 0],
            !.batch_left = @ - 1,
            !.read_batch_active = s.batch_left # 1,
            !.sector_number_read = @ + 1,
            !.sector_reading = FALSE,
            !.sector_buffered = TRUE]
    ELSE s

-----------------------------------------------------------------------------
(* Login, mounting, quitting *)

Hello(s) == [s EXCEPT !.logged_in = TRUE, !.send_buf = HelloReply]

Mount(s, p) ==
  LET status == IF p.name \in Mountable THEN 0 ELSE 1
  IN  [s EXCEPT !.send_buf = MountReply(p.seq, status),
                !.last_mount = IF status = 0
                                 THEN [seq |-> p.seq, name |-> p.name] ELSE @]

Quit(s) == [s EXCEPT !.quit_requested = TRUE, !.send_buf = QuitReply]

\* The packets get_new_job drops without an answer.
Ignored(s, p) ==
  \/ p.op = "hello" /\ s.logged_in
  \/ p.op # "hello" /\ ~s.logged_in
  \/ p.op = "mount" /\ s.last_mount = [seq |-> p.seq, name |-> p.name]
  \/ /\ p.op = "write" /\ p.last = 0 /\ s.write_batch_active
     /\ Outdated(s.current_batch_counter, p.counter)

\* get_new_job with a packet it does not drop.
GetNewJob(s, p) ==
  CASE p.op = "hello" -> Hello(s)
    [] p.op = "mount" -> Mount(s, p)
    [] p.op = "quit"  -> Quit(s)
    [] p.op = "read"  -> StartRead(s, p)
    [] p.op = "write" -> IF p.last = 0 THEN WriteSingle(s, p)
                                       ELSE WriteMulti(s, p)

-----------------------------------------------------------------------------
(* process() *)

Running == srv.state = "running"

\* The pending reply is sent once the transmitter is idle.  (The buffers of the
\* PC do not fill up; where the model bounds them the MEGA65 waits.)
Transmit ==
  /\ Running
  /\ srv.send_buf # NoPacket
  /\ Len(toClient) < Capacity
  /\ toClient' = Append(toClient, srv.send_buf)
  /\ srv' = FinishBatch([srv EXCEPT !.send_buf = NoPacket])
  /\ UNCHANGED <<toServer, losses>>

\* The rest of process().  Each disjunct is one of the ways it returns: the
\* card is busy; a read is started; the machine is reset; a packet is taken;
\* nothing has arrived.
Poll ==
  LET replied   == BuildReply(FinishBatch(srv))
      collected == CollectSector(replied)
  IN
  /\ Running
  /\ srv.send_buf = NoPacket
  /\ \/ /\ replied.sector_reading
        /\ srv' = replied
        /\ UNCHANGED toServer
     \/ /\ collected.read_batch_active
        /\ srv' = [collected EXCEPT !.sector_reading = TRUE]
        /\ UNCHANGED toServer
     \/ /\ ~collected.read_batch_active
        /\ collected.quit_requested
        /\ srv' = [collected EXCEPT !.state = "reset"]
        /\ UNCHANGED toServer
     \/ /\ ~collected.read_batch_active
        /\ ~collected.quit_requested
        /\ \/ \E i \in Arriving(toServer) :
                /\ ~Ignored(collected, toServer[i])
                /\ srv' = GetNewJob(collected, toServer[i])
                /\ toServer' = RemoveAt(toServer, i)
           \/ /\ srv' = collected
              /\ UNCHANGED toServer
  /\ UNCHANGED <<toClient, losses>>

\* get_new_job drops a packet and looks at the next.  Nothing else of the call
\* depends on the packet, so the drop is a step of its own.
Ignore ==
  /\ Running
  /\ ~srv.sector_reading /\ ~srv.read_batch_active
  /\ ~(srv.batch_left = 0 /\ srv.write_batch_active)
  /\ \E i \in Arriving(toServer) :
       /\ Ignored(srv, toServer[i])
       /\ toServer' = RemoveAt(toServer, i)
  /\ UNCHANGED <<srv, toClient, losses>>

ServerStep == Transmit \/ Poll \/ Ignore

-----------------------------------------------------------------------------
(* Part of the properties of the protocol *)

\* batch_left counts exactly the slots of the active batch that are missing,
\* and what is written of it is a received prefix that the card holds.
Accounts(s) ==
  s.write_batch_active =>
    LET batch == 0 .. s.write_batch_max_id IN
    /\ s.slot_ids_received \subseteq batch
    /\ s.batch_left = Cardinality(batch \ s.slot_ids_received)
    /\ \A i \in 0 .. s.slots_written - 1 :
         /\ i \in s.slot_ids_received
         /\ s.card[s.sector_number_write + i] = s.write_cache[i]

=============================================================================
