----------------------------- MODULE EthRemoteSD -----------------------------
(***************************************************************************)
(* mega65_ftp in Ethernet mode and remotesd_eth together, over the link.   *)
(***************************************************************************)
EXTENDS EthClient, RemoteSDEth

vars == <<clientVars, srv, linkVars>>

Init == LinkInit /\ ClientInit /\ ServerInit

Client == ClientStep /\ UNCHANGED srv
Server == ServerStep /\ UNCHANGED clientVars
Network == LosePacket /\ UNCHANGED <<clientVars, srv>>

Next == Client \/ Server \/ Network

Spec == Init /\ [][Next]_vars

\* Both programs run in endless loops: the client goes on sending, receiving
\* and resending while it waits, the MEGA65 goes on calling process().
Fairness ==
  /\ WF_vars(ClientWork /\ UNCHANGED srv)
  /\ WF_vars((\E i \in Arriving(toClient) : Receive(i)) /\ UNCHANGED srv)
  /\ WF_vars(Resend /\ UNCHANGED srv)
  /\ WF_vars(Transmit /\ UNCHANGED clientVars)
  /\ WF_vars(Poll /\ UNCHANGED clientVars)
  /\ WF_vars(Ignore /\ UNCHANGED clientVars)

FairSpec == Spec /\ Fairness

-----------------------------------------------------------------------------
(* Properties *)

\* Every variable has its type; what is left of a batch does not run under zero
\* and what is written of it does not run past its end.
TypeOK ==
  /\ toServer \in Seq(Requests) /\ Len(toServer) <= Capacity
  /\ toClient \in Seq(Replies) /\ Len(toClient) <= Capacity
  /\ losses \in 0 .. MaxLosses
  /\ pc \in {"ready", "clear", "send", "full", "drain", "exited"}
  /\ jobNo \in 0 .. MaxJobs
  /\ job \in Jobs \cup {NoJob}
  /\ sent \in 0 .. MaxBatch
  /\ write_batch_counter \in Counters
  /\ queue_length \in Slots
  /\ frames \in [Slots -> Requests \cup {NoPacket}]
  /\ order \in Seq(Slots)
  /\ mount_file_response \in {0, 1, NoResponse}
  /\ srv \in ServerStates

\* The MEGA65 never stops with one of the protocol's fatal errors ("read/write
\* requests mixed up", "outdated batch counter", "single/multi write conflict",
\* "duplicate packet with different data").
NoFatal == srv.state # "fatal"

\* A sector the client has sent and sees acknowledged is in the batch cache of
\* the MEGA65 or on the card: no late, repeated or mismatched acknowledgement
\* is taken for it.
AckedMeansStored ==
  job.kind = "write" /\ pc \in {"send", "full", "drain"} =>
    \A i \in 0 .. sent - 1 :
      \/ \E k \in Slots : frames[k] = Packet(i)
      \/ srv.card[job.start + i] = Content(jobNo, job.start + i)
      \/ /\ srv.write_batch_active
         /\ srv.current_batch_counter = write_batch_counter
         /\ i \in srv.slot_ids_received
         /\ srv.write_cache[i] = Content(jobNo, job.start + i)

\* The active batch is accounted for: see Accounts.
BatchAccounting == Accounts(srv)

\* The MEGA65 is in the client's current batch or in the one before, and only
\* in the one before while it has no packet of the current one: the counters
\* never drift, so a batch is never taken for a repetition of an old one.
CountersInStep ==
  /\ srv.current_batch_counter \in
       {write_batch_counter, (write_batch_counter - 1) % BatchMod}
  /\ srv.current_batch_counter # write_batch_counter /\ srv.state = "running"
       => ~srv.write_batch_active

\* The two sides agree on the batch at hand and on what is missing of it.
BatchesInStep == BatchAccounting /\ CountersInStep

\* Data never lands in a sector it was not meant for, whatever packets of older
\* batches are still about.
DataInItsSector ==
  \A s \in Sectors : srv.card[s] = 0
                        \/ \E n \in JobNumbers : srv.card[s] = Content(n, s)

\* Batches that run beside one another, after a wait was given up, do not mix:
\* the active one is accounted for and its data lands where it belongs.
BatchesStayApart == BatchAccounting /\ DataInItsSector

\* The protocol implements a disk that executes one job at a time.
Disk == INSTANCE RemoteDisk WITH
  disk    <- srv.card,
  current <- IF pc = "ready" THEN [kind |-> "none"] ELSE job,
  begun   <- jobNo,
  result  <- IF pc = "ready" /\ job.kind = "read" THEN queue_read_data
                                                  ELSE NothingRead

ImplementsRemoteDisk == Disk!Spec

\* Every job ends, whatever packets are lost: resending the oldest frame brings
\* it to its end without a wait having to give up.
EveryJobEnds == (pc # "ready") ~> (pc = "ready")

\* A read returns what the card holds.
ReadsAreCurrent ==
  pc = "ready" /\ job.kind = "read" =>
    \A s \in DOMAIN queue_read_data : queue_read_data[s] = srv.card[s]

\* The answer the client prints for a mount command is the answer to it.
MountAnswered ==
  job.kind = "mount" /\ pc \in {"drain", "ready"}
      /\ mount_file_response # NoResponse =>
    (mount_file_response = 0) = (job.name \in Mountable)

-----------------------------------------------------------------------------
(* The job sets of the runs *)

WriteJob(start, n) == [kind |-> "write", start |-> start, n |-> n]
ReadJob(start, n) == [kind |-> "read", start |-> start, n |-> n]
MountJob(name) == [kind |-> "mount", start |-> 0, n |-> 1, name |-> name]
SimpleJob(kind) == [kind |-> kind, start |-> 0, n |-> 1]

\* A batch larger than the window, a single sector, a read of sectors the batch
\* writes, and mounts.
BatchJobs == {WriteJob(3, 3), WriteJob(6, 1), ReadJob(3, 2)}
               \cup {MountJob(name) : name \in FileNames}

\* Batches that overlap, and a read of both.
LiveJobs == {WriteJob(3, 2), WriteJob(4, 2), ReadJob(3, 2)}

\* Batches that overlap, between login and quit.
SessionJobs == {SimpleJob("hello"), WriteJob(3, 2), WriteJob(4, 2), SimpleJob("quit")}

\* A read whose repetition runs into the write of its second sector.
StaleJobs == {ReadJob(3, 2), ReadJob(4, 1), WriteJob(4, 1)}

=============================================================================
