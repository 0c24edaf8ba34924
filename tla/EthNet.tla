------------------------------- MODULE EthNet -------------------------------
(***************************************************************************)
(* The UDP link between mega65_ftp on the PC and remotesd_eth on the       *)
(* MEGA65, and the packets of the job protocol.  A packet may be lost, or  *)
(* dropped because the receiver's buffers are full; duplicates come from   *)
(* the retransmissions of the client.                                      *)
(***************************************************************************)
EXTENDS Integers, Sequences, FiniteSets, SequencesExt

CONSTANTS
  Ordered,      \* TRUE: packets of a direction arrive in the order sent
  Capacity,     \* packets one direction holds (the receive buffers)
  MaxLosses,    \* bound on the packets the network loses
  MaxSector,    \* the modelled sectors of the card are 0 .. MaxSector
  MaxBatch,     \* sectors of the largest batch (64 when writing)
  MaxJobs,      \* bound on the jobs the client runs
  BatchMod,     \* values of a batch counter (256)
  Byte,         \* values of one byte of a sector number (256)
  LoggedIn      \* TRUE: the model starts after ethernet_login

ASSUME LinkAssumption ==
  /\ Ordered \in BOOLEAN
  /\ Capacity \in Nat \ {0}
  /\ MaxLosses \in Nat
  /\ LoggedIn \in BOOLEAN
ASSUME SizesAssumption ==
  /\ MaxSector \in Nat
  /\ MaxBatch \in 2 .. 128        \* the MEGA65 refuses larger ones
  /\ MaxJobs \in Nat
  /\ BatchMod \in Nat \ {0} /\ BatchMod % 2 = 0
  /\ Byte \in Nat \ {0, 1} /\ MaxSector < Byte * Byte

Sectors == 0 .. MaxSector
Indices == 0 .. MaxBatch - 1            \* slot_index in a batch
Counters == 0 .. BatchMod - 1
JobNumbers == 1 .. MaxJobs

\* The content a job writes to a sector; 0 is what the card held before.
Content(job, sector) == (job - 1) * (MaxSector + 1) + sector + 1
Contents == 0 .. MaxJobs * (MaxSector + 1)

VARIABLES
  toServer,     \* requests on their way to the MEGA65
  toClient,     \* replies on their way to the PC
  losses        \* packets lost so far

linkVars == <<toServer, toClient, losses>>

-----------------------------------------------------------------------------
(* Packets.  last is num_sectors_minus_one.  The sequence number matters    *)
(* for the mount command only, which runs once per job: it stands for the   *)
(* job's number there (packet_seq counts modulo 65536).                     *)

WriteRequest(counter, last, slot, start, data) ==
  [op |-> "write", counter |-> counter, last |-> last, slot |-> slot,
   start |-> start, data |-> data]
ReadRequest(start, last) == [op |-> "read", start |-> start, last |-> last]
MountRequest(seq, name) == [op |-> "mount", seq |-> seq, name |-> name]
HelloRequest == [op |-> "hello"]
QuitRequest == [op |-> "quit"]

WriteAck(counter, last, slot, start) ==
  [op |-> "write", counter |-> counter, last |-> last, slot |-> slot,
   start |-> start]
SectorReply(sector, data) == [op |-> "read", sector |-> sector, data |-> data]
MountReply(seq, status) == [op |-> "mount", seq |-> seq, status |-> status]
HelloReply == [op |-> "hello"]
QuitReply == [op |-> "quit"]

\* A reply whose header and length belong to different commands.
BrokenReply == [op |-> "broken"]

NoPacket == [op |-> "none"]

FileNames == {"present", "missing"}

Requests ==
  [op : {"write"}, counter : Counters, last : Indices, slot : Indices,
   start : Sectors, data : Contents]
    \cup [op : {"read"}, start : Sectors, last : Indices]
    \cup [op : {"mount"}, seq : JobNumbers, name : FileNames]
    \cup {HelloRequest, QuitRequest}

Replies ==
  [op : {"write"}, counter : Counters, last : Indices, slot : Indices,
   start : Sectors]
    \cup [op : {"read"}, sector : Nat, data : Contents]
    \cup [op : {"mount"}, seq : JobNumbers, status : {0, 1}]
    \cup {HelloReply, QuitReply, BrokenReply}

-----------------------------------------------------------------------------
(* The link *)

LinkInit ==
  /\ toServer = <<>>
  /\ toClient = <<>>
  /\ losses = 0

\* A packet that finds the receive buffers of the MEGA65 full is dropped.
Sent(channel, packet) ==
  IF Len(channel) < Capacity THEN Append(channel, packet) ELSE channel

\* The positions of the packets that may arrive next.
Arriving(channel) ==
  IF Ordered THEN DOMAIN channel \cap {1} ELSE DOMAIN channel

LosePacket ==
  /\ losses < MaxLosses
  /\ losses' = losses + 1
  /\ \/ \E i \in DOMAIN toServer : toServer' = RemoveAt(toServer, i)
        /\ UNCHANGED toClient
     \/ \E i \in DOMAIN toClient : toClient' = RemoveAt(toClient, i)
        /\ UNCHANGED toServer

=============================================================================
