----------------------------- MODULE TftpServer -----------------------------
(***************************************************************************)
(* The TFTP server of the MEGA65 (tftpserver.a65) and a client that reads  *)
(* files from it.  The server keeps one transfer, without a clock: it      *)
(* answers an acknowledgement of its last block with the next block, every *)
(* other one with the last block again.  The client repeats what it sent   *)
(* last when nothing comes.                                                *)
(***************************************************************************)
EXTENDS Integers, Sequences

CONSTANTS
  Files,         \* name -> number of full blocks in front of the last, short one, of
                 \* the files that are or can be put on the card
  Locked,        \* those of them that are found and cannot be opened
  Missing,       \* a name the card does not have and no file can be given
  Wrap,          \* 2^16: block numbers count modulo Wrap
  MaxTransfers, MaxLosses, MaxEarly   \* bounds

TftpAssumption ==
  /\ Missing \notin DOMAIN Files /\ Locked \subseteq DOMAIN Files
  /\ \A f \in DOMAIN Files : Files[f] \in Nat
  /\ Wrap \in Nat \ {0, 1, 2}
  /\ MaxTransfers \in Nat /\ MaxLosses \in Nat /\ MaxEarly \in Nat

VARIABLES
  card,             \* the files on it
  seq_num, remote_port,
  open, pos,        \* the open file, blocks read of it
  sd_buffer,        \* the block in the sector buffer and data_bytes
  at, file, port,   \* client: "idle" or "reads"; what; transfers begun
  expected, got, last_sent,
  toServer, toClient,
  losses, early

server == <<card, seq_num, remote_port, open, pos, sd_buffer>>
client == <<at, file, port, expected, got, last_sent>>
net == <<toServer, toClient>>
vars == <<server, client, net, losses, early>>

Nothing == [kind |-> "none"]
Request(kind, f) == [kind |-> kind, file |-> f, port |-> port + 1]
Ack(n) == [kind |-> "ack", n |-> n, port |-> port]
Block(f, k) == [of |-> f, k |-> k, short |-> k > Files[f]]

Init ==
  /\ card \in SUBSET DOMAIN Files
  /\ seq_num = 0 /\ remote_port = 0 /\ open = Missing /\ pos = 0 /\ sd_buffer = Nothing
  /\ at = "idle" /\ file = Missing /\ port = 0 /\ expected = 0 /\ got = << >>
  /\ last_sent = Nothing
  /\ toServer = << >> /\ toClient = << >>
  /\ losses = 0 /\ early = 0

-----------------------------------------------------------------------------
(* The server: processpacket and what it calls.  Addresses are those of the *)
(* packet received, the port is that of the last request.                   *)

Received(kind) ==
  toServer # << >> /\ Head(toServer).kind = kind /\ toServer' = Tail(toServer)

Transmit(reply) == toClient' = Append(toClient, reply)

data_block == [kind |-> "data", n |-> seq_num', block |-> sd_buffer', port |-> remote_port']

\* Past the end of the file the read returns nothing.
tftp_send_next_data_block(n, f, p) ==
  /\ seq_num' = (n + 1) % Wrap /\ open' = f /\ pos' = p + 1
  /\ sd_buffer' = IF f = Missing THEN Nothing ELSE Block(f, p + 1)
  /\ Transmit(data_block)

FileError == [kind |-> "error", port |-> Head(toServer).port]

\* A file that cannot be opened is refused like one that is not found, after all
\* others were closed.
Refuse(f) ==
  /\ seq_num' = 0 /\ Transmit(FileError)
  /\ open' = IF f \in card THEN Missing ELSE open
  /\ UNCHANGED <<pos, sd_buffer>>

tftp_read_req ==
  /\ Received("read")
  /\ remote_port' = Head(toServer).port
  /\ LET f == Head(toServer).file IN
     IF f \in card \ Locked THEN tftp_send_next_data_block(0, f, 0) ELSE Refuse(f)
  /\ UNCHANGED card

\* A file that exists is opened, another one is created where the card can hold it,
\* and refused; data for either is not taken.
tftp_write_req ==
  /\ Received("write")
  /\ remote_port' = Head(toServer).port
  /\ LET f == Head(toServer).file IN
     /\ IF f \in card \ Locked
        THEN seq_num' = 0 /\ open' = f /\ pos' = 0 /\ UNCHANGED <<sd_buffer, toClient>>
        ELSE Refuse(f)
     /\ card' \in {card, card \cup ({f} \cap DOMAIN Files)}

\* Wrong variant: every acknowledgement brings the next block.
tftp_ack_seen_Always ==
  /\ Received("ack")
  /\ UNCHANGED <<card, remote_port>>
  /\ tftp_send_next_data_block(seq_num, open, pos)

\* Wrong variant: an old acknowledgement is not answered.
tftp_ack_seen_Silent ==
  /\ Received("ack")
  /\ UNCHANGED <<card, remote_port>>
  /\ IF Head(toServer).n = seq_num
     THEN tftp_send_next_data_block(seq_num, open, pos)
     ELSE UNCHANGED <<seq_num, open, pos, sd_buffer, toClient>>

tftp_ack_seen ==
  /\ Received("ack")
  /\ UNCHANGED <<card, remote_port>>
  /\ IF Head(toServer).n = seq_num
     THEN tftp_send_next_data_block(seq_num, open, pos)
     ELSE UNCHANGED <<seq_num, open, pos, sd_buffer>> /\ Transmit(data_block)

Server ==
  /\ tftp_read_req \/ tftp_write_req \/ tftp_ack_seen
  /\ UNCHANGED <<client, losses, early>>

-----------------------------------------------------------------------------
(* A client that follows RFC 1350, with a port of its own for each transfer *)

SendToServer(p) == last_sent' = p /\ toServer' = Append(toServer, p)

Begin(kind, f) ==
  /\ at = "idle" /\ port < MaxTransfers
  /\ at' = "reads" /\ file' = f /\ port' = port + 1
  /\ expected' = IF kind = "read" THEN 1 ELSE 0
  /\ got' = << >>
  /\ SendToServer(Request(kind, f))
  /\ UNCHANGED <<server, toClient, losses, early>>

ReceiveData ==
  /\ toClient # << >> /\ toClient' = Tail(toClient)
  /\ LET p == Head(toClient)
         mine == at = "reads" /\ p.port = port
     IN
     \/ /\ mine /\ p.kind = "data" /\ p.n = expected
        /\ got' = Append(got, p.block) /\ expected' = (expected + 1) % Wrap
        /\ SendToServer(Ack(p.n))
        /\ at' = IF p.block.short THEN "idle" ELSE at
     \/ /\ mine /\ p.kind = "data" /\ (p.n + 1) % Wrap = expected
        /\ SendToServer(Ack(p.n)) /\ UNCHANGED <<at, got, expected>>
     \/ /\ mine /\ p.kind = "error"
        /\ at' = "idle" /\ UNCHANGED <<toServer, last_sent, got, expected>>
     \/ /\ ~mine \/ (p.kind = "data" /\ p.n # expected /\ (p.n + 1) % Wrap # expected)
        /\ UNCHANGED <<toServer, at, got, expected, last_sent>>
  /\ UNCHANGED <<server, file, port, losses, early>>

\* A write is given up, its answer never comes.
GiveUp ==
  /\ at = "reads" /\ last_sent.kind = "write" /\ net = <<<< >>, << >>>>
  /\ at' = "idle"
  /\ UNCHANGED <<server, file, port, expected, got, last_sent, net, losses, early>>

\* Nothing has come for the time of a timeout; early ones repeat a packet that
\* is still under way or being answered.
Timeout ==
  /\ at = "reads" /\ last_sent.kind # "write"
  /\ IF net = <<<< >>, << >>>> THEN UNCHANGED early
                               ELSE early < MaxEarly /\ early' = early + 1
  /\ SendToServer(last_sent)
  /\ UNCHANGED <<server, at, file, port, expected, got, toClient, losses>>

Lose ==
  /\ losses < MaxLosses /\ losses' = losses + 1
  /\ \/ toServer # << >> /\ toServer' = Tail(toServer) /\ UNCHANGED toClient
     \/ toClient # << >> /\ toClient' = Tail(toClient) /\ UNCHANGED toServer
  /\ UNCHANGED <<server, client, early>>

-----------------------------------------------------------------------------

Next ==
  \/ \E f \in DOMAIN Files \cup {Missing} : Begin("read", f) \/ Begin("write", f)
  \/ Server \/ ReceiveData \/ GiveUp \/ Timeout \/ Lose

Spec == Init /\ [][Next]_vars

Silence == net = <<<< >>, << >>>>

-----------------------------------------------------------------------------
(* Properties *)

\* A file that was read to its end is the file asked for, block by block, with
\* packets lost and repeated and another transfer just before it.
TransferIsTheFile ==
  at = "idle" /\ got # << >> =>
    /\ Len(got) = Files[file] + 1
    /\ \A k \in DOMAIN got : got[k] = Block(file, k)

=============================================================================
