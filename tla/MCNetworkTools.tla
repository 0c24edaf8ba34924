--------------------------- MODULE MCNetworkTools ---------------------------
(****************************************************************************)
(* The tools that talk to the MEGA65 or to a server over a network: the     *)
(* search for the MEGA65, etherload and its DMA load routine, the TFTP      *)
(* server of the MEGA65 and its clients, the file host of mega65_ftp, and   *)
(* the network side of remotesd_eth.                                        *)
(****************************************************************************)
EXTENDS Integers, Sequences

CONSTANTS
  \* of TftpServer
  Files,         \* the files the card can have, with the number of full blocks
  Locked,        \* those that cannot be opened
  Missing,       \* a name no file can have
  Wrap,          \* block numbers count modulo Wrap
  MaxTransfers,  \* bound on the transfers
  MaxLosses,     \* bound on the packets lost
  MaxEarly,      \* bound on timeouts while a packet is under way
  \* of DmaLoad
  Blocks,        \* the addresses of the blocks sent, in order
  Rom,           \* the addresses that are write-protected
  QueueLength,   \* frames that may be unacknowledged
  MaxResends,    \* bound on the frames sent again
  MaxTimeouts,   \* bound on the waits of etherload that time out
  \* of Discovery
  Systems,         \* the lists of addresses the system may have
  MAX_INTERFACES,  \* room for interfaces
  Targets,         \* the addresses the user may give
  Known,           \* those that are valid, and the names of interfaces
  Machines,        \* MEGA65s and others that send
  Rounds,          \* rounds until the time is over
  MaxPackets       \* bound on what is sent

VARIABLES
  subject,   \* the component this behaviour is about; the others are off
  d_pc, d_packet_seq, d_unacked, d_single, d_rom_write_enabled, d_overdue,
  d_toMega, d_toPc, d_loader, d_ram, d_rom_writable, d_losses, d_resends,
  t_card, t_seq_num, t_remote_port, t_open, t_pos, t_sd_buffer, t_at, t_file, t_port,
  t_expected, t_got, t_last_sent, t_toServer, t_toClient, t_losses, t_early,
  h_at, h_answer, h_input, h_chunks, h_sort_date_flag, h_parser, h_lst_finfos,
  h_header, h_saved,
  n_reply_template, n_send_buf, n_reading, n_writing, n_last_mount,
  n_quit_requested, n_fatal, n_asked, n_frames,
  s_system, s_target, s_if_addrs, s_open, s_waiting, s_idx, s_round,
  s_servaddr, s_broadcast, s_heard, s_sent, s_phase

d_vars ==
  <<d_pc, d_packet_seq, d_unacked, d_single, d_rom_write_enabled, d_overdue,
  d_toMega, d_toPc, d_loader, d_ram, d_rom_writable, d_losses, d_resends>>
t_vars ==
  <<t_card, t_seq_num, t_remote_port, t_open, t_pos, t_sd_buffer, t_at, t_file, t_port,
  t_expected, t_got, t_last_sent, t_toServer, t_toClient, t_losses, t_early>>
h_vars ==
  <<h_at, h_answer, h_input, h_chunks, h_sort_date_flag, h_parser, h_lst_finfos,
  h_header, h_saved>>
n_vars ==
  <<n_reply_template, n_send_buf, n_reading, n_writing, n_last_mount,
  n_quit_requested, n_fatal, n_asked, n_frames>>
s_vars ==
  <<s_system, s_target, s_if_addrs, s_open, s_waiting, s_idx, s_round,
  s_servaddr, s_broadcast, s_heard, s_sent, s_phase>>
vars == <<subject, d_vars, t_vars, h_vars, n_vars, s_vars>>

\* A file of one full block, one whose block numbers wrap, and one that cannot be
\* opened.
ThreeFiles == [a |-> 1, b |-> 4, c |-> 0]

\* An address that gets a second block after one for another address.
ThreeBlocks == <<1, 2, 1>>

\* Addresses of interfaces, one of them down, one not link-local, one more than
\* there is room for; MEGA65s on two of them, and something else that sends.
Address(scope, up, local) ==
  [family |-> "inet6", up |-> up, link_local |-> local, scope_id |-> scope]
AddressLists ==
  {<< >>, <<Address(1, FALSE, TRUE), [family |-> "inet", up |-> TRUE, link_local |-> TRUE, scope_id |-> 1]>>,
   <<Address(1, TRUE, FALSE), Address(1, TRUE, TRUE), Address(3, FALSE, TRUE), Address(2, TRUE, TRUE)>>,
   <<Address(2, TRUE, TRUE)>>,
   <<Address(1, TRUE, TRUE), Address(2, TRUE, TRUE), Address(3, TRUE, TRUE)>>}
Sender(addr, scope, says) == [addr |-> addr, scope_id |-> scope, says |-> says]
Senders ==
  {Sender("a", 1, "mega65"), Sender("b", 2, "mega65"), Sender("c", 1, "other"), Sender("d", 3, "mega65")}

\* Addresses with a part missing, too many, or unknown.
GivenAddresses ==
  {<< >>, <<"fe80", "eth0">>, <<"", "fe80", "eth0">>, <<"fe80">>, <<"", "eth0">>, <<"bad", "eth0">>,
   <<"fe80", "eth9">>}
KnownNames == [addresses |-> {"fe80"}, interfaces |-> [eth0 |-> 1, eth1 |-> 2]]

\* Lists of up to two files: for the MEGA65 or not, without an author, with
\* escaped characters in the title and the date.
R(os, author, published, title) ==
  [os |-> os, author |-> author, published |-> published, title |-> title]
Rows ==
  {R(<<"MEGA65">>, <<"x">>, <<"1">>, <<"t">>),
   R(<<"MEGA65">>, <<"x">>, <<"2">>, <<"backslash", "quote", "t">>),
   R(<<"C64">>, <<"x">>, <<"1">>, << >>),
   R(<<"MEGA65">>, << >>, <<"1">>, << >>)}
Answers == {<< >>} \cup {<<r>> : r \in Rows} \cup {<<r, q>> : r \in Rows, q \in Rows}

Load == INSTANCE DmaLoad WITH
  Blocks <- Blocks, Rom <- Rom, QueueLength <- QueueLength, MaxLosses <- MaxLosses,
  MaxResends <- MaxResends, MaxTimeouts <- MaxTimeouts, pc <- d_pc,
  packet_seq <- d_packet_seq, unacked <- d_unacked, single <- d_single,
  rom_write_enabled <- d_rom_write_enabled, overdue <- d_overdue,
  toMega <- d_toMega, toPc <- d_toPc, loader <- d_loader, ram <- d_ram,
  rom_writable <- d_rom_writable, losses <- d_losses, resends <- d_resends
ASSUME LoadSizes == Load!DmaLoadAssumption

Tftp == INSTANCE TftpServer WITH
  Files <- Files, Locked <- Locked, Missing <- Missing, Wrap <- Wrap,
  MaxTransfers <- MaxTransfers, MaxLosses <- MaxLosses, MaxEarly <- MaxEarly,
  card <- t_card, seq_num <- t_seq_num,
  remote_port <- t_remote_port, open <- t_open, pos <- t_pos,
  sd_buffer <- t_sd_buffer, at <- t_at, file <- t_file, port <- t_port,
  expected <- t_expected, got <- t_got, last_sent <- t_last_sent,
  toServer <- t_toServer, toClient <- t_toClient, losses <- t_losses,
  early <- t_early
ASSUME TftpSizes == Tftp!TftpAssumption

Host == INSTANCE FileHost WITH
  Answers <- Answers,
  Files <- {<<"a">>, <<"crlf", "length", "crlf", "crlf">>}, MaxChunks <- 2,
  CutEscapes <- FALSE, Stray <- {FALSE}, at <- h_at, answer <- h_answer,
  input <- h_input, chunks <- h_chunks, sort_date_flag <- h_sort_date_flag,
  parser <- h_parser, lst_finfos <- h_lst_finfos, header <- h_header,
  saved <- h_saved
ASSUME Host!FileHostAssumption

Net == INSTANCE RemoteSDNet WITH
  Peers <- {"a", "b"}, Ports <- {1, 2}, Seqs <- {1, 2}, Half <- 4,
  MaxFrames <- 3, reply_template <- n_reply_template, send_buf <- n_send_buf,
  reading <- n_reading, writing <- n_writing, last_mount <- n_last_mount,
  quit_requested <- n_quit_requested, fatal <- n_fatal, asked <- n_asked,
  frames <- n_frames
ASSUME Net!RemoteSDNetAssumption

Search == INSTANCE Discovery WITH
  Systems <- Systems, MAX_INTERFACES <- MAX_INTERFACES, Targets <- Targets,
  Known <- Known, Machines <- Machines, Rounds <- Rounds,
  MaxPackets <- MaxPackets, system <- s_system,
  target <- s_target, if_addrs <- s_if_addrs, open <- s_open,
  waiting <- s_waiting, idx <- s_idx, round <- s_round,
  servaddr <- s_servaddr, broadcast <- s_broadcast, heard <- s_heard,
  sent <- s_sent, phase <- s_phase
ASSUME SearchSizes == Search!DiscoveryAssumption

Off == "off"
LoadOff ==
  /\ d_pc = Off /\ d_packet_seq = Off /\ d_unacked = Off /\ d_single = Off
  /\ d_rom_write_enabled = Off /\ d_overdue = Off /\ d_toMega = Off
  /\ d_toPc = Off /\ d_loader = Off /\ d_ram = Off /\ d_rom_writable = Off
  /\ d_losses = Off /\ d_resends = Off
TftpOff ==
  /\ t_card = Off /\ t_seq_num = Off /\ t_remote_port = Off /\ t_open = Off /\ t_pos = Off
  /\ t_sd_buffer = Off /\ t_at = Off /\ t_file = Off /\ t_port = Off
  /\ t_expected = Off /\ t_got = Off /\ t_last_sent = Off /\ t_toServer = Off
  /\ t_toClient = Off /\ t_losses = Off /\ t_early = Off
HostOff ==
  /\ h_at = Off /\ h_answer = Off /\ h_input = Off /\ h_chunks = Off
  /\ h_sort_date_flag = Off /\ h_parser = Off /\ h_lst_finfos = Off
  /\ h_header = Off /\ h_saved = Off
NetOff ==
  /\ n_reply_template = Off /\ n_send_buf = Off /\ n_reading = Off
  /\ n_writing = Off /\ n_last_mount = Off /\ n_quit_requested = Off
  /\ n_fatal = Off /\ n_asked = Off /\ n_frames = Off
SearchOff ==
  /\ s_system = Off /\ s_target = Off /\ s_if_addrs = Off /\ s_open = Off
  /\ s_waiting = Off /\ s_idx = Off /\ s_round = Off /\ s_servaddr = Off
  /\ s_broadcast = Off /\ s_heard = Off /\ s_sent = Off /\ s_phase = Off

Init ==
  \/ /\ subject = "etherload" /\ Load!Init
     /\ TftpOff /\ HostOff /\ NetOff /\ SearchOff
  \/ /\ subject = "tftp" /\ Tftp!Init
     /\ LoadOff /\ HostOff /\ NetOff /\ SearchOff
  \/ /\ subject = "filehost" /\ Host!Init
     /\ LoadOff /\ TftpOff /\ NetOff /\ SearchOff
  \/ /\ subject = "remotesd_eth" /\ Net!Init
     /\ LoadOff /\ TftpOff /\ HostOff /\ SearchOff
  \/ /\ subject = "discovery" /\ Search!Init
     /\ LoadOff /\ TftpOff /\ HostOff /\ NetOff

OnlyLoad ==
  UNCHANGED <<subject, t_vars, h_vars, n_vars, s_vars>>
OnlyTftp ==
  UNCHANGED <<subject, d_vars, h_vars, n_vars, s_vars>>
OnlyHost ==
  UNCHANGED <<subject, d_vars, t_vars, n_vars, s_vars>>
OnlyNet ==
  UNCHANGED <<subject, d_vars, t_vars, h_vars, s_vars>>
OnlySearch ==
  UNCHANGED <<subject, d_vars, t_vars, h_vars, n_vars>>

Next ==
  \/ subject = "etherload" /\ Load!Next /\ OnlyLoad
  \/ subject = "tftp" /\ Tftp!Next /\ OnlyTftp
  \/ subject = "filehost" /\ Host!Next /\ OnlyHost
  \/ subject = "remotesd_eth" /\ Net!Next /\ OnlyNet
  \/ subject = "discovery" /\ Search!Next /\ OnlySearch

Spec == Init /\ [][Next]_vars

\* The server answers what comes, the client takes what comes, gives up after an
\* error and repeats itself when nothing comes.
OnlyTftpWork(A) == subject = "tftp" /\ A /\ OnlyTftp
FairSpec ==
  /\ Spec
  /\ WF_vars(OnlyTftpWork(Tftp!Server))
  /\ WF_vars(OnlyTftpWork(Tftp!ReceiveData))
  /\ WF_vars(OnlyTftpWork(Tftp!GiveUp))
  /\ WF_vars(OnlyTftpWork(Tftp!Silence /\ Tftp!Timeout))

-----------------------------------------------------------------------------
(* Properties *)

\* When a program is started all of it is in memory, and when etherload ends
\* well it has been started.  It is sent to a MEGA65 that is where it was found,
\* and the search for it leaves nothing behind and overlooks nobody.
StartsComplete ==
  /\ subject = "etherload" => Load!TypeOK /\ Load!StartsComplete /\ Load!EndMeansStarted
  /\ subject = "discovery" =>
       /\ Search!FoundIsThere /\ Search!BroadcastsGoThere /\ Search!SocketsAreClosed
       /\ Search!NothingOverlooked

\* etherload does not end well with a part of the program missing.
EndMeansLoaded == subject = "etherload" => Load!EndMeansLoaded

\* A file that was read to its end is the file asked for, block by block.
TransferIsTheFile == subject = "tftp" => Tftp!TransferIsTheFile

\* A transfer ends although the server has no clock.
Reads == subject = "tftp" /\ t_at = "reads"
TransferEnds == Reads ~> ~Reads

\* The list shows the files that were sent, and a download is the file, wherever
\* the answers were cut.  An answer of remotesd_eth that its receiver takes
\* belongs to a request it made, goes to the PC that said hello, and is summed
\* as the protocol asks; and the helper can be found by its address.
AnswersAreWhole ==
  /\ subject = "filehost" => Host!ListIsAsSent /\ Host!DownloadIsWhole
  /\ subject = "remotesd_eth" =>
       /\ Net!TypeOK /\ Net!AnswersWereAsked /\ Net!AnswersGoToTheMaster
       /\ Net!SumsAreRight /\ Net!OwnAddressIsFound /\ Net!AddressReadsBack

=============================================================================
