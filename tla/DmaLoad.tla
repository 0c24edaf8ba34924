------------------------------ MODULE DmaLoad ------------------------------
(***************************************************************************)
(* etherload: a program is sent to the MEGA65 as frames that carry the     *)
(* code which copies them into memory and echoes them; the echo is the     *)
(* acknowledgement.  An echo command comes before, the command that starts *)
(* the program after it.  The local network keeps order but loses frames.  *)
(***************************************************************************)
EXTENDS Integers, Sequences, FiniteSets, SequencesExt

CONSTANTS
  Blocks,       \* the addresses of the blocks sent, in order
  Rom,          \* the addresses in the write-protected area
  QueueLength,  \* frames that may be unacknowledged (32)
  MaxLosses, MaxResends, MaxTimeouts  \* bounds

DmaLoadAssumption ==
  /\ Blocks \in Seq(Nat) /\ Rom \subseteq Range(Blocks)
  /\ QueueLength \in Nat \ {0}
  /\ MaxLosses \in Nat /\ MaxResends \in Nat /\ MaxTimeouts \in Nat

VARIABLES
  pc,              \* etherload: where it is in main()
  packet_seq,
  unacked,         \* frames of the ack slots, the oldest first
  single,          \* the callbacks are those of ethl_single_command
  rom_write_enabled,
  overdue,         \* phases in which a wait has timed out
  toMega, toPc,    \* frames under way
  loader,          \* MEGA65: "off", "runs", "started"
  ram,             \* MEGA65: number of the block each address has, 0 none
  rom_writable,
  losses, resends

client == <<pc, packet_seq, unacked, single, rom_write_enabled, overdue>>
net == <<toMega, toPc>>
mega == <<loader, ram, rom_writable>>
vars == <<client, net, mega, losses, resends>>

At(at, kind, i) == [at |-> at, kind |-> kind, i |-> i]

Trigger == [kind |-> "hyperrupt"]
Command(kind) == [kind |-> kind, seq |-> packet_seq]
Data(i) == [kind |-> "data", addr |-> Blocks[i], block |-> i, seq |-> packet_seq,
            rom |-> ~rom_write_enabled]

Init ==
  /\ pc = At("trigger", "", 0) /\ packet_seq = 0 /\ unacked = << >>
  /\ single = FALSE /\ rom_write_enabled = FALSE /\ overdue = {}
  /\ toMega = << >> /\ toPc = << >>
  /\ loader = "off" /\ ram = [a \in Range(Blocks) |-> 0] /\ rom_writable = FALSE
  /\ losses = 0 /\ resends = 0

-----------------------------------------------------------------------------
(* etherload *)

\* After the last block comes the wait for all acknowledgements.
Load(i) == IF i <= Len(Blocks) THEN At("load", "", i) ELSE At("wait", "", 0)

trigger_eth_hyperrupt ==
  /\ pc = At("trigger", "", 0) /\ pc' = At("single", "ping", 0)
  /\ toMega' = Append(toMega, Trigger)
  /\ UNCHANGED <<packet_seq, unacked, single, rom_write_enabled, overdue, toPc,
                 mega, losses, resends>>

\* Wrong variant: a frame does not wait for one of the same address.
HasSlot_AnyAddress(frame) == Len(unacked) < QueueLength

\* expect_ack, then the frame: a slot must be free, and no frame for the same
\* address unacknowledged.
HasSlot(frame) ==
  /\ Len(unacked) < QueueLength
  /\ frame.kind = "data" =>
       \A i \in DOMAIN unacked : unacked[i].kind = "data" => unacked[i].addr # frame.addr

ethl_send_packet(frame) ==
  /\ HasSlot(frame)
  /\ packet_seq' = packet_seq + 1
  /\ unacked' = Append(unacked, frame)
  /\ toMega' = Append(toMega, frame)

\* ethl_single_command: waits until nothing is unacknowledged, exchanges the
\* callbacks, sends and waits again.
BeginSingle(kind) ==
  /\ pc = At("single", kind, 0)
  /\ unacked = << >> \/ "single" \in overdue
  /\ single' = TRUE
  /\ ethl_send_packet(Command(kind))
  /\ pc' = At("answer", kind, 0)
  /\ UNCHANGED <<rom_write_enabled, overdue, toPc, mega, losses, resends>>

EndSingle(kind) ==
  /\ pc = At("answer", kind, 0) /\ unacked = << >>
  /\ single' = FALSE
  /\ pc' = IF kind = "ping" THEN Load(1) ELSE At("end", "ok", 0)
  /\ UNCHANGED <<packet_seq, unacked, rom_write_enabled, overdue, net, mega,
                 losses, resends>>

\* load_file and send_mem: the first frame of all makes the ROM writable.
send_mem(i) ==
  /\ pc = At("load", "", i)
  /\ ethl_send_packet(Data(i))
  /\ rom_write_enabled' = TRUE
  /\ pc' = Load(i + 1)
  /\ UNCHANGED <<single, overdue, toPc, mega, losses, resends>>

wait_all_acks ==
  /\ pc = At("wait", "", 0) /\ unacked = << >>
  /\ pc' = At("single", "done", 0)
  /\ UNCHANGED <<packet_seq, unacked, single, rom_write_enabled, overdue, net,
                 mega, losses, resends>>

\* The waits give up after their time.  main() looks at the result of the
\* commands; that of load_file it adds to the load address before it does, and
\* so goes on with the next file or the end; those of wait_all_acks are not
\* looked at.
Timeout ==
  /\ Cardinality(overdue) < MaxTimeouts /\ unacked # << >>
  /\ \/ pc.at = "answer" /\ pc' = At("end", "failed", 0) /\ overdue' = overdue \cup {"answer"}
     \/ /\ pc.at = "load" /\ ~HasSlot(Data(pc.i))
        /\ pc' = At("wait", "", 0) /\ overdue' = overdue \cup {"load"}
     \/ /\ pc = At("wait", "", 0)
        /\ pc' = At("single", "done", 0) /\ overdue' = overdue \cup {"wait"}
     \/ pc.at = "single" /\ overdue' = overdue \cup {"single"} /\ UNCHANGED pc
  /\ UNCHANGED <<packet_seq, unacked, single, rom_write_enabled, net, mega,
                 losses, resends>>

\* check_if_ack.  A data frame is freed by its exact echo; a command by any
\* frame of its length.
IsAck(rx, tx) ==
  IF single THEN rx.kind # "data" /\ tx.kind # "data" ELSE rx = tx

check_if_ack ==
  /\ toPc # << >> /\ pc.at # "end" /\ unacked # << >>
  /\ toPc' = Tail(toPc)
  /\ LET acked == {i \in DOMAIN unacked : IsAck(Head(toPc), unacked[i])} IN
       unacked' = IF acked = {} THEN unacked
                  ELSE RemoveAt(unacked, CHOOSE i \in acked : \A j \in acked : i <= j)
  /\ UNCHANGED <<pc, packet_seq, single, rom_write_enabled, overdue, toMega, mega,
                 losses, resends>>

\* maybe_send_ack resends the oldest frame.
maybe_send_ack ==
  /\ unacked # << >> /\ pc.at # "end" /\ resends < MaxResends
  /\ resends' = resends + 1
  /\ toMega' = Append(toMega, unacked[1])
  /\ UNCHANGED <<client, toPc, mega, losses>>

-----------------------------------------------------------------------------
(* The MEGA65: ETHLOAD.M65 executes what it receives *)

Execute(frame) ==
  IF frame.kind = "hyperrupt"
  THEN loader' = (IF loader = "off" THEN "runs" ELSE loader) /\ UNCHANGED <<ram, rom_writable, toPc>>
  ELSE IF loader # "runs" THEN UNCHANGED <<mega, toPc>>
  ELSE /\ toPc' = Append(toPc, frame)
       /\ loader' = IF frame.kind = "done" THEN "started" ELSE loader
       /\ IF frame.kind # "data" THEN UNCHANGED <<ram, rom_writable>>
          ELSE /\ rom_writable' = (rom_writable \/ frame.rom)
               /\ ram' = IF frame.addr \in Rom /\ ~rom_writable' THEN ram
                         ELSE [ram EXCEPT ![frame.addr] = frame.block]

ethlet_dma_load ==
  /\ toMega # << >> /\ toMega' = Tail(toMega)
  /\ Execute(Head(toMega))
  /\ UNCHANGED <<client, losses, resends>>

Lose ==
  /\ losses < MaxLosses /\ losses' = losses + 1
  /\ \/ toMega # << >> /\ toMega' = Tail(toMega) /\ UNCHANGED toPc
     \/ toPc # << >> /\ toPc' = Tail(toPc) /\ UNCHANGED toMega
  /\ UNCHANGED <<client, mega, resends>>

-----------------------------------------------------------------------------

Next ==
  \/ trigger_eth_hyperrupt
  \/ \E kind \in {"ping", "done"} : BeginSingle(kind) \/ EndSingle(kind)
  \/ \E i \in DOMAIN Blocks : send_mem(i)
  \/ wait_all_acks \/ Timeout \/ check_if_ack \/ maybe_send_ack
  \/ ethlet_dma_load \/ Lose

Spec == Init /\ [][Next]_vars

-----------------------------------------------------------------------------
(* Properties *)

\* Every variable has its type.
TypeOK ==
  /\ packet_seq \in Nat /\ Len(unacked) <= QueueLength
  /\ single \in BOOLEAN /\ rom_write_enabled \in BOOLEAN
  /\ loader \in {"off", "runs", "started"}
  /\ ram \in [Range(Blocks) -> 0 .. Len(Blocks)]
  /\ losses <= MaxLosses /\ resends <= MaxResends

\* Every address has the last block that was sent for it.  The write protection is
\* lifted by the first frame only: when that one is lost, a later one is answered
\* although nothing was written (the known exception).
Loaded ==
  \A i \in DOMAIN Blocks :
    /\ \A j \in DOMAIN Blocks : Blocks[j] = Blocks[i] => j <= i
    /\ Blocks[i] \in Rom => losses = 0
    => ram[Blocks[i]] = i

\* When the program is started everything is in memory, also where a block was
\* sent to an address again while older frames were repeated.  (A wait that has
\* timed out before is the known exception.)
StartsComplete == loader = "started" /\ overdue = {} => Loaded

\* When etherload ends well, the program has been started: the answer it took
\* for that of the last command was not a late one of the first.  (It may be when
\* there is nothing between the two, or what there is was given up: the known
\* exceptions.)
EndMeansStarted ==
  pc = At("end", "ok", 0) /\ Blocks # << >> /\ "single" \notin overdue => loader = "started"

\* What the check after load_file is there for: etherload does not end well
\* with a part of the program missing.
EndMeansLoaded == pc = At("end", "ok", 0) => Loaded

=============================================================================
