---------------------------- MODULE MCSerialLine ----------------------------
(****************************************************************************)
(* The components that talk to the MEGA65 over its serial line, each against*)
(* its own other side: mega65_ftp and remotesd.c, the calls of m65common.c  *)
(* and the monitor, the floppy drive of m65 and the hypervisor, the debugger*)
(* and the processor, readdisk and the drive.                               *)
(****************************************************************************)
EXTENDS Integers, Sequences, TLC

CONSTANTS
  \* of MonitorLink
  Slab, Chunk,   \* what the monitor writes at once, and within
  Pushes, Reads, \* writes and reads of the tools through the monitor
  Loads,         \* files they load
  MaxCalls,      \* bound on their calls
  MaxRepeats,    \* bound on reads asked for again
  MaxVersion,    \* bound on the writes of the running program
  \* of Debugger
  Cells, Code,   \* the programs that are debugged
  Entry,         \* where that of the hypervisor starts
  Breakpoints,   \* that are set
  Same, Samples, \* how often the program counter is looked at
  MaxCommands,   \* bound on the commands of the user
  MaxTraps       \* bound on the traps

VARIABLES
  subject,   \* the component this behaviour is about; the others are off
  s_pc, s_jobNo, s_job, s_recent, s_decoder, s_rle_enable, s_mem, s_srv,
  s_card, s_line,
  l_call, l_calls, l_cpu_stopped, l_faked, l_repeats, l_doubled, l_toMonitor,
  l_fromMonitor, l_running, l_ram, l_version, l_history,
  f_guest, f_request, f_requests, f_buffer, f_image, f_opened, f_at,
  f_recent_bytes, f_pending, f_last_virtual, f_line, f_disk,
  d_pc, d_stack, d_running, d_mem, d_hv, d_resume, d_traps, d_at, d_then,
  d_softbrkaddr, d_softbrkmem, d_high, d_in_hv, d_cur_pc, d_same_cnt, d_cnt,
  d_cpu_stopped, d_target, d_frame, d_finishing, d_commands, d_outcome, d_patched,
  d_crossed,
  r_head, r_stuck, r_busy, r_command, r_lost, r_failed, r_motor, r_selected,
  r_regs, r_real, r_auto_seek, r_buffer, r_cpu, r_at, r_i, r_track, r_side,
  r_sector

s_vars ==
  <<s_pc, s_jobNo, s_job, s_recent, s_decoder, s_rle_enable, s_mem, s_srv,
  s_card, s_line>>
l_vars ==
  <<l_call, l_calls, l_cpu_stopped, l_faked, l_repeats, l_doubled, l_toMonitor,
  l_fromMonitor, l_running, l_ram, l_version, l_history>>
f_vars ==
  <<f_guest, f_request, f_requests, f_buffer, f_image, f_opened, f_at,
  f_recent_bytes, f_pending, f_last_virtual, f_line, f_disk>>
d_vars ==
  <<d_pc, d_stack, d_running, d_mem, d_hv, d_resume, d_traps, d_at, d_then,
  d_softbrkaddr, d_softbrkmem, d_high, d_in_hv, d_cur_pc, d_same_cnt, d_cnt,
  d_cpu_stopped, d_target, d_frame, d_finishing, d_commands, d_outcome, d_patched,
  d_crossed>>
r_vars ==
  <<r_head, r_stuck, r_busy, r_command, r_lost, r_failed, r_motor, r_selected,
  r_regs, r_real, r_auto_seek, r_buffer, r_cpu, r_at, r_i, r_track, r_side,
  r_sector>>
vars == <<subject, s_vars, l_vars, f_vars, d_vars, r_vars>>

\* Writes of one and two sectors, reads that cover them, and memory that ends
\* and begins with runs or alternates.
Job(kind, start, n) == [kind |-> kind, start |-> start, n |-> n]
MemoryJob(bytes) == [kind |-> "memory", start |-> 0, n |-> 1, bytes |-> bytes]
Jobs ==
  {Job("write", 0, 2), Job("write", 1, 1), Job("read", 0, 2), Job("read", 1, 2),
   Job("mount", 0, 1), Job("version", 0, 1), Job("flash", 1, 2)}
    \cup {MemoryJob(b) : b \in {<<0, 0, 0, 9, 9>>, <<9>>, <<0, 9, 0, 9, 0, 9>>}}

\* A write of two chunks that ends in front of the last byte of a slab;
\* a write that goes on in the next slab.
PushesInSlabs == {<<1, 2>>, <<5, 4>>}
PushesAcrossSlabs == {<<8, 3>>}
\* A file of two chunks: the first ends with a slab.
LoadsOfFiles == {<<8, 3>>}

\* A call of a routine that calls another one, and loops around the call; and a
\* hypervisor that has its instructions at the addresses of the routine.
I(op) == [op |-> op]
To(op, a) == [op |-> op, to |-> a]
LoopCode == <<To("jsr", 4), To("branch", 1), To("branch", 3), To("jsr", 6), I("rts"),
              I("op"), I("rts")>>
TrapCode == <<I("op"), I("op"), I("op"), I("op"), I("exit"), I("op"), I("op")>>
BothPrograms == [p \in BOOLEAN \X (1 .. 7) |-> IF p[1] THEN TrapCode[p[2]] ELSE LoopCode[p[2]]]

\* In the routine that is called, in the one that one calls, and in the hypervisor.
SomeBreakpoints == {<<FALSE, 4>>, <<FALSE, 6>>, <<TRUE, 5>>}

Transfer == INSTANCE SerialTransfer WITH
  Half <- 5, SectorSize <- 2, MaxSector <- 2, Lookahead <- 2, Jobs <- Jobs,
  MaxJobs <- 2, pc <- s_pc, jobNo <- s_jobNo, job <- s_job,
  recent <- s_recent, decoder <- s_decoder, rle_enable <- s_rle_enable,
  mem <- s_mem, srv <- s_srv, card <- s_card, line <- s_line
ASSUME Transfer!SerialAssumption

Link == INSTANCE MonitorLink WITH
  RxBuffer <- TRUE, Slab <- Slab, Chunk <- Chunk, Pushes <- Pushes,
  Loads <- Loads, Reads <- Reads, MaxCalls <- MaxCalls, MaxRepeats <- MaxRepeats,
  MaxVersion <- MaxVersion,
  call <- l_call, calls <- l_calls, cpu_stopped <- l_cpu_stopped,
  faked <- l_faked, repeats <- l_repeats, doubled <- l_doubled, toMonitor <- l_toMonitor,
  fromMonitor <- l_fromMonitor, running <- l_running, ram <- l_ram,
  version <- l_version, history <- l_history
ASSUME LinkSizes == Link!LinkAssumption

Floppy == INSTANCE VirtualF011 WITH
  MaxSector <- 2, FirstIsRead <- TRUE, MaxRequests <- 4, guest <- f_guest,
  request <- f_request, requests <- f_requests, buffer <- f_buffer,
  image <- f_image, opened <- f_opened, at <- f_at,
  recent_bytes <- f_recent_bytes, pending <- f_pending,
  last_virtual <- f_last_virtual, line <- f_line, disk <- f_disk
ASSUME Floppy!VirtualAssumption

Debug == INSTANCE Debugger WITH
  Cells <- Cells, Code <- Code, Entry <- Entry, Breakpoints <- Breakpoints,
  Same <- Same, Samples <- Samples,
  Careful <- TRUE, MaxCommands <- MaxCommands, MaxTraps <- MaxTraps,
  pc <- d_pc, stack <- d_stack, running <- d_running, mem <- d_mem,
  hv <- d_hv, resume <- d_resume, traps <- d_traps,
  at <- d_at, then <- d_then, softbrkaddr <- d_softbrkaddr,
  softbrkmem <- d_softbrkmem, high <- d_high, in_hv <- d_in_hv,
  cur_pc <- d_cur_pc, same_cnt <- d_same_cnt,
  cnt <- d_cnt, cpu_stopped <- d_cpu_stopped, target <- d_target,
  frame <- d_frame, finishing <- d_finishing, commands <- d_commands,
  outcome <- d_outcome, patched <- d_patched, crossed <- d_crossed
ASSUME DebuggerSizes == Debug!DebuggerAssumption
ASSUME ProgramStays == Debug!ProgramAssumption

Disks == INSTANCE ReadDisk WITH
  Tracks <- 5, Seeks <- 1, First <- 4, Last <- 5, Sectors <- 2,
  head <- r_head, stuck <- r_stuck, busy <- r_busy, command <- r_command,
  lost <- r_lost, failed <- r_failed, motor <- r_motor,
  selected <- r_selected, regs <- r_regs, real <- r_real,
  auto_seek <- r_auto_seek, buffer <- r_buffer, cpu <- r_cpu, at <- r_at,
  i <- r_i, track <- r_track, side <- r_side, sector <- r_sector
ASSUME Disks!DiskAssumption

Off == "off"
TransferOff ==
  /\ s_pc = Off /\ s_jobNo = Off /\ s_job = Off /\ s_recent = Off
  /\ s_decoder = Off /\ s_rle_enable = Off /\ s_mem = Off /\ s_srv = Off
  /\ s_card = Off /\ s_line = Off
LinkOff ==
  /\ l_call = Off /\ l_calls = Off /\ l_cpu_stopped = Off /\ l_faked = Off
  /\ l_repeats = Off /\ l_doubled = Off /\ l_toMonitor = Off /\ l_fromMonitor = Off
  /\ l_running = Off /\ l_ram = Off /\ l_version = Off /\ l_history = Off
FloppyOff ==
  /\ f_guest = Off /\ f_request = Off /\ f_requests = Off /\ f_buffer = Off
  /\ f_image = Off /\ f_opened = Off /\ f_at = Off /\ f_recent_bytes = Off
  /\ f_pending = Off /\ f_last_virtual = Off /\ f_line = Off /\ f_disk = Off
DebugOff ==
  /\ d_pc = Off /\ d_stack = Off /\ d_running = Off /\ d_mem = Off
  /\ d_at = Off /\ d_then = Off /\ d_softbrkaddr = Off /\ d_softbrkmem = Off
  /\ d_cur_pc = Off /\ d_same_cnt = Off /\ d_cnt = Off /\ d_cpu_stopped = Off
  /\ d_target = Off /\ d_frame = Off /\ d_finishing = Off /\ d_commands = Off
  /\ d_outcome = Off /\ d_hv = Off /\ d_resume = Off /\ d_traps = Off
  /\ d_high = Off /\ d_in_hv = Off /\ d_patched = Off /\ d_crossed = Off
DisksOff ==
  /\ r_head = Off /\ r_stuck = Off /\ r_busy = Off /\ r_command = Off
  /\ r_lost = Off /\ r_failed = Off /\ r_motor = Off /\ r_selected = Off
  /\ r_regs = Off /\ r_real = Off /\ r_auto_seek = Off /\ r_buffer = Off
  /\ r_cpu = Off /\ r_at = Off /\ r_i = Off /\ r_track = Off /\ r_side = Off
  /\ r_sector = Off

Init ==
  \/ /\ subject = "transfer" /\ Transfer!Init
     /\ LinkOff /\ FloppyOff /\ DebugOff /\ DisksOff
  \/ /\ subject = "link" /\ Link!Init
     /\ TransferOff /\ FloppyOff /\ DebugOff /\ DisksOff
  \/ /\ subject = "floppy" /\ Floppy!Init
     /\ TransferOff /\ LinkOff /\ DebugOff /\ DisksOff
  \/ /\ subject = "debugger" /\ Debug!Init
     /\ TransferOff /\ LinkOff /\ FloppyOff /\ DisksOff
  \/ /\ subject = "readdisk" /\ Disks!Init
     /\ TransferOff /\ LinkOff /\ FloppyOff /\ DebugOff

OnlyTransfer ==
  UNCHANGED <<subject, l_vars, f_vars, d_vars, r_vars>>
OnlyLink ==
  UNCHANGED <<subject, s_vars, f_vars, d_vars, r_vars>>
OnlyFloppy ==
  UNCHANGED <<subject, s_vars, l_vars, d_vars, r_vars>>
OnlyDebug ==
  UNCHANGED <<subject, s_vars, l_vars, f_vars, r_vars>>
OnlyDisks ==
  UNCHANGED <<subject, s_vars, l_vars, f_vars, d_vars>>

Next ==
  \/ subject = "transfer" /\ Transfer!Next /\ OnlyTransfer
  \/ subject = "link" /\ Link!Next /\ OnlyLink
  \/ subject = "floppy" /\ Floppy!Next /\ OnlyFloppy
  \/ subject = "debugger" /\ Debug!Next /\ OnlyDebug
  \/ subject = "readdisk" /\ Disks!Next /\ OnlyDisks

Spec == Init /\ [][Next]_vars

\* What goes on by itself: each side of a line polls it in an endless loop.
OneSide ==
  \/ subject = "transfer" /\ Transfer!Waiting /\ OnlyTransfer
  \/ subject = "link" /\ Link!Work /\ OnlyLink
  \/ subject = "floppy" /\ Floppy!M65 /\ OnlyFloppy
  \/ subject = "debugger" /\ Debug!Work /\ OnlyDebug

OtherSide ==
  \/ subject = "transfer" /\ Transfer!Server /\ OnlyTransfer
  \/ subject = "link" /\ Link!Monitor /\ OnlyLink
  \/ subject = "floppy" /\ Floppy!SendRequest /\ OnlyFloppy
  \/ subject = "debugger" /\ Debug!Processor /\ OnlyDebug

FairSpec == Spec /\ WF_vars(OneSide) /\ WF_vars(OtherSide)

-----------------------------------------------------------------------------
(* Properties *)

\* Every variable has its type.
TypeOK ==
  /\ subject = "transfer" => Transfer!TypeOK
  /\ subject = "link" => Link!TypeOK
  /\ subject = "floppy" => Floppy!TypeOK
  /\ subject = "debugger" => Debug!TypeOK

\* The serial protocol is a disk that executes one job at a time, like the one
\* over Ethernet: reads return the card as it was during the job, writes reach
\* it whole.
TransferIsADisk ==
  [][subject = "transfer" => Transfer!Disk!Next \/ UNCHANGED Transfer!Disk!vars]_vars

\* Memory arrives as it was sent, through the run-length code, and so does the
\* flash; a batch the client takes for finished leaves nothing behind that the
\* next one could take for its own answer.
MemoryArrives ==
  subject = "transfer" => Transfer!MemoryArrives /\ Transfer!QuietBetweenBatches

\* Between two calls a tool knows whether the CPU runs, no memory is loaded while
\* it does, and a read returns a value the memory has had during the call unless
\* a request was repeated before.  Two things of the code are excepted: after
\* fake_stop_cpu the tool takes a running CPU for stopped, until it starts it, and
\* loads memory under it; and load_file does not stop the CPU.
LinkIsInStep ==
  subject = "link" => Link!BeliefIsRight /\ Link!LoadsWhileStopped /\ Link!FetchIsCurrent

\* A guest that goes on finds the sector it asked for, and no other sector of
\* the image changes; the sectors readdisk asks a floppy for are read with the
\* head where it counted it to be, and the drive is left alone afterwards.
DriveIsADisk ==
  /\ subject = "floppy" => Floppy!DriveIsADisk /\ Floppy!ImageIsKept
  /\ subject = "readdisk" => Disks!ReadsAreAimed /\ Disks!DriveIsLeftAlone

\* The programs in memory are those that were loaded but for the breakpoint the
\* debugger can put back, as long as none was cleared in another mode.
ProgramIsKnown == subject = "debugger" => Debug!ProgramIsKnown

\* A processor that has come to the breakpoint does not get past it, and stands
\* when it is taken away; one that is reported is gone.
BreakStops ==
  [][subject = "debugger" => Debug!BreakStops]_vars

\* next and finish end in the frame they are to end in.
FramesAreKept == subject = "debugger" => Debug!FramesAreKept

\* Every wait on the line ends: for the end of a batch, for the end of a call
\* of the monitor, of the guest for its sector, and of continue for a program
\* that has run into its breakpoint.
BatchWaits == subject = "transfer" /\ s_pc = "count"
CallWaits == subject = "link" /\ l_call.at # "idle"
GuestWaits == subject = "floppy" /\ f_guest = "waits"
BreakWaits ==
  /\ subject = "debugger" /\ d_at = "wait" /\ d_running /\ d_pc = d_softbrkaddr
  /\ d_mem[<<d_hv, d_pc>>] = Debug!JumpToItself
Waits == BatchWaits \/ CallWaits \/ GuestWaits \/ BreakWaits
Ended ==
  \/ subject = "transfer" /\ s_pc = "ready"
  \/ subject = "link" /\ ~CallWaits
  \/ subject = "floppy" /\ ~GuestWaits
  \/ subject = "debugger" /\ d_at = "idle"
EveryWaitEnds == Waits ~> Ended

=============================================================================
