# Verification of the MEGA65 tools

TLA+ models of the programs in this repository that keep state: the transfer of
files to the SD card of a MEGA65 (`mega65_ftp`, `remotesd`, `remotesd_eth`), the
serial monitor link (`m65`, `m65common`), the debugger (`m65dbg`), the network
tools (`etherload`, `tftpserver`, the file host), the configuration utility,
and the converters whose result something else has to read back.  TLC checks the
models on small instances; TLAPS proves, for all sizes, the sector layer, the Ethernet
protocol, that files on the card never share clusters, the calls on the monitor line,
the run control of the debugger, and on the network the load of a program, the search
for the MEGA65 and the transfer of a file.
Source paths below are relative to `src/` of this checkout; the programs are in
`src/src/tools` and `src/src/utilities`.

## 1. The system

    user command                       put, get, del, rename, mkdir, cd, flash ...
      FAT32 layer                      mega65_ftp.c 2009-3000, 3800-5550
        sector cache, write queue      mega65_ftp.c 1710-2007
          job client                   mega65_ftp.c 1150-1730
            serial monitor             m65common.c             (serial line)
              remotesd                 remotesd.c              (MEGA65)
            ack window                 etherload_common.c      (Ethernet)
              remotesd_eth             remotesd_eth.c          (MEGA65)
                  SD card, flash

    m65, m65dbg ---- serial monitor ---- CPU and memory of the MEGA65
    etherload ------ Ethernet ---------- DMA loader in the MEGA65's receive buffer
    TFTP client ---- Ethernet ---------- tftpserver.a65 ---- SD card
    mega65_config -- hypervisor calls -- configuration sector
    bit2core, romdiff, md2h65, mfm-decode: file to file

| Component | State | Operations | Interacts by |
|---|---|---|---|
| FAT32 layer | directory position, current directory, `dir_sector_buffer`, `fat_sector`; everything else is on the disk | put, get, delete, rename, mkdir, cd, dir, mount | `read_sector`, `write_sector`, `execute_write_queue` |
| Sector layer | `sector_cache`, `sector_cache_count`, `write_data_buffer`, `write_sector_numbers` | read, write, flush | job queue `queue_cmds` |
| Job client | job list, run-length state (serial); `write_batch_counter`, `queue_read_data` (Ethernet) | one function per kind of job | monitor, or `ethl_send_packet` and callbacks |
| Ack window | `frame_unacked`, `queue_length`, send times | `expect_ack`, `check_if_ack`, `maybe_send_ack` | UDP |
| `remotesd` | number of jobs, run-length state | polling loop | monitor, serial line |
| `remotesd_eth` | pending reply, write batch, read batch, login, last mount | `process()`, `get_new_job()` | UDP, card |
| Monitor link | `cpu_stopped`, what is unread on the line | stop, start, push, fetch, sync | serial line |
| `m65` | options still to be done, drive, text, log | `main()`, `virtual_f011_*`, `do_type_text`, unit tests | monitor link |
| `m65dbg` | soft breakpoint, listings, symbols, watches, history | commands | monitor link |
| `etherload` | load address, window, exchanged callbacks | `send_mem`, `ethl_single_command` | ack window, `ethlet_*.a65` |
| `tftpserver` | one transfer | received frames | UDP, hypervisor |
| `mega65_config` | options, blocks, page | keys and mouse | hypervisor |
| converters | position in the file, tables made so far | one pass | files |

What is hard here, and what makes each part correct:

- **Sector layer.**  Three copies of a sector (card, queue, cache).  Together
  they behave as a disk with a write-back buffer; nothing is lost when queue or
  cache fill up or a command fails half way.
- **Ethernet protocol.**  Lost, repeated and late packets, timeouts whose result
  is not looked at, one-byte batch counters, a reply template shared by reads and
  writes.  What is acknowledged is stored, a batch is stored once and in its
  place, every job ends although packets are lost.
- **FAT32 layer.**  Each command is a sequence of sector writes that can stop
  anywhere.  No two files share a cluster, a finished file is not touched by
  other commands, a name stands for what was put under it.
- **Serial line.**  A byte stream without frames or check sums; answers are
  told apart by what precedes them, and old ones may still be on the line.  What
  was sent arrives, the tool knows whether the CPU runs, every wait ends.
- **Debugger.**  Code is patched under a running program, whose state is sampled.
  The program is known at all times.
- **Network tools.**  A callback is exchanged for one command; the server has no
  clock; parsers keep part of their state over a chunk.  A program is started
  when it is complete, a file arrives whole.
- **Converters and settings.**  What was encoded is decoded to the same, what is
  shown is what is stored.

All hazards found are in `PROJECT.json`, each at its line, with the properties
that cover it or the reason why none does.

## 2. Modules

| Module | Models |
|---|---|
| `WriteBackDisk` | abstract: a disk with a write-back buffer (`latest`, `stable`) |
| `SectorCache` | `read_sector`, `write_sector`, `queue_write_sector`, `execute_write_queue` |
| `SectorCacheProofs` | theorems about `SectorCache` |
| `EthNet`, `EthClient`, `RemoteSDEth` | the UDP link (external), `process_jobs_ethernet` with the ack window, the main loop of `remotesd_eth` |
| `RemoteDisk` | abstract: a disk that executes one job at a time |
| `EthRemoteSD` | client, link and MEGA65 together |
| `EthServerProofs` | theorems about `EthRemoteSD`: what each step of the MEGA65 does to batches and replies |
| `EthRemoteSDProofs` | its inductive invariants and safety theorems, and that it implements `RemoteDisk` |
| `RemoteSDNet` | the frames `remotesd_eth` takes, whom it answers, check sums, neighbour discovery, read-memory |
| `Discovery` | the search for the MEGA65 on the interfaces of the PC |
| `FatFs` | put, delete, rename, mkdir over the write-back disk, with crashes; at its end the cards of the runs |
| `FatFsProofs` | theorems about `FatFs`: types, and that files share no clusters |
| `FatFilesProofs` | that what finished commands stored stays what it is, and that no cluster is lost |
| `LongNames` | long names in a directory: writing, reading back, numbering, patterns, with crashes |
| `Browse` | cd, dir, mkdir, rename, del, get, mount over several directories |
| `FtpSession` | options, start of the helper, choice of a command and its arguments |
| `FtpTools` | poke, dumps, partitions, freeze slots and flash |
| `FileHost` | the list and the download of the file host |
| `SerialTransfer` | serial job client and `remotesd`, and their run-length code |
| `MonitorLink` | the calls of `m65common` against the monitor (the monitor is external) |
| `M65Session` | one run of `m65` |
| `VirtualF011` | the virtual floppy drive of `m65` |
| `TypeText`, `UnitTestLog` | typing on the virtual keyboard; the log of unit tests |
| `Debugger` | continue, soft breakpoints, step, next, finish of `m65dbg` |
| `DebuggerProofs` | theorems about `Debugger` |
| `SerialLineProofs` | theorems about `MonitorLink`, and those of `DebuggerProofs` for the suite `MCSerialLine` |
| `SymbolMap`, `Assembler`, `DebugMemory` | listings, symbols and watches; assembler and disassembler; memory commands of `m65dbg` |
| `DmaLoad` | `etherload` and its loader on the MEGA65 |
| `TftpServer` | `tftpserver.a65` and a client |
| `NetworkToolsProofs` | theorems about `TftpServer`, `DmaLoad` and `Discovery` |
| `ConfigUtility` | `mega65_config` |
| `CoreFile`, `RomDiff` | `bit2core`, `romdiff` |
| `MfmDecode` | `mfm-decode` |
| `ReadDisk` | `readdisk`: seeking and reading real tracks with a drive that may be busy |
| `ScreenShot` | the picture `screen_shot` makes of screen memory, against what the display shows |
| `PageLayout`, `PageTiles` | `md2h65`: text and pictures of a page |
| `MCSerialLine`, `MCNetworkTools`, `MCStandalone` | suites: several components that do not interact, each instantiated, see below (`SectorCache`, `FatFs` and `EthRemoteSD` have the instances of their runs at their end or in the .cfg) |

Composition.  `SectorCache` is proved to implement `WriteBackDisk`; `FatFs` writes
through an action `Write` that is the `Write` of `WriteBackDisk` with the order of
the queued sectors added.  `EthRemoteSD` implements `RemoteDisk`, on which the
queue is executed, and `SerialTransfer` implements the same `RemoteDisk`.

Suites.  A suite instantiates components under prefixed variables.  `subject` is
chosen at the start and says which component a behaviour is about; the
variables of the others are `Off`.  A suite adds nothing but that; a property of
a suite is the conjunction of properties of its components that ask the same
question, each under `subject = ...`.  The sizes of the components that are proved
about are constants of the suite, given in the .cfg, so that the theorems are about
every value of them; the others are instantiated with the values of the run.

Definitions whose names end in `_Something` after the name of another
definition (`Queued_NoMerge`) are wrong variants of it, preceded by the words
"Wrong variant".  Nothing uses them; they are there to show that a property
notices the mistake.

### Sectors and jobs

`SectorCache`: every function is one action, except the loop of `read_sector` that
stores a batch in the cache (`ReadBatch`, `StoreNext`, `ReturnRead`): it may
flush the queue half way, so the state in between matters.  `cmd` is the
kind of command in progress: "flushing" ends in `execute_write_queue`, "putslot"
does not, "reading" only reads.  The history variable `clobbered` records the
cached sectors that a read-ahead overwrote while a newer write was queued.

`EthClient`: `pc` says in which wait the client is: "clear" (at the start of
a job), "send", "full" (`expect_ack` without a free slot), "drain" (at the end),
"ready", "exited".  Packets are received and resent only inside waits, as in the
code.  `Matches` is `ethernet_match_payloads` byte by byte where it matters.
`RemoteSDEth`: `srv` is a record of the globals; one call of `process()` is
`Transmit` followed by `Poll`, whose disjuncts are its exits.  Sector numbers
keep their byte split (`Byte`) because the match looks at single bytes; batch
counters count modulo `BatchMod`.  `RemoteSDNet` has what `get_new_job` does before
a job is one: lengths, addresses, ports and sums, and the one reply buffer that
replies to frames and jobs share.

`SerialTransfer`: the job list is built, its number written, and `remotesd` polls
that number; the answer is a sequence of tokens on `line`, with run-length coded
sectors in between.  The encoder keeps the two-part buffer of the
code (`PutOther` is the branch for a byte that differs).

### The card

`FatFs`: a FAT of one or several sectors (`perSector`) and an area of clusters; one
sector stands for a cluster.  Every action of a command is one sector write or a `Flush`.  `fs` is
the disk as the program sees it through cache and queue, `card` what is
stored.  `Crash` may come between any two of them, leaves any prefix of the
queue on the card, and the program starts anew from the card.  Entry 0 of the
FAT is modelled, because `delete` can free it and `find_free_cluster` cannot tell
it from "nothing found in this sector".  The history variable `files` holds what each name
should hold after the commands that finished.

`LongNames` leaves clusters out and has the slots of a directory, written and
flushed one by one; names are sequences of characters with a map of capitals.
`Browse` sees and changes the card as a whole per command, except for a download,
which is followed sector by sector through its chain.

### The monitor line

`MonitorLink`: `toMonitor` and `fromMonitor` are the line; the CPU, when it runs,
writes memory in between (`version`).  What is thrown away unread
(`purge_input`) is an action that sees only what has arrived.  `fake_stop_cpu` is a call like the others:
`slow_write_safe` sends t1, t1, t0, and the wait for an echo then notes a stopped CPU while it
runs (`faked`).  A load command is marked `hot` when the tool does not have the CPU stopped
around it: in `load_file`, and in everything behind `fake_stop_cpu`, such as the push
of the helper of `mega65_ftp` (`mega65_ftp.c:931`, and 1123 in front of 1128).  Both waits that repeat
t1, t0, a dump request or a token after a second are actions.  Left out: the t0 that `load_helper` and
`return_from_hypervisor_mode` send past these calls, `restart_hyppo`, `breakpoint_wait` and
`detect_mode`; and the line loses no characters.  `M65Session` takes those
calls as steps, and follows `cpu_stopped` through the options in the order of
`main()`, and what a saved range of memory holds.  `VirtualF011` has the guest, the hypervisor's request, cut anywhere by
the reads of `m65`, and the image.  `Debugger` has two small programs as `Code`, one of the user and one of the hypervisor, with
the same 16-bit addresses (`Places`: mode and cell).  The CPU executes them while the debugger
samples, and changes between them by a trap, by an instruction of the user's program or by the
hypervisor's return.  Each look at the registers and each t1, t0, read and write of memory is
an action of its own: between the sample that shows the breakpoint and the t1 of `clearSoftBreak`
the CPU goes on.  `setSoftBreakpoint` writes to the place of the mode it saw, `clearSoftBreak` to
that of the mode it finds, as the code does; `crossed` notes that they differed.  Commands that read registers of a
running CPU before they step (`cmdNext`, `cmdFinish`) are given to a standing one, and repeat counts
are left out.  A program of the user lies in bank 0, so that what "s" writes (a physical
address) is what the CPU executes.  No trap comes while the debugger steps.

### The network

`DmaLoad`: frames carry the code that copies them; an echo of a command's length
is its acknowledgement.  `TftpServer`: server and client over a link that loses
packets; the client repeats, the server does not.  A file may be missing, found and not
to be opened (`Locked`), or created by a request to write it (`card`), which is refused all the same.  `FileHost`: the parsers, whose
static variables survive a chunk and whose locals do not; the answer may be cut
anywhere.  `Discovery`: the address the user gives, or a socket per interface that
is read in turns until the time is over.

### Settings, converters

`ConfigUtility` has pages under tabs, the copies of the options, the two
blocks and the card; for the MAC address also the characters on the screen (`shown`), as
`doAppMACChar` puts the letter there and something else into the byte.  The converters (`CoreFile`, `RomDiff`, `MfmDecode`,
`PageLayout`, `PageTiles`) are state machines of the loop of their programs, with
the reader's side as the reference: the decoder in the program, or a definition
of what the format says.  `ScreenShot` walks the screen as the program does, a glyph
at a time, and is compared with a definition of the pixel the VIC-IV shows.
`ReadDisk` has the floppy controller as an external part with its head, its busy
flag and what is lost while it is busy.

## 3. Runs

| Run | Question | Instance | Result |
|---|---|---|---|
| `sector_cache` | cache, queue and card consistent; implements `WriteBackDisk` | 3 sectors, 2 values, cache and queue of 2, batches of 2 and 3 | holds |
| `sector_cache_stale_read` | does a read return the last write? | same | violated |
| `eth_batches` | acknowledged data stored, no fatal error, implements `RemoteDisk` | 3 jobs, batch of 3 over a window of 2, 1 loss, reads, mounts | holds |
| `eth_liveness` | every job ends by resending | 2 jobs, overlapping batches and a read, 1 loss | holds |
| `eth_timeouts` | data in its sector when waits give up | login, 2 overlapping batches, quit; reordering | holds |
| `eth_stale_read` | do reads return what the card holds? | reads and a write, no loss | violated |
| `fat_commands` | clusters and files safe, none lost | 8 FAT entries, 3 commands, 1 crash, two layouts | holds |
| `fat_full_directory` | does a full directory on a full card keep its entries? | 1 put | violated |
| `serial_line` | memory, CPU, drive and program are as the tools believe; waits end | suite of 5 components | holds |
| `network_tools` | programs start complete, files and lists arrive whole, transfers end | suite of 5 components | holds |
| `standalone` | results are what was asked for | suite of 17 components | holds |
| `wildcard_tails` | does a pattern delete what it matches and nothing else? | names that go on behind a match | violated |

Deadlock is not checked: the user stops typing commands (bounds `MaxJobs`,
`MaxCommands`, `MaxCalls`), sessions and conversions end, and some programs stop
with a fatal error.

### Properties that hold

- `CoherentUnlessClobbered` (`sector_cache`): a cached sector holds the last
  data written to it, unless a read-ahead replaced it.  With the violated
  `ReadReturnsLastWrite` it says that this replacement is the only way in which
  the cache goes wrong.  `QueueHasOneJobPerSector`: the order of a flush does not
  decide what a sector holds.  `CountIsNumberOfEntries`: the cache is never
  searched or filled past its end.
- `AckedMeansStored`: an acknowledgement that the client accepts for a sector
  is never a late one of another batch.  `NoFatal`: the MEGA65 never meets the
  situations its fatal errors are for.  `BatchesInStep`: both ends agree on the
  batch at hand, and their counters do not drift.  `MountAnswered`: an answer to an
  older mount is not taken for that of the present one.
- `BatchesStayApart` (`eth_timeouts`): even when the client goes on without
  acknowledgements and the network reorders packets, the active batch is
  accounted for and no data lands in a sector it was not meant for.
- `EveryJobEnds` (`eth_liveness`).
- `NoCrossLinks`, `FilesSafe`, `NoLostClusters` (`fat_commands`): about
  the card as well as the program's view of it, in every state, so also about
  what a crash leaves.
- `serial_line`: `TransferIsADisk` (the refinement of `RemoteDisk`),
  `MemoryArrives` (run-length code, and nothing left on the line behind a
  batch), `LinkIsInStep` (`cpu_stopped` is right between calls, and wrong
  in one way only after `fake_stop_cpu`; loads happen with the CPU stopped but for
  `load_file` and what follows `fake_stop_cpu`; a read returns a value of its time), `DriveIsADisk` (the virtual drive
  gives back what was written; a real track is read by a drive that is left alone and
  has its head where it was sent),
  `ProgramIsKnown` (memory differs from the programs by the breakpoint only, and
  the debugger knows what was there, as long as no breakpoint was read or restored in
  another mode than it was set in), `BreakStops` (a CPU that has come to the breakpoint does not
  get past it while it is patched, and stands when the patch goes), `FramesAreKept` (next and
  finish end in their frame, with calls below it), `EveryWaitEnds` (one leads-to for the waits of
  all components).
- `network_tools`: `StartsComplete` (the program is started with all of it in
  memory; the MEGA65 it is sent to is one that announced itself), `TransferIsTheFile`,
  `AnswersAreWhole` (lists and files do not depend on where an answer is cut;
  replies of `remotesd_eth` go to whom they are for with a right sum), `TransferEnds`.
- `standalone`: `SessionEndsAsAsked`, `ProgramLoadsStopped`, `TextArrives`,
  `LogIsWhatWasSent`, `DebuggerHolds`, `ConversionsComeBack`, `CoreIsWhole`,
  `DirectoryHolds`, `BrowsingHolds`, `StoredIsWhatIsShown`; the comment on each in
  `MCStandalone` says which parts it has.  `ProgramLoadsStopped` is about sessions of `m65`; the
  push of the helper by `mega65_ftp` is not among them, see `LinkIsInStep`.  `LogIsWhatWasSent`
  is for texts that fit the buffer of 160 bytes and do not hold its terminator, and for
  junk on the line below the states (`UnitTestAssumption`).  `StoredIsWhatIsShown` leaves out a byte of the
  MAC address into which a letter was typed (`spoilt`, see the defects).

### Bounds

- Sector layer: three sectors with room for two make every write either merge,
  append or overflow, and every store hit, fill or clear the cache; two values
  tell an old content from a new one.  The theorems show that the sizes do not
  matter.
- Ethernet: a batch larger than the window makes the client wait in the middle
  of it; two jobs after each other are what late packets need, and the third
  lets a read follow a write.  `BatchMod` is 4, so that half of the range is
  two batches; in `eth_timeouts`, where packets of any age arrive, it is 6, so that
  the jobs stay under a full turn, as packets of 256 batches ago are
  not in the network any more.  A byte has `Byte` = 3 values and the card six or seven
  sectors, so that sector numbers need both bytes and writes lie where the
  partition of the program does (`JobsAssumption`).  One loss is enough for every
  single packet to be missing once; resending is not bounded.
- FAT: eight entries hold a directory, its extension and two files of two
  clusters.  Three commands are a file, what disturbs it and what uses the
  clusters again.  The layout "Roomy" forces the directory to grow; "Tight"
  leaves one run of two clusters, and its FAT has two sectors, so that a search
  passes from one to the other.  Neither leaves the last cluster of the card
  free or lets a chain cross two FAT sectors (see the defects).
- Serial line: `Half` is 5 instead of 128, so that a run and a row of raw bytes
  reach their limit, are cut there and go on; slabs of 10 bytes with chunks of 3,
  and writes of one and of two chunks, the second up to the last byte but one of a
  slab; at most one request is repeated (`MaxRepeats`), also the t1 or t0 of a purge.  A real disk has five tracks
  of two sectors, of which the last two are read after one seek.  The virtual drive has two sectors and four
  requests, so that the request for the sector just moved is among them.  The debugged program calls
  a routine in a loop, which is what separates next from step, and enters the hypervisor by an
  instruction and by one trap (`MaxTraps`); breakpoints are set in that routine, in the one it
  calls and in the hypervisor, whichever of the two programs runs at the time.  `Same` and `Samples`
  are how often the program counter must be seen unchanged, and how often it is looked at.
- Network: three blocks, two of them for one address, over a window of 2, two
  losses, three repetitions and one wait that times out (`MaxTimeouts`); files
  of 1 and 4 blocks with block numbers modulo 4 (`Wrap`), so that they wrap, any of
  which may be missing at first, and one that cannot be opened; two
  losses and two early repetitions.  Lists of up to two files in answers that are cut once, anywhere (`MaxChunks`).
  Two interfaces of up to three may be opened (`MAX_INTERFACES`).
- Standalone: sessions of every three of 25 options (a pair of options of `m65`
  is what can disturb one another, and the third is the victim); names with
  short names of three characters and one, so that numbers appear and are cut; three
  commands with a crash; documents that break a line, leave a page row, or carry
  links; pictures with more colours than the palette; screens of 9 by 6 pixels with glyphs of
  two rows in each of the text and bitmap modes; ranges that are saved within one
  piece and over several (`Piece`).  `MaxChanges` bounds edits;
  the digits typed are one below $A and one above.

### Fairness

`eth_liveness` assumes weak fairness of the client's own steps, of receiving, of
resending, and of the three kinds of step of the MEGA65.  The client's waits are
loops that receive everything available and resend after an interval
(`expect_ack`, `wait_ack_slots_available`); `main` of `remotesd_eth` calls
`process()` for ever.  Starting a job is not fair (that is the user), nor is
losing a packet.  Timeouts are switched off in the liveness run: with them a wait
always ends, and the question is whether resending brings the answer.

`serial_line` assumes weak fairness of each side of the line (`OneSide`,
`OtherSide`): the tools read in a loop until they have what they wait for, the
monitor and `remotesd` poll for ever, and the CPU executes.  `network_tools` assumes it of
the server (it handles each frame that comes) and of the client's receiving,
giving up and timer.  The commands of a user are not fair.

## 4. Findings

1. `sector_cache_stale_read`: `read_sector` stores a read-ahead batch over cached sectors with
   queued writes (`mega65_ftp.c:1937`); a later read returns the old content.
2. `eth_stale_read`: a repeated read request may still be executed when the
   client has gone on; an old sector is taken as the answer of a later read
   (`mega65_ftp.c:1632`).  This is why `RemoteDiskTheorem` has no reads.
3. `fat_full_directory`: `extend_dir_cluster_chain` does not look at whether it found a
   cluster (`mega65_ftp.c:4248`).  It chains the directory to cluster 0, which marks the
   directory's cluster free, clears cluster 0 (the end of the second FAT) and writes the
   entry there; the file then gets the directory's own cluster, and its data is written
   over the entries.  The trace ends with that write.
4. `wildcard_tails`: a pattern deletes names that go on behind what it matches
   (`mega65_ftp.c:2924`).

### Known defects outside the runs

Met while modelling.  The runs stay clear of them by the constants named here, or
by what the models leave out; they are listed so that nobody takes a passing run
for their absence.

*mega65_ftp, sectors and card.*  `putslot` and `quit` leave the write queue
unwritten (4809).  A login and a mount are answered once by `remotesd_eth` (1208,
1239): when that answer is lost, the wait ends with a timeout.
`find_contiguous_clusters` never ends when there is no run of the length (2766).
A put under the name of a directory overwrites it or makes a second entry (4352).
When the *last* cluster of the card is free and a `delete` of an entry without
clusters has freed FAT entry 0, a run may be taken to go on past the FAT (3840).
A chain over two sectors of the FAT: when the flush stops between them, a link
leads to a cluster that counts as free, and the next put may take it
(4450; `NoCrossLinks` is violated on the cards of `Layouts_Across`).

*Names (`LongNames`, `Again`).*  Repeating the interrupted put of a long name
writes into a slot that counts as free.  A delete that is broken off between
sectors leaves the head of a long name, which then stands for another file.
`delete *` in an empty directory dereferences a null pointer.

*Directories (`Browse`).*  `cd foo/` keeps the slash, so that `cd ..` only removes
that; `cd /foo/..` is kept as it is.  `roms` lists the root but opens the files in the
current directory, and ends at the first it does not find there.  `dir` of a relative path in a subdirectory frees
the list twice or shows the directory of the root.  `..` entries with cluster 0 lead
into an empty directory.  Deleting an empty file frees FAT entry 0.  After a
premature end of a chain the file is closed twice.

*Sessions (`FtpSession`, `FtpTools`).*  `putslot 1 foo` also uploads a file "slot"
(a missing else, 534); `get slotX d` is taken for `getslot`; `sector $10` shows
sector 0; prefixes of commands match (`delete x` runs `del` with "ete"); the
result of `wait_all_acks(3000)` is ignored before the helper is started
(`MayTimeOut`).  Partitions behind an unused entry are not shown; a negative slot
passes the checks before flashing.

*Serial line.*  `fake_stop_cpu` leaves the CPU running and the tool believing that it is stopped
(`m65common.c:402`; the comment above it says so), and the helper of `mega65_ftp` is loaded after it
(1128).  `load_file` writes under a running CPU.  A program may be loaded while the CPU runs after
`return_from_hypervisor_mode` (`m65.c:1489`; `InStep` keeps it out of the
sessions).  The length of a chunk is 0 for the last byte of a 64 KB slab
(`m65common.c:915`; `PushesAcrossSlabs`).  A repeated `fetch_ram` leaves a stale
answer for the next call until `monitor_sync`.  An image whose first access is a
write is emptied (`FirstIsRead`).  `exit(failcount)` is taken modulo 256.  `~z`
while typing types the character before it again; upper-case letters press
shift only.

*m65dbg.*  A second soft breakpoint loses the instruction under the first
(`Careful`).  A soft breakpoint that is hit in another mode than it was set in is restored at another
address and forgotten: the patch stays, and the other program gets an instruction that
is not its own (`commands.c:2467`, 2492; `crossed`).  An instruction of the user's program that
is read while the hypervisor is mapped comes from the hypervisor (2500; the CPU was taken for
standing and ran on).  A continue may report a breakpoint
that was not reached, when the program counter stands just behind it or at the same 16-bit address in
the other mode.  `search` looks at 32 lines of which 16 are read, never finds one-byte
patterns and misses a match that begins at a mismatch.  `mcopy` upwards over its own
source repeats its first lines.  One-shot assembly writes the physical $F0 and
restores the mapped one (`MapBase`), and leaves a CPU that ran stopped.  Bit
branches are shown differently from how they are assembled.  The last line of a BSA
or ca65 listing is counted twice.

*Network.*  `etherload` ignores the timeouts after `load_file`
(`etherload.c:537`; `EndMeansLoaded` fails with `MaxTimeouts` above 0).  Only the first frame of a
file lifts the write protection of the ROM (`etherload_common.c:815`): when it is lost, later frames of the
window are echoed without having written anything, and `etherload` ends well with a part
of the ROM missing (`losses = 0` in `Loaded`).  With no file to send, a late echo of the repeated ping
is taken for that of the last command (`etherload_common.c:676`), and `etherload` ends well
though nothing was started (`Blocks # << >>` in `EndMeansStarted`).
`tftpserver` takes acknowledgements from any sender, loses a carry of its check
sum and never acknowledges writes.  The file host parser fails when a chunk ends
between a backslash and a quote (`CutEscapes`), and loops for ever on short
answers.  `remotesd_eth`: a foreign neighbour solicitation replaces a pending
reply; a reset with number 0 is ignored; `checksum_fast` keeps a stale carry for size 4.
`discoverfd < 0` in the search compares an array; one packet is read per socket
and round, so that a flood hides announcements.

*Settings and converters.*  `mega65_config`: a letter typed into the MAC address is stored
as $2A to $2F instead of $A to $F, which sets a bit of the other digit of the byte, while the
screen shows what was typed (`mega65_config.s:1312`, 1464; `spoilt`); the session block is used
uninitialised, the MAC address goes to $DE06, the page with only a MAC address
never ends.  `bit2core`: install flags without capabilities skip an argument, embedded files above
1 MB are cut.  `romdiff`: the cost of an approximate match counts its last byte
twice; an exact match reads behind the costs.  `mfm-decode`: the rate of a track
info block is not used for the rest of the file, an encoding is taken over before
its check sum is tested, several short gaps in a row lose time.  `readdisk` announces a seek
to track 37 and steps 35 times and once more, so that a track is read with the head
two tracks beside it (`First`, `Seeks` keep the distance); `-f` is ignored.
`screen_shot`: what is cut off at the borders is decided by the first line of a row of
glyphs; in extended colour mode the character is masked before its background bits are
taken, so that the background is always $D021; in 16-bit mode the text output takes
the first byte of a colour as its colour; flipped 4-bit glyphs keep the order of
their nibbles; a left border below 0 is written outside the row.  `md2h65`: does not
compile as it stands (`encode_glyph_card` is called with 3 and with 4 arguments);
a text without an empty line at its end is not emitted and gets into
the second pass; a gap may be written behind a full line; the last row of
a page is a partial one; flipped tiles are never found; the transparent tile is
indexed by `x*2`; numbers of colours above 255 are cut to a byte.  The
models of md2h65 take the reading that was meant where the file does not
compile.

## 5. Proofs

`SectorCacheProofs` proves, for every number of sectors, set of values, cache
size, queue size and set of batch sizes that the assumptions of `SectorCache` allow
(`SectorsAssumption`, `ValuesAssumption`, `SizesAssumption`, `CommandsAssumption`:
sizes are positive, the mark for "not cached" is no value):

- `TypeCorrect`, `OneJobPerSectorTheorem`, `CountTheorem`, `CacheCoherence`:
  the four invariants of the run `sector_cache`;
- `Refinement`: `Spec => ImplementsWriteBackDisk`.

The argument.  A queue with one job per sector determines the disk
(`ExecutedLemma`): each job's sector holds its data, all others are as on the
card.  Queueing a write changes that disk at one sector only, in each of the
three cases merge, append, flush and append (`QueuedLemma`).  So the abstract
variable `latest`, the card with the queue applied, follows the writes.
`CoherentUnlessClobbered` is not inductive: while a batch is being stored,
`StoreNext` puts `rd.data` into the cache, about which it says nothing.  The
inductive invariant `IInv` adds `BatchIsLatest` (the batch holds the latest
content of every sector without a queued write at the time of the fetch, which
stays true because nothing is written until the batch is stored), with the type
invariant and the queue invariant.  Each action has its lemma; `CountTheorem` needs
the cardinality facts of `FiniteSetTheorems` and is an induction of its own on top
of `IInv`.

### The Ethernet protocol

For all numbers of sectors, jobs, losses, window and batch sizes, link capacities and
sets of jobs that the assumptions allow (`LinkAssumption`, `SizesAssumption`,
`ClientAssumption`, `JobsAssumption`, `MountAssumption`):

| Theorem | Under | States |
|---|---|---|
| `TypeTheorem` | `Few`, or in order without abandoned waits | `TypeOK`: what is left of a batch does not run under zero |
| `BatchesStayApartTheorem` | `Few` | `BatchesStayApart` on a link that loses, repeats and reorders, with waits that are given up |
| `NoFatalTheorem` | in order, no abandoned waits | `NoFatal` |
| `BatchesInStepTheorem` | in order, no abandoned waits | `BatchesInStep`, however often the counter wraps |
| `AckedMeansStoredTheorem` | in order, no abandoned waits | `AckedMeansStored` |
| `MountAnsweredTheorem` | no abandoned waits, and `Few` or in order | `MountAnswered` |
| `JobsRunOneByOneTheorem` | in order, no abandoned waits | every step is one of `RemoteDisk`, but for the data a read returns |
| `RemoteDiskTheorem` | the same, no read jobs | `ImplementsRemoteDisk` |

"In order" is `Ordered`: the link is a cable between two machines, and a packet may be
lost but is not overtaken.  "No abandoned waits" is `~MayTimeOut`: the 30 seconds of
`ETHERNET_TIMEOUT` do not end a wait; when they do, the code goes on without the
acknowledgements, and what is then promised is `BatchesStayApart` only.  `Few` is
`MaxJobs + 1 < BatchMod`: the one-byte batch counter does not come round while packets
of any age are about.  Each of these hypotheses has a run that satisfies it
(`eth_batches` the second, `eth_timeouts` the first), and each is needed: without `Few`
a packet that is a full turn late is taken for one of the present batch.

`JobsAssumption` says that a write starts behind the first 256 sectors
(`High(start) # 0`).  It is what the code relies on without saying so: a frame of a
write and one of a read are told apart by the bytes that
`ethernet_match_payloads` compares, and when the upper bytes of a sector number are
zero, a late reply to a read matches a write frame and is taken for its
acknowledgement.  Partitions do not begin there.

The argument.

- `CoreInv` holds with any link.  It adds to the types that the window counts its
  frames (`WindowInv`), that the job lies on the card (`JobInv`), that every packet in the
  link carries the data its job has for its sector (`PacketsInv`) and that what the
  MEGA65 has gathered is of one batch, accounted for slot by slot (`BatchInv`).
  The last is not inductive by itself: a packet with the present counter must be one
  of the present batch.  That is `Fits` for the packets on their way, and it is kept
  when a new batch begins because its counter is on no packet and is not the one
  the MEGA65 has.  `FewInv` gives this by counting (counters only grow), `OrderedInv` by the
  order of the packets.
- `FramesInv`: the frames that wait for an acknowledgement are those of the job at hand,
  since a job ends only when its frames are acknowledged.  `MountInv` follows requests
  and answers of mounts by their number, and needs `FramesInv` to know that
  the last one is the one at hand.
- `OrderedInv` has what order gives: behind a request of the batch at hand there are no
  older ones (`RequestsInv`), and once the client has an acknowledgement of it, the older
  ones have gone (`AcksInv`).  So the two counters differ by one at most.  A batch that
  is finished is on the card (`CardInv`); that the
  reply before the last is sent when the batch is not yet finished makes `LastAckInv`
  necessary; `LoginInv` keeps the replies to login and quit, which match every frame,
  out of the other jobs.
- For the refinement, `SingleInv` says the same of writes of one sector, which have no
  batch.  A step of the client starts or ends the abstract job; a step of the MEGA65
  changes the card to what the job at hand writes there (`OnlyJobData`).

`RemoteDiskTheorem` leaves reads out because with them it is false: that is
finding 2, where `ReadsAreCurrent` is violated.  `JobsRunOneByOneTheorem` keeps them and
leaves open only what a read returns (`EndAnyRead`).

### The FAT

`FatFsProofs` and `FatFilesProofs`, for every number of clusters, slots, names, file sizes, commands and
crashes, and every card that `SizeAssumption` and `LayoutAssumption` allow:

| Theorem | Under | States |
|---|---|---|
| `TypeTheorem` | nothing | `TypeOK`: program and card hold a FAT and clusters, no sector is queued twice |
| `NoCrossLinksTheorem` | `[]Room` | `NoCrossLinks`: no cluster is shared or counts as free while in use, on the card or in the program, wherever a crash stops a flush |
| `FilesSafeTheorem` | `[]Room`, `NamesApart` | `FilesSafe`: what a finished command left under a name is there, in one entry and whole, on the card and in the program, until a command is given for that name |
| `NoLostClustersTheorem` | `[]Room`, `NamesApart` | `NoLostClusters`: without crashes all clusters a command leaves marked in use are part of something |

`Room` has three parts, and each is something the code takes for granted: a link and what
it leads to are in one sector of the FAT (`LinksAreLocal`; 4450), a directory that must
grow finds a cluster (`DirectoryCanGrow`; 4248), and a run of free clusters ends with the
FAT (`RunsEnd`; 3840).  Without them `NoCrossLinks` is false: the directory chained to 0 in the trace of
`fat_full_directory` breaks it for want of the second, the cards of `Layouts_Across` for want of the first.  So the theorem says that these three are the
only ways in which the commands can cross-link files.  On the cards of
`fat_commands` `Room` holds in every state (TLC, with `Room` as one more invariant of
`FatCommands.cfg`).  `NamesApart` says that no name is both of files and of directories, and none
is empty.  The first half is needed: a put under the name of a directory goes on although the
directory is not deleted (4352), which leaves two entries of one name.

The argument for `NoCrossLinks`.  A *reference* leads from a place to a cluster (`Leads`): place 0 of a cluster
is its entry in the FAT, the places 1, 2, ... are its slots if it is one of a directory.

- `NoCrossLinks` is not inductive, because a crash leaves a mixture of card and program.
  `DisksInv` compares the two: places of either that lead to one cluster are the same place
  (`Apart`, all four pairs), and what is led to is in use on the disk where the reference is
  (`Sound`).  Then the mixture has no shared clusters, whichever sectors were written.
- That a reference and the mark of its cluster can come from different disks is what
  the order of the queue is for.  While a command only takes clusters, an entry waits behind
  the FAT sector that marks what it leads to (`Growing`, `InTime`); while it frees them, one
  sector waits at a time (`QueueInv`).  With `Covered` (card and program differ in queued sectors
  only) and `LinksAreLocal` a flush that stops anywhere leaves a sound card (`MixLemma`).
- Each kind of write has its lemma (`FatWrite`, `SlotWrite`, `AreaWrite`): it keeps `DisksInv`
  if what the new reference leads to is led to from nowhere else and is in use, and if nothing leads
  to a cluster it frees.
- The rest of `IInv` has one part per label of the commands, which gives those conditions: the
  clusters of a file that was taken off its entry are referred to by nothing (`FreeInv`,
  `MoveInv`), those behind a new file's last cluster are the free run that was searched
  (`LinkInv`, `DataInv`, `GrowInv`, `ChainInv`), so that what `find_free_cluster` finds next is the
  next of the run.

Chains are a recursive function.  That one exists for every FAT (`RecursionLemma`), and what it
computes (`ChainLemma`: it follows the links and stays among the entries) is proved with
the least counterexample, from the library's theorem that the natural numbers are
well-founded, instead of an induction theorem.

The argument for `FilesSafe`.  What is stored at an entry is its chain and what the clusters of the
chain hold (`ContentsOf`).  A chain ends where the links do: as no cluster is led to twice it
visits none twice, and so by the pigeonhole principle it ends before `Chain` stops looking
(`StopLemma`).  Chains that start in different places are apart (`DisjointLemma`), no
chain of an entry goes through the directory or a free cluster (`RootsApart`, `UsedReach`), and a
chain depends on the clusters it visits only (`SameChainLemma`).  So a write to a
cluster of the directory, to a free one, to one that was taken off its entry, or to one of the
file at hand leaves all finished files what they are (`OutsideLemma`, `CoreStep`).

- `FilesSafe` is not inductive.  `CoreInv` says of every name that no command is at work on that
  card and program have the same entries of it, with the same chains and contents (`Agree`), so a
  crash finds them in either (`CrashFiles`).  It adds that all entries are in the part of the
  directory that the card has, too (`DirOK`), that a name has one entry in the two disks taken
  together (`OneName`), and that what is marked a directory has the name of one (`KindOK`).
- When a command ends, its name must hold what the command promised (`DoneInv`).  For a put that
  is the row of clusters it has written so far (`RowInv`): they follow each other in the
  FAT and hold the parts in their order, and at the end the row is the chain of the entry
  (`RowChain`).  For a rename the chain stays what it was while it hangs on no entry (`MovedInv`).
- `SlotInv` has the entry at hand: that it is of the command's name, or that there is none.

The argument for `NoLostClusters` is the converse of `Sound`.  In the middle of a command there
are clusters in use that nothing leads to: the rest of a chain that is being freed, the chain
of a renamed file, a cluster that was allocated and is not linked yet.  `AtHand` names the one
the command holds in its variables, and `LostInv` says that without crashes all others are led to
or were in use elsewhere to begin with.  A write can lose a cluster only by overwriting
the reference to it (`FatKeeps`, `SlotKeeps`, `AreaKeeps`), so each step has to show that what it overwrites
leads nowhere or to what is at hand next (`LosesNothing`): that a link is appended at the end of a
chain comes from the invariant of the first theorem, that the entry which gets its first cluster had none is
`FreshInv`, and that the clusters cleared or written hold no entries comes from the second theorem's.

### The debugger

`DebuggerProofs`, for all programs of user and hypervisor (`ProgramAssumption`: jumps stay in
them and neither contains the patch), every set of breakpoints, every number of samples, traps
and commands (`DebuggerAssumption`), and a user who sets a breakpoint only when none is set
(`Careful`; a second one loses the first, see the defects):

- `DebuggerTypeTheorem`: types; the program counter stays in the programs even when an
  instruction was restored in the wrong one;
- `ProgramIsKnownTheorem`: memory is the programs but for one breakpoint the debugger can take
  back, unless a breakpoint was read or restored in another mode than it was set in;
- `BreakStopsTheorem`, a step property: a CPU that has come to the breakpoint stays there as long as the
  patch does, whatever traps, steps and interrupted commands come between, and stands when it
  is taken away; a continue that reports its breakpoint has stopped the CPU and, with
  the exception above, restored the programs.

They are theorems of `Debugger` itself; what they say of the suite is below.  The inductive invariant `IInv`
has besides the types `BreakpointInv` (a breakpoint is chosen exactly while one is being set or is
patched, the place of the patch holds the patch, which is why the CPU cannot get past it although
it is only looked at now and then, and the CPU stands when the instruction is put back),
`MemoryInv` (each cell holds an instruction one of the programs has in it, or the patch) and
`CleanInv` (without `crossed`, memory is `Code` with the patch, and `softbrkmem` is what
belongs there).  `MemoryInv` is needed because a cell of the wrong program may hold the
other's instruction for the rest of the session.  `FramesAreKept` is not a
theorem for every program: when the routine that is stepped over calls itself, `next`
stops when it first comes back to the line behind the call, in a deeper frame.

### The serial line

`SerialLineProofs` proves of the suite `MCSerialLine`, for every slab above one byte and
chunk above none, a line that the bitstream buffers (`RxBuffer`), every set of writes, files and
reads through the monitor, every number of calls, repeated requests and writes of the running program (`LinkAssumption`), and every
pair of programs that stay in themselves (`ProgramAssumption`):

| Theorem | States |
|---|---|
| `LinkIsInStepTheorem` | `LinkIsInStep`: between calls `cpu_stopped` is right, unless `fake_stop_cpu` was the last to set it, when the processor runs and is taken for stopped; memory is loaded with the processor stopped, but for `load_file` under a running processor and what follows `fake_stop_cpu`; a read that was asked for once returns a value of its time |
| `ProgramIsKnownHere` | `ProgramIsKnown` |
| `BreakStopsHere` | `BreakStops`, a step property |

The argument for `LinkIsInStep`.  It speaks of the state between two calls, when the line
is not empty: commands that were not executed and echoes that were not read may still be
on it.  `StopInv` says what the commands under way come to: executed in their order they
leave the processor as the tool believes (`LeavesIt`), and each load among them that is not
`hot` comes to a processor that stands.  `FakeInv` is the exception: from `fake_stop_cpu` on the commands
come to a processor that runs, until t1 is repeated, or t0 sent on purpose.  A `t0` or `t1` decides that whatever was before it
(`LeavesAfterT`), another command leaves it as it was (`LeavesAfterOther`).  `FetchInv`
says that at most one request or answer to it is under way while a read waits, and none
otherwise, unless a request was repeated.  `TokenInv` is what `monitor_sync` is for:
behind the comment with the last number there is no request, and behind its echo no
answer, so that a synchronised line carries nothing old.

The two theorems about the debugger are those of `DebuggerProofs`, carried over to the suite
by an instance of that module with the variables of the suite (`SameDebugger`).  The suite
has its other components beside it, which are off.

### The network tools

`NetworkToolsProofs` proves of the suite `MCNetworkTools`:

| Theorem | For every | States |
|---|---|---|
| `TransferIsTheFileTheorem` | card, modulus of the block numbers above 2, number of transfers, losses and early repetitions (`TftpAssumption`) | `TransferIsTheFile` |
| `StartsCompleteTheorem` | sequence of block addresses, protected area, window, number of losses, resends and timeouts (`DmaLoadAssumption`); lists of interfaces, given addresses, senders and time (`DiscoveryAssumption`) | `StartsComplete` |

The TFTP server has one transfer and no clock, and numbers count modulo `Wrap`, so an
acknowledgement of block 3 may be one of block 3 + `Wrap`.  `ReadInv` says that this
cannot happen: of the present transfer only the acknowledgement of the last block received
and of the one before it are on the network, in this order (`Asked`), and of the
data only the last block again and the next one (`Sent`); the server is at one of
the two (`Serves`).  So numbers are told apart although they wrap, for which a modulus
of 3 would do.  `PortInv` keeps earlier transfers out: their packets have another port,
the requests of the present one come behind all of them, and the server answers
the one whose request it saw last.

For `etherload`, whose frames may be resent in any number while later ones are under way:

- `OrderInv`: two frames for one address never pass one another (`InOrder`), because
  `HasSlot` lets only one of them be unacknowledged; so memory has no later block than
  the frames that still come for an address (`NotBefore`).
- `StoreInv`: a block that is acknowledged is in memory, it or a later one for its address
  (`AllStored`), and every block sent is that or still awaited (`Settled`), unless a wait
  was given up.  So when the last command goes out nothing is awaited, and all is stored.
- `RomInv`: as long as nothing was lost, the first block, which lifts the
  write protection, arrives before the others.
- `RunInv`, `PingInv`: the echo of the command before the load is the sign that the routine
  on the MEGA65 runs; all its frames come before those of the blocks, so that none is
  left for the command after the load when the first block was acknowledged.  `EndInv` is what
  follows from it.

The conditions of `StartsComplete` are those the proof needs, and each marks a defect
of the code (see the network part of the list above): waits given up (`overdue`), a frame lost in front of a ROM,
and no block between the two commands.

For the search, `SocketInv` says which sockets are open in which phase, so that
`leave_probe_mega65`, which closes up to the first that is not open, closes all.
`QueueInv` counts: each reading of a socket brings the packets in its queue one place
forward, so the packet in place `k` has been overtaken by as many readings as it
had packets before it, less the rounds before it came (`Forward`).  When the time is over
all sockets were read equally often, and `NothingOverlooked` follows.

The proofs found two things about the models.  Two definitions, `Execute` of `DmaLoad` and
`Page` of `ConfigUtility`, were a CASE whose guards overlapped: TLC takes the first that
holds, the logic any; they are nested conditions now.  And `EndMeansStarted` was not true as it
was stated before the sizes were free: without a block to send, the late
echo of the repeated ping ends `etherload` well.

### What stays with TLC

- Liveness (`EveryJobEnds`, `EveryWaitEnds`, `TransferEnds`): TLAPS does not treat fairness.
- `MemoryArrives` and `TransferIsADisk` of the serial transfer: that the decoder gives back every
  sector is an induction over the bytes the encoder sent (`FoldLeft`), which the provers cannot
  instantiate.  The same holds of `DriveIsADisk` (the request is found by a fold over the characters)
  and of the file host in `AnswersAreWhole` (parsers over a chunk).
- `FramesAreKept`, for the reason given above, and the type invariant of the suite `serial_line`.
- The properties of `standalone`: conversions and parsers, whose content is data.
- Reads in `ImplementsRemoteDisk`, which hold in the instance of `eth_batches` only.

## 6. Not modelled

- The second FAT as a copy of its own, clusters of several sectors, formatting.
- Recovery of the Ethernet transmitter, ARP, DHCP, the wrap of the 16-bit packet
  number, the registers of the card below a sector.
- Screens: `vncserver`, `videoproxy`, what `remotesd` and
  `remotesd_eth` draw; the output of `bit2mcs`, `bitinfo`, and the commands of
  `m65dbg` that only print.
- The flux readers beside `mfm-decode` and `readdisk` (`mfm-gapcheck`); the small generators; the hardware tests under
  `utilities`; JTAG.  Each is in `PROJECT.json` with its reason.  The vendored parts
  (`fpgajtag`, `Ophis`, `cc65`, `cbmconvert`, `mega65-libc`) are left out.
- That an SD card write itself fails or is torn: the code stops the program
  then.

## 7. Plan

Proofs: the step of `FatFs!Write` maps to a step of `WriteBackDisk`; the answers of
`RemoteSDNet`, which `AnswersAreWhole` asks together with the file host.

Models: the second FAT in `FatFs`; the flux decoders of `mfm-gapcheck` next to `MfmDecode`.
