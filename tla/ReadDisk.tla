------------------------------ MODULE ReadDisk ------------------------------
(***************************************************************************)
(* readdisk.c: reading the last tracks of a floppy in the drive of the     *)
(* MEGA65 over the monitor, with the CPU stopped.  The controller works    *)
(* while the program talks to it; only its busy flag says when it is done. *)
(***************************************************************************)
EXTENDS Integers

CONSTANTS
  Tracks,       \* the head can be over 0 .. Tracks
  Seeks,        \* steps in from track 0 (35)
  First, Last,  \* the tracks read (38, 40)
  Sectors       \* of a track and side (10)

DiskAssumption ==
  /\ {Tracks, Seeks, First, Last, Sectors} \subseteq Nat
  /\ First <= Last /\ Seeks + 1 + (Last - First) <= Tracks

VARIABLES
  head, stuck,          \* the drive; its head sticks at the end of the disk
  busy, command, lost,  \* the controller, and whether a command came too early
  failed,               \* its error flags
  motor, selected,      \* $D080: the motor and the side
  regs,                 \* $D084..$D086: track, sector and side
  real, auto_seek,      \* $D6A1 and $D696
  buffer,               \* $D689: which buffer is mapped
  cpu,
  at, i, track, side, sector

drive == <<head, stuck>>
controller == <<drive, busy, command, lost, failed>>
registers == <<motor, selected, regs, real, auto_seek, buffer>>
loops == <<i, track, side, sector>>
vars == <<controller, registers, cpu, at, loops>>

Init ==
  /\ stuck \in BOOLEAN /\ head \in 0 .. Tracks /\ (stuck => head = Tracks)
  /\ busy = FALSE /\ command = "none" /\ lost = FALSE /\ failed = FALSE
  /\ motor = FALSE /\ selected = 0 /\ regs = <<0, 0, 0>>
  /\ real = FALSE /\ auto_seek \in BOOLEAN /\ buffer \in {"sd", "floppy"}
  /\ cpu = "running" /\ at = "start" /\ i = 0 /\ track = First /\ side = 0 /\ sector = 1

-----------------------------------------------------------------------------
(* The controller and the drive *)

\* A command that comes while another one runs may be lost.
Command(c) ==
  IF busy THEN lost' = TRUE /\ UNCHANGED <<busy, command>>
          ELSE busy' = TRUE /\ command' = c /\ UNCHANGED lost

\* A head that sticks may come loose; a sector is found under the head only.
CommandEnds ==
  /\ busy /\ busy' = FALSE
  /\ stuck' \in (IF stuck /\ command = "out" THEN BOOLEAN ELSE {stuck})
  /\ head' = IF stuck \/ (command = "out" /\ head = 0) THEN head
             ELSE IF command = "out" THEN head - 1
             ELSE IF command = "in" /\ head < Tracks THEN head + 1 ELSE head
  /\ IF command = "read"
     THEN failed' \in (IF regs[1] = head /\ regs[3] = selected /\ motor
                       THEN BOOLEAN ELSE {TRUE})
     ELSE UNCHANGED failed
  /\ UNCHANGED <<command, lost, registers, cpu, at, loops>>

-----------------------------------------------------------------------------
(* main and goto_track0 *)

real_stop_cpu ==
  /\ at = "start" /\ at' = "slow" /\ cpu' = "stopped"
  /\ UNCHANGED <<controller, registers, loops>>

\* Three steps with pauses that do not ask whether the controller is busy; the
\* last pause is longer than a step.
SlowSeek ==
  /\ at = "slow" /\ Command("out")
  /\ IF i = 2 THEN at' = "pause" /\ i' = 0 ELSE at' = at /\ i' = i + 1
  /\ UNCHANGED <<drive, failed, registers, cpu, track, side, sector>>
Paused ==
  /\ at = "pause" /\ ~busy /\ at' = "track0"
  /\ UNCHANGED <<controller, registers, cpu, loops>>

\* The track 0 flag is looked at in front of the busy flag.
StepOut ==
  /\ at = "track0" /\ head # 0 /\ at' = "stepout"
  /\ UNCHANGED <<controller, registers, cpu, loops>>
GiveStepOut ==
  /\ at = "stepout" /\ ~busy /\ Command("out") /\ at' = "steppedout"
  /\ UNCHANGED <<drive, failed, registers, cpu, loops>>
SteppedOut ==
  /\ at = "steppedout" /\ ~busy /\ at' = "track0"
  /\ UNCHANGED <<controller, registers, cpu, loops>>
AtTrack0 ==
  /\ at = "track0" /\ head = 0 /\ at' = "seek" /\ i' = 0
  /\ UNCHANGED <<controller, registers, cpu, track, side, sector>>

\* The steps in, and one more in front of each of the tracks.
StepIn ==
  /\ at = "seek" /\ Command("in") /\ at' = "seeking"
  /\ UNCHANGED <<drive, failed, registers, cpu, loops>>
SteppedIn ==
  /\ at = "seeking" /\ ~busy
  /\ IF i < Seeks THEN at' = "seek" /\ i' = i + 1 /\ UNCHANGED <<side, sector>>
                  ELSE at' = "select" /\ side' = 0 /\ sector' = 1 /\ UNCHANGED i
  /\ UNCHANGED <<controller, registers, cpu, track>>

NextSector ==
  /\ at = "answered"
  /\ IF sector < Sectors
     THEN sector' = sector + 1 /\ at' = "select" /\ UNCHANGED <<track, side, motor, cpu>>
     ELSE IF side = 0
     THEN side' = 1 /\ sector' = 1 /\ at' = "select" /\ UNCHANGED <<track, motor, cpu>>
     ELSE IF track < Last
     THEN track' = track + 1 /\ at' = "seek" /\ UNCHANGED <<side, sector, motor, cpu>>
     ELSE motor' = FALSE /\ cpu' = "running" /\ at' = "done" /\ UNCHANGED <<track, side, sector>>
  /\ UNCHANGED <<controller, selected, regs, real, auto_seek, buffer, i>>

-----------------------------------------------------------------------------
(* read_a_sector *)

\* Side 1 is selected after side 0 has been.
SelectDrive ==
  /\ at = "select" /\ at' = "free"
  /\ auto_seek' = FALSE /\ motor' = TRUE /\ selected' = side
  /\ buffer' = "floppy" /\ real' = TRUE
  /\ UNCHANGED <<controller, regs, cpu, loops>>

IssueRead ==
  /\ at = "free" /\ ~busy /\ Command("read") /\ at' = "reading"
  /\ regs' = <<track, sector, side>>
  /\ UNCHANGED <<drive, failed, motor, selected, real, auto_seek, buffer, cpu, loops>>

ReadAnswered ==
  /\ at = "reading" /\ ~busy /\ at' = "answered"
  /\ UNCHANGED <<controller, registers, cpu, loops>>

Finished == at = "done" /\ ~busy /\ UNCHANGED vars

Next ==
  \/ CommandEnds
  \/ real_stop_cpu \/ SlowSeek \/ Paused
  \/ StepOut \/ GiveStepOut \/ SteppedOut \/ AtTrack0
  \/ StepIn \/ SteppedIn \/ NextSector
  \/ SelectDrive \/ IssueRead \/ ReadAnswered
  \/ Finished

Spec == Init /\ [][Next]_vars

-----------------------------------------------------------------------------
(* Properties *)

\* A sector is asked for with the head a known number of steps from track 0,
\* whichever of the slow steps were lost, and one that was read is the one
\* that was asked for: of the side that is selected, into the mapped buffer.
ReadsAreAimed ==
  at \in {"reading", "answered"} =>
    /\ head = Seeks + 1 + (track - First)
    /\ motor /\ real /\ ~auto_seek /\ buffer = "floppy"
    /\ selected = side /\ regs = <<track, sector, side>>
    /\ at = "answered" /\ ~failed => head = track

\* The drive works while the CPU is stopped, and both are left as they were.
DriveIsLeftAlone ==
  /\ busy \/ motor => cpu = "stopped"
  /\ at = "done" => cpu = "running"

=============================================================================
