------------------------------ MODULE Debugger ------------------------------
(***************************************************************************)
(* The run control of m65dbg: continue, soft breakpoints (a jump to itself *)
(* patched over the program), step, next and finish.  The debugger only    *)
(* sees the registers it asks for while the program runs or stands.  The   *)
(* processor executes the program of the user or, after a trap, that of    *)
(* the hypervisor, which has the same 16-bit addresses in memory of its    *)
(* own.                                                                    *)
(***************************************************************************)
EXTENDS Integers, Sequences, SequencesExt

CONSTANTS
  Cells,        \* an instruction of three bytes each, as long as the patch
  Code,         \* the programs: <<hypervisor, cell>> -> instruction
  Entry,        \* where the hypervisor starts
  Same,         \* equal program counters that count as standing still (5)
  Samples,      \* samples isCpuStopped takes (10)
  Breakpoints,  \* those the user sets: <<above $FFFF, cell>>
  Careful,      \* the user sets a soft breakpoint only when none is set
  MaxCommands,  \* bound on the commands of the user
  MaxTraps      \* bound on the traps nobody can foresee

Places == BOOLEAN \X Cells
NoCell == 0
NoPlace == <<FALSE, NoCell>>

DebuggerAssumption ==
  /\ Cells \subseteq Nat \ {NoCell} /\ Code = [p \in Places |-> Code[p]]
  /\ {Same, Samples} \subseteq Nat \ {0} /\ Samples > Same
  /\ Breakpoints \subseteq Places
  /\ Careful \in BOOLEAN /\ {MaxCommands, MaxTraps} \subseteq Nat

\* The programs stay within themselves, only the hypervisor leaves itself, and
\* neither is patched when it is loaded.
ProgramAssumption ==
  /\ 1 \in Cells /\ Entry \in Cells
  /\ \A h \in BOOLEAN, c \in Cells :
       LET i == Code[<<h, c>>] IN
       /\ i.op \in {"op", "branch", "jsr", "rts"} \/ (h /\ i.op = "exit")
       /\ i.op \in {"branch", "jsr"} => i.to \in Cells
       /\ i.op = "jsr" => c + 1 \in Cells

JumpToItself == [op |-> "JMP *"]

VARIABLES
  pc, stack, running, mem,   \* the MEGA65
  hv, resume, traps,         \* it is in the hypervisor, and goes back to resume
  at,                        \* where the debugger is
  then,                      \* where it goes after setting a breakpoint
  softbrkaddr, softbrkmem,
  high,                      \* softbrkaddr was given above $FFFF
  in_hv,                     \* mode that setSoftBreakpoint has read
  cur_pc, same_cnt, cnt,     \* the loops that sample the program counter
  cpu_stopped,               \* what isCpuStopped found
  target, frame,             \* next_addr of next, cur_sp of finish
  finishing,                 \* "no", "until", "last": cmdFinish runs cmdNext
  commands, outcome,         \* commands so far, how the last one ended
  patched,                   \* history: where the breakpoint has been patched
  crossed                    \* history: one was read or restored in another mode

processor == <<pc, stack, hv, resume>>
machine == <<processor, traps, running, mem>>
breakpoint == <<softbrkaddr, softbrkmem, high, patched, crossed>>
sampling == <<cur_pc, same_cnt, cnt>>
stepping == <<target, frame, finishing>>
vars == <<machine, at, then, breakpoint, in_hv, sampling, cpu_stopped, stepping,
          commands, outcome>>

Init ==
  /\ pc = 1 /\ stack = << >> /\ running = TRUE /\ mem = Code
  /\ hv = FALSE /\ resume = [pc |-> 1, stack |-> << >>] /\ traps = 0
  /\ at = "idle" /\ then = "idle"
  /\ softbrkaddr = NoCell /\ softbrkmem = JumpToItself /\ high = FALSE /\ in_hv = FALSE
  /\ cur_pc = NoCell /\ same_cnt = 0 /\ cnt = 0 /\ cpu_stopped = FALSE
  /\ target = NoCell /\ frame = 0 /\ finishing = "no"
  /\ commands = 0 /\ outcome = "none"
  /\ patched = NoPlace /\ crossed = FALSE

-----------------------------------------------------------------------------
(* The processor *)

Instruction == mem[<<hv, pc>>]

Enter(back) ==
  /\ hv' = TRUE /\ pc' = Entry /\ stack' = << >>
  /\ resume' = [pc |-> back, stack |-> stack]

Execute ==
  LET i == Instruction IN
  \/ /\ i.op \in {"op", "branch"} /\ pc + 1 \in Cells
     /\ pc' = pc + 1 /\ UNCHANGED <<stack, hv, resume>>
  \/ /\ i.op = "branch" /\ pc' = i.to /\ UNCHANGED <<stack, hv, resume>>
  \/ /\ i.op = "jsr" /\ pc' = i.to /\ stack' = Append(stack, pc + 1)
     /\ UNCHANGED <<hv, resume>>
  \/ /\ i.op = "rts" /\ stack # << >>
     /\ pc' = Last(stack) /\ stack' = Front(stack) /\ UNCHANGED <<hv, resume>>
  \/ /\ i.op = "exit" /\ hv
     /\ hv' = FALSE /\ pc' = resume.pc /\ stack' = resume.stack /\ UNCHANGED resume
  \/ i.op = "exit" /\ ~hv /\ pc + 1 \in Cells /\ Enter(pc + 1)
  \/ i = JumpToItself /\ UNCHANGED processor

Processor ==
  /\ running /\ Instruction # JumpToItself /\ Execute
  /\ UNCHANGED <<traps, running, mem, at, then, breakpoint, in_hv, sampling, cpu_stopped,
                 stepping, commands, outcome>>

\* The hypervisor takes over a running program: the restore key, a job of the
\* virtual drive.
Trap ==
  /\ running /\ ~hv /\ traps < MaxTraps
  /\ traps' = traps + 1 /\ Enter(pc)
  /\ UNCHANGED <<running, mem, at, then, breakpoint, in_hv, sampling, cpu_stopped,
                 stepping, commands, outcome>>

\* An empty line makes a stopped processor execute one instruction.
step ==
  /\ IF running THEN UNCHANGED processor ELSE Execute
  /\ UNCHANGED <<traps, running, mem>>

-----------------------------------------------------------------------------
(* Commands of the user *)

Command(next_at) ==
  /\ at = "idle" /\ commands < MaxCommands
  /\ commands' = commands + 1 /\ at' = next_at /\ outcome' = "none"

\* The variables of a loop that samples, fresh in the next one.
NoSamples == cur_pc' = NoCell /\ same_cnt' = 0 /\ cnt' = 0

MaySet == Careful => softbrkaddr = NoCell

\* sbreak, and the first part of sc with an address, which steps once before.
cmdSetSoftwareBreakpoint(b) ==
  /\ MaySet /\ Command("isCpuStopped") /\ then' = "idle"
  /\ softbrkaddr' = b[2] /\ high' = b[1] /\ patched' = NoPlace
  /\ UNCHANGED <<machine, softbrkmem, crossed, in_hv, sampling, cpu_stopped, stepping>>

cmdSoftContinue(b) ==
  /\ MaySet /\ Command("isCpuStopped") /\ then' = "continue"
  /\ softbrkaddr' = b[2] /\ high' = b[1] /\ patched' = NoPlace /\ step
  /\ UNCHANGED <<softbrkmem, crossed, in_hv, sampling, cpu_stopped, stepping>>

cmdContinue ==
  /\ Command("continue")
  /\ UNCHANGED <<machine, then, breakpoint, in_hv, sampling, cpu_stopped, stepping>>

cmdStep ==
  /\ Command("idle") /\ step
  /\ UNCHANGED <<then, breakpoint, in_hv, sampling, cpu_stopped, stepping>>

cmdNext ==
  /\ ~running /\ Command("next") /\ finishing' = "no" /\ frame' = Len(stack)
  /\ UNCHANGED <<machine, then, breakpoint, in_hv, sampling, cpu_stopped, target>>

cmdFinish ==
  /\ ~running /\ stack # << >>
  /\ Command("next") /\ finishing' = "until" /\ frame' = Len(stack)
  /\ UNCHANGED <<machine, then, breakpoint, in_hv, sampling, cpu_stopped, target>>

-----------------------------------------------------------------------------
(* setSoftBreakpoint *)

isCpuStopped ==
  /\ at = "isCpuStopped"
  /\ LET same == IF pc = cur_pc THEN same_cnt + 1 ELSE 0 IN
       IF same = Same \/ cnt + 1 = Samples
       THEN cpu_stopped' = (same = Same) /\ at' = "stop" /\ NoSamples
       ELSE /\ same_cnt' = same /\ cur_pc' = pc /\ cnt' = cnt + 1
            /\ UNCHANGED <<cpu_stopped, at>>
  /\ UNCHANGED <<machine, then, breakpoint, in_hv, stepping, commands, outcome>>

\* t1 if the processor was seen running.
stop_to_set ==
  /\ at = "stop" /\ at' = "look" /\ running' = (running /\ cpu_stopped)
  /\ UNCHANGED <<processor, traps, mem, then, breakpoint, in_hv, sampling, cpu_stopped,
                 stepping, commands, outcome>>

inHypervisorMode ==
  /\ at = "look" /\ at' = "patch" /\ in_hv' = (hv \/ high)
  /\ UNCHANGED <<machine, then, breakpoint, sampling, cpu_stopped, stepping, commands,
                 outcome>>

\* Wrong variant: the instruction under the breakpoint is not remembered.
setSoftBreakpoint_NoSave ==
  /\ at = "patch" /\ patched' = <<in_hv, softbrkaddr>>
  /\ crossed' = (crossed \/ (hv /\ ~in_hv))
  /\ mem' = [mem EXCEPT ![patched'] = JumpToItself]
  /\ at' = (IF cpu_stopped THEN then ELSE "restart")
  /\ in_hv' = FALSE /\ cpu_stopped' = FALSE
  /\ UNCHANGED <<processor, traps, running, then, softbrkaddr, softbrkmem, high, sampling,
                 stepping, commands, outcome>>

\* The instruction is read where it was found to be or, of a program of the user,
\* as the processor sees it; the patch goes to the place itself.
setSoftBreakpoint ==
  /\ at = "patch" /\ patched' = <<in_hv, softbrkaddr>>
  /\ softbrkmem' = mem[<<in_hv \/ hv, softbrkaddr>>]
  /\ crossed' = (crossed \/ (hv /\ ~in_hv))
  /\ mem' = [mem EXCEPT ![patched'] = JumpToItself]
  /\ at' = (IF cpu_stopped THEN then ELSE "restart")
  /\ in_hv' = FALSE /\ cpu_stopped' = FALSE
  /\ UNCHANGED <<processor, traps, running, then, softbrkaddr, high, sampling, stepping,
                 commands, outcome>>

\* t0 if it was seen running.
restart ==
  /\ at = "restart" /\ running' = TRUE /\ at' = then
  /\ UNCHANGED <<processor, traps, mem, then, breakpoint, in_hv, sampling, cpu_stopped,
                 stepping, commands, outcome>>

-----------------------------------------------------------------------------
(* do_continue *)

continue ==
  /\ at = "continue" /\ running' = TRUE /\ at' = "wait"
  /\ UNCHANGED <<processor, traps, mem, then, breakpoint, in_hv, sampling, cpu_stopped,
                 stepping, commands, outcome>>

\* The breakpoint counts as reached up to three bytes behind it, in either mode.
AtBreakpoint(p) == softbrkaddr # NoCell /\ p \in {softbrkaddr, softbrkaddr + 1}

wait_for_break ==
  /\ at = "wait"
  /\ LET seen == pc = cur_pc \/ AtBreakpoint(pc) IN
       IF seen /\ same_cnt + 1 = Same
       THEN /\ NoSamples
            /\ IF AtBreakpoint(pc) THEN at' = "clear" /\ UNCHANGED outcome
                                   ELSE at' = "idle" /\ outcome' = "standing"
       ELSE /\ same_cnt' = (IF seen THEN same_cnt + 1 ELSE 0)
            /\ cur_pc' = (IF seen THEN cur_pc ELSE pc)
            /\ UNCHANGED <<cnt, at, outcome>>
  /\ UNCHANGED <<machine, then, breakpoint, in_hv, cpu_stopped, stepping, commands>>

\* Wrong variant: the processor is not stopped.
stop_to_clear_NoStop ==
  /\ at = "clear" /\ at' = "restore"
  /\ UNCHANGED <<machine, then, breakpoint, in_hv, sampling, cpu_stopped, stepping,
                 commands, outcome>>

\* The t1 of clearSoftBreak: the processor has gone on since it was looked at.
stop_to_clear ==
  /\ at = "clear" /\ at' = "restore" /\ running' = FALSE
  /\ UNCHANGED <<processor, traps, mem, then, breakpoint, in_hv, sampling, cpu_stopped,
                 stepping, commands, outcome>>

\* The mode of this moment, not that of setSoftBreakpoint, decides what is restored.
clearSoftBreak ==
  /\ at = "restore" /\ at' = "idle" /\ outcome' = "break"
  /\ LET place == <<high \/ hv, softbrkaddr>> IN
       /\ mem' = [mem EXCEPT ![place] = softbrkmem]
       /\ crossed' = (crossed \/ place # patched)
  /\ softbrkaddr' = NoCell /\ patched' = NoPlace
  /\ UNCHANGED <<processor, traps, running, then, softbrkmem, high, in_hv, sampling,
                 cpu_stopped, stepping, commands>>

-----------------------------------------------------------------------------
(* next and finish *)

\* After an instruction (a whole call) of next: finish goes on until it has
\* executed the return of the routine it was called in.
Leave == IF finishing = "until" THEN "next" ELSE "idle"

next ==
  /\ at = "next"
  /\ finishing' = IF finishing = "until" /\ Instruction.op = "rts" /\ Len(stack) = frame
                  THEN "last" ELSE finishing
  /\ IF Instruction.op = "jsr"
     THEN /\ target' = pc + 1 /\ at' = "stepping"
          /\ UNCHANGED <<machine, outcome>>
     ELSE /\ step /\ UNCHANGED target
          /\ at' = IF finishing' = "until" THEN "next" ELSE "idle"
          /\ outcome' = IF finishing' = "until" THEN outcome ELSE "stepped"
  /\ UNCHANGED <<then, breakpoint, in_hv, sampling, cpu_stopped, frame, commands>>

\* Wrong variant: a call ends at the return of any routine.
next_stepping_AnyReturn ==
  /\ at = "stepping"
  /\ IF pc # target /\ Instruction.op # "rts"
     THEN step /\ UNCHANGED <<at, outcome>>
     ELSE /\ at' = Leave
          /\ outcome' = IF finishing = "until" THEN outcome ELSE "called"
          /\ UNCHANGED machine
  /\ UNCHANGED <<then, breakpoint, in_hv, sampling, cpu_stopped, stepping, commands>>

next_stepping ==
  /\ at = "stepping"
  /\ IF pc # target
     THEN step /\ UNCHANGED <<at, outcome>>
     ELSE /\ at' = Leave
          /\ outcome' = IF finishing = "until" THEN outcome ELSE "called"
          /\ UNCHANGED machine
  /\ UNCHANGED <<then, breakpoint, in_hv, sampling, cpu_stopped, stepping, commands>>

\* Ctrl-C leaves the loop and nothing else.
CtrlC ==
  /\ at \in {"wait", "next", "stepping"} /\ at' = "idle" /\ outcome' = "ctrl-c"
  /\ NoSamples
  /\ UNCHANGED <<machine, then, breakpoint, in_hv, cpu_stopped, stepping, commands>>

-----------------------------------------------------------------------------

User ==
  \/ \E b \in Breakpoints : cmdSetSoftwareBreakpoint(b) \/ cmdSoftContinue(b)
  \/ cmdContinue \/ cmdStep \/ cmdNext \/ cmdFinish
  \/ CtrlC

Work ==
  \/ isCpuStopped \/ stop_to_set \/ inHypervisorMode \/ setSoftBreakpoint \/ restart
  \/ continue \/ wait_for_break \/ stop_to_clear \/ clearSoftBreak
  \/ next \/ next_stepping

Next == User \/ Work \/ Processor \/ Trap

Spec == Init /\ [][Next]_vars

-----------------------------------------------------------------------------
(* Properties *)

\* Every variable has its type.
TypeOK ==
  /\ pc \in Cells /\ stack \in Seq(Cells) /\ running \in BOOLEAN
  /\ hv \in BOOLEAN /\ resume \in [pc : Cells, stack : Seq(Cells)] /\ traps \in 0 .. MaxTraps
  /\ mem \in [Places -> {Code[p] : p \in Places} \cup {JumpToItself}]
  /\ at \in {"idle", "isCpuStopped", "stop", "look", "patch", "restart", "continue",
             "wait", "clear", "restore", "next", "stepping"}
  /\ then \in {"idle", "continue"}
  /\ softbrkaddr \in Cells \cup {NoCell} /\ high \in BOOLEAN /\ in_hv \in BOOLEAN
  /\ patched \in Places \cup {NoPlace} /\ crossed \in BOOLEAN
  /\ same_cnt \in 0 .. Same - 1 /\ cnt \in 0 .. Samples - 1
  /\ finishing \in {"no", "until", "last"}

\* The programs in memory differ from those that were loaded at most in the one
\* place where the breakpoint was patched, and the debugger has the instruction
\* that belongs there: whatever is interrupted, it can still be put back.  The
\* exception is the code's: a breakpoint that was read or restored in another mode
\* than it was set in (crossed) leaves its patch behind and damages the other program.
ProgramIsKnown ==
  ~crossed =>
    Code = IF patched = NoPlace THEN mem ELSE [mem EXCEPT ![patched] = softbrkmem]

\* The processor is at the breakpoint, or comes back to it from the hypervisor.
AtPatch ==
  /\ patched # NoPlace
  /\ \/ <<hv, pc>> = patched
     \/ hv /\ <<FALSE, resume.pc>> = patched

\* Of a step: a processor that has come to the breakpoint does not get past it as
\* long as it is patched, whatever traps, steps and interrupted commands come
\* between, and when the patch goes it stands where it was; and a continue that
\* reports the breakpoint leaves the processor stopped and, except as above, the
\* programs as they were.  (It may report a breakpoint that has not been reached: a
\* program counter just behind it, or the same one in the other mode, counts.)
BreakStops ==
  /\ AtPatch => IF patched' = patched THEN AtPatch'
                ELSE ~running' /\ UNCHANGED <<hv, pc>>
  /\ outcome' = "break" /\ outcome # "break" =>
       ~running' /\ (~crossed' => mem' = Code)

\* next over a call comes back in the frame it started in, and finish in the
\* frame of the caller, however deep the routine called others.
FramesAreKept ==
  at = "idle" =>
    /\ outcome = "called" /\ finishing = "no" => Len(stack) = frame
    /\ outcome = "stepped" /\ finishing = "last" => Len(stack) = frame - 1

=============================================================================
