--------------------------- MODULE DebuggerProofs ---------------------------
(***************************************************************************)
(* What is proved of the run control of m65dbg, for every pair of programs,*)
(* as long as the user sets no breakpoint while another one is set.        *)
(***************************************************************************)
EXTENDS Debugger, TLAPS

\* A breakpoint has been given and not yet been patched.
Setting == at \in {"isCpuStopped", "stop", "look", "patch"}

\* A soft breakpoint and its patch are there together; the processor stands when
\* the instruction is put back.
BreakpointInv ==
  /\ patched = NoPlace <=> softbrkaddr = NoCell \/ Setting
  /\ Setting => softbrkaddr # NoCell
  /\ patched # NoPlace => patched[2] = softbrkaddr /\ mem[patched] = JumpToItself
  /\ at \in {"clear", "restore"} => softbrkaddr # NoCell
  /\ at = "restore" => ~running

\* What can be in a cell of either program: an instruction put back in the wrong
\* program still is in the cell it was taken from.
Variants(c) == {Code[<<FALSE, c>>], Code[<<TRUE, c>>], JumpToItself}
MemoryInv ==
  /\ \A h \in BOOLEAN, c \in Cells : mem[<<h, c>>] \in Variants(c)
  /\ patched # NoPlace => softbrkmem \in Variants(softbrkaddr)

\* The programs are as they were loaded but for the patch.
Clean ==
  IF patched = NoPlace THEN mem = Code
  ELSE mem = [Code EXCEPT ![patched] = JumpToItself] /\ softbrkmem = Code[patched]
CleanInv == ~crossed => Clean

IInv == TypeOK /\ BreakpointInv /\ MemoryInv /\ CleanInv

\* The part of the type that the processor changes.
ProcessorType ==
  /\ pc \in Cells /\ stack \in Seq(Cells)
  /\ hv \in BOOLEAN /\ resume \in [pc : Cells, stack : Seq(Cells)]

-----------------------------------------------------------------------------
(* Places, programs and the processor *)

\* Return takes the last address from the stack and leaves the others.
LEMMA StackLemma ==
  ASSUME NEW s \in Seq(Cells), s # << >>
  PROVE  Last(s) \in Cells /\ Front(s) \in Seq(Cells)
  BY DEF Last, Front

\* The patch is an instruction that only the debugger writes.
LEMMA PatchName == JumpToItself.op \notin {"op", "branch", "jsr", "rts", "exit"}
  <1>1. JumpToItself.op = "JMP *"
    BY DEF JumpToItself
  <1> QED
    BY <1>1

\* A place is a mode and a cell, and none is the place of no breakpoint.
LEMMA PlaceLemma ==
  ASSUME DebuggerAssumption
  PROVE  /\ NoCell \notin Cells /\ NoPlace \notin Places
         /\ \A h \in BOOLEAN, c \in Cells : <<h, c>> \in Places /\ <<h, c>>[2] = c
         /\ \A p \in Places : p = <<p[1], p[2]>> /\ p[1] \in BOOLEAN /\ p[2] \in Cells
  <1>1. NoCell \notin Cells
    BY DEF DebuggerAssumption
  <1> QED
    BY <1>1 DEF Places, NoPlace

\* The processor stays in the programs, whatever instruction of its cell it executes.
LEMMA ExecuteLemma ==
  ASSUME DebuggerAssumption, ProgramAssumption, TypeOK, MemoryInv, Execute
  PROVE  ProcessorType'
  <1> DEFINE i == Instruction
  <1>1. pc \in Cells /\ stack \in Seq(Cells) /\ hv \in BOOLEAN
        /\ resume \in [pc : Cells, stack : Seq(Cells)]
    BY DEF TypeOK
  <1>2. i \in Variants(pc)
    BY <1>1 DEF MemoryInv, Instruction
  <1>3. i.op # "JMP *" => i = Code[<<FALSE, pc>>] \/ i = Code[<<TRUE, pc>>]
    <2>1. JumpToItself.op = "JMP *"
      BY DEF JumpToItself
    <2> QED
      BY <1>2, <2>1 DEF Variants
  <1>4. /\ i.op \in {"branch", "jsr"} => i.to \in Cells
        /\ i.op = "jsr" => pc + 1 \in Cells
    <2>1. \A h \in BOOLEAN :
             /\ Code[<<h, pc>>].op \in {"branch", "jsr"} => Code[<<h, pc>>].to \in Cells
             /\ Code[<<h, pc>>].op = "jsr" => pc + 1 \in Cells
      BY <1>1 DEF ProgramAssumption
    <2> QED
      BY <1>3, <2>1
  <1> HIDE DEF i
  <1>5. CASE /\ i.op \in {"op", "branch"} /\ pc + 1 \in Cells
             /\ pc' = pc + 1 /\ UNCHANGED <<stack, hv, resume>>
    BY <1>1, <1>5 DEF ProcessorType
  <1>6. CASE i.op = "branch" /\ pc' = i.to /\ UNCHANGED <<stack, hv, resume>>
    BY <1>1, <1>4, <1>6 DEF ProcessorType
  <1>7. CASE /\ i.op = "jsr" /\ pc' = i.to /\ stack' = Append(stack, pc + 1)
             /\ UNCHANGED <<hv, resume>>
    BY <1>1, <1>4, <1>7 DEF ProcessorType
  <1>8. CASE /\ i.op = "rts" /\ stack # << >>
             /\ pc' = Last(stack) /\ stack' = Front(stack) /\ UNCHANGED <<hv, resume>>
    BY <1>1, <1>8, StackLemma DEF ProcessorType
  <1>9. CASE /\ i.op = "exit" /\ hv
             /\ hv' = FALSE /\ pc' = resume.pc /\ stack' = resume.stack /\ UNCHANGED resume
    BY <1>1, <1>9 DEF ProcessorType
  <1>10. CASE i.op = "exit" /\ ~hv /\ pc + 1 \in Cells /\ Enter(pc + 1)
    BY <1>1, <1>10 DEF Enter, ProcessorType, ProgramAssumption
  <1>11. CASE i = JumpToItself /\ UNCHANGED processor
    BY <1>1, <1>11 DEF processor, ProcessorType
  <1> QED
    BY <1>5, <1>6, <1>7, <1>8, <1>9, <1>10, <1>11 DEF Execute, i

\* A step of a stopped processor.
LEMMA StepLemma ==
  ASSUME DebuggerAssumption, ProgramAssumption, TypeOK, MemoryInv, step
  PROVE  ProcessorType' /\ running' = running /\ mem' = mem /\ traps' = traps
  <1>1. CASE running
    BY <1>1 DEF step, TypeOK, processor, ProcessorType
  <1>2. CASE ~ running
    BY <1>2, ExecuteLemma DEF step
  <1> QED
    BY <1>1, <1>2

\* A processor at the patch stays there, or comes back from the hypervisor.
LEMMA ExecuteAtPatch ==
  ASSUME BreakpointInv, AtPatch, Execute, patched' = patched
  PROVE  AtPatch'
  <1>1. CASE <<hv, pc>> = patched
    <2>1. Instruction = JumpToItself
      BY <1>1 DEF BreakpointInv, AtPatch, Instruction
    <2>2. UNCHANGED processor
      BY <2>1, PatchName DEF Execute
    <2> QED
      BY <2>2 DEF AtPatch, processor
  <1>2. CASE hv /\ <<FALSE, resume.pc>> = patched
    <2>1. \/ hv' = hv /\ resume' = resume
          \/ hv' = FALSE /\ pc' = resume.pc
      BY <1>2 DEF Execute, processor
    <2> QED
      BY <1>2, <2>1 DEF AtPatch
  <1> QED
    BY <1>1, <1>2 DEF AtPatch

-----------------------------------------------------------------------------
(* The inductive invariant *)

\* The programs have the type of memory, and an instruction of the cell, or the
\* patch, can be put into them.
LEMMA MemoryType ==
  ASSUME DebuggerAssumption
  PROVE  /\ Code \in [Places -> {Code[p] : p \in Places} \cup {JumpToItself}]
         /\ \A c \in Cells : Variants(c) \subseteq {Code[p] : p \in Places} \cup {JumpToItself}
  <1>1. Code = [p \in Places |-> Code[p]]
    BY DEF DebuggerAssumption
  <1>2. \A c \in Cells : <<FALSE, c>> \in Places /\ <<TRUE, c>> \in Places
    BY DEF Places
  <1> QED
    BY <1>1, <1>2 DEF Variants

\* The programs are loaded and not patched.
LEMMA InitLemma ==
  ASSUME DebuggerAssumption, ProgramAssumption, Init
  PROVE  IInv
  <1>1. BreakpointInv /\ CleanInv
    BY DEF Init, BreakpointInv, Setting, CleanInv, Clean
  <1>2. MemoryInv
    BY DEF Init, MemoryInv, Variants
  <1>3. mem \in [Places -> {Code[p] : p \in Places} \cup {JumpToItself}]
    BY MemoryType DEF Init
  <1>4. pc \in Cells /\ resume \in [pc : Cells, stack : Seq(Cells)]
    BY DEF Init, ProgramAssumption
  <1>5. same_cnt \in 0 .. Same - 1 /\ cnt \in 0 .. Samples - 1 /\ traps \in 0 .. MaxTraps
    BY DEF Init, DebuggerAssumption
  <1> QED
    BY <1>1, <1>2, <1>3, <1>4, <1>5 DEF IInv, TypeOK, Init

\* What an action keeps that touches neither memory nor the breakpoint.
LEMMA KeepsBreakpoint ==
  ASSUME IInv, UNCHANGED <<mem, breakpoint>>, Setting' <=> Setting,
         at' \in {"clear", "restore"} => softbrkaddr # NoCell,
         at' = "restore" => ~running'
  PROVE  BreakpointInv' /\ MemoryInv' /\ CleanInv'
  <1>1. /\ mem' = mem /\ softbrkaddr' = softbrkaddr /\ softbrkmem' = softbrkmem
        /\ patched' = patched /\ crossed' = crossed
    BY DEF breakpoint
  <1>2. BreakpointInv'
    BY <1>1 DEF IInv, BreakpointInv
  <1>3. MemoryInv'
    BY <1>1 DEF IInv, MemoryInv
  <1>4. CleanInv'
    BY <1>1 DEF IInv, CleanInv, Clean
  <1> QED
    BY <1>2, <1>3, <1>4

\* The patch is put in a place of the memory, and what was there, or in the other
\* program at the same address, is remembered.
LEMMA SetLemma ==
  ASSUME DebuggerAssumption, IInv, setSoftBreakpoint
  PROVE  IInv'
  <1> DEFINE All == {Code[p] : p \in Places} \cup {JumpToItself}
  <1> USE DEF IInv
  <1>1. /\ at = "patch" /\ patched = NoPlace /\ softbrkaddr \in Cells
        /\ softbrkaddr' = softbrkaddr /\ hv \in BOOLEAN /\ in_hv \in BOOLEAN
        /\ mem \in [Places -> All] /\ high' = high
    BY DEF setSoftBreakpoint, BreakpointInv, Setting, TypeOK
  <1>2. patched' = <<in_hv, softbrkaddr>> /\ patched' \in Places /\ patched' # NoPlace
    BY <1>1, PlaceLemma DEF setSoftBreakpoint
  <1>3. mem' = [mem EXCEPT ![patched'] = JumpToItself]
    BY DEF setSoftBreakpoint
  <1>4. mem' \in [Places -> All] /\ mem'[patched'] = JumpToItself
    BY <1>1, <1>2, <1>3
  <1>5. at' \in {"idle", "continue", "restart"}
    BY DEF setSoftBreakpoint, TypeOK
  <1>6. BreakpointInv'
    <2>1. patched'[2] = softbrkaddr
      BY <1>2
    <2> QED
      BY <1>1, <1>2, <1>4, <1>5, <2>1, PlaceLemma DEF BreakpointInv, Setting
  <1>7. MemoryInv'
    <2>1. softbrkmem' \in Variants(softbrkaddr)
      BY <1>1 DEF setSoftBreakpoint, MemoryInv
    <2>2. ASSUME NEW h \in BOOLEAN, NEW c \in Cells
          PROVE  mem'[<<h, c>>] \in Variants(c)
      <3>1. mem'[<<h, c>>] = mem[<<h, c>>] \/ mem'[<<h, c>>] = JumpToItself
        BY <1>1, <1>2, <1>3, PlaceLemma
      <3> QED
        BY <3>1 DEF MemoryInv, Variants
    <2> QED
      BY <1>1, <2>1, <2>2 DEF MemoryInv, Variants
  <1>8. CleanInv'
    <2> SUFFICES ASSUME ~crossed'
                 PROVE  /\ mem' = [Code EXCEPT ![patched'] = JumpToItself]
                        /\ softbrkmem' = Code[patched']
      BY <1>2 DEF CleanInv, Clean
    <2>1. ~crossed /\ ~(hv /\ ~in_hv)
      BY DEF setSoftBreakpoint
    <2>2. mem = Code
      BY <1>1, <2>1 DEF CleanInv, Clean
    <2>3. (in_hv \/ hv) = in_hv
      BY <1>1, <2>1
    <2>4. softbrkmem' = mem[<<in_hv, softbrkaddr>>]
      BY <2>3 DEF setSoftBreakpoint
    <2> QED
      BY <1>2, <1>3, <2>2, <2>4
  <1>9. TypeOK'
    BY <1>1, <1>2, <1>4, <1>5
    DEF TypeOK, setSoftBreakpoint, processor, sampling, stepping
  <1> QED
    BY <1>6, <1>7, <1>8, <1>9

\* Taking the breakpoint away where it was set leaves the programs as they were
\* loaded; elsewhere, instructions of their cell in the place of others.
LEMMA ClearLemma ==
  ASSUME DebuggerAssumption, IInv, clearSoftBreak
  PROVE  IInv' /\ ~running' /\ (~crossed' => mem' = Code)
  <1> DEFINE All == {Code[p] : p \in Places} \cup {JumpToItself}
             place == <<high \/ hv, softbrkaddr>>
  <1> USE DEF IInv
  <1>1. /\ at = "restore" /\ ~running /\ softbrkaddr \in Cells /\ patched # NoPlace
        /\ patched \in Places /\ mem \in [Places -> All] /\ high \in BOOLEAN /\ hv \in BOOLEAN
    BY DEF clearSoftBreak, BreakpointInv, Setting, TypeOK
  <1>2. place \in Places
    BY <1>1, PlaceLemma
  <1>3. /\ mem' = [mem EXCEPT ![place] = softbrkmem] /\ crossed' = (crossed \/ place # patched)
        /\ softbrkaddr' = NoCell /\ patched' = NoPlace /\ running' = running /\ at' = "idle"
        /\ high' = high
    BY DEF clearSoftBreak
  <1>4. softbrkmem \in Variants(softbrkaddr) /\ Variants(softbrkaddr) \subseteq All
    BY <1>1, MemoryType DEF MemoryInv
  <1>5. mem' \in [Places -> All]
    BY <1>1, <1>2, <1>3, <1>4
  <1>6. BreakpointInv'
    BY <1>3 DEF BreakpointInv, Setting
  <1>7. MemoryInv'
    <2>1. ASSUME NEW h \in BOOLEAN, NEW c \in Cells
          PROVE  mem'[<<h, c>>] \in Variants(c)
      <3>1. CASE <<h, c>> = place
        <4>1. c = softbrkaddr
          BY <3>1
        <4>2. mem'[place] = softbrkmem
          BY <1>1, <1>2, <1>3
        <4> QED
          BY <1>4, <3>1, <4>1, <4>2
      <3>2. CASE <<h, c>> # place
        <4>1. mem'[<<h, c>>] = mem[<<h, c>>]
          BY <1>1, <1>3, <3>2, PlaceLemma
        <4> QED
          BY <4>1 DEF MemoryInv
      <3> QED
        BY <3>1, <3>2
    <2> QED
      BY <1>3, <2>1 DEF MemoryInv, Variants
  <1>8. ASSUME ~crossed'
        PROVE  mem' = Code
    <2>1. ~crossed /\ place = patched
      BY <1>3, <1>8
    <2>2. mem = [Code EXCEPT ![patched] = JumpToItself] /\ softbrkmem = Code[patched]
      BY <1>1, <2>1 DEF CleanInv, Clean
    <2>3. Code = [p \in Places |-> Code[p]]
      BY DEF DebuggerAssumption
    <2>4. mem' = [mem EXCEPT ![patched] = Code[patched]]
      BY <1>3, <2>1, <2>2
    <2> HIDE DEF place
    <2> QED
      BY <1>1, <2>2, <2>3, <2>4
  <1>9. TypeOK'
    BY <1>3, <1>5 DEF TypeOK, clearSoftBreak, processor, sampling, stepping
  <1> QED
    BY <1>1, <1>3, <1>6, <1>7, <1>8, <1>9 DEF CleanInv, Clean

\* Every step of the user, the debugger and the processor keeps the invariant,
\* when no breakpoint is set while another one is.
LEMMA NextLemma ==
  ASSUME DebuggerAssumption, ProgramAssumption, Careful, IInv, [Next]_vars
  PROVE  IInv'
  <1> USE DEF IInv
  <1>b. Same \in Nat \ {0} /\ Samples \in Nat \ {0} /\ MaxTraps \in Nat
        /\ Breakpoints \subseteq Places
    BY DEF DebuggerAssumption
  <1>1. ASSUME NEW b \in Breakpoints, cmdSetSoftwareBreakpoint(b) \/ cmdSoftContinue(b)
        PROVE  IInv'
    <2>1. /\ softbrkaddr = NoCell /\ mem' = mem /\ softbrkaddr' = b[2] /\ high' = b[1]
          /\ at = "idle" /\ at' = "isCpuStopped" /\ patched' = NoPlace
          /\ crossed' = crossed /\ running' = running /\ traps' = traps
          /\ then' \in {"idle", "continue"}
      BY <1>1 DEF cmdSetSoftwareBreakpoint, cmdSoftContinue, MaySet, Command, machine, step
    <2>2. b[1] \in BOOLEAN /\ b[2] \in Cells /\ b[2] # NoCell
      BY <1>1, <1>b, PlaceLemma
    <2>3. patched = NoPlace
      BY <2>1 DEF BreakpointInv
    <2>4. BreakpointInv'
      BY <2>1, <2>2 DEF BreakpointInv, Setting
    <2>5. MemoryInv' /\ CleanInv'
      BY <2>1, <2>3 DEF MemoryInv, Variants, CleanInv, Clean
    <2>6. ProcessorType'
      BY <1>1, StepLemma
      DEF cmdSetSoftwareBreakpoint, cmdSoftContinue, machine, processor, TypeOK, ProcessorType
    <2>7. in_hv' = in_hv /\ UNCHANGED sampling /\ finishing' = finishing
      BY <1>1 DEF cmdSetSoftwareBreakpoint, cmdSoftContinue, stepping
    <2> QED
      BY <2>1, <2>2, <2>4, <2>5, <2>6, <2>7 DEF TypeOK, ProcessorType, sampling
  <1>2. ASSUME cmdContinue \/ cmdStep \/ cmdNext \/ cmdFinish
        PROVE  IInv'
    <2>1. /\ mem' = mem /\ UNCHANGED breakpoint /\ UNCHANGED sampling /\ in_hv' = in_hv
          /\ at = "idle" /\ at' \in {"continue", "idle", "next"} /\ then' = then
          /\ running' = running /\ traps' = traps
      BY <1>2 DEF cmdContinue, cmdStep, cmdNext, cmdFinish, Command, machine, step
    <2>2. BreakpointInv' /\ MemoryInv' /\ CleanInv'
      BY <2>1, KeepsBreakpoint DEF Setting
    <2>3. ProcessorType'
      BY <1>2, StepLemma
      DEF cmdContinue, cmdStep, cmdNext, cmdFinish, machine, processor, TypeOK, ProcessorType
    <2>4. finishing' \in {"no", "until", "last"}
      BY <1>2 DEF cmdContinue, cmdStep, cmdNext, cmdFinish, stepping, TypeOK
    <2> QED
      BY <2>1, <2>2, <2>3, <2>4 DEF TypeOK, ProcessorType, breakpoint, sampling
  <1>3. ASSUME CtrlC
        PROVE  IInv'
    <2>1. BreakpointInv' /\ MemoryInv' /\ CleanInv'
      BY <1>3, KeepsBreakpoint DEF CtrlC, machine, Setting
    <2> QED
      BY <1>3, <1>b, <2>1 DEF CtrlC, NoSamples, TypeOK, machine, processor, breakpoint, stepping
  <1>4. ASSUME isCpuStopped
        PROVE  IInv'
    <2>1. BreakpointInv' /\ MemoryInv' /\ CleanInv'
      BY <1>4, KeepsBreakpoint DEF isCpuStopped, machine, Setting
    <2>2. same_cnt' \in 0 .. Same - 1 /\ cnt' \in 0 .. Samples - 1
      <3> DEFINE same == IF pc = cur_pc THEN same_cnt + 1 ELSE 0
      <3>1. same \in 0 .. Same /\ cnt \in 0 .. Samples - 1
        BY <1>b DEF TypeOK
      <3>2. \/ same # Same /\ cnt + 1 # Samples /\ same_cnt' = same /\ cnt' = cnt + 1
            \/ same_cnt' = 0 /\ cnt' = 0
        BY <1>4 DEF isCpuStopped, NoSamples
      <3> HIDE DEF same
      <3> QED
        BY <1>b, <3>1, <3>2
    <2> QED
      BY <1>4, <2>1, <2>2 DEF isCpuStopped, TypeOK, machine, processor, breakpoint, stepping
  <1>5. ASSUME stop_to_set
        PROVE  IInv'
    <2>1. BreakpointInv' /\ MemoryInv' /\ CleanInv'
      BY <1>5, KeepsBreakpoint DEF stop_to_set, Setting
    <2> QED
      BY <1>5, <2>1 DEF stop_to_set, TypeOK, processor, breakpoint, sampling, stepping
  <1>6. ASSUME inHypervisorMode
        PROVE  IInv'
    <2>1. BreakpointInv' /\ MemoryInv' /\ CleanInv'
      BY <1>6, KeepsBreakpoint DEF inHypervisorMode, machine, Setting
    <2> QED
      BY <1>6, <2>1
      DEF inHypervisorMode, TypeOK, machine, processor, breakpoint, sampling, stepping
  <1>7. ASSUME restart
        PROVE  IInv'
    <2>1. at' \in {"idle", "continue"}
      BY <1>7 DEF restart, TypeOK
    <2>2. BreakpointInv' /\ MemoryInv' /\ CleanInv'
      BY <1>7, <2>1, KeepsBreakpoint DEF restart, Setting
    <2> QED
      BY <1>7, <2>1, <2>2 DEF restart, TypeOK, processor, breakpoint, sampling, stepping
  <1>8. ASSUME continue
        PROVE  IInv'
    <2>1. BreakpointInv' /\ MemoryInv' /\ CleanInv'
      BY <1>8, KeepsBreakpoint DEF continue, Setting
    <2> QED
      BY <1>8, <2>1 DEF continue, TypeOK, processor, breakpoint, sampling, stepping
  <1>9. ASSUME wait_for_break
        PROVE  IInv'
    <2>1. at = "wait" /\ at' \in {"wait", "clear", "idle"} /\ (at' = "clear" => softbrkaddr # NoCell)
      BY <1>9 DEF wait_for_break, AtBreakpoint
    <2>2. BreakpointInv' /\ MemoryInv' /\ CleanInv'
      BY <1>9, <2>1, KeepsBreakpoint DEF wait_for_break, machine, Setting
    <2>3. same_cnt' \in 0 .. Same - 1 /\ cnt' \in 0 .. Samples - 1
      BY <1>9, <1>b DEF wait_for_break, NoSamples, TypeOK
    <2> QED
      BY <1>9, <2>1, <2>2, <2>3
      DEF wait_for_break, TypeOK, machine, processor, breakpoint, stepping
  <1>10. ASSUME stop_to_clear
         PROVE  IInv'
    <2>1. BreakpointInv' /\ MemoryInv' /\ CleanInv'
      BY <1>10, KeepsBreakpoint DEF stop_to_clear, BreakpointInv, Setting
    <2> QED
      BY <1>10, <2>1 DEF stop_to_clear, TypeOK, processor, breakpoint, sampling, stepping
  <1>11. ASSUME next \/ next_stepping
         PROVE  IInv'
    <2>1. /\ mem' = mem /\ UNCHANGED breakpoint /\ UNCHANGED sampling /\ then' = then
          /\ at \in {"next", "stepping"} /\ at' \in {"next", "stepping", "idle"}
          /\ in_hv' = in_hv /\ running' = running /\ traps' = traps
      BY <1>11 DEF next, next_stepping, step, machine, Leave
    <2>2. BreakpointInv' /\ MemoryInv' /\ CleanInv'
      BY <2>1, KeepsBreakpoint DEF Setting
    <2>3. ProcessorType'
      BY <1>11, StepLemma DEF next, next_stepping, machine, processor, TypeOK, ProcessorType
    <2>4. finishing' \in {"no", "until", "last"}
      BY <1>11 DEF next, next_stepping, stepping, TypeOK
    <2> QED
      BY <2>1, <2>2, <2>3, <2>4 DEF TypeOK, ProcessorType, breakpoint, sampling
  <1>12. ASSUME Processor
         PROVE  IInv'
    <2>1. ProcessorType'
      BY <1>12, ExecuteLemma DEF Processor
    <2>2. BreakpointInv' /\ MemoryInv' /\ CleanInv'
      BY <1>12, KeepsBreakpoint DEF Processor, BreakpointInv, Setting
    <2> QED
      BY <1>12, <2>1, <2>2
      DEF Processor, TypeOK, ProcessorType, breakpoint, sampling, stepping
  <1>13. ASSUME Trap
         PROVE  IInv'
    <2>1. ProcessorType' /\ traps' \in 0 .. MaxTraps
      BY <1>13, <1>b DEF Trap, Enter, TypeOK, ProcessorType, ProgramAssumption
    <2>2. BreakpointInv' /\ MemoryInv' /\ CleanInv'
      BY <1>13, KeepsBreakpoint DEF Trap, BreakpointInv, Setting
    <2> QED
      BY <1>13, <2>1, <2>2 DEF Trap, TypeOK, ProcessorType, breakpoint, sampling, stepping
  <1>14. ASSUME UNCHANGED vars
         PROVE  IInv'
    <2>1. BreakpointInv' /\ MemoryInv' /\ CleanInv'
      BY <1>14, KeepsBreakpoint DEF vars, machine, BreakpointInv, Setting
    <2> QED
      BY <1>14, <2>1 DEF vars, machine, processor, breakpoint, sampling, stepping, TypeOK
  <1> QED
    BY <1>1, <1>2, <1>3, <1>4, <1>5, <1>6, <1>7, <1>8, <1>9, <1>10, <1>11, <1>12, <1>13,
       <1>14, SetLemma, ClearLemma
    DEF Next, User, Work

-----------------------------------------------------------------------------
(* What follows from the invariant *)

\* A breakpoint that is set remembers the instruction it replaced.
LEMMA KnownLemma ==
  ASSUME DebuggerAssumption, IInv
  PROVE  ProgramIsKnown
  <1> SUFFICES ASSUME ~crossed, patched # NoPlace
               PROVE  Code = [mem EXCEPT ![patched] = softbrkmem]
    BY DEF IInv, CleanInv, Clean, ProgramIsKnown
  <1>1. mem = [Code EXCEPT ![patched] = JumpToItself] /\ softbrkmem = Code[patched]
    BY DEF IInv, CleanInv, Clean
  <1>2. Code = [p \in Places |-> Code[p]]
    BY DEF DebuggerAssumption
  <1>3. patched \in Places
    BY DEF IInv, TypeOK
  <1> QED
    BY <1>1, <1>2, <1>3

\* No step gets the processor away from the patch while it is there: traps come
\* back to it and single steps execute it.
LEMMA PatchHolds ==
  ASSUME DebuggerAssumption, Careful, IInv, Next, AtPatch
  PROVE  \/ patched' = patched /\ AtPatch'
         \/ clearSoftBreak
  <1> USE DEF IInv
  <1>1. patched # NoPlace
    BY DEF AtPatch
  <1>2. ASSUME NEW b \in Breakpoints, cmdSetSoftwareBreakpoint(b) \/ cmdSoftContinue(b)
        PROVE  FALSE
    <2>1. softbrkaddr = NoCell
      BY <1>2 DEF cmdSetSoftwareBreakpoint, cmdSoftContinue, MaySet
    <2> QED
      BY <1>1, <2>1 DEF BreakpointInv
  <1>3. ASSUME setSoftBreakpoint
        PROVE  FALSE
    BY <1>1, <1>3 DEF setSoftBreakpoint, BreakpointInv, Setting
  <1>4. ASSUME UNCHANGED <<processor, patched>>
        PROVE  patched' = patched /\ AtPatch'
    BY <1>4 DEF AtPatch, processor
  <1>5. ASSUME cmdContinue \/ cmdNext \/ cmdFinish \/ CtrlC
        PROVE  UNCHANGED <<processor, patched>>
    BY <1>5 DEF cmdContinue, cmdNext, cmdFinish, CtrlC, machine, breakpoint
  <1>6. ASSUME \/ isCpuStopped \/ stop_to_set \/ inHypervisorMode \/ restart
               \/ continue \/ wait_for_break \/ stop_to_clear
        PROVE  UNCHANGED <<processor, patched>>
    BY <1>6 DEF isCpuStopped, stop_to_set, inHypervisorMode, restart, continue,
                wait_for_break, stop_to_clear, machine, breakpoint
  <1>7. ASSUME cmdStep \/ next \/ next_stepping \/ Processor
        PROVE  patched' = patched /\ AtPatch'
    <2>1. patched' = patched /\ (Execute \/ UNCHANGED processor)
      BY <1>7 DEF cmdStep, next, next_stepping, Processor, step, machine, breakpoint
    <2> QED
      BY <1>4, <2>1, ExecuteAtPatch
  <1>8. ASSUME Trap
        PROVE  patched' = patched /\ AtPatch'
    <2>1. ~hv /\ patched' = patched /\ hv' = TRUE /\ resume'.pc = pc
      BY <1>8 DEF Trap, Enter, breakpoint
    <2>2. <<FALSE, pc>> = patched
      BY <2>1 DEF AtPatch, TypeOK
    <2> QED
      BY <1>1, <2>1, <2>2 DEF AtPatch
  <1> QED
    BY <1>2, <1>3, <1>4, <1>5, <1>6, <1>7, <1>8 DEF Next, User, Work

\* Only clearSoftBreak takes the patch away and reports the breakpoint, and it finds
\* the processor stopped.
LEMMA StopsLemma ==
  ASSUME DebuggerAssumption, ProgramAssumption, Careful, IInv, Next
  PROVE  BreakStops
  <1>1. ASSUME outcome' = "break", outcome # "break"
        PROVE  clearSoftBreak
    <2>1. Next => \/ outcome' \in {"none", "standing", "stepped", "called", "ctrl-c", outcome}
                  \/ clearSoftBreak
      BY DEF Next, User, Work, Processor, Trap, cmdSetSoftwareBreakpoint, cmdSoftContinue,
             cmdContinue, cmdStep, cmdNext, cmdFinish, Command, CtrlC, isCpuStopped,
             stop_to_set, inHypervisorMode, setSoftBreakpoint, restart, continue,
             wait_for_break, stop_to_clear, next, next_stepping
    <2> QED
      BY <1>1, <2>1
  <1>2. ASSUME clearSoftBreak
        PROVE  ~running' /\ UNCHANGED <<hv, pc>> /\ patched' = NoPlace
               /\ (~crossed' => mem' = Code)
    BY <1>2, ClearLemma DEF clearSoftBreak, processor
  <1>3. ASSUME AtPatch
        PROVE  IF patched' = patched THEN AtPatch' ELSE ~running' /\ UNCHANGED <<hv, pc>>
    <2>1. patched # NoPlace
      BY <1>3 DEF AtPatch
    <2> QED
      BY <1>2, <1>3, <2>1, PatchHolds
  <1> QED
    BY <1>1, <1>2, <1>3 DEF BreakStops

-----------------------------------------------------------------------------
(* What holds of every run *)

\* The inductive invariant holds in every state.
LEMMA Invariant ==
  ASSUME DebuggerAssumption, ProgramAssumption, Careful
  PROVE  Spec => []IInv
  <1>1. Init => IInv
    BY InitLemma
  <1>2. IInv /\ [Next]_vars => IInv'
    BY NextLemma
  <1> QED
    BY <1>1, <1>2, PTL DEF Spec

\* Every variable of the debugger and the processor has its type: the program
\* counter stays in the programs, whatever is stepped over or interrupted, and even
\* after an instruction has been put back in the wrong one; and the counts of equal
\* samples stay below their limits.
THEOREM DebuggerTypeTheorem ==
  ASSUME DebuggerAssumption, ProgramAssumption, Careful
  PROVE  Spec => []TypeOK
  <1>1. IInv => TypeOK
    BY DEF IInv
  <1> QED
    BY <1>1, Invariant, PTL

\* Whatever command was given and wherever it was interrupted, memory is the
\* programs as they were loaded but for the one breakpoint the debugger can take
\* back, as long as none was read or restored in another mode than it was set in
\* (setSoftBreakpoint, inHypervisorMode, clearSoftBreak).
THEOREM ProgramIsKnownTheorem ==
  ASSUME DebuggerAssumption, ProgramAssumption, Careful
  PROVE  Spec => []ProgramIsKnown
  <1>1. IInv => ProgramIsKnown
    BY KnownLemma
  <1> QED
    BY <1>1, Invariant, PTL

\* A processor that has come to the breakpoint stays there, across traps, steps and
\* interrupted commands, until it is stopped and the patch taken away; a continue
\* that reports its breakpoint has stopped the processor and, but for the exception
\* above, put back what was loaded (do_continue, clearSoftBreak).
THEOREM BreakStopsTheorem ==
  ASSUME DebuggerAssumption, ProgramAssumption, Careful
  PROVE  Spec => [][BreakStops]_vars
  <1>1. IInv /\ [Next]_vars => [BreakStops]_vars
    BY StopsLemma
  <1> QED
    BY <1>1, Invariant, PTL DEF Spec
=============================================================================
