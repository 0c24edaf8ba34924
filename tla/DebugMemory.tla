---------------------------- MODULE DebugMemory ----------------------------
(***************************************************************************)
(* The commands of m65dbg that look at the memory of the MEGA65 and change *)
(* it through the monitor: save, load, mcopy, se, dumps, strings, the      *)
(* disassembly with its frames and history, and a single instruction that  *)
(* is assembled, executed and taken away again.                            *)
(***************************************************************************)
EXTENDS Integers, Sequences, FiniteSets, SequencesExt

CONSTANTS
  MemSize,
  Memories,       \* what memory may hold, addresses to bytes
  LineSize,       \* bytes the monitor shows in a line, 16
  Lines,          \* lines that are read from the answer to M, 16
  Commands,       \* what the user asks for, a record for each
  Length,         \* bytes of the instruction a byte stands for, 1 to 3
  Calls,          \* chains of calls, innermost first, up to LineSize \div 2
  History,        \* what z answers, latest first, PCCNT addresses
  TextLimit,      \* longest string that is shown, 100
  TmpPc,          \* where a single instruction is assembled, $F0
  MapBase,        \* where the CPU sees the memory at 0 from: 0 when not mapped
  MaxCommands     \* bound

MemoryAssumption ==
  /\ LineSize \in Nat \ {0} /\ Lines \in Nat \ {0}
  /\ \A m \in Memories : DOMAIN m = 0 .. MemSize - 1
  /\ TmpPc + MapBase + LineSize <= MemSize
  /\ \A c \in Calls : Len(c) <= LineSize \div 2

VARIABLES
  mem,
  file,            \* the file on the PC, a sequence of bytes
  cmd, cnt,        \* the command at hand and how far it is
  scan,            \* the search: where the match began and how long it is
  told,            \* what the command told the user
  ctrlcflag,
  pc, stopped,     \* the CPU
  saved,           \* what the single instruction has to put back
  calls, traceframe,
  zflag, zpos, zval,
  before,          \* memory, file and pc when the command began
  commands

cpu == <<pc, stopped, saved>>
stack == <<calls, traceframe>>
history == <<zflag, zpos, zval>>
vars == <<mem, file, cmd, cnt, scan, told, ctrlcflag, cpu, stack, history, before, commands>>

Idle == [is |-> "none"]
NoScan == [start |-> 0, count |-> 0]

Init ==
  /\ mem \in Memories /\ file = << >>
  /\ cmd = Idle /\ cnt = 0 /\ scan = NoScan /\ told = << >> /\ ctrlcflag = FALSE
  /\ pc = 0 /\ stopped \in BOOLEAN /\ saved = << >>
  /\ calls \in Calls /\ traceframe = 0
  /\ zflag = FALSE /\ zpos = 0 /\ zval = << >>
  /\ before = << >> /\ commands = 0

-----------------------------------------------------------------------------
(* The monitor *)

get_mem(addr) == [k \in 1 .. LineSize |-> mem[addr + k - 1]]
\* As many lines as are read, one after the other.
get_mem28array(addr) == [k \in 1 .. Lines * LineSize |-> mem[addr + k - 1]]
put_mem28array(addr, data) ==
  mem' = [a \in DOMAIN mem |-> IF a - addr + 1 \in DOMAIN data THEN data[a - addr + 1] ELSE mem[a]]

\* A new command; an interrupt of the last one is forgotten.
Begin(c) ==
  /\ cmd = Idle /\ commands < MaxCommands
  /\ c.is = "load" => file # << >>
  /\ cmd' = c /\ cnt' = 0 /\ scan' = NoScan /\ told' = << >> /\ ctrlcflag' = FALSE
  /\ file' = IF c.is = "save" THEN << >> ELSE file
  /\ before' = [mem |-> mem, file |-> file, pc |-> pc]
  /\ commands' = commands + 1
  /\ UNCHANGED <<mem, cpu, stack, history>>

\* The loops look for an interrupt when they have done a piece.
Ends(all) == cmd' = IF all \/ ctrlcflag THEN [is |-> "done", of |-> cmd] ELSE cmd
Done == cmd' = [is |-> "done", of |-> cmd]
Still == UNCHANGED <<ctrlcflag, before, commands>>

CtrlC ==
  /\ cmd.is \notin {"none", "done"} /\ ~ctrlcflag /\ ctrlcflag' = TRUE
  /\ UNCHANGED <<mem, file, cmd, cnt, scan, told, cpu, stack, history, before, commands>>

Prompt ==
  /\ cmd.is = "done" /\ cmd' = Idle
  /\ UNCHANGED <<mem, file, cnt, scan, told, ctrlcflag, cpu, stack, history, before, commands>>

-----------------------------------------------------------------------------
(* Files and copies *)

cmdSave ==
  /\ cmd.is = "save"
  /\ LET n == IF cmd.count - cnt < Lines * LineSize THEN cmd.count - cnt ELSE Lines * LineSize
     IN /\ file' = file \o SubSeq(get_mem28array(cmd.addr + cnt), 1, n)
        /\ cnt' = cnt + n
  /\ Ends(cnt' >= cmd.count)
  /\ UNCHANGED <<mem, scan, told, cpu, stack, history>> /\ Still

\* Loading cannot be interrupted.
cmdLoad ==
  /\ cmd.is = "load"
  /\ LET n == IF Len(file) - cnt < LineSize THEN Len(file) - cnt ELSE LineSize
     IN /\ put_mem28array(cmd.addr + cnt, SubSeq(file, cnt + 1, cnt + n))
        /\ cnt' = cnt + n
  /\ IF cnt' >= Len(file) THEN Done ELSE UNCHANGED cmd
  /\ UNCHANGED <<file, scan, told, cpu, stack, history>> /\ Still

\* A line is read and written before the next one is read.
cmdMCopy ==
  /\ cmd.is = "mcopy"
  /\ LET n == IF cmd.count - cnt < LineSize THEN cmd.count - cnt ELSE LineSize
     IN /\ put_mem28array(cmd.dest + cnt, SubSeq(get_mem(cmd.src + cnt), 1, n))
        /\ cnt' = cnt + n
  /\ Ends(cnt' >= cmd.count)
  /\ UNCHANGED <<file, scan, told, cpu, stack, history>> /\ Still

-----------------------------------------------------------------------------
(* Search *)

\* A byte behind those that match so far; a byte that does not match is not
\* looked at again as the first one of another match.
Scanned(s, byte, addr) ==
  IF s.count = 0
  THEN IF byte = cmd.bytes[1] THEN [s EXCEPT !.start = addr, !.count = 1] ELSE s
  ELSE IF s.count < Len(cmd.bytes) /\ byte = cmd.bytes[s.count + 1]
  THEN IF s.count + 1 = Len(cmd.bytes)
       THEN [found |-> Append(s.found, s.start), start |-> 0, count |-> 0]
       ELSE [s EXCEPT !.count = @ + 1]
  ELSE [s EXCEPT !.start = 0, !.count = 0]

\* Twice as many lines are looked at as were read: the others hold zeros, at
\* addresses from 0.  One line more than asked for is looked at.
LookedAt(addr) ==
  LET most == 2 * Lines
      n == IF cmd.count \div LineSize + 1 - cnt \div LineSize < most
           THEN cmd.count \div LineSize + 1 - cnt \div LineSize ELSE most
  IN [k \in 1 .. n * LineSize |->
        IF k <= Lines * LineSize THEN [byte |-> mem[addr + k - 1], addr |-> addr + k - 1]
        ELSE [byte |-> 0, addr |-> (k - 1) % LineSize]]

search_range ==
  /\ cmd.is = "search"
  /\ LET bytes == LookedAt(cmd.addr + cnt)
         s == FoldLeft(LAMBDA acc, b : Scanned(acc, b.byte, b.addr),
                       scan @@ [found |-> told], bytes)
     IN /\ told' = s.found /\ scan' = [start |-> s.start, count |-> s.count]
        /\ cnt' = cnt + Len(bytes)
  /\ Ends(cnt' >= cmd.count)
  /\ UNCHANGED <<mem, file, cpu, stack, history>> /\ Still

-----------------------------------------------------------------------------
(* Dumps, strings and watches *)

dump ==
  /\ cmd.is = "dump"
  /\ told' = told \o get_mem(cmd.addr + cnt) /\ cnt' = cnt + LineSize
  /\ Ends(cnt' >= cmd.count)
  /\ UNCHANGED <<mem, file, scan, cpu, stack, history>> /\ Still

\* Up to a zero; behind the limit three dots and no more.
Dot == 46
print_string ==
  /\ cmd.is = "string"
  /\ LET zero == SelectInSeq(get_mem(cmd.addr + cnt), LAMBDA b : b = 0)
         n == IF zero = 0 THEN LineSize ELSE zero - 1
         room == TextLimit + 1 - cnt
     IN IF room < LineSize /\ n >= room
        THEN /\ told' = told \o SubSeq(get_mem(cmd.addr + cnt), 1, room) \o <<Dot, Dot, Dot>>
             /\ cnt' = cnt + room /\ Done
        ELSE /\ told' = told \o SubSeq(get_mem(cmd.addr + cnt), 1, n) /\ cnt' = cnt + n
             /\ IF zero # 0 THEN Done ELSE UNCHANGED cmd
  /\ UNCHANGED <<mem, file, scan, cpu, stack, history>> /\ Still

\* Bytes, words and double words, the lowest first in memory.
Value(addr, size) ==
  FoldLeft(LAMBDA v, k : 256 * v + get_mem(addr)[size + 1 - k], 0, [k \in 1 .. size |-> k])
cmdWatches ==
  /\ cmd.is = "watches"
  /\ told' = [w \in DOMAIN cmd.list |-> Value(cmd.list[w].addr, cmd.list[w].size)] /\ Done
  /\ UNCHANGED <<mem, file, cnt, scan, cpu, stack, history>> /\ Still

-----------------------------------------------------------------------------
(* Disassembly *)

\* What the stack holds is taken for the last byte of a JSR each.
StackWord(k) == (IF k \in DOMAIN calls THEN calls[k] ELSE 0) + 2
get_backtrace_addresses ==
  [k \in 1 .. LineSize \div 2 |-> StackWord(k) - 2]

\* The current place is that of the frame the user has gone to, even when it is
\* asked for by its address.
Place(addr) ==
  IF addr = pc /\ traceframe # 0 THEN get_backtrace_addresses[traceframe] ELSE addr

\* cnt instructions, one after the other; an interrupt ends it early.
Walk(addr, n) ==
  LET Next[k \in 1 .. n] == IF k = 1 THEN addr ELSE Next[k - 1] + Length[mem[Next[k - 1]]]
  IN [k \in 1 .. n |-> Next[k]]
disassemble ==
  /\ cmd.is = "dis"
  /\ \E n \in 1 .. cmd.count :
       /\ n = cmd.count \/ ctrlcflag
       /\ told' = Walk(Place(IF cmd.addr = -1 THEN pc ELSE cmd.addr), n)
  /\ Done /\ UNCHANGED <<mem, file, cnt, scan, cpu, stack, history>> /\ Still

cmdBackTrace ==
  /\ cmd.is = "back" /\ told' = <<pc>> \o get_backtrace_addresses
  /\ Done /\ UNCHANGED <<mem, file, cnt, scan, cpu, stack, history>> /\ Still

\* The last frame is that of the last word of the line, whether a call or not.
cmdUpFrame ==
  /\ cmd.is = "up"
  /\ IF traceframe = 0 THEN Done /\ UNCHANGED traceframe
     ELSE traceframe' = traceframe - 1 /\ cmd' = [is |-> "dis", addr |-> -1, count |-> 1]
  /\ UNCHANGED <<mem, file, cnt, scan, told, cpu, calls, history>> /\ Still
cmdDownFrame ==
  /\ cmd.is = "down"
  /\ IF traceframe = LineSize \div 2 THEN Done /\ UNCHANGED traceframe
     ELSE traceframe' = traceframe + 1 /\ cmd' = [is |-> "dis", addr |-> -1, count |-> 1]
  /\ UNCHANGED <<mem, file, cnt, scan, told, cpu, calls, history>> /\ Still

\* The history is asked for once, whatever the CPU does later.
Zval == IF zflag THEN zval ELSE History
Shown(at) == cmd' = [is |-> "dis", addr |-> Zval[at + 1], count |-> 1]
\* The latest place cannot be returned to.
cmdForwardDis ==
  /\ cmd.is = "=" /\ zflag' = TRUE /\ zval' = Zval
  /\ zpos' = IF zpos - cmd.count > 0 THEN zpos - cmd.count ELSE zpos
  /\ Shown(zpos')
  /\ UNCHANGED <<mem, file, cnt, scan, told, cpu, stack>> /\ Still
cmdBackwardDis ==
  /\ cmd.is = "-" /\ zflag' = TRUE /\ zval' = Zval
  /\ zpos' = IF zpos + cmd.count < Len(History) THEN zpos + cmd.count ELSE zpos
  /\ Shown(zpos')
  /\ UNCHANGED <<mem, file, cnt, scan, told, cpu, stack>> /\ Still

\* A step leads on, into a routine or out of one, to the frame of the CPU.
Step(c) ==
  /\ cmd.is = "step" /\ traceframe' = 0 /\ calls' = c /\ pc' = pc + Length[mem[pc]]
  /\ stopped' = TRUE /\ cmd' = [is |-> "dis", addr |-> -1, count |-> 1, stepped |-> TRUE]
  /\ UNCHANGED <<mem, file, cnt, scan, told, saved, history>> /\ Still

-----------------------------------------------------------------------------
(* A single instruction *)

\* The program goes round in a loop while it is not stopped.
Runs ==
  /\ ~stopped /\ pc' = IF pc = 0 THEN 1 ELSE 0
  /\ UNCHANGED <<mem, file, cmd, cnt, scan, told, ctrlcflag, stopped, saved, stack, history,
                 before, commands>>

\* The CPU is stopped and stays so; registers and a line of memory are kept.
\* (One that stays at a single instruction is taken for stopped; not here.)
doOneShotAssembly ==
  /\ cmd.is = "one-shot" /\ saved = << >>
  /\ stopped' = TRUE /\ saved' = <<pc, get_mem(MapBase + TmpPc)>>
  /\ before' = [before EXCEPT !.pc = pc]
  /\ UNCHANGED <<mem, file, cmd, cnt, scan, told, ctrlcflag, pc, stack, history, commands>>

\* The assembler writes to memory as it is, not as the CPU sees it.
write_bytes ==
  /\ cmd.is = "one-shot" /\ saved # << >> /\ cnt = 0
  /\ put_mem28array(TmpPc, cmd.code) /\ pc' = TmpPc /\ cnt' = 1
  /\ UNCHANGED <<file, cmd, scan, told, stopped, saved, stack, history>> /\ Still

\* It is executed: a jump, or something that is stored.
Executes ==
  /\ cmd.is = "one-shot" /\ cnt = 1 /\ cnt' = 2
  /\ mem' = IF cmd.at = -1 THEN mem ELSE [mem EXCEPT ![cmd.at] = cmd.stores]
  /\ pc' \in {pc + Len(cmd.code), 0}
  /\ UNCHANGED <<file, cmd, scan, told, stopped, saved, stack, history>> /\ Still

\* The pc is what it was, and byte after byte.
Restores ==
  /\ cmd.is = "one-shot" /\ cnt >= 2
  /\ pc' = saved[1]
  /\ IF cnt - 2 = Len(cmd.code) THEN Done /\ saved' = << >> /\ UNCHANGED <<mem, cnt>>
     ELSE /\ mem' = [mem EXCEPT ![MapBase + TmpPc + cnt - 2] = saved[2][cnt - 1]]
          /\ cnt' = cnt + 1 /\ UNCHANGED <<cmd, saved>>
  /\ UNCHANGED <<file, scan, told, stopped, stack, history>> /\ Still

Next ==
  \/ \E c \in Commands : Begin(c)
  \/ CtrlC \/ Prompt \/ Runs
  \/ cmdSave \/ cmdLoad \/ cmdMCopy \/ search_range \/ dump \/ print_string \/ cmdWatches
  \/ disassemble \/ cmdBackTrace \/ cmdUpFrame \/ cmdDownFrame
  \/ cmdForwardDis \/ cmdBackwardDis \/ \E c \in Calls : Step(c)
  \/ doOneShotAssembly \/ write_bytes \/ Executes \/ Restores

Spec == Init /\ [][Next]_vars

-----------------------------------------------------------------------------
(* Properties *)

Finished(is) == cmd.is = "done" /\ cmd.of.is = is
At(m, addr, count) == [k \in 1 .. count |-> m[addr + k - 1]]
Overlap == cmd.of.dest \in cmd.of.src + 1 .. cmd.of.src + cmd.of.count - 1

\* What was saved is what memory holds, and all of it unless it was interrupted;
\* what is loaded or copied arrives and nothing else changes.  (A copy over its
\* own source, upwards, repeats the first lines.)
BytesArrive ==
  /\ Finished("save") =>
       /\ file = At(mem, cmd.of.addr, Len(file))
       /\ Len(file) = cmd.of.count \/ ctrlcflag
  /\ Finished("load") =>
       mem = [a \in DOMAIN mem |-> IF a - cmd.of.addr + 1 \in DOMAIN file
                                   THEN file[a - cmd.of.addr + 1] ELSE before.mem[a]]
  /\ Finished("mcopy") /\ ~Overlap =>
       mem = [a \in DOMAIN mem |-> IF a - cmd.of.dest \in 0 .. cnt - 1
                                   THEN before.mem[a - cmd.of.dest + cmd.of.src]
                                   ELSE before.mem[a]]

\* Every place the search tells of holds what was searched for, when there are no
\* zeros in it.  It tells of every one in the lines that were read, when nothing
\* ahead of it began like it.
Matches(p) ==
  p + Len(cmd.of.bytes) <= MemSize /\ At(mem, p, Len(cmd.of.bytes)) = cmd.of.bytes
Read(p) ==
  /\ p + Len(cmd.of.bytes) <= cmd.of.addr + cmd.of.count
  /\ ((p - cmd.of.addr) % (2 * Lines * LineSize)) + Len(cmd.of.bytes) <= Lines * LineSize
SearchIsRight ==
  Finished("search") /\ (\A i \in DOMAIN cmd.of.bytes : cmd.of.bytes[i] # 0) =>
    /\ \A i \in DOMAIN told : Matches(told[i])
    /\ Len(cmd.of.bytes) > 1 /\ ~ctrlcflag =>
         \A p \in cmd.of.addr .. MemSize - 1 :
           \/ ~Matches(p) \/ ~Read(p) \/ \E i \in DOMAIN told : told[i] = p
           \/ \E q \in p - Len(cmd.of.bytes) + 1 .. p - 1 :
                q >= cmd.of.addr /\ mem[q] = cmd.of.bytes[1]

\* What is shown is there: the bytes of a dump, a text up to its zero, the values
\* of the watches.
ShownIsThere ==
  /\ Finished("dump") => told = At(mem, cmd.of.addr, Len(told))
  /\ Finished("string") =>
       /\ \A i \in DOMAIN told :
            told[i] \in {mem[cmd.of.addr + i - 1], Dot} /\ told[i] # 0
       /\ mem[cmd.of.addr + Len(told)] = 0 \/ Len(told) = TextLimit + 4
  /\ Finished("watches") =>
       \A w \in DOMAIN told :
         \A k \in 1 .. cmd.of.list[w].size :
           (told[w] \div (256 ^ (k - 1))) % 256 = mem[cmd.of.list[w].addr + k - 1]

\* In a frame the call is shown that led out of it, and a step leads back to the
\* CPU's own place; on the way every instruction is shown whole.
FramesAreCalls ==
  Finished("dis") /\ cmd.of.addr = -1 /\ stopped /\ traceframe <= Len(calls) =>
    /\ told[1] = IF traceframe = 0 THEN pc ELSE calls[traceframe]
    /\ "stepped" \in DOMAIN cmd.of => told[1] = pc
    /\ \A i \in 2 .. Len(told) : told[i] - told[i - 1] = (Length[mem[told[i - 1]]])

\* A single instruction leaves behind what it stored and nothing of itself, and
\* the program where it was.
OneShotLeavesNoTrace ==
  Finished("one-shot") =>
    /\ pc = before.pc \/ ~stopped
    /\ \A a \in DOMAIN mem :
         \/ mem[a] = before.mem[a]
         \/ a = cmd.of.at /\ mem[a] = cmd.of.stores
    /\ cmd.of.at \notin {-1} \cup (TmpPc .. TmpPc + Len(cmd.of.code) - 1) =>
         mem[cmd.of.at] = cmd.of.stores
=============================================================================
