----------------------------- MODULE MonitorLink -----------------------------
(***************************************************************************)
(* The serial monitor of the MEGA65 as m65common.c drives it: stopping and *)
(* starting the CPU, pretending to stop it, writing memory and reading it. *)
(* The monitor executes the commands of the line in order, echoes each one *)
(* and ends its answer with a prompt; the program of a running CPU writes  *)
(* memory in between.                                                      *)
(***************************************************************************)
EXTENDS Integers, Sequences, FiniteSets, SequencesExt

CONSTANTS
  RxBuffer,     \* the bitstream buffers the serial line (no_rxbuff = 0)
  Slab,         \* the monitor writes within 64KB slabs
  Chunk,        \* most bytes of one l command (4096)
  Pushes,       \* <<address, length>> of the writes of the tools
  Loads,        \* those of the files that load_file sends
  Reads,        \* addresses of the reads (one line of a dump)
  MaxCalls,     \* bound on the calls of the tools
  MaxRepeats,   \* bound on requests repeated after a second without answer
  MaxVersion    \* bound on the writes of the running program

LinkAssumption ==
  /\ RxBuffer \in BOOLEAN
  /\ Slab \in Nat \ {0, 1} /\ Chunk \in Nat \ {0}
  /\ Pushes \subseteq Nat \X Nat /\ Loads \subseteq Nat \X Nat /\ Reads \subseteq Nat
  /\ MaxCalls \in Nat /\ MaxRepeats \in Nat /\ MaxVersion \in Nat

Addresses == Reads \cup UNION {p[1] .. p[1] + p[2] - 1 : p \in Pushes \cup Loads}
Pushed == -1                                  \* what a tool writes

VARIABLES
  call,          \* the call in progress and where it is
  calls,         \* calls begun
  cpu_stopped,   \* what the tool believes
  faked,         \* history: it believes so because of fake_stop_cpu
  repeats,
  doubled,       \* a request was repeated and no monitor_sync has come since
  toMonitor, fromMonitor,
  running,       \* the CPU runs
  ram, version,  \* memory; writes of the program so far
  history        \* values each address has had since the call began

lineVars == <<toMonitor, fromMonitor>>
machine == <<running, ram, version>>
vars == <<call, calls, cpu_stopped, faked, repeats, doubled, lineVars, machine, history>>

Idle == [at |-> "idle"]
T(n) == [cmd |-> "t", n |-> n]
\* hot: the tool does not have the CPU stopped around this load, or takes it for
\* stopped because of fake_stop_cpu.  The monitor does not see that.
L(a, n, hot) == [cmd |-> "l", a |-> a, n |-> n, hot |-> hot]
M(a) == [cmd |-> "m", a |-> a]
Token(n) == [cmd |-> "#", n |-> n]            \* a comment
EchoOf(c) ==
  [is |-> "echo", of |-> IF c.cmd = "l" THEN L(c.a, c.n, FALSE) ELSE c]
Prompt == [is |-> "prompt"]
Dump(a, v) == [is |-> "dump", a |-> a, v |-> v]

Init ==
  /\ call = Idle /\ calls = 0
  /\ cpu_stopped = FALSE /\ faked = FALSE /\ running = TRUE
  /\ repeats = 0 /\ doubled = FALSE
  /\ toMonitor = << >> /\ fromMonitor = << >>
  /\ ram = [a \in Addresses |-> 0] /\ version = 0
  /\ history = [a \in Addresses |-> {0}]

-----------------------------------------------------------------------------
(* The tool *)

slow_write(cmds) == toMonitor' = toMonitor \o cmds

\* The CPU is stopped around a command unless it is believed to be stopped.
slow_write_safe(cmd) ==
  slow_write(IF cpu_stopped THEN <<cmd>> ELSE <<T(1), cmd, T(0)>>)

Begin(c) ==
  /\ call = Idle /\ calls < MaxCalls
  /\ calls' = calls + 1 /\ call' = c
  /\ history' = [a \in Addresses |-> {ram[a]}]

\* With a buffered line the tools wait for the echo of the command; without,
\* they wait a while and do not look.
Purge(n, then) == IF RxBuffer THEN [at |-> "purge", n |-> n, then |-> then] ELSE then

real_stop_cpu ==
  /\ IF cpu_stopped
     THEN Begin(Idle) /\ UNCHANGED <<cpu_stopped, toMonitor>>
     ELSE Begin(Purge(1, Idle)) /\ cpu_stopped' = TRUE /\ slow_write(<<T(1)>>)
  /\ UNCHANGED <<faked, repeats, doubled, fromMonitor, machine>>

\* fake_stop_cpu: slow_write_safe starts the CPU again behind t1, but the wait for
\* the echo notes that it is stopped.
fake_stop_cpu ==
  /\ IF cpu_stopped
     THEN Begin(Idle) /\ UNCHANGED <<faked, toMonitor>>
     ELSE Begin(Purge(1, Idle)) /\ slow_write_safe(T(1)) /\ faked' = RxBuffer
  /\ UNCHANGED <<cpu_stopped, repeats, doubled, fromMonitor, machine>>

start_cpu ==
  /\ Begin(Purge(0, Idle)) /\ slow_write(<<T(0)>>)
  /\ faked' = FALSE
  /\ UNCHANGED <<cpu_stopped, repeats, doubled, fromMonitor, machine>>

\* Wrong variant: any echo counts as the one of t1.
purge_AnyEcho ==
  /\ call.at = "purge" /\ fromMonitor # << >>
  /\ \E k \in 1 .. Len(fromMonitor) :
       /\ fromMonitor' = SubSeq(fromMonitor, k + 1, Len(fromMonitor))
       /\ IF \E i \in 1 .. k : fromMonitor[i].is = "echo"
          THEN cpu_stopped' = TRUE /\ call' = call.then
          ELSE UNCHANGED <<call, cpu_stopped>>
  /\ UNCHANGED <<calls, faked, repeats, doubled, toMonitor, machine, history>>

\* purge_and_check_for_vf011_jobs: read and drop everything until the echo of
\* t1 or t0 has come by.
purge ==
  /\ call.at = "purge" /\ fromMonitor # << >>
  /\ \E k \in 1 .. Len(fromMonitor) :
       /\ fromMonitor' = SubSeq(fromMonitor, k + 1, Len(fromMonitor))
       /\ IF \E i \in 1 .. k : fromMonitor[i] = EchoOf(T(call.n))
          THEN /\ cpu_stopped' = (call.n = 1)
               /\ call' = call.then
          ELSE UNCHANGED <<call, cpu_stopped>>
  /\ UNCHANGED <<calls, faked, repeats, doubled, toMonitor, machine, history>>

\* Its safety catch: t1 or t0 is sent again whenever the clock shows a new second.
\* A t1 that comes behind those of fake_stop_cpu does stop the CPU.
repeat_purge ==
  /\ call.at = "purge" /\ repeats < MaxRepeats
  /\ repeats' = repeats + 1 /\ slow_write(<<T(call.n)>>)
  /\ faked' = FALSE
  /\ UNCHANGED <<call, calls, cpu_stopped, doubled, fromMonitor, machine, history>>

\* push_ram: one l command per chunk.
PushAt(a, n, saved) == [at |-> "chunk", a |-> a, n |-> n, saved |-> saved]
ChunkSize(a, n) ==
  LET room == Slab - 1 - (a % Slab)
      most == IF n > room THEN room ELSE n
  IN IF most > Chunk THEN Chunk ELSE most

BeginPush(a, n) ==
  /\ IF cpu_stopped
     THEN Begin(PushAt(a, n, TRUE)) /\ UNCHANGED <<cpu_stopped, toMonitor>>
     ELSE /\ Begin(Purge(1, PushAt(a, n, FALSE)))
          /\ cpu_stopped' = TRUE /\ slow_write(<<T(1)>>)
  /\ UNCHANGED <<faked, repeats, doubled, fromMonitor, machine>>

push_chunk ==
  /\ call.at = "chunk" /\ call.n > 0
  /\ LET cmd == L(call.a, ChunkSize(call.a, call.n), faked) IN
       /\ slow_write_safe(cmd)
       /\ call' = [at |-> "echo", cmd |-> cmd, saved |-> call.saved,
                   a |-> call.a + cmd.n, n |-> call.n - cmd.n]
  /\ UNCHANGED <<calls, cpu_stopped, faked, repeats, doubled, fromMonitor, machine, history>>

\* load_file: one l command per chunk, up to the end of a slab, whether the CPU
\* runs or not.
LoadAt(a, n) == [at |-> "load", a |-> a, n |-> n]
FileChunk(a, n) == Min({n, Slab - (a % Slab), Chunk})

BeginLoad(a, n) ==
  /\ Begin(LoadAt(a, n))
  /\ UNCHANGED <<cpu_stopped, faked, repeats, doubled, lineVars, machine>>

load_chunk ==
  /\ call.at = "load" /\ call.n > 0
  /\ LET n == FileChunk(call.a, call.n) IN
       /\ slow_write(<<L(call.a, n, ~cpu_stopped \/ faked)>>)
       /\ call' = [at |-> "loading", a |-> call.a + n, n |-> call.n - n]
  /\ UNCHANGED <<calls, cpu_stopped, faked, repeats, doubled, fromMonitor, machine, history>>

end_load ==
  /\ call.at = "load" /\ call.n = 0 /\ call' = Idle
  /\ UNCHANGED <<calls, cpu_stopped, faked, repeats, doubled, lineVars, machine, history>>

\* push_ram has wait_for_string(cmd), then wait_for_prompt; load_file waits for a
\* prompt, the first one it sees.  Both read one character at a time.
wait_for_answer ==
  /\ call.at \in {"echo", "prompt", "loading"} /\ fromMonitor # << >>
  /\ fromMonitor' = Tail(fromMonitor)
  /\ LET answer == Head(fromMonitor) IN
     call' = CASE call.at = "echo" /\ answer = EchoOf(call.cmd) -> [call EXCEPT !.at = "prompt"]
               [] call.at = "prompt" /\ answer = Prompt -> PushAt(call.a, call.n, call.saved)
               [] call.at = "loading" /\ answer = Prompt -> LoadAt(call.a, call.n)
               [] OTHER -> call
  /\ UNCHANGED <<calls, cpu_stopped, faked, repeats, doubled, toMonitor, machine, history>>

end_push ==
  /\ call.at = "chunk" /\ call.n = 0
  /\ IF call.saved THEN call' = Idle /\ UNCHANGED toMonitor
                   ELSE call' = Purge(0, Idle) /\ slow_write(<<T(0)>>)
  /\ UNCHANGED <<calls, cpu_stopped, faked, repeats, doubled, fromMonitor, machine, history>>

\* fetch_ram of one line.  What was read with it is dropped when it returns.
BeginFetch(a) ==
  /\ Begin([at |-> "fetch", a |-> a]) /\ slow_write_safe(M(a))
  /\ UNCHANGED <<cpu_stopped, faked, repeats, doubled, fromMonitor, machine>>

\* The request is repeated whenever the clock shows a new second.
repeat_fetch ==
  /\ call.at = "fetch" /\ repeats < MaxRepeats
  /\ repeats' = repeats + 1 /\ doubled' = TRUE
  /\ slow_write_safe(M(call.a))
  /\ UNCHANGED <<call, calls, cpu_stopped, faked, fromMonitor, machine, history>>

receive_fetch ==
  /\ call.at = "fetch" /\ fromMonitor # << >>
  /\ \E k \in 1 .. Len(fromMonitor) :
       LET found == {i \in 1 .. k : fromMonitor[i].is = "dump" /\ fromMonitor[i].a = call.a}
       IN /\ fromMonitor' = SubSeq(fromMonitor, k + 1, Len(fromMonitor))
          /\ call' = IF found = {} THEN call
                     ELSE [at |-> "fetched", a |-> call.a,
                           v |-> fromMonitor[CHOOSE i \in found : \A j \in found : i <= j].v]
  /\ UNCHANGED <<calls, cpu_stopped, faked, repeats, doubled, toMonitor, machine, history>>

end_fetch ==
  /\ call.at = "fetched" /\ call' = Idle
  /\ UNCHANGED <<calls, cpu_stopped, faked, repeats, doubled, lineVars, machine, history>>

\* monitor_sync: drop what has come, an empty command, drop everything up to
\* its prompt, then a comment that is new each time, until it comes back.
BeginSync ==
  /\ Begin([at |-> "sync"]) /\ slow_write_safe(Token(0)) /\ fromMonitor' = << >>
  /\ UNCHANGED <<cpu_stopped, faked, repeats, doubled, machine>>

send_token ==
  /\ call.at = "sync" /\ Prompt \in ToSet(fromMonitor)
  /\ fromMonitor' = << >>
  /\ call' = [at |-> "token"] /\ slow_write_safe(Token(calls))
  /\ UNCHANGED <<calls, cpu_stopped, faked, repeats, doubled, machine, history>>

repeat_token ==
  /\ call.at = "token" /\ repeats < MaxRepeats
  /\ repeats' = repeats + 1
  /\ slow_write_safe(Token(calls))
  /\ UNCHANGED <<call, calls, cpu_stopped, faked, doubled, fromMonitor, machine, history>>

\* What was read together with the token is dropped.
receive_token ==
  /\ call.at = "token" /\ fromMonitor # << >>
  /\ \E k \in 1 .. Len(fromMonitor) :
       /\ fromMonitor' = SubSeq(fromMonitor, k + 1, Len(fromMonitor))
       /\ IF \E i \in 1 .. k : fromMonitor[i] = EchoOf(Token(calls))
          THEN call' = Idle /\ doubled' = FALSE
          ELSE UNCHANGED <<call, doubled>>
  /\ UNCHANGED <<calls, cpu_stopped, faked, repeats, toMonitor, machine, history>>

-----------------------------------------------------------------------------
(* The MEGA65 *)

Monitor ==
  /\ toMonitor # << >> /\ toMonitor' = Tail(toMonitor)
  /\ LET c == Head(toMonitor)
         out == IF c.cmd = "m" THEN <<Dump(c.a, ram[c.a])>> ELSE << >>
     IN /\ fromMonitor' = fromMonitor \o <<EchoOf(c)>> \o out \o <<Prompt>>
        /\ running' = IF c.cmd = "t" THEN c.n = 0 ELSE running
        /\ ram' = IF c.cmd = "l"
                  THEN [a \in Addresses |-> IF a \in c.a .. c.a + c.n - 1 THEN Pushed ELSE ram[a]]
                  ELSE ram
        /\ history' = [a \in Addresses |-> history[a] \cup {ram'[a]}]
  /\ UNCHANGED <<call, calls, cpu_stopped, faked, repeats, doubled, version>>

Program ==
  /\ running /\ version < MaxVersion
  /\ version' = version + 1
  /\ \E a \in Reads :
       /\ ram' = [ram EXCEPT ![a] = version + 1]
       /\ history' = [history EXCEPT ![a] = @ \cup {version + 1}]
  /\ UNCHANGED <<call, calls, cpu_stopped, faked, repeats, doubled, lineVars, running>>

-----------------------------------------------------------------------------

Work ==
  \/ push_chunk \/ wait_for_answer \/ end_push \/ load_chunk \/ end_load \/ purge
  \/ receive_fetch \/ end_fetch \/ send_token \/ receive_token

Next ==
  \/ real_stop_cpu \/ fake_stop_cpu \/ start_cpu \/ BeginSync
  \/ \E p \in Pushes : BeginPush(p[1], p[2])
  \/ \E p \in Loads : BeginLoad(p[1], p[2])
  \/ \E a \in Reads : BeginFetch(a)
  \/ Work \/ repeat_purge \/ repeat_fetch \/ repeat_token
  \/ Monitor \/ Program

Spec == Init /\ [][Next]_vars

-----------------------------------------------------------------------------
(* Properties *)

\* Every variable has its type.
TypeOK ==
  /\ call.at \in {"idle", "purge", "chunk", "echo", "prompt", "load", "loading",
                 "fetch", "fetched", "sync", "token"}
  /\ calls \in 0 .. MaxCalls /\ repeats \in 0 .. MaxRepeats
  /\ cpu_stopped \in BOOLEAN /\ faked \in BOOLEAN /\ running \in BOOLEAN /\ doubled \in BOOLEAN
  /\ version \in 0 .. MaxVersion
  /\ ram \in [Addresses -> {Pushed} \cup 0 .. MaxVersion]
  /\ \A a \in Addresses : ram[a] \in history[a]

Quiet == call = Idle /\ toMonitor = << >>

\* A tool that is between two calls, with nothing on its way, knows whether the
\* CPU runs, which decides whether commands stop the CPU - except after
\* fake_stop_cpu, when it takes a running CPU for stopped.
BeliefIsRight ==
  Quiet => IF faked THEN cpu_stopped /\ running ELSE cpu_stopped = ~running

\* The monitor does not load memory while the CPU runs, except for load_file
\* with a running CPU and for what follows fake_stop_cpu.
LoadsWhileStopped ==
  toMonitor # << >> /\ Head(toMonitor).cmd = "l" /\ ~Head(toMonitor).hot => ~running

\* A read returns a value the memory has had during the call: a request that
\* was repeated leaves an answer on the line, which monitor_sync drops.
FetchIsCurrent == call.at = "fetched" /\ ~doubled => call.v \in history[call.a]

=============================================================================
