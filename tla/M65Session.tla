----------------------------- MODULE M65Session -----------------------------
(***************************************************************************)
(* One run of m65: main() works through what the command line asks for in  *)
(* a fixed order, over the serial monitor.  What matters to all parts is   *)
(* whether the CPU runs, and whether the tool knows: cpu_stopped decides   *)
(* if a transfer stops the CPU first.                                      *)
(***************************************************************************)
EXTENDS Integers, Sequences, FiniteSets, SequencesExt

CONSTANTS
  Options,     \* sets of options main() may be called with
  Modes,       \* what the machine may be found in: "c64", "c65", "openrom"
  Ranges,      \* of memory to save: two addresses, or << >> for the BASIC program
  BasicAreas,  \* what the pointers of BASIC say
  BasicStart,  \* of programs in C65 mode ($2001)
  Piece        \* bytes that are saved at once (4096)

\* The options that decide what is done.
Flags ==
  {"jtag_only", "bitstream_only", "zap", "memsave", "hyppo", "rom", "charrom",
   "colourram", "flashmenu", "vf011", "reset", "no_cart", "break", "video", "binary",
   "mixer", "go64", "type", "osk", "screenshot", "program", "sid", "run", "halt", "unit"}

M65SessionAssumption ==
  /\ Options \subseteq SUBSET Flags
  /\ Modes \subseteq {"c64", "c65", "openrom"}
  /\ Ranges \subseteq {<< >>} \cup (Nat \X Nat) /\ BasicAreas \subseteq Nat \X Nat
  /\ BasicStart \in Nat /\ Piece \in Nat \ {0}

VARIABLES
  opts,        \* the options given
  at,          \* the part of main() that is next; "exit" at the end
  cpu_stopped, \* what the tool believes
  running, hypervisor,       \* the CPU
  rom_protected,             \* bit 2 of $D67D
  contents,    \* area of memory -> what is there and whether the CPU ran
               \* while it was loaded
  saw,         \* detect_mode: "none" or one of Modes
  saved        \* the memory to save and the pieces in the file; << >> before,
               \* <<"failed">> without a file or a program

vars == <<opts, at, cpu_stopped, running, hypervisor, rom_protected, contents, saw, saved>>

Areas == {"hyppo", "rom", "charrom", "colourram", "flashmenu", "binary", "program",
          "registers", "keys", "screen", "tape", "pointers"}
machine == [stopped |-> cpu_stopped, running |-> running, hypervisor |-> hypervisor,
            protected |-> rom_protected, contents |-> contents]

Init ==
  /\ opts \in Options /\ at = "open"
  /\ cpu_stopped = FALSE /\ running = TRUE /\ hypervisor = FALSE
  /\ rom_protected = TRUE
  /\ contents = [a \in Areas |-> [is |-> "old", hot |-> FALSE]]
  /\ saw = "none" /\ saved = << >>

-----------------------------------------------------------------------------
(* The calls of m65common.c, on a bitstream that buffers the serial line.   *)

\* Wrong variant: only the belief is changed.
real_stop_cpu_Fake(s) == [s EXCEPT !.stopped = TRUE]

real_stop_cpu(s) ==
  IF s.stopped THEN s ELSE [s EXCEPT !.stopped = TRUE, !.running = FALSE]

\* Wrong variant: the CPU is started and still believed to be stopped.
start_cpu_Unnoticed(s) == [s EXCEPT !.running = TRUE]

start_cpu(s) == [s EXCEPT !.stopped = FALSE, !.running = TRUE]

\* A command runs with the CPU stopped around it unless the tool believes
\* that it is stopped already.
slow_write_safe(s) == IF s.stopped THEN s ELSE [s EXCEPT !.running = TRUE]

Put(s, area, what) ==
  [s EXCEPT !.contents[area] = [is |-> what, hot |-> s.running \/ @.hot]]

\* push_ram and mega65_poke: stop, write, start again if the CPU was not
\* believed to be stopped.
push_ram(s, area, what) ==
  IF s.stopped THEN Put(s, area, what)
  ELSE start_cpu(Put(real_stop_cpu(s), area, what))
mega65_poke(s) == push_ram(s, "registers", "new")
protect(s, on) == [mega65_poke(s) EXCEPT !.protected = on]

\* load_file does not stop the CPU itself.
load_file(s, area) == Put(s, area, "new")

\* The t0 at the end of a hypervisor session is a plain command.
enter_hypervisor_mode(s) == [real_stop_cpu(s) EXCEPT !.hypervisor = TRUE]
return_from_hypervisor_mode(s) == [s EXCEPT !.hypervisor = FALSE, !.running = TRUE]

goto_reset_vector(s) == start_cpu(s)

When(option, s, t) == IF option \in opts THEN t ELSE s

Becomes(s) ==
  /\ cpu_stopped' = s.stopped /\ running' = s.running /\ hypervisor' = s.hypervisor
  /\ rom_protected' = s.protected /\ contents' = s.contents

Part(here, next) == at = here /\ at' = next /\ UNCHANGED <<opts, saved>>

-----------------------------------------------------------------------------
(* The parts of main() *)

\* Without the serial line there is nothing else to do.
open_port ==
  /\ Part("open", IF opts \cap {"jtag_only", "bitstream_only"} # {} THEN "exit" ELSE "zap")
  /\ Becomes(machine) /\ UNCHANGED saw

zap ==
  /\ Part("zap", "memsave")
  /\ Becomes(When("zap", machine, mega65_poke(machine)))
  /\ UNCHANGED saw

\* The memory is fetched piece by piece while the CPU runs; the last address is
\* not saved.
memory_save(first, last) ==
  LET pieces[a \in first .. last] ==
        IF a = last THEN << >>
        ELSE LET count == Min({last - a, Piece})
             IN <<[addr |-> a, count |-> count]>> \o pieces[a + count]
  IN pieces[first]

\* Two addresses in either order, or where BASIC is in the mode that was seen.
Saved(range, basic, mode) ==
  IF range # << >>
  THEN [first |-> Min({range[1], range[2]}), last |-> Max({range[1], range[2]}), header |-> FALSE]
  ELSE [first |-> IF mode = "c65" THEN BasicStart ELSE basic[1], last |-> basic[2], header |-> TRUE]

memsave ==
  /\ at = "memsave" /\ UNCHANGED opts
  /\ Becomes(IF opts \cap {"memsave", "vf011"} # {} THEN slow_write_safe(machine) ELSE machine)
  /\ IF "memsave" \notin opts THEN at' = "roms" /\ UNCHANGED <<saw, saved>>
     ELSE /\ saw' \in Modes
          /\ \/ at' = "exit" /\ saved' = <<"failed">>
             \/ \E range \in Ranges : \E basic \in BasicAreas :
                  LET area == Saved(range, basic, saw') IN
                  /\ area.header => area.last - area.first >= 3
                  /\ at' = "roms"
                  /\ saved' = <<area, range, memory_save(area.first, area.last)>>

\* Without a HYPPO: ROM and character ROM from the hypervisor.
LoadInHypervisor(s) ==
  LET h == enter_hypervisor_mode(s)
      r == protect(load_file(protect(h, FALSE), "rom"), TRUE)
      c == When("rom", h, r)
  IN return_from_hypervisor_mode(When("charrom", c, load_file(c, "charrom")))

WithoutHyppo(s) ==
  LET l == IF opts \cap {"rom", "charrom"} # {} THEN LoadInHypervisor(s) ELSE s
      g == When("rom", l, goto_reset_vector(l))
      c == When("colourram", g, load_file(g, "colourram"))
  IN When("flashmenu", c, load_file(c, "flashmenu"))

\* With one (the floppy drive on the PC needs one: that of the running system).
WithHyppo(s) ==
  LET Load(t, area) == When(area, t, load_file(t, area))
      h == load_file(real_stop_cpu(s), "hyppo")
      l == FoldLeft(Load, h, <<"flashmenu", "rom", "charrom", "colourram">>)
      v == When("vf011", l, mega65_poke(l))
  IN IF "reset" \in opts THEN v ELSE start_cpu(v)

roms ==
  /\ Part("roms", "reset")
  /\ Becomes(IF opts \cap {"hyppo", "vf011"} # {} THEN WithHyppo(machine)
             ELSE WithoutHyppo(machine))
  /\ UNCHANGED saw

reset ==
  /\ Part("reset", "no_cart")
  /\ Becomes(When("reset", machine,
                  [start_cpu(machine) EXCEPT !.protected = TRUE, !.hypervisor = FALSE]))
  /\ UNCHANGED saw

no_cart ==
  /\ Part("no_cart", "break")
  /\ Becomes(When("no_cart", machine, start_cpu(mega65_poke(real_stop_cpu(machine)))))
  /\ UNCHANGED saw

\* A breakpoint is the last thing that is done.
set_break ==
  /\ Part("break", IF "break" \in opts THEN "exit" ELSE "video")
  /\ Becomes(machine) /\ UNCHANGED saw

\* PAL or NTSC, video or CPU log over Ethernet.
video ==
  /\ Part("video", "binary")
  /\ Becomes(When("video", machine, mega65_poke(machine)))
  /\ UNCHANGED saw

binary ==
  /\ Part("binary", "mixer")
  /\ Becomes(When("binary", machine,
       return_from_hypervisor_mode(
         load_file(protect(enter_hypervisor_mode(machine), FALSE), "binary"))))
  /\ UNCHANGED saw

\* Each coefficient is a number and a value, poked one after the other.
mixer ==
  /\ Part("mixer", "detect")
  /\ Becomes(When("mixer", machine, mega65_poke(mega65_poke(machine))))
  /\ UNCHANGED saw

Program == opts \cap {"program", "sid"} # {}

\* detect_mode polls the machine until it has settled; switch_to_c64mode types
\* GO64 and looks again.
detect ==
  /\ Part("detect", "type")
  /\ Becomes(IF Program \/ "go64" \in opts THEN slow_write_safe(machine) ELSE machine)
  /\ IF "go64" \in opts THEN saw' \in Modes \cap {"c64", "openrom"}
     ELSE IF Program THEN saw' \in Modes ELSE UNCHANGED saw

type ==
  /\ Part("type", "screenshot")
  /\ Becomes(When("osk", machine, mega65_poke(machine)))
  /\ UNCHANGED saw

screenshot ==
  /\ Part("screenshot", IF "screenshot" \in opts THEN "exit" ELSE "program")
  /\ Becomes(When("screenshot", machine, start_cpu(real_stop_cpu(machine))))
  /\ UNCHANGED saw

\* RUN, and a remark before the program, are put into the buffer of the keyboard.
stuff_keybuffer(s) == push_ram(s, "keys", "new")

\* The SID player: its colours, its screen and its code.
sid_player(s) ==
  push_ram(push_ram(push_ram(s, "colourram", "player"), "screen", "player"), "tape", "player")

\* The program and the pointer to its end.
load_program(s) == push_ram(push_ram(s, "program", "new"), "pointers", "new")

\* A program is loaded with the CPU stopped; a SID tune needs C64 mode, has its
\* player loaded first and started in the end.
program ==
  /\ Part("program", IF "sid" \in opts THEN "exit" ELSE "unit")
  /\ saw' = IF "sid" \in opts THEN "c64" ELSE saw
  /\ LET tune == start_cpu(load_program(sid_player(real_stop_cpu(machine))))
         loaded == load_program(real_stop_cpu(stuff_keybuffer(machine)))
         left == IF "halt" \in opts THEN loaded ELSE start_cpu(loaded)
     IN Becomes(IF ~Program THEN machine
                ELSE IF "sid" \in opts THEN tune
                ELSE When("run", left, stuff_keybuffer(left)))

\* The test mode listens until the tests are done; the floppy drive serves
\* requests until it is told to stop, and is switched off then.
unit ==
  /\ Part("unit", "exit")
  /\ Becomes(IF "vf011" \in opts /\ "unit" \notin opts THEN mega65_poke(machine) ELSE machine)
  /\ UNCHANGED saw

Next ==
  \/ open_port \/ zap \/ memsave \/ roms \/ reset \/ no_cart \/ set_break \/ video \/ binary
  \/ mixer \/ detect \/ type \/ screenshot \/ program \/ unit

Spec == Init /\ [][Next]_vars

-----------------------------------------------------------------------------
(* Properties *)

\* A program is put into memory while the CPU does not run, whatever was done
\* before it in the same session.
ProgramLoadsStopped == ~contents["program"].hot

\* Between the parts of main() the tool knows whether the CPU runs.
SessionKnowsCpu == cpu_stopped = ~running

\* The file holds the memory that was asked for, each address once and in order.
SavedIsTheRange ==
  Len(saved) = 3 =>
    LET area == saved[1]
        range == saved[2]
        pieces == saved[3]
        Before(k) == FoldLeft(LAMBDA a, p : a + p.count, area.first, SubSeq(pieces, 1, k - 1))
    IN /\ \A k \in DOMAIN pieces : pieces[k].addr = Before(k) /\ pieces[k].count \in 1 .. Piece
       /\ Before(Len(pieces) + 1) = area.last
       /\ range # << >> => {area.first, area.last} = {range[1], range[2]}

\* At the end the CPU runs, unless it was to be halted behind a program, and
\* the ROM is write-protected and the hypervisor left.
SessionEndsAsAsked ==
  at = "exit" =>
    /\ running = ~(/\ "halt" \in opts /\ "program" \in opts /\ "sid" \notin opts
                   /\ opts \cap {"jtag_only", "bitstream_only", "break", "screenshot"} = {}
                   /\ saved # <<"failed">>)
    /\ rom_protected /\ ~hypervisor

=============================================================================
