----------------------------- MODULE FtpSession -----------------------------
(***************************************************************************)
(* A run of mega65_ftp: the options, the way to the card (a device of the  *)
(* PC, a helper loaded by Ethernet, or one put into memory by the serial   *)
(* monitor), and the commands: which operation a line selects, with which  *)
(* arguments.  A line is a sequence of pieces: blanks, quotes, and parts   *)
(* of words cut where one command's name goes on behind another's.         *)
(***************************************************************************)
EXTENDS Integers, Sequences, FiniteSets, SequencesExt

CONSTANTS
  ArgumentLists,   \* the options of a run
  Queues,          \* the lines given with -c
  Names,           \* the names a user types, plain or in quotes
  Digits,          \* the pieces that are numbers
  HelperBlocks,    \* blocks the helper is sent in by Ethernet
  MayTimeOut,      \* whether the last wait of the transfer may time out
  MaxTyped         \* bound on the lines typed

FtpSessionAssumption ==
  /\ MayTimeOut \in BOOLEAN
  /\ HelperBlocks \in Nat \ {0} /\ MaxTyped \in Nat

VARIABLES
  argv,        \* the options still to be read
  modes,       \* direct_sdcard_device, ethernet_mode, serial_port_set
  force,       \* force_helper_push
  queue,       \* queued_commands not yet executed
  at,          \* where main is
  machine,     \* the MEGA65: helper, mode, program in memory
  lost,        \* history: a program of the MEGA65 was overwritten
  executed,    \* history: the last line and the operations it selected
  lines        \* lines typed so far

vars == <<argv, modes, force, queue, at, machine, lost, executed, lines>>

Serial == "direct" \notin modes /\ "ethernet" \notin modes
Quit == {<<"exit">>, <<"quit">>}

-----------------------------------------------------------------------------
(* Lines *)

\* skip_whitespace: the next place that is no blank.
Skip(s, i) ==
  LET after == {j \in i .. Len(s) : s[j] # " "}
  IN  IF after = {} THEN Len(s) + 1
      ELSE CHOOSE j \in after : \A k \in after : j <= k

UpTo(s, i, end) ==
  LET ends == {j \in i .. Len(s) : s[j] = end}
  IN  IF ends = {} THEN Len(s) + 1
      ELSE CHOOSE j \in ends : \A k \in ends : j <= k

Parameter(found, value, next) == [found |-> found, value |-> value, next |-> next]

\* parse_string_param: up to a blank, or between quotes.
parse_string_param(s, i) ==
  LET quoted == i <= Len(s) /\ s[i] = "quote"
      start == IF quoted THEN i + 1 ELSE i
      end == UpTo(s, start, IF quoted THEN "quote" ELSE " ")
  IN  Parameter(end > start, SubSeq(s, start, end - 1),
                IF quoted THEN end + 1 ELSE end)

\* parse_int_param: its test for digits is never true, so anything up to the
\* next blank is a number, 0 if it does not begin with one.
parse_int_param(s, i) ==
  LET end == UpTo(s, i, " ")
  IN  Parameter(end > i,
                IF i <= Len(s) /\ s[i] \in Digits THEN <<s[i]>> ELSE <<"0">>, end)

\* What %d and %s take in sscanf.
scan_int(s, i) ==
  LET number == i <= Len(s) /\ s[i] \in Digits
  IN  Parameter(number, IF number THEN <<s[i]>> ELSE << >>, i + 1)
scan_string(s, i) ==
  LET end == UpTo(s, i, " ") IN Parameter(end > i, SubSeq(s, i, end - 1), end)

\* parse_command and sscanf: the arguments a line has for a format.  Where
\* sscanf wants a word to go on without a blank, parse_non_whitespace skips one.
Arguments(s, format, by) ==
  LET step[n \in 0 .. Len(format)] ==
        IF n = 0 THEN [i |-> 1, args |-> << >>, more |-> TRUE]
        ELSE LET was == step[n - 1]
                 f == format[n]
                 i == IF by = "parse" \/ f \in {" ", "%d", "%s"}
                        THEN Skip(s, was.i) ELSE was.i
                 p == IF by = "parse"
                        THEN IF f = "%d" THEN parse_int_param(s, i)
                             ELSE parse_string_param(s, i)
                        ELSE IF f = "%d" THEN scan_int(s, i) ELSE scan_string(s, i)
             IN  IF ~was.more THEN was
                 ELSE IF f \in {"%d", "%s"}
                   THEN IF p.found
                          THEN [was EXCEPT !.i = p.next, !.args = Append(@, p.value)]
                          ELSE [was EXCEPT !.more = FALSE]
                 ELSE IF f = " " THEN IF by = "parse" THEN was ELSE [was EXCEPT !.i = i]
                 ELSE IF i <= Len(s) /\ s[i] = f THEN [was EXCEPT !.i = i + 1]
                 ELSE [was EXCEPT !.more = FALSE]
  IN  step[Len(format)].args

\* The tests of execute_command, in their order: a line selects the first whose
\* format has all its arguments; "exact" compares the whole line,
\* "prefix" its beginning.
Test(op, by, format) == [op |-> op, by |-> by, format |-> format]
S(word) == word \o <<" ", "%s">>
D(word) == word \o <<" ", "%d">>
Tests ==
  <<Test("download_slot", "parse", S(D(<<"get", "slot">>))),
    Test("download_flashslot", "parse", S(D(<<"get", "flash">>))),
    Test("download_file_as", "parse", S(S(<<"get">>))),
    Test("upload_file_as", "parse", S(S(<<"put">>))),
    Test("wrap_upload", "parse", S(<<"d", "put">>)),
    Test("delete_file_or_dir", "parse", S(<<"del">>)),
    Test("rename_file_or_dir", "parse", S(S(<<"rename">>))),
    Test("show_sector", "parse", D(<<"sec", "tor">>)),
    Test("dirent_raw", "scan", D(<<"dir", "ent_raw">>)),
    Test("show_directory_of", "parse", S(<<"dir">>)),
    Test("show_directory", "exact", <<"dir">>),
    Test("show_local_directory_of", "parse", S(<<"l", "dir">>)),
    Test("show_local_directory", "exact", <<"l", "dir">>),
    Test("upload_file", "parse", S(<<"put">>)),
    Test("create_dir", "parse", S(<<"mk", "dir">>)),
    Test("change_local_dir", "parse", S(<<"l", "cd">>)),
    Test("show_local_pwd", "exact", <<"l", "pwd">>),
    Test("change_dir", "parse", S(<<"ch", "dir">>)),
    Test("change_dir", "parse", S(<<"cd">>)),
    Test("download_file", "parse", S(<<"get">>)),
    Test("show_clusters", "parse", S(<<"cluster", "s">>)),
    Test("mount_file", "parse", S(<<"mount">>)),
    Test("show_clustermap_of", "scan", D(D(<<"cluster", "map">>))),
    Test("show_clustermap", "scan", D(<<"cluster", "map">>)),
    Test("show_cluster", "scan", D(<<"cluster">>)),
    Test("dump_sectors", "scan", D(D(S(<<"sec", "dump">>)))),
    Test("restore_sectors", "scan", D(S(<<"sec", "restore">>))),
    Test("show_secinfo", "exact", <<"sec", "info">>),
    Test("show_mbrinfo", "exact", <<"mbrinfo">>),
    Test("show_vbrinfo", "exact", <<"vbrinfo">>),
    Test("parse_pokes", "prefix", <<"poke", " ">>),
    Test("perform_filehost_get_as", "scan", S(D(<<"fh", "get">>))),
    Test("perform_filehost_get", "scan", D(<<"fh", "get">>)),
    Test("perform_filehost_flash", "scan", D(D(<<"fh", "flash">>))),
    Test("perform_filehost_read_of", "scan", S(<<"fh">>)),
    Test("perform_filehost_read", "exact", <<"fh">>),
    Test("perform_flash", "scan", D(S(<<"flash">>))),
    Test("list_all_roms", "exact", <<"roms">>),
    Test("help", "exact", <<"help">>)>>

Wanted(t) == Len(SelectSeq(t.format, LAMBDA f : f \in {"%d", "%s"}))
Selected(s, t) ==
  IF t.by = "exact" THEN s = t.format
  ELSE IF t.by = "prefix" THEN IsPrefix(t.format, s)
  ELSE Len(Arguments(s, t.format, t.by)) = Wanted(t)
Operation(s, t) ==
  [op |-> t.op, args |-> IF t.by \in {"exact", "prefix"} THEN << >>
                         ELSE Arguments(s, t.format, t.by)]

\* execute_command: the test for putslot stands alone, so the line goes on to
\* the other tests behind it.
Upload == Test("upload_slot", "parse", S(D(<<"put", "slot">>)))
execute_command(s) ==
  LET first == SelectInSeq(Tests, LAMBDA t : Selected(s, t))
      slot == IF Selected(s, Upload) THEN <<Operation(s, Upload)>> ELSE << >>
  IN  IF first = 0 THEN slot ELSE Append(slot, Operation(s, Tests[first]))

\* The lines a user types: every command, with names that may be quoted where
\* parse_command reads them.
Line(t, name, number) ==
  FlattenSeq([i \in 1 .. Len(t.format) |->
    IF t.format[i] = "%s" THEN name
    ELSE IF t.format[i] = "%d" THEN <<number>> ELSE <<t.format[i]>>])
Typed ==
  {Line(t, n, d) : t \in Range(Tests) \cup {Upload}, d \in Digits,
                   n \in {x \in Names : Head(x) # "quote"}}
    \cup {Line(t, n, d) : t \in {u \in Range(Tests) \cup {Upload} : u.by = "parse"},
                          d \in Digits, n \in Names}

-----------------------------------------------------------------------------
(* The way to the card *)

\* The MEGA65 as it is found: the helper may be running from an earlier run;
\* program tells whether there is one in the memory of the mode it is in; got
\* is the set of blocks of the helper in memory.
Machines ==
  {[helper |-> h, mode |-> m, program |-> p, got |-> {}, found |-> h] :
     h \in BOOLEAN, m \in {"c64", "c65", "openrom"}, p \in BOOLEAN}
All == 1 .. HelperBlocks

Init ==
  /\ argv \in ArgumentLists /\ queue \in Queues /\ machine \in Machines
  /\ modes = {} /\ force = FALSE
  /\ at = "options" /\ lost = FALSE
  /\ executed = [line |-> << >>, ops |-> << >>] /\ lines = 0

Ended == {"error", "usage", "quit", "end"}
Go(to) == at' = to
Same == UNCHANGED <<argv, modes, force, queue, lost, executed, lines>>

\* An option.  Two modes at once end the run (startup_multimode_error).
Option ==
  /\ at = "options" /\ argv # << >>
  /\ LET mode == [l |-> "serial", d |-> "direct", e |-> "ethernet", i |-> "ethernet"]
         o == Head(argv)
     IN  /\ argv' = Tail(argv)
         /\ IF o \in DOMAIN mode
              THEN IF modes \subseteq {mode[o]}
                     THEN modes' = modes \cup {mode[o]} /\ UNCHANGED <<at, force>>
                     ELSE Go("error") /\ UNCHANGED <<modes, force>>
              ELSE IF o = "F" THEN force' = TRUE /\ UNCHANGED <<at, modes>>
              ELSE Go("usage") /\ UNCHANGED <<modes, force>>
  /\ UNCHANGED <<queue, machine, lost, executed, lines>>

OptionsRead ==
  /\ at = "options" /\ argv = << >>
  /\ Go(IF "direct" \in modes THEN "device"
        ELSE IF "ethernet" \in modes THEN "ethernet" ELSE "serial")
  /\ UNCHANGED machine /\ Same

\* A step that goes on or ends the run: the device is opened; the address is
\* parsed and etherload_init called, the hyperrupt triggered and the MEGA65 pinged;
\* the serial port opened; the card looked at (sdhc_check).
Step(from, to) ==
  at = from /\ \E ok \in BOOLEAN : Go(IF ok THEN to ELSE "error")
Open ==
  /\ \/ Step("device", "filesystem")
     \/ Step("ethernet", "ping")
     \/ Step("serial", "version")
     \/ Step("sdhc_check", "filesystem")
  /\ UNCHANGED machine /\ Same

\* ETHLOAD.M65 takes the machine over.
Ping ==
  /\ at = "ping"
  /\ \E ok \in BOOLEAN : Go(IF ok THEN "transfer" ELSE "error")
  /\ machine' = [machine EXCEPT !.helper = FALSE]
  /\ Same

\* send_mem: a block arrives, now or after it was sent again; or no slot for it
\* gets free.
Transfer ==
  /\ at = "transfer"
  /\ \/ /\ \E b \in All \ machine.got : machine' = [machine EXCEPT !.got = @ \cup {b}]
        /\ UNCHANGED at
     \/ Go("error") /\ UNCHANGED machine
  /\ Same

\* wait_all_acks, whose result main does not look at, and the start of the helper.
StartHelper ==
  /\ at = "transfer"
  /\ machine.got = All \/ MayTimeOut
  /\ \/ Go("error") /\ UNCHANGED machine
     \/ Go("sdhc_check") /\ machine' = [machine EXCEPT !.helper = TRUE]
  /\ Same

\* load_helper: if the helper answers nothing is to be done.
AskVersion ==
  /\ at = "version"
  /\ Go(IF machine.helper THEN "sdhc_check" ELSE "memory")
  /\ UNCHANGED machine /\ Same

\* The start of the program area of the mode (detect_mode) is looked at.
LookForProgram ==
  /\ at = "memory"
  /\ Go(IF machine.program /\ ~force THEN "error" ELSE "push")
  /\ UNCHANGED machine /\ Same

\* The machine goes to C64 mode and the helper is put where its programs are.
PushHelper ==
  /\ at = "push"
  /\ Go("sdhc_check")
  /\ machine' = [machine EXCEPT !.mode = IF @ = "c65" THEN "c64" ELSE @,
                                !.helper = TRUE, !.got = All, !.program = FALSE]
  /\ lost' = machine.program
  /\ UNCHANGED <<argv, modes, force, queue, executed, lines>>

\* open_file_system; the commands try again if there is none.
OpenFileSystem ==
  at = "filesystem" /\ Go("commands") /\ UNCHANGED machine /\ Same

\* exit and quit tell the helper to leave (request_quit).
Execute(s) ==
  IF s \in Quit
    THEN /\ Go("quit")
         /\ machine' = IF "direct" \in modes THEN machine
                       ELSE [machine EXCEPT !.helper = FALSE]
         /\ UNCHANGED executed
    ELSE /\ executed' = [line |-> s, ops |-> execute_command(s)]
         /\ UNCHANGED <<at, machine>>

\* The lines of -c, in their order; the run ends behind the last of them.  (An
\* empty queue means that the lines are typed: queued_command_count.)
QueuedCommand ==
  /\ at = "commands" /\ queue # << >>
  /\ queue' = Tail(queue)
  /\ IF Len(queue) = 1 /\ Head(queue) \notin Quit
       THEN /\ executed' = [line |-> Head(queue), ops |-> execute_command(Head(queue))]
            /\ Go("end") /\ UNCHANGED machine
       ELSE Execute(Head(queue))
  /\ UNCHANGED <<argv, modes, force, lost, lines>>

TypedCommand ==
  /\ at = "commands" /\ queue = << >>
  /\ \/ /\ lines < MaxTyped /\ lines' = lines + 1
        /\ \E s \in Typed \cup Quit : Execute(s)
     \/ Go("end") /\ UNCHANGED <<machine, executed, lines>>
  /\ UNCHANGED <<argv, modes, force, queue, lost>>

Next ==
  \/ Option \/ OptionsRead \/ Open \/ Ping \/ Transfer \/ StartHelper
  \/ AskVersion \/ LookForProgram \/ PushHelper \/ OpenFileSystem
  \/ QueuedCommand \/ TypedCommand

Spec == Init /\ [][Next]_vars

-----------------------------------------------------------------------------
(* Properties *)

TypeOK ==
  /\ modes \subseteq {"serial", "direct", "ethernet"} /\ force \in BOOLEAN
  /\ machine.got \subseteq All /\ lost \in BOOLEAN /\ lines \in 0 .. MaxTyped

\* Commands are executed, and the card is looked at, only with one way to it,
\* and behind it a helper all of which is in memory or which answered.
HelperIsThere ==
  at \in {"sdhc_check", "filesystem", "commands"} =>
    /\ Cardinality(modes) <= 1
    /\ "direct" \in modes \/ (machine.helper /\ (machine.got = All \/ machine.found))

\* By the serial line no program of the user is lost unless -F was given
\* (load_helper: "this also prevents mega65_ftp from starting if the flasher is
\* running").
ProgramsAreKept == lost => force

\* Behind exit or quit no helper is left on the MEGA65.
QuitTakesTheHelper == at = "quit" /\ "direct" \notin modes => ~machine.helper

\* A line does what its first word says, with the arguments behind it.  (putslot
\* goes on to put.)
Word(s) == SubSeq(s, 1, UpTo(s, 1, " ") - 1)
Values(s) ==
  LET value[i \in 1 .. Len(s) + 1] ==
        IF i > Len(s) THEN << >>
        ELSE IF s[i] = " " THEN value[i + 1]
        ELSE LET p == parse_string_param(s, i) IN <<p.value>> \o value[p.next]
  IN  value[UpTo(s, 1, " ")]
Fits(t, s) ==
  /\ Word(t.format) = Word(s)
  /\ t.by = "prefix" \/ Wanted(t) = Len(Values(s))
  /\ \A k \in 1 .. Wanted(t) :
       SelectSeq(t.format, LAMBDA f : f \in {"%d", "%s"})[k] = "%d"
         => Values(s)[k][1] \in Digits
Named(s) == {t \in Range(Tests) \cup {Upload} : Fits(t, s)}
LinesAreObeyed ==
  executed.line # << >> =>
    LET t == CHOOSE t \in Named(executed.line) : TRUE
    IN  /\ Named(executed.line) = {t}
        /\ executed.ops # << >>
        /\ executed.ops[1].op = t.op
        /\ t.by # "prefix" => executed.ops[1].args = Values(executed.line)
        /\ t # Upload => Len(executed.ops) = 1
=============================================================================
