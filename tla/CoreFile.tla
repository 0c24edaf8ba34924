------------------------------ MODULE CoreFile ------------------------------
(***************************************************************************)
(* bit2core.c: a bitstream behind a header, and behind it a chain of       *)
(* embedded files; a banner file is put in the last part of the slot, too. *)
(* The core file is an array of cells, all 0 at first.                     *)
(***************************************************************************)
EXTENDS Integers, Sequences, FiniteSets, SequencesExt

CONSTANTS
  Targets,       \* target -> its size, its FPGA part and its identity
  HeaderSize,    \* 4 KB
  BannerSize,    \* 32 KB at the end of the slot
  MaxFile,       \* 1 MB, the size of the buffer for a file
  Bitstreams,    \* what can be converted: part and size
  CommandLines   \* arguments behind the name of the core file

CoreFileAssumption ==
  /\ HeaderSize \in Nat \ {0} /\ BannerSize \in Nat \ {0} /\ MaxFile \in Nat
  /\ \A t \in DOMAIN Targets : Targets[t].max_core_size > HeaderSize + BannerSize
  /\ \A b \in Bitstreams : b.size \in Nat \ {0}

VARIABLES
  target, bitstream, argv,   \* the command line
  at,                        \* "read", "build", "embed", "end", "written", "error"
  i,                         \* the argument at hand
  core_file, core_len, last_file_offset, banner_present,
  header                     \* what build_core_file put at the start

vars == <<target, bitstream, argv, at, i, core_file, core_len, last_file_offset,
          banner_present, header>>

max_core_size == Targets[target].max_core_size
Zero == [is |-> "zero"]
Record(next, f) == [is |-> "record", next |-> next, len |-> f.len, name |-> f.name]
Piece(f, k) == [is |-> "data", of |-> f, k |-> k]
BANNER == "BANNER.M65"
NoHeader == [model_id |-> 0, bootcaps |-> {}, bootflags |-> {}, installflags |-> {},
             embed_file_offset |-> 0, embed_file_count |-> 0, size |-> 0]

Init ==
  /\ target \in DOMAIN Targets /\ bitstream \in Bitstreams /\ argv \in CommandLines
  /\ at = "read" /\ i = 1
  /\ core_file = << >> /\ core_len = 0 /\ last_file_offset = 0
  /\ banner_present = FALSE /\ header = NoHeader

\* check_bitstream_file: the part must be the target's, the size fit.
check_bitstream_file ==
  /\ bitstream.part = Targets[target].part
  /\ bitstream.size <= max_core_size - HeaderSize

ReadBitstream ==
  /\ at = "read"
  /\ at' = IF check_bitstream_file THEN "build" ELSE "error"
  /\ UNCHANGED <<target, bitstream, argv, i, core_file, core_len, last_file_offset,
                 banner_present, header>>

Copy(file, from, cells) ==
  [a \in DOMAIN file |-> IF a \in from .. from + Len(cells) - 1 THEN cells[a - from + 1]
                         ELSE file[a]]
Pieces(f, n) == [k \in 1 .. n |-> Piece(f, k)]

\* The flags of the core are the first argument, those for its installation the
\* second; install flags are for the core MEGA65 alone.
Arg(n) == IF n <= Len(argv) THEN argv[n] ELSE [is |-> "none"]
offset == IF Arg(2).is = "install" THEN 2 ELSE IF Arg(1).is = "caps" THEN 1 ELSE 0

build_core_file ==
  /\ at = "build"
  /\ IF bitstream.size + HeaderSize >= max_core_size
     THEN at' = "error" /\ UNCHANGED <<core_file, core_len, header, i>>
     ELSE /\ at' = "embed" /\ i' = 1 + offset
          /\ core_file' = Copy([a \in 0 .. max_core_size - 1 |-> Zero], HeaderSize,
                               Pieces("bitstream", bitstream.size))
          /\ core_len' = HeaderSize + bitstream.size
          /\ header' = [NoHeader EXCEPT
               !.model_id = Targets[target].model_id,
               !.bootcaps = IF Arg(1).is = "caps" THEN Arg(1).caps ELSE {},
               !.bootflags = IF Arg(1).is = "caps" THEN Arg(1).flags ELSE {},
               !.installflags = IF Arg(2).is = "install" /\ bitstream.core = "MEGA65"
                                THEN Arg(2).flags ELSE {}]
  /\ UNCHANGED <<target, bitstream, argv, last_file_offset, banner_present>>

\* embed_file: a file that is larger than its buffer is cut; the record in
\* front of the data leads to the place behind it.
Cut(f) == [name |-> f.name, len |-> IF f.len > MaxFile THEN MaxFile ELSE f.len]

\* Wrong variant: the banner is put in front of its part of the slot.
PutBanner_Early(file, f) ==
  IF f.name = BANNER THEN Copy(file, max_core_size - BannerSize - 1, Pieces(f.name, f.len)) ELSE file

PutBanner(file, f) ==
  IF f.name = BANNER THEN Copy(file, max_core_size - BannerSize, Pieces(f.name, f.len)) ELSE file

embed_file(f) ==
  LET first == IF header.embed_file_offset = 0 THEN core_len ELSE last_file_offset
      next == first + 1 + f.len
      banner == banner_present \/ f.name = BANNER
  IN IF \/ f.name = ""                    \* no name, or a too long one
        \/ f.name = BANNER /\ f.len > BannerSize
        \/ next >= max_core_size - (IF banner THEN BannerSize ELSE 0) - 1
     THEN /\ at' = "error"
          /\ UNCHANGED <<core_file, core_len, last_file_offset, banner_present, header, i>>
     ELSE /\ core_file' = Copy(PutBanner(core_file, f), first, <<Record(next, f)>> \o Pieces(f.name, f.len))
          /\ banner_present' = banner
          /\ header' = [header EXCEPT
               !.embed_file_count = @ + 1,
               !.embed_file_offset = IF @ = 0 THEN core_len ELSE @]
          /\ last_file_offset' = next /\ core_len' = next
          /\ i' = i + 1 /\ at' = at

\* A list file stands for the files it names: CommandLines has it expanded.
EmbedFile ==
  /\ at = "embed" /\ i <= Len(argv)
  /\ IF argv[i].is = "file" THEN embed_file(Cut(argv[i].f))
     ELSE /\ at' = "error"
          /\ UNCHANGED <<i, core_file, core_len, last_file_offset, banner_present, header>>
  /\ UNCHANGED <<target, bitstream, argv>>

\* With a banner the file takes up the slot; else one empty record ends the chain.
End ==
  /\ at = "embed" /\ i > Len(argv)
  /\ IF banner_present /\ core_len >= max_core_size - BannerSize - 1
     THEN at' = "error" /\ UNCHANGED <<core_len, header>>
     ELSE /\ at' = "written"
          /\ core_len' = IF banner_present THEN max_core_size ELSE core_len + 1
          /\ header' = [header EXCEPT !.size = core_len']
  /\ UNCHANGED <<target, bitstream, argv, i, core_file, last_file_offset, banner_present>>

Done == at \in {"written", "error"} /\ UNCHANGED vars

Next == ReadBitstream \/ build_core_file \/ EmbedFile \/ End \/ Done

Spec == Init /\ [][Next]_vars

-----------------------------------------------------------------------------
(* Properties *)

\* What the MEGA65 finds that follows the chain from the header.
Chain ==
  LET Follow[k \in 0 .. header.embed_file_count] ==
        IF k = 0 THEN <<header.embed_file_offset>>
        ELSE Append(Follow[k - 1], core_file[Last(Follow[k - 1])].next)
  IN Follow[header.embed_file_count]

Holds(a, f) ==
  /\ core_file[a].is = "record" /\ core_file[a].name = f.name /\ core_file[a].len = f.len
  /\ \A k \in 1 .. f.len : core_file[a + k] = Piece(f.name, k)

Files == SelectSeq(argv, LAMBDA a : a.is = "file")

\* The file that is written holds the bitstream, every file of the command line
\* in order, the end of the chain, and the banner at the end of the slot: no
\* part was put over another one.
CoreIsWhole ==
  at = "written" =>
    /\ core_len <= max_core_size
    /\ \A k \in 1 .. bitstream.size : core_file[HeaderSize + k - 1] = Piece("bitstream", k)
    /\ header.embed_file_count = Len(Files)
    /\ Files # << >> =>
         /\ \A k \in DOMAIN Files : Holds(Chain[k], Files[k].f)
         /\ Last(Chain) < core_len /\ core_file[Last(Chain)] = Zero
    /\ banner_present =>
         \E k \in DOMAIN Files :
           /\ Files[k].f.name = BANNER
           /\ \A n \in 1 .. Files[k].f.len :
                core_file[max_core_size - BannerSize + n - 1] = Piece(BANNER, n)

=============================================================================
