---------------------------- MODULE MCStandalone ----------------------------
(****************************************************************************)
(* The components that work on what they are given: a whole session of m65, *)
(* the names in a directory, the typing of texts, the log of unit tests, the*)
(* symbols, the memory commands and the assembler of m65dbg, the            *)
(* configuration utility of the MEGA65, the core files of bit2core, the     *)
(* directories of a card, the differences between ROMs, the tracks of       *)
(* floppies, a run of mega65_ftp with its commands for sectors and the      *)
(* flash, and the pages of md2h65 with their pictures, and pictures of the  *)
(* screen.                                                                  *)
(****************************************************************************)
EXTENDS Integers, Sequences, FiniteSets, SequencesExt

CONSTANTS
  TypedNames,   \* names of files
  MaxChanges    \* bound on edits of the settings

VARIABLES
  subject,   \* the component this behaviour is about; the others are off
  e_opts, e_at, e_cpu_stopped, e_running, e_hypervisor, e_rom_protected,
  e_contents, e_saw, e_saved,
  t_type_text, t_i, t_c1, t_type_serial_mode, t_todo, t_keys, t_scanned,
  t_down, t_received, t_uart,
  u_sent, u_line, u_recent_bytes, u_recent_bytes_fill, u_receiveString,
  u_msgbuf, u_testname, u_testlog, u_last, u_log, u_failcount, u_exit,
  y_toLoad, y_lstFileLoc, y_lstSymMap, y_lstModuleOffsets, y_segmentOffsets,
  y_lstWatches, y_asked, y_made,
  g_mem, g_file, g_cmd, g_cnt, g_scan, g_told, g_ctrlcflag, g_pc, g_stopped,
  g_saved, g_calls, g_traceframe, g_zflag, g_zpos, g_zval, g_before,
  g_commands,
  a_line, a_code,
  c_tabSelected, c_pgeSelected, c_selectedOpt, c_saveSlctOpt, c_progTermint,
  c_cursor, c_opts, c_shown, c_spoilt, c_optDflt, c_optSess, c_card, c_applied, c_changes,
  k_target, k_bitstream, k_argv, k_at, k_i, k_core_file, k_core_len,
  k_last_file_offset, k_banner_present, k_header,
  n_dir, n_card, n_pc, n_cmd, n_files, n_commands, n_crashes,
  b_tree, b_fat, b_current_dir, b_here, b_shown, b_get, b_changes,
  r_ref, r_new, r_behind, r_i, r_costs, r_next_pos, r_tokens, r_at, r_ofs,
  r_diff, r_out,
  f_track, f_gaps, f_d, f_previous_partial_gap, f_recent_gaps, f_last_gap,
  f_reports,
  p_argv, p_modes, p_force, p_queue, p_at, p_machine, p_lost, p_executed,
  p_lines,
  s_card, s_hardware, s_xemu, s_flash, s_file, s_shown, s_running, s_bytes,
  s_flashed, s_commands,
  m_document, m_pass, m_at, m_text, m_link, m_g, m_phase, m_file, m_first,
  i_pictures, i_pass, i_at, i_x, i_y, i_colours, i_colour_counts,
  i_target_colours, i_left, i_tiles, i_screens, i_phase,
  v_screen, v_mapedpal, v_at, v_palette, v_altpalette, v_ascii, v_picture,
  v_cx, v_cy, v_x_position, v_y_position, v_transparent_background

e_vars ==
  <<e_opts, e_at, e_cpu_stopped, e_running, e_hypervisor, e_rom_protected,
  e_contents, e_saw, e_saved>>
t_vars ==
  <<t_type_text, t_i, t_c1, t_type_serial_mode, t_todo, t_keys, t_scanned,
  t_down, t_received, t_uart>>
u_vars ==
  <<u_sent, u_line, u_recent_bytes, u_recent_bytes_fill, u_receiveString,
  u_msgbuf, u_testname, u_testlog, u_last, u_log, u_failcount, u_exit>>
y_vars ==
  <<y_toLoad, y_lstFileLoc, y_lstSymMap, y_lstModuleOffsets, y_segmentOffsets,
  y_lstWatches, y_asked, y_made>>
g_vars ==
  <<g_mem, g_file, g_cmd, g_cnt, g_scan, g_told, g_ctrlcflag, g_pc, g_stopped,
  g_saved, g_calls, g_traceframe, g_zflag, g_zpos, g_zval, g_before,
  g_commands>>
a_vars ==
  <<a_line, a_code>>
c_vars ==
  <<c_tabSelected, c_pgeSelected, c_selectedOpt, c_saveSlctOpt, c_progTermint,
  c_cursor, c_opts, c_shown, c_spoilt, c_optDflt, c_optSess, c_card, c_applied, c_changes>>
k_vars ==
  <<k_target, k_bitstream, k_argv, k_at, k_i, k_core_file, k_core_len,
  k_last_file_offset, k_banner_present, k_header>>
n_vars ==
  <<n_dir, n_card, n_pc, n_cmd, n_files, n_commands, n_crashes>>
b_vars ==
  <<b_tree, b_fat, b_current_dir, b_here, b_shown, b_get, b_changes>>
r_vars ==
  <<r_ref, r_new, r_behind, r_i, r_costs, r_next_pos, r_tokens, r_at, r_ofs,
  r_diff, r_out>>
f_vars ==
  <<f_track, f_gaps, f_d, f_previous_partial_gap, f_recent_gaps, f_last_gap,
  f_reports>>
p_vars ==
  <<p_argv, p_modes, p_force, p_queue, p_at, p_machine, p_lost, p_executed,
  p_lines>>
s_vars ==
  <<s_card, s_hardware, s_xemu, s_flash, s_file, s_shown, s_running, s_bytes,
  s_flashed, s_commands>>
m_vars ==
  <<m_document, m_pass, m_at, m_text, m_link, m_g, m_phase, m_file, m_first>>
i_vars ==
  <<i_pictures, i_pass, i_at, i_x, i_y, i_colours, i_colour_counts,
  i_target_colours, i_left, i_tiles, i_screens, i_phase>>
v_vars ==
  <<v_screen, v_mapedpal, v_at, v_palette, v_altpalette, v_ascii, v_picture,
  v_cx, v_cy, v_x_position, v_y_position, v_transparent_background>>
vars == <<subject, e_vars, t_vars, u_vars, y_vars, g_vars, a_vars, c_vars, k_vars, n_vars, b_vars, r_vars, f_vars, p_vars, s_vars, m_vars, i_vars, v_vars>>

\* Sessions of up to three options, without the two that put the tool out of step
\* with the CPU.
AllOptions ==
  {"zap", "memsave", "hyppo", "rom", "charrom", "colourram", "flashmenu", "vf011",
   "reset", "no_cart", "break", "video", "binary", "go64", "osk", "screenshot",
   "program", "sid", "halt", "unit", "run", "type", "mixer", "jtag_only",
   "bitstream_only"}
InStep(o) == "binary" \notin o /\ ("charrom" \in o => {"rom", "hyppo", "vf011"} \cap o # {})
Sessions ==
  {o \in {{ }} \cup {{a, b, c} : a \in AllOptions, b \in AllOptions, c \in AllOptions} : InStep(o)}

\* Two long names that shorten to the same one, a small letter that needs a long
\* name and no number, and a short name; patterns that end in a wildcard, or with
\* which no name of the first set goes on behind what they match.
Capitals == [a |-> "A", b |-> "B", c |-> "C", d |-> "D", x |-> "X"]
PlainNames ==
  {<<"a", "b", "c", "d">>, <<"a", "b", "c", "x">>, <<"X", ".", "B">>, <<"x">>}
Patterns == {<<"*">>, <<"a", "*">>, <<"*", ".", "b">>}
NamesWithTails == {<<"X", ".", "B">>, <<"X", ".", "B", ".", "A">>}

\* The options of mega65_ftp and the lines of -c.  No name begins with slot or
\* flash: get would take it for the end of getslot.
FtpArguments ==
  {<<"F", "e", "l">>, <<"l">>, <<"F">>, <<"e">>, <<"e", "i">>, <<"d">>, <<"d", "i">>,
   <<"x">>, << >>}
FtpQueues ==
  {<< >>, <<<<"help">>, <<"exit">>>>,
   <<<<"get", " ", "a">>, <<"put", " ", "a">>>>}
\* A card of six sectors, the third of them of the FAT; pokes that stay in a sector
\* and that go on in the next; boards with slots of 4 and 8 MB and one that is not
\* flashed; and cores for them, one that does not say, and a bitstream.
SmallCard == [s \in 1 .. 6 |-> [o \in 0 .. 1 |-> 10 * s + o]]
PokeCommands ==
  {[sector |-> 1, offset |-> 1, values |-> <<1>>],
   [sector |-> 2, offset |-> 1, values |-> <<1, 2, 3>>],
   [sector |-> 4, offset |-> 0, values |-> <<5, 6>>]}
Board(id, size, count) == [model_id |-> id, slot_size |-> size, slot_count |-> count]
BoardModels == {Board(1, 4, 4), Board(3, 8, 2), Board(4, 0 - 1, 8)}
CoreToFlash(name, extension, id, size) ==
  [name |-> name, extension |-> extension, model_id |-> id, size |-> size]
CoresToFlash ==
  {CoreToFlash("r3", ".cor", 3, 3), CoreToFlash("any", ".cor", 0, 2),
   CoreToFlash("r1", ".cor", 1, 2), CoreToFlash("bit", ".bit", 3, 3)}
PartitionTables == {<<1, 2, 0, 0>>, <<0, 0, 0, 0>>, <<1, 2, 3, 4>>}

\* A page with a heading, bold words, links that are broken and that are met twice,
\* and a picture; in the font of the machine and in one that is loaded.  Texts end
\* with a blank line, no line mixes fonts, no link is in bold or stands behind a
\* word without a gap, and a picture follows a blank line.
LookOf(c, a, f) == [colour |-> c, attributes |-> a, font |-> f]
Spelled(word, length, look) ==
  [i \in 1 .. length |-> [is |-> "char", c |-> word + i, word |-> word, look |-> look]]
Gap == <<[is |-> "space"]>>
TwoStars == <<[is |-> "stars", n |-> 2]>>
LinkTo(url, words) == <<[is |-> "link", alt |-> words, url |-> url]>>
Prose(words) == [is |-> "text", text |-> words \o Gap]
LoadFont(f) ==
  [is |-> "font", font |-> f, face |-> [width |-> 2, space |-> 3, above |-> 2, under |-> 1]]
PageOf(faced, n, k, l, rich) ==
  LET plain == LookOf(14, 0, "p")
      bold == LookOf(14, IF faced THEN 0 ELSE 32, "bold")
      linked == LookOf(4, 128, "p")
      picture == [is |-> "picture", width |-> 2, height |-> 1, url |-> "u", rich |-> rich]
  IN (IF faced THEN <<LoadFont("p"), LoadFont("bold"), LoadFont("h1")>> ELSE << >>)
       \o <<[is |-> "heading", level |-> "h1", text |-> Spelled(10, k, LookOf(1, 128, "h1")) \o Gap],
            Prose(Spelled(20, n, plain) \o Gap \o TwoStars \o Spelled(30, k, bold) \o TwoStars
                  \o Gap \o LinkTo("u", Spelled(40, 2, linked) \o Gap \o Spelled(50, l, linked))),
            Prose(Spelled(60, 1, plain) \o Gap \o LinkTo("v", Spelled(70, k, linked))),
            [is |-> "blank"], Prose(<<picture>>), Prose(Spelled(80, 2, plain)), [is |-> "blank"]>>
PagesOfText ==
  {PageOf(FALSE, n, k, l, r) : n \in {1, 4, 6, 7}, k \in {1, 3}, l \in {2, 5}, r \in BOOLEAN}
    \cup {PageOf(TRUE, n, k, 2, r) : n \in {1, 4}, k \in {1, 3}, r \in BOOLEAN}

\* Pictures of up to six colours, four of them not the machine's, that share tiles
\* or do not; clear pixels, and no clear tile behind the first of a row.
PictureOf(w, h, cs) ==
  [width |-> w, height |-> h,
   at |-> [p \in (0 .. w - 1) \X (0 .. h - 1) |-> cs[1 + p[1] + w * p[2]]]]
NoColour == 0 - 1
ColoursOf(ps) == {0, 9} \cup UNION {Range(ps[i].at) : i \in DOMAIN ps}
PagesOfPictures ==
  {ps \in {<<PictureOf(3, 2, <<a, 7, b, b, 0, 9>>), PictureOf(2, 2, <<7, d, c, a>>)>> :
             a \in {NoColour, 4, 5}, b \in {4, 9, 12}, c \in {0, 30}, d \in {5, 20}} :
     Cardinality(ColoursOf(ps) \ {NoColour}) <= 6}
    \cup {<<PictureOf(2, 3, <<NoColour, NoColour, NoColour, NoColour, 12, 9>>)>>}

\* A card with a directory in a directory, made by another system (the first has
\* no cluster for its parent), a file of two clusters, an empty one, a hidden one
\* and one whose chain is cut short.  No path ends in a slash, none from the root
\* has .. in it, and the empty file is never deleted.
BrowsedNames ==
  ("a" :> "A") @@ ("b" :> "B") @@ ("f" :> "F") @@ ("g" :> "G") @@ ("h" :> "H")
    @@ ("long" :> "LONG")
    @@ [n \in {"", ".", "..", "*", "A", "B", "E", "F", "G", "H", "LONG", "S"} |-> n]
NameOrder ==
  LET order == <<"", "*", ".", "..", "A", "B", "E", "F", "G", "H", "LONG", "S">>
  IN [n \in {order[i] : i \in DOMAIN order} |-> CHOOSE i \in DOMAIN order : order[i] = n]
DirEntry(name, long, is, cluster, len) ==
  [d_name |-> name, d_longname |-> long, dir |-> is = "dir", hidden |-> is = "hidden",
   d_ino |-> cluster, len |-> len]
BrowsedCard ==
  [tree |-> (0 :> << >>)
       @@ (2 :> <<DirEntry("G", "g", "file", 5, 3), DirEntry("S", "", "hidden", 7, 1),
                  DirEntry("A", "", "dir", 3, 0), DirEntry("E", "", "file", 0, 0),
                  DirEntry("H", "", "file", 8, 3)>>)
       @@ (3 :> <<DirEntry(".", "", "dir", 3, 0), DirEntry("..", "", "dir", 0, 0),
                  DirEntry("LONG", "long", "file", 7, 2), DirEntry("B", "", "dir", 4, 0)>>)
       @@ (4 :> <<DirEntry(".", "", "dir", 4, 0), DirEntry("..", "", "dir", 3, 0)>>),
   fat |-> [c \in 0 .. 10 |-> IF c \in 0 .. 4 \cup {6, 7} THEN 999
                             ELSE IF c = 5 THEN 6 ELSE 0]]
CdPaths ==
  {<<"a">>, <<"b">>, <<"f">>, <<"..">>, <<".">>, <<"a", "/", "b">>, <<"..", "/", "a">>,
   <<"/", "A", "/", "b">>, <<"/">>}
DirPaths == {<< >>, <<"*">>, <<"/", "a">>, <<"..">>, <<"/">>}

\* Screens with characters over others, clear or not, in all kinds of dots, with
\* the window on palettes anywhere; a picture that is cut at the right and below.
ShapeOf(a, b, c, d) == (0 :> (0 :> a @@ 1 :> b) @@ 1 :> (0 :> c @@ 1 :> d))
GlyphShapes ==
  (1 :> ShapeOf(255, 0, 0, 255)) @@ (33 :> ShapeOf(0, 0, 255, 255))
    @@ (300 :> ShapeOf(240, 33, 5, 0))
BitmapShapes ==
  [p \in (0 .. 3) \X (0 .. 1) |-> IF p[1] = p[2] THEN ShapeOf(255, 255, 0, 255)
                                                 ELSE ShapeOf(0, 255, 255, 0)]
CellOf(id, colour, flags, deduct, to) ==
  [id |-> id, colour |-> colour, flags |-> flags, deduct |-> deduct, to |-> to]
ShownCells ==
  {CellOf(1, 1, {}, 0, 0), CellOf(33, 74, {}, 0, 0), CellOf(1, 97, {"flip_horizontal"}, 0, 0),
   CellOf(1, 163, {}, 0, 0), CellOf(300, 5, {"4bit"}, 1, 0),
   CellOf(300, 6, {"4bit", "alpha"}, 0, 0), CellOf(300, 2, {"flip_vertical"}, 0, 0),
   CellOf(300, 9, {"alpha"}, 1, 0)}
GotoCells ==
  {CellOf(0, 0, {"goto"}, 0, 1), CellOf(0, 0, {"goto", "flip_vertical"}, 0, 1),
   CellOf(0, 0, {"goto", "flip_vertical"}, 0, 5)}
ScreenOf(mapped, bt, alt, modes, y_scale, rep, rows) ==
  [mapped |-> mapped, bt |-> bt, alt |-> alt, chargen_x |-> 1, chargen_y |-> 1,
   left |-> 1, right |-> 8, top |-> 1, bottom |-> 9, y_scale |-> y_scale, rep |-> rep,
   full_low |-> "full_low" \in modes, full_high |-> TRUE,
   viciii_attribs |-> "attributes" \in modes, multicolour |-> "multicolour" \in modes,
   bitmap |-> "bitmap" \in modes, ecm |-> FALSE, upper_case |-> TRUE,
   background |-> 6, border |-> 14, multi1 |-> 7, multi2 |-> 8, rows |-> rows]
RowsShown == {<< <<a, g, b>>, <<b, a>> >> : a \in ShownCells, g \in GotoCells, b \in ShownCells}
TwoByteCells == {r \in RowsShown : r[1][1].id < 256 /\ r[1][3].id < 256}
ShownScreens ==
  {ScreenOf(0, 0, 1, {"attributes"}, 0, 1, r) : r \in RowsShown}
    \cup {ScreenOf(2, 0, 3, {"attributes"}, 1, 2, r) : r \in RowsShown}
    \cup {ScreenOf(1, 0, 1, {"multicolour"}, 0, 2, r) : r \in RowsShown}
    \cup {ScreenOf(2, 2, 2, {"bitmap", "multicolour"}, 0, 1, r) : r \in TwoByteCells}
    \cup {ScreenOf(3, 1, 1, {"bitmap", "attributes"}, 1, 1, r) : r \in TwoByteCells}

\* ROMs in which runs, repeated pieces and single bytes differ.
OldRoms == {[k \in 0 .. 5 |-> IF k \in ones THEN 1 ELSE 0] : ones \in {{ }, {0, 2, 3}, {1, 4}}}

\* A track in MFM with a bad sector, and one whose track info block says RLL;
\* the fields have the bytes of a mark and of codes of all lengths.
Field(encoding, bytes, good) == [encoding |-> encoding, bytes |-> bytes, good |-> good]
TrackInfo(encoding) == Field("MFM", <<101, 39, 82, encoding, 0>>, TRUE)
Tracks ==
  {<<TrackInfo(0), Field("MFM", <<254, 1, 0, 255, 2>>, TRUE),
     Field("MFM", <<251, 0, 161, 78>>, FALSE), Field("MFM", <<254, 0, 0, 0, 0>>, TRUE)>>,
   <<TrackInfo(1), Field("RLL", <<254, 1, 0, 255, 2>>, TRUE),
     Field("RLL", <<251, 0, 161, 51>>, TRUE), Field("RLL", <<254, 0, 0, 0, 0>>, TRUE)>>}

\* Texts with every kind of token, from the command line, the terminal and
\* lines of input.
Char(c) == [is |-> "char", c |-> c]
FromOption == {Char("a"), Char("b"), Char("!"), [is |-> "control", c |-> "HOME"]}
FromTerminal ==
  {Char("a"), Char("!"), [is |-> "control", c |-> "HOME"], [is |-> "tilde"]}
InLines == {Char("b"), [is |-> "tilde"], [is |-> "eol"], [is |-> "dot"]}
UpTo(n, tokens) == UNION {[1 .. k -> tokens] : k \in 0 .. n}
TypedTexts ==
  {[from |-> "option", tokens |-> t, cr |-> r] : t \in UpTo(2, FromOption), r \in BOOLEAN}
    \cup {[from |-> "terminal", tokens |-> t, cr |-> FALSE] : t \in UpTo(3, FromTerminal)}
    \cup {[from |-> "lines", tokens |-> t, cr |-> FALSE] : t \in UpTo(3, InLines)}

\* A program of two modules whose segments lie between one another, and others
\* that put lines at some of the same addresses.
Segment(n, o) == [name |-> n, offset |-> o]
Module(n, s) == [name |-> n, segments |-> s]
Symbol(n, a) == [symbol |-> n, addr |-> a]
Line(is, name) == [is |-> is, name |-> name]
At(a) == [is |-> "code", addr |-> a]
CodeOf(f, l, a) == [is |-> "code", addr |-> a, file |-> f, lineno |-> l]
Absolute(kind, list) == [kind |-> kind, symbols |-> << >>, list |-> list]
Listings ==
  [main |-> [kind |-> "ca65", modules |-> <<Module("a", <<Segment("CODE", 0), Segment("DATA", 0)>>),
                           Module("b", <<Segment("CODE", 4), Segment("DATA", 2)>>)>>,
             segments |-> <<Segment("CODE", 10), Segment("DATA", 30)>>,
             symbols |-> <<Symbol("x", 12), Symbol("y", 10), Symbol("z", 12)>>,
             list |-> <<Line("file", "a"), Line("segment", "CODE"), At(0), At(2),
                        Line("segment", "DATA"), At(0),
                        Line("file", "b"), Line("segment", "DATA"), At(0),
                        Line("segment", "CODE"), At(0), At(3)>>],
   tool |-> [kind |-> "ca65", modules |-> <<Module("c", <<Segment("CODE", 2)>>)>>,
             segments |-> <<Segment("CODE", 8)>>,
             symbols |-> <<Symbol("w", 12)>>,
             list |-> <<Line("file", "c"), Line("segment", "CODE"), At(0),
                        [is |-> "other"], At(2)>>],
   old |-> Absolute("ophis", <<CodeOf("k", 3, 12), CodeOf("k", 4, 20)>>),
   rom |-> Absolute("bsa", <<At(40), [is |-> "symbol", addr |-> 10, name |-> "v"], At(41)>>),
   game |-> Absolute("acme", <<Line("file", "m"), CodeOf("", 7, 20), [is |-> "other"],
                            Line("file", "n"), CodeOf("", 2, 41)>>)]

\* Memory in which a pattern begins again in itself, crosses the ends of lines and
\* of answers, and overlaps; copies both ways over themselves.
DebuggedMemory ==
  LET bytes == <<1, 2, 3, 1, 2, 3, 1, 1, 2, 3, 3, 0, 2, 2, 1, 2, 1, 2, 3, 0, 0, 1>>
  IN [a \in 0 .. 23 |-> IF a + 1 \in DOMAIN bytes THEN bytes[a + 1] ELSE 0]
MemoryCommands ==
  [is : {"save"}, addr : {1}, count : {1, 6}] \cup [is : {"load"}, addr : {0, 3}]
    \cup [is : {"mcopy"}, src : {2, 6}, dest : {0, 3, 9}, count : {2, 5}]
    \cup [is : {"search"}, addr : {0, 1}, count : {4, 11},
          bytes : {<<1, 2>>, <<2, 3, 1>>, <<3, 0>>, <<1>>}]
    \cup [is : {"dump"}, addr : {3}, count : {3}] \cup [is : {"string"}, addr : {0, 6, 8}]
    \cup [is : {"watches"}, list : {<<[addr |-> 1, size |-> 1], [addr |-> 8, size |-> 2],
                                     [addr |-> 0, size |-> 4]>>}]
    \cup [is : {"dis"}, addr : {-1, 4}, count : {1, 3}]
    \cup [is : {"back", "up", "down", "step"}] \cup [is : {"=", "-"}, count : {1}]
    \cup [is : {"one-shot"}, code : {<<2>>, <<3, 1>>}, at : {-1, 0, 21}, stores : {3}]

\* One mnemonic for each set of addressing modes that need telling apart.
Mnemonics ==
  [LDA |-> {"immnn", "nn", "nnnn", "InnX", "InnY", "InnZ", "nnX", "nnnnX", "nnnnY", "InnSPY"},
   JSR |-> {"nnnn", "Innnn", "InnnnX"}, BCC |-> {"rr", "rrrr"}, BSR |-> {"rrrr"},
   BBR |-> {"nnrr"}, PHW |-> {"immnnnn", "nnnn"}, ASL |-> {"A", "nn"},
   STX |-> {"nn", "nnY", "nnnnY"}, CLC |-> {"impl"}]

\* Two pages under the first tab, one under the others; an option of each kind.
ConfigOption ==
  [crt  |-> [kind |-> "toggle", cells |-> <<2, 3>>],
   dma  |-> [kind |-> "toggle", cells |-> <<4>>],
   disk |-> [kind |-> "text", cells |-> <<5, 6>>],
   mac  |-> [kind |-> "MAC", cells |-> <<7, 8>>]]
ConfigPages ==
  [tab \in 0 .. 4 |-> IF tab = 0 THEN << <<"disk", "dma">>, <<"crt">> >>
                      ELSE IF tab = 4 THEN << <<"mac", "dma">> >> ELSE << <<"crt">> >>]

\* A card without settings (no magic bytes), with some, and with those of
\* another version; no option stands for cell 9.
Block(version, d) ==
  [c \in 0 .. 9 |-> IF c \in {0, 1} THEN version
                    ELSE IF c = 9 THEN 1 ELSE IF c \in {2, 5} THEN d ELSE 0]

\* Slots of two sizes, bitstreams of both parts that fit and do not, and up to
\* three files: empty, small, as large as the buffer, and a banner.
CoreTargets ==
  ("r3" :> [max_core_size |-> 20, part |-> "200t", model_id |-> 3])
    @@ ("r2" :> [max_core_size |-> 10, part |-> "100t", model_id |-> 2])
Bitstream(part, size, core) == [part |-> part, size |-> size, core |-> core]
Bitstreams ==
  {Bitstream("200t", 4, "MEGA65"), Bitstream("200t", 9, "C64"),
   Bitstream("200t", 18, "MEGA65"), Bitstream("100t", 3, "MEGA65")}
FileArg(name, len) == [is |-> "file", f |-> [name |-> name, len |-> len]]
FileArgs == {FileArg("A", 0), FileArg("B", 2), FileArg("B", 5), FileArg("BANNER.M65", 3)}
FileLists == UNION {[1 .. n -> FileArgs] : n \in 0 .. 3}
CapsArg == [is |-> "caps", caps |-> {"default"}, flags |-> {}]
InstallArg == [is |-> "install", flags |-> {"auto"}]
CommandLines ==
  FileLists \cup {<<CapsArg>> \o f : f \in FileLists}
    \cup {<<CapsArg, InstallArg>> \o f : f \in FileLists}

Session == INSTANCE M65Session WITH
  Options <- Sessions, Modes <- {"c64", "c65", "openrom"},
  Ranges <- {<< >>, <<5, 2>>, <<2, 6>>, <<4, 4>>},
  BasicAreas <- {<<2, 4>>, <<2, 7>>}, BasicStart <- 3, Piece <- 2,
  opts <- e_opts, at <- e_at, cpu_stopped <- e_cpu_stopped,
  running <- e_running, hypervisor <- e_hypervisor,
  rom_protected <- e_rom_protected, contents <- e_contents, saw <- e_saw,
  saved <- e_saved
ASSUME Session!M65SessionAssumption

Typing == INSTANCE TypeText WITH
  Plain <- {"a", "b"}, Shifted <- {"!"}, Upper <- {"A"},
  Controls <- {"HOME", "RETURN"}, Texts <- TypedTexts,
  type_text <- t_type_text, i <- t_i, c1 <- t_c1,
  type_serial_mode <- t_type_serial_mode, todo <- t_todo, keys <- t_keys,
  scanned <- t_scanned, down <- t_down, received <- t_received, uart <- t_uart
ASSUME Typing!TypeTextAssumption

UnitTest == INSTANCE UnitTestLog WITH
  Base <- 4, EndOfText <- 3, TokenBytes <- {1}, Texts <- {<<17, 18>>, <<5>>},
  Names <- {<<6>>}, Junk <- {<< >>, <<1>>, <<1, 2, 1>>, <<1, 2, 1, 2, 2>>, <<1, 1, 1, 1, 1>>},
  Requests <- {2, 3}, BufferSize <- 3, MaxMessages <- 3, sent <- u_sent, line <- u_line,
  recent_bytes <- u_recent_bytes, recent_bytes_fill <- u_recent_bytes_fill,
  receiveString <- u_receiveString, msgbuf <- u_msgbuf,
  testname <- u_testname, testlog <- u_testlog, last <- u_last, log <- u_log,
  failcount <- u_failcount, exit <- u_exit
ASSUME UnitTest!UnitTestAssumption

Symbols == INSTANCE SymbolMap WITH
  Files <- Listings, NewNames <- {"p", "y"}, Addresses <- {9, 10, 12},
  Fresh <- TRUE, MaxWatches <- 3, toLoad <- y_toLoad,
  lstFileLoc <- y_lstFileLoc, lstSymMap <- y_lstSymMap,
  lstModuleOffsets <- y_lstModuleOffsets, segmentOffsets <- y_segmentOffsets,
  lstWatches <- y_lstWatches, asked <- y_asked, made <- y_made
ASSUME Symbols!SymbolAssumption

Memory == INSTANCE DebugMemory WITH
  MemSize <- 24, Memories <- {DebuggedMemory}, LineSize <- 4, Lines <- 1,
  Commands <- MemoryCommands, Length <- (<<1, 2, 3>> @@ (0 :> 1)),
  Calls <- {<< >>, <<1, 5>>}, History <- <<0, 3, 6>>, TextLimit <- 5,
  TmpPc <- 18, MapBase <- 0, MaxCommands <- 2, mem <- g_mem, file <- g_file,
  cmd <- g_cmd, cnt <- g_cnt, scan <- g_scan, told <- g_told,
  ctrlcflag <- g_ctrlcflag, pc <- g_pc, stopped <- g_stopped,
  saved <- g_saved, calls <- g_calls, traceframe <- g_traceframe,
  zflag <- g_zflag, zpos <- g_zpos, zval <- g_zval, before <- g_before,
  commands <- g_commands
ASSUME Memory!MemoryAssumption

Asm == INSTANCE Assembler WITH
  Byte <- 8, Modes <- Mnemonics, Places <- {0, 20, 60}, line <- a_line,
  code <- a_code
ASSUME Asm!ByteAssumption

Config == INSTANCE ConfigUtility WITH
  Pages <- ConfigPages, Option <- ConfigOption, Cells <- 0 .. 9,
  Running <- (2 :> 1 @@ 3 :> 0),
  Cards <- {Block(0, 0), Block(1, 1), Block(2, 1)}, Chars <- {1}, Digits <- {1, 10},
  MaxChanges <- MaxChanges, tabSelected <- c_tabSelected,
  pgeSelected <- c_pgeSelected, selectedOpt <- c_selectedOpt,
  saveSlctOpt <- c_saveSlctOpt, progTermint <- c_progTermint,
  cursor <- c_cursor, opts <- c_opts, shown <- c_shown, spoilt <- c_spoilt, optDflt <- c_optDflt,
  optSess <- c_optSess, card <- c_card, applied <- c_applied,
  changes <- c_changes
ASSUME Config!ConfigAssumption

Core == INSTANCE CoreFile WITH
  Targets <- CoreTargets, HeaderSize <- 2, BannerSize <- 4, MaxFile <- 5,
  Bitstreams <- Bitstreams, CommandLines <- CommandLines, target <- k_target,
  bitstream <- k_bitstream, argv <- k_argv, at <- k_at, i <- k_i,
  core_file <- k_core_file, core_len <- k_core_len,
  last_file_offset <- k_last_file_offset, banner_present <- k_banner_present,
  header <- k_header
ASSUME Core!CoreFileAssumption

Dir == INSTANCE LongNames WITH
  BaseLength <- 3, ExtLength <- 1, ChunkLength <- 2, SlotsPerSector <- 2,
  SlotsPerCluster <- 4, Upper <- Capitals, Names <- TypedNames,
  Patterns <- Patterns, Again <- FALSE, MaxCommands <- 3, MaxCrashes <- 1,
  dir <- n_dir, card <- n_card, pc <- n_pc, cmd <- n_cmd, files <- n_files,
  commands <- n_commands, crashes <- n_crashes
ASSUME Dir!LongNamesAssumption

Browsing == INSTANCE Browse WITH
  Cards <- {BrowsedCard}, Upper <- BrowsedNames, Rank <- NameOrder,
  sectors_per_cluster <- 2, CdPaths <- CdPaths, DirPaths <- DirPaths,
  NewNames <- {"f", "b"}, DelNames <- {"g", "B", "long", "f"},
  GetNames <- {"g", "*", "E", "h"}, Roms <- {"G", "F", "H"}, MaxChanges <- 2,
  tree <- b_tree, fat <- b_fat, current_dir <- b_current_dir, here <- b_here,
  shown <- b_shown, get <- b_get, changes <- b_changes
ASSUME Browsing!BrowseAssumption

Diff == INSTANCE RomDiff WITH
  FILE_SIZE <- 6, Digit <- 2, MaxExact <- 2, MaxApprox <- 6, Bits <- 4,
  OldRoms <- OldRoms, NewRoms <- [0 .. 5 -> {0, 1}], ref <- r_ref,
  new <- r_new, behind <- r_behind, i <- r_i, costs <- r_costs,
  next_pos <- r_next_pos, tokens <- r_tokens, at <- r_at, ofs <- r_ofs,
  diff <- r_diff, out <- r_out
ASSUME Diff!RomDiffAssumption

Floppy == INSTANCE MfmDecode WITH
  Tracks <- Tracks, DataSize <- 3, FieldSize <- 16, MfmShifts <- {-24, 24},
  RllShifts <- {-49, 49}, Short <- 60, track <- f_track, gaps <- f_gaps,
  d <- f_d, previous_partial_gap <- f_previous_partial_gap,
  recent_gaps <- f_recent_gaps, last_gap <- f_last_gap, reports <- f_reports
ASSUME Floppy!MfmAssumption

Ftp == INSTANCE FtpSession WITH
  ArgumentLists <- FtpArguments, Queues <- FtpQueues,
  Names <- {<<"a">>, <<"quote", "a", " ", "b", "quote">>},
  Digits <- {"0", "1"}, HelperBlocks <- 2, MayTimeOut <- FALSE, MaxTyped <- 1,
  argv <- p_argv, modes <- p_modes, force <- p_force, queue <- p_queue,
  at <- p_at, machine <- p_machine, lost <- p_lost, executed <- p_executed,
  lines <- p_lines
ASSUME Ftp!FtpSessionAssumption

Tools == INSTANCE FtpTools WITH
  SectorSize <- 2, Card <- SmallCard, Pokes <- PokeCommands, FatSector <- 2,
  FreezeStart <- 3, SlotSize <- 2, SlotCount <- 2, models <- BoardModels,
  MB <- 1, FlashCells <- 16, FlashSlotSize <- 8, Cores <- CoresToFlash,
  FlashSlots <- {0, 1, 3, 4}, Partitions <- PartitionTables, MaxCommands <- 2,
  card <- s_card, hardware <- s_hardware, xemu <- s_xemu, flash <- s_flash,
  file <- s_file, shown <- s_shown, running <- s_running, bytes <- s_bytes,
  flashed <- s_flashed, commands <- s_commands
ASSUME Tools!FtpToolsAssumption

Page == INSTANCE PageLayout WITH
  MAX_LINE_LENGTH <- 6, ScreenSize <- 144, MAX_LINE_HEIGHT <- 2,
  MAX_LINE_DEPTH <- 1, DisplayWidth <- 12, CardWidth <- 4, Narrow <- 2,
  MAX_URLS <- 2, MAX_LINKS <- 4, UrlArea <- 40, BoxSize <- 6,
  UrlLength <- ("u" :> 2 @@ "v" :> 3), Documents <- PagesOfText,
  document <- m_document, pass <- m_pass, at <- m_at, text <- m_text,
  link <- m_link, g <- m_g, phase <- m_phase, file <- m_file, first <- m_first
ASSUME Page!PageAssumption

Pictures == INSTANCE PageTiles WITH
  TileSize <- 2, max_tiles <- 20, C64Colours <- <<0, 9>>, Many <- 5,
  Kept <- 3, ByteSize <- 6, Pictures <- PagesOfPictures,
  pictures <- i_pictures, pass <- i_pass, at <- i_at, x <- i_x, y <- i_y,
  colours <- i_colours, colour_counts <- i_colour_counts,
  target_colours <- i_target_colours, left <- i_left, tiles <- i_tiles,
  screens <- i_screens, phase <- i_phase
ASSUME Pictures!TilesAssumption

Screen == INSTANCE ScreenShot WITH
  GlyphSize <- 2, Width <- 9, Height <- 6, Glyphs <- GlyphShapes,
  Bitmap <- BitmapShapes, Printable <- {97}, Screens <- ShownScreens,
  screen <- v_screen, mapedpal <- v_mapedpal, at <- v_at,
  palette <- v_palette, altpalette <- v_altpalette, ascii <- v_ascii,
  picture <- v_picture, cx <- v_cx, cy <- v_cy, x_position <- v_x_position,
  y_position <- v_y_position,
  transparent_background <- v_transparent_background
ASSUME Screen!ScreenAssumption

Off == "off"
SessionOff ==
  /\ e_opts = Off /\ e_at = Off /\ e_cpu_stopped = Off /\ e_running = Off
  /\ e_hypervisor = Off /\ e_rom_protected = Off /\ e_contents = Off
  /\ e_saw = Off /\ e_saved = Off
TypingOff ==
  /\ t_type_text = Off /\ t_i = Off /\ t_c1 = Off /\ t_type_serial_mode = Off
  /\ t_todo = Off /\ t_keys = Off /\ t_scanned = Off /\ t_down = Off
  /\ t_received = Off /\ t_uart = Off
UnitTestOff ==
  /\ u_sent = Off /\ u_line = Off /\ u_recent_bytes = Off
  /\ u_recent_bytes_fill = Off /\ u_receiveString = Off /\ u_msgbuf = Off
  /\ u_testname = Off /\ u_testlog = Off /\ u_last = Off /\ u_log = Off
  /\ u_failcount = Off /\ u_exit = Off
SymbolsOff ==
  /\ y_toLoad = Off /\ y_lstFileLoc = Off /\ y_lstSymMap = Off
  /\ y_lstModuleOffsets = Off /\ y_segmentOffsets = Off /\ y_lstWatches = Off
  /\ y_asked = Off /\ y_made = Off
MemoryOff ==
  /\ g_mem = Off /\ g_file = Off /\ g_cmd = Off /\ g_cnt = Off /\ g_scan = Off
  /\ g_told = Off /\ g_ctrlcflag = Off /\ g_pc = Off /\ g_stopped = Off
  /\ g_saved = Off /\ g_calls = Off /\ g_traceframe = Off /\ g_zflag = Off
  /\ g_zpos = Off /\ g_zval = Off /\ g_before = Off /\ g_commands = Off
AsmOff ==
  /\ a_line = Off /\ a_code = Off
ConfigOff ==
  /\ c_tabSelected = Off /\ c_pgeSelected = Off /\ c_selectedOpt = Off
  /\ c_saveSlctOpt = Off /\ c_progTermint = Off /\ c_cursor = Off
  /\ c_opts = Off /\ c_shown = Off /\ c_spoilt = Off /\ c_optDflt = Off /\ c_optSess = Off /\ c_card = Off
  /\ c_applied = Off /\ c_changes = Off
CoreOff ==
  /\ k_target = Off /\ k_bitstream = Off /\ k_argv = Off /\ k_at = Off
  /\ k_i = Off /\ k_core_file = Off /\ k_core_len = Off
  /\ k_last_file_offset = Off /\ k_banner_present = Off /\ k_header = Off
DirOff ==
  /\ n_dir = Off /\ n_card = Off /\ n_pc = Off /\ n_cmd = Off /\ n_files = Off
  /\ n_commands = Off /\ n_crashes = Off
BrowsingOff ==
  /\ b_tree = Off /\ b_fat = Off /\ b_current_dir = Off /\ b_here = Off
  /\ b_shown = Off /\ b_get = Off /\ b_changes = Off
DiffOff ==
  /\ r_ref = Off /\ r_new = Off /\ r_behind = Off /\ r_i = Off
  /\ r_costs = Off /\ r_next_pos = Off /\ r_tokens = Off /\ r_at = Off
  /\ r_ofs = Off /\ r_diff = Off /\ r_out = Off
FloppyOff ==
  /\ f_track = Off /\ f_gaps = Off /\ f_d = Off
  /\ f_previous_partial_gap = Off /\ f_recent_gaps = Off /\ f_last_gap = Off
  /\ f_reports = Off
FtpOff ==
  /\ p_argv = Off /\ p_modes = Off /\ p_force = Off /\ p_queue = Off
  /\ p_at = Off /\ p_machine = Off /\ p_lost = Off /\ p_executed = Off
  /\ p_lines = Off
ToolsOff ==
  /\ s_card = Off /\ s_hardware = Off /\ s_xemu = Off /\ s_flash = Off
  /\ s_file = Off /\ s_shown = Off /\ s_running = Off /\ s_bytes = Off
  /\ s_flashed = Off /\ s_commands = Off
PageOff ==
  /\ m_document = Off /\ m_pass = Off /\ m_at = Off /\ m_text = Off
  /\ m_link = Off /\ m_g = Off /\ m_phase = Off /\ m_file = Off
  /\ m_first = Off
PicturesOff ==
  /\ i_pictures = Off /\ i_pass = Off /\ i_at = Off /\ i_x = Off /\ i_y = Off
  /\ i_colours = Off /\ i_colour_counts = Off /\ i_target_colours = Off
  /\ i_left = Off /\ i_tiles = Off /\ i_screens = Off /\ i_phase = Off
ScreenOff ==
  /\ v_screen = Off /\ v_mapedpal = Off /\ v_at = Off /\ v_palette = Off
  /\ v_altpalette = Off /\ v_ascii = Off /\ v_picture = Off /\ v_cx = Off
  /\ v_cy = Off /\ v_x_position = Off /\ v_y_position = Off
  /\ v_transparent_background = Off

Init ==
  \/ /\ subject = "session" /\ Session!Init
     /\ TypingOff /\ UnitTestOff /\ SymbolsOff /\ MemoryOff /\ AsmOff
     /\ ConfigOff /\ CoreOff /\ DirOff /\ BrowsingOff /\ DiffOff /\ FloppyOff
     /\ FtpOff /\ ToolsOff /\ PageOff /\ PicturesOff /\ ScreenOff
  \/ /\ subject = "typing" /\ Typing!Init
     /\ SessionOff /\ UnitTestOff /\ SymbolsOff /\ MemoryOff /\ AsmOff
     /\ ConfigOff /\ CoreOff /\ DirOff /\ BrowsingOff /\ DiffOff /\ FloppyOff
     /\ FtpOff /\ ToolsOff /\ PageOff /\ PicturesOff /\ ScreenOff
  \/ /\ subject = "unittest" /\ UnitTest!Init
     /\ SessionOff /\ TypingOff /\ SymbolsOff /\ MemoryOff /\ AsmOff
     /\ ConfigOff /\ CoreOff /\ DirOff /\ BrowsingOff /\ DiffOff /\ FloppyOff
     /\ FtpOff /\ ToolsOff /\ PageOff /\ PicturesOff /\ ScreenOff
  \/ /\ subject = "symbols" /\ Symbols!Init
     /\ SessionOff /\ TypingOff /\ UnitTestOff /\ MemoryOff /\ AsmOff
     /\ ConfigOff /\ CoreOff /\ DirOff /\ BrowsingOff /\ DiffOff /\ FloppyOff
     /\ FtpOff /\ ToolsOff /\ PageOff /\ PicturesOff /\ ScreenOff
  \/ /\ subject = "memory" /\ Memory!Init
     /\ SessionOff /\ TypingOff /\ UnitTestOff /\ SymbolsOff /\ AsmOff
     /\ ConfigOff /\ CoreOff /\ DirOff /\ BrowsingOff /\ DiffOff /\ FloppyOff
     /\ FtpOff /\ ToolsOff /\ PageOff /\ PicturesOff /\ ScreenOff
  \/ /\ subject = "assembler" /\ Asm!Init
     /\ SessionOff /\ TypingOff /\ UnitTestOff /\ SymbolsOff /\ MemoryOff
     /\ ConfigOff /\ CoreOff /\ DirOff /\ BrowsingOff /\ DiffOff /\ FloppyOff
     /\ FtpOff /\ ToolsOff /\ PageOff /\ PicturesOff /\ ScreenOff
  \/ /\ subject = "config" /\ Config!Init
     /\ SessionOff /\ TypingOff /\ UnitTestOff /\ SymbolsOff /\ MemoryOff
     /\ AsmOff /\ CoreOff /\ DirOff /\ BrowsingOff /\ DiffOff /\ FloppyOff
     /\ FtpOff /\ ToolsOff /\ PageOff /\ PicturesOff /\ ScreenOff
  \/ /\ subject = "core" /\ Core!Init
     /\ SessionOff /\ TypingOff /\ UnitTestOff /\ SymbolsOff /\ MemoryOff
     /\ AsmOff /\ ConfigOff /\ DirOff /\ BrowsingOff /\ DiffOff /\ FloppyOff
     /\ FtpOff /\ ToolsOff /\ PageOff /\ PicturesOff /\ ScreenOff
  \/ /\ subject = "directory" /\ Dir!Init
     /\ SessionOff /\ TypingOff /\ UnitTestOff /\ SymbolsOff /\ MemoryOff
     /\ AsmOff /\ ConfigOff /\ CoreOff /\ BrowsingOff /\ DiffOff /\ FloppyOff
     /\ FtpOff /\ ToolsOff /\ PageOff /\ PicturesOff /\ ScreenOff
  \/ /\ subject = "browse" /\ Browsing!Init
     /\ SessionOff /\ TypingOff /\ UnitTestOff /\ SymbolsOff /\ MemoryOff
     /\ AsmOff /\ ConfigOff /\ CoreOff /\ DirOff /\ DiffOff /\ FloppyOff
     /\ FtpOff /\ ToolsOff /\ PageOff /\ PicturesOff /\ ScreenOff
  \/ /\ subject = "romdiff" /\ Diff!Init
     /\ SessionOff /\ TypingOff /\ UnitTestOff /\ SymbolsOff /\ MemoryOff
     /\ AsmOff /\ ConfigOff /\ CoreOff /\ DirOff /\ BrowsingOff /\ FloppyOff
     /\ FtpOff /\ ToolsOff /\ PageOff /\ PicturesOff /\ ScreenOff
  \/ /\ subject = "floppy" /\ Floppy!Init
     /\ SessionOff /\ TypingOff /\ UnitTestOff /\ SymbolsOff /\ MemoryOff
     /\ AsmOff /\ ConfigOff /\ CoreOff /\ DirOff /\ BrowsingOff /\ DiffOff
     /\ FtpOff /\ ToolsOff /\ PageOff /\ PicturesOff /\ ScreenOff
  \/ /\ subject = "mega65_ftp" /\ Ftp!Init
     /\ SessionOff /\ TypingOff /\ UnitTestOff /\ SymbolsOff /\ MemoryOff
     /\ AsmOff /\ ConfigOff /\ CoreOff /\ DirOff /\ BrowsingOff /\ DiffOff
     /\ FloppyOff /\ ToolsOff /\ PageOff /\ PicturesOff /\ ScreenOff
  \/ /\ subject = "sectors" /\ Tools!Init
     /\ SessionOff /\ TypingOff /\ UnitTestOff /\ SymbolsOff /\ MemoryOff
     /\ AsmOff /\ ConfigOff /\ CoreOff /\ DirOff /\ BrowsingOff /\ DiffOff
     /\ FloppyOff /\ FtpOff /\ PageOff /\ PicturesOff /\ ScreenOff
  \/ /\ subject = "page" /\ Page!Init
     /\ SessionOff /\ TypingOff /\ UnitTestOff /\ SymbolsOff /\ MemoryOff
     /\ AsmOff /\ ConfigOff /\ CoreOff /\ DirOff /\ BrowsingOff /\ DiffOff
     /\ FloppyOff /\ FtpOff /\ ToolsOff /\ PicturesOff /\ ScreenOff
  \/ /\ subject = "pictures" /\ Pictures!Init
     /\ SessionOff /\ TypingOff /\ UnitTestOff /\ SymbolsOff /\ MemoryOff
     /\ AsmOff /\ ConfigOff /\ CoreOff /\ DirOff /\ BrowsingOff /\ DiffOff
     /\ FloppyOff /\ FtpOff /\ ToolsOff /\ PageOff /\ ScreenOff
  \/ /\ subject = "screen" /\ Screen!Init
     /\ SessionOff /\ TypingOff /\ UnitTestOff /\ SymbolsOff /\ MemoryOff
     /\ AsmOff /\ ConfigOff /\ CoreOff /\ DirOff /\ BrowsingOff /\ DiffOff
     /\ FloppyOff /\ FtpOff /\ ToolsOff /\ PageOff /\ PicturesOff

OnlySession ==
  UNCHANGED <<subject, t_vars, u_vars, y_vars, g_vars, a_vars, c_vars, k_vars, n_vars, b_vars, r_vars, f_vars, p_vars, s_vars, m_vars, i_vars, v_vars>>
OnlyTyping ==
  UNCHANGED <<subject, e_vars, u_vars, y_vars, g_vars, a_vars, c_vars, k_vars, n_vars, b_vars, r_vars, f_vars, p_vars, s_vars, m_vars, i_vars, v_vars>>
OnlyUnitTest ==
  UNCHANGED <<subject, e_vars, t_vars, y_vars, g_vars, a_vars, c_vars, k_vars, n_vars, b_vars, r_vars, f_vars, p_vars, s_vars, m_vars, i_vars, v_vars>>
OnlySymbols ==
  UNCHANGED <<subject, e_vars, t_vars, u_vars, g_vars, a_vars, c_vars, k_vars, n_vars, b_vars, r_vars, f_vars, p_vars, s_vars, m_vars, i_vars, v_vars>>
OnlyMemory ==
  UNCHANGED <<subject, e_vars, t_vars, u_vars, y_vars, a_vars, c_vars, k_vars, n_vars, b_vars, r_vars, f_vars, p_vars, s_vars, m_vars, i_vars, v_vars>>
OnlyAsm ==
  UNCHANGED <<subject, e_vars, t_vars, u_vars, y_vars, g_vars, c_vars, k_vars, n_vars, b_vars, r_vars, f_vars, p_vars, s_vars, m_vars, i_vars, v_vars>>
OnlyConfig ==
  UNCHANGED <<subject, e_vars, t_vars, u_vars, y_vars, g_vars, a_vars, k_vars, n_vars, b_vars, r_vars, f_vars, p_vars, s_vars, m_vars, i_vars, v_vars>>
OnlyCore ==
  UNCHANGED <<subject, e_vars, t_vars, u_vars, y_vars, g_vars, a_vars, c_vars, n_vars, b_vars, r_vars, f_vars, p_vars, s_vars, m_vars, i_vars, v_vars>>
OnlyDir ==
  UNCHANGED <<subject, e_vars, t_vars, u_vars, y_vars, g_vars, a_vars, c_vars, k_vars, b_vars, r_vars, f_vars, p_vars, s_vars, m_vars, i_vars, v_vars>>
OnlyBrowsing ==
  UNCHANGED <<subject, e_vars, t_vars, u_vars, y_vars, g_vars, a_vars, c_vars, k_vars, n_vars, r_vars, f_vars, p_vars, s_vars, m_vars, i_vars, v_vars>>
OnlyDiff ==
  UNCHANGED <<subject, e_vars, t_vars, u_vars, y_vars, g_vars, a_vars, c_vars, k_vars, n_vars, b_vars, f_vars, p_vars, s_vars, m_vars, i_vars, v_vars>>
OnlyFloppy ==
  UNCHANGED <<subject, e_vars, t_vars, u_vars, y_vars, g_vars, a_vars, c_vars, k_vars, n_vars, b_vars, r_vars, p_vars, s_vars, m_vars, i_vars, v_vars>>
OnlyFtp ==
  UNCHANGED <<subject, e_vars, t_vars, u_vars, y_vars, g_vars, a_vars, c_vars, k_vars, n_vars, b_vars, r_vars, f_vars, s_vars, m_vars, i_vars, v_vars>>
OnlyTools ==
  UNCHANGED <<subject, e_vars, t_vars, u_vars, y_vars, g_vars, a_vars, c_vars, k_vars, n_vars, b_vars, r_vars, f_vars, p_vars, m_vars, i_vars, v_vars>>
OnlyPage ==
  UNCHANGED <<subject, e_vars, t_vars, u_vars, y_vars, g_vars, a_vars, c_vars, k_vars, n_vars, b_vars, r_vars, f_vars, p_vars, s_vars, i_vars, v_vars>>
OnlyPictures ==
  UNCHANGED <<subject, e_vars, t_vars, u_vars, y_vars, g_vars, a_vars, c_vars, k_vars, n_vars, b_vars, r_vars, f_vars, p_vars, s_vars, m_vars, v_vars>>
OnlyScreen ==
  UNCHANGED <<subject, e_vars, t_vars, u_vars, y_vars, g_vars, a_vars, c_vars, k_vars, n_vars, b_vars, r_vars, f_vars, p_vars, s_vars, m_vars, i_vars>>

Next ==
  \/ subject = "session" /\ Session!Next /\ OnlySession
  \/ subject = "typing" /\ Typing!Next /\ OnlyTyping
  \/ subject = "unittest" /\ UnitTest!Next /\ OnlyUnitTest
  \/ subject = "symbols" /\ Symbols!Next /\ OnlySymbols
  \/ subject = "memory" /\ Memory!Next /\ OnlyMemory
  \/ subject = "assembler" /\ Asm!Next /\ OnlyAsm
  \/ subject = "config" /\ Config!Next /\ OnlyConfig
  \/ subject = "core" /\ Core!Next /\ OnlyCore
  \/ subject = "directory" /\ Dir!Next /\ OnlyDir
  \/ subject = "browse" /\ Browsing!Next /\ OnlyBrowsing
  \/ subject = "romdiff" /\ Diff!Next /\ OnlyDiff
  \/ subject = "floppy" /\ Floppy!Next /\ OnlyFloppy
  \/ subject = "mega65_ftp" /\ Ftp!Next /\ OnlyFtp
  \/ subject = "sectors" /\ Tools!Next /\ OnlyTools
  \/ subject = "page" /\ Page!Next /\ OnlyPage
  \/ subject = "pictures" /\ Pictures!Next /\ OnlyPictures
  \/ subject = "screen" /\ Screen!Next /\ OnlyScreen

Spec == Init /\ [][Next]_vars

-----------------------------------------------------------------------------
(* Properties *)

\* At the end of a session the CPU runs unless it was to be halted behind a
\* program, the ROM is protected and the hypervisor left; in between the tool
\* knows whether the CPU runs, and saved memory is in its file.  A run of mega65_ftp
\* has one way to the card, loses no program, obeys the lines it is given and leaves
\* nothing behind.
SessionEndsAsAsked ==
  /\ subject = "session" =>
       Session!SessionEndsAsAsked /\ Session!SessionKnowsCpu /\ Session!SavedIsTheRange
  /\ subject = "mega65_ftp" =>
       /\ Ftp!TypeOK /\ Ftp!HelperIsThere /\ Ftp!ProgramsAreKept
       /\ Ftp!QuitTakesTheHelper /\ Ftp!LinesAreObeyed

\* A program is put into memory while the CPU does not run, whatever was done
\* before it in the same session.
ProgramLoadsStopped == subject = "session" => Session!ProgramLoadsStopped

\* The MEGA65 gets the characters of a text once, in order and with shift where
\* it belongs, and no key stays down.
TextArrives == subject = "typing" => Typing!TextArrives

\* The log has the results the program sent and its texts, each once and in
\* order, with junk on the line before and with bytes in the texts that look like
\* the end of a token.
LogIsWhatWasSent ==
  subject = "unittest" =>
    UnitTest!TypeOK /\ UnitTest!LogIsWhatWasSent /\ UnitTest!TextsAreLogged

\* What the debugger shows is there: every address of the programs once and at its
\* line, a watch the address it was made for, the bytes of memory, the places of
\* what was searched for, the calls that led here; what it saves, loads, copies or
\* executes leaves nothing else changed.
DebuggerHolds ==
  /\ subject = "symbols" => Symbols!LinesAreFound /\ Symbols!WatchesShowTheirAddress
  /\ subject = "memory" =>
       /\ Memory!BytesArrive /\ Memory!SearchIsRight /\ Memory!ShownIsThere
       /\ Memory!FramesAreCalls /\ Memory!OneShotLeavesNoTrace

\* What was encoded comes back: what the assembler wrote is shown by the
\* disassembler as it was typed, the new ROM is the difference added to the old
\* one, the fields of a track are told of as they were written, a text with its
\* pictures is on the page that was made of it, and a picture of the screen shows it.
ConversionsComeBack ==
  /\ subject = "assembler" => Asm!ComesBack
  /\ subject = "romdiff" => Diff!NewRomComesBack /\ Diff!NoLongerThanReckoned
  /\ subject = "floppy" => Floppy!FieldsAreTold
  /\ subject = "page" =>
       Page!TextIsOnThePage /\ Page!WordsStayWhole /\ Page!LinksLeadThere /\ Page!PassesAgree
  /\ subject = "pictures" => Pictures!PicturesAreShown /\ Pictures!MergingEnds
  /\ subject = "screen" =>
       Screen!PictureIsTheScreen /\ Screen!PaletteIsPutBack /\ Screen!AsciiAgrees

\* The card is only written after its own question was answered with yes, with
\* what the pages show, and what no page shows is kept; whatever takes effect is
\* what the pages show, but for the high digit of a MAC when the low one is typed as
\* a letter.  A text ends at its first zero: what was deleted does not
\* come back when characters are typed behind it.  The commands of mega65_ftp for
\* sectors change the bytes they name, and show those on the card.
StoredIsWhatIsShown ==
  [][/\ subject = "config" => Config!StoredIsWhatIsShown /\ Config!TextsEndOnce'
     /\ subject = "sectors" => /\ Tools!TypeOK' /\ Tools!SectorsAreBytes'
                               /\ Tools!ShownIsOnCard']_vars

\* A core file that is written holds the bitstream, every file of the command
\* line where the chain of records says, and fits its slot.
\* A core that is flashed is one for the machine, in its slot and whole.
CoreIsWhole ==
  /\ subject = "core" => Core!CoreIsWhole
  /\ subject = "sectors" => Tools!FlashIsForTheMachine /\ Tools!FlashReadsBack

\* The name of a file stands for what was last put under it, here and for other
\* systems, whatever other names there are and wherever a command was broken off.
DirectoryHolds ==
  subject = "directory" =>
    Dir!NamesStandForFiles /\ Dir!ShortNamesDiffer /\ Dir!OthersSeeTheSame

\* Every command works in the directory cd was led to, a listing has each of its
\* entries once and in order, a download is the file or says that it is not, and
\* none runs along the chains of the card in circles.
BrowsingHolds ==
  subject = "browse" =>
    /\ Browsing!StandsWhereItSays /\ Browsing!ShowsTheDirectory /\ Browsing!GetsTheFile
    /\ Browsing!WalksEnd /\ Browsing!MountsWhatIsThere /\ Browsing!RomsHaveTheirVersions

\* A pattern deletes the files it matches and no others.
PatternsDeleteMatches == subject = "directory" => Dir!PatternsDeleteMatches

=============================================================================
