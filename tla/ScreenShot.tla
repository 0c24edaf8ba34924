----------------------------- MODULE ScreenShot -----------------------------
(***************************************************************************)
(* The pictures of the screen that m65 takes (screen_shot.c), with the CPU *)
(* stopped.  The palettes are fetched through a window that shows one of   *)
(* four at a time; the characters are painted one after the other, each    *)
(* over those before it in its row.                                        *)
(***************************************************************************)
EXTENDS Integers, Sequences, SequencesExt

CONSTANTS
  GlyphSize,      \* rows of a glyph, and bytes of a row (8)
  Width, Height,  \* of the picture (720, 576 or 480)
  Glyphs,         \* the character data: id -> row -> byte -> value
  Bitmap,         \* the same, by the place on the screen
  Printable,      \* screen codes above 63 that have a sign on a terminal
  Screens         \* what the video controller shows

\* The palette in the window, the one in use and the alternative one; where text,
\* borders and window are; modes; and rows of cells: the number of a character,
\* its colour, what its flags say and by how much it is narrower.
Palettes == 0 .. 3
Bytes == 0 .. GlyphSize - 1
Pixels == (0 .. Width - 1) \X (0 .. Height - 1)
Lines(s) == GlyphSize * (1 + s.y_scale)

\* The clipping looks at where the first line of a glyph row is.
WholeRows(s) ==
  s.top <= s.chargen_y /\ s.chargen_y + Len(s.rows) * Lines(s) <= s.bottom

ScreenAssumption ==
  /\ GlyphSize \in Nat \ {0} /\ GlyphSize % 2 = 0
  /\ Width \in Nat /\ Height \in Nat
  /\ \A s \in Screens :
       /\ {s.mapped, s.bt, s.alt} \subseteq Palettes
       /\ s.rep \in {1, 2} /\ s.y_scale \in Nat
       /\ 0 <= s.left /\ s.right <= Width /\ WholeRows(s)

VARIABLES
  screen, mapedpal,          \* the MEGA65; the palette in the window
  at,
  palette, altpalette,       \* what was fetched as the palettes
  ascii,                     \* the rows for the terminal
  picture,
  cx, cy, x_position, y_position, transparent_background

video == <<palette, altpalette>>
painter == <<cx, cy, x_position, y_position, transparent_background>>
vars == <<screen, mapedpal, at, video, ascii, picture, painter>>

Nothing == << >>

Init ==
  /\ screen \in Screens /\ mapedpal = screen.mapped
  /\ at = "registers" /\ palette = -1 /\ altpalette = -1 /\ ascii = << >>
  /\ picture = [p \in Pixels |-> Nothing]
  /\ cx = 0 /\ cy = 0 /\ x_position = 0 /\ y_position = 0
  /\ transparent_background = FALSE

-----------------------------------------------------------------------------
(* get_video_state *)

MapPalette ==
  /\ at = "registers" /\ at' = "palette"
  /\ mapedpal' = screen.bt
  /\ UNCHANGED <<screen, video, ascii, picture, painter>>

FetchPalette ==
  /\ at = "palette" /\ palette' = mapedpal
  /\ IF screen.bt # screen.alt
     THEN mapedpal' = screen.alt /\ at' = "alternate" /\ UNCHANGED altpalette
     ELSE altpalette' = mapedpal /\ at' = "restore" /\ UNCHANGED mapedpal
  /\ UNCHANGED <<screen, ascii, picture, painter>>

FetchAlternate ==
  /\ at = "alternate" /\ altpalette' = mapedpal /\ at' = "restore"
  /\ UNCHANGED <<screen, mapedpal, palette, ascii, picture, painter>>

RestorePalette ==
  /\ at = "restore" /\ at' = "ascii"
  /\ mapedpal' = IF screen.mapped # screen.bt \/ screen.mapped # screen.alt
                 THEN screen.mapped ELSE mapedpal
  /\ UNCHANGED <<screen, video, ascii, picture, painter>>

-----------------------------------------------------------------------------
(* A character *)

Flag(cell, f) == f \in cell.flags
Attribute(cell, bit) ==
  screen.viciii_attribs /\ ~screen.multicolour /\ (cell.colour \div bit) % 2 = 1
Reversed(cell) == Attribute(cell, 32)
Bold(cell) == Attribute(cell, 64)
Underline(cell) == Attribute(cell, 128)
AltPalette(cell) == Bold(cell) /\ Reversed(cell)

CharId(cell) == IF screen.ecm THEN cell.id % 64 ELSE cell.id
FullColour(cell) ==
  \/ screen.full_low /\ CharId(cell) < 256
  \/ screen.full_high /\ CharId(cell) > 255

foreground_colour(cell) ==
  IF screen.bitmap THEN cell.id % 16
  ELSE IF screen.multicolour THEN cell.colour
  ELSE (cell.colour % 16) + (IF Bold(cell) /\ ~Reversed(cell) THEN 16 ELSE 0)

background_colour(cell) == IF screen.bitmap THEN cell.id \div 16 ELSE screen.background

glyph_width(cell) ==
  (IF Flag(cell, "4bit") THEN 2 * GlyphSize ELSE GlyphSize) - cell.deduct

\* The bytes of a row as they are drawn: turned over, reversed, underlined.
glyph_data(cell, x, y, yy) ==
  LET row == IF Flag(cell, "flip_vertical") THEN GlyphSize - 1 - yy ELSE yy
      data == IF screen.bitmap /\ ~FullColour(cell) THEN Bitmap[<<x, y>>][row]
              ELSE Glyphs[CharId(cell)][row]
      turned == IF Flag(cell, "flip_horizontal")
                THEN [i \in Bytes |-> data[GlyphSize - 1 - i]] ELSE data
  IN IF Underline(cell) /\ yy = GlyphSize - 1 THEN [i \in Bytes |-> 255]
     ELSE IF Reversed(cell) /\ ~Bold(cell) THEN [i \in Bytes |-> 255 - turned[i]]
     ELSE turned

\* A dot: its colour, or foreground, background and how much of each; and
\* whether it counts as foreground.
Dot(ink, front) == [ink |-> ink, is_foreground |-> front]

NybbleDot(cell, data, xx) ==
  LET b == data[xx \div 2]
      c == IF xx % 2 = 1 THEN b \div 16 ELSE b % 16
      fg == foreground_colour(cell)
      bg == background_colour(cell)
  IN Dot(IF Flag(cell, "alpha") THEN <<fg, bg, c>>
         ELSE IF c = 0 THEN <<bg>> ELSE IF c = 15 THEN <<fg>> ELSE <<c>>, c # 0)

ByteDot(cell, data, xx) ==
  IF Flag(cell, "alpha")
  THEN Dot(<<foreground_colour(cell), background_colour(cell), data[xx]>>,
           foreground_colour(cell) # 0)
  ELSE Dot(<<data[xx]>>, FALSE)

\* Two bits, each twice as wide.
PairDot(cell, data, xx) ==
  LET pair == 2 * (xx \div 2)
      bits == (IF data[GlyphSize - 2 - pair] # 0 THEN 1 ELSE 0)
                + (IF data[GlyphSize - 1 - pair] # 0 THEN 2 ELSE 0)
  IN IF screen.bitmap
     THEN Dot(<< <<screen.background, background_colour(cell), foreground_colour(cell),
                   cell.colour % 16>>[bits + 1] >>, bits # 1)
     ELSE Dot(<< <<screen.background, screen.multi1, screen.multi2,
                   foreground_colour(cell) % 8>>[bits + 1] >>, bits # 0)

BitDot(cell, data, xx) ==
  IF data[GlyphSize - 1 - xx] # 0 THEN Dot(<<foreground_colour(cell)>>, TRUE)
                                  ELSE Dot(<<background_colour(cell)>>, FALSE)

DotAt(cell, x, y, xx, yy) ==
  LET data == glyph_data(cell, x, y, yy) IN
  IF Flag(cell, "4bit") THEN NybbleDot(cell, data, xx)
  ELSE IF FullColour(cell) THEN ByteDot(cell, data, xx)
  ELSE IF screen.multicolour /\ (screen.bitmap \/ (foreground_colour(cell) \div 8) % 2 = 1)
  THEN PairDot(cell, data, xx)
  ELSE BitDot(cell, data, xx)

-----------------------------------------------------------------------------
(* do_screen_shot_ascii *)

print_screencode(c) ==
  LET k == c % 128 IN
  [reversed |-> c > 127,
   sign |-> IF k < 64 \/ (k < 96 /\ ~screen.upper_case) \/ k \in Printable THEN k ELSE -1]

\* On the terminal reverse exchanges the colours, which are those of the colour
\* memory as they stand there.
AsciiCell(cell) ==
  LET fg == IF Bold(cell) /\ ~Reversed(cell) /\ (cell.colour \div 16) % 2 = 0
            THEN cell.colour + 16 ELSE cell.colour
      swapped == Reversed(cell) /\ ~Bold(cell)
  IN [fg |-> IF swapped THEN screen.background ELSE fg,
      bg |-> IF swapped THEN fg ELSE screen.background,
      shown |-> IF FullColour(cell) \/ Flag(cell, "4bit")
                THEN [reversed |-> FALSE, sign |-> -1]
                ELSE print_screencode(CharId(cell) % 256)]

do_screen_shot_ascii ==
  /\ at = "ascii" /\ at' = "start"
  /\ ascii' = [y \in DOMAIN screen.rows |->
                 [x \in DOMAIN screen.rows[y] |-> AsciiCell(screen.rows[y][x])]]
  /\ UNCHANGED <<screen, mapedpal, video, picture, painter>>

-----------------------------------------------------------------------------
(* do_screen_shot and paint_screen_shot *)

mega65_rgb(ink, alt) == <<IF alt THEN altpalette ELSE palette>> \o ink

InWindow(x, y) == x \in screen.left .. screen.right - 1 /\ y \in screen.top .. screen.bottom - 1

do_screen_shot ==
  /\ at = "start" /\ at' = "paint"
  /\ picture' = [p \in Pixels |->
       mega65_rgb(<<IF InWindow(p[1], p[2]) THEN screen.background ELSE screen.border>>, FALSE)]
  /\ cx' = 0 /\ cy' = 0 /\ transparent_background' = FALSE
  /\ x_position' = screen.chargen_x /\ y_position' = screen.chargen_y
  /\ UNCHANGED <<screen, mapedpal, video, ascii>>

\* The loops over the lines and columns of a glyph; set_pixel stays in the picture.
Painted(cell) ==
  [p \in Pixels |->
     LET xc == p[1] - x_position
         yc == p[2] - y_position
     IN IF /\ xc \in 0 .. glyph_width(cell) * screen.rep - 1 /\ yc \in 0 .. Lines(screen) - 1
           /\ InWindow(p[1], y_position + (yc % (1 + screen.y_scale)))
        THEN LET dot == DotAt(cell, cx, cy, xc \div screen.rep, yc \div (1 + screen.y_scale))
             IN IF dot.is_foreground \/ ~transparent_background
                THEN mega65_rgb(dot.ink, AltPalette(cell)) ELSE picture[p]
        ELSE picture[p]]

Painting == at = "paint" /\ cy < Len(screen.rows) /\ y_position < Height
Row == screen.rows[cy + 1]

PaintGoto ==
  /\ Painting /\ cx < Len(Row) /\ Flag(Row[cx + 1], "goto")
  /\ x_position' = screen.chargen_x + Row[cx + 1].to
  /\ transparent_background' = Flag(Row[cx + 1], "flip_vertical")
  /\ cx' = cx + 1
  /\ UNCHANGED <<screen, mapedpal, at, video, ascii, picture, cy, y_position>>

PaintGlyph ==
  /\ Painting /\ cx < Len(Row) /\ ~Flag(Row[cx + 1], "goto")
  /\ picture' = Painted(Row[cx + 1])
  /\ x_position' = x_position + glyph_width(Row[cx + 1]) * screen.rep
  /\ cx' = cx + 1
  /\ UNCHANGED <<screen, mapedpal, at, video, ascii, cy, y_position, transparent_background>>

NextRow ==
  /\ Painting /\ cx = Len(Row)
  /\ cx' = 0 /\ cy' = cy + 1
  /\ x_position' = screen.chargen_x /\ y_position' = y_position + Lines(screen)
  /\ transparent_background' = FALSE
  /\ UNCHANGED <<screen, mapedpal, at, video, ascii, picture>>

WritePicture ==
  /\ at = "paint" /\ ~Painting /\ at' = "done"
  /\ UNCHANGED <<screen, mapedpal, video, ascii, picture, painter>>

Next ==
  \/ MapPalette \/ FetchPalette \/ FetchAlternate \/ RestorePalette
  \/ do_screen_shot_ascii \/ do_screen_shot
  \/ PaintGoto \/ PaintGlyph \/ NextRow \/ WritePicture

Spec == Init /\ [][Next]_vars

-----------------------------------------------------------------------------
(* Properties *)

\* The window on the palettes is as it was before whenever none is fetched.
PaletteIsPutBack ==
  at \in {"ascii", "start", "paint", "done"} => mapedpal = screen.mapped

\* Where a character of a row begins, and whether only its foreground is drawn.
StartOf(row) ==
  LET start[k \in 1 .. Len(row)] ==
        IF k = 1 THEN screen.chargen_x
        ELSE IF Flag(row[k - 1], "goto") THEN screen.chargen_x + row[k - 1].to
        ELSE start[k - 1] + glyph_width(row[k - 1]) * screen.rep
  IN start
GotosBefore(row, k) == {j \in 1 .. k - 1 : Flag(row[j], "goto")}
Overlaid(row, k) ==
  GotosBefore(row, k) # {} /\ Flag(row[Max(GotosBefore(row, k))], "flip_vertical")

\* What the video controller shows at a place: the last of the characters that
\* are there and are not clear, in the palette it asks for.
OnScreen(x, y) ==
  LET cell_y == (y - screen.chargen_y) \div Lines(screen)
      row == screen.rows[cell_y + 1]
      start == StartOf(row)
      line == ((y - screen.chargen_y) % Lines(screen)) \div (1 + screen.y_scale)
      There(k) == DotAt(row[k], k - 1, cell_y, (x - start[k]) \div screen.rep, line)
      covering == {k \in DOMAIN row :
        /\ ~Flag(row[k], "goto")
        /\ x \in start[k] .. start[k] + glyph_width(row[k]) * screen.rep - 1
        /\ Overlaid(row, k) => There(k).is_foreground}
  IN IF ~InWindow(x, y) THEN <<screen.bt, screen.border>>
     ELSE IF y < screen.chargen_y \/ cell_y >= Len(screen.rows) \/ covering = {}
     THEN <<screen.bt, screen.background>>
     ELSE LET k == Max(covering)
          IN <<IF AltPalette(row[k]) THEN screen.alt ELSE screen.bt>> \o There(k).ink

\* The picture is what is on the screen, wherever characters are put over others
\* and whichever palettes they use.
PictureIsTheScreen == at = "done" => \A p \in Pixels : picture[p] = OnScreen(p[1], p[2])

\* A plain character has the same two colours on the terminal as in the picture.
AsciiAgrees ==
  at = "done" =>
    \A y \in DOMAIN screen.rows : \A x \in DOMAIN screen.rows[y] :
      LET cell == screen.rows[y][x] IN
      cell.flags = {} /\ ~FullColour(cell) /\ ~screen.bitmap /\ ~screen.multicolour
        /\ cell.colour < 16 =>
          \A i \in 0 .. glyph_width(cell) - 1 :
            DotAt(cell, x - 1, y - 1, i, 0).ink
              \in {<<ascii[y][x].fg>>, <<ascii[y][x].bg>>}

=============================================================================
