------------------------------ MODULE PageTiles ------------------------------
(***************************************************************************)
(* The pictures of md2h65: a picture is cut into tiles, which are stored   *)
(* once each, and its pixels become numbers of colours in a palette that   *)
(* begins with the colours of the machine.  With too many of them the      *)
(* rarest are merged into others, and the pictures are read again.         *)
(***************************************************************************)
EXTENDS Integers, Sequences, FiniteSets, SequencesExt

CONSTANTS
  TileSize,      \* pixels in a row of a tile (8)
  max_tiles,     \* 128 KB of them
  C64Colours,    \* the colours of the machine (16)
  Many,          \* so many colours need a second pass (255)
  Kept,          \* and are reduced to so many (254)
  ByteSize,      \* values of a pixel and colours of a page (256)
  Pictures       \* sequences of pictures: width, height and the colour at x, y

Clear == 0 - 1
TilesAssumption ==
  /\ {TileSize, ByteSize} \subseteq Nat \ {0} /\ max_tiles \in Nat
  /\ C64Colours \in Seq(Nat) /\ Len(C64Colours) < Kept /\ Kept < Many /\ Many < ByteSize
  /\ \A ps \in Pictures : \A i \in DOMAIN ps : \A x \in 0 .. ps[i].width - 1 :
       DOMAIN ps[i].at = (0 .. ps[i].width - 1) \X (0 .. ps[i].height - 1)

VARIABLES
  pictures,
  pass,            \* pass_num
  at, x, y,        \* the picture, and the tile of it, that comes next
  colours,         \* ts->colours, numbered from 1
  colour_counts,   \* how often each was met
  target_colours,  \* the colour each was merged into
  left,            \* colour_count of quantise_colours
  tiles,           \* ts->tiles
  screens,         \* the tiles of each picture, numbered from 1, 0 for none
  phase            \* "reading", "merging", "written" or "failed"

vars == <<pictures, pass, at, x, y, colours, colour_counts, target_colours, left, tiles,
          screens, phase>>

Pixels == (0 .. TileSize - 1) \X (0 .. TileSize - 1)
\* In the order in which they are read.
PixelOrder == [i \in 1 .. TileSize * TileSize |-> <<(i - 1) % TileSize, (i - 1) \div TileSize>>]
picture == pictures[at]
Wide(p) == 1 + (p.width \div TileSize)
High(p) == 1 + (p.height \div TileSize)
new_screen(p) == [c \in (0 .. Wide(p) - 1) \X (0 .. High(p) - 1) |-> 0]

\* Merged colours are followed to one that is not.
Resolve(c) ==
  LET to[n \in 0 .. Len(colours)] == IF n = 0 THEN c ELSE target_colours[to[n - 1]]
  IN to[Len(colours)]

\* The number of a colour; the first pass counts it, or puts it behind the others.
palette_lookup(h, colour) ==
  IF colour \in Range(h.colours)
  THEN LET c == CHOOSE i \in DOMAIN h.colours :
                  h.colours[i] = colour /\ \A k \in 1 .. i - 1 : h.colours[k] # colour
       IN IF pass = 1 THEN [h EXCEPT !.counts[c] = @ + 1, !.c = c] ELSE [h EXCEPT !.c = Resolve(c)]
  ELSE [h EXCEPT !.colours = Append(@, colour), !.counts = Append(@, 1),
                 !.c = Len(h.colours) + 1, !.second = @ \/ Len(h.colours) = Many]

\* A pixel holds a byte; what is clear or off the edge is colour 0.
ReadPixel(h, i) ==
  LET px == <<x + PixelOrder[i][1], y + PixelOrder[i][2]>>
      seen == px \in DOMAIN picture.at /\ picture.at[px] # Clear
      l == palette_lookup(h, picture.at[px])
  IN IF seen THEN [l EXCEPT !.tile[PixelOrder[i]] = (l.c - 1) % ByteSize, !.transparent = FALSE]
     ELSE h
ReadTile(second) ==
  FoldLeft(ReadPixel,
           [colours |-> colours, counts |-> colour_counts, c |-> 0, second |-> second,
            tile |-> [px \in Pixels |-> 0], transparent |-> TRUE],
           [i \in DOMAIN PixelOrder |-> i])

\* Only tiles that are the same share a number: what the comparison with flipped
\* ones has found to differ once, it does not compare again.
tile_lookup(t) ==
  IF t \in Range(tiles)
  THEN CHOOSE i \in DOMAIN tiles : tiles[i] = t /\ \A k \in 1 .. i - 1 : tiles[k] # t
  ELSE Len(tiles) + 1

More == x + TileSize < picture.width
MoreRows == y + TileSize < picture.height

png_to_screen ==
  /\ phase \in {"reading", "many"} /\ at <= Len(pictures)
  /\ LET h == ReadTile(phase = "many")
         cell == <<x \div TileSize, y \div TileSize>>
         full == ~h.transparent /\ h.tile \notin Range(tiles) /\ Len(tiles) >= max_tiles
     IN /\ colours' = h.colours /\ colour_counts' = h.counts
        /\ target_colours' = target_colours
        /\ tiles' = IF h.transparent \/ full \/ h.tile \in Range(tiles) THEN tiles
                    ELSE Append(tiles, h.tile)
        /\ screens' = IF h.transparent THEN screens
                      ELSE [screens EXCEPT ![at][cell] = tile_lookup(h.tile)]
        /\ phase' = IF full THEN "failed" ELSE IF h.second THEN "many" ELSE "reading"
  /\ x' = IF More THEN x + TileSize ELSE 0
  /\ y' = IF More THEN y ELSE IF MoreRows THEN y + TileSize ELSE 0
  /\ at' = IF More \/ MoreRows THEN at ELSE at + 1
  /\ UNCHANGED <<pictures, pass, left>>

\* The palette of the page is the start of the table of colours.
WritePage ==
  /\ phase \in {"reading", "many"} /\ at > Len(pictures)
  /\ phase' = IF phase = "many" /\ pass = 1 THEN "merging" ELSE "written"
  /\ target_colours' = IF phase' = "merging" THEN [c \in DOMAIN colours |-> c] ELSE target_colours
  /\ left' = Len(colours)
  /\ UNCHANGED <<pictures, pass, at, x, y, colours, colour_counts, tiles, screens>>

Unmerged == {c \in DOMAIN colours : target_colours[c] = c}
Rarest(cs) ==
  CHOOSE c \in cs : \A d \in cs :
    colour_counts[c] < colour_counts[d] \/ (colour_counts[c] = colour_counts[d] /\ c <= d)
Distance(c, d) == (colours[c] - colours[d]) * (colours[c] - colours[d])
find_nearest_colour(c) ==
  CHOOSE n \in Unmerged \ {c} : \A d \in Unmerged \ {c} :
    Distance(n, c) < Distance(d, c) \/ (Distance(n, c) = Distance(d, c) /\ n <= d)

quantise_colours ==
  /\ phase = "merging" /\ left > Kept
  /\ LET c == Rarest(Unmerged \ DOMAIN C64Colours)
         n == find_nearest_colour(c)
     IN /\ target_colours' = [target_colours EXCEPT ![c] = n]
        /\ colour_counts' = [colour_counts EXCEPT ![n] = @ + colour_counts[c]]
  /\ left' = left - 1
  /\ UNCHANGED <<pictures, pass, at, x, y, colours, tiles, screens, phase>>

\* The tiles and the colours of the first pass stay.
SecondPass ==
  /\ phase = "merging" /\ left <= Kept
  /\ pass' = 2 /\ at' = 1 /\ phase' = "many"
  /\ screens' = [i \in DOMAIN pictures |-> new_screen(pictures[i])]
  /\ UNCHANGED <<pictures, x, y, colours, colour_counts, target_colours, left, tiles>>

Init ==
  /\ pictures \in Pictures /\ pass = 1 /\ at = 1 /\ x = 0 /\ y = 0
  /\ colours = C64Colours /\ colour_counts = [c \in DOMAIN C64Colours |-> 0]
  /\ target_colours = << >> /\ left = 0 /\ tiles = << >>
  /\ screens = [i \in DOMAIN pictures |-> new_screen(pictures[i])]
  /\ phase = "reading"

Next == png_to_screen \/ WritePage \/ quantise_colours \/ SecondPass

-----------------------------------------------------------------------------
(* Properties *)

\* What stands at a pixel on the page: the number of a colour, or none.
ShownAt(i, px) ==
  LET tile == screens[i][<<px[1] \div TileSize, px[2] \div TileSize>>]
  IN IF tile = 0 THEN Clear ELSE tiles[tile][<<px[1] % TileSize, px[2] % TileSize>>]

\* Every pixel of every picture is on the page in its colour, or after the second
\* pass in the one it was merged into; the colours of the machine stay.
PicturesAreShown ==
  phase = "written" =>
    \A i \in DOMAIN pictures : \A px \in DOMAIN pictures[i].at :
      LET colour == pictures[i].at[px]
          shown == ShownAt(i, px)
      IN IF colour = Clear THEN shown \in {Clear, 0}
         ELSE /\ shown # Clear
              /\ pass = 1 \/ colour \in Range(C64Colours) => colours[shown + 1] = colour
              /\ pass = 2 => \E c \in DOMAIN colours :
                               colours[c] = colour /\ shown + 1 = Resolve(c)

\* Merging never goes in a circle, however often a colour that others were merged
\* into is merged itself, and leaves as many colours as it reckons with.
MergingEnds ==
  phase = "merging" =>
    /\ \A c \in DOMAIN colours : Resolve(c) \in Unmerged
    /\ Cardinality(Unmerged) = left
=============================================================================
