----------------------------- MODULE PageLayout -----------------------------
(***************************************************************************)
(* md2h65: a text in Markdown becomes a page of screen and colour RAM.     *)
(* Words are collected, put on a line, and lines on the page; headings,    *)
(* stars and links change how characters look; links have a box on the     *)
(* page and share the area of the URLs.  With too many colours in the      *)
(* pictures the whole text is set a second time (do_pass).                 *)
(*                                                                         *)
(* A character is a number; a cell of the page has the characters drawn    *)
(* in it, the row of the glyph it shows (0 is on the base line) and how it *)
(* looks.  A font that is loaded has one size for all its glyphs.          *)
(***************************************************************************)
EXTENDS Integers, Sequences, FiniteSets, SequencesExt

CONSTANTS
  MAX_LINE_LENGTH,  \* cells in a line (80)
  ScreenSize,       \* cells of screen RAM (24 KB of two bytes each)
  MAX_LINE_HEIGHT, MAX_LINE_DEPTH,  \* rows above and below the base line (64)
  DisplayWidth,     \* pixels in a line (640)
  CardWidth,        \* pixels in a cell of a glyph (16)
  Narrow,           \* glyphs share a cell up to this width (11)
  MAX_URLS, MAX_LINKS,
  UrlArea,          \* bytes for boxes and URLs (30 KB)
  BoxSize,          \* bytes of a box (6)
  UrlLength,        \* URL -> its length
  Documents         \* texts: sequences of lines

PageAssumption ==
  /\ {MAX_LINE_LENGTH, ScreenSize, MAX_LINE_HEIGHT, CardWidth} \subseteq Nat \ {0}
  /\ {MAX_LINE_DEPTH, DisplayWidth, Narrow, MAX_URLS, MAX_LINKS, UrlArea} \subseteq Nat

VARIABLES
  document,
  pass,    \* pass_num
  at,      \* the line that is read next
  text,    \* what emit_text has before it
  link,    \* the link whose text is set, or none
  g,       \* the globals
  phase,   \* "lines", "text", "written" or "failed"
  file,    \* what was written of the page
  first    \* what the first pass wrote

vars == <<document, pass, at, text, link, g, phase, file, first>>

W == MAX_LINE_LENGTH
max_lines == ScreenSize \div W
Least(a, b) == IF a < b THEN a ELSE b
Most(a, b) == IF a > b THEN a ELSE b
NoFace == [width |-> 0, space |-> 0, above |-> 0, under |-> 0]
NoLink == [url |-> "none"]
Plain == [colour |-> 14, attributes |-> 0, font |-> "p"]
Cell(c, row, look) == [c |-> c, row |-> row, look |-> look]
Empty == Cell(<< >>, 0, "none")
Space == Cell(<< >>, 0, "space")
\* Room for the gaps that are put behind a full line.
Columns == 0 .. W + 1
EmptyRows == [r \in (0 - MAX_LINE_DEPTH) .. (MAX_LINE_HEIGHT - 1) |-> [x \in Columns |-> Empty]]

Start ==
  [look |-> Plain, in_paragraph |-> FALSE, gap |-> FALSE, word |-> << >>,
   line |-> EmptyRows, len |-> 0, display |-> 0, height |-> 1, depth |-> 0,
   screen |-> [p \in 0 .. ScreenSize - 1 |-> Empty], screen_y |-> 0,
   faces |-> [f \in {"p", "h1", "h2", "h3", "bold", "italic", "bolditalic"} |-> NoFace],
   urls |-> << >>, boxes |-> << >>, exited |-> FALSE]
Exit(h) == [h EXCEPT !.exited = TRUE]
type_face(h) == h.faces[h.look.font]

-----------------------------------------------------------------------------
(* Lines *)

ResetLine(h) == [h EXCEPT !.len = 0, !.display = 0, !.height = 1, !.depth = 0]

\* The rows of the line are copied one after the other, each with the length of
\* the line: what goes past the end of a row is covered by the next.
emit_accumulated_line(h) ==
  LET rows == h.height + h.depth
      k(p) == Least(rows - 1, (p \div W) - h.screen_y)
      x(p) == p - (h.screen_y + k(p)) * W
  IN IF h.len = 0 THEN ResetLine(h)
     ELSE IF (h.screen_y + rows - 1) * W >= ScreenSize THEN Exit(h)
     ELSE ResetLine([h EXCEPT
            !.screen = [p \in DOMAIN @ |->
               IF k(p) >= 0 /\ x(p) < h.len THEN h.line[h.height - 1 - k(p)][x(p)] ELSE @[p]],
            !.screen_y = @ + rows])

paragraph_font(h) == [h EXCEPT !.look = Plain]

next_paragraph(h) ==
  LET e == emit_accumulated_line(h)
  IN paragraph_font([e EXCEPT !.screen_y = IF h.in_paragraph THEN @ + 1 ELSE @,
                              !.in_paragraph = FALSE, !.gap = FALSE])

next_paragraph_no_gap(h) ==
  paragraph_font([emit_accumulated_line(h) EXCEPT !.in_paragraph = FALSE])

-----------------------------------------------------------------------------
(* Words *)

\* Glyphs share a cell until it is filled; what they need is rounded up to cells.
Close(w) ==
  LET n == (w.width + CardWidth - 1) \div CardWidth
  IN [cells |-> w.cells \o [i \in 1 .. n |-> IF i = 1 THEN w.open ELSE << >>],
      display |-> w.display + w.width, open |-> << >>, width |-> 0,
      exited |-> w.exited \/ Len(w.cells) + n > W \/ (n > 0 /\ w.display > DisplayWidth)]
render_codepoints(code_points, width) ==
  LET Add(w, c) ==
        LET wider == [w EXCEPT !.open = Append(@, c), !.width = @ + width]
        IN IF wider.width > Narrow THEN Close(wider) ELSE wider
      all == FoldLeft(Add, [cells |-> << >>, display |-> 0, open |-> << >>, width |-> 0,
                            exited |-> FALSE], code_points)
  IN IF all.open = << >> THEN all ELSE Close(all)

\* The columns of the word follow those of the line; rows without glyphs are blank.
emit_rendered_word(h, w, above, under) ==
  LET n == Least(Len(w.cells), W - h.len)
      Drawn(r, i) == IF r \in (0 - under) .. (above - 1) THEN Cell(w.cells[i], r, h.look) ELSE Empty
  IN [h EXCEPT
        !.line = [r \in DOMAIN @ |-> [x \in Columns |->
                    IF x - h.len \in 0 .. n - 1 THEN Drawn(r, x - h.len + 1) ELSE @[r][x]]],
        !.len = @ + n, !.display = @ + w.display,
        !.height = Most(@, above), !.depth = Most(@, under),
        !.exited = @ \/ w.exited]

\* In the font of the machine the gap is put behind the line without looking for
\* room; another font gives it no more than there is.
emit_word_gap(h) ==
  IF type_face(h) = NoFace
  THEN [h EXCEPT !.line[0][h.len] = Space, !.len = @ + 1, !.gap = FALSE]
  ELSE [emit_rendered_word(h, render_codepoints(<<0>>, type_face(h).space), 0, 0)
          EXCEPT !.gap = FALSE]

\* A word that does not fit goes to the next line, one that is longer than a line
\* is broken.
emit_accumulated_word(h) ==
  LET face == type_face(h)
      Broken(k) == emit_accumulated_line([k EXCEPT !.gap = FALSE])
      Put(k, c) ==
        LET b == IF k.len >= W THEN Broken(k) ELSE k
        IN [b EXCEPT !.line[0][b.len] = Cell(<<c>>, 0, h.look), !.len = @ + 1]
      start == IF W - h.len < Len(h.word) + (IF h.len > 0 THEN 1 ELSE 0) THEN Broken(h) ELSE h
      w == render_codepoints(h.word, face.width)
      fits == Len(w.cells) + h.len <= W /\ w.display + h.display <= DisplayWidth
      placed == IF face = NoFace THEN FoldLeft(Put, start, h.word)
                ELSE emit_rendered_word(IF fits THEN h ELSE emit_accumulated_line(h),
                                        w, face.above, face.under)
  IN IF h.word = << >> THEN h ELSE [placed EXCEPT !.word = << >>]

-----------------------------------------------------------------------------
(* Texts *)

\* Stars change the font of a paragraph; in any other font they end it.
Toggle(h, stars) ==
  IF stars > 3 THEN Exit(h)
  ELSE IF h.look.font # "p" THEN paragraph_font(h)
  ELSE IF stars = 2
  THEN [h EXCEPT !.look = [@ EXCEPT !.font = "bold",
                                    !.attributes = IF h.faces["bold"] = NoFace THEN 32 ELSE @]]
  ELSE [h EXCEPT !.look = [@ EXCEPT !.font = "italic",
                                    !.colour = IF h.faces["italic"] = NoFace THEN 7 ELSE @]]

register_url(h, url) ==
  IF url \in Range(h.urls) THEN h
  ELSE IF Len(h.urls) >= MAX_URLS THEN Exit(h) ELSE [h EXCEPT !.urls = Append(@, url)]
\* The columns of a box come from a counter that only knows the start of a line.
register_box(h, url, y1, y2) ==
  LET box == [url |-> url, y1 |-> y1, y2 |-> y2]
  IN IF box \in Range(h.boxes) THEN h
     ELSE IF Len(h.boxes) >= MAX_LINKS THEN Exit(h) ELSE [h EXCEPT !.boxes = Append(@, box)]

Picture(h, t) ==
  LET boxed == IF t.url = "none" THEN h
               ELSE register_box(register_url(h, t.url), t.url, h.screen_y, h.screen_y + t.height - 1)
      n == next_paragraph_no_gap(boxed)
      In(p) == /\ (p \div W) \in n.screen_y .. n.screen_y + t.height - 1
               /\ p % W < t.width
  IN IF t.width > W \/ t.height + h.screen_y > max_lines THEN Exit(boxed)
     ELSE [n EXCEPT !.screen = [p \in DOMAIN @ |-> IF In(p) THEN Cell(<< >>, 0, "picture") ELSE @[p]],
                    !.screen_y = @ + t.height, !.in_paragraph = TRUE]

\* The gap before it, and the word that ends with it.
Gapped == IF g.gap THEN emit_word_gap(g) ELSE g
Token(is) ==
  /\ phase = "text" /\ text # << >> /\ Head(text).is = is
  /\ UNCHANGED <<document, pass, at, file, first>>
Goes(h) == g' = h /\ phase' = IF h.exited THEN "failed" ELSE "text"

Char ==
  /\ Token("char") /\ text' = Tail(text)
  /\ Goes([Gapped EXCEPT !.word = Append(@, Head(text).c), !.in_paragraph = TRUE])
  /\ UNCHANGED link

Blank ==
  /\ Token("space") /\ text' = Tail(text)
  /\ Goes([emit_accumulated_word(Gapped) EXCEPT !.in_paragraph = TRUE, !.gap = TRUE])
  /\ UNCHANGED link

Stars ==
  /\ Token("stars") /\ text' = Tail(text)
  /\ Goes(Toggle(emit_accumulated_word(Gapped), Head(text).n))
  /\ UNCHANGED link

\* emit_text calls itself with the text of the link.
OpenLink ==
  /\ Token("link")
  /\ link' = [url |-> Head(text).url, y1 |-> Gapped.screen_y, colour |-> Gapped.look.colour,
              rest |-> Tail(text)]
  /\ text' = Head(text).alt
  /\ Goes([Gapped EXCEPT !.look.colour = 4, !.look.attributes = 128])

\* The colour is as it was; the attributes are not put back.
CloseLink ==
  /\ phase = "text" /\ text = << >> /\ link # NoLink
  /\ LET e == emit_accumulated_word(g)
         plain == [e EXCEPT !.look.colour = link.colour, !.look.attributes = 0]
         y1 == IF e.screen_y > link.y1 THEN e.screen_y ELSE link.y1
     IN Goes([register_box(register_url(plain, link.url), link.url, y1, e.screen_y)
                EXCEPT !.in_paragraph = TRUE])
  /\ text' = link.rest /\ link' = NoLink
  /\ UNCHANGED <<document, pass, at, file, first>>

Image ==
  /\ Token("picture") /\ text' = Tail(text)
  /\ Goes(Picture(Gapped, Head(text)))
  /\ UNCHANGED link

-----------------------------------------------------------------------------
(* Lines of the file *)

Line(is) ==
  /\ phase = "lines" /\ at <= Len(document) /\ document[at].is = is
  /\ at' = at + 1
  /\ UNCHANGED <<document, pass, link, file, first>>

BlankLine == Line("blank") /\ g' = next_paragraph(g) /\ UNCHANGED <<text, phase>>

Font ==
  /\ Line("font") /\ g' = [g EXCEPT !.faces[document[at].font] = document[at].face]
  /\ UNCHANGED <<text, phase>>

Heading ==
  /\ Line("heading")
  /\ text' = document[at].text
  /\ Goes([next_paragraph(g) EXCEPT
             !.look = [colour |-> 1, attributes |-> 128, font |-> document[at].level]])

Text ==
  /\ Line("text") /\ text' = document[at].text
  /\ Goes([g EXCEPT !.look.attributes = 0])

\* The last bit of a word; a heading is a paragraph of its own.
EndText ==
  /\ phase = "text" /\ text = << >> /\ link = NoLink
  /\ LET e == emit_accumulated_word(g)
     IN g' = IF document[at - 1].is = "heading" THEN next_paragraph(e) ELSE e
  /\ phase' = IF g'.exited THEN "failed" ELSE "lines"
  /\ UNCHANGED <<document, pass, at, text, link, file, first>>

\* URLs grow down from the end of their area, boxes up from its start.
url_addr(urls, i) == UrlArea - FoldFunctionOnSet(+, 0, [k \in 1 .. i |-> 1 + UrlLength[urls[k]]], 1 .. i)
UrlsFit(h) ==
  h.boxes # << >> =>
    LET end == url_addr(h.urls, Len(h.urls))
    IN end >= 2 /\ 2 + BoxSize * (Len(h.boxes) - 1) + BoxSize - 1 < end
UrlData(h) ==
  [i \in DOMAIN h.boxes |->
     [at |-> 2 + BoxSize * (i - 1), y1 |-> h.boxes[i].y1, y2 |-> h.boxes[i].y2,
      url_addr |-> url_addr(h.urls, CHOOSE k \in DOMAIN h.urls : h.urls[k] = h.boxes[i].url)]]

\* At the end of the text the page is written, finished or not.
WritePage ==
  /\ phase = "lines" /\ at > Len(document)
  /\ phase' = IF UrlsFit(g) THEN "written" ELSE "failed"
  /\ file' = [lines |-> g.screen_y, screen |-> g.screen, links |-> UrlData(g)]
  /\ UNCHANGED <<document, pass, at, text, link, g, first>>

Rich == \E i \in DOMAIN document : document[i].is = "text" /\
          \E k \in DOMAIN document[i].text :
            document[i].text[k].is = "picture" /\ document[i].text[k].rich

\* Only the page is cleared for the second pass.
SecondPass ==
  /\ phase = "written" /\ pass = 1 /\ Rich
  /\ pass' = 2 /\ at' = 1 /\ phase' = "lines" /\ first' = file
  /\ g' = [g EXCEPT !.screen = Start.screen, !.screen_y = 0]
  /\ UNCHANGED <<document, text, link, file>>

Init ==
  /\ document \in Documents /\ pass = 1 /\ at = 1 /\ text = << >> /\ link = NoLink
  /\ g = Start /\ phase = "lines" /\ file = << >> /\ first = << >>

Next ==
  \/ Char \/ Blank \/ Stars \/ OpenLink \/ CloseLink \/ Image
  \/ BlankLine \/ Font \/ Heading \/ Text \/ EndText \/ WritePage \/ SecondPass

-----------------------------------------------------------------------------
(* Properties *)

\* All that is set, in the order of the file.
Tokens ==
  FlattenSeq([i \in DOMAIN document |->
    IF document[i].is \in {"text", "heading"} THEN document[i].text ELSE <<[is |-> "end"]>>])
LettersOf(tokens) ==
  FlattenSeq([i \in DOMAIN tokens |->
    CASE tokens[i].is = "char" -> <<tokens[i]>>
      [] tokens[i].is = "link" -> SelectSeq(tokens[i].alt, LAMBDA t : t.is = "char")
      [] OTHER -> << >>])
Letters == LettersOf(Tokens)
OnBaseLine(p) == IF file.screen[p].row = 0 THEN file.screen[p].c ELSE << >>
RowOf(c) == (CHOOSE p \in DOMAIN file.screen : c \in Range(OnBaseLine(p))) \div W

\* The characters of the text are on the page, each once, in their order and
\* looking as the text says, whatever was broken, boxed or drawn between them.
TextIsOnThePage ==
  phase = "written" =>
    LET letters == Letters
    IN /\ FlattenSeq([i \in 1 .. ScreenSize |-> OnBaseLine(i - 1)])
            = [k \in DOMAIN letters |-> letters[k].c]
       /\ \A p \in DOMAIN file.screen : \A k \in DOMAIN letters :
            letters[k].c \in Range(file.screen[p].c) => file.screen[p].look = letters[k].look

WordsIn(y) ==
  LET shown == UNION {Range(OnBaseLine(y * W + x)) : x \in 0 .. W - 1}
  IN {l.word : l \in {k \in Range(Letters) : k.c \in shown}}
LengthOf(w) == Cardinality({l \in Range(Letters) : l.word = w})

\* A word that has room on a line is not broken.
WordsStayWhole ==
  phase = "written" =>
    \A y \in 0 .. max_lines - 2 : \A w \in WordsIn(y) \cap WordsIn(y + 1) : LengthOf(w) > W

\* The box of a link is at the line where its text ends, and has the address of
\* its URL; boxes and URLs do not reach into one another.
LinksLeadThere ==
  phase = "written" =>
    /\ \A i \in DOMAIN Tokens : Tokens[i].is = "link" =>
         \E b \in DOMAIN g.boxes :
           /\ g.boxes[b].url = Tokens[i].url
           /\ RowOf(Last(Tokens[i].alt).c) - file.links[b].y2 \in 0 .. MAX_LINE_HEIGHT - 1
           /\ file.links[b].y1 <= file.links[b].y2
    /\ \A b \in DOMAIN file.links :
         /\ file.links[b].at + BoxSize <= file.links[b].url_addr
         /\ \A d \in DOMAIN file.links :
              /\ d # b => file.links[d].at >= file.links[b].at + BoxSize
                            \/ file.links[b].at >= file.links[d].at + BoxSize
              /\ g.boxes[d].url # g.boxes[b].url =>
                   \/ file.links[d].url_addr > file.links[b].url_addr + UrlLength[g.boxes[b].url]
                   \/ file.links[b].url_addr > file.links[d].url_addr + UrlLength[g.boxes[d].url]

\* The second pass sets the same page as the first, with no link twice.
PassesAgree == phase = "written" /\ pass = 2 => file = first
=============================================================================
