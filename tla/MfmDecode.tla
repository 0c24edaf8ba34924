----------------------------- MODULE MfmDecode -----------------------------
(***************************************************************************)
(* mfm-decode.c: from the gaps between the pulses of a floppy track to the *)
(* fields it tells about, in MFM and, once a track info block says so, in  *)
(* RLL2,7.  A gap is counted in hundredths of the length of a bit; the     *)
(* track is what the floppy controller writes.                             *)
(***************************************************************************)
EXTENDS Integers, Sequences, FiniteSets, SequencesExt, Bitwise

CONSTANTS
  Tracks,      \* sequences of fields: how they are written, bytes, CRC good or not
  DataSize,    \* bytes of a sector, 512
  FieldSize,   \* room for a field, 1024
  MfmShifts, RllShifts,   \* how far a gap may be from its length
  Short        \* a pulse this short after another one is noise

VARIABLES
  track,       \* the fields
  gaps,        \* lengths of the gaps still to come, with their encoding
  d,           \* the decoder
  previous_partial_gap, recent_gaps, last_gap,
  reports      \* what was told of the fields

vars == <<track, gaps, d, previous_partial_gap, recent_gaps, last_gap, reports>>

MfmAssumption ==
  /\ DataSize \in Nat \ {0} /\ FieldSize >= DataSize + 3
  /\ MfmShifts \subseteq -24 .. 24 /\ RllShifts \subseteq -49 .. 49 /\ Short \in 1 .. 69

-----------------------------------------------------------------------------
(* Check sums *)

Shifted(w) == IF w >= 32768 THEN ((2 * w) % 65536) ^^ 4129 ELSE 2 * w
crc_ccitt ==
  [i \in 0 .. 255 |-> FoldLeft(LAMBDA w, n : Shifted(w), 256 * i, <<1, 2, 3, 4, 5, 6, 7, 8>>)]
crc16(crc, b) == ((256 * crc) % 65536) ^^ crc_ccitt[(crc \div 256) ^^ b]
crc_of(bytes) == FoldLeft(crc16, 65535, <<161, 161, 161>> \o bytes)

-----------------------------------------------------------------------------
(* The track: what the floppy controller writes *)

BitsOf(byte) == [n \in 1 .. 8 |-> (byte \div 2 ^ (8 - n)) % 2]
AllBits(bytes) == FlattenSeq([n \in DOMAIN bytes |-> BitsOf(bytes[n])])

\* MFM: a clock pulse between two zeros; the mark $A1 misses one of them.
Mark == <<0, 1, 0, 0, 0, 1, 0, 0, 1, 0, 0, 0, 1, 0, 0, 1>>
MfmPulses(before, bits) ==
  FlattenSeq([n \in DOMAIN bits |->
    LET last == IF n = 1 THEN before ELSE bits[n - 1]
    IN <<IF last = 0 /\ bits[n] = 0 THEN 1 ELSE 0, bits[n]>>])

\* RLL2,7: the code of the bits a row of them begins with.
RllCodes ==
  {<<<<1, 1>>, <<1, 0, 0, 0>>>>, <<<<1, 0>>, <<0, 1, 0, 0>>>>,
   <<<<0, 0, 0>>, <<1, 0, 0, 1, 0, 0>>>>, <<<<0, 1, 0>>, <<0, 0, 0, 1, 0, 0>>>>,
   <<<<0, 1, 1>>, <<0, 0, 1, 0, 0, 0>>>>,
   <<<<0, 0, 1, 1>>, <<0, 0, 0, 0, 1, 0, 0, 0>>>>,
   <<<<0, 0, 1, 0>>, <<0, 0, 1, 0, 0, 1, 0, 0>>>>}
RllPulses(bits) ==
  LET From[n \in 1 .. Len(bits) + 1] ==
        LET codes == {c \in RllCodes : IsPrefix(c[1], SubSeq(bits, n, Len(bits)))}
        IN IF codes = { } THEN << >>
           ELSE LET c == CHOOSE c \in codes : TRUE IN c[2] \o From[n + Len(c[1])]
  IN From[1]
RllMark == <<0, 0, 0, 0, 0, 0, 0, 1, 0, 0, 1>>

Written(f) ==
  LET crc == IF f.good THEN crc_of(f.bytes) ELSE crc_of(f.bytes) ^^ 1
  IN f.bytes \o <<crc \div 256, crc % 256>>
Filler == <<78, 78>>
\* A field in front of which the bits end with a 0, behind three marks.
Pulses(f) ==
  IF f.encoding = "MFM"
  THEN MfmPulses(0, AllBits(<<0, 0>>)) \o Mark \o Mark \o Mark
         \o MfmPulses(1, AllBits(Written(f) \o Filler))
  ELSE RllPulses(AllBits(<<0, 0, 0>>)) \o <<1>> \o RllMark \o RllMark \o RllMark
         \o <<0, 0>> \o RllPulses(AllBits(Written(f) \o Filler))

\* Distances from pulse to pulse; half a bit each in MFM.
Gaps(f) ==
  LET p == Pulses(f)
      at == SelectSeq([n \in DOMAIN p |-> n], LAMBDA n : p[n] = 1)
      unit == IF f.encoding = "MFM" THEN 50 ELSE 100
  IN [n \in 1 .. Len(at) - 1 |-> [len |-> unit * (at[n + 1] - at[n]), encoding |-> f.encoding]]

-----------------------------------------------------------------------------
(* The decoder *)

quantise_gap_mfm(gap) == IF gap <= 125 THEN 100 ELSE IF gap <= 175 THEN 150 ELSE 200
quantise_gap_rll27(gap) ==
  (IF gap < 350 THEN 300 ELSE IF gap < 450 THEN 400 ELSE IF gap < 550 THEN 500
   ELSE IF gap < 650 THEN 600 ELSE IF gap < 750 THEN 700 ELSE 800) - 100
quantise_gap(gap) ==
  IF d.rll_encoding THEN quantise_gap_rll27(gap) ELSE quantise_gap_mfm(gap)

Report(e, is, count) ==
  LET bytes == [n \in 1 .. count |-> e.data_field[n - 1]]
  IN [is |-> is, bytes |-> SubSeq(bytes, 1, count - 2), ok |-> crc_of(bytes) = 0]
With(e, report) == [e EXCEPT !.told = Append(@, report)]

\* The encoding is taken over before the check sum is looked at.  A sector that
\* was told of is cleared, its type, too.
describe_data(e) ==
  LET type == e.data_field[0]
  IN CASE type = 101 /\ e.field_ofs > 6 ->
            [With(e, Report(e, "track info", 7)) EXCEPT
               !.rll_encoding = e.data_field[3] % 16 = 1]
       [] type = 254 -> With(e, Report(e, "header", 7))
       [] type = 251 ->
            [With(e, Report(e, "data", DataSize + 3)) EXCEPT
               !.data_field = [n \in DOMAIN @ |-> IF n < DataSize THEN 0 ELSE @[n]]]
       [] type = 255 -> [e EXCEPT !.field_ofs = 0]
       [] OTHER -> e

\* A byte is the type of a field right behind the third mark.
EmitByte(e) ==
  LET stored ==
        IF e.sync_count = 3
        THEN [e EXCEPT !.sync_count = 0, !.field_ofs = 1, !.data_field[0] = e.byte]
        ELSE IF e.field_ofs < FieldSize
        THEN [e EXCEPT !.data_field[e.field_ofs] = e.byte, !.field_ofs = @ + 1]
        ELSE e
      told == IF e.sync_count # 3 /\ stored.data_field[0] = 101 /\ stored.field_ofs = 7
              THEN describe_data(stored) ELSE stored
  IN [told EXCEPT !.bytes_emitted = @ + 1, !.byte = 0, !.bits = 0]

emit_bit(e, b) ==
  LET f == [e EXCEPT !.last_bit = b, !.byte = (2 * @ + b) % 256, !.bits = @ + 1]
  IN IF f.bits = 8 THEN EmitByte(f) ELSE f
Emit(e, bits) == FoldLeft(emit_bit, e, bits)

buffer_bit(e, b) ==
  IF e.skip_bits > 0 THEN [e EXCEPT !.skip_bits = @ - 1]
  ELSE IF Len(e.buffered) < 16 THEN [e EXCEPT !.buffered = Append(@, b)] ELSE e

\* One code of each length is taken from the buffer, the longest first.
TakeCode(e, n) ==
  LET codes == {c \in RllCodes : Len(c[2]) = n /\ IsPrefix(c[2], e.buffered)}
  IN IF codes = { } THEN e
     ELSE LET c == CHOOSE c \in codes : TRUE
              f == Emit(e, c[1])
          IN [f EXCEPT !.buffered = SubSeq(@, n + 1, Len(@))]
rll27_decode_gap(e, gap) ==
  LET zeros == [n \in 1 .. gap \div 100 |-> 0]
  IN FoldLeft(TakeCode, FoldLeft(buffer_bit, e, zeros \o <<1>>), <<8, 6, 4>>)

\* What a gap means depends on whether the last pulse stood for a 1.
MfmBitsOf(gap) ==
  IF last_gap = 0 THEN CASE gap = 100 -> <<1, 1>> [] gap = 150 -> <<0, 1>> [] OTHER -> <<1, 0, 1>>
  ELSE IF d.last_bit = 1
  THEN CASE gap = 100 -> <<1>> [] gap = 150 -> <<0, 0>> [] OTHER -> <<0, 1>>
  ELSE CASE gap = 100 -> <<0>> [] gap = 150 -> <<1>> [] OTHER -> <<0, 1>>

IsSync(recent) ==
  IF d.rll_encoding THEN SubSeq(recent, 3, 4) = <<700, 200>>
  ELSE recent = <<200, 150, 200, 150>>

\* A mark ends the field before it.
Sync(e) ==
  LET f == IF e.bytes_emitted > 0 THEN [describe_data(e) EXCEPT !.sync_count = 0] ELSE e
  IN [f EXCEPT !.sync_count = @ + 1, !.bits = 0, !.byte = 0, !.bytes_emitted = 0,
               !.buffered = <<1>>, !.skip_bits = IF f.rll_encoding THEN 3 ELSE @]

\* What the decoder has to tell is printed at once.
Goes(e) == d' = [e EXCEPT !.told = << >>] /\ reports' = reports \o e.told

mfm_decode(gap) ==
  LET gap_in == gap + previous_partial_gap
      q == quantise_gap(gap_in)
      recent == Append(Tail(recent_gaps), q)
  IN IF gap_in < 70
     THEN previous_partial_gap' = gap /\ UNCHANGED <<d, recent_gaps, last_gap, reports>>
     ELSE /\ previous_partial_gap' = 0 /\ recent_gaps' = recent
          /\ IF IsSync(recent) THEN Goes(Sync(d)) /\ UNCHANGED last_gap
             ELSE /\ Goes(IF d.rll_encoding THEN rll27_decode_gap(d, q) ELSE Emit(d, MfmBitsOf(q)))
                  /\ last_gap' = q

-----------------------------------------------------------------------------
Init ==
  /\ track \in Tracks
  /\ gaps = FlattenSeq([n \in DOMAIN track |-> Gaps(track[n])])
  /\ d = [rll_encoding |-> FALSE, last_bit |-> 0, byte |-> 0, bits |-> 0,
          bytes_emitted |-> 0, sync_count |-> 0, field_ofs |-> 0,
          data_field |-> [n \in 0 .. FieldSize - 1 |-> 0],
          skip_bits |-> 0, buffered |-> << >>, told |-> << >>]
  /\ previous_partial_gap = 0 /\ recent_gaps = <<0, 0, 0, 0>> /\ last_gap = 0
  /\ reports = << >>

\* A pulse comes a little early or late.
Gap ==
  /\ gaps # << >> /\ gaps' = Tail(gaps) /\ UNCHANGED track
  /\ \E shift \in IF Head(gaps).encoding = "MFM" THEN MfmShifts ELSE RllShifts :
       mfm_decode(Head(gaps).len + shift)

\* Noise soon after a pulse: one gap becomes two.
NoisyGap ==
  /\ gaps # << >> /\ previous_partial_gap = 0
  /\ gaps' = <<[Head(gaps) EXCEPT !.len = @ - Short]>> \o Tail(gaps)
  /\ mfm_decode(Short) /\ UNCHANGED track

Next == Gap \/ NoisyGap

Spec == Init /\ [][Next]_vars

-----------------------------------------------------------------------------
(* Properties *)

\* Every field that another follows is told of with its bytes, and its check sum
\* found good if it was; a track info block at once, and again at its end.
Told(f) ==
  LET is == CASE f.bytes[1] = 101 -> "track info" [] f.bytes[1] = 254 -> "header"
              [] OTHER -> "data"
  IN [is |-> is, bytes |-> f.bytes, ok |-> f.good]
Expected ==
  FlattenSeq([n \in DOMAIN track |->
    IF track[n].bytes[1] = 101 THEN <<Told(track[n]), Told(track[n])>> ELSE <<Told(track[n])>>])
FieldsAreTold ==
  /\ IsPrefix(reports, Expected)
  /\ gaps = << >> => Len(Expected) - Len(reports) = 1
=============================================================================
