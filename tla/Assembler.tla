----------------------------- MODULE Assembler -----------------------------
(***************************************************************************)
(* The line assembler and the disassembler of m65dbg, as far as they have  *)
(* to agree: the choice of the addressing mode, the bytes of the operands  *)
(* and the arithmetic of branches.                                         *)
(***************************************************************************)
EXTENDS Integers, Sequences

CONSTANTS
  Byte,         \* 2^8; addresses are 0 .. Byte * Byte - 1
  Modes,        \* mnemonic -> addressing modes it has
  Places        \* addresses that are assembled to

ByteAssumption == Byte \in Nat /\ Byte > 4

VARIABLES line, code    \* what the user typed; what it became

vars == <<line, code>>

Addresses == 0 .. Byte * Byte - 1

\* How an operand is written, and the modes it may stand for, short one first.
ModesOf(form) ==
  CASE form = ""         -> <<"impl", "A">>
    [] form = "(x,X)"    -> <<"InnX", "InnnnX">>
    [] form = "x,y"      -> <<"nnrr">>
    [] form = "(x),Y"    -> <<"InnY">>
    [] form = "(x),Z"    -> <<"InnZ">>
    [] form = "x,X"      -> <<"nnX", "nnnnX">>
    [] form = "x,Y"      -> <<"nnY", "nnnnY">>
    [] form = "(x)"      -> <<"Innnn">>
    [] form = "(x,SP),Y" -> <<"InnSPY">>
    [] form = "x"        -> <<"nn", "nnnn", "rr", "rrrr">>
    [] form = "#x"       -> <<"immnn", "immnnnn">>

Forms == {"", "(x,X)", "x,y", "(x),Y", "(x),Z", "x,X", "x,Y", "(x)", "(x,SP),Y", "x", "#x"}

\* Modes tried only for a value of one byte: there is a longer one.
OneByte == {"InnX", "nnX", "nnY", "nn", "immnn"}
LongModes == {"InnnnX", "nnnnX", "nnnnY", "nnnn", "Innnn", "immnnnn"}

Distance(a, b) == IF a < b THEN b - a ELSE a - b

Applies(mode, val, addr) ==
  /\ mode \in OneByte => val < Byte
  /\ mode = "rr" => Distance(val, addr) < Byte

Words(v) == <<v % Byte, v \div Byte>>

\* Wrong variant: the branch counts from its own address.
Relative_FromStart(val, addr, width) ==
  IF val > addr THEN val - addr ELSE (val - addr) % width

\* A branch counts from the byte after a one-byte operand.
Relative(val, addr, width) ==
  IF val > addr THEN val - addr - 2 ELSE (val - addr - 2) % width

operands(mode, val1, val2, addr) ==
  CASE mode \in {"impl", "A"} -> << >>
    [] mode = "nnrr" -> <<val1, Relative(val2, addr, Byte)>>
    [] mode = "rr" -> <<Relative(val1, addr, Byte)>>
    [] mode = "rrrr" -> Words(Relative(val1, addr, Byte * Byte))
    [] mode \in LongModes -> Words(val1)
    [] OTHER -> <<val1>>

Invalid == [mode |-> "none"]
NoCode == [mode |-> "not yet"]

oneShotAssembly(instr, form, val1, val2, addr) ==
  LET Possible(m) == m \in Modes[instr] /\ Applies(m, val1, addr)
      modes == SelectSeq(ModesOf(form), Possible)
  IN IF modes = << >> THEN Invalid
     ELSE [mode |-> modes[1], bytes |-> operands(modes[1], val1, val2, addr)]

Init ==
  /\ line \in [instr : DOMAIN Modes, form : Forms, val : Addresses, addr : Places]
  /\ code = NoCode

Assemble ==
  /\ code = NoCode
  /\ code' = oneShotAssembly(line.instr, line.form, line.val, 0, line.addr)
  /\ UNCHANGED line

Next == Assemble

Spec == Init /\ [][Next]_vars

-----------------------------------------------------------------------------

FormOf(mode) ==
  CHOOSE form \in Forms : \E i \in DOMAIN ModesOf(form) : ModesOf(form)[i] = mode

\* The value a disassembled operand shows.
disassemble_operand(c, addr) ==
  LET b == c.bytes IN
  CASE c.mode = "nnrr" -> <<b[1], addr + 3 + b[2]>>
    [] c.mode = "rr" ->
         <<addr + 2 + b[1] - (IF b[1] >= Byte \div 2 THEN Byte ELSE 0)>>
    [] c.mode = "rrrr" -> <<(addr + 2 + Byte * b[2] + b[1]) % (Byte * Byte)>>
    [] c.mode \in LongModes -> <<Byte * b[2] + b[1]>>
    [] OTHER -> b

-----------------------------------------------------------------------------
(* Properties *)

\* The branch is in the reach of its short form, or so far that it takes the
\* long one; a branch into its own operand is not asked for.
InReach(val, addr) ==
  /\ val # addr + 1
  /\ \/ val - addr - 2 \in -(Byte \div 2) .. (Byte \div 2) - 1
     \/ Distance(val, addr) >= Byte

\* The operand of an instruction comes back from the disassembler as it was
\* given to the assembler, in the form in which it was written.  (Not so for the
\* branches on a bit: the assembler counts from the second byte, the
\* disassembler from the third and without the sign.)
ComesBack ==
  \/ code \in {NoCode, Invalid}
  \/ code.mode \in {"rr", "rrrr"} /\ ~InReach(line.val, line.addr)
  \/ code.mode \in {"InnY", "InnZ", "InnSPY"} /\ line.val >= Byte
  \/ code.mode = "nnrr"
  \/ /\ FormOf(code.mode) = line.form
     /\ disassemble_operand(code, line.addr) = IF line.form = "" THEN << >> ELSE <<line.val>>

=============================================================================
