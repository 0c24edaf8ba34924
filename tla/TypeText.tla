------------------------------ MODULE TypeText ------------------------------
(***************************************************************************)
(* m65 types a text on the virtual keyboard of the MEGA65: it writes the   *)
(* keys that are down to a register, waits for the scan of the keyboard,   *)
(* and writes that no key is down.  A tilde in the text of the command     *)
(* line begins a control sequence; a tilde that is typed at the terminal,  *)
(* or stands in lines of input (on Windows), switches between the keyboard *)
(* and the buffered UART.                                                  *)
(***************************************************************************)
EXTENDS Integers, Sequences, SequencesExt

CONSTANTS
  Plain,       \* keys without shift
  Shifted,     \* characters that need shift; each is a key with "shift"
  Upper,       \* upper case letters
  Controls,    \* RUN/STOP, HOME, RETURN, the cursor keys, the function keys
  Texts        \* [from |-> "option", "terminal" or "lines", tokens, cr]

TypeTextAssumption ==
  /\ \A a, b \in {Plain, Shifted, Upper, Controls} : a = b \/ a \cap b = {}
  /\ \A t \in Texts : t.from \in {"option", "terminal", "lines"} /\ t.cr \in BOOLEAN

VARIABLES
  type_text, i,          \* the text and the position in it
  c1,                    \* do_type_text: the character of a control sequence
  type_serial_mode,
  todo,                  \* values still to be written to the register
  keys,                  \* the register at $FFD3615: the keys that are down
  scanned,               \* the interrupt has looked at it since
  down, received, uart   \* what the MEGA65 saw last, got from the keyboard
                         \* and through the UART

vars == <<type_text, i, c1, type_serial_mode, todo, keys, scanned, down, received, uart>>

Return == [is |-> "control", c |-> "RETURN"]

Init ==
  /\ type_text \in Texts /\ i = 1
  /\ c1 \in {"none"} \cup Controls               \* c1 is not initialised
  /\ type_serial_mode = FALSE
  /\ todo = << >> /\ keys = {} /\ scanned = TRUE
  /\ down = {} /\ received = << >> /\ uart = << >>

\* Wrong variant: shift and the key are pressed at once.
KeysOf_AtOnce(c) ==
  IF c \in Shifted THEN <<{"shift", c}>>
  ELSE IF c \in Upper THEN <<{"shift"}>>
  ELSE IF c \in Plain \cup Controls THEN <<{c}>> ELSE <<{}>>

\* The two switch statements: a shifted character is shift first and then
\* shift with the key; no case of the second one is an upper case letter.
KeysOf(c) ==
  IF c \in Shifted THEN <<{"shift"}, {"shift", c}>>
  ELSE IF c \in Upper THEN <<{"shift"}, {"shift"}>>
  ELSE IF c \in Plain \cup Controls THEN <<{c}>> ELSE <<{}>>

do_type_key(c) ==
  IF type_serial_mode
  THEN /\ uart' = Append(uart, c) /\ UNCHANGED todo
  ELSE /\ todo' = Append(KeysOf(c), {}) /\ UNCHANGED uart

Ready == todo = << >> /\ scanned /\ i <= Len(type_text.tokens)
Token == type_text.tokens[i]

TypeCharacter ==
  /\ Ready /\ Token.is = "char" /\ type_text.from \in {"option", "lines"}
  /\ do_type_key(Token.c) /\ i' = i + 1
  /\ UNCHANGED <<type_text, c1, type_serial_mode, keys, scanned, down, received>>

\* A key at the terminal: TAB, DEL, RETURN and the sequences of the cursor keys
\* are translated.
TypeAtTerminal ==
  /\ Ready /\ Token.is \in {"char", "control"} /\ type_text.from = "terminal"
  /\ do_type_key(Token.c) /\ i' = i + 1
  /\ UNCHANGED <<type_text, c1, type_serial_mode, keys, scanned, down, received>>

\* A control sequence of the option; a pause leaves c1 as it was.
TypeControl ==
  /\ Ready /\ Token.is \in {"control", "pause"} /\ type_text.from = "option"
  /\ c1' = IF Token.is = "control" THEN Token.c ELSE c1
  /\ do_type_key(c1') /\ i' = i + 1
  /\ UNCHANGED <<type_text, type_serial_mode, keys, scanned, down, received>>

\* A tilde typed at the terminal.
SwitchMode ==
  /\ Ready /\ Token.is = "tilde"
  /\ type_serial_mode' = ~type_serial_mode /\ i' = i + 1
  /\ UNCHANGED <<type_text, c1, todo, keys, scanned, down, received, uart>>

\* The end of a line is always a key; a line with only a dot ends the text.
EndOfLine ==
  /\ Ready /\ Token.is = "eol"
  /\ todo' = <<{"RETURN"}, {}>> /\ i' = i + 1
  /\ UNCHANGED <<type_text, c1, type_serial_mode, keys, scanned, down, received, uart>>
DotLine ==
  /\ Ready /\ Token.is = "dot" /\ i' = Len(type_text.tokens) + 1
  /\ UNCHANGED <<type_text, c1, type_serial_mode, todo, keys, scanned, down, received, uart>>

\* The end of the text: RETURN where asked for, then no key.
EndText ==
  /\ todo = << >> /\ scanned /\ i = Len(type_text.tokens) + 1
  /\ i' = i + 1
  /\ todo' = (IF type_text.cr /\ type_text.from = "option" THEN <<{"RETURN"}>> ELSE << >>) \o <<{}>>
  /\ UNCHANGED <<type_text, c1, type_serial_mode, keys, scanned, down, received, uart>>

\* slow_write of the register; the tool waits for a scan before the next.
WriteKeys ==
  /\ todo # << >> /\ scanned
  /\ keys' = Head(todo) /\ todo' = Tail(todo) /\ scanned' = FALSE
  /\ UNCHANGED <<type_text, i, c1, type_serial_mode, down, received, uart>>

\* The keyboard interrupt: a key that was not down before is a character.
Scan ==
  /\ ~scanned /\ scanned' = TRUE
  /\ down' = keys
  /\ received' = LET new == (keys \ down) \ {"shift"} IN
                 IF new = {} THEN received
                 ELSE Append(received, [c |-> CHOOSE k \in new : TRUE,
                                        shift |-> "shift" \in down \cap keys])
  /\ UNCHANGED <<type_text, i, c1, type_serial_mode, todo, keys, uart>>

Tool == TypeCharacter \/ TypeAtTerminal \/ TypeControl \/ SwitchMode \/ EndOfLine \/ DotLine
        \/ EndText \/ WriteKeys
Next == Tool \/ Scan
Spec == Init /\ [][Next]_vars

-----------------------------------------------------------------------------
(* Properties *)

Typed == i = Len(type_text.tokens) + 2 /\ todo = << >> /\ scanned

\* The tokens up to a dot on a line; which of them go to the UART: those between
\* two tildes.
TypedTokens ==
  LET dots == {n \in DOMAIN type_text.tokens : type_text.tokens[n].is = "dot"}
  IN 1 .. (IF dots = {} THEN Len(type_text.tokens) ELSE Min(dots) - 1)
ToUart(n) == Len(SelectSeq(SubSeq(type_text.tokens, 1, n), LAMBDA t : t.is = "tilde")) % 2 = 1

Expected(uartToo) ==
  LET Add(seq, n) ==
        LET t == type_text.tokens[n] IN
        IF t.is = "eol" THEN IF uartToo THEN seq ELSE Append(seq, "RETURN")
        ELSE IF t.is \in {"char", "control"} /\ ToUart(n) = uartToo THEN Append(seq, t.c) ELSE seq
  IN FoldLeft(Add, << >>, [n \in TypedTokens |-> n])

\* The MEGA65 gets the characters of the text, each of them once, in order and
\* with shift where it belongs, by the keyboard or by the UART, and no key
\* stays down.
TextArrives ==
  Typed =>
    /\ down = {}
    /\ [n \in DOMAIN received |-> received[n].c] =
         Expected(FALSE) \o (IF type_text.cr /\ type_text.from = "option" THEN <<"RETURN">> ELSE << >>)
    /\ \A n \in DOMAIN received : received[n].shift = (received[n].c \in Shifted)
    /\ uart = Expected(TRUE)

=============================================================================
