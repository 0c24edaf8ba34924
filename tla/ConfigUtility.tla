---------------------------- MODULE ConfigUtility ----------------------------
(***************************************************************************)
(* mega65_config: the settings of the MEGA65 on pages under five tabs and  *)
(* a save tab.  The options shown are copies, filled from the default      *)
(* block at the start; saving puts them into a block, the block into the   *)
(* sector buffer, and asks the hypervisor to store or to apply that.       *)
(***************************************************************************)
EXTENDS Integers, Sequences, FiniteSets

CONSTANTS
  Pages,        \* tab -> its pages, each a sequence of options
  Option,       \* option -> [kind, cells]: the cells of a block it stands for
  Cells,        \* parts of a configuration block; 0 and 1 are its version
  Running,      \* what the running system tells of the cells it knows
  Cards,        \* blocks the card may hold
  Chars,        \* characters of texts, 1 .. ; 0 ends a text
  Digits,       \* digits typed into a MAC
  MaxChanges    \* bound on edits

ConfigAssumption ==
  /\ \A tab \in DOMAIN Pages : \A p \in DOMAIN Pages[tab] : Pages[tab][p] \in Seq(DOMAIN Option)
  /\ {0, 1} \subseteq Cells /\ DOMAIN Running \subseteq Cells \ {0, 1}
  /\ \A tab \in DOMAIN Pages : \A p \in DOMAIN Pages[tab] :
       \E n \in DOMAIN Pages[tab][p] : Option[Pages[tab][p][n]].kind # "MAC"
  /\ \A o \in DOMAIN Option : Option[o].kind = "MAC" => Len(Option[o].cells) % 2 = 0
  /\ Cards \subseteq [Cells -> Nat] /\ Digits \subseteq 0 .. 15 /\ MaxChanges \in Nat

SaveTab == 5                       \* tabMaxCount
Version == 1                       \* the magic bytes
Options == DOMAIN Option
\* The cells of a MAC are the digits of its bytes, the high one first.
MACs == {o \in Options : Option[o].kind = "MAC"}
CellsOf(o) == {Option[o].cells[i] : i \in DOMAIN Option[o].cells}

VARIABLES
  tabSelected, pgeSelected,
  selectedOpt,     \* position on the page, 0 none
  saveSlctOpt,     \* the save button chosen on the first page, "none"
  progTermint,     \* the program ends
  cursor,          \* -1, or where the next character of a text or MAC goes
  opts,            \* option -> its value on the pages
  shown,           \* MAC -> the digits on the screen, last time it was there
  spoilt,          \* history: <<MAC, digit>> that a letter behind it has changed
  optDflt, optSess,\* the two blocks in memory
  card, applied,   \* the block on the card; the block in effect
  changes

selection == <<tabSelected, pgeSelected, selectedOpt, saveSlctOpt, cursor>>
stored == <<optDflt, optSess, card, applied>>
screen == <<shown, spoilt>>
vars == <<selection, progTermint, opts, screen, stored, changes>>

-----------------------------------------------------------------------------
(* Options and blocks *)

IsOn(block, o) == \E c \in CellsOf(o) : block[c] # 0

\* doReadOpt: a toggle is on when any of its bits is set.
doReadOpt(block, o) ==
  IF Option[o].kind = "toggle" THEN <<IF IsOn(block, o) THEN 1 ELSE 0>>
  ELSE [i \in DOMAIN Option[o].cells |-> block[Option[o].cells[i]]]

readDefaultOpts(block) == [o \in Options |-> doReadOpt(block, o)]

Position(o, c) == CHOOSE i \in DOMAIN Option[o].cells : Option[o].cells[i] = c

\* doSaveOptions: the bits of a toggle are all set or all cleared, the cells of
\* no option stay as they are.
doSaveOptions(block) ==
  [c \in Cells |->
     LET of == {o \in Options : c \in CellsOf(o)} IN
     IF of = {} THEN block[c]
     ELSE LET o == CHOOSE o \in of : TRUE IN
          IF Option[o].kind = "toggle" THEN opts[o][1] ELSE opts[o][Position(o, c)]]

\* What reaches the sector buffer.
ToSectorBuffer(block) == [block EXCEPT ![0] = Version, ![1] = Version]

\* The addresses of the network card go into the hidden sector buffer, not into
\* the block: they stay 0.
getDefaultSettings ==
  [c \in Cells |-> IF c \in {0, 1} THEN Version
                   ELSE IF c \in DOMAIN Running THEN Running[c] ELSE 0]

-----------------------------------------------------------------------------
(* Pages *)

SaveButtons == <<"exit", "apply", "this", "system">>
ConfirmButtons == <<"yes", "no">>

PageCount(tab) == IF tab = SaveTab THEN 3 ELSE Len(Pages[tab])

Page(tab, page) ==
  IF tab = SaveTab THEN <<SaveButtons, ConfirmButtons, << >> >>[page + 1]
  ELSE Pages[tab][page + 1]

page == Page(tabSelected, pgeSelected)
Kind(x) == IF x \in Options THEN Option[x].kind ELSE "button"

\* doUpdateSelected: the cursor goes behind a text and to the start of a MAC.
CursorOf(o) ==
  CASE Kind(o) = "text" ->
         Cardinality({i \in DOMAIN opts[o] : \A j \in 1 .. i : opts[o][j] # 0})
    [] Kind(o) = "MAC" -> 0
    [] OTHER -> -1

Select(n) ==
  /\ selectedOpt' = n
  /\ cursor' = IF n = 0 THEN -1 ELSE CursorOf(Page(tabSelected', pgeSelected')[n])

\* displayOptionsPage; a question starts at its second button, no.  A MAC is drawn
\* from its bytes.
displayOptionsPage(tab, p) ==
  /\ tabSelected' = tab /\ pgeSelected' = p
  /\ LET drawn == {o \in MACs : \E n \in DOMAIN Page(tab, p) : Page(tab, p)[n] = o} IN
       /\ shown' = [o \in MACs |-> IF o \in drawn THEN opts[o] ELSE shown[o]]
       /\ spoilt' = {s \in spoilt : s[1] \notin drawn}
  /\ Select(IF tab = SaveTab /\ p = 1 THEN 2 ELSE IF Page(tab, p) = << >> THEN 0 ELSE 1)

\* checkMagicBytes: a block that does not fit is replaced once the user has
\* pressed F14, an empty one at once.
MagicBytesFit(block) == block[1] = Version /\ block[0] <= Version

Init ==
  /\ card \in Cards
  /\ optDflt = IF MagicBytesFit(card) THEN card ELSE getDefaultSettings
  /\ optSess = [c \in Cells |-> 0] /\ applied = card
  /\ opts = readDefaultOpts(optDflt)
  /\ shown = [o \in MACs |-> opts[o]] /\ spoilt = {}
  /\ tabSelected = 0 /\ pgeSelected = 0 /\ selectedOpt = 1
  /\ cursor = CursorOf(page[1])
  /\ saveSlctOpt = "none" /\ progTermint = FALSE /\ changes = 0

-----------------------------------------------------------------------------
(* Moving about *)

GoTo(tab, p, button) ==
  /\ ~progTermint
  /\ displayOptionsPage(tab, p) /\ saveSlctOpt' = button
  /\ UNCHANGED <<progTermint, opts, stored, changes>>

\* F1, F2, F7 and a click on the menu.
moveTabLeft == GoTo(IF tabSelected + 1 < SaveTab THEN tabSelected + 1 ELSE 0, 0, "none")
moveTabRight == GoTo(IF tabSelected = 0 THEN SaveTab - 1 ELSE tabSelected - 1, 0, "none")
showSaveTab == GoTo(SaveTab, 0, "none")
doClickMenu(tab) == tab # tabSelected /\ GoTo(tab, 0, "none")

\* F3, F4 and a click on the footer.
moveNextPage ==
  /\ tabSelected # SaveTab
  /\ GoTo(tabSelected, (pgeSelected + 1) % PageCount(tabSelected), saveSlctOpt)

movePriorPage ==
  /\ tabSelected # SaveTab
  /\ GoTo(tabSelected, (pgeSelected - 1) % PageCount(tabSelected), saveSlctOpt)

\* F8 asks at once whether to apply.
doJumpApplyNow == GoTo(SaveTab, 1, "apply")

\* Cursor keys and the mouse; a MAC is only selected with its page.
MayBeSelected(n) == Kind(page[n]) # "MAC"

\* The position that many steps further down or up the page, which goes round.
Moved(n, by) == ((n - 1 + by) % Len(page)) + 1

\* The nearest one in that direction that may be selected.
NextFrom(n, direction) ==
  LET steps == {k \in 1 .. Len(page) : MayBeSelected(Moved(n, direction * k))}
      nearest == CHOOSE k \in steps : \A j \in steps : k <= j
  IN Moved(n, direction * nearest)

SelectOnPage(n) ==
  /\ ~progTermint
  /\ UNCHANGED <<tabSelected, pgeSelected, saveSlctOpt, progTermint, opts, screen, stored,
                 changes>>
  /\ Select(n)

\* A page has something to select besides a MAC: the search for it goes round.
moveSelectDown == selectedOpt # 0 /\ SelectOnPage(NextFrom(selectedOpt, 1))
moveSelectUp == selectedOpt # 0 /\ SelectOnPage(NextFrom(selectedOpt, -1))

hotTrackMouse(n) == MayBeSelected(n) /\ SelectOnPage(n)

-----------------------------------------------------------------------------
(* Changing options *)

Change(o, value) ==
  /\ ~progTermint /\ changes < MaxChanges /\ changes' = changes + 1
  /\ opts' = [opts EXCEPT ![o] = value]
  /\ UNCHANGED <<tabSelected, pgeSelected, saveSlctOpt, progTermint, stored>>

Selected(kind) == selectedOpt # 0 /\ Kind(page[selectedOpt]) = kind

\* Return and space, and a click on the label.
doTestToggleKeys ==
  /\ Selected("toggle")
  /\ LET o == page[selectedOpt] IN Change(o, <<1 - opts[o][1]>>)
  /\ UNCHANGED <<selectedOpt, cursor, screen>>

\* A click on the line of one of the two values also selects the option.
doMouseClick(n, value) ==
  /\ Kind(page[n]) = "toggle"
  /\ Change(page[n], <<value>>) /\ selectedOpt' = n /\ cursor' = -1
  /\ UNCHANGED screen

doAppStringChar(ch) ==
  /\ Selected("text")
  /\ LET o == page[selectedOpt] IN
       /\ cursor < Len(opts[o])
       /\ Change(o, [opts[o] EXCEPT ![cursor + 1] = ch])
  /\ cursor' = cursor + 1 /\ UNCHANGED <<selectedOpt, screen>>

doDelStringChar ==
  /\ Selected("text") /\ cursor > 0
  /\ LET o == page[selectedOpt] IN Change(o, [opts[o] EXCEPT ![cursor] = 0])
  /\ cursor' = cursor - 1 /\ UNCHANGED <<selectedOpt, screen>>

\* A MAC is overwritten digit by digit; delete only moves back.  A letter arrives
\* as $2A to $2F: behind it, as a high digit, nothing is left of the $20; as a low
\* digit it is put into the byte with it, so the high digit gets bit 1.
WithBit1(digit) == IF (digit \div 2) % 2 = 0 THEN digit + 2 ELSE digit

doAppMACChar(digit) ==
  /\ Selected("MAC")
  /\ LET o == page[selectedOpt]
         high == cursor % 2 = 0
         spoils == ~high /\ digit >= 10
         typed == [opts[o] EXCEPT ![cursor + 1] = digit]
     IN /\ cursor < Len(opts[o])
        /\ Change(o, IF spoils THEN [typed EXCEPT ![cursor] = WithBit1(@)] ELSE typed)
        /\ shown' = [shown EXCEPT ![o][cursor + 1] = digit]
        /\ spoilt' = IF high THEN spoilt \ {<<o, cursor + 1>>}
                     ELSE IF spoils THEN spoilt \cup {<<o, cursor>>} ELSE spoilt
  /\ cursor' = cursor + 1 /\ UNCHANGED selectedOpt

doDelMACChar ==
  /\ Selected("MAC") /\ cursor > 0 /\ ~progTermint
  /\ cursor' = cursor - 1
  /\ UNCHANGED <<tabSelected, pgeSelected, selectedOpt, saveSlctOpt, progTermint,
                 opts, screen, stored, changes>>

-----------------------------------------------------------------------------
(* Saving *)

\* saveSessionOpts; the block of the session never had the other cells.
saveSessionOpts ==
  /\ optSess' = doSaveOptions(optSess)
  /\ applied' = ToSectorBuffer(optSess')

\* Wrong variant: what is shown is not put into the default block.
saveDefaultOpts_AsRead ==
  /\ card' = ToSectorBuffer(optDflt)
  /\ UNCHANGED optDflt

\* saveDefaultOpts stores the default block and applies the session block as
\* it was; saveSessionOpts comes after it.
saveDefaultOpts ==
  /\ optDflt' = doSaveOptions(optDflt)
  /\ card' = ToSectorBuffer(optDflt')

doPerformSaveAction ==
  CASE saveSlctOpt = "apply"  -> saveSessionOpts /\ UNCHANGED <<optDflt, card, progTermint>>
    [] saveSlctOpt = "this"   -> saveSessionOpts /\ progTermint' = TRUE /\ UNCHANGED <<optDflt, card>>
    [] saveSlctOpt = "system" -> saveDefaultOpts /\ saveSessionOpts /\ progTermint' = TRUE
    [] saveSlctOpt = "exit"   -> progTermint' = TRUE /\ UNCHANGED stored
    [] OTHER -> UNCHANGED <<stored, progTermint>>

\* doHandleSaveButton: return, or a click, on button n.  What it leaves in
\* saveSlctOpt is the content of $FF.
ChooseSave(n) ==
  /\ ~progTermint /\ tabSelected = SaveTab /\ pgeSelected = 0
  /\ saveSlctOpt' = SaveButtons[n]
  /\ displayOptionsPage(SaveTab, 1)
  /\ UNCHANGED <<progTermint, opts, stored, changes>>

ConfirmSave(n) ==
  /\ ~progTermint /\ tabSelected = SaveTab /\ pgeSelected = 1
  /\ IF ConfirmButtons[n] = "no" THEN UNCHANGED <<stored, progTermint>> ELSE doPerformSaveAction
  /\ \E left \in {"none", "exit", "apply", "this", "system"} : saveSlctOpt' = left
  /\ displayOptionsPage(SaveTab, IF progTermint' THEN 2 ELSE 0)
  /\ UNCHANGED <<opts, changes>>

-----------------------------------------------------------------------------

Next ==
  \/ moveTabLeft \/ moveTabRight \/ showSaveTab \/ moveNextPage \/ movePriorPage
  \/ doJumpApplyNow \/ moveSelectDown \/ moveSelectUp
  \/ \E tab \in 0 .. SaveTab : doClickMenu(tab)
  \/ \E n \in DOMAIN page : hotTrackMouse(n)
  \/ doTestToggleKeys
  \/ \E n \in DOMAIN page, value \in 0 .. 1 : doMouseClick(n, value)
  \/ \E ch \in Chars : doAppStringChar(ch)
  \/ \E digit \in Digits : doAppMACChar(digit)
  \/ doDelStringChar \/ doDelMACChar
  \/ \E n \in DOMAIN SaveButtons : ChooseSave(n)
  \/ \E n \in DOMAIN ConfirmButtons : ConfirmSave(n)

Spec == Init /\ [][Next]_vars

-----------------------------------------------------------------------------
(* Properties *)

Covered == UNION {CellsOf(o) : o \in Options}

\* Of a MAC the digits on the screen count, not what the code has made of them.
\* The one difference is the code's: behind a digit a letter was typed.
Digit(o, i) == IF <<o, i>> \in spoilt THEN WithBit1(shown[o][i]) ELSE shown[o][i]
OnScreen(o) == IF o \in MACs THEN [i \in DOMAIN shown[o] |-> Digit(o, i)] ELSE opts[o]
Shows(block) == \A o \in Options : doReadOpt(block, o) = OnScreen(o)

\* Of a step: the card is only written after its own question was answered with
\* yes, with what the pages show, and what no page shows is kept; whatever takes
\* effect is what the pages show, also after a save that wrote the defaults first.
\* A letter typed as the low digit of a byte of a MAC changes its high digit unseen.
DefaultsAreWhatIsShown ==
  /\ tabSelected = SaveTab /\ pgeSelected = 1 /\ saveSlctOpt = "system"
  /\ Shows(card')
  /\ \A c \in Cells \ (Covered \cup {0, 1}) : card'[c] = optDflt[c]

AppliedIsWhatIsShown ==
  /\ Shows(applied')
  /\ saveSlctOpt = "system" => Shows(card')

StoredIsWhatIsShown ==
  /\ card' # card => DefaultsAreWhatIsShown
  /\ applied' # applied => AppliedIsWhatIsShown

\* A text is shown up to its first zero: what was deleted does not come back
\* when characters are typed behind it.
TextsEndOnce ==
  \A o \in Options : Kind(o) = "text" =>
    \A i \in DOMAIN opts[o] : opts[o][i] = 0 => \A j \in i .. Len(opts[o]) : opts[o][j] = 0

=============================================================================
