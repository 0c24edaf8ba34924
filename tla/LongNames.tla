----------------------------- MODULE LongNames -----------------------------
(***************************************************************************)
(* Long file names in a directory of the SD card: the entries mega65_ftp   *)
(* writes for a name, one flush at a time, and how it reads them back,     *)
(* with a crash between any two writes.  Clusters are the subject of       *)
(* FatFs; here a directory grows when it must.                             *)
(*                                                                         *)
(* A name is a sequence of characters, of which "." and " " are special    *)
(* and Upper tells the capital of a small one.                             *)
(***************************************************************************)
EXTENDS Integers, Sequences, FiniteSets, SequencesExt

CONSTANTS
  BaseLength, ExtLength,       \* of a short name: 8 and 3
  ChunkLength,                 \* characters in a slot of a long name: 13
  SlotsPerSector, SlotsPerCluster,
  Upper,                       \* small letters and their capitals
  Names, Patterns,             \* what the user types
  Again,                       \* the user repeats what was interrupted
  MaxCommands, MaxCrashes

LongNamesAssumption ==
  /\ BaseLength \in Nat \ {0, 1} /\ ExtLength \in Nat /\ ChunkLength \in Nat \ {0}
  /\ SlotsPerSector \in Nat \ {0} /\ SlotsPerCluster % SlotsPerSector = 0
  /\ Again \in BOOLEAN /\ MaxCommands \in Nat /\ MaxCrashes \in Nat

VARIABLES
  dir,       \* the slots of the directory as the program sees them
  card,      \* as the card holds them
  pc, cmd,   \* the command being executed and where it is
  files,     \* history: the content of each file, 0 for none, or Unknown
  commands, crashes

vars == <<dir, card, pc, cmd, files, commands, crashes>>

Unknown == -1

-----------------------------------------------------------------------------
(* Names *)

toupper(c) == IF c \in DOMAIN Upper THEN Upper[c] ELSE c
Fold(name) == [i \in DOMAIN name |-> toupper(name[i])]
Space(n) == [i \in 1 .. n |-> " "]
Padded(s, n) == SubSeq(s \o Space(n), 1, n)
Cut(s, n) == SubSeq(s, 1, IF Len(s) < n THEN Len(s) ELSE n)

LastDot(name) == SelectLastInSeq(name, LAMBDA c : c = ".")

\* is_long_name_needed counts what is not a dot or a space; a dot in front does
\* not begin an extension.
Letters(name) == SelectSeq(name, LAMBDA c : c \notin {".", " "})
BasePart(name) ==
  Letters(IF LastDot(name) > 1 THEN SubSeq(name, 1, LastDot(name) - 1) ELSE name)
ExtPart(name) ==
  IF LastDot(name) > 1 THEN Letters(SubSeq(name, LastDot(name) + 1, Len(name))) ELSE << >>

ShortOf(name) ==
  Padded(Fold(BasePart(name)), BaseLength) \o Padded(Fold(ExtPart(name)), ExtLength)

is_long_name_needed(name) ==
  \/ name[1] = "."
  \/ \E i \in 2 .. Len(name) : name[i] = "." /\ i # LastDot(name)
  \/ \E i \in DOMAIN name : name[i] # " " /\ toupper(name[i]) # name[i]
  \/ Len(BasePart(name)) > BaseLength \/ Len(ExtPart(name)) > ExtLength

is_tilde_needed(name) ==
  \/ name[1] = "."
  \/ IF LastDot(name) = 0 THEN Len(name) > BaseLength
     ELSE LastDot(name) - 1 > BaseLength \/ Len(name) - LastDot(name) > ExtLength

\* Behind the letters, or over the last two; the numbers have one digit here.
put_tilde_number_in_shortname(short, i) ==
  LET letters == SelectLastInSeq(SubSeq(short, 1, BaseLength), LAMBDA c : c # " ")
      at == IF letters > BaseLength - 2 THEN BaseLength - 2 ELSE letters
  IN  [short EXCEPT ![at + 1] = "~", ![at + 2] = ToString(i)]

\* get_dotted_shortname, and extract_out_dos8_3name when it is read back.
Trimmed(s) == SubSeq(s, 1, SelectLastInSeq(s, LAMBDA c : c # " "))
Dotted(short) ==
  LET base == Trimmed(SubSeq(short, 1, BaseLength))
      ext == Trimmed(SubSeq(short, BaseLength + 1, BaseLength + ExtLength))
  IN  IF ext = << >> THEN base ELSE base \o <<".">> \o ext

-----------------------------------------------------------------------------
(* Slots *)

FreeSlot == [is |-> "free"]              \* first byte 0x00
WipedSlot == [is |-> "wiped"]            \* first byte 0xE5, the rest cleared
Chunk(seq, name, sum) ==
  [is |-> "chunk", seq |-> seq, sum |-> sum,
   text |-> Cut(SubSeq(name, ChunkLength * (seq - 1) + 1, Len(name)), ChunkLength)]
Short(name, content) == [is |-> "short", name |-> name, content |-> content]

ChunksNeeded(name) == (Len(name) - 1) \div ChunkLength + 1

-----------------------------------------------------------------------------
(* Reading *)

IsChunk(d, i) == i \in DOMAIN d /\ d[i].is = "chunk"

\* Where the entry ends that begins in slot i: behind the slots of a long name,
\* after the one numbered 1 or in front of one that is none.
EndOf(d, i) ==
  IF ~IsChunk(d, i) THEN i
  ELSE CHOOSE k \in i + 1 .. Len(d) + 1 :
         /\ ~IsChunk(d, k) \/ d[k - 1].seq = 1
         /\ \A j \in i + 1 .. k - 1 : IsChunk(d, j) /\ d[j - 1].seq # 1

\* The buffer of the long name up to its first zero.
LongName(d, i, end) ==
  LET Text(s) == LET k == SelectLastInSeq(SubSeq(d, i, end - 1), LAMBDA c : c.seq = s)
                 IN  IF k = 0 THEN << >> ELSE d[i + k - 1].text
      Add(acc, s) == IF Len(acc) = ChunkLength * (s - 1) THEN acc \o Text(s) ELSE acc
  IN  FoldLeft(Add, << >>, [s \in 1 .. end - i |-> s])

\* One call of fat_readdir from slot i.  Names that begin with a dot are hidden.
Item(d, i) ==
  LET end == EndOf(d, i)
      long == LongName(d, i, end)
  IN  [first |-> i, at |-> end, long |-> long,
       name |-> IF end \in DOMAIN d /\ d[end].is = "short"
                   /\ ~(long # << >> /\ long[1] = ".")
                 THEN Dotted(d[end].name) ELSE << >>]

\* All of them, from the beginning.
Items(d) ==
  LET from[i \in 1 .. Len(d) + 2] ==
        IF i > Len(d) THEN << >> ELSE <<Item(d, i)>> \o from[Item(d, i).at + 1]
  IN  from[1]

name_match(item, name) == Fold(name) \in {Fold(item.name), Fold(item.long)}

\* find_file_in_curdir: 0 or the index of the first that matches.
Find(d, name) == SelectInSeq(Items(d), LAMBDA item : name_match(item, name))
Found(name) == Items(dir)[Find(dir, name)]
Exists(name) == Find(dir, name) # 0

-----------------------------------------------------------------------------
(* Choosing entries *)

\* Wrong variant: the first number is taken.
Tilde_First(name) == put_tilde_number_in_shortname(ShortOf(name), 1)

\* The loop of normalise_long_name: numbers until the name is not in use.
Tilde(name) ==
  LET Try(acc, i) ==
        IF acc.done THEN acc
        ELSE LET short == put_tilde_number_in_shortname(acc.short, i)
                 k == Find(dir, Dotted(short))
             IN  [short |-> short,
                  done |-> k = 0 \/ Fold(Items(dir)[k].long) = Fold(name)]
  IN  FoldLeft(Try, [short |-> ShortOf(name), done |-> FALSE],
               [i \in 1 .. Len(dir) + 1 |-> i]).short

ShortName(name) ==
  IF is_long_name_needed(name) /\ is_tilde_needed(name) THEN Tilde(name)
                                                         ELSE ShortOf(name)

\* read_next_direntry_and_assure_is_free and find_contiguous_free_direntries,
\* which is content with the first free slot: nothing should follow it.
FreeItem(item) == item.first = item.at /\ dir[item.at] = FreeSlot
FirstFree == LET free == SelectSeq(Items(dir), FreeItem)
             IN  IF free = << >> THEN 0 ELSE free[1].at

-----------------------------------------------------------------------------
(* Patterns *)

NUL == "nul"
CharAt(s, i) == IF i <= Len(s) THEN s[i] ELSE NUL

\* is_match: one round of its loop after the other; a wildcard stays in force
\* when characters match behind it.
is_match(text, pattern) ==
  LET Round(s, n) ==
        LET c == CharAt(text, s.l)   p == CharAt(pattern, s.p) IN
        IF s.done \/ (n > 1 /\ c = NUL) THEN [s EXCEPT !.done = TRUE]
        ELSE IF toupper(p) = toupper(c) \/ p = "?"
        THEN [s EXCEPT !.l = @ + 1, !.p = @ + 1]
        ELSE IF p = "*"
        THEN IF s.p = Len(pattern) THEN [s EXCEPT !.done = TRUE, !.yes = TRUE]
             ELSE [s EXCEPT !.p = @ + 1, !.wild = TRUE]
        ELSE IF s.wild THEN [s EXCEPT !.l = @ + 1]
        ELSE [s EXCEPT !.done = TRUE, !.no = TRUE]
      end == FoldLeft(Round, [l |-> 1, p |-> 1, wild |-> FALSE, done |-> FALSE,
                              yes |-> FALSE, no |-> FALSE],
                      [n \in 1 .. Len(text) + Len(pattern) + 2 |-> n])
  IN  end.yes \/ (~end.no /\ end.p > Len(pattern))

-----------------------------------------------------------------------------
(* Commands *)

NoCommand == [op |-> "none", name |-> << >>, from |-> << >>, id |-> 0, at |-> 0,
              first |-> 0, seq |-> 0, sum |-> << >>, todo |-> {}, pattern |-> << >>]

Init ==
  /\ dir = [i \in 1 .. SlotsPerCluster |-> FreeSlot]
  /\ card = dir
  /\ pc = "prompt" /\ cmd = NoCommand
  /\ files = [key \in {Fold(n) : n \in Names} |-> 0]
  /\ commands = 0 /\ crashes = 0

Certain(names) == Again \/ \A n \in names : files[Fold(n)] # Unknown

Begin(label, names, command) ==
  /\ pc = "prompt" /\ commands < MaxCommands
  /\ commands' = commands + 1
  /\ pc' = label /\ cmd' = command
  /\ files' = [key \in DOMAIN files |->
                 IF key \in {Fold(n) : n \in names} THEN Unknown ELSE files[key]]
  /\ UNCHANGED <<dir, card, crashes>>

Put(name) == [NoCommand EXCEPT !.op = "put", !.name = name, !.id = commands + 1]
Wiping(command, item) == [command EXCEPT !.first = item.first, !.at = item.at]

PutNew(name) ==
  /\ Certain({name}) /\ ~Exists(name)
  /\ Begin("name", {name}, Put(name))

\* upload_single_file writes over a file, or deletes it first when its clusters
\* do not suit.
PutOver(name) ==
  /\ Certain({name}) /\ Exists(name) /\ Found(name).at \in DOMAIN dir
  /\ \/ Begin("content", {name}, Wiping(Put(name), Found(name)))
     \/ Begin("wipe", {name}, Wiping(Put(name), Found(name)))

\* Only a name that is not there at all, in any case of letters.
Rename(name, to) ==
  /\ Certain({name, to}) /\ Exists(name) /\ ~Exists(to)
  /\ Found(name).at \in DOMAIN dir /\ dir[Found(name).at].is = "short"
  /\ Begin("wipe", {name, to},
           Wiping([NoCommand EXCEPT !.op = "rename", !.name = to, !.from = name,
                                    !.id = dir[Found(name).at].content,
                                    !.sum = ShortName(to)],
                  Found(name)))

Delete(name) ==
  /\ Certain({name}) /\ Exists(name) /\ Found(name).at \in DOMAIN dir
  /\ Begin("wipe", {name},
           Wiping([NoCommand EXCEPT !.op = "delete", !.name = name], Found(name)))

\* A file is listed by both of its names; "?" and "*" stand for characters.
Glob(name, pattern) ==
  LET m[i \in 1 .. Len(name) + 1, j \in 1 .. Len(pattern) + 1] ==
        IF j > Len(pattern) THEN i > Len(name)
        ELSE IF pattern[j] = "*"
        THEN m[i, j + 1] \/ (i <= Len(name) /\ m[i + 1, j])
        ELSE i <= Len(name) /\ (pattern[j] = "?" \/ toupper(pattern[j]) = toupper(name[i]))
             /\ m[i + 1, j + 1]
  IN  m[1, 1]
NamesOf(item) == {item.name, item.long} \ {<< >>}
Meant(pattern) ==
  {key \in DOMAIN files : files[key] > 0 /\ Find(dir, key) # 0
     /\ \E n \in NamesOf(Items(dir)[Find(dir, key)]) : Glob(n, pattern)}

\* delete_file_or_dir lists the directory and then deletes what matches, one
\* name after the other.
DeleteMatching(pattern) ==
  LET listed == {i \in ToSet(Items(dir)) : i.name # << >>}
      matched == {i \in listed : is_match(i.name, pattern) \/ is_match(i.long, pattern)}
  IN  /\ Certain(DOMAIN files) /\ listed # {}
      /\ Begin("next", Meant(pattern),
               [NoCommand EXCEPT !.op = "delete", !.pattern = pattern,
                  !.todo = {IF i.long # << >> THEN i.long ELSE i.name : i \in matched}])

\* Not found: nothing happens, which the list makes possible for a name that
\* an earlier deletion took.
NextMatch ==
  /\ pc = "next"
  /\ IF cmd.todo = {}
     THEN /\ pc' = "prompt"
          /\ files' = [key \in DOMAIN files |-> IF files[key] = Unknown THEN 0 ELSE files[key]]
          /\ UNCHANGED cmd
     ELSE \E name \in cmd.todo :
            IF Exists(name)
            THEN /\ pc' = "wipe" /\ UNCHANGED files
                 /\ cmd' = Wiping([cmd EXCEPT !.name = name, !.todo = @ \ {name}], Found(name))
            ELSE pc' = "next" /\ cmd' = [cmd EXCEPT !.todo = @ \ {name}] /\ UNCHANGED files
  /\ UNCHANGED <<dir, card, commands, crashes>>

-----------------------------------------------------------------------------
(* The writes of a command *)

Done(result) ==
  /\ pc' = "prompt"
  /\ files' = [key \in DOMAIN files |->
                 IF key = Fold(cmd.name) THEN result
                 ELSE IF key = Fold(cmd.from) THEN 0 ELSE files[key]]
Goto(label, command) == pc' = label /\ cmd' = command /\ UNCHANGED files
Flushed(d) == dir' = d /\ card' = d
Quiet == UNCHANGED <<commands, crashes>>

\* wipe_direntries_of_current_file_or_dir: the long name and the entry.
Wipe ==
  /\ pc = "wipe"
  /\ dir' = [i \in DOMAIN dir |-> IF i \in cmd.first .. cmd.at THEN WipedSlot ELSE dir[i]]
  /\ Goto("flush", cmd) /\ UNCHANGED card /\ Quiet

\* execute_write_queue behind it.
FlushWipe ==
  /\ pc = "flush" /\ Flushed(dir)
  /\ CASE cmd.op = "put" -> Goto("name", cmd)
       [] cmd.op = "rename" -> Goto("find", [cmd EXCEPT !.seq = IF is_long_name_needed(cmd.name)
                                               THEN ChunksNeeded(cmd.name) ELSE 0])
       [] cmd.pattern # << >> -> Goto("next", cmd)
       [] OTHER -> Done(0) /\ UNCHANGED cmd
  /\ Quiet

\* create_direntry_with_attrib; rename has chosen the short name before.
NormaliseName ==
  /\ pc = "name"
  /\ Goto("find", [cmd EXCEPT !.sum = ShortName(cmd.name),
                     !.seq = IF is_long_name_needed(cmd.name) THEN ChunksNeeded(cmd.name) ELSE 0])
  /\ UNCHANGED <<dir, card>> /\ Quiet

\* extend_dir_cluster_chain, when no slot is free or the entries reach the end.
Extend ==
  /\ \/ pc = "find" /\ FirstFree = 0
     \/ pc \in {"chunk", "entry"} /\ cmd.at > Len(dir)
  /\ Flushed(dir \o [i \in 1 .. SlotsPerCluster |-> FreeSlot])
  /\ UNCHANGED <<pc, cmd, files>> /\ Quiet

FindFree ==
  /\ pc = "find" /\ FirstFree # 0
  /\ Goto(IF cmd.seq = 0 THEN "entry" ELSE "chunk", [cmd EXCEPT !.at = FirstFree])
  /\ UNCHANGED <<dir, card>> /\ Quiet

NextSlotIsFree == cmd.at <= Len(dir) /\ dir[cmd.at] = FreeSlot

\* "direntry ... is not free (but we thought it should have been)"
NotFree ==
  /\ pc \in {"chunk", "entry"} /\ cmd.at <= Len(dir) /\ ~NextSlotIsFree
  /\ pc' = "prompt"
  /\ UNCHANGED <<dir, card, cmd, files>> /\ Quiet

\* write_vfat_direntry_chunk from the last slot of the name to the first.
WriteChunk ==
  /\ pc = "chunk" /\ NextSlotIsFree
  /\ Flushed([dir EXCEPT ![cmd.at] = Chunk(cmd.seq, cmd.name, cmd.sum)])
  /\ Goto(IF cmd.seq = 1 THEN "entry" ELSE "chunk",
          [cmd EXCEPT !.at = @ + 1, !.seq = @ - 1])
  /\ Quiet

WriteEntry ==
  /\ pc = "entry" /\ NextSlotIsFree
  /\ Flushed([dir EXCEPT ![cmd.at] = Short(cmd.sum, 0)])
  /\ Goto("content", cmd) /\ Quiet

\* First cluster and size, when the file is written or was renamed.
WriteContent ==
  /\ pc = "content"
  /\ Flushed(IF dir[cmd.at].is = "short" THEN [dir EXCEPT ![cmd.at].content = cmd.id] ELSE dir)
  /\ Done(cmd.id) /\ UNCHANGED cmd /\ Quiet

\* The program ends; of the slots being wiped those of the first sectors are.
Sector(i) == (i - 1) \div SlotsPerSector
Crash ==
  /\ pc # "prompt" /\ crashes < MaxCrashes
  /\ crashes' = crashes + 1
  /\ \E s \in -1 .. Sector(Len(dir)) :
       /\ card' = [i \in DOMAIN dir |-> IF Sector(i) <= s THEN dir[i] ELSE card[i]]
       /\ dir' = card'
  /\ pc' = "prompt" /\ cmd' = NoCommand
  /\ UNCHANGED <<files, commands>>

Command ==
  \/ \E n \in Names : PutNew(n) \/ PutOver(n) \/ Delete(n)
  \/ \E n, to \in Names : Rename(n, to)
  \/ \E p \in Patterns : DeleteMatching(p)
Step ==
  \/ Wipe \/ FlushWipe \/ NormaliseName \/ Extend \/ FindFree \/ NotFree
  \/ WriteChunk \/ WriteEntry \/ WriteContent \/ NextMatch

Next == Command \/ Step \/ Crash

Spec == Init /\ [][Next]_vars

-----------------------------------------------------------------------------
(* Properties *)

\* Whatever commands and crashes came before, the file a name stands for is the
\* one that was last put or renamed under it, and a name that was deleted
\* stands for none.
NamesStandForFiles ==
  \A key \in DOMAIN files :
    /\ files[key] = 0 => Find(card, key) = 0
    /\ files[key] > 0 =>
         /\ Find(card, key) # 0
         /\ LET at == Items(card)[Find(card, key)].at IN
            at \in DOMAIN card /\ card[at].is = "short" /\ card[at].content = files[key]

\* Short names are unique, so that programs which know no others find each file.
ShortNamesDiffer ==
  \A i, j \in DOMAIN card :
    card[i].is = "short" /\ card[j].is = "short" /\ card[i].name = card[j].name => i = j

\* What another system reads: up to the first free slot, a long name only when
\* its slots are numbered down to 1 and carry the sum of the entry.
Listed == {i \in DOMAIN card : card[i].is = "short"
                               /\ \A j \in 1 .. i : card[j].is # "free"}
StandardName(i) ==
  LET whole == {n \in 1 .. i - 1 :
                  /\ \A k \in 1 .. n : IsChunk(card, i - k) /\ card[i - k].seq = k
                                       /\ card[i - k].sum = card[i].name}
  IN  IF whole = {} THEN Dotted(card[i].name)
      ELSE LET n == CHOOSE n \in whole : \A k \in whole : k <= n
           IN  FlattenSeq([k \in 1 .. n |-> card[i - k].text])

\* Without crashes other systems see the same files under the same names.
OthersSeeTheSame ==
  crashes = 0 /\ pc = "prompt" =>
    \A key \in DOMAIN files :
      {i \in Listed : Fold(StandardName(i)) = key} =
        IF files[key] = 0 THEN {} ELSE {Items(card)[Find(card, key)].at}


\* A pattern deletes what it matches and nothing else.
PatternsDeleteMatches ==
  cmd.pattern # << >> /\ pc \in {"wipe", "flush"} =>
    \E n \in NamesOf(Item(card, cmd.first)) \cup {cmd.name} : Glob(n, cmd.pattern)

=============================================================================
