----------------------------- MODULE SymbolMap -----------------------------
(***************************************************************************)
(* What m65dbg knows about the program it debugs: source lines by address, *)
(* symbols and watches, kept in linked lists (sequences here), filled at   *)
(* the start from the listings of ca65, Ophis, the BSA assembler and ACME, *)
(* and by the watch commands.                                              *)
(***************************************************************************)
EXTENDS Integers, Sequences, FiniteSets, SequencesExt

CONSTANTS
  Files,        \* listing -> [kind, modules, segments, symbols, list]
  NewNames,     \* names the user gives to watched addresses
  Addresses,    \* addresses the user watches
  Fresh,        \* the user gives only names that are no symbol yet
  MaxWatches    \* bound on watch commands

SymbolAssumption == Fresh \in BOOLEAN /\ MaxWatches \in Nat

VARIABLES
  toLoad,       \* files listSearch has not come to
  lstFileLoc, lstSymMap, lstModuleOffsets, segmentOffsets,
  lstWatches,
  asked, made   \* the addresses the watches were made for; their number

lists == <<lstFileLoc, lstSymMap, lstModuleOffsets, segmentOffsets>>
vars == <<toLoad, lists, lstWatches, asked, made>>

Init ==
  /\ toLoad = DOMAIN Files
  /\ lstFileLoc = << >> /\ lstSymMap = << >>
  /\ lstModuleOffsets = << >> /\ segmentOffsets = << >>
  /\ lstWatches = << >> /\ asked = << >> /\ made = 0

-----------------------------------------------------------------------------
(* The lists *)

\* Wrong variant: a later line for an address is put beside the earlier one.
add_to_list_Twice(l, fl) ==
  LET i == SelectInSeq(l, LAMBDA e : e.addr >= fl.addr) IN
  IF i = 0 THEN Append(l, fl) ELSE InsertAt(l, i, fl)

\* One entry per address; a later line takes the place of an earlier one.
add_to_list(l, fl) ==
  LET i == SelectInSeq(l, LAMBDA e : e.addr >= fl.addr) IN
  IF i = 0 THEN Append(l, fl)
  ELSE IF l[i].addr = fl.addr
  THEN [l EXCEPT ![i].file = fl.file, ![i].lineno = fl.lineno]
  ELSE InsertAt(l, i, fl)

add_to_symmap(l, sme) ==
  LET i == SelectInSeq(l, LAMBDA e : e.addr >= sme.addr) IN
  IF i = 0 THEN Append(l, sme) ELSE InsertAt(l, i, sme)

find_in_symmap(sym) == SelectInSeq(lstSymMap, LAMBDA e : e.symbol = sym)

\* What a user types: a name or a number.
Named(name) == [sym |-> name, number |-> 0]
Number(a) == [sym |-> "", number |-> a]

get_sym_value(token) ==
  LET i == find_in_symmap(token.sym) IN
  IF i = 0 THEN token.number ELSE lstSymMap[i].addr

-----------------------------------------------------------------------------
(* Loading: the map of a listing first, then the listing with its           *)
(* relocatable addresses.                                                   *)

\* The reading loops see the last line of a file twice.
ReadLines(lines) == IF lines = << >> THEN << >> ELSE Append(lines, Last(lines))

OffsetIn(segments, s) ==
  LET i == SelectInSeq(segments, LAMBDA e : e.name = s) IN
  IF i = 0 THEN 0 ELSE segments[i].offset

get_module_offset(modules, m, s) ==
  LET i == SelectInSeq(modules, LAMBDA e : e.name = m
                        /\ \E k \in DOMAIN e.segments : e.segments[k].name = s)
  IN IF i = 0 THEN 0 ELSE OffsetIn(modules[i].segments, s)

load_ca65_list(file, modules, segments, locations) ==
  LET Read(acc, line) ==
        LET next == [acc EXCEPT !.lineno = @ + 1] IN
        CASE line.is = "file" -> [next EXCEPT !.module = line.name, !.segment = "none"]
          [] line.is = "segment" -> [next EXCEPT !.segment = line.name]
          [] line.is = "code" ->
               [next EXCEPT !.list = add_to_list(@,
                  [addr |-> line.addr + OffsetIn(segments, acc.segment)
                              + get_module_offset(modules, acc.module, acc.segment),
                   file |-> file, lineno |-> next.lineno, module |-> acc.module])]
          [] OTHER -> next
  IN FoldLeft(Read, [lineno |-> 1, module |-> "none", segment |-> "none",
                     list |-> locations],
              ReadLines(Files[file].list)).list

\* The other listings have absolute addresses.  Ophis names file and line in
\* every line of code, ACME the file ahead of them; the BSA listing is the file.
load_ophis_list(file, locations) ==
  LET Read(list, line) ==
        add_to_list(list, [addr |-> line.addr, file |-> line.file,
                           lineno |-> line.lineno, module |-> "none"])
  IN FoldLeft(Read, locations, ReadLines(Files[file].list))

bsa_lines(file, locations) ==
  LET Read(acc, line) ==
        [lineno |-> acc.lineno + 1,
         list |-> IF line.is # "code" THEN acc.list
                  ELSE add_to_list(acc.list,
                         [addr |-> line.addr, file |-> file,
                          lineno |-> acc.lineno + 1, module |-> "none"])]
  IN FoldLeft(Read, [lineno |-> 0, list |-> locations], ReadLines(Files[file].list)).list
bsa_symbols(file) ==
  LET symbols == SelectSeq(ReadLines(Files[file].list), LAMBDA line : line.is = "symbol")
  IN [i \in DOMAIN symbols |-> [addr |-> symbols[i].addr, symbol |-> symbols[i].name]]

acme_lines(file, locations) ==
  LET Read(acc, line) ==
        CASE line.is = "file" -> [acc EXCEPT !.curfile = line.name]
          [] line.is = "code" ->
               [acc EXCEPT !.list = add_to_list(@,
                  [addr |-> line.addr, file |-> acc.curfile,
                   lineno |-> line.lineno, module |-> "none"])]
          [] OTHER -> acc
  IN FoldLeft(Read, [curfile |-> "", list |-> locations], ReadLines(Files[file].list)).list

\* listSearch comes to the listings in any order; the kind is told by the name,
\* that of ca65 by its first line.
Search(file, kind) == file \in toLoad /\ Files[file].kind = kind /\ made = 0

add_to_offsets_list(file) ==
  lstModuleOffsets' = lstModuleOffsets \o Files[file].modules
load_ca65_map(file) ==
  add_to_offsets_list(file) /\ segmentOffsets' = Files[file].segments
load_map(file) == lstSymMap' = FoldLeft(add_to_symmap, lstSymMap, Files[file].symbols)

load_list(file) ==
  /\ \/ /\ Search(file, "ca65") /\ load_ca65_map(file)
        /\ lstFileLoc' = load_ca65_list(file, lstModuleOffsets', segmentOffsets', lstFileLoc)
     \/ /\ Search(file, "ophis")
        /\ lstFileLoc' = load_ophis_list(file, lstFileLoc)
        /\ UNCHANGED <<lstModuleOffsets, segmentOffsets>>
  /\ load_map(file) /\ toLoad' = toLoad \ {file}
  /\ UNCHANGED <<lstWatches, asked, made>>

load_bsa_list(file) ==
  /\ Search(file, "bsa") /\ toLoad' = toLoad \ {file}
  /\ lstFileLoc' = bsa_lines(file, lstFileLoc)
  /\ lstSymMap' = FoldLeft(add_to_symmap, lstSymMap, bsa_symbols(file))
  /\ UNCHANGED <<lstModuleOffsets, segmentOffsets, lstWatches, asked, made>>

load_acme_map(file) ==
  lstSymMap' = FoldLeft(add_to_symmap, lstSymMap, Files[file].symbols)
load_acme_list(file) ==
  /\ Search(file, "acme") /\ toLoad' = toLoad \ {file}
  /\ lstFileLoc' = acme_lines(file, lstFileLoc) /\ load_acme_map(file)
  /\ UNCHANGED <<lstModuleOffsets, segmentOffsets, lstWatches, asked, made>>

-----------------------------------------------------------------------------
(* Watches *)

find_in_watchlist(name) == \E i \in DOMAIN lstWatches : lstWatches[i] = name

\* An address that is not watched by its number yet may be given a name, which
\* becomes a symbol.
cmd_watch(a, name) ==
  /\ toLoad = {} /\ made < MaxWatches
  /\ name # "" /\ Fresh => find_in_symmap(name) = 0
  /\ made' = made + 1
  /\ IF find_in_watchlist(Number(a)) THEN UNCHANGED <<lstSymMap, lstWatches, asked>>
     ELSE /\ lstSymMap' = IF name = "" THEN lstSymMap
                          ELSE add_to_symmap(lstSymMap, [addr |-> a, symbol |-> name])
          /\ lstWatches' = Append(lstWatches, IF name = "" THEN Number(a) ELSE Named(name))
          /\ asked' = Append(asked, a)
  /\ UNCHANGED <<toLoad, lstFileLoc, lstModuleOffsets, segmentOffsets>>

\* delete_from_watchlist; without a number every one, the first each time.
cmdDeleteWatch(n) ==
  /\ n \in DOMAIN lstWatches
  /\ lstWatches' = RemoveAt(lstWatches, n)
  /\ asked' = RemoveAt(asked, n)
  /\ UNCHANGED <<toLoad, lists, made>>

cmdDeleteAllWatches ==
  /\ lstWatches # << >>
  /\ lstWatches' = << >> /\ asked' = << >>
  /\ UNCHANGED <<toLoad, lists, made>>

-----------------------------------------------------------------------------

Next ==
  \/ \E f \in DOMAIN Files : load_list(f) \/ load_bsa_list(f) \/ load_acme_list(f)
  \/ \E a \in Addresses, name \in NewNames \cup {""} : cmd_watch(a, name)
  \/ \E n \in 1 .. MaxWatches : cmdDeleteWatch(n)
  \/ cmdDeleteAllWatches

Spec == Init /\ [][Next]_vars

-----------------------------------------------------------------------------
(* Properties *)

\* Where line n of a listing is: what the file says, in that of ca65 with the
\* module and the segment of the last lines that name one.
Nearest(file, n, k) ==
  LET Before == {i \in 1 .. n : Files[file].list[i].is = k}
  IN Files[file].list[CHOOSE i \in Before : \A j \in Before : j <= i].name
LinkedAt(file, n) ==
  LET lines == Files[file].list
      OfSegment(segments) ==
        segments[CHOOSE i \in DOMAIN segments :
                   segments[i].name = Nearest(file, n, "segment")].offset
      module == CHOOSE i \in DOMAIN Files[file].modules :
                  Files[file].modules[i].name = Nearest(file, n, "file")
  IN IF Files[file].kind # "ca65" THEN lines[n].addr
     ELSE lines[n].addr + OfSegment(Files[file].segments)
            + OfSegment(Files[file].modules[module].segments)

\* The file and the numbers under which a line may be found: the last one is read
\* twice and counted twice; line 1 of a ca65 listing has been read before.
SourceFile(file, n) ==
  CASE Files[file].kind = "ophis" -> Files[file].list[n].file
    [] Files[file].kind = "acme" -> Nearest(file, n, "file")
    [] OTHER -> file
LineNumbers(file, n) ==
  LET k == IF Files[file].kind = "ca65" THEN n + 1 ELSE n
  IN IF Files[file].kind \in {"ophis", "acme"} THEN {Files[file].list[n].lineno}
     ELSE {k} \cup (IF n = Len(Files[file].list) THEN {k + 1} ELSE {})

CodeLines(file) == {n \in DOMAIN Files[file].list : Files[file].list[n].is = "code"}

\* Every address of the programs is found once, at a line that is there.
LinesAreFound ==
  /\ \A i, j \in DOMAIN lstFileLoc : i < j => lstFileLoc[i].addr < lstFileLoc[j].addr
  /\ \A f \in DOMAIN Files \ toLoad : \A n \in CodeLines(f) :
       \E i \in DOMAIN lstFileLoc : lstFileLoc[i].addr = LinkedAt(f, n)
  /\ \A i \in DOMAIN lstFileLoc :
       LET e == lstFileLoc[i] IN
       \E f \in DOMAIN Files \ toLoad : \E n \in CodeLines(f) :
         /\ LinkedAt(f, n) = e.addr
         /\ e.file = SourceFile(f, n) /\ e.lineno \in LineNumbers(f, n)

\* A watch shows the address it was made for, and the numbers the user deletes
\* by are those of the list.
WatchesShowTheirAddress ==
  /\ Len(asked) = Len(lstWatches)
  /\ \A i \in DOMAIN lstWatches : get_sym_value(lstWatches[i]) = asked[i]

=============================================================================
