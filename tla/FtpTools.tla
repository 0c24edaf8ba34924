------------------------------ MODULE FtpTools ------------------------------
(***************************************************************************)
(* The commands of mega65_ftp below the files: poking, dumping and         *)
(* restoring sectors, showing the FAT and the partition table, freeze      *)
(* slots, and the slots of the flash.  The cache and the write queue are   *)
(* SectorCache; here a sector written is on the card.                      *)
(***************************************************************************)
EXTENDS Integers, Sequences, FiniteSets, SequencesExt

CONSTANTS
  SectorSize,       \* bytes in a sector
  Card,             \* the card at first: sector -> its bytes
  Pokes,            \* sector, offset and values of poke commands
  FatSector,        \* partition_start + fat1_sector
  FreezeStart, SlotSize, SlotCount,   \* the freeze slots of the system partition
  models,           \* models[]: id, slot_size and slot_count
  MB,               \* cells of the flash in a megabyte
  FlashCells,       \* cells of the flash
  FlashSlotSize,    \* 8 MB, the size download_flashslot uses
  Cores,            \* core files: extension, model id, number of cells
  FlashSlots,       \* slot numbers given to flash
  Partitions,       \* partition tables: four types, 0 unused
  MaxCommands       \* bound on the commands

FtpToolsAssumption ==
  /\ SectorSize \in Nat \ {0}
  /\ \A c \in DOMAIN Card : DOMAIN Card[c] = 0 .. SectorSize - 1
  /\ \A p \in Pokes : p.sector \in DOMAIN Card /\ p.offset \in 0 .. SectorSize - 1
  /\ SlotSize \in Nat \ {0} /\ SlotCount \in Nat
  /\ MB \in Nat \ {0} /\ MaxCommands \in Nat

Sectors == DOMAIN Card

VARIABLES
  card,        \* the sectors of the card
  hardware,    \* the model id of the machine
  xemu,        \* xemu_flag or ethernet_mode: no flash
  flash,       \* the cells of the flash
  file,        \* the file on the PC written last, until the flash changes
  shown,       \* what was shown since the card changed, and of what
  running,     \* mega65_ftp ends after flashing
  bytes,       \* history: the card as one row of bytes
  flashed,     \* history: slot -> the core flashed, and whether y was typed
  commands     \* commands so far

vars == <<card, hardware, xemu, flash, file, shown, running, bytes, flashed,
          commands>>

Bytes(c) == [a \in {s * SectorSize + o : s \in Sectors, o \in 0 .. SectorSize - 1} |->
               c[a \div SectorSize][a % SectorSize]]
NoFile == [of |-> "none", from |-> 0, cells |-> << >>]
NotShown == [of |-> "none", from |-> 0, cells |-> << >>]
NoCore == [name |-> "none", extension |-> "", model_id |-> 0, size |-> 0]
NotFlashed == [core |-> NoCore, confirmed |-> FALSE]

Init ==
  /\ card = Card /\ bytes = Bytes(Card)
  /\ hardware \in {t.model_id : t \in models} /\ xemu \in BOOLEAN
  /\ flash = [c \in 0 .. FlashCells - 1 |-> "old"]
  /\ file = NoFile /\ shown = NotShown /\ running = TRUE
  /\ flashed = [s \in FlashSlots |-> NotFlashed] /\ commands = 0

Command ==
  running /\ commands < MaxCommands /\ commands' = commands + 1
CardOnly ==
  shown' = NotShown /\ UNCHANGED <<hardware, xemu, flash, file, running, flashed>>
FileOnly == UNCHANGED <<card, hardware, xemu, flash, shown, running, bytes, flashed>>
ShownOnly == UNCHANGED <<card, hardware, xemu, flash, file, running, bytes, flashed>>

-----------------------------------------------------------------------------
(* Sectors *)

\* poke_sector: read, change one byte, write.
poke_sector(c, sector, offset, value) == [c EXCEPT ![sector][offset] = value]

\* parse_pokes: the values go on into the next sector.
parse_pokes ==
  /\ Command
  /\ \E p \in Pokes :
       LET n == Len(p.values)
           step[k \in 0 .. n] ==
             IF k = 0 THEN [c |-> card, s |-> p.sector, o |-> p.offset]
             ELSE LET was == step[k - 1]
                      o == was.o + 1
                  IN  [c |-> poke_sector(was.c, was.s, was.o, p.values[k]),
                       s |-> IF o >= SectorSize THEN was.s + 1 ELSE was.s,
                       o |-> IF o >= SectorSize THEN 0 ELSE o]
           start == p.sector * SectorSize + p.offset
       IN  /\ start + n - 1 \in DOMAIN bytes
           /\ card' = step[n].c
           /\ bytes' = [a \in DOMAIN bytes |->
                          IF a \in start .. start + n - 1 THEN p.values[a - start + 1]
                          ELSE bytes[a]]
  /\ CardOnly

\* dump_sectors
dump_sectors ==
  /\ Command
  /\ \E start \in Sectors, count \in 1 .. 2 :
       /\ start + count - 1 \in Sectors
       /\ file' = [of |-> "sectors", from |-> start,
                   cells |-> [k \in 1 .. count |-> card[start + k - 1]]]
  /\ FileOnly

\* restore_sectors: as many sectors as the file has.
restore_sectors ==
  /\ Command /\ file.of \in {"sectors", "slot"}
  /\ \E start \in Sectors :
       LET n == Len(file.cells) IN
       /\ start + n - 1 \in Sectors
       /\ card' = [s \in Sectors |-> IF s \in start .. start + n - 1
                                       THEN file.cells[s - start + 1] ELSE card[s]]
       /\ bytes' = [a \in DOMAIN bytes |->
                      LET k == a - start * SectorSize IN
                      IF k \in 0 .. n * SectorSize - 1
                        THEN file.cells[(k \div SectorSize) + 1][k % SectorSize]
                        ELSE bytes[a]]
  /\ CardOnly

\* download_slot
download_slot ==
  /\ Command
  /\ \E slot \in -1 .. SlotCount :
       IF slot < 0 \/ slot >= SlotCount THEN UNCHANGED file
       ELSE file' = [of |-> "slot", from |-> slot,
                     cells |-> [i \in 1 .. SlotSize |->
                                  card[FreezeStart + slot * SlotSize + i - 1]]]
  /\ FileOnly

\* show_clustermap: an entry is a byte here; a sector is read when the entries
\* come to it.
show_clustermap ==
  /\ Command
  /\ \E start \in 0 .. SectorSize, count \in 1 .. SectorSize :
       LET sector(i) == FatSector + (i \div SectorSize)
           last == start + count - 1
           step[i \in start - 1 .. last] ==
             IF i = start - 1 THEN [at |-> 0, buffer |-> << >>, out |-> << >>]
             ELSE LET was == step[i - 1]
                      buffer == IF sector(i) # was.at THEN card[sector(i)] ELSE was.buffer
                  IN  [at |-> sector(i), buffer |-> buffer,
                       out |-> Append(was.out, buffer[i % SectorSize])]
       IN  /\ sector(last) \in Sectors
           /\ shown' = [of |-> "fat", from |-> start, cells |-> step[last].out]
  /\ ShownOnly

\* show_mbrinfo: at an unused entry it stays where it is.
show_mbrinfo ==
  /\ Command
  /\ \E table \in Partitions :
       LET step[id \in 0 .. 4] ==
             IF id = 0 THEN [at |-> 1, out |-> << >>]
             ELSE LET was == step[id - 1] IN
                  IF table[was.at] = 0 THEN was
                  ELSE [at |-> was.at + 1, out |-> Append(was.out, table[was.at])]
       IN  shown' = [of |-> "mbr", from |-> table, cells |-> step[4].out]
  /\ ShownOnly

-----------------------------------------------------------------------------
(* The flash *)

\* get_model: the last entry of the table stands for the unknown ones.
Unknown == [model_id |-> 255, slot_size |-> 0, slot_count |-> 0]
get_model(id) ==
  IF \E t \in models : t.model_id = id
    THEN CHOOSE t \in models : t.model_id = id ELSE Unknown

\* initial_flashing_checks
initial_flashing_checks(slotnum) ==
  /\ ~xemu
  /\ slotnum < get_model(hardware).slot_count
  /\ get_model(hardware).slot_size # -1

\* check_model_id_field: a core without a model id may be flashed after asking.
check_model_id_field(core, yes) ==
  hardware = core.model_id \/ (core.model_id = 0 /\ yes)

\* flash_core_to_slot: bit2mcs and Vivado put the core at the slot's offset, and
\* the program ends.
flash_core_to_slot ==
  /\ Command
  /\ \E core \in Cores, slotnum \in FlashSlots, yes \in BOOLEAN :
       LET offset == slotnum * get_model(hardware).slot_size * MB
           here == offset .. offset + core.size - 1
       IN  IF /\ initial_flashing_checks(slotnum)
              /\ core.extension = ".cor"
              /\ check_model_id_field(core, yes)
           THEN /\ flash' = [c \in DOMAIN flash |-> IF c \in here THEN core.name
                                                    ELSE flash[c]]
                /\ flashed' = [flashed EXCEPT ![slotnum] =
                                 [core |-> core, confirmed |-> yes]]
                /\ running' = FALSE /\ file' = NoFile
           ELSE UNCHANGED <<flash, flashed, running, file>>
  /\ UNCHANGED <<card, hardware, xemu, shown, bytes>>

\* download_flashslot, in reads of 32 KB (read_flash).
download_flashslot ==
  /\ Command
  /\ \E slot \in -1 .. 8 :
       IF slot < 0 \/ slot >= 8 \/ (slot + 1) * FlashSlotSize > FlashCells
         THEN UNCHANGED file
         ELSE file' = [of |-> "flash", from |-> slot,
                       cells |-> [i \in 1 .. FlashSlotSize |->
                                    flash[slot * FlashSlotSize + i - 1]]]
  /\ FileOnly

\* A new session after the flash, on the same machine.
Restart ==
  /\ ~running /\ running' = TRUE
  /\ UNCHANGED <<card, hardware, xemu, flash, file, shown, bytes, flashed, commands>>

Next ==
  \/ parse_pokes \/ dump_sectors \/ restore_sectors \/ download_slot
  \/ show_clustermap \/ show_mbrinfo \/ flash_core_to_slot \/ download_flashslot
  \/ Restart

Spec == Init /\ [][Next]_vars

-----------------------------------------------------------------------------
(* Properties *)

TypeOK ==
  /\ DOMAIN card = Sectors /\ DOMAIN flash = 0 .. FlashCells - 1
  /\ commands \in 0 .. MaxCommands

\* Sector by sector or across their borders, a poke or a restore changes the bytes
\* it names and no others.
SectorsAreBytes == bytes = Bytes(card)

\* What show_clustermap and show_mbrinfo show is what the card has, in order.
ShownIsOnCard ==
  /\ shown.of = "fat" =>
       \A k \in 1 .. Len(shown.cells) :
         shown.cells[k] = bytes[FatSector * SectorSize + shown.from + k - 1]
  /\ shown.of = "mbr" =>
       shown.cells = SelectSeq(shown.from, LAMBDA t : t # 0)

\* Only a core for the machine, or one that does not say and was confirmed, is
\* flashed; it is all in its slot, and the other slots keep what they had.
FlashIsForTheMachine ==
  LET size == get_model(hardware).slot_size * MB
      slot(n) == n * size .. (n + 1) * size - 1
  IN  \A n \in FlashSlots :
        LET core == flashed[n].core
            here == n * size .. n * size + core.size - 1
        IN  IF flashed[n] = NotFlashed
              THEN \A c \in DOMAIN flash \cap slot(n) : flash[c] = "old"
              ELSE /\ core.model_id = hardware
                        \/ (core.model_id = 0 /\ flashed[n].confirmed)
                   /\ here \subseteq slot(n) \cap DOMAIN flash
                   /\ \A c \in here : flash[c] = core.name

\* What is read back from a slot of the flash begins with the core flashed into
\* it, on machines with slots of that size.
FlashReadsBack ==
  file.of = "flash" /\ file.from \in FlashSlots
    /\ get_model(hardware).slot_size * MB = FlashSlotSize =>
      \A i \in 1 .. flashed[file.from].core.size :
        file.cells[i] = flashed[file.from].core.name
=============================================================================
