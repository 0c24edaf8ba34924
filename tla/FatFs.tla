-------------------------------- MODULE FatFs --------------------------------
(***************************************************************************)
(* The FAT32 code of mega65_ftp: put, delete, rename and mkdir in one      *)
(* directory, down to the single sector write, over the write-back disk    *)
(* that module SectorCache implements.  A crash (the user kills the        *)
(* program, the link goes down) may come between any two writes and in the *)
(* middle of a flush; the next command then starts from what the card      *)
(* holds.                                                                  *)
(*                                                                         *)
(* One sector stands for a cluster; the FAT has one or several sectors, of *)
(* which the second FAT is a copy.  Names are 8.3 names, which need one    *)
(* directory entry.                                                        *)
(***************************************************************************)
EXTENDS Integers, Sequences, FiniteSets, SequencesExt

CONSTANTS
  LastCluster,     \* the FAT has the entries 0 .. LastCluster
  SlotsPerCluster, \* directory entries in a cluster
  FileNames,       \* names the user puts
  DirNames,        \* names the user gives directories
  FileSizes,       \* sizes of the files put, in clusters
  MaxCommands,     \* bound on the commands
  MaxCrashes,      \* bound on the crashes
  Layouts          \* initial cards: the directory's first cluster, the clusters
                   \* in use elsewhere, the used-up slots of the directory, and
                   \* the entries in a sector of the FAT

ASSUME SizeAssumption ==
  /\ LastCluster \in Nat \ {0, 1}
  /\ SlotsPerCluster \in Nat \ {0}
  /\ FileSizes \subseteq Nat \ {0}
  /\ MaxCommands \in Nat /\ MaxCrashes \in Nat
ASSUME LayoutAssumption ==
  \A l \in Layouts : /\ l.dir \in 2 .. LastCluster
                     /\ l.used \subseteq (2 .. LastCluster) \ {l.dir}
                     /\ l.wiped \in 0 .. SlotsPerCluster
                     /\ l.perSector \in 2 .. LastCluster + 1
                     /\ (LastCluster + 1) % l.perSector = 0

Entries == 0 .. LastCluster
Clusters == 2 .. LastCluster
EndOfChain == LastCluster + 1            \* FAT32_MIN_END_OF_CLUSTER_MARKER
FatValues == 0 .. EndOfChain
Names == FileNames \cup DirNames
FileIds == 1 .. MaxCommands

VARIABLES
  fs,        \* the disk as the program sees it: fat, and the area of clusters
  card,      \* the disk as the SD card holds it
  queue,     \* sectors of the write queue, in order
  pc,        \* where the command is
  cmd,       \* the command being executed, with its local variables
  layout,    \* the initial card
  files,     \* history: what each name should hold, or Unknown
  commands,  \* commands started
  crashes    \* crashes so far

vars == <<fs, card, queue, pc, cmd, layout, files, commands, crashes>>

-----------------------------------------------------------------------------
(* The disk *)

FreeSlot == [state |-> "free"]           \* first byte 0x00
WipedSlot == [state |-> "wiped"]         \* first byte 0xE5, never used again
EntrySlot(name, first, size, isDir) ==
  [state |-> "entry", name |-> name, first |-> first, size |-> size,
   isDir |-> isDir]

Blank == [kind |-> "blank"]
Directory(slots) == [kind |-> "dir", slots |-> slots]
Data(id, part) == [kind |-> "data", id |-> id, part |-> part]

EmptyDirectory == Directory([i \in 1 .. SlotsPerCluster |-> FreeSlot])

\* What create_dir writes: "." and "..", which no command here looks at.
NewDirectory == Directory([i \in 1 .. SlotsPerCluster |-> WipedSlot])

\* The sectors of clusters go by their number, those of the FAT come behind.
Sectors == 0 .. 2 * LastCluster + 1
FatSectorNum(c) == c \div layout.perSector
FatSector(c) == LastCluster + 1 + FatSectorNum(c)

InChain(c) == c > 0 /\ c < EndOfChain

\* The clusters a chain visits, from cluster c.
Chain(fat, c) ==
  LET path[n \in Entries] ==
        IF n = 0 THEN <<c>>
        ELSE LET before == path[n - 1]
                 next   == fat[Last(before)]
             IN  IF InChain(next) THEN Append(before, next) ELSE before
  IN  path[LastCluster]

\* The slots of the directory, and the first of some of them in the order of
\* advance_to_next_entry.
Positions(d) ==
  [cluster : ToSet(Chain(d.fat, layout.dir)), index : 1 .. SlotsPerCluster]
FirstOf(d, ps) ==
  LET chain == Chain(d.fat, layout.dir)
      k == Min({i \in DOMAIN chain : \E p \in ps : p.cluster = chain[i]})
  IN  [cluster |-> chain[k],
       index |-> Min({p.index : p \in {q \in ps : q.cluster = chain[k]}})]

\* A cluster that holds file data reads as slots that are in use.
SlotAt(d, p) ==
  IF d.area[p.cluster].kind = "dir" THEN d.area[p.cluster].slots[p.index]
                                    ELSE WipedSlot

\* The positions of the entries with a name: find_file_in_curdir takes the first.
EntriesOf(d, name) ==
  {p \in Positions(d) : SlotAt(d, p).state = "entry" /\ SlotAt(d, p).name = name}
Exists(name) == EntriesOf(fs, name) # {}
Found(name) == FirstOf(fs, EntriesOf(fs, name))

FreeSlots == {p \in Positions(fs) : SlotAt(fs, p) = FreeSlot}
FirstFreeSlot == FirstOf(fs, FreeSlots)

FatWith(cluster, value) == [fs EXCEPT !.fat[cluster] = value]
SlotWith(p, slot) ==
  IF fs.area[p.cluster].kind = "dir"
    THEN [fs EXCEPT !.area[p.cluster].slots[p.index] = slot] ELSE fs
AreaWith(cluster, content) == [fs EXCEPT !.area[cluster] = content]

-----------------------------------------------------------------------------
(* Searching the FAT *)

LeastOf(S) == IF S = {} THEN 0 ELSE Min(S)

\* find_free_cluster does not wrap.  Entry 0 free means 0 is found, which is
\* taken for nothing found in its sector.
FindFree(first) ==
  LET free == {c \in first .. LastCluster : fs.fat[c] = 0} IN
  LeastOf(IF 0 \in free THEN {c \in free : FatSectorNum(c) > 0} ELSE free)

\* is_free_cluster: the second FAT, a copy of the first, follows the first.
IsFree(c) == fs.fat[c % (LastCluster + 1)] = 0

\* Wrong variant: the run is taken one cluster short.
Runs_Short(n) ==
  {c \in Clusters : fs.fat[c] = 0 /\ \A k \in 1 .. n - 2 : IsFree(c + k)}

Runs(n) ==
  {c \in Clusters : fs.fat[c] = 0 /\ \A k \in 1 .. n - 1 : IsFree(c + k)}

\* find_contiguous_clusters: the first run of n free clusters, from the first
\* free cluster that is found on, or else from the beginning.  With n = 1 the
\* loop ends even when find_free_cluster found nothing; with n > 1 it goes on.
SearchEnds(n) == n = 1 \/ Runs(n) # {}
FindRun(n) ==
  LET ahead == {c \in Runs(n) : c >= FindFree(0)} IN
  IF n = 1 THEN FindFree(0) ELSE Min(IF ahead # {} THEN ahead ELSE Runs(n))

\* is_fragmented: every link leads to the next cluster.
Fragmented(c) ==
  LET chain == Chain(fs.fat, c)
  IN  \/ \E k \in 2 .. Len(chain) : chain[k] # chain[k - 1] + 1
      \/ fs.fat[Last(chain)] = 0

\* Wrong variant: any existing file is written over.
Reusable_Always(p, n) == TRUE

\* upload_single_file keeps the clusters of a file it replaces if their number
\* is right and they are contiguous.
Reusable(p, n) ==
  LET first == SlotAt(fs, p).first
  IN  Len(Chain(fs.fat, first)) = n /\ ~Fragmented(first)

-----------------------------------------------------------------------------
(* Writing.  A write may make the sector layer empty its queue before or      *)
(* after it, as in WriteBackDisk.                                             *)

\* Wrong variant: a sector is queued again.
Queued_Again(sector) == Append(queue, sector)

Queued(sector) == IF Contains(queue, sector) THEN queue ELSE Append(queue, sector)

Write(disk, sector) ==
  /\ fs' = disk
  /\ \/ card' = card /\ queue' = Queued(sector)
     \/ card' = fs /\ queue' = <<sector>>
     \/ card' = disk /\ queue' = <<>>
  /\ UNCHANGED <<layout, commands, crashes>>

WriteFat(cluster, value) == Write(FatWith(cluster, value), FatSector(cluster))
WriteSlot(p, slot) == Write(SlotWith(p, slot), p.cluster)
WriteArea(cluster, content) == Write(AreaWith(cluster, content), cluster)

\* The card when the first k sectors of the queue were written.
PartlyFlushed(k) ==
  LET done == {queue[i] : i \in 1 .. k}
  IN  [fat  |-> [c \in Entries |->
                   IF FatSector(c) \in done THEN fs.fat[c] ELSE card.fat[c]],
       area |-> [c \in Entries |->
                   IF c \in done THEN fs.area[c] ELSE card.area[c]]]

-----------------------------------------------------------------------------
(* The commands.  pc names the next write; slot is the directory entry at      *)
(* hand, cluster the cluster the program has reached, next the one to chain.   *)

\* Where no cluster is found the program goes on in cluster 0: the sectors in
\* front of the data area, the last of the second FAT.
NoPosition == [cluster |-> 0, index |-> 1]
NoCommand == [op |-> "none", name |-> "", n |-> 0, id |-> 0, slot |-> NoPosition,
              cluster |-> 0, next |-> 0, part |-> 0, then |-> "prompt",
              entry |-> FreeSlot, from |-> "", result |-> <<>>]

Unknown == "unknown"                     \* a command is or was at work on it
NoFile == <<>>

\* What a finished put and a finished mkdir leave under their names.
PutFile(id, n) == <<[isDir |-> FALSE, size |-> n,
                     content |-> [i \in 1 .. n |-> Data(id, i)]]>>
MadeDir == <<[isDir |-> TRUE, size |-> 0, content |-> <<NewDirectory>>]>>

\* What is stored under a name.
Stored(d, name) ==
  {LET e == SlotAt(d, p)
       chain == Chain(d.fat, e.first)
   IN  [isDir |-> e.isDir, size |-> e.size,
        content |-> [k \in DOMAIN chain |-> d.area[chain[k]]]] :
     p \in EntriesOf(d, name)}

\* A name has the one entry it should have, or none.
Holds(d, name) ==
  /\ Cardinality(EntriesOf(d, name)) <= 1
  /\ Stored(d, name) = ToSet(files[name])

Init ==
  /\ layout \in Layouts
  /\ fs = [fat  |-> [c \in Entries |->
                       IF c \in {0, 1, layout.dir} \cup layout.used
                         THEN EndOfChain ELSE 0],
           area |-> [c \in Entries |->
                       IF c = layout.dir
                         THEN Directory([i \in 1 .. SlotsPerCluster |->
                                IF i <= layout.wiped THEN WipedSlot
                                                     ELSE FreeSlot])
                         ELSE Blank]]
  /\ card = fs
  /\ queue = <<>>
  /\ pc = "prompt"
  /\ cmd = NoCommand
  /\ files = [name \in Names |-> NoFile]
  /\ commands = 0
  /\ crashes = 0

Begin(start, names, command) ==
  /\ pc = "prompt"
  /\ commands < MaxCommands
  /\ commands' = commands + 1
  /\ pc' = start
  /\ cmd' = command
  /\ files' = [name \in Names |-> IF name \in names THEN Unknown ELSE files[name]]
  /\ UNCHANGED <<fs, card, queue, layout, crashes>>

PutCommand(name, n) ==
  [NoCommand EXCEPT !.op = "put", !.name = name, !.n = n, !.id = commands + 1,
                    !.result = PutFile(commands + 1, n)]

\* put of a new name.
PutNew(name, n) ==
  /\ ~Exists(name)
  /\ Begin("create", {name}, PutCommand(name, n))

\* put over a file whose clusters are used again.
PutOver(name, n) ==
  /\ Exists(name)
  /\ Reusable(Found(name), n)
  /\ LET first == SlotAt(fs, Found(name)).first IN
     Begin(IF first = 0 THEN "first" ELSE "data", {name},
           [PutCommand(name, n) EXCEPT !.slot = Found(name),
                                       !.cluster = first])

\* put over a file that is deleted first.  A directory is not deleted, and
\* nobody looks at the result.
PutAnew(name, n) ==
  /\ Exists(name)
  /\ ~Reusable(Found(name), n)
  /\ LET e == SlotAt(fs, Found(name)) IN
     Begin(IF e.isDir THEN "create" ELSE "wipe", {name},
           [PutCommand(name, n) EXCEPT !.slot = Found(name),
                                       !.cluster = e.first])

Delete(name) ==
  /\ Exists(name)
  /\ ~SlotAt(fs, Found(name)).isDir
  /\ Begin("wipe", {name},
           [NoCommand EXCEPT !.op = "delete", !.name = name,
                             !.slot = Found(name),
                             !.cluster = SlotAt(fs, Found(name)).first])

Rename(name, to) ==
  /\ Exists(name) /\ ~Exists(to)
  /\ Begin("wipe", {name, to},
           [NoCommand EXCEPT !.op = "rename", !.name = to, !.from = name,
                             !.result = files[name],
                             !.slot = Found(name),
                             !.entry = SlotAt(fs, Found(name))])

Mkdir(name) ==
  /\ ~Exists(name)
  /\ Begin("create", {name},
           [NoCommand EXCEPT !.op = "mkdir", !.name = name, !.n = 1,
                             !.result = MadeDir])

-----------------------------------------------------------------------------
(* The writes of a command *)

Goto(label) == pc' = label /\ UNCHANGED <<cmd, files>>
GotoWith(label, command) == pc' = label /\ cmd' = command /\ UNCHANGED files
FlushThen(label) == GotoWith("flush", [cmd EXCEPT !.then = label])

\* wipe_direntries_of_current_file_or_dir
Wipe ==
  /\ pc = "wipe"
  /\ WriteSlot(cmd.slot, WipedSlot)
  /\ FlushThen(IF cmd.op = "rename" THEN "create" ELSE "free")

\* Wrong variant: only the first cluster is freed.
FreeNext_OnlyFirst ==
  /\ pc = "free"
  /\ WriteFat(cmd.cluster, 0)
  /\ FlushThen(IF cmd.op = "put" THEN "create" ELSE "prompt")

\* One round of the do-while loop of delete_single_file, which runs at least
\* once.
FreeNext ==
  /\ pc = "free"
  /\ WriteFat(cmd.cluster, 0)
  /\ LET next == fs.fat[cmd.cluster] IN
     IF InChain(next)
       THEN GotoWith("free", [cmd EXCEPT !.cluster = next])
       ELSE FlushThen(IF cmd.op = "put" THEN "create" ELSE "prompt")

\* find_contiguous_free_direntries and create_directory_entry_for_item: the
\* first free slot, or the first of cluster 0 where the directory was "extended"
\* by that one.
NewSlot == IF pc = "stray" THEN NoPosition ELSE FirstFreeSlot

CreateEntry ==
  /\ pc \in {"create", "stray"}
  /\ pc = "create" => FreeSlots # {}
  /\ WriteSlot(NewSlot, EntrySlot(cmd.name, 0, 0,
                 IF cmd.op = "rename" THEN cmd.entry.isDir ELSE cmd.op = "mkdir"))
  /\ GotoWith("flush",
       [cmd EXCEPT !.slot = NewSlot,
                   !.then = IF cmd.op = "rename" THEN "relink" ELSE "first"])

\* extend_dir_cluster_chain, when no slot is free: whether find_free_cluster
\* found a cluster is not looked at.
ExtendDir ==
  /\ pc = "create"
  /\ FreeSlots = {}
  /\ LET last == Last(Chain(fs.fat, layout.dir))
         next == FindFree(last)
     IN  /\ WriteFat(next, EndOfChain)
         /\ GotoWith("extend", [cmd EXCEPT !.cluster = last, !.next = next])

ChainDir ==
  /\ pc = "extend"
  /\ WriteFat(cmd.cluster, cmd.next)
  /\ Goto("clear")

\* wipe_cluster, and dir_cluster becomes the new cluster, cluster 0 as well.
ClearCluster ==
  /\ pc = "clear"
  /\ WriteArea(cmd.next, EmptyDirectory)
  /\ FlushThen(IF cmd.next = 0 THEN "stray" ELSE "create")

\* The first cluster of a file is the start of a run for all of it, that of a
\* directory any free one.
FirstFree == IF cmd.op = "put" THEN FindRun(cmd.n) ELSE FindFree(0)

AllocateFirst ==
  /\ pc = "first"
  /\ SearchEnds(cmd.n)
  /\ FirstFree # 0
  /\ WriteFat(FirstFree, EndOfChain)
  /\ GotoWith("link", [cmd EXCEPT !.cluster = FirstFree])

\* "Failed to find a free cluster."
NoFreeCluster ==
  /\ pc = "first"
  /\ SearchEnds(cmd.n)
  /\ FirstFree = 0
  /\ pc' = "prompt"
  /\ UNCHANGED <<fs, card, queue, cmd, layout, files, commands, crashes>>

LinkEntry ==
  /\ pc = "link"
  /\ WriteSlot(cmd.slot, [SlotAt(fs, cmd.slot) EXCEPT !.first = cmd.cluster])
  /\ Goto("data")

\* The loop of upload_single_file: a cluster is written, and the next one looked
\* up if there is more to write.  (create_dir writes one cluster.)
WriteData ==
  /\ pc = "data"
  /\ WriteArea(cmd.cluster, IF cmd.op = "put" THEN Data(cmd.id, cmd.part + 1)
                                              ELSE NewDirectory)
  /\ LET written == [cmd EXCEPT !.part = @ + 1]
         next == fs.fat[cmd.cluster]
     IN  IF written.part = cmd.n THEN GotoWith("size", written)
         ELSE IF InChain(next)
         THEN GotoWith("data", [written EXCEPT !.cluster = next])
         ELSE GotoWith("grow", written)

GrowFile ==
  /\ pc = "grow"
  /\ LET next == FindFree(cmd.cluster) IN
     /\ WriteFat(next, EndOfChain)
     /\ GotoWith("chain", [cmd EXCEPT !.next = next])

\* chain_cluster; that no cluster was found shows only now, and the size is
\* written all the same.
ChainFile ==
  /\ pc = "chain"
  /\ WriteFat(cmd.cluster, cmd.next)
  /\ IF cmd.next = 0
       THEN GotoWith("size", [cmd EXCEPT !.result = Unknown])
       ELSE GotoWith("data", [cmd EXCEPT !.cluster = cmd.next])

\* The size goes into the entry last; create_dir writes 4096 & 0xff, which is 0.
WriteSize ==
  /\ pc = "size"
  /\ WriteSlot(cmd.slot, [SlotAt(fs, cmd.slot) EXCEPT
                            !.size = IF cmd.op = "put" THEN cmd.n ELSE 0])
  /\ FlushThen("prompt")

\* rename_file_or_dir gives the new entry the clusters and size of the old.
Relink ==
  /\ pc = "relink"
  /\ WriteSlot(cmd.slot, [SlotAt(fs, cmd.slot) EXCEPT
                            !.first = cmd.entry.first, !.size = cmd.entry.size])
  /\ FlushThen("prompt")

\* execute_write_queue, and the end of the command if it was its last step.
Flush ==
  /\ pc = "flush"
  /\ card' = fs
  /\ queue' = <<>>
  /\ pc' = cmd.then
  /\ files' = [name \in Names |->
                 IF cmd.then # "prompt" THEN files[name]
                 ELSE IF name = cmd.name THEN cmd.result
                 ELSE IF name = cmd.from THEN NoFile
                 ELSE files[name]]
  /\ UNCHANGED <<fs, cmd, layout, commands, crashes>>

\* The program ends at any point, perhaps half way through a flush, and is
\* started again.
Crash ==
  /\ pc # "prompt"
  /\ crashes < MaxCrashes
  /\ crashes' = crashes + 1
  /\ \E k \in 0 .. Len(queue) : card' = PartlyFlushed(k) /\ fs' = PartlyFlushed(k)
  /\ queue' = <<>>
  /\ pc' = "prompt"
  /\ cmd' = NoCommand
  /\ UNCHANGED <<layout, files, commands>>

Step ==
  \/ Wipe \/ FreeNext
  \/ CreateEntry \/ ExtendDir \/ ChainDir \/ ClearCluster
  \/ AllocateFirst \/ NoFreeCluster \/ LinkEntry
  \/ WriteData \/ GrowFile \/ ChainFile \/ WriteSize \/ Relink
  \/ Flush

Command ==
  \/ \E name \in FileNames, n \in FileSizes :
       PutNew(name, n) \/ PutOver(name, n) \/ PutAnew(name, n)
  \/ \E name \in FileNames : Delete(name)
  \/ \E name, to \in FileNames : Rename(name, to)
  \/ \E name \in DirNames : Mkdir(name)

Next == Command \/ Step \/ Crash

Spec == Init /\ [][Next]_vars

-----------------------------------------------------------------------------
(* Properties *)

Labels == {"prompt", "wipe", "free", "create", "extend", "clear", "stray",
           "first", "link", "data", "grow", "chain", "size", "relink", "flush"}

Contents == [kind : {"blank"}] \cup [kind : {"data"}, id : FileIds, part : Nat]
              \cup [kind : {"dir"}, slots : [1 .. SlotsPerCluster ->
                      {FreeSlot, WipedSlot} \cup
                      [state : {"entry"}, name : Names, first : Entries,
                       size : Nat, isDir : BOOLEAN]]]
Disks == [fat : [Entries -> FatValues], area : [Entries -> Contents]]

\* Every variable has its type; the queue holds a sector once.
TypeOK ==
  /\ fs \in Disks /\ card \in Disks
  /\ queue \in Seq(Sectors) /\ IsInjective(queue)
  /\ pc \in Labels
  /\ cmd.cluster \in Entries /\ cmd.next \in Entries
  /\ commands \in 0 .. MaxCommands
  /\ crashes \in 0 .. MaxCrashes

\* Who refers to a cluster: the entries in directory clusters, wherever they
\* are, the links of the FAT, and whatever leads to the directory itself.
References(d) ==
  LET dirs == {c \in Entries : d.area[c].kind = "dir"}
      used == {p \in [cluster : dirs, index : 1 .. SlotsPerCluster] :
                 SlotAt(d, p).state = "entry"}
  IN  {[by |-> <<"entry", p>>, to |-> SlotAt(d, p).first] : p \in used}
        \cup {[by |-> <<"fat", c>>, to |-> d.fat[c]] : c \in Clusters}
        \cup {[by |-> <<"parent">>, to |-> layout.dir]}

\* No two files or directories share a cluster, and no cluster that one of
\* them uses counts as free, on the card as in the program, whenever the
\* program is stopped.
NoCrossLinks ==
  \A d \in {fs, card} :
    LET references == {r \in References(d) : r.to \in Clusters} IN
    /\ \A r, q \in references : r.to = q.to => r = q
    /\ \A r \in references : d.fat[r.to] # 0

\* "assure no other data resides in there that could be mistake for
\* dir-entries": the clusters of the directory hold entries and nothing else.
DirectoryHoldsEntries ==
  \A c \in ToSet(Chain(fs.fat, layout.dir)) : fs.area[c].kind = "dir"

\* What finished commands put on the card stays there, in one entry of its
\* name, until a command for that name: no other command, finished, failed or
\* interrupted, changes it.
FilesSafe ==
  \A name \in Names :
    files[name] # Unknown => Holds(card, name) /\ Holds(fs, name)

\* Without crashes no cluster is lost between commands: all that are marked in
\* use are part of something.
NoLostClusters ==
  crashes = 0 /\ pc = "prompt" =>
    \A c \in Clusters \ layout.used :
      fs.fat[c] # 0 => \E r \in References(fs) : r.to = c

\* What the code takes for granted when it chains clusters: that a link and what
\* it leads to are in one sector of the FAT, which the flush writes at once
\* (upload_single_file chains across sectors all the same); that a directory
\* finds a cluster when it is full (extend_dir_cluster_chain does not look); and
\* that a run of free clusters ends with the FAT (its search would go on in the
\* second FAT, where entry 0 follows).  An empty file that is deleted frees
\* entry 0.
LinksAreLocal ==
  \A c \in Entries : InChain(fs.fat[c]) => FatSector(fs.fat[c]) = FatSector(c)
DirectoryCanGrow ==
  pc = "create" /\ FreeSlots = {} => FindFree(Last(Chain(fs.fat, layout.dir))) # 0
RunsEnd == fs.fat[0] # 0 \/ fs.fat[LastCluster] # 0
Room == LinksAreLocal /\ DirectoryCanGrow /\ RunsEnd

-----------------------------------------------------------------------------
(* The cards of the runs, of eight FAT entries and three slots a cluster.      *)

\* The directory's only slot but one is used up, so the second new name extends
\* it; there is room on the card for that.
Roomy == [dir |-> 2, used |-> {7}, wiped |-> 2, perSector |-> 8]

\* Few free clusters, with a run of two in the second sector of the FAT, and
\* slots for all commands.
Tight == [dir |-> 4, used |-> {3, 7}, wiped |-> 0, perSector |-> 4]

\* All slots and all clusters used up.
Full == [dir |-> 6, used |-> {2, 3, 4, 5, 7}, wiped |-> 3, perSector |-> 8]

\* Chains go on over two sectors of the FAT: when the program is stopped between
\* them, a link leads to a cluster that counts as free.
Across == [dir |-> 2, used |-> {7}, wiped |-> 0, perSector |-> 4]

Layouts_Commands == {Roomy, Tight}
Layouts_Full == {Full}
Layouts_Across == {Across}

=============================================================================
