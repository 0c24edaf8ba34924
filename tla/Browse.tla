------------------------------- MODULE Browse -------------------------------
(***************************************************************************)
(* A session of mega65_ftp among the directories of a card: cd, dir,       *)
(* mkdir, rename, del, get, roms and mount.  A directory is named by its   *)
(* first cluster; a path is a sequence of names and slashes.  The sectors, *)
(* their cache and long names are in modules of their own: here a command  *)
(* sees and changes the card as a whole, but for a download, which is      *)
(* followed sector by sector.                                              *)
(***************************************************************************)
EXTENDS Integers, Sequences, FiniteSets, SequencesExt

CONSTANTS
  Cards,               \* cards to begin with: their tree, FAT and files
  Upper,               \* name -> the name in capitals
  Rank,                \* capital name -> its place in alphabetical order
  sectors_per_cluster,
  CdPaths, DirPaths,   \* paths that are typed
  NewNames,            \* names for mkdir and rename
  DelNames, GetNames,  \* names and patterns for del, and for get and mount
  Roms,                \* capital names of files that are ROMs (MEGA6*.ROM)
  MaxChanges           \* bound on commands that change the card

BrowseAssumption ==
  /\ sectors_per_cluster \in Nat \ {0} /\ MaxChanges \in Nat
  /\ DOMAIN Rank = {Upper[n] : n \in DOMAIN Upper}
  /\ \A card \in Cards : DOMAIN card.tree \subseteq DOMAIN card.fat

VARIABLES
  tree,          \* first cluster of a directory -> its entries
  fat,           \* cluster -> the next one, 0 free
  current_dir,   \* the path of the session, a text
  here,          \* history: the directory the session was led to
  shown,         \* what the last command printed
  get,           \* the download in progress
  changes        \* changes of the card so far

vars == <<tree, fat, current_dir, here, shown, get, changes>>

first_cluster == 2
EndOfChain == 999                 \* FAT32_MIN_END_OF_CLUSTER_MARKER and above
NoCluster == -1
Nothing == [is |-> "nothing"]
Idle == [at |-> "idle"]

-----------------------------------------------------------------------------
(* Entries and paths *)

\* What fat_readdir makes of an entry: one that is hidden loses everything but
\* its long name.
fat_readdir(e) ==
  IF e.hidden THEN [e EXCEPT !.d_name = "", !.dir = FALSE, !.len = 0] ELSE e

name_match(e, name) ==
  LET d == fat_readdir(e)
  IN \/ d.d_name # "" /\ Upper[d.d_name] = Upper[name]
     \/ d.d_longname # "" /\ Upper[d.d_longname] = Upper[name]

\* The first entry of that name, 0 when there is none.
FindIn(dir, name) ==
  SelectInSeq(tree[dir], LAMBDA e : name_match(e, name))

\* The segments of a path are looked up from the root on; slashes beside one
\* another count once.
OpenSegment(dir, segment) ==
  IF dir = NoCluster THEN NoCluster
  ELSE LET i == FindIn(dir, segment)
       IN IF i # 0 /\ fat_readdir(tree[dir][i]).dir THEN tree[dir][i].d_ino ELSE NoCluster
fat_opendir(path) ==
  FoldLeft(OpenSegment, first_cluster, SelectSeq(path, LAMBDA c : c # "/"))

\* change_dir takes a relative path apart: a slash at its end is followed by an
\* empty segment.
Segments(path) ==
  SelectSeq(path, LAMBDA c : c # "/") \o (IF Last(path) = "/" THEN <<"">> ELSE << >>)

ApplySegment(temp, segment) ==
  IF segment = "." THEN temp
  ELSE IF segment = ".."
       THEN LET len == SelectLastInSeq(temp, LAMBDA c : c = "/") - 1
            IN SubSeq(temp, 1, IF len < 1 THEN 1 ELSE len)
       ELSE temp \o (IF temp # <<"/">> THEN <<"/">> ELSE << >>)
                 \o (IF segment # "" THEN <<segment>> ELSE << >>)

\* Wrong variant: .. goes to the root.
PathAfter_Short(path) ==
  IF Head(path) \in {"/", ".."} THEN <<"/">> \o Tail(path)
  ELSE FoldLeft(ApplySegment, current_dir, Segments(path))

PathAfter(path) ==
  IF Head(path) = "/" THEN path ELSE FoldLeft(ApplySegment, current_dir, Segments(path))

-----------------------------------------------------------------------------
(* Lists of entries *)

\* Greater than 0 when the entry of the list belongs behind the new one.
compare_dirents(src, dest) ==
  IF src.dir = dest.dir THEN Rank[Upper[src.d_name]] - Rank[Upper[dest.d_name]]
  ELSE IF dest.dir THEN 1 ELSE -1

llist_add(lst, item) ==
  LET i == SelectInSeq(lst, LAMBDA e : compare_dirents(e, item) > 0)
  IN IF i = 0 THEN Append(lst, item) ELSE InsertAt(lst, i, item)

read_direntries(dir) ==
  FoldLeft(llist_add, << >>,
           SelectSeq([i \in DOMAIN tree[dir] |-> fat_readdir(tree[dir][i])],
                     LAMBDA d : d.d_name # ""))

\* Patterns here are a name or one asterisk.
is_match(name, pattern) == pattern = "*" \/ name = pattern
Matching(lst, pattern) ==
  SelectSeq(lst, LAMBDA d : is_match(d.d_name, pattern) \/ is_match(d.d_longname, pattern))
contains_dir(lst, path) ==
  Len(path) = 1 /\ \E i \in DOMAIN lst : lst[i].dir /\ lst[i].d_name = path[1]

\* A path that leads somewhere from the root is listed.  Otherwise it names
\* something in the current directory: a directory of it should be listed, but
\* is looked for from the root once more, and the list was released already.
read_remote_dirents(path) ==
  LET dir == fat_opendir(path)
      lst == read_direntries(fat_opendir(current_dir))
  IN IF dir # NoCluster THEN [is |-> "list", entries |-> read_direntries(dir)]
     ELSE IF fat_opendir(current_dir) = NoCluster THEN [is |-> "error"]
     ELSE IF contains_dir(lst, path) THEN [is |-> "undefined"]
     ELSE [is |-> "list",
           entries |-> IF path = current_dir THEN lst
                       ELSE IF Len(path) = 1 THEN Matching(lst, path[1]) ELSE << >>]

-----------------------------------------------------------------------------
(* Commands *)

Init ==
  /\ \E card \in Cards : tree = card.tree /\ fat = card.fat
  /\ current_dir = <<"/">> /\ here = first_cluster
  /\ shown = Nothing /\ get = Idle /\ changes = 0

\* The directory a segment leads to for whoever knows the tree.
Parent(dir) ==
  IF dir = first_cluster THEN dir
  ELSE CHOOSE p \in DOMAIN tree :
         \E i \in DOMAIN tree[p] :
           /\ tree[p][i].dir /\ tree[p][i].d_name \notin {".", ".."}
           /\ tree[p][i].d_ino = dir
Walk(dir, segment) ==
  IF segment \in {".", ""} THEN dir
  ELSE IF segment = ".." THEN IF dir = NoCluster THEN dir ELSE Parent(dir)
  ELSE OpenSegment(dir, segment)

change_dir(path) ==
  /\ get = Idle
  /\ IF fat_opendir(PathAfter(path)) # NoCluster
     THEN /\ current_dir' = PathAfter(path)
          /\ here' = FoldLeft(Walk, IF Head(path) = "/" THEN first_cluster ELSE here,
                              SelectSeq(path, LAMBDA c : c # "/"))
     ELSE UNCHANGED <<current_dir, here>>
  /\ shown' = Nothing
  /\ UNCHANGED <<tree, fat, get, changes>>

show_directory(path) ==
  /\ get = Idle
  /\ shown' = read_remote_dirents(IF path = << >> THEN current_dir ELSE path)
              @@ [path |-> path]
  /\ UNCHANGED <<tree, fat, current_dir, here, get, changes>>

\* The ROMs of the root are listed, each with the cluster its version is read
\* from: that of the file of its name in the current directory.
RomsFound(lst) ==
  LET missing == SelectInSeq(lst, LAMBDA d : FindIn(fat_opendir(current_dir), d.d_name) = 0)
  IN SubSeq(lst, 1, IF missing = 0 THEN Len(lst) ELSE missing - 1)

list_all_roms ==
  LET dir == fat_opendir(current_dir)
      lst == SelectSeq(read_direntries(first_cluster), LAMBDA d : d.d_name \in Roms)
      roms == IF dir = NoCluster THEN << >> ELSE RomsFound(lst)
  IN /\ get = Idle
     /\ shown' = [is |-> "roms",
                  entries |-> [i \in DOMAIN roms |->
                    [rom |-> roms[i].d_name,
                     from |-> tree[dir][FindIn(dir, roms[i].d_name)].d_ino]]]
     /\ UNCHANGED <<tree, fat, current_dir, here, get, changes>>

\* An entry 0 of the FAT that is free ends the search in its sector.
find_free_cluster ==
  LET free == {c \in DOMAIN fat : fat[c] = 0}
  IN IF free = { } THEN 0 ELSE CHOOSE c \in free : \A d \in free : c <= d

Changes(t) ==
  /\ tree' = t /\ changes' = changes + 1 /\ shown' = Nothing
  /\ UNCHANGED <<current_dir, here, get>>

LongName(name) == IF name = Upper[name] THEN "" ELSE name

create_dir(name) ==
  LET parent == fat_opendir(current_dir)
      cluster == find_free_cluster
      Entry(n, c) == [d_name |-> Upper[n], d_longname |-> LongName(n), dir |-> TRUE,
                      hidden |-> FALSE, d_ino |-> c, len |-> 0]
  IN /\ get = Idle /\ changes < MaxChanges
     /\ parent # NoCluster /\ FindIn(parent, name) = 0 /\ cluster # 0
     /\ Changes([d \in DOMAIN tree \cup {cluster} |->
                   IF d = parent THEN Append(tree[d], Entry(name, cluster))
                   ELSE IF d = cluster THEN <<Entry(".", cluster), Entry("..", parent)>>
                   ELSE tree[d]])
     /\ fat' = [fat EXCEPT ![cluster] = EndOfChain]

\* The entry is wiped and written anew in the first free place.
rename_file_or_dir(name, dest_name) ==
  LET dir == fat_opendir(current_dir)
      i == FindIn(dir, name)
      e == tree[dir][i]
  IN /\ get = Idle /\ changes < MaxChanges
     /\ dir # NoCluster /\ i # 0 /\ FindIn(dir, dest_name) = 0
     /\ Changes([tree EXCEPT ![dir] =
                   Append(RemoveAt(@, i), [e EXCEPT !.d_name = Upper[dest_name],
                                                !.d_longname = LongName(dest_name)])])
     /\ UNCHANGED fat

\* The clusters of a file, its first one included even when that is 0.
FreedFrom(cluster) ==
  LET Chain[c \in DOMAIN fat] ==
        {c} \cup (IF fat[c] \in {0, EndOfChain} THEN { } ELSE Chain[fat[c]])
  IN Chain[cluster]

delete_single_file(name) ==
  LET dir == fat_opendir(current_dir)
      i == FindIn(dir, name)
  IN /\ get = Idle /\ changes < MaxChanges
     /\ dir # NoCluster /\ i # 0 /\ ~ tree[dir][i].dir
     /\ fat' = [c \in DOMAIN fat |->
                  IF c \in FreedFrom(tree[dir][i].d_ino) THEN 0 ELSE fat[c]]
     /\ Changes([tree EXCEPT ![dir] = RemoveAt(@, i)])

\* Only the root is looked at by the hypervisor.
mount_file(name) ==
  LET dir == fat_opendir(current_dir)
  IN /\ get = Idle /\ current_dir = <<"/">> /\ dir # NoCluster /\ FindIn(dir, name) # 0
     /\ shown' = [is |-> "mounted", name |-> name]
     /\ UNCHANGED <<tree, fat, current_dir, here, get, changes>>

-----------------------------------------------------------------------------
(* get: one file, or one after the other those that match *)

Names(lst) ==
  [i \in DOMAIN lst |-> IF lst[i].d_longname # "" THEN lst[i].d_longname ELSE lst[i].d_name]

download_file(name) ==
  /\ get = Idle
  /\ get' = [at |-> "next", written |-> << >>, visited |-> { },
             names |-> IF name # "*" THEN <<name>>
                       ELSE Names(SelectSeq(read_direntries(fat_opendir(current_dir)),
                                            LAMBDA d : ~ d.dir))]
  /\ shown' = Nothing
  /\ UNCHANGED <<tree, fat, current_dir, here, changes>>

download_single_file ==
  LET dir == fat_opendir(current_dir)
      name == Head(get.names)
      i == FindIn(dir, name)
      d == fat_readdir(tree[dir][i])
  IN /\ get.at = "next" /\ get.names # << >>
     /\ get' = IF i = 0 THEN [get EXCEPT !.names = Tail(@)]
               ELSE [at |-> "read", names |-> get.names, written |-> << >>,
                     remaining |-> d.len, sector_in_cluster |-> 0,
                     file_cluster |-> tree[dir][i].d_ino, visited |-> { }, error |-> FALSE]
     /\ UNCHANGED <<tree, fat, current_dir, here, shown, changes>>

\* One round of the loop; the length counts sectors.
ReadSector ==
  LET advance == get.sector_in_cluster >= sectors_per_cluster
      cluster == IF advance THEN fat[get.file_cluster] ELSE get.file_cluster
      sector == IF advance THEN 0 ELSE get.sector_in_cluster
  IN /\ get.at = "read" /\ get.remaining > 0
     /\ get' = IF advance /\ cluster \in {0, EndOfChain}
               THEN [get EXCEPT !.at = "walk", !.error = TRUE, !.remaining = 0]
               ELSE [get EXCEPT !.written = Append(@, <<cluster, sector>>),
                       !.file_cluster = cluster, !.sector_in_cluster = sector + 1,
                       !.remaining = @ - 1]
     /\ UNCHANGED <<tree, fat, current_dir, here, shown, changes>>

\* The rest of the chain is printed until a marker ends it.  After a premature
\* end the local file is closed twice, which may end the program.
WalkOn ==
  LET next == fat[get.file_cluster]
  IN /\ get.at \in {"read", "walk"} /\ (get.at = "read" => get.remaining = 0)
     /\ IF next = EndOfChain
        THEN \/ /\ shown' = [is |-> "got", name |-> Head(get.names), written |-> get.written,
                             error |-> get.error]
                /\ get' = [at |-> "next", names |-> Tail(get.names), written |-> << >>,
                           visited |-> { }]
             \/ get.error /\ get' = [at |-> "aborted"] /\ UNCHANGED shown
        ELSE /\ get' = [get EXCEPT !.at = "walk", !.file_cluster = next,
                                   !.visited = @ \cup {get.file_cluster}]
             /\ UNCHANGED shown
     /\ UNCHANGED <<tree, fat, current_dir, here, changes>>

AllDownloaded ==
  /\ get.at = "next" /\ get.names = << >> /\ get' = Idle
  /\ UNCHANGED <<tree, fat, current_dir, here, shown, changes>>

Next ==
  \/ \E path \in CdPaths : change_dir(path)
  \/ \E path \in DirPaths : show_directory(path)
  \/ list_all_roms
  \/ \E name \in NewNames : create_dir(name)
  \/ \E name \in DelNames, dest_name \in NewNames : rename_file_or_dir(name, dest_name)
  \/ \E name \in DelNames : delete_single_file(name)
  \/ \E name \in GetNames : download_file(name) \/ mount_file(name)
  \/ download_single_file \/ ReadSector \/ WalkOn \/ AllDownloaded

Spec == Init /\ [][Next]_vars

-----------------------------------------------------------------------------
(* Properties *)

\* The path of the session leads to the directory it was led to, whatever was
\* made and renamed meanwhile: no command works in another directory than the
\* one that cd was sent to.
StandsWhereItSays == fat_opendir(current_dir) = here

\* A listing has every entry of the directory that was asked for once,
\* directories before files and both in alphabetical order.  (In a
\* subdirectory only its own listing, patterns and paths from the root are
\* what they should be.)
Before(a, b) ==
  \/ a.dir /\ ~ b.dir
  \/ a.dir = b.dir /\ Rank[Upper[a.d_name]] <= Rank[Upper[b.d_name]]
Asked(path) ==
  IF path \in {<< >>, <<"*">>} THEN here
  ELSE FoldLeft(Walk, first_cluster, SelectSeq(path, LAMBDA c : c # "/"))
ShowsTheDirectory ==
  shown.is \in {"list", "undefined", "error"} =>
    LET path == shown.path
    IN (path \in {<< >>, <<"*">>} \/ Head(path) = "/") /\ Asked(path) # NoCluster =>
         /\ shown.is = "list"
         /\ \A i, j \in DOMAIN shown.entries :
              i < j => Before(shown.entries[i], shown.entries[j])
         /\ Len(shown.entries) = Cardinality(ToSet(shown.entries))
         /\ ToSet(shown.entries) =
              {e \in ToSet(tree[Asked(path)]) : ~ e.hidden}

\* In the root every ROM is listed once, with its own version.
RomsHaveTheirVersions ==
  shown.is = "roms" /\ here = first_cluster =>
    LET roms == {e \in ToSet(tree[here]) : e.d_name \in Roms /\ ~ e.hidden}
    IN /\ Len(shown.entries) = Cardinality(roms)
       /\ {<<shown.entries[i].rom, shown.entries[i].from>> : i \in DOMAIN shown.entries}
            = {<<e.d_name, e.d_ino>> : e \in roms}

\* A download has all sectors of the file or says that it has not, and the walk
\* along the rest of the chain does not run in circles.
HasContent(d, written) ==
  /\ Len(written) = d.len
  /\ d.len > 0 => written[1] = <<d.d_ino, 0>>
  /\ \A k \in 1 .. d.len - 1 :
       \/ written[k + 1] = <<written[k][1], written[k][2] + 1>>
       \/ written[k][2] = sectors_per_cluster - 1 /\ written[k + 1] = <<fat[written[k][1]], 0>>
GetsTheFile ==
  shown.is = "got" /\ ~ shown.error =>
    \E e \in ToSet(tree[here]) :
      /\ Upper[shown.name] \in {Upper[e.d_name], Upper[e.d_longname]}
      /\ HasContent(e, shown.written)
WalksEnd == get.at = "walk" => get.file_cluster \notin get.visited

\* What is mounted is a file of the root.
MountsWhatIsThere ==
  shown.is = "mounted" => here = first_cluster /\ FindIn(first_cluster, shown.name) # 0
=============================================================================
