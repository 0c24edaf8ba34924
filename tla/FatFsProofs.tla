---------------------------- MODULE FatFsProofs ----------------------------
(***************************************************************************)
(* The FAT32 code of mega65_ftp never lets two files share a cluster, for  *)
(* every card, any number of commands and a crash at any point.            *)
(*                                                                         *)
(* A reference is a place (a slot of a directory, or an entry of the FAT)  *)
(* that leads to a cluster.  The inductive invariant compares the places   *)
(* of what the program sees with those of the card, because a crash leaves *)
(* a mixture of the two; and it keeps the order in which the queue is      *)
(* written, because the mixture is cut where the flush stopped.            *)
(***************************************************************************)
EXTENDS FatFs, WellFoundedInduction, TLAPS

-----------------------------------------------------------------------------
(* Numbers and recursion *)

\* The order of the natural numbers, as the library writes it.
Less == OpToRel(<, Nat)

\* A set of numbers has a least one.
LEMMA LeastLemma ==
  ASSUME NEW S \in SUBSET Nat, S # {}
  PROVE  \E n \in S : \A m \in S : n <= m
  <1>1. \E n \in S : \A m \in S : ~ (<<m, n>> \in Less)
    BY NatLessThanWellFounded, WFMin DEF Less
  <1>2. ASSUME NEW n \in S, NEW m \in S, ~ (<<m, n>> \in Less)
        PROVE  n <= m
    <2>1. m \in Nat /\ n \in Nat
      OBVIOUS
    <2>2. ~ (m < n)
      BY <1>2, <2>1 DEF Less, OpToRel
    <2> QED
      BY <2>1, <2>2
  <1> QED
    BY <1>1, <1>2

\* Min of the community modules finds the least number of a set.
LEMMA MinLemma ==
  ASSUME NEW S \in SUBSET Nat, S # {}
  PROVE  Min(S) \in S /\ \A m \in S : Min(S) <= m
  <1>1. \E n \in S : \A m \in S : n <= m
    BY LeastLemma
  <1> QED
    BY <1>1 DEF Min

\* What holds of 0 and goes from each number to the next, up to N, holds up to N.
LEMMA UpTo ==
  ASSUME NEW N \in Nat, NEW S, 0 \in S, \A n \in 0 .. N - 1 : n \in S => n + 1 \in S
  PROVE  0 .. N \subseteq S
  <1> SUFFICES ASSUME (0 .. N) \ S # {}
               PROVE  FALSE
    OBVIOUS
  <1>1. PICK n \in (0 .. N) \ S : \A m \in (0 .. N) \ S : n <= m
    <2>1. (0 .. N) \ S \in SUBSET Nat
      OBVIOUS
    <2> QED
      BY <2>1, LeastLemma
  <1>2. n # 0 /\ n - 1 \in 0 .. N - 1 /\ n - 1 \in 0 .. N /\ n - 1 < n
    BY <1>1
  <1>3. n - 1 \in S
    BY <1>1, <1>2
  <1>4. n - 1 + 1 = n
    BY <1>1
  <1> QED
    BY <1>1, <1>2, <1>3, <1>4

\* The function that begins with x and goes on by g.
IsIteration(f, N, x, g) == f[0] = x /\ \A i \in 1 .. N : f[i] = g[f[i - 1]]

\* A function that is defined by recursion exists.
LEMMA RecursionLemma ==
  ASSUME NEW V, NEW N \in Nat, NEW x \in V, NEW g \in [V -> V]
  PROVE  \E f \in [0 .. N -> V] : IsIteration(f, N, x, g)
  <1> DEFINE Good(n) == \E f \in [0 .. n -> V] :
                           f[0] = x /\ \A i \in 1 .. n : f[i] = g[f[i - 1]]
             S == {n \in Nat : Good(n)}
  <1>1. Good(0)
    <2> DEFINE h == [i \in 0 .. 0 |-> x]
    <2>1. h \in [0 .. 0 -> V] /\ h[0] = x
      OBVIOUS
    <2>2. 1 .. 0 = {}
      OBVIOUS
    <2> HIDE DEF h
    <2> QED
      BY <2>1, <2>2
  <1>2. ASSUME NEW n \in 0 .. N - 1, Good(n)
        PROVE  Good(n + 1)
    <2>1. PICK f \in [0 .. n -> V] : f[0] = x /\ \A i \in 1 .. n : f[i] = g[f[i - 1]]
      BY <1>2
    <2> DEFINE h == [i \in 0 .. n + 1 |-> IF i = n + 1 THEN g[f[n]] ELSE f[i]]
    <2>2. h \in [0 .. n + 1 -> V]
      BY <2>1
    <2>3. h[0] = x
      BY <2>1
    <2>4. ASSUME NEW i \in 1 .. n + 1
          PROVE  h[i] = g[h[i - 1]]
      BY <2>1
    <2> HIDE DEF h
    <2> QED
      BY <2>2, <2>3, <2>4
  <1> HIDE DEF Good
  <1>3. 0 .. N \subseteq S
    <2>1. 0 \in S
      BY <1>1
    <2>2. \A n \in 0 .. N - 1 : n \in S => n + 1 \in S
      BY <1>2
    <2> HIDE DEF S
    <2> QED
      BY <2>1, <2>2, UpTo
  <1>4. N \in 0 .. N
    OBVIOUS
  <1>5. Good(N)
    BY <1>3, <1>4
  <1> QED
    BY <1>5 DEF Good, IsIteration

-----------------------------------------------------------------------------
(* Chains *)

\* S has the cluster a chain begins with, and where a link leads from it.
Closed(fat, S) == \A c \in S : InChain(fat[c]) => fat[c] \in S

\* The clusters of s follow each other by the links of the FAT.
Linked(fat, s) ==
  \A i \in 1 .. Len(s) - 1 : fat[s[i]] = s[i + 1] /\ InChain(s[i + 1])

\* A chain begins with its first cluster, follows the links and stays within
\* every set that is closed under them.
LEMMA ChainLemma ==
  ASSUME NEW fat, NEW S, NEW c \in S, Closed(fat, S)
  PROVE  /\ Chain(fat, c) \in Seq(S)
         /\ Len(Chain(fat, c)) \in Nat \ {0}
         /\ Chain(fat, c)[1] = c
         /\ Linked(fat, Chain(fat, c))
  <1> DEFINE V == {s \in Seq(S) : Len(s) # 0 /\ s[1] = c /\ Linked(fat, s)}
             After(s) == IF InChain(fat[Last(s)]) THEN Append(s, fat[Last(s)]) ELSE s
             g == [s \in V |-> After(s)]
             path == CHOOSE f : f = [n \in Entries |-> IF n = 0 THEN <<c>> ELSE After(f[n - 1])]
  <1>1. <<c>> \in V
    <2>1. <<c>> \in Seq(S) /\ Len(<<c>>) = 1 /\ <<c>>[1] = c
      OBVIOUS
    <2>2. Linked(fat, <<c>>)
      BY <2>1 DEF Linked
    <2> QED
      BY <2>1, <2>2
  <1>2. ASSUME NEW s \in V
        PROVE  After(s) \in V
    <2>1. s \in Seq(S) /\ Len(s) \in Nat /\ Len(s) # 0 /\ s[1] = c /\ Linked(fat, s)
      OBVIOUS
    <2>2. CASE InChain(fat[Last(s)])
      <3>1. Last(s) \in S /\ Last(s) = s[Len(s)]
        BY <2>1 DEF Last
      <3>2. fat[Last(s)] \in S
        BY <2>2, <3>1 DEF Closed
      <3> DEFINE t == Append(s, fat[Last(s)])
      <3>3. /\ t \in Seq(S) /\ Len(t) = Len(s) + 1 /\ t[Len(s) + 1] = fat[Last(s)]
            /\ \A i \in 1 .. Len(s) : t[i] = s[i]
        BY <2>1, <3>2
      <3> HIDE DEF t
      <3>4. Linked(fat, t)
        <4> SUFFICES ASSUME NEW i \in 1 .. Len(t) - 1
                     PROVE  fat[t[i]] = t[i + 1] /\ InChain(t[i + 1])
          BY DEF Linked
        <4>1. CASE i = Len(s)
          BY <2>1, <2>2, <3>1, <3>3, <4>1
        <4>2. CASE i # Len(s)
          <5>1. i \in 1 .. Len(s) - 1 /\ i \in 1 .. Len(s) /\ i + 1 \in 1 .. Len(s)
            BY <2>1, <3>3, <4>2
          <5> QED
            BY <2>1, <3>3, <5>1 DEF Linked
        <4> QED
          BY <4>1, <4>2
      <3>5. t[1] = c /\ Len(t) # 0
        BY <2>1, <3>3
      <3>6. After(s) = t
        BY <2>2 DEF t
      <3> QED
        BY <3>3, <3>4, <3>5, <3>6
    <2>3. CASE ~InChain(fat[Last(s)])
      BY <2>3
    <2> QED
      BY <2>2, <2>3
  <1> HIDE DEF V, After
  <1>3. g \in [V -> V]
    BY <1>2
  <1>4. LastCluster \in Nat /\ Entries = 0 .. LastCluster
    BY SizeAssumption DEF Entries
  <1>5. PICK f \in [Entries -> V] :
          f[0] = <<c>> /\ \A i \in 1 .. LastCluster : f[i] = g[f[i - 1]]
    <2> HIDE DEF g
    <2>0. LastCluster \in Nat
      BY <1>4
    <2>1. \E f \in [0 .. LastCluster -> V] : IsIteration(f, LastCluster, <<c>>, g)
      BY <1>1, <1>3, <2>0, RecursionLemma
    <2> QED
      BY <1>4, <2>1 DEF IsIteration
  <1>6. f = [n \in Entries |-> IF n = 0 THEN <<c>> ELSE After(f[n - 1])]
    <2>1. \A n \in Entries : f[n] = IF n = 0 THEN <<c>> ELSE After(f[n - 1])
      <3> SUFFICES ASSUME NEW n \in Entries, n # 0
                   PROVE  f[n] = After(f[n - 1])
        BY <1>5
      <3>1. n \in 1 .. LastCluster /\ n - 1 \in Entries
        BY <1>4
      <3> QED
        BY <1>5, <3>1
    <2> HIDE DEF g
    <2> QED
      BY <1>5, <2>1
  <1>7. path = [n \in Entries |-> IF n = 0 THEN <<c>> ELSE After(path[n - 1])]
    BY <1>6
  <1> HIDE DEF path
  <1> DEFINE T == {n \in Entries : path[n] \in V}
  <1>8. 0 \in T
    BY <1>1, <1>4, <1>7
  <1>9. ASSUME NEW n \in 0 .. LastCluster - 1, n \in T
        PROVE  n + 1 \in T
    <2>1. n + 1 \in Entries /\ n + 1 # 0 /\ n + 1 - 1 = n
      BY <1>4
    <2>2. path[n + 1] = After(path[n])
      BY <1>7, <2>1
    <2> QED
      BY <1>2, <1>9, <2>1, <2>2
  <1>10. LastCluster \in T
    <2>1. 0 .. LastCluster \subseteq T
      <3> HIDE DEF T
      <3> QED
        BY <1>4, <1>8, <1>9, UpTo
    <2> QED
      BY <1>4, <2>1
  <1>11. Chain(fat, c) = path[LastCluster]
    BY DEF Chain, path, After
  <1>12. Chain(fat, c) \in V
    BY <1>10, <1>11
  <1> QED
    BY <1>12 DEF V

\* A chain whose links all lead to the next cluster is a row of clusters.
LEMMA RowLemma ==
  ASSUME NEW s, Len(s) \in Nat \ {0}, NEW c \in Nat, s[1] = c,
         \A k \in 2 .. Len(s) : s[k] = s[k - 1] + 1
  PROVE  \A k \in 1 .. Len(s) : s[k] = c + k - 1
  <1> DEFINE S == {k \in 0 .. Len(s) - 1 : s[k + 1] = c + k}
  <1>1. 0 \in S
    OBVIOUS
  <1>2. \A k \in 0 .. Len(s) - 1 - 1 : k \in S => k + 1 \in S
    <2> SUFFICES ASSUME NEW k \in 0 .. Len(s) - 1 - 1, s[k + 1] = c + k
                 PROVE  s[k + 1 + 1] = c + (k + 1)
      OBVIOUS
    <2>1. k + 2 \in 2 .. Len(s) /\ k + 2 - 1 = k + 1 /\ k + 1 + 1 = k + 2
      OBVIOUS
    <2>2. s[k + 2] = s[k + 1] + 1
      BY <2>1
    <2> QED
      BY <2>1, <2>2
  <1>3. 0 .. Len(s) - 1 \subseteq S
    <2> HIDE DEF S
    <2>1. Len(s) - 1 \in Nat
      OBVIOUS
    <2> QED
      BY <1>1, <1>2, <2>1, UpTo
  <1>4. ASSUME NEW k \in 1 .. Len(s)
        PROVE  s[k] = c + k - 1
    <2>0. k - 1 \in 0 .. Len(s) - 1 /\ k - 1 + 1 = k
      OBVIOUS
    <2>1. k - 1 \in S
      BY <1>3, <2>0
    <2> QED
      BY <2>0, <2>1
  <1> QED
    BY <1>4

\* The numbers of the FAT.
LEMMA EntriesLemma ==
  /\ LastCluster \in Nat /\ LastCluster >= 2 /\ EndOfChain \in Nat
  /\ Entries \subseteq Nat /\ 0 \in Entries /\ 1 \in Entries /\ LastCluster \in Entries
  /\ Clusters \subseteq Entries
  /\ \A c : c \in Clusters <=> c \in Nat /\ c >= 2 /\ c <= LastCluster
  /\ \A c : c \in Entries <=> c \in Nat /\ c <= LastCluster
  /\ \A v : v \in FatValues <=> v \in Nat /\ v <= LastCluster + 1
  /\ EndOfChain \in FatValues /\ EndOfChain \notin Entries /\ Entries \subseteq FatValues
  BY SizeAssumption DEF Entries, Clusters, EndOfChain, FatValues

\* The FAT leads from entries to entries.
LEMMA ClosedLemma ==
  ASSUME NEW fat \in [Entries -> FatValues]
  PROVE  Closed(fat, Entries)
  BY EntriesLemma DEF Closed, InChain, EndOfChain

\* What find_free_cluster finds.
LEMMA FindFreeLemma ==
  ASSUME fs.fat \in [Entries -> FatValues], NEW first \in Entries
  PROVE  /\ FindFree(first) \in Entries
         /\ FindFree(first) # 0 =>
              fs.fat[FindFree(first)] = 0 /\ FindFree(first) >= first
         /\ first # 0 => \A c \in first .. LastCluster :
              fs.fat[c] = 0 => FindFree(first) # 0 /\ FindFree(first) <= c
  <1> DEFINE free == {c \in first .. LastCluster : fs.fat[c] = 0}
             good == IF 0 \in free THEN {c \in free : FatSectorNum(c) > 0} ELSE free
  <1>1. FindFree(first) = LeastOf(good)
    BY DEF FindFree
  <1>2. first \in Nat /\ LastCluster \in Nat
    BY EntriesLemma
  <1>3. good \subseteq free /\ free \in SUBSET Nat /\ good \in SUBSET Nat
    BY <1>2
  <1>4. CASE good = {}
    <2>1. FindFree(first) = 0
      BY <1>1, <1>4 DEF LeastOf
    <2>2. first # 0 => free = {}
      BY <1>2, <1>4
    <2> QED
      BY <2>1, <2>2, EntriesLemma
  <1>5. CASE good # {}
    <2>1. FindFree(first) = Min(good)
      BY <1>1, <1>5 DEF LeastOf
    <2> HIDE DEF good, free
    <2>2. Min(good) \in good /\ \A m \in good : Min(good) <= m
      BY <1>3, <1>5, MinLemma
    <2>3. Min(good) \in free
      BY <1>3, <2>2
    <2>4. first # 0 => good = free
      BY <1>2 DEF good, free
    <2>5. Min(good) \in Entries /\ fs.fat[Min(good)] = 0 /\ Min(good) >= first
      BY <2>3, <1>2, EntriesLemma DEF free
    <2>6. ASSUME first # 0, NEW c \in first .. LastCluster, fs.fat[c] = 0
          PROVE  Min(good) # 0 /\ Min(good) <= c
      <3>1. c \in good
        BY <2>4, <2>6 DEF free
      <3> QED
        BY <1>2, <2>2, <2>5, <2>6, <3>1, EntriesLemma
    <2> QED
      BY <2>1, <2>5, <2>6
  <1> QED
    BY <1>4, <1>5

\* The sectors of the FAT lie behind those of the clusters.
LEMMA FatSectorLemma ==
  ASSUME layout \in Layouts, NEW c \in Entries
  PROVE  FatSector(c) \in Sectors /\ FatSector(c) \notin Entries
  <1>1. layout.perSector \in Nat /\ layout.perSector >= 2
    BY LayoutAssumption, EntriesLemma
  <1>2. c \in Nat /\ c <= LastCluster /\ LastCluster \in Nat
    BY EntriesLemma
  <1>3. c \div layout.perSector \in Nat /\ c \div layout.perSector <= c
    BY <1>1, <1>2
  <1>4. FatSector(c) = LastCluster + 1 + (c \div layout.perSector)
    BY DEF FatSector, FatSectorNum
  <1> HIDE DEF FatSector
  <1>5. FatSector(c) \in Nat /\ FatSector(c) > LastCluster /\ FatSector(c) <= 2 * LastCluster + 1
    BY <1>2, <1>3, <1>4
  <1> QED
    BY <1>2, <1>5, EntriesLemma DEF Sectors

-----------------------------------------------------------------------------
(* The directory *)

\* Positions of slots, what an entry in use holds and what a slot holds.
Slots == [cluster : Entries, index : 1 .. SlotsPerCluster]
SlotEntries == [state : {"entry"}, name : Names, first : Entries, size : Nat, isDir : BOOLEAN]
SlotValues == {FreeSlot, WipedSlot} \cup SlotEntries

\* The first of some slots of the directory is one of them.
LEMMA FirstOfLemma ==
  ASSUME NEW d, d.fat \in [Entries -> FatValues], layout \in Layouts,
         NEW ps \in SUBSET Positions(d), ps # {}
  PROVE  FirstOf(d, ps) \in ps /\ ps \subseteq Slots
  <1> DEFINE chain == Chain(d.fat, layout.dir)
             K == {i \in DOMAIN chain : \E p \in ps : p.cluster = chain[i]}
             k == Min(K)
             I == {p.index : p \in {q \in ps : q.cluster = chain[k]}}
  <1>1. layout.dir \in Entries
    BY LayoutAssumption, EntriesLemma DEF Clusters, Entries
  <1>2. chain \in Seq(Entries)
    BY <1>1, ClosedLemma, ChainLemma
  <1> HIDE DEF chain
  <1>3. ps \subseteq [cluster : {chain[i] : i \in DOMAIN chain}, index : 1 .. SlotsPerCluster]
    BY DEF Positions, ToSet, chain
  <1>4. ps \subseteq Slots
    BY <1>2, <1>3 DEF Slots
  <1>5. K \in SUBSET Nat /\ K # {}
    BY <1>2, <1>3
  <1>6. k \in K
    <2> HIDE DEF K
    <2> QED
      BY <1>5, MinLemma
  <1>7. I \in SUBSET Nat /\ I # {}
    BY <1>6, <1>4, SizeAssumption DEF Slots
  <1>8. Min(I) \in I
    <2> HIDE DEF I
    <2> QED
      BY <1>7, MinLemma
  <1>9. PICK p \in ps : p.cluster = chain[k] /\ p.index = Min(I)
    BY <1>8
  <1>10. FirstOf(d, ps) = [cluster |-> chain[k], index |-> Min(I)]
    BY DEF FirstOf, chain
  <1> HIDE DEF k, I
  <1>11. FirstOf(d, ps) = p
    BY <1>4, <1>9, <1>10 DEF Slots
  <1> QED
    BY <1>4, <1>11

-----------------------------------------------------------------------------
(* Types *)

\* The operations, and what cmd holds; its result plays no part here.
Ops == {"none", "put", "delete", "rename", "mkdir"}
Commands(result) ==
  [op : Ops, name : Names \cup {""}, n : Nat, id : Nat, slot : Slots,
   cluster : Entries, next : Entries, part : Nat, then : Labels,
   entry : SlotValues, from : Names \cup {""}, result : {result}]

\* Only rename reaches "relink".
RelinkInv ==
  pc = "relink" \/ (pc = "flush" /\ cmd.then = "relink") => cmd.op = "rename"

\* TypeOK with what it needs to be inductive: the types of the variables of a
\* command.
TypeInv ==
  /\ TypeOK
  /\ layout \in Layouts
  /\ cmd \in Commands(cmd.result)
  /\ pc # "prompt" => cmd.name \in Names /\ cmd.op # "none"
  /\ cmd.op = "put" => cmd.id \in FileIds
  /\ cmd.op = "rename" => cmd.entry \in SlotEntries
  /\ cmd.op \in {"put", "mkdir"} => cmd.n \in Nat \ {0}
  /\ cmd.op = "mkdir" => cmd.n = 1
  /\ RelinkInv

\* What a cluster of a directory holds, and any other.
DirContents == [kind : {"dir"}, slots : [1 .. SlotsPerCluster -> SlotValues]]
PlainContents == [kind : {"blank"}] \cup [kind : {"data"}, id : FileIds, part : Nat]

\* The contents of a cluster are told apart by their kind.
LEMMA ContentsLemma ==
  /\ Contents = PlainContents \cup DirContents
  /\ \A a \in Contents : a.kind = "dir" => a \in DirContents
  /\ \A a \in Contents : a.kind # "dir" => a \in PlainContents
  /\ \A a \in DirContents : a.kind = "dir" /\ a.slots \in [1 .. SlotsPerCluster -> SlotValues]
  /\ Disks = [fat : [Entries -> FatValues], area : [Entries -> Contents]]
  <1>1. Contents = PlainContents \cup DirContents
    BY DEF Contents, PlainContents, DirContents, SlotValues, SlotEntries
  <1>2. \A a \in PlainContents : a.kind # "dir"
    BY DEF PlainContents
  <1>3. \A a \in DirContents : a.kind = "dir" /\ a.slots \in [1 .. SlotsPerCluster -> SlotValues]
    BY DEF DirContents
  <1> QED
    BY <1>1, <1>2, <1>3 DEF Disks

\* A disk has a FAT and an area, and a directory cluster has slots.
LEMMA DiskLemma ==
  ASSUME NEW d \in Disks
  PROVE  /\ d.fat \in [Entries -> FatValues]
         /\ d.area \in [Entries -> Contents]
         /\ d = [fat |-> d.fat, area |-> d.area]
         /\ \A c \in Entries : d.area[c].kind = "dir" =>
              d.area[c] \in DirContents /\ d.area[c].slots \in [1 .. SlotsPerCluster -> SlotValues]
  BY ContentsLemma

\* A slot in use is told by its state.
LEMMA SlotValueLemma ==
  /\ FreeSlot \in SlotValues /\ WipedSlot \in SlotValues /\ SlotEntries \subseteq SlotValues
  /\ FreeSlot.state = "free" /\ WipedSlot.state = "wiped"
  /\ \A s \in SlotValues : s.state = "entry" <=> s \in SlotEntries
  /\ \A s \in SlotEntries : /\ s.state = "entry" /\ s.first \in Entries
                            /\ s.isDir \in BOOLEAN /\ s.size \in Nat
  BY DEF SlotValues, SlotEntries, FreeSlot, WipedSlot

\* write_cluster_number_into_direntry and the like leave a slot what it is.
LEMMA FieldLemma ==
  ASSUME NEW s \in SlotValues, NEW c \in Entries, NEW n \in Nat
  PROVE  /\ [s EXCEPT !.first = c] \in SlotValues
         /\ [s EXCEPT !.size = n] \in SlotValues
         /\ [s EXCEPT !.first = c, !.size = n] \in SlotValues
         /\ [s EXCEPT !.first = c].state = s.state
         /\ [s EXCEPT !.size = n].state = s.state
         /\ [s EXCEPT !.first = c, !.size = n].state = s.state
         /\ s.state = "entry" =>
              /\ [s EXCEPT !.first = c].first = c
              /\ [s EXCEPT !.size = n].first = s.first
              /\ [s EXCEPT !.first = c, !.size = n].first = c
  <1>1. CASE s \in SlotEntries
    BY <1>1 DEF SlotEntries, SlotValues
  <1>2. CASE s = FreeSlot
    BY <1>2 DEF FreeSlot, SlotValues
  <1>3. CASE s = WipedSlot
    BY <1>3 DEF WipedSlot, SlotValues
  <1> QED
    BY <1>1, <1>2, <1>3 DEF SlotValues

\* What is read from a slot.
LEMMA SlotAtLemma ==
  ASSUME NEW d \in Disks, NEW p \in Slots
  PROVE  SlotAt(d, p) \in SlotValues
  <1>1. p.cluster \in Entries /\ p.index \in 1 .. SlotsPerCluster
    BY DEF Slots
  <1> QED
    BY <1>1, DiskLemma, SlotValueLemma DEF SlotAt

\* What a write makes of the disk is a disk.
LEMMA FatWithLemma ==
  ASSUME fs \in Disks, NEW c \in Entries, NEW v \in FatValues
  PROVE  /\ FatWith(c, v) \in Disks
         /\ FatWith(c, v).area = fs.area
         /\ FatWith(c, v).fat = [fs.fat EXCEPT ![c] = v]
  <1>1. fs.fat \in [Entries -> FatValues] /\ fs.area \in [Entries -> Contents]
    BY DiskLemma
  <1>2. FatWith(c, v) = [fat |-> [fs.fat EXCEPT ![c] = v], area |-> fs.area]
    BY DiskLemma DEF FatWith
  <1>3. [fs.fat EXCEPT ![c] = v] \in [Entries -> FatValues]
    BY <1>1
  <1> QED
    BY <1>1, <1>2, <1>3 DEF Disks

\* The same for a cluster that is written.
LEMMA AreaWithLemma ==
  ASSUME fs \in Disks, NEW c \in Entries, NEW a \in Contents
  PROVE  /\ AreaWith(c, a) \in Disks
         /\ AreaWith(c, a).fat = fs.fat
         /\ AreaWith(c, a).area = [fs.area EXCEPT ![c] = a]
  <1>1. fs.fat \in [Entries -> FatValues] /\ fs.area \in [Entries -> Contents]
    BY DiskLemma
  <1>2. AreaWith(c, a) = [fat |-> fs.fat, area |-> [fs.area EXCEPT ![c] = a]]
    BY DiskLemma DEF AreaWith
  <1>3. [fs.area EXCEPT ![c] = a] \in [Entries -> Contents]
    BY <1>1
  <1> QED
    BY <1>1, <1>2, <1>3 DEF Disks

\* The same for a slot, of which nothing is left in a cluster that is no
\* directory.
LEMMA SlotWithLemma ==
  ASSUME fs \in Disks, NEW p \in Slots, NEW s \in SlotValues
  PROVE  /\ SlotWith(p, s) \in Disks
         /\ SlotWith(p, s).fat = fs.fat
         /\ \A c \in Entries : c # p.cluster => SlotWith(p, s).area[c] = fs.area[c]
         /\ SlotWith(p, s).area[p.cluster].kind = fs.area[p.cluster].kind
         /\ fs.area[p.cluster].kind = "dir" =>
              SlotWith(p, s).area[p.cluster].slots = [fs.area[p.cluster].slots EXCEPT ![p.index] = s]
  <1>1. fs.fat \in [Entries -> FatValues] /\ fs.area \in [Entries -> Contents] /\ p.cluster \in Entries
    BY DiskLemma DEF Slots
  <1>2. CASE fs.area[p.cluster].kind # "dir"
    BY <1>1, <1>2 DEF SlotWith
  <1>3. CASE fs.area[p.cluster].kind = "dir"
    <2> DEFINE a == fs.area[p.cluster]
               b == [a EXCEPT !.slots = [a.slots EXCEPT ![p.index] = s]]
    <2>1. a \in DirContents /\ a.slots \in [1 .. SlotsPerCluster -> SlotValues]
      BY <1>1, <1>3, DiskLemma
    <2>2. [a.slots EXCEPT ![p.index] = s] \in [1 .. SlotsPerCluster -> SlotValues]
      BY <2>1
    <2>3. b \in DirContents /\ b.slots = [a.slots EXCEPT ![p.index] = s] /\ b.kind = "dir"
      BY <2>1, <2>2 DEF DirContents
    <2>4. SlotWith(p, s) = AreaWith(p.cluster, b)
      BY <1>1, <1>3, DiskLemma DEF SlotWith, AreaWith
    <2>5. b \in Contents
      BY <2>3, ContentsLemma
    <2> HIDE DEF b
    <2>6. /\ SlotWith(p, s) \in Disks
          /\ SlotWith(p, s).fat = fs.fat
          /\ SlotWith(p, s).area = [fs.area EXCEPT ![p.cluster] = b]
      BY <1>1, <2>4, <2>5, AreaWithLemma
    <2> QED
      BY <1>1, <1>3, <2>3, <2>6
  <1> QED
    BY <1>2, <1>3

-----------------------------------------------------------------------------
(* Types of writes and of what is found *)

\* Queues of no sector and of one.
LEMMA EmptyQueueLemma ==
  /\ <<>> \in Seq(Sectors) /\ IsInjective(<<>>)
  /\ \A s \in Sectors : /\ <<s>> \in Seq(Sectors) /\ IsInjective(<<s>>)
                         /\ Len(<<s>>) = 1 /\ <<s>>[1] = s
  BY DEF IsInjective

\* queue_write_sector puts a sector behind the others unless it is there.
LEMMA QueuedLemma ==
  ASSUME queue \in Seq(Sectors), IsInjective(queue), NEW s \in Sectors
  PROVE  /\ Queued(s) \in Seq(Sectors) /\ IsInjective(Queued(s))
         /\ Len(queue) \in Nat /\ Len(queue) <= Len(Queued(s))
         /\ \A i \in 1 .. Len(queue) : Queued(s)[i] = queue[i]
         /\ \E i \in 1 .. Len(Queued(s)) : Queued(s)[i] = s
         /\ \/ Queued(s) = queue
            \/ Len(Queued(s)) = Len(queue) + 1 /\ Queued(s)[Len(queue) + 1] = s
  <1>1. Contains(queue, s) <=> \E i \in 1 .. Len(queue) : queue[i] = s
    BY DEF Contains
  <1>2. CASE \E i \in 1 .. Len(queue) : queue[i] = s
    <2>1. Queued(s) = queue
      BY <1>1, <1>2 DEF Queued
    <2> QED
      BY <1>2, <2>1
  <1>3. CASE ~ \E i \in 1 .. Len(queue) : queue[i] = s
    <2>1. Queued(s) = Append(queue, s)
      BY <1>1, <1>3 DEF Queued
    <2>2. /\ Queued(s) \in Seq(Sectors) /\ Len(Queued(s)) = Len(queue) + 1 /\ Len(queue) \in Nat
          /\ Queued(s)[Len(queue) + 1] = s
          /\ \A i \in 1 .. Len(queue) : Queued(s)[i] = queue[i]
      BY <2>1
    <2>3. IsInjective(Queued(s))
      <3> SUFFICES ASSUME NEW i \in 1 .. Len(queue) + 1, NEW j \in 1 .. Len(queue) + 1,
                          Queued(s)[i] = Queued(s)[j]
                   PROVE  i = j
        BY <2>2 DEF IsInjective
      <3>1. i \in 1 .. Len(queue) /\ j \in 1 .. Len(queue) => i = j
        BY <2>2 DEF IsInjective
      <3> QED
        BY <1>3, <2>2, <3>1
    <2> QED
      BY <2>2, <2>3
  <1> QED
    BY <1>2, <1>3

\* What no write touches, and the types of what writes do touch.
Kept == UNCHANGED <<layout, commands, crashes>>
DiskTypes ==
  fs \in Disks /\ card \in Disks /\ queue \in Seq(Sectors) /\ IsInjective(queue)

\* A write keeps the types, ...
LEMMA WriteTypes ==
  ASSUME DiskTypes, NEW disk \in Disks, NEW s \in Sectors, Write(disk, s)
  PROVE  DiskTypes' /\ Kept
  BY QueuedLemma, EmptyQueueLemma DEF DiskTypes, Kept, Write

\* Numbers of clusters, of sectors and in the FAT.
LEMMA NumberTypes ==
  ASSUME layout \in Layouts
  PROVE  /\ \A c \in Entries : c \in Sectors /\ FatSector(c) \in Sectors
         /\ 0 \in Entries /\ 0 \in FatValues /\ EndOfChain \in FatValues
         /\ Entries \subseteq FatValues
         /\ layout.dir \in Clusters /\ layout.dir \in Entries
         /\ \A p \in Slots : p.cluster \in Entries /\ p.index \in 1 .. SlotsPerCluster
         /\ \A c \in FatValues : InChain(c) => c \in Entries
  <1>1. \A c \in Entries : c \in Sectors
    BY EntriesLemma DEF Sectors
  <1>2. layout.dir \in Clusters
    BY LayoutAssumption DEF Clusters
  <1> QED
    BY <1>1, <1>2, FatSectorLemma, EntriesLemma DEF Slots, InChain, EndOfChain

\* ... as do one of the FAT, ...
LEMMA FatWriteTypes ==
  ASSUME TypeInv, NEW c \in Entries, NEW v \in FatValues, WriteFat(c, v)
  PROVE  DiskTypes' /\ Kept
  BY NumberTypes, FatWithLemma, WriteTypes DEF TypeInv, TypeOK, DiskTypes, WriteFat

\* ... one of a slot ...
LEMMA SlotWriteTypes ==
  ASSUME TypeInv, NEW p \in Slots, NEW s \in SlotValues, WriteSlot(p, s)
  PROVE  DiskTypes' /\ Kept
  <1>1. p.cluster \in Sectors
    BY NumberTypes DEF TypeInv, Slots
  <1> QED
    BY <1>1, SlotWithLemma, WriteTypes DEF TypeInv, TypeOK, DiskTypes, WriteSlot

\* ... and one of a cluster.
LEMMA AreaWriteTypes ==
  ASSUME TypeInv, NEW c \in Entries, NEW a \in Contents, WriteArea(c, a)
  PROVE  DiskTypes' /\ Kept
  BY NumberTypes, AreaWithLemma, WriteTypes DEF TypeInv, TypeOK, DiskTypes, WriteArea

\* What the program finds in the directory.
LEMMA FoundLemma ==
  ASSUME TypeInv, NEW name, Exists(name)
  PROVE  /\ Found(name) \in Slots
         /\ SlotAt(fs, Found(name)) \in SlotEntries
         /\ fs.area[Found(name).cluster].kind = "dir"
         /\ SlotAt(fs, Found(name)) = fs.area[Found(name).cluster].slots[Found(name).index]
  <1>1. EntriesOf(fs, name) \in SUBSET Positions(fs) /\ EntriesOf(fs, name) # {}
    BY DEF EntriesOf, Exists
  <1>2. fs.fat \in [Entries -> FatValues] /\ layout \in Layouts /\ fs \in Disks
    BY DiskLemma DEF TypeInv, TypeOK
  <1>3. Found(name) \in EntriesOf(fs, name) /\ EntriesOf(fs, name) \subseteq Slots
    BY <1>1, <1>2, FirstOfLemma DEF Found
  <1>4. SlotAt(fs, Found(name)).state = "entry" /\ Found(name) \in Slots
    BY <1>3 DEF EntriesOf
  <1>5. SlotAt(fs, Found(name)) \in SlotEntries
    BY <1>2, <1>4, SlotAtLemma, SlotValueLemma
  <1>6. fs.area[Found(name).cluster].kind = "dir"
    BY <1>4, SlotValueLemma DEF SlotAt
  <1> QED
    BY <1>4, <1>5, <1>6 DEF SlotAt

\* Cluster 0, where the program goes on when it finds no cluster, is a position.
LEMMA StrayLemma ==
  NoPosition \in Slots
  BY EntriesLemma, SizeAssumption DEF NoPosition, Slots

\* find_contiguous_free_direntries finds a slot.
LEMMA FreeSlotLemma ==
  ASSUME TypeInv, FreeSlots # {}
  PROVE  FirstFreeSlot \in Slots
  <1>1. FreeSlots \in SUBSET Positions(fs)
    BY DEF FreeSlots
  <1>2. fs.fat \in [Entries -> FatValues] /\ layout \in Layouts
    BY DiskLemma DEF TypeInv, TypeOK
  <1> QED
    BY <1>1, <1>2, FirstOfLemma DEF FirstFreeSlot

\* What find_contiguous_clusters finds.
LEMMA FindRunLemma ==
  ASSUME fs.fat \in [Entries -> FatValues], NEW n \in Nat \ {0}, SearchEnds(n)
  PROVE  /\ FindRun(n) \in Entries
         /\ n = 1 => FindRun(n) = FindFree(0)
         /\ n # 1 => FindRun(n) \in Runs(n)
  <1>1. CASE n = 1
    BY <1>1, FindFreeLemma, EntriesLemma DEF FindRun
  <1>2. CASE n # 1
    <2> DEFINE ahead == {c \in Runs(n) : c >= FindFree(0)}
               chosen == IF ahead # {} THEN ahead ELSE Runs(n)
    <2>1. Runs(n) \in SUBSET Nat /\ Runs(n) # {} /\ Runs(n) \subseteq Entries
      BY <1>2, EntriesLemma DEF Runs, SearchEnds
    <2>2. chosen \in SUBSET Nat /\ chosen # {} /\ chosen \subseteq Runs(n)
      BY <2>1
    <2>3. FindRun(n) = Min(chosen)
      BY <1>2 DEF FindRun
    <2> HIDE DEF chosen
    <2>4. Min(chosen) \in chosen
      BY <2>2, MinLemma
    <2> QED
      BY <1>2, <2>1, <2>2, <2>3, <2>4
  <1> QED
    BY <1>1, <1>2

-----------------------------------------------------------------------------
(* Every step keeps the types *)

\* The variables of a command have their types.
LEMMA CmdLemma ==
  ASSUME cmd \in Commands(cmd.result)
  PROVE  /\ cmd.slot \in Slots /\ cmd.cluster \in Entries /\ cmd.next \in Entries
         /\ cmd.n \in Nat /\ cmd.id \in Nat /\ cmd.part \in Nat /\ cmd.then \in Labels
         /\ cmd.entry \in SlotValues
         /\ cmd.op \in Ops
  BY DEF Commands

\* So do those of none.
LEMMA NoCommandLemma ==
  /\ NoCommand.op = "none" /\ NoCommand.n = 0 /\ NoCommand.part = 0 /\ NoCommand.then = "prompt"
  /\ NoCommand.slot \in Slots /\ NoCommand.cluster = 0 /\ NoCommand.next = 0
  /\ NoCommand \in Commands(NoCommand.result)
  <1>1. NoPosition \in Slots
    BY StrayLemma
  <1> QED
    BY <1>1, EntriesLemma, SlotValueLemma DEF NoCommand, Ops, Labels, Commands

\* The command after a change of its program counter and one or two variables.
LEMMA TypeStep ==
  ASSUME TypeInv, DiskTypes', Kept, pc' \in Labels, cmd' \in Commands(cmd'.result), pc # "prompt",
         cmd'.op = cmd.op, cmd'.n = cmd.n, cmd'.name = cmd.name, cmd'.id = cmd.id, cmd'.entry = cmd.entry,
         RelinkInv'
  PROVE  TypeInv'
  <1>1. cmd'.cluster \in Entries /\ cmd'.next \in Entries
    BY DEF Commands
  <1> QED
    BY <1>1 DEF TypeInv, TypeOK, DiskTypes, Kept

\* upload_single_file counts a part and goes on to a cluster.
LEMMA PartLemma ==
  ASSUME cmd \in Commands(cmd.result), NEW c \in Entries
  PROVE  /\ [cmd EXCEPT !.part = @ + 1] \in Commands(cmd.result)
         /\ [cmd EXCEPT !.part = @ + 1].part = cmd.part + 1
         /\ [[cmd EXCEPT !.part = @ + 1] EXCEPT !.cluster = c] \in Commands(cmd.result)
         /\ [[cmd EXCEPT !.part = @ + 1] EXCEPT !.cluster = c].part = cmd.part + 1
         /\ \A f \in {"op", "name", "n", "id", "slot", "next", "then", "entry", "from", "result"} :
              /\ [cmd EXCEPT !.part = @ + 1][f] = cmd[f]
              /\ [[cmd EXCEPT !.part = @ + 1] EXCEPT !.cluster = c][f] = cmd[f]
  <1> DEFINE w == [cmd EXCEPT !.part = @ + 1]
  <1>1. cmd.part + 1 \in Nat
    BY CmdLemma
  <1>2. /\ w \in Commands(cmd.result) /\ w.part = cmd.part + 1
        /\ \A f \in {"op", "name", "n", "id", "slot", "next", "then", "entry", "from", "result"} :
             w[f] = cmd[f]
    BY <1>1 DEF Commands
  <1> HIDE DEF w
  <1>3. /\ [w EXCEPT !.cluster = c] \in Commands(cmd.result) /\ [w EXCEPT !.cluster = c].part = w.part
        /\ \A f \in {"op", "name", "n", "id", "slot", "next", "then", "entry", "from", "result"} :
             [w EXCEPT !.cluster = c][f] = w[f]
    BY <1>2 DEF Commands
  <1> QED
    BY <1>2, <1>3 DEF w

\* Every step of a command keeps the types.
LEMMA StepTypes ==
  ASSUME TypeInv, Step
  PROVE  TypeInv'
  <1> USE DEF TypeInv, TypeOK
  <1>0. /\ cmd.slot \in Slots /\ cmd.cluster \in Entries /\ cmd.next \in Entries
        /\ cmd.n \in Nat /\ cmd.id \in Nat /\ cmd.part \in Nat /\ cmd.then \in Labels
        /\ cmd.entry \in SlotValues /\ cmd.op \in Ops
        /\ fs.fat \in [Entries -> FatValues]
    BY CmdLemma, DiskLemma
  <1>a. \A label \in {"free", "create", "relink", "first", "prompt", "flush", "data", "size"} :
          label \in Labels
    BY DEF Labels
  <1>1. CASE Wipe
    <2>1. DiskTypes' /\ Kept /\ pc # "prompt"
      BY <1>0, <1>1, SlotWriteTypes, SlotValueLemma DEF Wipe
    <2>2. pc' \in Labels /\ cmd' \in Commands(cmd'.result) /\ RelinkInv'
      BY <1>0, <1>1 DEF Wipe, FlushThen, GotoWith, Labels, Commands, RelinkInv
    <2>3. cmd'.op = cmd.op /\ cmd'.n = cmd.n /\ cmd'.name = cmd.name /\ cmd'.id = cmd.id /\ cmd'.entry = cmd.entry
      BY <1>1 DEF Wipe, FlushThen, GotoWith, Commands
    <2> QED
      BY <2>1, <2>2, <2>3, TypeStep
  <1>2. CASE FreeNext
    <2>1. DiskTypes' /\ Kept /\ pc # "prompt"
      BY <1>0, <1>2, FatWriteTypes, NumberTypes DEF FreeNext
    <2>2. InChain(fs.fat[cmd.cluster]) => fs.fat[cmd.cluster] \in Entries
      BY <1>0, NumberTypes
    <2>3. pc' \in Labels /\ cmd' \in Commands(cmd'.result) /\ RelinkInv'
      BY <1>0, <1>2, <2>2 DEF FreeNext, FlushThen, GotoWith, Labels, Commands, RelinkInv
    <2>4. cmd'.op = cmd.op /\ cmd'.n = cmd.n /\ cmd'.name = cmd.name /\ cmd'.id = cmd.id /\ cmd'.entry = cmd.entry
      BY <1>2 DEF FreeNext, FlushThen, GotoWith, Commands
    <2> QED
      BY <2>1, <2>3, <2>4, TypeStep
  <1>3. CASE CreateEntry
    <2>1. NewSlot \in Slots /\ pc # "prompt"
      BY <1>3, FreeSlotLemma, StrayLemma DEF CreateEntry, NewSlot
    <2>2. EntrySlot(cmd.name, 0, 0, IF cmd.op = "rename" THEN cmd.entry.isDir ELSE cmd.op = "mkdir")
            \in SlotValues
      <3>1. cmd.name \in Names /\ 0 \in Entries /\ 0 \in Nat
        BY <2>1, EntriesLemma
      <3>2. (IF cmd.op = "rename" THEN cmd.entry.isDir ELSE cmd.op = "mkdir") \in BOOLEAN
        BY SlotValueLemma
      <3> DEFINE b == IF cmd.op = "rename" THEN cmd.entry.isDir ELSE cmd.op = "mkdir"
      <3>3. b \in BOOLEAN
        BY <3>2
      <3> HIDE DEF b
      <3>4. EntrySlot(cmd.name, 0, 0, b) \in SlotEntries
        BY <3>1, <3>3 DEF EntrySlot, SlotEntries
      <3> QED
        BY <3>4, SlotValueLemma DEF b
    <2>3. DiskTypes' /\ Kept
      BY <1>3, <2>1, <2>2, SlotWriteTypes DEF CreateEntry
    <2>4. pc' \in Labels /\ cmd' \in Commands(cmd'.result) /\ RelinkInv'
      BY <1>0, <1>3, <2>1 DEF CreateEntry, GotoWith, Labels, Commands, RelinkInv
    <2>5. cmd'.op = cmd.op /\ cmd'.n = cmd.n /\ cmd'.name = cmd.name /\ cmd'.id = cmd.id /\ cmd'.entry = cmd.entry
      BY <1>3 DEF CreateEntry, GotoWith, Commands
    <2> QED
      BY <2>1, <2>3, <2>4, <2>5, TypeStep
  <1>4. CASE ExtendDir
    <2> DEFINE last == Last(Chain(fs.fat, layout.dir))
               next == FindFree(last)
    <2>1. last \in Entries
      <3>1. Chain(fs.fat, layout.dir) \in Seq(Entries) /\ Len(Chain(fs.fat, layout.dir)) \in Nat \ {0}
        BY <1>0, NumberTypes, ClosedLemma, ChainLemma
      <3> QED
        BY <3>1 DEF Last
    <2>2. next \in Entries
      BY <1>0, <2>1, FindFreeLemma
    <2>3. /\ WriteFat(next, EndOfChain) /\ pc # "prompt" /\ pc' = "extend"
          /\ cmd' = [cmd EXCEPT !.cluster = last, !.next = next]
      BY <1>4 DEF ExtendDir, GotoWith
    <2> HIDE DEF last, next
    <2>4. DiskTypes' /\ Kept
      BY <2>2, <2>3, FatWriteTypes, NumberTypes
    <2>5. pc' \in Labels /\ cmd' \in Commands(cmd'.result) /\ RelinkInv'
      BY <1>0, <2>1, <2>2, <2>3 DEF Labels, Commands, RelinkInv
    <2>6. cmd'.op = cmd.op /\ cmd'.n = cmd.n /\ cmd'.name = cmd.name /\ cmd'.id = cmd.id /\ cmd'.entry = cmd.entry
      BY <2>3 DEF Commands
    <2> QED
      BY <2>3, <2>4, <2>5, <2>6, TypeStep
  <1>5. CASE ChainDir
    <2>1. DiskTypes' /\ Kept /\ pc # "prompt"
      BY <1>0, <1>5, FatWriteTypes, NumberTypes DEF ChainDir
    <2>2. pc' \in Labels /\ cmd' \in Commands(cmd'.result) /\ cmd' = cmd /\ RelinkInv'
      BY <1>0, <1>5 DEF ChainDir, Goto, Labels, Commands, RelinkInv
    <2> QED
      BY <2>1, <2>2, TypeStep
  <1>6. CASE ClearCluster
    <2>1. EmptyDirectory \in Contents
      BY SlotValueLemma, ContentsLemma DEF EmptyDirectory, Directory, DirContents
    <2>2. DiskTypes' /\ Kept /\ pc # "prompt"
      BY <1>0, <1>6, <2>1, AreaWriteTypes DEF ClearCluster
    <2>3. pc' \in Labels /\ cmd' \in Commands(cmd'.result) /\ RelinkInv'
      BY <1>0, <1>6 DEF ClearCluster, FlushThen, GotoWith, Labels, Commands, RelinkInv
    <2>4. cmd'.op = cmd.op /\ cmd'.n = cmd.n /\ cmd'.name = cmd.name /\ cmd'.id = cmd.id /\ cmd'.entry = cmd.entry
      BY <1>6 DEF ClearCluster, FlushThen, GotoWith, Commands
    <2> QED
      BY <2>2, <2>3, <2>4, TypeStep
  <1>7. CASE AllocateFirst
    <2>1. FirstFree \in Entries
      <3>1. CASE cmd.op = "put"
        <4>1. FirstFree = FindRun(cmd.n) /\ SearchEnds(cmd.n) /\ FindRun(cmd.n) # 0
          BY <1>7, <3>1 DEF AllocateFirst, FirstFree
        <4>2. cmd.n \in Nat \ {0}
          BY <3>1
        <4> QED
          BY <1>0, <4>1, <4>2, FindRunLemma
      <3>2. CASE cmd.op # "put"
        BY <1>0, <3>2, NumberTypes, FindFreeLemma DEF FirstFree
      <3> QED
        BY <3>1, <3>2
    <2>2. /\ WriteFat(FirstFree, EndOfChain) /\ pc # "prompt" /\ pc' = "link"
          /\ cmd' = [cmd EXCEPT !.cluster = FirstFree]
      BY <1>7 DEF AllocateFirst, GotoWith
    <2>3. DiskTypes' /\ Kept
      BY <2>1, <2>2, FatWriteTypes, NumberTypes
    <2>4. pc' \in Labels /\ cmd' \in Commands(cmd'.result) /\ RelinkInv'
      BY <1>0, <2>1, <2>2 DEF Labels, Commands, RelinkInv
    <2>5. cmd'.op = cmd.op /\ cmd'.n = cmd.n /\ cmd'.name = cmd.name /\ cmd'.id = cmd.id /\ cmd'.entry = cmd.entry
      BY <2>2 DEF Commands
    <2> QED
      BY <2>2, <2>3, <2>4, <2>5, TypeStep
  <1>8. CASE NoFreeCluster
    <2>1. DiskTypes' /\ Kept /\ pc' \in Labels /\ cmd' = cmd /\ cmd' \in Commands(cmd'.result) /\ pc # "prompt" /\ RelinkInv'
      BY <1>8 DEF NoFreeCluster, Labels, Commands, RelinkInv, DiskTypes, Kept
    <2> QED
      BY <2>1, TypeStep
  <1>9. CASE LinkEntry
    <2>1. [SlotAt(fs, cmd.slot) EXCEPT !.first = cmd.cluster] \in SlotValues
      BY <1>0, SlotAtLemma, FieldLemma
    <2>2. DiskTypes' /\ Kept /\ pc # "prompt"
      BY <1>0, <1>9, <2>1, SlotWriteTypes DEF LinkEntry
    <2>3. pc' \in Labels /\ cmd' \in Commands(cmd'.result) /\ cmd' = cmd /\ RelinkInv'
      BY <1>0, <1>9 DEF LinkEntry, Goto, Labels, Commands, RelinkInv
    <2> QED
      BY <2>2, <2>3, TypeStep
  <1>10. CASE WriteData
    <2> DEFINE content == IF cmd.op = "put" THEN Data(cmd.id, cmd.part + 1) ELSE NewDirectory
               next == fs.fat[cmd.cluster]
    <2>1. content \in Contents
      <3>1. NewDirectory \in Contents
        BY SlotValueLemma, ContentsLemma DEF NewDirectory, Directory, DirContents
      <3>2. cmd.op = "put" => Data(cmd.id, cmd.part + 1) \in Contents
        BY <1>0, ContentsLemma DEF PlainContents, Data
      <3> QED
        BY <3>1, <3>2
    <2>2. DiskTypes' /\ Kept /\ pc # "prompt"
      BY <1>0, <1>10, <2>1, AreaWriteTypes DEF WriteData
    <2>3. InChain(next) => next \in Entries
      BY <1>0, NumberTypes
    <2>4. \/ pc' \in {"size", "grow"} /\ cmd' = [cmd EXCEPT !.part = @ + 1]
          \/ /\ InChain(next) /\ pc' = "data"
             /\ cmd' = [[cmd EXCEPT !.part = @ + 1] EXCEPT !.cluster = next]
      BY <1>10 DEF WriteData, GotoWith
    <2> HIDE DEF next
    <2>5. pc' \in Labels /\ cmd' \in Commands(cmd'.result) /\ RelinkInv'
      <3>1. CASE pc' \in {"size", "grow"} /\ cmd' = [cmd EXCEPT !.part = @ + 1]
        BY <1>0, <3>1, PartLemma DEF Labels, Commands, RelinkInv
      <3>2. CASE InChain(next) /\ pc' = "data"
                 /\ cmd' = [[cmd EXCEPT !.part = @ + 1] EXCEPT !.cluster = next]
        BY <1>0, <2>3, <3>2, PartLemma DEF Labels, Commands, RelinkInv
      <3> QED
        BY <2>4, <3>1, <3>2
    <2>6. cmd'.op = cmd.op /\ cmd'.n = cmd.n /\ cmd'.name = cmd.name /\ cmd'.id = cmd.id /\ cmd'.entry = cmd.entry
      BY <2>4 DEF Commands
    <2> QED
      BY <2>2, <2>5, <2>6, TypeStep
  <1>11. CASE GrowFile
    <2> DEFINE next == FindFree(cmd.cluster)
    <2>1. next \in Entries
      BY <1>0, FindFreeLemma
    <2>2. /\ WriteFat(next, EndOfChain) /\ pc # "prompt" /\ pc' = "chain"
          /\ cmd' = [cmd EXCEPT !.next = next]
      BY <1>11 DEF GrowFile, GotoWith
    <2> HIDE DEF next
    <2>3. DiskTypes' /\ Kept
      BY <2>1, <2>2, FatWriteTypes, NumberTypes
    <2>4. pc' \in Labels /\ cmd' \in Commands(cmd'.result) /\ RelinkInv'
      BY <1>0, <2>1, <2>2 DEF Labels, Commands, RelinkInv
    <2>5. cmd'.op = cmd.op /\ cmd'.n = cmd.n /\ cmd'.name = cmd.name /\ cmd'.id = cmd.id /\ cmd'.entry = cmd.entry
      BY <2>2 DEF Commands
    <2> QED
      BY <2>2, <2>3, <2>4, <2>5, TypeStep
  <1>12. CASE ChainFile
    <2>1. DiskTypes' /\ Kept /\ pc # "prompt"
      BY <1>0, <1>12, FatWriteTypes, NumberTypes DEF ChainFile
    <2>2. pc' \in Labels /\ cmd' \in Commands(cmd'.result) /\ RelinkInv'
      BY <1>0, <1>12 DEF ChainFile, GotoWith, Labels, Commands, RelinkInv
    <2>3. cmd'.op = cmd.op /\ cmd'.n = cmd.n /\ cmd'.name = cmd.name /\ cmd'.id = cmd.id /\ cmd'.entry = cmd.entry
      BY <1>12 DEF ChainFile, GotoWith, Commands
    <2> QED
      BY <2>1, <2>2, <2>3, TypeStep
  <1>13. CASE WriteSize
    <2> DEFINE size == IF cmd.op = "put" THEN cmd.n ELSE 0
    <2>1. size \in Nat
      BY <1>0
    <2>2. WriteSlot(cmd.slot, [SlotAt(fs, cmd.slot) EXCEPT !.size = size])
      BY <1>13 DEF WriteSize
    <2> HIDE DEF size
    <2>3. [SlotAt(fs, cmd.slot) EXCEPT !.size = size] \in SlotValues
      BY <1>0, <2>1, SlotAtLemma, FieldLemma, NumberTypes
    <2>4. DiskTypes' /\ Kept /\ pc # "prompt"
      BY <1>0, <1>13, <2>2, <2>3, SlotWriteTypes DEF WriteSize
    <2>5. pc' \in Labels /\ cmd' \in Commands(cmd'.result) /\ RelinkInv'
      BY <1>0, <1>13 DEF WriteSize, FlushThen, GotoWith, Labels, Commands, RelinkInv
    <2>6. cmd'.op = cmd.op /\ cmd'.n = cmd.n /\ cmd'.name = cmd.name /\ cmd'.id = cmd.id /\ cmd'.entry = cmd.entry
      BY <1>13 DEF WriteSize, FlushThen, GotoWith, Commands
    <2> QED
      BY <2>4, <2>5, <2>6, TypeStep
  <1>14. CASE Relink
    <2>1. cmd.entry.first \in Entries /\ cmd.entry.size \in Nat
      <3>1. pc = "relink"
        BY <1>14 DEF Relink
      <3>2. cmd.entry \in SlotEntries
        BY <3>1 DEF RelinkInv
      <3> QED
        BY <3>2, SlotValueLemma
    <2>2. [SlotAt(fs, cmd.slot) EXCEPT !.first = cmd.entry.first, !.size = cmd.entry.size] \in SlotValues
      BY <1>0, <2>1, SlotAtLemma, FieldLemma
    <2>3. DiskTypes' /\ Kept /\ pc # "prompt"
      BY <1>0, <1>14, <2>2, SlotWriteTypes DEF Relink
    <2>4. pc' \in Labels /\ cmd' \in Commands(cmd'.result) /\ RelinkInv'
      BY <1>0, <1>14 DEF Relink, FlushThen, GotoWith, Labels, Commands, RelinkInv
    <2>5. cmd'.op = cmd.op /\ cmd'.n = cmd.n /\ cmd'.name = cmd.name /\ cmd'.id = cmd.id /\ cmd'.entry = cmd.entry
      BY <1>14 DEF Relink, FlushThen, GotoWith, Commands
    <2> QED
      BY <2>3, <2>4, <2>5, TypeStep
  <1>15. CASE Flush
    <2>1. DiskTypes' /\ Kept /\ pc' \in Labels /\ cmd' = cmd /\ cmd' \in Commands(cmd'.result) /\ pc # "prompt" /\ RelinkInv'
      BY <1>0, <1>15, EmptyQueueLemma DEF Flush, Labels, Commands, RelinkInv, DiskTypes, Kept, IsInjective
    <2> QED
      BY <2>1, TypeStep
  <1> QED
    BY <1>1, <1>2, <1>3, <1>4, <1>5, <1>6, <1>7, <1>8, <1>9, <1>10, <1>11, <1>12,
       <1>13, <1>14, <1>15 DEF Step

\* A command begins with its variables in their types, ...
LEMMA BeginTypes ==
  ASSUME TypeInv, NEW start \in {"create", "wipe", "first", "data"}, NEW names, NEW command,
         Begin(start, names, command), command \in Commands(command.result),
         command.name \in Names, command.op # "none",
         command.op = "put" => command.id \in FileIds,
         command.op = "rename" => command.entry \in SlotEntries,
         command.op \in {"put", "mkdir"} => command.n \in Nat \ {0},
         command.op = "mkdir" => command.n = 1
  PROVE  TypeInv'
  <1>1. command.cluster \in Entries /\ command.next \in Entries
    BY DEF Commands
  <1>2. commands + 1 \in 0 .. MaxCommands
    BY SizeAssumption DEF TypeInv, TypeOK, Begin
  <1>3. /\ fs' = fs /\ card' = card /\ queue' = queue /\ layout' = layout /\ crashes' = crashes
        /\ commands' = commands + 1 /\ pc' = start /\ cmd' = command
    BY DEF Begin
  <1>4. TypeOK'
    BY <1>1, <1>2, <1>3 DEF TypeInv, TypeOK, Labels
  <1>5. RelinkInv'
    BY <1>3 DEF RelinkInv
  <1> QED
    BY <1>3, <1>4, <1>5 DEF TypeInv

\* ... put for one ...
LEMMA PutCommandLemma ==
  ASSUME NEW name \in Names, NEW n \in Nat, commands + 1 \in Nat
  PROVE  /\ PutCommand(name, n).name = name /\ PutCommand(name, n).op = "put"
         /\ PutCommand(name, n).id = commands + 1 /\ PutCommand(name, n).n = n
         /\ PutCommand(name, n).slot \in Slots /\ PutCommand(name, n).part = 0
         /\ PutCommand(name, n) \in Commands(PutCommand(name, n).result)
  <1>1. "put" \in Ops
    BY DEF Ops
  <1> QED
    BY <1>1, NoCommandLemma DEF PutCommand, Commands

\* ... and so do all.
LEMMA CommandTypes ==
  ASSUME TypeInv, Command
  PROVE  TypeInv'
  <1>1. commands < MaxCommands => commands + 1 \in FileIds /\ commands + 1 \in Nat
    BY SizeAssumption DEF TypeInv, TypeOK, FileIds
  <1>2. FileNames \subseteq Names /\ DirNames \subseteq Names /\ FileSizes \subseteq Nat \ {0}
    BY SizeAssumption DEF Names
  <1>3. ASSUME NEW name \in FileNames, Exists(name)
        PROVE  /\ Found(name) \in Slots
               /\ SlotAt(fs, Found(name)) \in SlotEntries
               /\ SlotAt(fs, Found(name)).first \in Entries
    BY <1>3, FoundLemma, SlotValueLemma
  <1>4. ASSUME NEW name \in FileNames, NEW n \in FileSizes, PutNew(name, n)
        PROVE  TypeInv'
    <2>1. Begin("create", {name}, PutCommand(name, n)) /\ commands < MaxCommands
      BY <1>4 DEF PutNew, Begin
    <2>2. cmd' = PutCommand(name, n)
      BY <2>1 DEF Begin
    <2> QED
      BY <1>1, <1>2, <2>1, PutCommandLemma, BeginTypes
  <1>5. ASSUME NEW name \in FileNames, NEW n \in FileSizes, PutOver(name, n)
        PROVE  TypeInv'
    <2> DEFINE put == PutCommand(name, n)
               first == SlotAt(fs, Found(name)).first
               start == IF first = 0 THEN "first" ELSE "data"
               command == [put EXCEPT !.slot = Found(name), !.cluster = first]
    <2>1. Begin(start, {name}, command) /\ commands < MaxCommands /\ Exists(name)
      BY <1>5 DEF PutOver, Begin
    <2>2. Found(name) \in Slots /\ first \in Entries
      BY <1>3, <2>1
    <2>a. /\ put \in Commands(put.result) /\ put.name = name /\ put.op = "put" /\ put.n = n
          /\ put.id = commands + 1
      BY <1>1, <1>2, <2>1, PutCommandLemma
    <2>3. /\ command \in Commands(command.result) /\ command.name = name /\ command.op = "put"
          /\ command.n = n /\ command.id = commands + 1
      <3> HIDE DEF put
      <3> QED
        BY <2>2, <2>a DEF Commands
    <2>4. start \in {"create", "wipe", "first", "data"}
      OBVIOUS
    <2> HIDE DEF command, start, put
    <2> QED
      BY <1>1, <1>2, <2>1, <2>3, <2>4, BeginTypes
  <1>6. ASSUME NEW name \in FileNames, NEW n \in FileSizes, PutAnew(name, n)
        PROVE  TypeInv'
    <2> DEFINE put == PutCommand(name, n)
               e == SlotAt(fs, Found(name))
               start == IF e.isDir THEN "create" ELSE "wipe"
               command == [put EXCEPT !.slot = Found(name), !.cluster = e.first]
    <2>1. Begin(start, {name}, command) /\ commands < MaxCommands /\ Exists(name)
      BY <1>6 DEF PutAnew, Begin
    <2>2. Found(name) \in Slots /\ e.first \in Entries
      BY <1>3, <2>1
    <2>a. /\ put \in Commands(put.result) /\ put.name = name /\ put.op = "put" /\ put.n = n
          /\ put.id = commands + 1
      BY <1>1, <1>2, <2>1, PutCommandLemma
    <2>3. /\ command \in Commands(command.result) /\ command.name = name /\ command.op = "put"
          /\ command.n = n /\ command.id = commands + 1
      <3> HIDE DEF put
      <3> QED
        BY <2>2, <2>a DEF Commands
    <2>4. start \in {"create", "wipe", "first", "data"}
      OBVIOUS
    <2> HIDE DEF command, start, put
    <2> QED
      BY <1>1, <1>2, <2>1, <2>3, <2>4, BeginTypes
  <1>7. ASSUME NEW name \in FileNames, Delete(name)
        PROVE  TypeInv'
    <2> DEFINE command == [NoCommand EXCEPT !.op = "delete", !.name = name, !.slot = Found(name),
                                            !.cluster = SlotAt(fs, Found(name)).first]
    <2>1. Begin("wipe", {name}, command) /\ Exists(name)
      BY <1>7 DEF Delete
    <2>2. Found(name) \in Slots /\ SlotAt(fs, Found(name)).first \in Entries
      BY <1>3, <2>1
    <2>3. command \in Commands(command.result) /\ command.name = name /\ command.op = "delete"
      BY <1>2, <2>2, NoCommandLemma DEF Commands, Ops
    <2> HIDE DEF command
    <2> QED
      BY <1>2, <2>1, <2>3, BeginTypes
  <1>8. ASSUME NEW name \in FileNames, NEW to \in FileNames, Rename(name, to)
        PROVE  TypeInv'
    <2> DEFINE command == [NoCommand EXCEPT !.op = "rename", !.name = to, !.from = name,
                                            !.result = files[name], !.slot = Found(name),
                                            !.entry = SlotAt(fs, Found(name))]
    <2>1. Begin("wipe", {name, to}, command) /\ Exists(name)
      BY <1>8 DEF Rename
    <2>2. Found(name) \in Slots /\ SlotAt(fs, Found(name)) \in SlotEntries
      BY <1>3, <2>1
    <2>3. /\ command \in Commands(command.result) /\ command.name = to /\ command.op = "rename"
          /\ command.entry = SlotAt(fs, Found(name))
      BY <1>2, <2>2, NoCommandLemma, SlotValueLemma DEF Commands, Ops
    <2> HIDE DEF command
    <2> QED
      BY <1>2, <2>1, <2>2, <2>3, BeginTypes
  <1>9. ASSUME NEW name \in DirNames, Mkdir(name)
        PROVE  TypeInv'
    <2> DEFINE command == [NoCommand EXCEPT !.op = "mkdir", !.name = name, !.n = 1, !.result = MadeDir]
    <2>1. Begin("create", {name}, command)
      BY <1>9 DEF Mkdir
    <2>2. /\ command \in Commands(command.result) /\ command.name = name /\ command.op = "mkdir"
          /\ command.n = 1
      BY <1>2, NoCommandLemma DEF Commands, Ops
    <2> HIDE DEF command
    <2> QED
      BY <1>2, <2>1, <2>2, BeginTypes
  <1> QED
    BY <1>4, <1>5, <1>6, <1>7, <1>8, <1>9 DEF Command

\* A card that was flushed in part is a disk.
LEMMA PartlyFlushedLemma ==
  ASSUME fs \in Disks, card \in Disks, NEW k
  PROVE  PartlyFlushed(k) \in Disks
  <1> DEFINE done == {queue[i] : i \in 1 .. k}
             fat == [c \in Entries |-> IF FatSector(c) \in done THEN fs.fat[c] ELSE card.fat[c]]
             area == [c \in Entries |-> IF c \in done THEN fs.area[c] ELSE card.area[c]]
  <1>1. \A d \in {fs, card} : d.fat \in [Entries -> FatValues] /\ d.area \in [Entries -> Contents]
    BY DiskLemma
  <1> HIDE DEF done
  <1>2. fat \in [Entries -> FatValues] /\ area \in [Entries -> Contents]
    BY <1>1
  <1>3. PartlyFlushed(k) = [fat |-> fat, area |-> area]
    BY DEF PartlyFlushed, done
  <1> QED
    BY <1>2, <1>3 DEF Disks

\* What a crash leaves has its types.
LEMMA CrashTypes ==
  ASSUME TypeInv, Crash
  PROVE  TypeInv'
  <1>1. PICK k \in 0 .. Len(queue) : card' = PartlyFlushed(k) /\ fs' = PartlyFlushed(k)
    BY DEF Crash
  <1>2. /\ queue' = <<>> /\ pc' = "prompt" /\ cmd' = NoCommand /\ layout' = layout
        /\ commands' = commands /\ crashes' = crashes + 1 /\ crashes < MaxCrashes
    BY DEF Crash
  <1>3. fs' \in Disks /\ card' \in Disks
    BY <1>1, PartlyFlushedLemma DEF TypeInv, TypeOK
  <1>4. cmd' \in Commands(cmd'.result) /\ cmd'.op = "none" /\ cmd'.cluster \in Entries
        /\ cmd'.next \in Entries /\ cmd'.then = "prompt"
    BY <1>2, NoCommandLemma, EntriesLemma
  <1>5. crashes' \in 0 .. MaxCrashes
    BY <1>2, SizeAssumption DEF TypeInv, TypeOK
  <1>6. TypeOK'
    BY <1>2, <1>3, <1>4, <1>5, EmptyQueueLemma DEF TypeInv, TypeOK, Labels
  <1> QED
    BY <1>2, <1>4, <1>6 DEF TypeInv, RelinkInv

\* So has the initial card.
LEMMA InitTypes ==
  ASSUME Init
  PROVE  TypeInv
  <1> DEFINE slots == [i \in 1 .. SlotsPerCluster |-> IF i <= layout.wiped THEN WipedSlot ELSE FreeSlot]
             fat == [c \in Entries |-> IF c \in {0, 1, layout.dir} \cup layout.used THEN EndOfChain ELSE 0]
             area == [c \in Entries |-> IF c = layout.dir THEN Directory(slots) ELSE Blank]
  <1>1. fs = [fat |-> fat, area |-> area] /\ card = fs /\ queue = <<>> /\ pc = "prompt"
        /\ cmd = NoCommand /\ commands = 0 /\ crashes = 0 /\ layout \in Layouts
    BY DEF Init
  <1>2. Directory(slots) \in Contents /\ Blank \in Contents
    BY SlotValueLemma, ContentsLemma DEF Directory, Blank, DirContents, PlainContents
  <1> HIDE DEF slots
  <1>3. fat \in [Entries -> FatValues] /\ area \in [Entries -> Contents]
    BY <1>2, EntriesLemma
  <1>4. fs \in Disks /\ card \in Disks
    BY <1>1, <1>3 DEF Disks
  <1>5. cmd \in Commands(cmd.result) /\ cmd.op = "none" /\ cmd.cluster \in Entries
        /\ cmd.next \in Entries /\ cmd.then = "prompt"
    BY <1>1, NoCommandLemma, EntriesLemma
  <1>6. TypeOK
    BY <1>1, <1>4, <1>5, EmptyQueueLemma, SizeAssumption DEF TypeOK, Labels
  <1> QED
    BY <1>1, <1>5, <1>6 DEF TypeInv, RelinkInv

\* Every step keeps the types.
LEMMA TypeNext ==
  ASSUME TypeInv, [Next]_vars
  PROVE  TypeInv'
  <1>1. CASE UNCHANGED vars
    BY <1>1 DEF TypeInv, TypeOK, RelinkInv, vars
  <1> QED
    BY <1>1, StepTypes, CommandTypes, CrashTypes DEF Next

\* Whatever commands are given and wherever the program is stopped, the disk it
\* sees and the card hold a FAT and clusters, directories hold entries, and
\* queue_write_sector never queues a sector twice.
THEOREM TypeTheorem == Spec => []TypeOK
  <1>1. Init => TypeInv
    BY InitTypes
  <1>2. TypeInv /\ [Next]_vars => TypeInv'
    BY TypeNext
  <1>3. TypeInv => TypeOK
    BY DEF TypeInv
  <1> QED
    BY <1>1, <1>2, <1>3, PTL DEF Spec

-----------------------------------------------------------------------------
(* The inductive invariant *)

\* A reference leads from a place to a cluster: the slots of a cluster are its
\* places 1, 2, ... and its link in the FAT is place 0.
Indexes == 0 .. SlotsPerCluster
Leads(d, c, i, t) ==
  IF i = 0 THEN c \in Clusters /\ d.fat[c] = t
  ELSE /\ d.area[c].kind = "dir"
       /\ d.area[c].slots[i].state = "entry"
       /\ d.area[c].slots[i].first = t

\* Nothing leads to a cluster.
Bare(d, t) == \A c \in Entries, i \in Indexes : ~Leads(d, c, i, t)

\* No reference leads to cluster 1, and the entries 0 and 1 of the FAT hold what
\* they should, or 0 for the first.
Numbers(d) ==
  /\ d.fat[0] \in {0, EndOfChain} /\ d.fat[1] = EndOfChain
  /\ \A c \in Entries : d.fat[c] # 1
  /\ \A c \in Entries, i \in Indexes \ {0} : ~Leads(d, c, i, 1)

\* No cluster that a reference leads to counts as free.
UsedIn(d) == \A t \in Clusters, c \in Entries, i \in Indexes : Leads(d, c, i, t) => d.fat[t] # 0

\* What a disk says of itself.  Nothing but its parent leads to the directory.
Sound(d, dir) == Numbers(d) /\ UsedIn(d) /\ d.fat[dir] # 0 /\ Bare(d, dir)

\* If places of two disks lead to one cluster they are the same place.
Apart(d, e) ==
  \A t \in Clusters, c, b \in Entries, i, j \in Indexes :
    Leads(d, c, i, t) /\ Leads(e, b, j, t) => c = b /\ i = j

\* What program and card hold fits together: a sector of the one may take the
\* place of that of the other at any time.
DisksInv ==
  /\ Sound(fs, layout.dir) /\ Sound(card, layout.dir)
  /\ Apart(fs, fs) /\ Apart(fs, card) /\ Apart(card, fs) /\ Apart(card, card)

\* Program and card differ in sectors of the queue only.
Covered ==
  \A c \in Entries :
    /\ fs.fat[c] # card.fat[c] => \E i \in DOMAIN queue : queue[i] = FatSector(c)
    /\ fs.area[c] # card.area[c] => \E i \in DOMAIN queue : queue[i] = c

\* The queue was flushed.
Clean == queue = <<>> /\ card = fs

\* The FAT sector of cluster t is written before sector c.
InTime(c, t) ==
  \E i \in DOMAIN queue : queue[i] = FatSector(t) /\ \A j \in 1 .. i : queue[j] # c

\* As long as a command only takes clusters, an entry is written after the FAT
\* sector that marks what it leads to: a flush that stops on its way leaves no
\* entry to a free cluster.
Growing ==
  /\ \A c \in Entries : card.fat[c] # 0 => fs.fat[c] # 0
  /\ \A t \in Clusters, c \in Entries, i \in Indexes \ {0} :
       Leads(fs, c, i, t) /\ card.fat[t] = 0 => InTime(c, t)

\* At most one sector waits, and it is s.
OnlyQueued(sectors, s) == Len(sectors) <= 1 /\ \A i \in DOMAIN sectors : sectors[i] = s

\* Where a command flushes, and where it writes a single sector.
QueueInv ==
  /\ pc \in {"prompt", "wipe", "create", "first", "relink"} => Clean
  /\ pc \in {"free", "link"} => OnlyQueued(queue, FatSector(cmd.cluster))
  /\ pc \in {"extend", "clear", "link", "data", "grow", "chain", "size"} => Growing
  /\ pc = "flush" => Growing \/ Len(queue) <= 1

\* A label that the command is at, or reaches with the flush that is due.
At(labels) == pc \in labels \/ (pc = "flush" /\ cmd.then \in labels)

\* A cluster that was taken off its entry but not freed.
Taken(t) == t \in Clusters => fs.fat[t] # 0 /\ Bare(fs, t) /\ t # layout.dir

\* Which commands reach which labels, and with no data written before "data".
OpInv ==
  /\ At({"wipe"}) => cmd.op \in {"put", "delete", "rename"} /\ pc = "wipe"
  /\ At({"free"}) => cmd.op \in {"put", "delete"}
  /\ At({"create", "extend", "clear"}) => cmd.op \in {"put", "rename", "mkdir"}
  /\ At({"first", "link", "data", "grow", "chain", "size"}) => cmd.op \in {"put", "mkdir"}
  /\ pc = "flush" => cmd.then \in {"prompt", "free", "create", "first", "relink"}
  /\ pc # "stray"
  /\ cmd.op \in {"put", "mkdir"} /\ At({"wipe", "free", "create", "extend", "clear", "first", "link"})
       => cmd.part = 0

\* The entry at hand leads to the clusters that the command frees or moves, ...
WipeInv ==
  pc = "wipe" => Leads(fs, cmd.slot.cluster, cmd.slot.index,
                       IF cmd.op = "rename" THEN cmd.entry.first ELSE cmd.cluster)

\* ... the cluster that is freed next has lost the reference to it, ...
FreeInv == At({"free"}) => cmd.cluster # 1 /\ Taken(cmd.cluster)

\* ... and so has the file that is renamed.
MoveInv ==
  cmd.op = "rename" /\ At({"create", "extend", "clear", "relink"}) =>
    cmd.entry.first # 1 /\ Taken(cmd.entry.first)

\* A cluster just taken, to which nothing leads.
NewCluster(c) ==
  /\ c \in Clusters /\ c # layout.dir /\ fs.fat[c] = EndOfChain
  /\ Bare(fs, c) /\ Bare(card, c)

\* The n clusters behind c are free; they follow c in its chain.
FreeFrom(c, n) == \A k \in 1 .. n : c + k \in Clusters /\ fs.fat[c + k] = 0
ChainedFrom(c, n) == \A k \in 1 .. n : c + k \in Clusters /\ fs.fat[c + k - 1] = c + k

\* The variables at the labels of extend_dir_cluster_chain, of allocate_cluster
\* and of the loop of upload_single_file, which has found a run of free clusters
\* or a file whose clusters follow each other.
ExtendInv ==
  /\ pc = "extend" => /\ cmd.cluster \in Clusters /\ NewCluster(cmd.next)
                      /\ cmd.op = "rename" => cmd.next # cmd.entry.first
  /\ pc = "clear" => cmd.next \in Clusters
LinkInv == pc = "link" => NewCluster(cmd.cluster) /\ FreeFrom(cmd.cluster, cmd.n - 1)
DataInv ==
  pc = "data" =>
    /\ cmd.cluster \in Clusters /\ cmd.part \in 0 .. cmd.n - 1
    /\ \/ fs.fat[cmd.cluster] = EndOfChain /\ FreeFrom(cmd.cluster, cmd.n - cmd.part - 1)
       \/ ChainedFrom(cmd.cluster, cmd.n - cmd.part - 1)
GrowInv ==
  pc = "grow" => /\ cmd.cluster \in Clusters /\ cmd.part \in 1 .. cmd.n - 1
                 /\ fs.fat[cmd.cluster] = EndOfChain
                 /\ FreeFrom(cmd.cluster, cmd.n - cmd.part)
ChainInv ==
  pc = "chain" => /\ cmd.cluster \in Clusters /\ cmd.part \in 1 .. cmd.n - 1
                  /\ fs.fat[cmd.cluster] = EndOfChain
                  /\ NewCluster(cmd.next) /\ cmd.next = cmd.cluster + 1
                  /\ FreeFrom(cmd.next, cmd.n - cmd.part - 1)

\* The inductive invariant.
IInv ==
  /\ DisksInv /\ Covered /\ QueueInv /\ OpInv
  /\ WipeInv /\ FreeInv /\ MoveInv /\ ExtendInv /\ LinkInv /\ DataInv /\ GrowInv /\ ChainInv

-----------------------------------------------------------------------------
(* What writes do to the references *)

\* The disk has the references of fs and perhaps one more, from place i of
\* cluster b to v.
Adds(disk, b, j, v) ==
  \A t \in Clusters, c \in Entries, i \in Indexes :
    Leads(disk, c, i, t) => Leads(fs, c, i, t) \/ (c = b /\ i = j /\ t = v)

\* The disk differs from fs in a sector only.
OnlyIn(disk, sector) ==
  \A c \in Entries : /\ disk.fat[c] # fs.fat[c] => FatSector(c) = sector
                     /\ disk.area[c] # fs.area[c] => c = sector

\* A write of the FAT may add the link it writes, and no other reference.
LEMMA FatEffect ==
  ASSUME fs \in Disks, NEW b \in Entries, NEW v \in FatValues
  PROVE  /\ FatWith(b, v) \in Disks
         /\ FatWith(b, v).fat[b] = v
         /\ \A c \in Entries : c # b => FatWith(b, v).fat[c] = fs.fat[c]
         /\ Adds(FatWith(b, v), b, 0, v)
         /\ OnlyIn(FatWith(b, v), FatSector(b))
         /\ \A t \in Entries : Leads(FatWith(b, v), b, 0, t) => t = v
         /\ \A t \in Entries, c \in Entries, i \in Indexes \ {0} :
              Leads(FatWith(b, v), c, i, t) <=> Leads(fs, c, i, t)
  <1> DEFINE disk == FatWith(b, v)
  <1>1. disk \in Disks /\ disk.area = fs.area /\ disk.fat = [fs.fat EXCEPT ![b] = v]
    BY FatWithLemma
  <1>2. fs.fat \in [Entries -> FatValues]
    BY DiskLemma
  <1> HIDE DEF disk
  <1>3. disk.fat[b] = v /\ \A c \in Entries : c # b => disk.fat[c] = fs.fat[c]
    BY <1>1, <1>2
  <1>4. \A t \in Entries, c \in Entries, i \in Indexes \ {0} : Leads(disk, c, i, t) <=> Leads(fs, c, i, t)
    BY <1>1 DEF Leads
  <1>5. \A t \in Entries : Leads(disk, b, 0, t) => t = v
    BY <1>3 DEF Leads
  <1>6. Adds(disk, b, 0, v)
    <2> SUFFICES ASSUME NEW t \in Clusters, NEW c \in Entries, NEW i \in Indexes, Leads(disk, c, i, t)
                 PROVE  Leads(fs, c, i, t) \/ (c = b /\ i = 0 /\ t = v)
      BY DEF Adds
    <2>1. CASE i # 0
      BY <1>1, <2>1 DEF Leads
    <2>2. CASE i = 0
      BY <1>3, <2>2 DEF Leads
    <2> QED
      BY <2>1, <2>2
  <1>7. OnlyIn(disk, FatSector(b))
    BY <1>1, <1>3 DEF OnlyIn
  <1> QED
    BY <1>1, <1>3, <1>4, <1>5, <1>6, <1>7 DEF disk

\* A write of a cluster without entries adds no reference.
LEMMA AreaEffect ==
  ASSUME fs \in Disks, NEW b \in Entries, NEW a \in Contents,
         a.kind = "dir" => \A i \in 1 .. SlotsPerCluster : a.slots[i].state # "entry"
  PROVE  /\ AreaWith(b, a) \in Disks
         /\ AreaWith(b, a).fat = fs.fat
         /\ \A t \in Entries, c \in Entries, i \in Indexes :
              Leads(AreaWith(b, a), c, i, t) => Leads(fs, c, i, t)
         /\ OnlyIn(AreaWith(b, a), b)
  <1> DEFINE disk == AreaWith(b, a)
  <1>1. disk \in Disks /\ disk.fat = fs.fat /\ disk.area = [fs.area EXCEPT ![b] = a]
    BY AreaWithLemma
  <1>2. fs.area \in [Entries -> Contents]
    BY DiskLemma
  <1> HIDE DEF disk
  <1>3. disk.area[b] = a /\ \A c \in Entries : c # b => disk.area[c] = fs.area[c]
    BY <1>1, <1>2
  <1>4. ASSUME NEW t, NEW c \in Entries, NEW i \in Indexes, Leads(disk, c, i, t)
        PROVE  Leads(fs, c, i, t)
    <2>1. CASE i = 0
      BY <1>1, <1>4, <2>1 DEF Leads
    <2>2. CASE i # 0
      <3>1. i \in 1 .. SlotsPerCluster
        BY <2>2, SizeAssumption DEF Indexes
      <3> QED
        BY <1>3, <1>4, <2>2, <3>1 DEF Leads
    <2> QED
      BY <2>1, <2>2
  <1>5. OnlyIn(disk, b)
    BY <1>1, <1>3 DEF OnlyIn
  <1> QED
    BY <1>1, <1>4, <1>5 DEF disk

\* A write of a slot changes what that slot leads to.
LEMMA SlotEffect ==
  ASSUME fs \in Disks, NEW p \in Slots, NEW s \in SlotValues
  PROVE  /\ SlotWith(p, s) \in Disks
         /\ SlotWith(p, s).fat = fs.fat
         /\ \A t \in Entries, c \in Entries, i \in Indexes :
              Leads(SlotWith(p, s), c, i, t) =>
                IF c = p.cluster /\ i = p.index THEN s.state = "entry" /\ s.first = t
                                                ELSE Leads(fs, c, i, t)
         /\ OnlyIn(SlotWith(p, s), p.cluster)
  <1> DEFINE disk == SlotWith(p, s)
  <1>1. /\ disk \in Disks
        /\ disk.fat = fs.fat
        /\ \A c \in Entries : c # p.cluster => disk.area[c] = fs.area[c]
        /\ disk.area[p.cluster].kind = fs.area[p.cluster].kind
        /\ fs.area[p.cluster].kind = "dir" =>
             disk.area[p.cluster].slots = [fs.area[p.cluster].slots EXCEPT ![p.index] = s]
    BY SlotWithLemma
  <1>2. p.cluster \in Entries /\ p.index \in 1 .. SlotsPerCluster
    BY DEF Slots
  <1> HIDE DEF disk
  <1>3. ASSUME NEW t, NEW c \in Entries, NEW i \in Indexes, Leads(disk, c, i, t)
        PROVE  IF c = p.cluster /\ i = p.index THEN s.state = "entry" /\ s.first = t
                                               ELSE Leads(fs, c, i, t)
    <2>1. CASE i = 0
      BY <1>1, <1>2, <1>3, <2>1 DEF Leads
    <2>2. CASE i # 0 /\ c # p.cluster
      BY <1>1, <1>3, <2>2 DEF Leads
    <2>3. CASE i # 0 /\ c = p.cluster
      <3>1. /\ fs.area[c].kind = "dir" /\ disk.area[c].slots[i].state = "entry"
            /\ disk.area[c].slots[i].first = t
        BY <1>1, <1>3, <2>3 DEF Leads
      <3>2. fs.area[c].slots \in [1 .. SlotsPerCluster -> SlotValues] /\ i \in 1 .. SlotsPerCluster
        BY <2>3, <3>1, DiskLemma, SizeAssumption DEF Indexes
      <3>3. disk.area[c].slots[i] = IF i = p.index THEN s ELSE fs.area[c].slots[i]
        BY <1>1, <2>3, <3>1, <3>2
      <3> QED
        BY <2>3, <3>1, <3>3 DEF Leads
    <2> QED
      BY <2>1, <2>2, <2>3
  <1>4. OnlyIn(disk, p.cluster)
    BY <1>1 DEF OnlyIn
  <1> QED
    BY <1>1, <1>3, <1>4 DEF disk

-----------------------------------------------------------------------------
(* Writes keep the disks in order *)

\* Nothing but the new place leads to the target of the new reference.
Fresh(v) == v \in Clusters => Bare(fs, v) /\ Bare(card, v) /\ v # layout.dir

\* A disk with one new reference fits the others if nothing else leads there.
LEMMA ApartStep ==
  ASSUME DisksInv, NEW disk, NEW b \in Entries, NEW j \in Indexes, NEW v,
         Adds(disk, b, j, v), Fresh(v)
  PROVE  Apart(disk, disk) /\ Apart(disk, fs) /\ Apart(disk, card)
         /\ Apart(fs, disk) /\ Apart(card, disk)
  <1> USE DEF Apart, Adds, Fresh, Bare, DisksInv
  <1>1. Apart(disk, disk)
    OBVIOUS
  <1>2. Apart(disk, fs) /\ Apart(fs, disk)
    OBVIOUS
  <1>3. Apart(disk, card) /\ Apart(card, disk)
    OBVIOUS
  <1> QED
    BY <1>1, <1>2, <1>3

\* It is sound by itself if it frees only what nothing leads to.
LEMMA SoundStep ==
  ASSUME DisksInv, layout \in Layouts, NEW disk, NEW b \in Entries, NEW j \in Indexes, NEW v \in FatValues,
         Adds(disk, b, j, v), Fresh(v), Numbers(disk),
         v \in Clusters => disk.fat[v] # 0,
         \A t \in Clusters : fs.fat[t] # 0 /\ disk.fat[t] = 0 => Bare(fs, t) /\ t # layout.dir
  PROVE  Sound(disk, layout.dir)
  <1>1. layout.dir \in Clusters
    BY NumberTypes
  <1>2. disk.fat[layout.dir] # 0
    BY <1>1 DEF DisksInv, Sound
  <1>3. UsedIn(disk)
    BY DEF UsedIn, Adds, Bare, DisksInv, Sound
  <1>4. Bare(disk, layout.dir)
    BY <1>1 DEF Bare, Adds, Fresh, DisksInv, Sound
  <1> QED
    BY <1>2, <1>3, <1>4 DEF Sound

\* A write of a disk that fits fs and card leaves them in order.
LEMMA WriteStep ==
  ASSUME TypeInv, DisksInv, Covered, NEW disk \in Disks, NEW s \in Sectors,
         Write(disk, s), OnlyIn(disk, s), Sound(disk, layout.dir),
         Apart(disk, disk), Apart(disk, fs), Apart(disk, card), Apart(fs, disk), Apart(card, disk)
  PROVE  /\ DisksInv' /\ Covered'
         /\ fs' = disk /\ layout' = layout
         /\ card' \in {fs, card, disk}
         /\ OnlyQueued(queue, s) => OnlyQueued(queue', s)
         /\ Clean => OnlyQueued(queue', s)
         /\ OnlyQueued(queue', s) => Len(queue') <= 1
  <1>1. fs' = disk /\ layout' = layout
    BY DEF Write
  <1>2. /\ \A c \in Entries : FatSector(c)' = FatSector(c)
        /\ queue \in Seq(Sectors) /\ IsInjective(queue)
    BY <1>1 DEF FatSector, FatSectorNum, TypeInv, TypeOK
  <1>3. /\ Len(queue) \in Nat /\ Len(queue) <= Len(Queued(s)) /\ Queued(s) \in Seq(Sectors)
        /\ \A i \in 1 .. Len(queue) : Queued(s)[i] = queue[i]
        /\ \E i \in 1 .. Len(Queued(s)) : Queued(s)[i] = s
        /\ \/ Queued(s) = queue
           \/ Len(Queued(s)) = Len(queue) + 1 /\ Queued(s)[Len(queue) + 1] = s
    BY <1>2, QueuedLemma
  <1>4. CASE card' = card /\ queue' = Queued(s)
    <2>1. DisksInv'
      BY <1>1, <1>4 DEF DisksInv
    <2>2. Covered'
      <3> SUFFICES ASSUME NEW c \in Entries
                   PROVE  /\ disk.fat[c] # card.fat[c] => \E i \in DOMAIN Queued(s) : Queued(s)[i] = FatSector(c)
                          /\ disk.area[c] # card.area[c] => \E i \in DOMAIN Queued(s) : Queued(s)[i] = c
        BY <1>1, <1>2, <1>4 DEF Covered
      <3>1. DOMAIN Queued(s) = 1 .. Len(Queued(s)) /\ DOMAIN queue = 1 .. Len(queue)
        BY <1>2, <1>3
      <3>2. \A x : (\E i \in DOMAIN queue : queue[i] = x) => \E i \in DOMAIN Queued(s) : Queued(s)[i] = x
        <4> TAKE x
        <4> HAVE \E i \in DOMAIN queue : queue[i] = x
        <4>1. PICK i \in 1 .. Len(queue) : queue[i] = x
          BY <3>1
        <4>2. i \in 1 .. Len(Queued(s)) /\ Queued(s)[i] = x
          BY <1>3, <4>1
        <4> QED
          BY <3>1, <4>2
      <3>3. \E i \in DOMAIN Queued(s) : Queued(s)[i] = s
        BY <1>3, <3>1
      <3> QED
        BY <3>2, <3>3 DEF OnlyIn, Covered
    <2>3. OnlyQueued(queue, s) => OnlyQueued(queue', s)
      <3> SUFFICES ASSUME OnlyQueued(queue, s)
                   PROVE  OnlyQueued(queue', s)
        OBVIOUS
      <3>1. Len(queue) = 0 \/ (Len(queue) = 1 /\ queue[1] = s)
        <4>1. DOMAIN queue = 1 .. Len(queue)
          BY <1>2
        <4> QED
          BY <1>3, <4>1 DEF OnlyQueued
      <3>2. CASE Len(queue) = 0
        <4>1. Len(Queued(s)) = 1 /\ Queued(s)[1] = s
          BY <1>3, <3>2
        <4>2. DOMAIN Queued(s) = {1}
          BY <1>3, <4>1
        <4> QED
          BY <1>4, <4>1, <4>2 DEF OnlyQueued
      <3>3. CASE Len(queue) = 1 /\ queue[1] = s
        <4>1. Queued(s) = queue
          BY <1>2, <3>3 DEF Queued, Contains
        <4> QED
          BY <1>4, <4>1 DEF OnlyQueued
      <3> QED
        BY <3>1, <3>2, <3>3
    <2>4. Clean => OnlyQueued(queue, s)
      BY DEF Clean, OnlyQueued
    <2> QED
      BY <1>1, <1>4, <2>1, <2>2, <2>3, <2>4 DEF OnlyQueued
  <1>5. CASE card' = fs /\ queue' = <<s>>
    <2>1. DisksInv'
      BY <1>1, <1>5 DEF DisksInv
    <2>2. DOMAIN queue' = {1} /\ queue'[1] = s /\ Len(queue') = 1
      BY <1>5
    <2>3. Covered'
      BY <1>1, <1>2, <1>5, <2>2 DEF Covered, OnlyIn
    <2>4. OnlyQueued(queue', s)
      BY <2>2 DEF OnlyQueued
    <2> QED
      BY <1>1, <1>5, <2>1, <2>2, <2>3, <2>4
  <1>6. CASE card' = disk /\ queue' = <<>>
    <2>1. DisksInv'
      BY <1>1, <1>6 DEF DisksInv
    <2>2. Covered'
      BY <1>1, <1>6 DEF Covered
    <2>3. OnlyQueued(queue', s)
      BY <1>6 DEF OnlyQueued
    <2> QED
      BY <1>1, <1>6, <2>1, <2>2, <2>3 DEF OnlyQueued
  <1> QED
    BY <1>4, <1>5, <1>6 DEF Write

-----------------------------------------------------------------------------
(* The order of the queue *)

\* When card and program agree, nothing is pending.
LEMMA CleanGrows ==
  ASSUME DisksInv, Clean
  PROVE  Growing
  BY DEF DisksInv, Clean, Growing, Sound, UsedIn, Indexes

\* Nor is anything queued.
LEMMA CleanCovers ==
  ASSUME Clean
  PROVE  Covered /\ Len(queue) <= 1 /\ \A s : OnlyQueued(queue, s)
  BY DEF Clean, Covered, OnlyQueued

\* A write that frees no cluster keeps the order of the queue, if what a new
\* entry leads to is on the card or first in the queue.
LEMMA GrowStep ==
  ASSUME TypeInv, DisksInv, Covered, Growing, NEW disk \in Disks, NEW s \in Sectors,
         Write(disk, s), Sound(disk, layout.dir),
         \A c \in Entries : fs.fat[c] # 0 => disk.fat[c] # 0,
         \A t \in Clusters, c \in Entries, i \in Indexes \ {0} :
           Leads(disk, c, i, t) =>
             \/ Leads(fs, c, i, t)
             \/ fs.fat[t] # 0 /\ OnlyQueued(queue, FatSector(t)) /\ s = c
  PROVE  Growing'
  <1>1. fs' = disk /\ layout' = layout /\ \A c \in Entries : FatSector(c)' = FatSector(c)
    BY DEF Write, FatSector, FatSectorNum
  <1>2. queue \in Seq(Sectors) /\ IsInjective(queue)
    BY DEF TypeInv, TypeOK
  <1>3. /\ Len(queue) \in Nat /\ Len(queue) <= Len(Queued(s)) /\ Queued(s) \in Seq(Sectors)
        /\ \A i \in 1 .. Len(queue) : Queued(s)[i] = queue[i]
        /\ DOMAIN queue = 1 .. Len(queue) /\ DOMAIN Queued(s) = 1 .. Len(Queued(s))
    <2>1. /\ Len(queue) \in Nat /\ Len(queue) <= Len(Queued(s)) /\ Queued(s) \in Seq(Sectors)
          /\ \A i \in 1 .. Len(queue) : Queued(s)[i] = queue[i]
      BY <1>2, QueuedLemma
    <2> QED
      BY <1>2, <2>1
  <1>4. Clusters \subseteq Entries
    BY EntriesLemma
  <1>5. CASE card' = card /\ queue' = Queued(s)
    <2>1. ASSUME NEW t \in Clusters, NEW c \in Entries, InTime(c, t)
          PROVE  InTime(c, t)'
      <3>1. PICK i \in DOMAIN queue : queue[i] = FatSector(t) /\ \A j \in 1 .. i : queue[j] # c
        BY <2>1 DEF InTime
      <3>2. i \in DOMAIN Queued(s) /\ Queued(s)[i] = FatSector(t) /\ \A j \in 1 .. i : Queued(s)[j] # c
        BY <1>3, <3>1
      <3> QED
        BY <1>1, <1>4, <1>5, <3>2 DEF InTime
    <2>2. ASSUME NEW t \in Clusters, NEW c \in Entries, s = c,
                 fs.fat[t] # 0, OnlyQueued(queue, FatSector(t)), card.fat[t] = 0
          PROVE  InTime(c, t)
      <3>1. PICK i \in DOMAIN queue : queue[i] = FatSector(t)
        BY <1>4, <2>2 DEF Covered
      <3>2. i = 1 /\ Len(queue) = 1
        BY <1>3, <2>2, <3>1 DEF OnlyQueued
      <3>3. FatSector(t) # c
        BY <1>4, FatSectorLemma DEF TypeInv
      <3> QED
        BY <3>1, <3>2, <3>3 DEF InTime
    <2>3. ASSUME NEW t \in Clusters, NEW c \in Entries, NEW i \in Indexes \ {0},
                 Leads(disk, c, i, t), card.fat[t] = 0
          PROVE  InTime(c, t)'
      <3>1. CASE Leads(fs, c, i, t)
        BY <2>1, <2>3, <3>1 DEF Growing
      <3>2. CASE ~Leads(fs, c, i, t)
        BY <2>1, <2>2, <2>3, <3>2
      <3> QED
        BY <3>1, <3>2
    <2> QED
      BY <1>1, <1>5, <2>3 DEF Growing
  <1>6. CASE card' = fs /\ queue' = <<s>>
    <2>1. ASSUME NEW t \in Clusters, NEW c \in Entries, NEW i \in Indexes \ {0},
                 Leads(disk, c, i, t)
          PROVE  fs.fat[t] # 0
      <3>1. CASE Leads(fs, c, i, t)
        BY <3>1 DEF DisksInv, Sound, UsedIn
      <3> QED
        BY <2>1, <3>1
    <2> QED
      BY <1>1, <1>6, <2>1 DEF Growing
  <1>7. CASE card' = disk /\ queue' = <<>>
    BY <1>1, <1>7 DEF Growing, Sound, UsedIn, Indexes
  <1> QED
    BY <1>5, <1>6, <1>7 DEF Write

\* What a crash leaves of a flush is in order.
LEMMA MixLemma ==
  ASSUME TypeInv, DisksInv, Covered, LinksAreLocal, Growing \/ Len(queue) <= 1,
         NEW k \in 0 .. Len(queue)
  PROVE  Sound(PartlyFlushed(k), layout.dir) /\ Apart(PartlyFlushed(k), PartlyFlushed(k))
  <1> DEFINE m == PartlyFlushed(k)
             done == {queue[i] : i \in 1 .. k}
  <1>1. /\ m \in Disks
        /\ \A c \in Entries : m.fat[c] = IF FatSector(c) \in done THEN fs.fat[c] ELSE card.fat[c]
        /\ \A c \in Entries : m.area[c] = IF c \in done THEN fs.area[c] ELSE card.area[c]
    <2>1. m \in Disks
      BY PartlyFlushedLemma DEF TypeInv, TypeOK
    <2> QED
      BY <2>1 DEF PartlyFlushed
  <1>2. queue \in Seq(Sectors) /\ fs \in Disks /\ card \in Disks /\ layout \in Layouts
    BY DEF TypeInv, TypeOK
  <1>3. /\ 0 \in Entries /\ 1 \in Entries /\ Clusters \subseteq Entries /\ layout.dir \in Entries
        /\ 0 \in Indexes
    BY <1>2, EntriesLemma, NumberTypes, SizeAssumption DEF Indexes
  <1> HIDE DEF m, done
  <1>4. ASSUME NEW t, NEW c \in Entries, NEW i \in Indexes, Leads(m, c, i, t)
        PROVE  IF (IF i = 0 THEN FatSector(c) ELSE c) \in done
                 THEN Leads(fs, c, i, t) ELSE Leads(card, c, i, t)
    BY <1>1, <1>4 DEF Leads
  <1>5. Apart(m, m)
    <2>1. \A t \in Entries, c \in Entries, i \in Indexes :
            Leads(m, c, i, t) => Leads(fs, c, i, t) \/ Leads(card, c, i, t)
      BY <1>4
    <2>2. Apart(fs, fs) /\ Apart(fs, card) /\ Apart(card, fs) /\ Apart(card, card)
      BY DEF DisksInv
    <2> SUFFICES ASSUME NEW t \in Clusters, NEW c \in Entries, NEW b \in Entries,
                        NEW i \in Indexes, NEW j \in Indexes, Leads(m, c, i, t), Leads(m, b, j, t)
                 PROVE  c = b /\ i = j
      BY DEF Apart
    <2>3. Leads(fs, c, i, t) \/ Leads(card, c, i, t)
      BY <1>3, <2>1
    <2>4. Leads(fs, b, j, t) \/ Leads(card, b, j, t)
      BY <1>3, <2>1
    <2> QED
      BY <2>2, <2>3, <2>4 DEF Apart
  <1>6. Numbers(m)
    BY <1>1, <1>3, <1>4 DEF Numbers, DisksInv, Sound
  <1>7. m.fat[layout.dir] # 0 /\ Bare(m, layout.dir)
    BY <1>1, <1>3, <1>4 DEF Bare, DisksInv, Sound
  <1>8. UsedIn(m)
    <2> SUFFICES ASSUME NEW t \in Clusters, NEW c \in Entries, NEW i \in Indexes, Leads(m, c, i, t)
                 PROVE  m.fat[t] # 0
      BY DEF UsedIn
    <2>1. CASE Len(queue) <= 1
      <3>1. Len(queue) \in Nat /\ DOMAIN queue = 1 .. Len(queue)
        BY <1>2
      <3>2. (\A b \in Entries : m.fat[b] = card.fat[b] /\ m.area[b] = card.area[b])
              \/ (\A b \in Entries : m.fat[b] = fs.fat[b] /\ m.area[b] = fs.area[b])
        <4>1. CASE k = 0
          BY <1>1, <4>1 DEF done
        <4>2. CASE k # 0
          <5>1. k = 1 /\ DOMAIN queue = {1}
            BY <2>1, <3>1, <4>2
          <5>2. done = {queue[1]}
            BY <5>1 DEF done
          <5> QED
            BY <1>1, <5>1, <5>2 DEF Covered
        <4> QED
          BY <4>1, <4>2
      <3>3. CASE \A b \in Entries : m.fat[b] = card.fat[b] /\ m.area[b] = card.area[b]
        <4>1. Leads(card, c, i, t)
          BY <3>3 DEF Leads
        <4> QED
          BY <1>3, <3>3, <4>1 DEF DisksInv, Sound, UsedIn
      <3>4. CASE \A b \in Entries : m.fat[b] = fs.fat[b] /\ m.area[b] = fs.area[b]
        <4>1. Leads(fs, c, i, t)
          BY <3>4 DEF Leads
        <4> QED
          BY <1>3, <3>4, <4>1 DEF DisksInv, Sound, UsedIn
      <3> QED
        BY <3>2, <3>3, <3>4
    <2>2. CASE Growing
      <3>1. CASE Leads(card, c, i, t)
        <4>1. card.fat[t] # 0 /\ fs.fat[t] # 0
          BY <1>3, <2>2, <3>1 DEF DisksInv, Sound, UsedIn, Growing
        <4> QED
          BY <1>1, <1>3, <4>1
      <3>2. CASE Leads(fs, c, i, t) /\ ~Leads(card, c, i, t)
        <4>1. fs.fat[t] # 0
          BY <3>2 DEF DisksInv, Sound, UsedIn
        <4>2. CASE i = 0
          <5>1. FatSector(c) \in done
            BY <1>4, <3>2, <4>2
          <5>2. fs.fat[c] = t /\ InChain(t)
            BY <3>2, <4>2, EntriesLemma DEF Leads, InChain, EndOfChain
          <5>3. FatSector(t) \in done
            BY <5>1, <5>2 DEF LinksAreLocal
          <5> QED
            BY <1>1, <1>3, <4>1, <5>3
        <4>3. CASE i # 0
          <5>1. PICK a \in 1 .. k : queue[a] = c
            BY <1>4, <3>2, <4>3 DEF done
          <5>2. CASE card.fat[t] # 0
            BY <1>1, <1>3, <4>1, <5>2
          <5>3. CASE card.fat[t] = 0
            <6>1. PICK b \in DOMAIN queue : queue[b] = FatSector(t) /\ \A j \in 1 .. b : queue[j] # c
              BY <2>2, <3>2, <4>3, <5>3 DEF Growing, InTime
            <6>2. b \in 1 .. k
              BY <1>2, <5>1, <6>1
            <6>3. FatSector(t) \in done
              BY <6>1, <6>2 DEF done
            <6> QED
              BY <1>1, <1>3, <4>1, <6>3
          <5> QED
            BY <5>2, <5>3
        <4> QED
          BY <4>2, <4>3
      <3> QED
        BY <1>4, <3>1, <3>2
    <2> QED
      BY <2>1, <2>2
  <1> QED
    BY <1>5, <1>6, <1>7, <1>8 DEF Sound, m

-----------------------------------------------------------------------------
(* The three kinds of writes *)

\* What every kind of write needs.
SafeInv == TypeInv /\ DisksInv /\ Covered

\* What is true of the disk before and after a write, and of the card before it,
\* is true of the card after it.
LEMMA CardLemma ==
  ASSUME NEW t, card' \in {fs, card, fs'}, Bare(fs, t), Bare(card, t), Bare(fs', t)
  PROVE  Bare(card', t)
  OBVIOUS

\* What a write of the FAT does, if it does not lead to a cluster in use and
\* frees only what nothing leads to.
LEMMA FatWrite ==
  ASSUME SafeInv, NEW b \in Entries, NEW v \in FatValues, WriteFat(b, v),
         b # 1, v # 1, b = 0 => v = 0, Fresh(v),
         v \in Clusters => fs.fat[v] # 0,
         v = 0 => Taken(b)
  PROVE  /\ DisksInv' /\ Covered' /\ layout' = layout
         /\ fs'.fat[b] = v
         /\ \A c \in Entries : c # b => fs'.fat[c] = fs.fat[c]
         /\ \A t \in Entries : t # v /\ Bare(fs, t) => Bare(fs', t)
         /\ \A t \in Clusters : t # v /\ Bare(fs, t) /\ Bare(card, t) => Bare(card', t)
         /\ \A t \in Clusters : fs.fat[b] = t /\ b \in Clusters /\ t # v => Bare(fs', t)
         /\ OnlyQueued(queue, FatSector(b)) => OnlyQueued(queue', FatSector(b))
         /\ Clean => OnlyQueued(queue', FatSector(b))
         /\ Growing /\ v # 0 => Growing'
  <1> DEFINE disk == FatWith(b, v)
  <1>1. /\ fs \in Disks /\ layout \in Layouts /\ TypeInv /\ DisksInv /\ Covered
        /\ FatSector(b) \in Sectors /\ 0 \in Indexes /\ Write(disk, FatSector(b))
    BY NumberTypes, SizeAssumption DEF SafeInv, TypeInv, TypeOK, WriteFat, Indexes
  <1>2. /\ disk \in Disks
        /\ disk.fat[b] = v
        /\ \A c \in Entries : c # b => disk.fat[c] = fs.fat[c]
        /\ Adds(disk, b, 0, v)
        /\ OnlyIn(disk, FatSector(b))
        /\ \A t \in Entries : Leads(disk, b, 0, t) => t = v
        /\ \A t \in Entries, c \in Entries, i \in Indexes \ {0} :
             Leads(disk, c, i, t) <=> Leads(fs, c, i, t)
    BY <1>1, FatEffect
  <1> HIDE DEF disk
  <1>a. /\ 0 \in Entries /\ 1 \in Entries /\ Clusters \subseteq Entries
    BY EntriesLemma
  <1>3. Numbers(disk)
    <2>1. disk.fat[0] \in {0, EndOfChain} /\ disk.fat[1] = EndOfChain
      BY <1>1, <1>2, <1>a DEF DisksInv, Sound, Numbers
    <2>2. \A c \in Entries : disk.fat[c] # 1
      BY <1>1, <1>2 DEF DisksInv, Sound, Numbers
    <2>3. \A c \in Entries, i \in Indexes \ {0} : ~Leads(disk, c, i, 1)
      BY <1>1, <1>2, <1>a DEF DisksInv, Sound, Numbers
    <2> QED
      BY <2>1, <2>2, <2>3 DEF Numbers
  <1>4. v \in Clusters => disk.fat[v] # 0
    BY <1>2, <1>a, EntriesLemma
  <1>5. \A t \in Clusters : fs.fat[t] # 0 /\ disk.fat[t] = 0 => Bare(fs, t) /\ t # layout.dir
    BY <1>2, <1>a DEF Taken
  <1>6. Sound(disk, layout.dir)
    BY <1>1, <1>2, <1>3, <1>4, <1>5, SoundStep
  <1>7. Apart(disk, disk) /\ Apart(disk, fs) /\ Apart(disk, card)
         /\ Apart(fs, disk) /\ Apart(card, disk)
    BY <1>1, <1>2, ApartStep
  <1>8. /\ DisksInv' /\ Covered'
        /\ fs' = disk /\ layout' = layout
        /\ card' \in {fs, card, disk}
        /\ OnlyQueued(queue, FatSector(b)) => OnlyQueued(queue', FatSector(b))
        /\ Clean => OnlyQueued(queue', FatSector(b))
    BY <1>1, <1>2, <1>6, <1>7, WriteStep
  <1>9. \A t \in Entries : t # v /\ Bare(fs, t) => Bare(fs', t)
    <2> SUFFICES ASSUME NEW t \in Entries, t # v, Bare(fs, t), NEW c \in Entries, NEW i \in Indexes
                 PROVE  ~Leads(disk, c, i, t)
      BY <1>8 DEF Bare
    <2>1. CASE i # 0
      BY <1>2, <2>1 DEF Bare
    <2>2. CASE i = 0
      BY <1>2, <2>2 DEF Bare, Leads
    <2> QED
      BY <2>1, <2>2
  <1>10. \A t \in Clusters : t # v /\ Bare(fs, t) /\ Bare(card, t) => Bare(card', t)
    BY <1>8, <1>9, <1>a, CardLemma
  <1>11. \A t \in Clusters : fs.fat[b] = t /\ b \in Clusters /\ t # v => Bare(fs', t)
    <2> SUFFICES ASSUME NEW t \in Clusters, fs.fat[b] = t, b \in Clusters, t # v,
                        NEW c \in Entries, NEW i \in Indexes, Leads(disk, c, i, t)
                 PROVE  FALSE
      BY <1>8 DEF Bare
    <2>1. Leads(fs, b, 0, t)
      BY DEF Leads
    <2>2. Leads(fs, c, i, t)
      BY <1>2 DEF Adds
    <2>3. c = b /\ i = 0
      BY <1>1, <2>1, <2>2 DEF DisksInv, Apart
    <2> QED
      BY <1>2, <1>a, <2>3
  <1>12. ASSUME Growing, v # 0
         PROVE  Growing'
    <2>1. \A c \in Entries : fs.fat[c] # 0 => disk.fat[c] # 0
      BY <1>2, <1>12
    <2>2. \A t \in Clusters, c \in Entries, i \in Indexes \ {0} :
            Leads(disk, c, i, t) => Leads(fs, c, i, t)
      BY <1>2, <1>a
    <2> QED
      BY <1>1, <1>2, <1>6, <1>12, <2>1, <2>2, GrowStep
  <1> QED
    BY <1>2, <1>8, <1>9, <1>10, <1>11, <1>12

\* What a write of a slot does.
LEMMA SlotWrite ==
  ASSUME SafeInv, NEW p \in Slots, NEW s \in SlotValues, WriteSlot(p, s),
         s.state = "entry" =>
           /\ s.first # 1
           /\ s.first \in Clusters => fs.fat[s.first] # 0
           /\ Fresh(s.first) \/ Leads(fs, p.cluster, p.index, s.first)
  PROVE  /\ DisksInv' /\ Covered' /\ layout' = layout
         /\ fs'.fat = fs.fat
         /\ \A t \in Entries, c \in Entries, i \in Indexes :
              Leads(fs', c, i, t) =>
                IF c = p.cluster /\ i = p.index THEN s.state = "entry" /\ s.first = t
                                                ELSE Leads(fs, c, i, t)
         /\ OnlyQueued(queue, p.cluster) \/ Clean => Len(queue') <= 1
         /\ /\ Growing
            /\ s.state = "entry" => \/ Leads(fs, p.cluster, p.index, s.first)
                                    \/ OnlyQueued(queue, FatSector(s.first))
            => Growing'
  <1> DEFINE disk == SlotWith(p, s)
  <1>1. /\ fs \in Disks /\ layout \in Layouts /\ TypeInv /\ DisksInv /\ Covered
        /\ p.cluster \in Entries /\ p.index \in Indexes \ {0} /\ p.cluster \in Sectors
        /\ Write(disk, p.cluster)
    BY NumberTypes, SizeAssumption DEF SafeInv, TypeInv, TypeOK, WriteSlot, Indexes
  <1>2. /\ disk \in Disks
        /\ disk.fat = fs.fat
        /\ \A t \in Entries, c \in Entries, i \in Indexes :
             Leads(disk, c, i, t) =>
               IF c = p.cluster /\ i = p.index THEN s.state = "entry" /\ s.first = t
                                               ELSE Leads(fs, c, i, t)
        /\ OnlyIn(disk, p.cluster)
    BY <1>1, SlotEffect
  <1> HIDE DEF disk
  <1>a. 0 \in Entries /\ 1 \in Entries /\ Clusters \subseteq Entries /\ 0 \notin Clusters
        /\ 0 \in FatValues /\ Entries \subseteq FatValues
    BY EntriesLemma
  <1>3. Numbers(disk)
    BY <1>1, <1>2, <1>a DEF DisksInv, Sound, Numbers
  <1>4. \E v \in FatValues : /\ Adds(disk, p.cluster, p.index, v) /\ Fresh(v)
                             /\ v \in Clusters => disk.fat[v] # 0
    <2>1. CASE s.state = "entry" /\ Fresh(s.first)
      <3>1. s.first \in FatValues
        BY <1>a, <2>1, SlotValueLemma
      <3>2. Adds(disk, p.cluster, p.index, s.first)
        BY <1>2, <1>a DEF Adds
      <3> QED
        BY <1>2, <2>1, <3>1, <3>2
    <2>2. CASE s.state # "entry" \/ Leads(fs, p.cluster, p.index, s.first)
      <3>1. Adds(disk, p.cluster, p.index, 0)
        BY <1>2, <1>a, <2>2 DEF Adds
      <3> QED
        BY <1>a, <3>1 DEF Fresh
    <2> QED
      BY <2>1, <2>2
  <1>5. PICK v \in FatValues : /\ Adds(disk, p.cluster, p.index, v) /\ Fresh(v)
                               /\ v \in Clusters => disk.fat[v] # 0
    BY <1>4
  <1>6. Sound(disk, layout.dir)
    BY <1>1, <1>2, <1>3, <1>5, SoundStep
  <1>7. Apart(disk, disk) /\ Apart(disk, fs) /\ Apart(disk, card)
         /\ Apart(fs, disk) /\ Apart(card, disk)
    BY <1>1, <1>5, ApartStep
  <1>8. /\ DisksInv' /\ Covered'
        /\ fs' = disk /\ layout' = layout
        /\ OnlyQueued(queue, p.cluster) => OnlyQueued(queue', p.cluster)
        /\ Clean => OnlyQueued(queue', p.cluster)
    BY <1>1, <1>2, <1>6, <1>7, WriteStep
  <1>9. OnlyQueued(queue', p.cluster) => Len(queue') <= 1
    BY DEF OnlyQueued
  <1>10. ASSUME Growing,
                s.state = "entry" => \/ Leads(fs, p.cluster, p.index, s.first)
                                     \/ OnlyQueued(queue, FatSector(s.first))
         PROVE  Growing'
    <2>1. \A c \in Entries : fs.fat[c] # 0 => disk.fat[c] # 0
      BY <1>2
    <2>2. ASSUME NEW t \in Clusters, NEW c \in Entries, NEW i \in Indexes \ {0}, Leads(disk, c, i, t)
          PROVE  \/ Leads(fs, c, i, t)
                 \/ fs.fat[t] # 0 /\ OnlyQueued(queue, FatSector(t)) /\ p.cluster = c
      BY <1>2, <1>a, <1>10, <2>2
    <2> QED
      BY <1>1, <1>2, <1>6, <1>10, <2>1, <2>2, GrowStep
  <1> QED
    BY <1>2, <1>8, <1>9, <1>10

\* What a write of a cluster without entries does.
LEMMA AreaWrite ==
  ASSUME SafeInv, NEW b \in Entries, NEW a \in Contents, WriteArea(b, a),
         a.kind = "dir" => \A i \in 1 .. SlotsPerCluster : a.slots[i].state # "entry"
  PROVE  /\ DisksInv' /\ Covered' /\ layout' = layout
         /\ fs'.fat = fs.fat
         /\ \A t \in Entries, c \in Entries, i \in Indexes :
              Leads(fs', c, i, t) => Leads(fs, c, i, t)
         /\ Growing => Growing'
  <1> DEFINE disk == AreaWith(b, a)
  <1>1. /\ fs \in Disks /\ layout \in Layouts /\ TypeInv /\ DisksInv /\ Covered
        /\ b \in Sectors /\ Write(disk, b)
    BY NumberTypes DEF SafeInv, TypeInv, TypeOK, WriteArea
  <1>2. /\ disk \in Disks
        /\ disk.fat = fs.fat
        /\ \A t \in Entries, c \in Entries, i \in Indexes : Leads(disk, c, i, t) => Leads(fs, c, i, t)
        /\ OnlyIn(disk, b)
    BY <1>1, AreaEffect
  <1> HIDE DEF disk
  <1>a. 0 \in Entries /\ 1 \in Entries /\ Clusters \subseteq Entries /\ 0 \notin Clusters
        /\ 0 \in FatValues /\ 0 \in Indexes
    BY EntriesLemma, SizeAssumption DEF Indexes
  <1>3. Numbers(disk)
    BY <1>1, <1>2, <1>a DEF DisksInv, Sound, Numbers
  <1>4. Adds(disk, b, 0, 0) /\ Fresh(0)
    BY <1>2, <1>a DEF Adds, Fresh
  <1>5. Sound(disk, layout.dir)
    BY <1>1, <1>2, <1>3, <1>4, <1>a, SoundStep
  <1>6. Apart(disk, disk) /\ Apart(disk, fs) /\ Apart(disk, card)
         /\ Apart(fs, disk) /\ Apart(card, disk)
    BY <1>1, <1>4, <1>a, ApartStep
  <1>7. DisksInv' /\ Covered' /\ fs' = disk /\ layout' = layout
    BY <1>1, <1>2, <1>5, <1>6, WriteStep
  <1>8. ASSUME Growing
        PROVE  Growing'
    <2>1. \A c \in Entries : fs.fat[c] # 0 => disk.fat[c] # 0
      BY <1>2
    <2>2. \A t \in Clusters, c \in Entries, i \in Indexes \ {0} :
            Leads(disk, c, i, t) => Leads(fs, c, i, t)
      BY <1>2, <1>a
    <2> QED
      BY <1>1, <1>2, <1>5, <1>8, <2>1, <2>2, GrowStep
  <1> QED
    BY <1>2, <1>7, <1>8

-----------------------------------------------------------------------------
(* Commands begin *)

\* What speaks of the disks only stays when they do.
LEMMA Unchanged ==
  ASSUME IInv, fs' = fs, card' = card, queue' = queue, layout' = layout
  PROVE  /\ DisksInv' /\ Covered' /\ Growing = Growing' /\ Clean = Clean'
         /\ \A t : Taken(t) = Taken(t)'
  BY DEF IInv, DisksInv, Covered, FatSector, FatSectorNum, Growing, InTime, Clean, Taken

\* A command begins: the disks stay, its variables fit its first label.
LEMMA BeginStep ==
  ASSUME TypeInv, IInv,
         NEW start \in {"create", "wipe", "first", "data"}, NEW names, NEW command,
         Begin(start, names, command),
         start = "wipe" =>
           /\ command.op \in {"put", "delete", "rename"}
           /\ Leads(fs, command.slot.cluster, command.slot.index,
                    IF command.op = "rename" THEN command.entry.first ELSE command.cluster),
         start # "wipe" => command.op \in {"put", "mkdir"},
         command.part = 0,
         start = "data" =>
           /\ command.cluster \in Clusters /\ command.n \in Nat \ {0}
           /\ ChainedFrom(command.cluster, command.n - 1)
  PROVE  IInv'
  <1>1. /\ fs' = fs /\ card' = card /\ queue' = queue /\ layout' = layout
        /\ pc = "prompt" /\ pc' = start /\ cmd' = command
    BY DEF Begin
  <1>2. DisksInv' /\ Covered' /\ Clean' /\ Growing'
    <2>1. Clean /\ DisksInv
      BY <1>1 DEF IInv, QueueInv
    <2> QED
      BY <1>1, <2>1, CleanGrows, Unchanged
  <1>3. QueueInv'
    BY <1>1, <1>2 DEF QueueInv
  <1>4. OpInv'
    BY <1>1 DEF OpInv, At
  <1>5. WipeInv'
    BY <1>1 DEF WipeInv
  <1>6. FreeInv'
    BY <1>1 DEF FreeInv, At
  <1>7. MoveInv'
    BY <1>1 DEF MoveInv, At
  <1>8. ExtendInv' /\ LinkInv' /\ GrowInv' /\ ChainInv'
    BY <1>1 DEF ExtendInv, LinkInv, GrowInv, ChainInv
  <1>9. DataInv'
    <2> SUFFICES ASSUME start = "data"
                 PROVE  /\ command.cluster \in Clusters /\ command.part \in 0 .. command.n - 1
                        /\ ChainedFrom(command.cluster, command.n - command.part - 1)'
      BY <1>1 DEF DataInv
    <2>1. command.n - command.part - 1 = command.n - 1
      OBVIOUS
    <2> QED
      BY <1>1, <2>1 DEF ChainedFrom
  <1> QED
    BY <1>2, <1>3, <1>4, <1>5, <1>6, <1>7, <1>8, <1>9 DEF IInv

\* The clusters of a file that is written over follow each other.
LEMMA ReusableLemma ==
  ASSUME TypeInv, DisksInv, NEW p \in Slots, NEW n \in Nat \ {0},
         SlotAt(fs, p) \in SlotEntries, SlotAt(fs, p).first # 0, SlotAt(fs, p).first # 1,
         Reusable(p, n)
  PROVE  SlotAt(fs, p).first \in Clusters /\ ChainedFrom(SlotAt(fs, p).first, n - 1)
  <1> DEFINE c == SlotAt(fs, p).first
             chain == Chain(fs.fat, c)
  <1>1. c \in Entries /\ fs.fat \in [Entries -> FatValues]
    BY SlotValueLemma, DiskLemma DEF TypeInv, TypeOK
  <1>2. c \in Clusters
    BY <1>1, EntriesLemma
  <1>3. chain \in Seq(Entries) /\ Len(chain) \in Nat \ {0} /\ chain[1] = c /\ Linked(fs.fat, chain)
    BY <1>1, ClosedLemma, ChainLemma
  <1>4. Len(chain) = n /\ ~Fragmented(c)
    BY DEF Reusable
  <1>5. \A k \in 2 .. Len(chain) : chain[k] = chain[k - 1] + 1
    BY <1>4 DEF Fragmented
  <1> HIDE DEF chain, c
  <1>6. \A k \in 1 .. Len(chain) : chain[k] = c + k - 1
    <2>1. c \in Nat
      BY <1>1, EntriesLemma
    <2> QED
      BY <1>3, <1>5, <2>1, RowLemma
  <1>7. ASSUME NEW k \in 1 .. n - 1
        PROVE  c + k \in Clusters /\ fs.fat[c + k - 1] = c + k
    <2>1. k \in 1 .. Len(chain) - 1 /\ k \in 1 .. Len(chain) /\ k + 1 \in 1 .. Len(chain)
      BY <1>3, <1>4
    <2>2. chain[k] = c + k - 1 /\ chain[k + 1] = c + (k + 1) - 1 /\ c \in Nat
      BY <1>1, <1>6, <2>1, EntriesLemma
    <2>3. c + (k + 1) - 1 = c + k
      BY <2>2
    <2>4. fs.fat[chain[k]] = chain[k + 1] /\ chain[k + 1] \in Entries
      BY <1>3, <2>1 DEF Linked
    <2>5. c + k \in Entries /\ c >= 2
      BY <1>2, <2>2, <2>3, <2>4, EntriesLemma
    <2>6. c + k \in Clusters
      BY <2>2, <2>5, EntriesLemma
    <2> QED
      BY <2>2, <2>3, <2>4, <2>6
  <1> QED
    BY <1>2, <1>7 DEF ChainedFrom, c

\* Every command of the user finds an entry that leads where it says, and starts.
LEMMA CommandStep ==
  ASSUME TypeInv, IInv, Command
  PROVE  IInv'
  <1>1. ASSUME NEW name \in FileNames, Exists(name)
        PROVE  /\ Found(name) \in Slots
               /\ SlotAt(fs, Found(name)) \in SlotEntries
               /\ SlotAt(fs, Found(name)).first \in Entries
               /\ Leads(fs, Found(name).cluster, Found(name).index, SlotAt(fs, Found(name)).first)
               /\ SlotAt(fs, Found(name)).first # 1
    <2>1. /\ Found(name) \in Slots
          /\ SlotAt(fs, Found(name)) \in SlotEntries
          /\ fs.area[Found(name).cluster].kind = "dir"
          /\ SlotAt(fs, Found(name)) = fs.area[Found(name).cluster].slots[Found(name).index]
      BY <1>1, FoundLemma
    <2>2. SlotAt(fs, Found(name)).first \in Entries /\ SlotAt(fs, Found(name)).state = "entry"
      BY <2>1, SlotValueLemma
    <2>3. Found(name).cluster \in Entries /\ Found(name).index \in Indexes \ {0}
      BY <2>1, SizeAssumption DEF Slots, Indexes
    <2>4. Leads(fs, Found(name).cluster, Found(name).index, SlotAt(fs, Found(name)).first)
      BY <2>1, <2>2, <2>3 DEF Leads
    <2>5. SlotAt(fs, Found(name)).first # 1
      BY <2>3, <2>4 DEF IInv, DisksInv, Sound, Numbers
    <2> QED
      BY <2>1, <2>2, <2>4, <2>5
  <1>2. /\ FileNames \subseteq Names /\ FileSizes \subseteq Nat \ {0}
        /\ commands < MaxCommands => commands + 1 \in Nat
    BY SizeAssumption DEF Names, TypeInv, TypeOK
  <1>3. ASSUME NEW name \in FileNames, NEW n \in FileSizes, commands < MaxCommands
        PROVE  /\ PutCommand(name, n) \in Commands(PutCommand(name, n).result)
               /\ PutCommand(name, n).op = "put" /\ PutCommand(name, n).part = 0
               /\ PutCommand(name, n).n = n
    BY <1>2, <1>3, PutCommandLemma
  <1>4. ASSUME NEW name \in FileNames, NEW n \in FileSizes, PutNew(name, n)
        PROVE  IInv'
    <2>1. Begin("create", {name}, PutCommand(name, n)) /\ commands < MaxCommands
      BY <1>4 DEF PutNew, Begin
    <2> QED
      BY <1>3, <2>1, BeginStep
  <1>5. ASSUME NEW name \in FileNames, NEW n \in FileSizes, PutOver(name, n)
        PROVE  IInv'
    <2> DEFINE put == PutCommand(name, n)
               first == SlotAt(fs, Found(name)).first
               start == IF first = 0 THEN "first" ELSE "data"
               command == [put EXCEPT !.slot = Found(name), !.cluster = first]
    <2>1. /\ Begin(start, {name}, command) /\ commands < MaxCommands /\ Exists(name)
          /\ Reusable(Found(name), n)
      BY <1>5 DEF PutOver, Begin
    <2>2. /\ command.op = "put" /\ command.part = 0 /\ command.n = n /\ command.cluster = first
      <3>1. put \in Commands(put.result) /\ put.op = "put" /\ put.part = 0 /\ put.n = n
        BY <1>3, <2>1
      <3> HIDE DEF put
      <3> QED
        BY <3>1 DEF Commands
    <2>3. first # 0 => first \in Clusters /\ ChainedFrom(first, n - 1)
      BY <1>1, <1>2, <2>1, ReusableLemma DEF IInv
    <2>4. start \in {"create", "wipe", "first", "data"} /\ start # "wipe"
          /\ (start = "data" => first # 0)
      OBVIOUS
    <2> HIDE DEF command, start
    <2> QED
      BY <1>2, <2>1, <2>2, <2>3, <2>4, BeginStep
  <1>6. ASSUME NEW name \in FileNames, NEW n \in FileSizes, PutAnew(name, n)
        PROVE  IInv'
    <2> DEFINE put == PutCommand(name, n)
               e == SlotAt(fs, Found(name))
               start == IF e.isDir THEN "create" ELSE "wipe"
               command == [put EXCEPT !.slot = Found(name), !.cluster = e.first]
    <2>1. Begin(start, {name}, command) /\ commands < MaxCommands /\ Exists(name)
      BY <1>6 DEF PutAnew, Begin
    <2>2. /\ command.op = "put" /\ command.part = 0 /\ command.cluster = e.first
          /\ command.slot = Found(name)
      <3>1. put \in Commands(put.result) /\ put.op = "put" /\ put.part = 0
        BY <1>3, <2>1
      <3> HIDE DEF put
      <3> QED
        BY <3>1 DEF Commands
    <2>3. Leads(fs, Found(name).cluster, Found(name).index, e.first)
      BY <1>1, <2>1
    <2>4. start \in {"create", "wipe", "first", "data"} /\ start # "data"
      OBVIOUS
    <2> HIDE DEF command, start
    <2> QED
      BY <2>1, <2>2, <2>3, <2>4, BeginStep
  <1>7. ASSUME NEW name \in FileNames, Delete(name)
        PROVE  IInv'
    <2> DEFINE command == [NoCommand EXCEPT !.op = "delete", !.name = name, !.slot = Found(name),
                                            !.cluster = SlotAt(fs, Found(name)).first]
    <2>1. Begin("wipe", {name}, command) /\ Exists(name)
      BY <1>7 DEF Delete
    <2>2. /\ command.op = "delete" /\ command.part = 0 /\ command.slot = Found(name)
          /\ command.cluster = SlotAt(fs, Found(name)).first
      BY NoCommandLemma DEF Commands
    <2>3. Leads(fs, Found(name).cluster, Found(name).index, SlotAt(fs, Found(name)).first)
      BY <1>1, <2>1
    <2> HIDE DEF command
    <2> QED
      BY <2>1, <2>2, <2>3, BeginStep
  <1>8. ASSUME NEW name \in FileNames, NEW to \in FileNames, Rename(name, to)
        PROVE  IInv'
    <2> DEFINE command == [NoCommand EXCEPT !.op = "rename", !.name = to, !.from = name,
                                            !.result = files[name], !.slot = Found(name),
                                            !.entry = SlotAt(fs, Found(name))]
    <2>1. Begin("wipe", {name, to}, command) /\ Exists(name)
      BY <1>8 DEF Rename
    <2>2. /\ command.op = "rename" /\ command.part = 0 /\ command.slot = Found(name)
          /\ command.entry = SlotAt(fs, Found(name))
      BY NoCommandLemma DEF Commands
    <2>3. Leads(fs, Found(name).cluster, Found(name).index, SlotAt(fs, Found(name)).first)
      BY <1>1, <2>1
    <2> HIDE DEF command
    <2> QED
      BY <2>1, <2>2, <2>3, BeginStep
  <1>9. ASSUME NEW name \in DirNames, Mkdir(name)
        PROVE  IInv'
    <2> DEFINE command == [NoCommand EXCEPT !.op = "mkdir", !.name = name, !.n = 1, !.result = MadeDir]
    <2>1. Begin("create", {name}, command)
      BY <1>9 DEF Mkdir
    <2>2. command.op = "mkdir" /\ command.part = 0
      BY NoCommandLemma DEF Commands
    <2> HIDE DEF command
    <2> QED
      BY <2>1, <2>2, BeginStep
  <1> QED
    BY <1>4, <1>5, <1>6, <1>7, <1>8, <1>9 DEF Command

-----------------------------------------------------------------------------
(* The steps of the commands *)

\* The program is stopped, perhaps half way through a flush.
LEMMA CrashStep ==
  ASSUME TypeInv, IInv, LinksAreLocal, Crash
  PROVE  IInv'
  <1>1. PICK k \in 0 .. Len(queue) : card' = PartlyFlushed(k) /\ fs' = PartlyFlushed(k)
    BY DEF Crash
  <1>2. queue' = <<>> /\ pc' = "prompt" /\ cmd' = NoCommand /\ layout' = layout
    BY DEF Crash
  <1>3. DisksInv /\ Covered /\ QueueInv
    BY DEF IInv
  <1>4. Growing \/ Len(queue) <= 1
    <2>1. pc \in Labels \ {"stray"}
      BY DEF TypeInv, TypeOK, IInv, OpInv
    <2> QED
      BY <1>3, <2>1, CleanCovers DEF QueueInv, Labels, OnlyQueued
  <1>5. Sound(PartlyFlushed(k), layout.dir) /\ Apart(PartlyFlushed(k), PartlyFlushed(k))
    BY <1>3, <1>4, MixLemma
  <1>6. DisksInv' /\ Covered' /\ Clean'
    BY <1>1, <1>2, <1>5 DEF DisksInv, Covered, Clean
  <1>7. QueueInv'
    BY <1>2, <1>6 DEF QueueInv
  <1>8. OpInv' /\ WipeInv' /\ FreeInv' /\ MoveInv'
    BY <1>2 DEF OpInv, WipeInv, FreeInv, MoveInv, At
  <1>9. ExtendInv' /\ LinkInv' /\ DataInv' /\ GrowInv' /\ ChainInv'
    BY <1>2 DEF ExtendInv, LinkInv, DataInv, GrowInv, ChainInv
  <1> QED
    BY <1>6, <1>7, <1>8, <1>9 DEF IInv

\* execute_write_queue.
LEMMA FlushStep ==
  ASSUME TypeInv, IInv, Flush
  PROVE  IInv'
  <1>1. /\ fs' = fs /\ card' = fs /\ queue' = <<>> /\ cmd' = cmd /\ layout' = layout
        /\ pc = "flush" /\ pc' = cmd.then
    BY DEF Flush
  <1>2. cmd.then \in {"prompt", "free", "create", "first", "relink"}
    BY <1>1 DEF IInv, OpInv
  <1>3. DisksInv' /\ Covered' /\ Clean'
    BY <1>1 DEF IInv, DisksInv, Covered, Clean
  <1>4. QueueInv'
    BY <1>1, <1>2, <1>3 DEF QueueInv, OnlyQueued
  <1>5. OpInv' /\ WipeInv'
    BY <1>1, <1>2 DEF IInv, OpInv, WipeInv, At
  <1>6. \A t : Taken(t) => Taken(t)'
    BY <1>1 DEF Taken
  <1>7. FreeInv'
    BY <1>1, <1>2, <1>6 DEF IInv, FreeInv, At, Taken
  <1>8. MoveInv'
    BY <1>1, <1>2, <1>6 DEF IInv, MoveInv, At, Taken
  <1>9. ExtendInv' /\ LinkInv' /\ DataInv' /\ GrowInv' /\ ChainInv'
    BY <1>1, <1>2 DEF ExtendInv, LinkInv, DataInv, GrowInv, ChainInv
  <1> QED
    BY <1>3, <1>4, <1>5, <1>7, <1>8, <1>9 DEF IInv

\* upload_single_file gives up.
LEMMA NoFreeClusterStep ==
  ASSUME TypeInv, IInv, NoFreeCluster
  PROVE  IInv'
  <1>1. /\ fs' = fs /\ card' = card /\ queue' = queue /\ cmd' = cmd /\ layout' = layout
        /\ pc = "first" /\ pc' = "prompt"
    BY DEF NoFreeCluster
  <1>2. Clean
    BY <1>1 DEF IInv, QueueInv
  <1>3. DisksInv' /\ Covered' /\ Clean'
    BY <1>1, <1>2, Unchanged
  <1>4. QueueInv'
    BY <1>1, <1>3 DEF QueueInv
  <1>5. OpInv' /\ WipeInv' /\ FreeInv' /\ MoveInv'
    BY <1>1 DEF OpInv, WipeInv, FreeInv, MoveInv, At
  <1>6. ExtendInv' /\ LinkInv' /\ DataInv' /\ GrowInv' /\ ChainInv'
    BY <1>1 DEF ExtendInv, LinkInv, DataInv, GrowInv, ChainInv
  <1> QED
    BY <1>3, <1>4, <1>5, <1>6 DEF IInv

\* A flush leaves the variables of the command.
LEMMA FieldsLemma ==
  ASSUME TypeInv
  PROVE  /\ cmd.slot \in Slots /\ cmd.cluster \in Entries /\ cmd.next \in Entries
         /\ cmd.n \in Nat /\ cmd.part \in Nat /\ cmd.then \in Labels /\ cmd.op \in Ops
         /\ \A label : [cmd EXCEPT !.then = label].then = label
         /\ \A label : \A f \in {"op", "n", "slot", "cluster", "next", "part", "entry"} :
              [cmd EXCEPT !.then = label][f] = cmd[f]
  BY CmdLemma DEF TypeInv, Commands

\* Where a command goes after a write that ends with a flush.
FlushFor(label) ==
  /\ pc' = "flush" /\ cmd'.then = label
  /\ cmd'.op = cmd.op /\ cmd'.n = cmd.n /\ cmd'.slot = cmd.slot
  /\ cmd'.cluster = cmd.cluster /\ cmd'.next = cmd.next /\ cmd'.part = cmd.part
  /\ cmd'.entry = cmd.entry

\* FlushThen in those terms.
LEMMA FlushThenLemma ==
  ASSUME TypeInv, NEW label, FlushThen(label)
  PROVE  FlushFor(label)
  BY DEF TypeInv, Commands, FlushThen, GotoWith, FlushFor

\* wipe_direntries_of_current_file_or_dir: the clusters have lost their entry.
LEMMA WipeStep ==
  ASSUME TypeInv, IInv, Wipe
  PROVE  IInv'
  <1> DEFINE target == IF cmd.op = "rename" THEN cmd.entry.first ELSE cmd.cluster
  <1>1. /\ pc = "wipe" /\ WriteSlot(cmd.slot, WipedSlot)
        /\ FlushFor(IF cmd.op = "rename" THEN "create" ELSE "free")
    BY FlushThenLemma DEF Wipe
  <1>2. cmd.op \in {"put", "delete", "rename"} /\ (cmd.op = "put" => cmd.part = 0)
    BY <1>1 DEF IInv, OpInv, At
  <1>3. /\ SafeInv /\ Clean /\ cmd.slot \in Slots /\ WipedSlot \in SlotValues
        /\ WipedSlot.state # "entry"
    BY <1>1, FieldsLemma, SlotValueLemma DEF IInv, SafeInv, QueueInv
  <1>4. /\ DisksInv' /\ Covered' /\ layout' = layout /\ fs'.fat = fs.fat /\ Len(queue') <= 1
        /\ \A t \in Entries, c \in Entries, i \in Indexes :
             Leads(fs', c, i, t) => Leads(fs, c, i, t) /\ ~(c = cmd.slot.cluster /\ i = cmd.slot.index)
    BY <1>1, <1>3, SlotWrite
  <1>5. target \in Entries /\ target # 1 /\ Leads(fs, cmd.slot.cluster, cmd.slot.index, target)
    <2>1. Leads(fs, cmd.slot.cluster, cmd.slot.index, target)
      BY <1>1 DEF IInv, WipeInv
    <2>2. target \in Entries
      BY FieldsLemma, SlotValueLemma DEF TypeInv
    <2>3. cmd.slot.cluster \in Entries /\ cmd.slot.index \in Indexes \ {0}
      BY <1>3, SizeAssumption DEF Slots, Indexes
    <2>4. target # 1
      BY <2>1, <2>3 DEF IInv, DisksInv, Sound, Numbers
    <2> QED
      BY <2>1, <2>2, <2>4
  <1> HIDE DEF target
  <1>6. cmd.slot.cluster \in Entries /\ cmd.slot.index \in Indexes /\ Clusters \subseteq Entries
    BY <1>3, SizeAssumption, EntriesLemma DEF Slots, Indexes
  <1>7. ASSUME target \in Clusters
        PROVE  fs'.fat[target] # 0 /\ Bare(fs', target) /\ target # layout.dir
    <2>1. DisksInv
      BY DEF IInv
    <2>2. fs.fat[target] # 0 /\ target # layout.dir
      BY <1>5, <1>6, <1>7, <2>1 DEF DisksInv, Sound, UsedIn, Bare
    <2>3. Bare(fs', target)
      <3> SUFFICES ASSUME NEW c \in Entries, NEW i \in Indexes, Leads(fs', c, i, target)
                   PROVE  FALSE
        BY DEF Bare
      <3>1. Leads(fs, c, i, target) /\ ~(c = cmd.slot.cluster /\ i = cmd.slot.index)
        BY <1>4, <1>5
      <3> QED
        BY <1>5, <1>6, <1>7, <2>1, <3>1 DEF DisksInv, Apart
    <2> QED
      BY <1>4, <2>2, <2>3
  <1>8. QueueInv'
    BY <1>1, <1>4 DEF QueueInv, FlushFor
  <1>9. OpInv' /\ WipeInv'
    BY <1>1, <1>2 DEF OpInv, WipeInv, At, FlushFor
  <1>10. FreeInv'
    BY <1>1, <1>2, <1>4, <1>5, <1>7 DEF FreeInv, At, FlushFor, Taken, target
  <1>11. MoveInv'
    BY <1>1, <1>2, <1>4, <1>5, <1>7 DEF MoveInv, At, FlushFor, Taken, target
  <1>12. ExtendInv' /\ LinkInv' /\ DataInv' /\ GrowInv' /\ ChainInv'
    BY <1>1 DEF ExtendInv, LinkInv, DataInv, GrowInv, ChainInv, FlushFor
  <1> QED
    BY <1>4, <1>8, <1>9, <1>10, <1>11, <1>12 DEF IInv

\* delete_single_file frees a cluster to which nothing leads any more, and so the
\* next of the chain has lost its reference, too.
LEMMA FreeNextStep ==
  ASSUME TypeInv, IInv, LinksAreLocal, FreeNext
  PROVE  IInv'
  <1>0. PICK next : next = fs.fat[cmd.cluster]
    OBVIOUS
  <1> DEFINE then == IF cmd.op = "put" THEN "create" ELSE "prompt"
  <1>1. pc = "free" /\ WriteFat(cmd.cluster, 0)
    BY DEF FreeNext
  <1>2. cmd.op \in {"put", "delete"} /\ (cmd.op = "put" => cmd.part = 0)
    BY <1>1 DEF IInv, OpInv, At
  <1>3. /\ SafeInv /\ cmd.cluster \in Entries /\ cmd.cluster # 1 /\ Taken(cmd.cluster)
        /\ OnlyQueued(queue, FatSector(cmd.cluster))
    BY <1>1, FieldsLemma DEF IInv, SafeInv, QueueInv, FreeInv, At
  <1>4. 0 \in FatValues /\ 0 \notin Clusters /\ Clusters \subseteq Entries
    BY EntriesLemma
  <1>5. /\ DisksInv' /\ Covered' /\ layout' = layout
        /\ \A c \in Entries : c # cmd.cluster => fs'.fat[c] = fs.fat[c]
        /\ \A t \in Clusters : next = t /\ cmd.cluster \in Clusters => Bare(fs', t)
        /\ OnlyQueued(queue', FatSector(cmd.cluster))
    BY <1>0, <1>1, <1>3, <1>4, FatWrite DEF Fresh
  <1>6. \/ InChain(next) /\ pc' = "free" /\ cmd' = [cmd EXCEPT !.cluster = next]
        \/ ~InChain(next) /\ FlushFor(then)
    BY <1>0, FlushThenLemma DEF FreeNext, GotoWith
  <1> HIDE DEF then
  <1>7. CASE InChain(next) /\ pc' = "free" /\ cmd' = [cmd EXCEPT !.cluster = next]
    <2>1. /\ cmd'.cluster = next /\ cmd'.op = cmd.op /\ cmd'.part = cmd.part
      BY <1>7 DEF TypeInv, Commands
    <2>2. next \in Clusters /\ cmd.cluster \in Clusters
      <3>1. fs \in Disks /\ next \in FatValues
        BY <1>0, <1>3, DiskLemma DEF TypeInv, TypeOK
      <3>2. next # 1
        BY <1>0, <1>3 DEF SafeInv, DisksInv, Sound, Numbers
      <3>3. next \in Clusters
        BY <1>7, <3>1, <3>2, EntriesLemma DEF InChain, EndOfChain
      <3>4. cmd.cluster # 0
        BY <1>0, <1>7, EntriesLemma DEF SafeInv, IInv, DisksInv, Sound, Numbers, InChain
      <3> QED
        BY <1>3, <3>3, <3>4, EntriesLemma
    <2>3. Leads(fs, cmd.cluster, 0, next) /\ 0 \in Indexes
      BY <1>0, <2>2, SizeAssumption DEF Leads, Indexes
    <2>4. fs.fat[next] # 0 /\ next # layout.dir /\ next # cmd.cluster
      BY <1>3, <2>2, <2>3 DEF SafeInv, DisksInv, Sound, UsedIn, Bare, Taken
    <2>5. Taken(next)'
      BY <1>4, <1>5, <2>2, <2>4 DEF Taken
    <2>6. FatSector(next)' = FatSector(cmd.cluster)
      BY <1>0, <1>3, <1>5, <1>7 DEF LinksAreLocal, FatSector, FatSectorNum
    <2>7. QueueInv'
      BY <1>5, <1>7, <2>1, <2>6 DEF QueueInv, FatSector, FatSectorNum
    <2>8. OpInv' /\ WipeInv' /\ MoveInv'
      BY <1>2, <1>7, <2>1 DEF OpInv, WipeInv, MoveInv, At
    <2>9. FreeInv'
      BY <1>3, <2>1, <2>2, <2>5, EntriesLemma DEF FreeInv, Taken
    <2>10. ExtendInv' /\ LinkInv' /\ DataInv' /\ GrowInv' /\ ChainInv'
      BY <1>7 DEF ExtendInv, LinkInv, DataInv, GrowInv, ChainInv
    <2> QED
      BY <1>5, <2>7, <2>8, <2>9, <2>10 DEF IInv
  <1>8. CASE FlushFor(then)
    <2>1. QueueInv'
      BY <1>5, <1>8 DEF QueueInv, FlushFor, OnlyQueued
    <2>2. OpInv' /\ WipeInv' /\ FreeInv' /\ MoveInv'
      BY <1>2, <1>8 DEF OpInv, WipeInv, FreeInv, MoveInv, At, FlushFor, then
    <2>3. ExtendInv' /\ LinkInv' /\ DataInv' /\ GrowInv' /\ ChainInv'
      BY <1>8 DEF ExtendInv, LinkInv, DataInv, GrowInv, ChainInv, FlushFor
    <2> QED
      BY <1>5, <2>1, <2>2, <2>3 DEF IInv
  <1> QED
    BY <1>6, <1>7, <1>8

\* A write that adds no reference leaves a bare cluster bare.
LEMMA BareLemma ==
  ASSUME NEW d, NEW t \in Entries, Bare(fs, t),
         \A c \in Entries, i \in Indexes : Leads(d, c, i, t) => Leads(fs, c, i, t)
  PROVE  Bare(d, t)
  BY DEF Bare

\* With room for the directory an entry goes into the first free slot ...
LEMMA NewEntryLemma ==
  ASSUME IInv, CreateEntry
  PROVE  /\ pc = "create" /\ FreeSlots # {} /\ NewSlot = FirstFreeSlot
         /\ WriteSlot(FirstFreeSlot, EntrySlot(cmd.name, 0, 0,
              IF cmd.op = "rename" THEN cmd.entry.isDir ELSE cmd.op = "mkdir"))
         /\ GotoWith("flush",
              [cmd EXCEPT !.slot = FirstFreeSlot,
                          !.then = IF cmd.op = "rename" THEN "relink" ELSE "first"])
  BY DEF CreateEntry, NewSlot, IInv, OpInv

\* ... and the cluster that is cleared is not cluster 0.
LEMMA NewClusterLemma ==
  ASSUME IInv, ClearCluster
  PROVE  pc = "clear" /\ WriteArea(cmd.next, EmptyDirectory) /\ FlushThen("create")
  <1>1. cmd.next # 0
    BY EntriesLemma DEF ClearCluster, IInv, ExtendInv
  <1> QED
    BY <1>1 DEF ClearCluster

\* create_directory_entry_for_item: a new entry leads nowhere.
LEMMA CreateEntryStep ==
  ASSUME TypeInv, IInv, CreateEntry
  PROVE  IInv'
  <1>0. PICK p \in Slots : p = NewSlot
    BY FreeSlotLemma, StrayLemma DEF CreateEntry, NewSlot
  <1>1. PICK s \in SlotValues :
          /\ s.state = "entry" /\ s.first = 0
          /\ WriteSlot(p, s)
    <2>1. \A b : [state |-> "entry", name |-> cmd.name, first |-> 0, size |-> 0, isDir |-> b].first = 0
      OBVIOUS
    <2>2. \A b \in BOOLEAN : EntrySlot(cmd.name, 0, 0, b) \in SlotEntries
      BY EntriesLemma DEF EntrySlot, SlotEntries, TypeInv, CreateEntry
    <2>3. (IF cmd.op = "rename" THEN cmd.entry.isDir ELSE cmd.op = "mkdir") \in BOOLEAN
      BY SlotValueLemma DEF TypeInv
    <2>4. PICK b \in BOOLEAN : b = IF cmd.op = "rename" THEN cmd.entry.isDir ELSE cmd.op = "mkdir"
      BY <2>3
    <2>5. WriteSlot(p, EntrySlot(cmd.name, 0, 0, b))
      BY <1>0, <2>4 DEF CreateEntry
    <2>6. EntrySlot(cmd.name, 0, 0, b).first = 0
      BY DEF EntrySlot
    <2>7. EntrySlot(cmd.name, 0, 0, b) \in SlotEntries
      BY <2>2
    <2> QED
      BY <2>5, <2>6, <2>7, SlotValueLemma
  <1>2. /\ pc = "create" /\ pc' = "flush"
        /\ cmd'.then = IF cmd.op = "rename" THEN "relink" ELSE "first"
        /\ cmd'.op = cmd.op /\ cmd'.n = cmd.n /\ cmd'.part = cmd.part /\ cmd'.entry = cmd.entry
        /\ cmd'.cluster = cmd.cluster
    BY NewEntryLemma DEF GotoWith, TypeInv, Commands
  <1>3. /\ cmd.op \in {"put", "rename", "mkdir"}
        /\ cmd.op \in {"put", "mkdir"} => cmd.part = 0
    BY <1>2 DEF IInv, OpInv, At
  <1>4. SafeInv /\ Clean
    BY <1>2 DEF IInv, SafeInv, QueueInv
  <1>5. 0 \notin Clusters /\ Clusters \subseteq Entries /\ 0 \in Entries
    BY EntriesLemma
  <1>6. /\ DisksInv' /\ Covered' /\ layout' = layout /\ fs'.fat = fs.fat /\ Len(queue') <= 1
        /\ \A t \in Entries, c \in Entries, i \in Indexes :
             Leads(fs', c, i, t) =>
               IF c = p.cluster /\ i = p.index THEN s.state = "entry" /\ s.first = t
                                               ELSE Leads(fs, c, i, t)
    BY <1>1, <1>4, <1>5, SlotWrite DEF Fresh
  <1>7. \A t \in Clusters, c \in Entries, i \in Indexes : Leads(fs', c, i, t) => Leads(fs, c, i, t)
    BY <1>1, <1>5, <1>6
  <1>8. QueueInv'
    BY <1>2, <1>6 DEF QueueInv
  <1>9. OpInv' /\ WipeInv' /\ FreeInv'
    BY <1>2, <1>3 DEF OpInv, WipeInv, FreeInv, At
  <1>10. MoveInv'
    <2> SUFFICES ASSUME cmd.op = "rename"
                 PROVE  cmd.entry.first # 1 /\ (cmd.entry.first \in Clusters =>
                          fs'.fat[cmd.entry.first] # 0 /\ Bare(fs', cmd.entry.first)
                            /\ cmd.entry.first # layout.dir)
      BY <1>2, <1>6 DEF MoveInv, Taken
    <2>1. cmd.entry.first # 1 /\ Taken(cmd.entry.first)
      BY <1>2 DEF IInv, MoveInv, At
    <2> QED
      BY <1>5, <1>6, <1>7, <2>1, BareLemma DEF Taken
  <1>11. ExtendInv' /\ LinkInv' /\ DataInv' /\ GrowInv' /\ ChainInv'
    BY <1>2 DEF ExtendInv, LinkInv, DataInv, GrowInv, ChainInv
  <1> QED
    BY <1>6, <1>8, <1>9, <1>10, <1>11 DEF IInv

\* The clusters a chain visits are clusters.
LEMMA LastLemma ==
  ASSUME TypeInv, DisksInv
  PROVE  Last(Chain(fs.fat, layout.dir)) \in Clusters
  <1>1. layout.dir \in Clusters /\ fs.fat \in [Entries -> FatValues]
    BY NumberTypes, DiskLemma DEF TypeInv, TypeOK
  <1>2. Closed(fs.fat, Clusters)
    <2> SUFFICES ASSUME NEW c \in Clusters, InChain(fs.fat[c])
                 PROVE  fs.fat[c] \in Clusters
      BY DEF Closed
    <2>1. fs.fat[c] \in FatValues /\ fs.fat[c] # 1
      BY <1>1, EntriesLemma DEF DisksInv, Sound, Numbers
    <2> QED
      BY <2>1, EntriesLemma DEF InChain, EndOfChain
  <1>3. Chain(fs.fat, layout.dir) \in Seq(Clusters) /\ Len(Chain(fs.fat, layout.dir)) \in Nat \ {0}
    BY <1>1, <1>2, ChainLemma
  <1> QED
    BY <1>3 DEF Last

\* A cluster that is free is one, and nothing leads to it.
LEMMA FreeLemma ==
  ASSUME SafeInv, Growing, NEW c \in Entries, c # 0, fs.fat[c] = 0
  PROVE  /\ c \in Clusters /\ c # layout.dir /\ Bare(fs, c) /\ Bare(card, c)
         /\ cmd.op = "rename" /\ Taken(cmd.entry.first) => c # cmd.entry.first
  <1>1. c \in Clusters
    BY EntriesLemma DEF SafeInv, DisksInv, Sound, Numbers
  <1>2. card.fat[c] = 0
    BY DEF Growing
  <1> QED
    BY <1>1, <1>2 DEF SafeInv, DisksInv, Sound, UsedIn, Bare, Taken

\* extend_dir_cluster_chain: the new cluster is marked ...
LEMMA ExtendDirStep ==
  ASSUME TypeInv, IInv, DirectoryCanGrow, ExtendDir
  PROVE  IInv'
  <1>1. PICK last \in Clusters : last = Last(Chain(fs.fat, layout.dir))
    BY LastLemma DEF IInv
  <1>2. PICK next : next = FindFree(last)
    OBVIOUS
  <1>3. /\ pc = "create" /\ FreeSlots = {} /\ WriteFat(next, EndOfChain) /\ pc' = "extend"
        /\ cmd' = [cmd EXCEPT !.cluster = last, !.next = next]
    BY <1>1, <1>2 DEF ExtendDir, GotoWith
  <1>4. /\ cmd'.cluster = last /\ cmd'.next = next
        /\ cmd'.op = cmd.op /\ cmd'.n = cmd.n /\ cmd'.part = cmd.part /\ cmd'.entry = cmd.entry
    BY <1>3 DEF TypeInv, Commands
  <1>5. SafeInv /\ Clean /\ Growing
    BY <1>3, CleanGrows DEF IInv, SafeInv, QueueInv
  <1>6. next \in Entries /\ next # 0 /\ fs.fat[next] = 0
    <2>1. next # 0
      BY <1>1, <1>2, <1>3 DEF DirectoryCanGrow
    <2>2. fs.fat \in [Entries -> FatValues] /\ last \in Entries
      BY <1>1, DiskLemma, EntriesLemma DEF TypeInv, TypeOK
    <2> QED
      BY <1>2, <2>1, <2>2, FindFreeLemma
  <1>7. /\ next \in Clusters /\ next # layout.dir /\ Bare(fs, next) /\ Bare(card, next)
        /\ cmd.op = "rename" /\ Taken(cmd.entry.first) => next # cmd.entry.first
    BY <1>5, <1>6, FreeLemma
  <1>8. /\ EndOfChain \in FatValues /\ EndOfChain \notin Clusters /\ EndOfChain # 0
        /\ EndOfChain # 1 /\ Clusters \subseteq Entries /\ 1 \notin Clusters
    BY EntriesLemma DEF EndOfChain
  <1>9. /\ DisksInv' /\ Covered' /\ layout' = layout
        /\ fs'.fat[next] = EndOfChain
        /\ \A c \in Entries : c # next => fs'.fat[c] = fs.fat[c]
        /\ \A t \in Entries : t # EndOfChain /\ Bare(fs, t) => Bare(fs', t)
        /\ \A t \in Clusters : t # EndOfChain /\ Bare(fs, t) /\ Bare(card, t) => Bare(card', t)
        /\ Growing'
    BY <1>3, <1>5, <1>6, <1>7, <1>8, FatWrite DEF Fresh
  <1>10. QueueInv'
    BY <1>3, <1>9 DEF QueueInv
  <1>11. OpInv' /\ WipeInv' /\ FreeInv'
    BY <1>3, <1>4 DEF IInv, OpInv, WipeInv, FreeInv, At
  <1>12. cmd.op = "rename" => /\ cmd.entry.first # 1 /\ Taken(cmd.entry.first)
                              /\ next # cmd.entry.first
    BY <1>3, <1>7 DEF IInv, MoveInv, At
  <1>13. MoveInv'
    BY <1>4, <1>8, <1>9, <1>12 DEF MoveInv, Taken
  <1>14. ExtendInv'
    BY <1>4, <1>7, <1>8, <1>9, <1>12 DEF ExtendInv, NewCluster
  <1>15. LinkInv' /\ DataInv' /\ GrowInv' /\ ChainInv'
    BY <1>3 DEF LinkInv, DataInv, GrowInv, ChainInv
  <1> QED
    BY <1>9, <1>10, <1>11, <1>13, <1>14, <1>15 DEF IInv

\* ... the directory goes on there ...
LEMMA ChainDirStep ==
  ASSUME TypeInv, IInv, ChainDir
  PROVE  IInv'
  <1>1. pc = "extend" /\ WriteFat(cmd.cluster, cmd.next) /\ pc' = "clear" /\ cmd' = cmd
    BY DEF ChainDir, Goto
  <1>2. /\ cmd.cluster \in Clusters /\ NewCluster(cmd.next) /\ Growing /\ SafeInv
        /\ cmd.op = "rename" => cmd.next # cmd.entry.first
    BY <1>1 DEF IInv, ExtendInv, QueueInv, SafeInv
  <1>3. /\ Clusters \subseteq Entries /\ Entries \subseteq FatValues /\ 0 \notin Clusters
        /\ 1 \notin Clusters /\ EndOfChain # 0
    BY EntriesLemma DEF EndOfChain
  <1>4. /\ DisksInv' /\ Covered' /\ layout' = layout
        /\ fs'.fat[cmd.cluster] = cmd.next
        /\ \A c \in Entries : c # cmd.cluster => fs'.fat[c] = fs.fat[c]
        /\ \A t \in Entries : t # cmd.next /\ Bare(fs, t) => Bare(fs', t)
        /\ Growing'
    BY <1>1, <1>2, <1>3, FatWrite DEF NewCluster, Fresh
  <1>5. QueueInv'
    BY <1>1, <1>4 DEF QueueInv
  <1>6. OpInv' /\ WipeInv' /\ FreeInv'
    BY <1>1 DEF IInv, OpInv, WipeInv, FreeInv, At
  <1>7. cmd.op = "rename" => cmd.entry.first # 1 /\ Taken(cmd.entry.first)
    BY <1>1 DEF IInv, MoveInv, At
  <1>8. MoveInv'
    BY <1>1, <1>2, <1>3, <1>4, <1>7 DEF MoveInv, Taken, NewCluster
  <1>9. ExtendInv' /\ LinkInv' /\ DataInv' /\ GrowInv' /\ ChainInv'
    BY <1>1, <1>2 DEF ExtendInv, LinkInv, DataInv, GrowInv, ChainInv, NewCluster
  <1> QED
    BY <1>4, <1>5, <1>6, <1>8, <1>9 DEF IInv

\* ... and it is cleared.
LEMMA ClearClusterStep ==
  ASSUME TypeInv, IInv, ClearCluster
  PROVE  IInv'
  <1>1. pc = "clear" /\ WriteArea(cmd.next, EmptyDirectory) /\ FlushFor("create")
    BY NewClusterLemma, FlushThenLemma
  <1>2. SafeInv /\ Growing /\ cmd.next \in Entries
    BY <1>1, FieldsLemma DEF IInv, QueueInv, SafeInv
  <1>3. /\ EmptyDirectory \in Contents
        /\ \A i \in 1 .. SlotsPerCluster : EmptyDirectory.slots[i].state # "entry"
    BY SlotValueLemma, ContentsLemma DEF EmptyDirectory, Directory, DirContents
  <1>4. /\ DisksInv' /\ Covered' /\ layout' = layout
        /\ fs'.fat = fs.fat
        /\ \A t \in Entries, c \in Entries, i \in Indexes :
             Leads(fs', c, i, t) => Leads(fs, c, i, t)
        /\ Growing'
    BY <1>1, <1>2, <1>3, AreaWrite
  <1>5. QueueInv'
    BY <1>1, <1>4 DEF QueueInv, FlushFor
  <1>6. OpInv' /\ WipeInv' /\ FreeInv'
    BY <1>1 DEF IInv, OpInv, WipeInv, FreeInv, At, FlushFor
  <1>7. cmd.op = "rename" => cmd.entry.first # 1 /\ Taken(cmd.entry.first)
    BY <1>1 DEF IInv, MoveInv, At
  <1>8. MoveInv'
    BY <1>1, <1>4, <1>7, BareLemma, EntriesLemma DEF MoveInv, Taken, FlushFor
  <1>9. ExtendInv' /\ LinkInv' /\ DataInv' /\ GrowInv' /\ ChainInv'
    BY <1>1 DEF ExtendInv, LinkInv, DataInv, GrowInv, ChainInv, FlushFor
  <1> QED
    BY <1>4, <1>5, <1>6, <1>8, <1>9 DEF IInv

\* A run of free clusters ends before the FAT does.
LEMMA RunLemma ==
  ASSUME TypeInv, DisksInv, RunsEnd, NEW n \in Nat \ {0}, NEW c \in Runs(n)
  PROVE  c \in Clusters /\ fs.fat[c] = 0 /\ FreeFrom(c, n - 1)
  <1>1. c \in Clusters /\ fs.fat[c] = 0 /\ \A k \in 1 .. n - 1 : fs.fat[(c + k) % (LastCluster + 1)] = 0
    BY DEF Runs, IsFree
  <1>2. c \in Nat /\ c >= 2 /\ c <= LastCluster /\ LastCluster \in Nat
    BY <1>1, EntriesLemma
  <1>3. ASSUME c + (n - 1) > LastCluster
        PROVE  FALSE
    <2> DEFINE k == LastCluster + 1 - c
    <2>1. k \in 1 .. n - 1 /\ c + k = LastCluster + 1
      BY <1>2, <1>3
    <2>2. (LastCluster + 1) % (LastCluster + 1) = 0
      BY <1>2
    <2>3. fs.fat[0] = 0
      BY <1>1, <2>1, <2>2
    <2>4. fs.fat[LastCluster] = 0
      <3>1. CASE k = 1
        BY <1>1, <1>2, <3>1
      <3>2. CASE k # 1
        <4>1. k - 1 \in 1 .. n - 1 /\ c + (k - 1) = LastCluster
          BY <1>2, <2>1, <3>2
        <4>2. LastCluster % (LastCluster + 1) = LastCluster
          BY <1>2
        <4> QED
          BY <1>1, <4>1, <4>2
      <3> QED
        BY <3>1, <3>2
    <2> QED
      BY <2>3, <2>4 DEF RunsEnd
  <1>4. ASSUME NEW k \in 1 .. n - 1
        PROVE  c + k \in Clusters /\ fs.fat[c + k] = 0
    <2>1. c + k \in Nat /\ c + k >= 2 /\ c + k <= LastCluster
      BY <1>2, <1>3
    <2>2. (c + k) % (LastCluster + 1) = c + k
      BY <1>2, <2>1
    <2> QED
      BY <1>1, <2>1, <2>2, EntriesLemma
  <1> QED
    BY <1>1, <1>4 DEF FreeFrom

\* allocate_cluster: the first cluster is marked, with the rest of its run free.
LEMMA AllocateFirstStep ==
  ASSUME TypeInv, IInv, RunsEnd, AllocateFirst
  PROVE  IInv'
  <1>0. PICK c : c = FirstFree
    OBVIOUS
  <1>1. /\ pc = "first" /\ SearchEnds(cmd.n) /\ c # 0 /\ WriteFat(c, EndOfChain) /\ pc' = "link"
        /\ cmd' = [cmd EXCEPT !.cluster = c]
    BY <1>0 DEF AllocateFirst, GotoWith
  <1>2. /\ cmd'.cluster = c
        /\ cmd'.op = cmd.op /\ cmd'.n = cmd.n /\ cmd'.part = cmd.part /\ cmd'.entry = cmd.entry
    BY <1>1 DEF TypeInv, Commands
  <1>3. SafeInv /\ Clean /\ Growing
    BY <1>1, CleanGrows DEF IInv, SafeInv, QueueInv
  <1>4. cmd.op \in {"put", "mkdir"} /\ cmd.part = 0
    BY <1>1 DEF IInv, OpInv, At
  <1>5. cmd.n \in Nat \ {0} /\ (cmd.op = "mkdir" => cmd.n = 1)
    BY <1>4 DEF TypeInv
  <1>6. c \in Entries /\ fs.fat[c] = 0 /\ FreeFrom(c, cmd.n - 1)
    <2>1. fs.fat \in [Entries -> FatValues] /\ 0 \in Entries
      BY DiskLemma, EntriesLemma DEF TypeInv, TypeOK
    <2>2. CASE cmd.n = 1
      <3>1. c = FindFree(0)
        BY <1>0, <1>4, <2>2 DEF FirstFree, FindRun
      <3>2. c \in Entries /\ fs.fat[c] = 0
        BY <1>1, <2>1, <3>1, FindFreeLemma
      <3>3. FreeFrom(c, cmd.n - 1)
        BY <2>2 DEF FreeFrom
      <3> QED
        BY <3>2, <3>3
    <2>3. CASE cmd.n # 1
      <3>1. c = FindRun(cmd.n)
        BY <1>0, <1>4, <1>5, <2>3 DEF FirstFree
      <3>2. c \in Runs(cmd.n)
        BY <1>1, <1>5, <2>1, <2>3, <3>1, FindRunLemma
      <3> QED
        BY <1>3, <1>5, <3>2, RunLemma, EntriesLemma DEF SafeInv
    <2> QED
      BY <2>2, <2>3
  <1>7. c \in Clusters /\ c # layout.dir /\ Bare(fs, c) /\ Bare(card, c)
    BY <1>1, <1>3, <1>6, FreeLemma
  <1>8. /\ EndOfChain \in FatValues /\ EndOfChain \notin Clusters /\ EndOfChain # 0
        /\ EndOfChain # 1 /\ Clusters \subseteq Entries /\ 1 \notin Clusters
    BY EntriesLemma DEF EndOfChain
  <1>9. /\ DisksInv' /\ Covered' /\ layout' = layout
        /\ fs'.fat[c] = EndOfChain
        /\ \A b \in Entries : b # c => fs'.fat[b] = fs.fat[b]
        /\ \A t \in Entries : t # EndOfChain /\ Bare(fs, t) => Bare(fs', t)
        /\ \A t \in Clusters : t # EndOfChain /\ Bare(fs, t) /\ Bare(card, t) => Bare(card', t)
        /\ OnlyQueued(queue', FatSector(c))
        /\ Growing'
    BY <1>1, <1>3, <1>6, <1>7, <1>8, FatWrite DEF Fresh
  <1>10. QueueInv'
    BY <1>1, <1>2, <1>9 DEF QueueInv, FatSector, FatSectorNum
  <1>11. OpInv' /\ WipeInv' /\ FreeInv' /\ MoveInv'
    BY <1>1, <1>2, <1>4 DEF OpInv, WipeInv, FreeInv, MoveInv, At
  <1>12. NewCluster(c)'
    BY <1>7, <1>8, <1>9 DEF NewCluster
  <1>13. FreeFrom(c, cmd.n - 1)'
    <2> SUFFICES ASSUME NEW k \in 1 .. cmd.n - 1
                 PROVE  c + k \in Clusters /\ fs'.fat[c + k] = 0
      BY <1>2 DEF FreeFrom
    <2>1. c + k \in Clusters /\ fs.fat[c + k] = 0
      BY <1>6 DEF FreeFrom
    <2>2. c + k # c
      BY <1>5, <1>7, EntriesLemma
    <2> QED
      BY <1>8, <1>9, <2>1, <2>2
  <1>14. LinkInv'
    BY <1>1, <1>2, <1>12, <1>13 DEF LinkInv, NewCluster, FreeFrom
  <1>15. ExtendInv' /\ DataInv' /\ GrowInv' /\ ChainInv'
    BY <1>1 DEF ExtendInv, DataInv, GrowInv, ChainInv
  <1> QED
    BY <1>9, <1>10, <1>11, <1>14, <1>15 DEF IInv

\* write_cluster_number_into_direntry: the entry leads to it.  The queue holds no
\* sector but that of the FAT which marks it, so the entry is written later.
LEMMA LinkEntryStep ==
  ASSUME TypeInv, IInv, LinkEntry
  PROVE  IInv'
  <1>1. /\ pc = "link" /\ pc' = "data" /\ cmd' = cmd
        /\ WriteSlot(cmd.slot, [SlotAt(fs, cmd.slot) EXCEPT !.first = cmd.cluster])
    BY DEF LinkEntry, Goto
  <1>2. /\ SafeInv /\ Growing /\ NewCluster(cmd.cluster) /\ FreeFrom(cmd.cluster, cmd.n - 1)
        /\ OnlyQueued(queue, FatSector(cmd.cluster))
    BY <1>1 DEF IInv, SafeInv, QueueInv, LinkInv
  <1>3. cmd.op \in {"put", "mkdir"} /\ cmd.part = 0
    BY <1>1 DEF IInv, OpInv, At
  <1>4. cmd.n \in Nat \ {0} /\ cmd.slot \in Slots /\ cmd.cluster \in Entries
    BY <1>3, FieldsLemma DEF TypeInv
  <1>5. PICK s \in SlotValues : /\ WriteSlot(cmd.slot, s)
                                /\ s.state = "entry" => s.first = cmd.cluster
    <2>1. PICK old \in SlotValues : old = SlotAt(fs, cmd.slot)
      BY <1>4, SlotAtLemma DEF TypeInv, TypeOK
    <2>2. PICK c \in Entries : c = cmd.cluster
      BY <1>4
    <2>3. /\ [old EXCEPT !.first = c] \in SlotValues
          /\ [old EXCEPT !.first = c].state = old.state
          /\ old.state = "entry" => [old EXCEPT !.first = c].first = c
      BY FieldLemma, <1>4
    <2>4. WriteSlot(cmd.slot, [old EXCEPT !.first = c])
      BY <1>1, <2>1, <2>2
    <2> QED
      BY <2>2, <2>3, <2>4
  <1>6. EndOfChain # 0 /\ 1 \notin Clusters
    BY EntriesLemma DEF EndOfChain
  <1>7. /\ DisksInv' /\ Covered' /\ layout' = layout /\ fs'.fat = fs.fat /\ Growing'
    BY <1>2, <1>4, <1>5, <1>6, SlotWrite DEF NewCluster, Fresh
  <1>8. QueueInv'
    BY <1>1, <1>7 DEF QueueInv
  <1>9. OpInv' /\ WipeInv' /\ FreeInv' /\ MoveInv'
    BY <1>1, <1>3 DEF OpInv, WipeInv, FreeInv, MoveInv, At
  <1>10. DataInv'
    <2>1. cmd.n - cmd.part - 1 = cmd.n - 1 /\ cmd.part \in 0 .. cmd.n - 1
      BY <1>3, <1>4
    <2> QED
      BY <1>1, <1>2, <1>7, <2>1 DEF DataInv, NewCluster, FreeFrom
  <1>11. ExtendInv' /\ LinkInv' /\ GrowInv' /\ ChainInv'
    BY <1>1 DEF ExtendInv, LinkInv, GrowInv, ChainInv
  <1> QED
    BY <1>7, <1>8, <1>9, <1>10, <1>11 DEF IInv

\* A cluster of the file is written, and the next is the next of the run.
LEMMA WriteDataStep ==
  ASSUME TypeInv, IInv, WriteData
  PROVE  IInv'
  <1>0. PICK next : next = fs.fat[cmd.cluster]
    OBVIOUS
  <1>1. /\ pc = "data"
        /\ \/ cmd.part + 1 = cmd.n /\ pc' = "size" /\ cmd' = [cmd EXCEPT !.part = @ + 1]
           \/ /\ cmd.part + 1 # cmd.n /\ InChain(next) /\ pc' = "data"
              /\ cmd' = [[cmd EXCEPT !.part = @ + 1] EXCEPT !.cluster = next]
           \/ /\ cmd.part + 1 # cmd.n /\ ~InChain(next) /\ pc' = "grow"
              /\ cmd' = [cmd EXCEPT !.part = @ + 1]
    BY <1>0, PartLemma, FieldsLemma DEF WriteData, GotoWith, TypeInv
  <1>2. /\ cmd'.part = cmd.part + 1 /\ cmd'.op = cmd.op /\ cmd'.n = cmd.n /\ cmd'.entry = cmd.entry
        /\ pc' = "data" => cmd'.cluster = next
        /\ pc' # "data" => cmd'.cluster = cmd.cluster
    BY <1>1 DEF TypeInv, Commands
  <1>3. /\ SafeInv /\ Growing
        /\ cmd.cluster \in Clusters /\ cmd.part \in 0 .. cmd.n - 1
        /\ \/ fs.fat[cmd.cluster] = EndOfChain /\ FreeFrom(cmd.cluster, cmd.n - cmd.part - 1)
           \/ ChainedFrom(cmd.cluster, cmd.n - cmd.part - 1)
    BY <1>1 DEF IInv, SafeInv, QueueInv, DataInv
  <1>4. cmd.op \in {"put", "mkdir"}
    BY <1>1 DEF IInv, OpInv, At
  <1>5. PICK a \in Contents :
          /\ WriteArea(cmd.cluster, a)
          /\ a.kind = "dir" => \A i \in 1 .. SlotsPerCluster : a.slots[i].state # "entry"
    <2>1. /\ NewDirectory \in Contents
          /\ \A i \in 1 .. SlotsPerCluster : NewDirectory.slots[i].state # "entry"
      BY SlotValueLemma, ContentsLemma DEF NewDirectory, Directory, DirContents
    <2>2. cmd.op = "put" => /\ Data(cmd.id, cmd.part + 1) \in Contents
                            /\ Data(cmd.id, cmd.part + 1).kind # "dir"
      BY FieldsLemma, ContentsLemma DEF PlainContents, Data, TypeInv
    <2>3. WriteArea(cmd.cluster, IF cmd.op = "put" THEN Data(cmd.id, cmd.part + 1) ELSE NewDirectory)
      BY DEF WriteData
    <2> QED
      BY <2>1, <2>2, <2>3
  <1>6. cmd.n \in Nat /\ cmd.part \in Nat /\ Clusters \subseteq Entries
    BY FieldsLemma, EntriesLemma
  <1>7. DisksInv' /\ Covered' /\ layout' = layout /\ fs'.fat = fs.fat /\ Growing'
    BY <1>3, <1>5, <1>6, AreaWrite
  <1>8. QueueInv'
    BY <1>1, <1>7 DEF QueueInv
  <1>9. OpInv' /\ WipeInv' /\ FreeInv' /\ MoveInv'
    BY <1>1, <1>2, <1>4 DEF OpInv, WipeInv, FreeInv, MoveInv, At
  <1>10. ExtendInv' /\ LinkInv' /\ ChainInv'
    BY <1>1 DEF ExtendInv, LinkInv, ChainInv
  <1>11. cmd.part + 1 # cmd.n /\ ChainedFrom(cmd.cluster, cmd.n - cmd.part - 1) =>
           next = cmd.cluster + 1 /\ next \in Clusters
    <2> SUFFICES ASSUME cmd.part + 1 # cmd.n, ChainedFrom(cmd.cluster, cmd.n - cmd.part - 1)
                 PROVE  next = cmd.cluster + 1 /\ next \in Clusters
      OBVIOUS
    <2>1. 1 \in 1 .. cmd.n - cmd.part - 1 /\ cmd.cluster \in Nat
      BY <1>3, <1>6, EntriesLemma
    <2>2. cmd.cluster + 1 \in Clusters /\ fs.fat[cmd.cluster + 1 - 1] = cmd.cluster + 1
      BY <2>1 DEF ChainedFrom
    <2>3. cmd.cluster + 1 - 1 = cmd.cluster
      BY <2>1
    <2> QED
      BY <1>0, <2>2, <2>3
  <1>12. /\ ~InChain(EndOfChain)
         /\ \A c \in Clusters : InChain(c)
    BY EntriesLemma DEF InChain, EndOfChain
  <1>13. DataInv'
    <2> SUFFICES ASSUME pc' = "data"
                 PROVE  /\ next \in Clusters /\ cmd.part + 1 \in 0 .. cmd.n - 1
                        /\ \A k \in 1 .. cmd.n - (cmd.part + 1) - 1 :
                             next + k \in Clusters /\ fs.fat[next + k - 1] = next + k
      BY <1>2, <1>7 DEF DataInv, ChainedFrom
    <2>1. InChain(next) /\ cmd.part + 1 # cmd.n
      BY <1>1
    <2>2. ChainedFrom(cmd.cluster, cmd.n - cmd.part - 1)
      BY <1>0, <1>3, <1>12, <2>1
    <2>3. next = cmd.cluster + 1 /\ next \in Clusters /\ next \in Nat /\ cmd.cluster \in Nat
      BY <1>3, <1>11, <2>1, <2>2, EntriesLemma
    <2>4. cmd.part + 1 \in 0 .. cmd.n - 1
      BY <1>3, <1>6, <2>1
    <2>5. ASSUME NEW k \in 1 .. cmd.n - (cmd.part + 1) - 1
          PROVE  next + k \in Clusters /\ fs.fat[next + k - 1] = next + k
      <3>1. /\ k + 1 \in 1 .. cmd.n - cmd.part - 1
            /\ cmd.cluster + (k + 1) = next + k
            /\ cmd.cluster + (k + 1) - 1 = next + k - 1
        BY <1>6, <2>3
      <3>2. cmd.cluster + (k + 1) \in Clusters /\ fs.fat[cmd.cluster + (k + 1) - 1] = cmd.cluster + (k + 1)
        BY <2>2, <3>1 DEF ChainedFrom
      <3> QED
        BY <3>1, <3>2
    <2> QED
      BY <2>3, <2>4, <2>5
  <1>14. GrowInv'
    <2> SUFFICES ASSUME pc' = "grow"
                 PROVE  /\ cmd.part + 1 \in 1 .. cmd.n - 1
                        /\ fs.fat[cmd.cluster] = EndOfChain
                        /\ FreeFrom(cmd.cluster, cmd.n - (cmd.part + 1))
      BY <1>2, <1>3, <1>7 DEF GrowInv, FreeFrom
    <2>1. ~InChain(next) /\ cmd.part + 1 # cmd.n
      BY <1>1
    <2>2. fs.fat[cmd.cluster] = EndOfChain /\ FreeFrom(cmd.cluster, cmd.n - cmd.part - 1)
      BY <1>3, <1>11, <1>12, <2>1
    <2>3. cmd.n - cmd.part - 1 = cmd.n - (cmd.part + 1) /\ cmd.part + 1 \in 1 .. cmd.n - 1
      BY <1>3, <1>6, <2>1
    <2> QED
      BY <2>2, <2>3
  <1> QED
    BY <1>7, <1>8, <1>9, <1>10, <1>13, <1>14 DEF IInv

\* find_free_cluster finds the next of the run, which is marked ...
LEMMA GrowFileStep ==
  ASSUME TypeInv, IInv, GrowFile
  PROVE  IInv'
  <1>0. PICK next : next = FindFree(cmd.cluster)
    OBVIOUS
  <1>1. /\ pc = "grow" /\ WriteFat(next, EndOfChain) /\ pc' = "chain"
        /\ cmd' = [cmd EXCEPT !.next = next]
    BY <1>0 DEF GrowFile, GotoWith
  <1>2. /\ cmd'.cluster = cmd.cluster /\ cmd'.next = next
        /\ cmd'.op = cmd.op /\ cmd'.n = cmd.n /\ cmd'.part = cmd.part /\ cmd'.entry = cmd.entry
    BY <1>1 DEF TypeInv, Commands
  <1>3. /\ SafeInv /\ Growing
        /\ cmd.cluster \in Clusters /\ cmd.part \in 1 .. cmd.n - 1
        /\ fs.fat[cmd.cluster] = EndOfChain
        /\ FreeFrom(cmd.cluster, cmd.n - cmd.part)
    BY <1>1 DEF IInv, SafeInv, QueueInv, GrowInv
  <1>4. cmd.op \in {"put", "mkdir"}
    BY <1>1 DEF IInv, OpInv, At
  <1>5. cmd.n \in Nat /\ cmd.part \in Nat /\ cmd.cluster \in Nat /\ cmd.cluster >= 2
        /\ cmd.cluster \in Entries
    BY <1>3, FieldsLemma, EntriesLemma
  <1>6. /\ EndOfChain \in FatValues /\ EndOfChain \notin Clusters /\ EndOfChain # 0
        /\ EndOfChain # 1 /\ Clusters \subseteq Entries /\ 1 \notin Clusters
    BY EntriesLemma DEF EndOfChain
  <1>7. next = cmd.cluster + 1 /\ next \in Clusters /\ fs.fat[next] = 0
    <2>1. cmd.cluster + 1 \in Clusters /\ fs.fat[cmd.cluster + 1] = 0
      BY <1>3, <1>5 DEF FreeFrom
    <2>2. cmd.cluster + 1 \in cmd.cluster .. LastCluster
      BY <1>5, <2>1, EntriesLemma
    <2>3. fs.fat \in [Entries -> FatValues]
      BY DiskLemma DEF TypeInv, TypeOK
    <2>4. /\ next \in Entries /\ next # 0 /\ next <= cmd.cluster + 1
          /\ fs.fat[next] = 0 /\ next >= cmd.cluster
      BY <1>0, <1>5, <2>1, <2>2, <2>3, FindFreeLemma
    <2>5. next # cmd.cluster
      BY <1>3, <1>6, <2>4
    <2>6. next = cmd.cluster + 1
      BY <1>5, <2>4, <2>5, EntriesLemma
    <2> QED
      BY <2>1, <2>6
  <1>8. next \in Entries /\ next # layout.dir /\ Bare(fs, next) /\ Bare(card, next)
    BY <1>3, <1>5, <1>6, <1>7, FreeLemma
  <1>9. /\ DisksInv' /\ Covered' /\ layout' = layout
        /\ fs'.fat[next] = EndOfChain
        /\ \A b \in Entries : b # next => fs'.fat[b] = fs.fat[b]
        /\ \A t \in Entries : t # EndOfChain /\ Bare(fs, t) => Bare(fs', t)
        /\ \A t \in Clusters : t # EndOfChain /\ Bare(fs, t) /\ Bare(card, t) => Bare(card', t)
        /\ Growing'
    <2>1. next # 0 /\ next # 1
      BY <1>5, <1>7
    <2> QED
      BY <1>1, <1>3, <1>6, <1>8, <2>1, FatWrite DEF Fresh
  <1>10. QueueInv'
    BY <1>1, <1>9 DEF QueueInv
  <1>11. OpInv' /\ WipeInv' /\ FreeInv' /\ MoveInv'
    BY <1>1, <1>2, <1>4 DEF OpInv, WipeInv, FreeInv, MoveInv, At
  <1>12. ExtendInv' /\ LinkInv' /\ DataInv' /\ GrowInv'
    BY <1>1 DEF ExtendInv, LinkInv, DataInv, GrowInv
  <1>13. ASSUME NEW k \in 1 .. cmd.n - cmd.part - 1
         PROVE  next + k \in Clusters /\ fs'.fat[next + k] = 0
    <2>1. k + 1 \in 1 .. cmd.n - cmd.part /\ cmd.cluster + (k + 1) = next + k /\ next + k # next
      BY <1>5, <1>7
    <2>2. cmd.cluster + (k + 1) \in Clusters /\ fs.fat[cmd.cluster + (k + 1)] = 0
      BY <1>3, <2>1 DEF FreeFrom
    <2> QED
      BY <1>6, <1>9, <2>1, <2>2
  <1>14. fs'.fat[cmd.cluster] = EndOfChain
    <2>1. cmd.cluster # next
      BY <1>5, <1>7
    <2> QED
      BY <1>3, <1>5, <1>9, <2>1
  <1>15. ChainInv'
    BY <1>2, <1>3, <1>6, <1>7, <1>8, <1>9, <1>13, <1>14 DEF ChainInv, NewCluster, FreeFrom
  <1> QED
    BY <1>9, <1>10, <1>11, <1>12, <1>15 DEF IInv

\* ... and chained to the last.
LEMMA ChainFileStep ==
  ASSUME TypeInv, IInv, ChainFile
  PROVE  IInv'
  <1>1. /\ pc = "chain" /\ WriteFat(cmd.cluster, cmd.next)
        /\ cmd.next # 0 => pc' = "data" /\ cmd' = [cmd EXCEPT !.cluster = cmd.next]
    BY DEF ChainFile, GotoWith
  <1>2. /\ SafeInv /\ Growing
        /\ cmd.cluster \in Clusters /\ cmd.part \in 1 .. cmd.n - 1
        /\ fs.fat[cmd.cluster] = EndOfChain
        /\ NewCluster(cmd.next) /\ cmd.next = cmd.cluster + 1
        /\ FreeFrom(cmd.next, cmd.n - cmd.part - 1)
    BY <1>1 DEF IInv, SafeInv, QueueInv, ChainInv
  <1>3. cmd.op \in {"put", "mkdir"}
    BY <1>1 DEF IInv, OpInv, At
  <1>4. /\ Clusters \subseteq Entries /\ Entries \subseteq FatValues /\ 0 \notin Clusters
        /\ 1 \notin Clusters /\ EndOfChain # 0
        /\ cmd.cluster \in Nat /\ cmd.n \in Nat /\ cmd.part \in Nat
    BY <1>2, FieldsLemma, EntriesLemma DEF EndOfChain
  <1>5. cmd.next \in Clusters /\ cmd.next # cmd.cluster /\ fs.fat[cmd.next] = EndOfChain
    BY <1>2, <1>4 DEF NewCluster
  <1>6. /\ pc' = "data" /\ cmd'.cluster = cmd.next
        /\ cmd'.op = cmd.op /\ cmd'.n = cmd.n /\ cmd'.part = cmd.part /\ cmd'.entry = cmd.entry
    BY <1>1, <1>4, <1>5 DEF TypeInv, Commands
  <1>7. /\ DisksInv' /\ Covered' /\ layout' = layout
        /\ \A c \in Entries : c # cmd.cluster => fs'.fat[c] = fs.fat[c]
        /\ Growing'
    BY <1>1, <1>2, <1>4, <1>5, FatWrite DEF NewCluster, Fresh
  <1>8. QueueInv'
    BY <1>6, <1>7 DEF QueueInv
  <1>9. OpInv' /\ WipeInv' /\ FreeInv' /\ MoveInv'
    BY <1>3, <1>6 DEF OpInv, WipeInv, FreeInv, MoveInv, At
  <1>10. ExtendInv' /\ LinkInv' /\ GrowInv' /\ ChainInv'
    BY <1>6 DEF ExtendInv, LinkInv, GrowInv, ChainInv
  <1>11. ASSUME NEW k \in 1 .. cmd.n - cmd.part - 1
         PROVE  cmd.next + k \in Clusters /\ fs'.fat[cmd.next + k] = 0
    <2>1. cmd.next + k # cmd.cluster
      BY <1>2, <1>4
    <2> QED
      BY <1>2, <1>4, <1>7, <2>1 DEF FreeFrom
  <1>12. DataInv'
    <2>1. cmd.part \in 0 .. cmd.n - 1
      BY <1>2, <1>4
    <2> QED
      BY <1>4, <1>5, <1>6, <1>7, <1>11, <2>1 DEF DataInv, FreeFrom
  <1> QED
    BY <1>7, <1>8, <1>9, <1>10, <1>12 DEF IInv

\* The size changes no reference.
LEMMA WriteSizeStep ==
  ASSUME TypeInv, IInv, WriteSize
  PROVE  IInv'
  <1>1. pc = "size" /\ FlushFor("prompt")
    BY FlushThenLemma DEF WriteSize
  <1>2. SafeInv /\ Growing /\ cmd.slot \in Slots
    BY <1>1, FieldsLemma DEF IInv, SafeInv, QueueInv
  <1>3. cmd.slot.cluster \in Entries /\ cmd.slot.index \in Indexes \ {0} /\ Clusters \subseteq Entries
    BY <1>2, SizeAssumption, EntriesLemma DEF Slots, Indexes
  <1>4. PICK s \in SlotValues :
          /\ WriteSlot(cmd.slot, s)
          /\ s.state = "entry" => Leads(fs, cmd.slot.cluster, cmd.slot.index, s.first)
    <2>1. PICK old \in SlotValues : old = SlotAt(fs, cmd.slot)
      BY <1>2, SlotAtLemma DEF TypeInv, TypeOK
    <2>2. PICK size \in Nat : size = IF cmd.op = "put" THEN cmd.n ELSE 0
      BY FieldsLemma
    <2>3. /\ [old EXCEPT !.size = size] \in SlotValues
          /\ [old EXCEPT !.size = size].state = old.state
          /\ old.state = "entry" => [old EXCEPT !.size = size].first = old.first
      BY FieldLemma, EntriesLemma
    <2>4. WriteSlot(cmd.slot, [old EXCEPT !.size = size])
      BY <2>1, <2>2 DEF WriteSize
    <2>5. old.state = "entry" => Leads(fs, cmd.slot.cluster, cmd.slot.index, old.first)
      BY <1>3, <2>1, SlotValueLemma DEF SlotAt, Leads
    <2> QED
      BY <2>3, <2>4, <2>5
  <1>5. s.state = "entry" => s.first # 1 /\ (s.first \in Clusters => fs.fat[s.first] # 0)
    BY <1>2, <1>3, <1>4 DEF SafeInv, DisksInv, Sound, Numbers, UsedIn
  <1>6. DisksInv' /\ Covered' /\ layout' = layout /\ Growing'
    BY <1>2, <1>4, <1>5, SlotWrite
  <1>7. QueueInv'
    BY <1>1, <1>6 DEF QueueInv, FlushFor
  <1>8. OpInv' /\ WipeInv' /\ FreeInv' /\ MoveInv'
    BY <1>1 DEF OpInv, WipeInv, FreeInv, MoveInv, At, FlushFor
  <1>9. ExtendInv' /\ LinkInv' /\ DataInv' /\ GrowInv' /\ ChainInv'
    BY <1>1 DEF ExtendInv, LinkInv, DataInv, GrowInv, ChainInv, FlushFor
  <1> QED
    BY <1>6, <1>7, <1>8, <1>9 DEF IInv

\* rename_file_or_dir: the new entry leads to the clusters the old one has lost.
LEMMA RelinkStep ==
  ASSUME TypeInv, IInv, Relink
  PROVE  IInv'
  <1>1. pc = "relink" /\ FlushFor("prompt")
    BY FlushThenLemma DEF Relink
  <1>2. /\ SafeInv /\ Clean /\ cmd.slot \in Slots /\ cmd.op = "rename"
        /\ cmd.entry \in SlotEntries
    BY <1>1, FieldsLemma DEF IInv, SafeInv, QueueInv, TypeInv, RelinkInv
  <1>3. cmd.entry.first # 1 /\ Taken(cmd.entry.first)
    BY <1>1, <1>2 DEF IInv, MoveInv, At
  <1>4. PICK s \in SlotValues : /\ WriteSlot(cmd.slot, s)
                                /\ s.state = "entry" => s.first = cmd.entry.first
    <2>1. PICK old \in SlotValues : old = SlotAt(fs, cmd.slot)
      BY <1>2, SlotAtLemma DEF TypeInv, TypeOK
    <2>2. PICK c \in Entries : c = cmd.entry.first
      BY <1>2, SlotValueLemma
    <2>3. PICK size \in Nat : size = cmd.entry.size
      BY <1>2, SlotValueLemma
    <2>4. /\ [old EXCEPT !.first = c, !.size = size] \in SlotValues
          /\ [old EXCEPT !.first = c, !.size = size].state = old.state
          /\ old.state = "entry" => [old EXCEPT !.first = c, !.size = size].first = c
      BY FieldLemma
    <2>5. WriteSlot(cmd.slot, [old EXCEPT !.first = c, !.size = size])
      BY <2>1, <2>2, <2>3 DEF Relink
    <2> QED
      BY <2>2, <2>4, <2>5
  <1>5. Fresh(cmd.entry.first) /\ (cmd.entry.first \in Clusters => fs.fat[cmd.entry.first] # 0)
    BY <1>2, <1>3 DEF Fresh, Taken, Clean
  <1>6. DisksInv' /\ Covered' /\ layout' = layout /\ Len(queue') <= 1
    BY <1>2, <1>3, <1>4, <1>5, SlotWrite
  <1>7. QueueInv'
    BY <1>1, <1>6 DEF QueueInv, FlushFor
  <1>8. OpInv' /\ WipeInv' /\ FreeInv' /\ MoveInv'
    BY <1>1 DEF OpInv, WipeInv, FreeInv, MoveInv, At, FlushFor
  <1>9. ExtendInv' /\ LinkInv' /\ DataInv' /\ GrowInv' /\ ChainInv'
    BY <1>1 DEF ExtendInv, LinkInv, DataInv, GrowInv, ChainInv, FlushFor
  <1> QED
    BY <1>6, <1>7, <1>8, <1>9 DEF IInv

\* The initial card is in order.
LEMMA InitInv ==
  ASSUME Init
  PROVE  IInv
  <1>1. /\ fs \in Disks /\ card = fs /\ queue = <<>> /\ pc = "prompt" /\ cmd = NoCommand
        /\ layout.dir \in Clusters
    BY InitTypes, NumberTypes DEF Init, TypeInv, TypeOK
  <1>2. /\ 0 \in Entries /\ 1 \in Entries /\ Clusters \subseteq Entries /\ EndOfChain \notin Clusters
        /\ 0 \notin Clusters /\ EndOfChain # 0 /\ EndOfChain # 1
    BY EntriesLemma DEF EndOfChain
  <1>3. \A c \in Entries : /\ fs.fat[c] \in {0, EndOfChain}
                           /\ c \in {0, 1, layout.dir} => fs.fat[c] = EndOfChain
    BY DEF Init
  <1>4. \A c \in Entries, i \in 1 .. SlotsPerCluster :
          fs.area[c].kind = "dir" => fs.area[c].slots[i].state # "entry"
    BY SlotValueLemma DEF Init, Directory, Blank
  <1>5. \A t \in Entries, c \in Entries, i \in Indexes :
          Leads(fs, c, i, t) => i = 0 /\ t = 0
    <2> SUFFICES ASSUME NEW t \in Entries, NEW c \in Entries, NEW i \in Indexes, Leads(fs, c, i, t)
                 PROVE  i = 0 /\ t = 0
      OBVIOUS
    <2>1. CASE i = 0
      BY <1>3, <2>1, EntriesLemma DEF Leads
    <2>2. CASE i # 0
      BY <1>4, <2>2, SizeAssumption DEF Leads, Indexes
    <2> QED
      BY <2>1, <2>2
  <1>6. Sound(fs, layout.dir)
    <2>1. Numbers(fs)
      BY <1>2, <1>3, <1>5 DEF Numbers
    <2>2. UsedIn(fs)
      BY <1>2, <1>5 DEF UsedIn
    <2>3. fs.fat[layout.dir] # 0 /\ Bare(fs, layout.dir)
      BY <1>1, <1>2, <1>3, <1>5 DEF Bare
    <2> QED
      BY <2>1, <2>2, <2>3 DEF Sound
  <1>7. Apart(fs, fs)
    BY <1>2, <1>5 DEF Apart
  <1>8. DisksInv /\ Covered /\ Clean
    BY <1>1, <1>6, <1>7 DEF DisksInv, Covered, Clean
  <1>9. QueueInv
    BY <1>1, <1>8 DEF QueueInv
  <1>10. OpInv /\ WipeInv /\ FreeInv /\ MoveInv
    BY <1>1 DEF OpInv, WipeInv, FreeInv, MoveInv, At
  <1>11. ExtendInv /\ LinkInv /\ DataInv /\ GrowInv /\ ChainInv
    BY <1>1 DEF ExtendInv, LinkInv, DataInv, GrowInv, ChainInv
  <1> QED
    BY <1>8, <1>9, <1>10, <1>11 DEF IInv

\* Every step keeps the inductive invariant, where there is room.
LEMMA NextStep ==
  ASSUME TypeInv, IInv, Room, Next
  PROVE  IInv'
  <1>1. CASE Command
    BY <1>1, CommandStep
  <1>2. CASE Step
    BY <1>2, WipeStep, FreeNextStep, CreateEntryStep, ExtendDirStep, ChainDirStep,
       ClearClusterStep, AllocateFirstStep, NoFreeClusterStep, LinkEntryStep, WriteDataStep,
       GrowFileStep, ChainFileStep, WriteSizeStep, RelinkStep, FlushStep DEF Step, Room
  <1>3. CASE Crash
    BY <1>3, CrashStep DEF Room
  <1> QED
    BY <1>1, <1>2, <1>3 DEF Next

\* So does a step that changes nothing.
LEMMA UnchangedStep ==
  ASSUME IInv, UNCHANGED vars
  PROVE  IInv'
  <1>1. /\ fs' = fs /\ card' = card /\ queue' = queue /\ layout' = layout
        /\ pc' = pc /\ cmd' = cmd
    BY DEF vars
  <1>2. DisksInv' /\ Covered'
    BY <1>1, Unchanged
  <1>3. QueueInv'
    BY <1>1, Unchanged DEF IInv, QueueInv, FatSector, FatSectorNum
  <1>4. OpInv' /\ WipeInv'
    BY <1>1 DEF IInv, OpInv, WipeInv, At
  <1>5. FreeInv' /\ MoveInv'
    BY <1>1 DEF IInv, FreeInv, MoveInv, At, Taken
  <1>6. ExtendInv' /\ LinkInv'
    BY <1>1 DEF IInv, ExtendInv, LinkInv, NewCluster, FreeFrom
  <1>7. DataInv' /\ GrowInv' /\ ChainInv'
    BY <1>1 DEF IInv, DataInv, GrowInv, ChainInv, NewCluster, FreeFrom, ChainedFrom
  <1> QED
    BY <1>2, <1>3, <1>4, <1>5, <1>6, <1>7 DEF IInv

\* NoCrossLinks speaks of the same references, with names for their places.
LEMMA CrossLinksLemma ==
  ASSUME layout.dir \in Clusters, DisksInv
  PROVE  NoCrossLinks
  <1> SUFFICES ASSUME NEW d \in {fs, card}
               PROVE  LET references == {r \in References(d) : r.to \in Clusters} IN
                      /\ \A r, q \in references : r.to = q.to => r = q
                      /\ \A r \in references : d.fat[r.to] # 0
    BY DEF NoCrossLinks
  <1>1. Sound(d, layout.dir) /\ Apart(d, d)
    BY DEF DisksInv
  <1>2. Clusters \subseteq Entries /\ 0 \in Indexes
    BY EntriesLemma, SizeAssumption DEF Indexes
  <1> DEFINE dirs == {c \in Entries : d.area[c].kind = "dir"}
             used == {p \in [cluster : dirs, index : 1 .. SlotsPerCluster] :
                        SlotAt(d, p).state = "entry"}
             ByEntry == {[by |-> <<"entry", p>>, to |-> SlotAt(d, p).first] : p \in used}
             ByLink == {[by |-> <<"fat", c>>, to |-> d.fat[c]] : c \in Clusters}
             ByRoot == {[by |-> <<"parent">>, to |-> layout.dir]}
  <1>3. References(d) = ByEntry \cup ByLink \cup ByRoot
    BY DEF References
  <1>4. ASSUME NEW r \in ByEntry
        PROVE  \E p \in used : /\ r = [by |-> <<"entry", p>>, to |-> r.to]
                               /\ p.cluster \in Entries /\ p.index \in Indexes \ {0}
                               /\ p = [cluster |-> p.cluster, index |-> p.index]
                               /\ Leads(d, p.cluster, p.index, r.to)
    <2>1. PICK p \in used : r = [by |-> <<"entry", p>>, to |-> SlotAt(d, p).first]
      BY <1>4
    <2>2. /\ p.cluster \in Entries /\ p.index \in 1 .. SlotsPerCluster
          /\ p = [cluster |-> p.cluster, index |-> p.index]
          /\ d.area[p.cluster].kind = "dir" /\ SlotAt(d, p).state = "entry"
      OBVIOUS
    <2>3. p.index \in Indexes \ {0} /\ p.index # 0
      BY <2>2, SizeAssumption DEF Indexes
    <2>4. Leads(d, p.cluster, p.index, SlotAt(d, p).first)
      BY <2>2, <2>3 DEF Leads, SlotAt
    <2>5. r.to = SlotAt(d, p).first
      BY <2>1
    <2> HIDE DEF used
    <2> QED
      BY <2>1, <2>2, <2>3, <2>4, <2>5
  <1>5. ASSUME NEW r \in ByLink
        PROVE  \E c \in Clusters : /\ r = [by |-> <<"fat", c>>, to |-> r.to]
                                   /\ Leads(d, c, 0, r.to)
    BY DEF Leads
  <1>6. ASSUME NEW r \in ByRoot
        PROVE  r = [by |-> <<"parent">>, to |-> layout.dir] /\ r.to = layout.dir
    OBVIOUS
  <1> HIDE DEF ByEntry, ByLink, ByRoot, used
  <1>7. ASSUME NEW r \in References(d), r.to \in Clusters
        PROVE  \/ r.to = layout.dir /\ r \in ByRoot
               \/ \E c \in Entries, i \in Indexes : Leads(d, c, i, r.to)
    BY <1>2, <1>3, <1>4, <1>5, <1>6
  <1>8. ASSUME NEW r \in References(d), r.to \in Clusters
        PROVE  d.fat[r.to] # 0
    BY <1>1, <1>7, <1>8 DEF Sound, UsedIn
  <1>9. ASSUME NEW r \in References(d), NEW q \in References(d), r.to \in Clusters, r.to = q.to
        PROVE  r = q
    <2>1. CASE r \in ByRoot \/ q \in ByRoot
      <3>1. r.to = layout.dir
        BY <1>6, <1>9, <2>1
      <3>2. r \in ByRoot /\ q \in ByRoot
        BY <1>1, <1>7, <1>9, <3>1 DEF Sound, Bare
      <3> QED
        BY <1>6, <3>2
    <2>2. CASE r \in ByEntry /\ q \in ByEntry
      <3>1. PICK p \in used : /\ r = [by |-> <<"entry", p>>, to |-> r.to]
                              /\ p.cluster \in Entries /\ p.index \in Indexes \ {0}
                              /\ p = [cluster |-> p.cluster, index |-> p.index]
                              /\ Leads(d, p.cluster, p.index, r.to)
        BY <1>4, <2>2
      <3>2. PICK o \in used : /\ q = [by |-> <<"entry", o>>, to |-> q.to]
                              /\ o.cluster \in Entries /\ o.index \in Indexes \ {0}
                              /\ o = [cluster |-> o.cluster, index |-> o.index]
                              /\ Leads(d, o.cluster, o.index, q.to)
        BY <1>4, <2>2
      <3>3. p.cluster = o.cluster /\ p.index = o.index
        BY <1>1, <1>9, <3>1, <3>2 DEF Apart
      <3>4. p = o
        BY <3>1, <3>2, <3>3
      <3> QED
        BY <1>9, <3>1, <3>2, <3>4
    <2>3. CASE r \in ByLink /\ q \in ByLink
      <3>1. PICK c \in Clusters : r = [by |-> <<"fat", c>>, to |-> r.to] /\ Leads(d, c, 0, r.to)
        BY <1>5, <2>3
      <3>2. PICK b \in Clusters : q = [by |-> <<"fat", b>>, to |-> q.to] /\ Leads(d, b, 0, q.to)
        BY <1>5, <2>3
      <3>3. b = c
        BY <1>1, <1>2, <1>9, <3>1, <3>2 DEF Apart
      <3> QED
        BY <1>9, <3>1, <3>2, <3>3
    <2>4. ASSUME NEW x \in ByEntry, NEW y \in ByLink, x.to \in Clusters, x.to = y.to
          PROVE  FALSE
      <3>1. PICK c \in Entries, i \in Indexes \ {0} : Leads(d, c, i, x.to)
        BY <1>4
      <3>2. PICK b \in Clusters : Leads(d, b, 0, y.to)
        BY <1>5
      <3> QED
        BY <1>1, <1>2, <2>4, <3>1, <3>2 DEF Apart
    <2> QED
      BY <1>3, <1>9, <2>1, <2>2, <2>3, <2>4
  <1> QED
    BY <1>8, <1>9

\* put, delete, rename and mkdir never let two files or directories share a
\* cluster, and never leave one that is in use marked as free, on the card or in
\* the program, wherever a crash stops a flush: on every card, with any number of
\* commands, as long as the commands find the room they take for granted.
THEOREM NoCrossLinksTheorem == Spec /\ []Room => []NoCrossLinks
  <1>1. Init => TypeInv /\ IInv
    BY InitTypes, InitInv
  <1>2. TypeInv /\ [Next]_vars => TypeInv'
    BY TypeNext
  <1>3. TypeInv /\ IInv /\ Room /\ [Next]_vars => IInv'
    BY NextStep, UnchangedStep
  <1>4. TypeInv /\ IInv => NoCrossLinks
    BY CrossLinksLemma, NumberTypes DEF IInv, TypeInv
  <1> QED
    BY <1>1, <1>2, <1>3, <1>4, PTL DEF Spec

=============================================================================
