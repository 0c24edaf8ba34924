--------------------------- MODULE FatFilesProofs ---------------------------
(***************************************************************************)
(* What the FAT32 code of mega65_ftp has put on the card stays there: for  *)
(* every card, any number of commands and a crash at any point.            *)
(*                                                                         *)
(* The proof goes by chains.  The files that finished commands left behind *)
(* are the chains of their entries.  Two references never lead to the same *)
(* cluster (module FatFsProofs), so these chains are apart from each       *)
(* other, from the directory and from all that is free; a command writes   *)
(* only there and to the file it is at work on.  Both disks have the same  *)
(* entries and chains for the others, so every mixture of the two that a   *)
(* crash may leave has them, too.                                          *)
(*                                                                         *)
(* The last part turns the question round: without a crash every cluster   *)
(* in use is led to, or at hand of the command at work.                    *)
(***************************************************************************)
EXTENDS FatFsProofs, FiniteSetTheorems

-----------------------------------------------------------------------------
(* Chains of clusters *)

\* One step along a chain.
After(fat, s) == IF InChain(fat[Last(s)]) THEN Append(s, fat[Last(s)]) ELSE s

\* The path from cluster c in S: as many steps as the FAT has entries.
IsPath(f, fat, c, S) ==
  /\ f \in [Entries -> Seq(S)]
  /\ f[0] = <<c>>
  /\ \A n \in 1 .. LastCluster : f[n] = After(fat, f[n - 1])
  /\ \A n \in Entries : Len(f[n]) \in Nat \ {0} /\ f[n][1] = c /\ Linked(fat, f[n])
  /\ Chain(fat, c) = f[LastCluster]

\* A chain is reached by a path that stays within every set that is closed under the
\* links.
LEMMA PathLemma ==
  ASSUME NEW fat, NEW S, NEW c \in S, Closed(fat, S)
  PROVE  \E f : IsPath(f, fat, c, S)
  <1> DEFINE V == {s \in Seq(S) : Len(s) # 0 /\ s[1] = c /\ Linked(fat, s)}
             g == [s \in V |-> After(fat, s)]
             path == CHOOSE f : f = [n \in Entries |-> IF n = 0 THEN <<c>> ELSE After(fat, f[n - 1])]
  <1>1. <<c>> \in V
    <2>1. <<c>> \in Seq(S) /\ Len(<<c>>) = 1 /\ <<c>>[1] = c
      OBVIOUS
    <2>2. Linked(fat, <<c>>)
      BY <2>1 DEF Linked
    <2> QED
      BY <2>1, <2>2
  <1>2. ASSUME NEW s \in V
        PROVE  After(fat, s) \in V
    <2>1. s \in Seq(S) /\ Len(s) \in Nat /\ Len(s) # 0 /\ s[1] = c /\ Linked(fat, s)
      OBVIOUS
    <2>2. CASE InChain(fat[Last(s)])
      <3>1. Last(s) \in S /\ Last(s) = s[Len(s)]
        BY <2>1 DEF Last
      <3>2. fat[Last(s)] \in S
        BY <2>2, <3>1 DEF Closed
      <3> DEFINE t == Append(s, fat[Last(s)])
      <3>3. /\ t \in Seq(S) /\ Len(t) = Len(s) + 1 /\ t[Len(s) + 1] = fat[Last(s)]
            /\ \A i \in 1 .. Len(s) : t[i] = s[i]
        BY <2>1, <3>2
      <3> HIDE DEF t
      <3>4. Linked(fat, t)
        <4> SUFFICES ASSUME NEW i \in 1 .. Len(t) - 1
                     PROVE  fat[t[i]] = t[i + 1] /\ InChain(t[i + 1])
          BY DEF Linked
        <4>1. CASE i = Len(s)
          BY <2>1, <2>2, <3>1, <3>3, <4>1
        <4>2. CASE i # Len(s)
          <5>1. i \in 1 .. Len(s) - 1 /\ i \in 1 .. Len(s) /\ i + 1 \in 1 .. Len(s)
            BY <2>1, <3>3, <4>2
          <5> QED
            BY <2>1, <3>3, <5>1 DEF Linked
        <4> QED
          BY <4>1, <4>2
      <3>5. t[1] = c /\ Len(t) # 0
        BY <2>1, <3>3
      <3>6. After(fat, s) = t
        BY <2>2 DEF t, After
      <3> QED
        BY <3>3, <3>4, <3>5, <3>6
    <2>3. CASE ~InChain(fat[Last(s)])
      BY <2>3 DEF After
    <2> QED
      BY <2>2, <2>3
  <1> HIDE DEF V
  <1>3. g \in [V -> V]
    BY <1>2
  <1>4. LastCluster \in Nat /\ Entries = 0 .. LastCluster
    BY SizeAssumption DEF Entries
  <1>5. PICK f \in [Entries -> V] :
          f[0] = <<c>> /\ \A i \in 1 .. LastCluster : f[i] = g[f[i - 1]]
    <2> HIDE DEF g
    <2>0. LastCluster \in Nat
      BY <1>4
    <2>1. \E f \in [0 .. LastCluster -> V] : IsIteration(f, LastCluster, <<c>>, g)
      BY <1>1, <1>3, <2>0, RecursionLemma
    <2> QED
      BY <1>4, <2>1 DEF IsIteration
  <1>6. f = [n \in Entries |-> IF n = 0 THEN <<c>> ELSE After(fat, f[n - 1])]
    <2>1. \A n \in Entries : f[n] = IF n = 0 THEN <<c>> ELSE After(fat, f[n - 1])
      <3> SUFFICES ASSUME NEW n \in Entries, n # 0
                   PROVE  f[n] = After(fat, f[n - 1])
        BY <1>5
      <3>1. n \in 1 .. LastCluster /\ n - 1 \in Entries
        BY <1>4
      <3> QED
        BY <1>5, <3>1
    <2> HIDE DEF g
    <2> QED
      BY <1>5, <2>1
  <1>7. path = [n \in Entries |-> IF n = 0 THEN <<c>> ELSE After(fat, path[n - 1])]
    BY <1>6
  <1>7a. Chain(fat, c) = path[LastCluster]
    BY DEF Chain, path, After
  <1> HIDE DEF path
  <1> DEFINE T == {n \in Entries : path[n] \in V}
  <1>8. 0 \in T
    BY <1>1, <1>4, <1>7
  <1>8a. \A n \in 1 .. LastCluster : path[n] = After(fat, path[n - 1])
    BY <1>4, <1>7
  <1>9. ASSUME NEW n \in 0 .. LastCluster - 1, n \in T
        PROVE  n + 1 \in T
    <2>1. n + 1 \in 1 .. LastCluster /\ n + 1 \in Entries /\ n + 1 - 1 = n
      BY <1>4
    <2>2. path[n + 1] = After(fat, path[n])
      BY <1>8a, <2>1
    <2> QED
      BY <1>2, <1>9, <2>1, <2>2
  <1>10. Entries \subseteq T
    <2> HIDE DEF T
    <2> QED
      BY <1>4, <1>8, <1>9, UpTo
  <1>11. \A n \in Entries : path[n] \in V
    BY <1>10
  <1>12. path \in [Entries -> Seq(S)] /\ path[0] = <<c>>
    BY <1>4, <1>7, <1>11 DEF V
  <1>13. \A n \in Entries : Len(path[n]) \in Nat \ {0} /\ path[n][1] = c /\ Linked(fat, path[n])
    BY <1>11 DEF V
  <1>14. IsPath(path, fat, c, S)
    BY <1>7a, <1>8a, <1>12, <1>13 DEF IsPath
  <1> QED
    BY <1>14

\* A chain depends on the clusters it visits only.
LEMMA SameChainLemma ==
  ASSUME NEW fat, NEW gat, NEW S, NEW c \in S, Closed(fat, S), \A x \in S : gat[x] = fat[x]
  PROVE  Chain(gat, c) = Chain(fat, c)
  <1>1. Closed(gat, S)
    BY DEF Closed
  <1>2. PICK f : IsPath(f, fat, c, S)
    BY PathLemma
  <1>3. PICK g : IsPath(g, gat, c, S)
    BY <1>1, PathLemma
  <1>4. LastCluster \in Nat /\ Entries = 0 .. LastCluster
    BY SizeAssumption DEF Entries
  <1> DEFINE T == {n \in Entries : f[n] = g[n]}
  <1>5. 0 \in T
    <2>1. f[0] = <<c>> /\ g[0] = <<c>>
      BY <1>2, <1>3 DEF IsPath
    <2>2. 0 \in Entries
      BY <1>4
    <2> QED
      BY <2>1, <2>2
  <1>6. ASSUME NEW n \in 0 .. LastCluster - 1, n \in T
        PROVE  n + 1 \in T
    <2>1. n \in Entries /\ n + 1 \in Entries /\ n + 1 \in 1 .. LastCluster /\ n + 1 - 1 = n
      BY <1>4
    <2>2. f[n] = g[n] /\ f[n] \in Seq(S) /\ Len(f[n]) \in Nat \ {0}
      BY <1>2, <1>6, <2>1 DEF IsPath
    <2>3. Last(f[n]) \in S
      BY <2>2 DEF Last
    <2>4. f[n + 1] = After(fat, f[n]) /\ g[n + 1] = After(gat, g[n])
      BY <1>2, <1>3, <2>1 DEF IsPath
    <2>5. After(fat, f[n]) = After(gat, g[n])
      BY <2>2, <2>3 DEF After
    <2> QED
      BY <2>1, <2>4, <2>5
  <1>7. LastCluster \in T
    <2>1. 0 .. LastCluster \subseteq T
      <3> HIDE DEF T
      <3> QED
        BY <1>4, <1>5, <1>6, UpTo
    <2> QED
      BY <1>4, <2>1
  <1> QED
    BY <1>2, <1>3, <1>7 DEF IsPath

\* The FAT is a forest around c: links lead to clusters, two of them never to the
\* same, and none to c.
Rooted(fat, c) ==
  /\ c \in Clusters
  /\ \A x \in Clusters : fat[x] \in FatValues /\ fat[x] # 1 /\ fat[x] # c
  /\ \A x, y \in Clusters : fat[x] = fat[y] /\ fat[x] \in Clusters => x = y

\* A link leads to a cluster, or it is the mark of a free one or of an end.
LEMMA LinkValues ==
  ASSUME NEW v \in FatValues, v # 1
  PROVE  /\ InChain(v) <=> v \in Clusters
         /\ ~InChain(v) <=> v = 0 \/ v = EndOfChain
  BY EntriesLemma DEF InChain, EndOfChain, Clusters

\* A chain that nothing leads back into visits no cluster twice.
LEMMA InjectiveLemma ==
  ASSUME NEW fat, NEW c, Rooted(fat, c), NEW s \in Seq(Clusters), Len(s) \in Nat \ {0}, s[1] = c, Linked(fat, s)
  PROVE  IsInjective(s)
  <1> SUFFICES ASSUME NEW i \in 1 .. Len(s), NEW j \in 1 .. Len(s), i < j, s[i] = s[j]
               PROVE  FALSE
    BY DEF IsInjective
  <1>0. \A k \in 1 .. Len(s) : s[k] \in Clusters
    OBVIOUS
  <1>0a. \A k \in 2 .. Len(s) : fat[s[k - 1]] = s[k]
    <2> SUFFICES ASSUME NEW k \in 2 .. Len(s)
                 PROVE  fat[s[k - 1]] = s[k]
      OBVIOUS
    <2>1. k - 1 \in 1 .. Len(s) - 1 /\ k - 1 + 1 = k
      OBVIOUS
    <2> QED
      BY <2>1 DEF Linked
  <1> DEFINE T == {k \in 0 .. i - 1 : s[i - k] = s[j - k]}
  <1>1. 0 \in T
    OBVIOUS
  <1>2. ASSUME NEW k \in 0 .. i - 1 - 1, k \in T
        PROVE  k + 1 \in T
    <2>1. /\ i - k \in 2 .. Len(s) /\ j - k \in 2 .. Len(s)
          /\ i - (k + 1) = i - k - 1 /\ j - (k + 1) = j - k - 1
          /\ i - k - 1 \in 1 .. Len(s) /\ j - k - 1 \in 1 .. Len(s) /\ k + 1 \in 0 .. i - 1
      OBVIOUS
    <2>2. s[i - k] = s[j - k]
      BY <1>2
    <2>3. fat[s[i - k - 1]] = s[i - k] /\ fat[s[j - k - 1]] = s[j - k]
      BY <1>0a, <2>1
    <2>4. s[i - k - 1] = s[j - k - 1]
      BY <1>0, <2>1, <2>2, <2>3 DEF Rooted
    <2> QED
      BY <2>1, <2>4
  <1>3. i - 1 \in T
    <2>1. i - 1 \in Nat /\ i - 1 \in 0 .. i - 1
      OBVIOUS
    <2>2. 0 .. i - 1 \subseteq T
      <3> HIDE DEF T
      <3> QED
        BY <1>1, <1>2, <2>1, UpTo
    <2> QED
      BY <2>1, <2>2
  <1>4. s[1] = s[j - i + 1]
    <2>1. i - (i - 1) = 1 /\ j - (i - 1) = j - i + 1
      OBVIOUS
    <2> QED
      BY <1>3, <2>1
  <1>5. j - i + 1 \in 2 .. Len(s) /\ j - i + 1 - 1 \in 1 .. Len(s)
    OBVIOUS
  <1>6. fat[s[j - i + 1 - 1]] = s[j - i + 1]
    BY <1>0a, <1>5
  <1> QED
    BY <1>0, <1>4, <1>5, <1>6 DEF Rooted

\* Such a chain ends where the links do: it cannot be longer than the FAT.
LEMMA StopLemma ==
  ASSUME NEW fat, NEW c, Rooted(fat, c)
  PROVE  /\ Chain(fat, c) \in Seq(Clusters)
         /\ Len(Chain(fat, c)) \in Nat \ {0}
         /\ Chain(fat, c)[1] = c
         /\ Linked(fat, Chain(fat, c))
         /\ IsInjective(Chain(fat, c))
         /\ ~InChain(fat[Last(Chain(fat, c))])
  <1>1. Closed(fat, Clusters) /\ c \in Clusters
    BY LinkValues DEF Closed, Rooted
  <1>2. PICK f : IsPath(f, fat, c, Clusters)
    BY <1>1, PathLemma
  <1>3. LastCluster \in Nat /\ LastCluster >= 2 /\ Entries = 0 .. LastCluster /\ Clusters = 2 .. LastCluster
    BY EntriesLemma DEF Entries, Clusters
  <1>4. \A n \in Entries : IsInjective(f[n])
    BY <1>2, InjectiveLemma DEF IsPath
  <1>5. ASSUME InChain(fat[Last(f[LastCluster])])
        PROVE  FALSE
    <2> DEFINE T == {k \in 0 .. LastCluster : InChain(fat[Last(f[LastCluster - k])])}
               U == {n \in 0 .. LastCluster : Len(f[n]) = n + 1}
    <2>1. 0 \in T
      BY <1>3, <1>5
    <2>2. ASSUME NEW k \in 0 .. LastCluster - 1, k \in T
          PROVE  k + 1 \in T
      <3>1. /\ LastCluster - k \in 1 .. LastCluster /\ LastCluster - k - 1 = LastCluster - (k + 1)
            /\ k + 1 \in 0 .. LastCluster
        BY <1>3
      <3>2. f[LastCluster - k] = After(fat, f[LastCluster - (k + 1)])
        BY <1>2, <3>1 DEF IsPath
      <3>3. ~InChain(fat[Last(f[LastCluster - (k + 1)])]) => f[LastCluster - k] = f[LastCluster - (k + 1)]
        BY <3>2 DEF After
      <3> QED
        BY <2>2, <3>1, <3>3
    <2>3. 0 .. LastCluster \subseteq T
      <3> HIDE DEF T
      <3> QED
        BY <1>3, <2>1, <2>2, UpTo
    <2>4. ASSUME NEW n \in 0 .. LastCluster
          PROVE  InChain(fat[Last(f[n])])
      <3>1. LastCluster - n \in T
        BY <1>3, <2>3
      <3>2. LastCluster - (LastCluster - n) = n
        BY <1>3
      <3> QED
        BY <3>1, <3>2
    <2>5. 0 \in U
      <3>1. Len(f[0]) = 1
        BY <1>2 DEF IsPath
      <3> QED
        BY <1>3, <3>1
    <2>6. ASSUME NEW n \in 0 .. LastCluster - 1, n \in U
          PROVE  n + 1 \in U
      <3>1. n + 1 \in 1 .. LastCluster /\ n + 1 - 1 = n /\ n \in Entries /\ n + 1 \in 0 .. LastCluster
        BY <1>3
      <3>2. f[n + 1] = After(fat, f[n]) /\ f[n] \in Seq(Clusters)
        BY <1>2, <3>1 DEF IsPath
      <3>2a. InChain(fat[Last(f[n])])
        <4>1. n \in 0 .. LastCluster
          BY <1>3
        <4> QED
          BY <2>4, <4>1
      <3>3. f[n + 1] = Append(f[n], fat[Last(f[n])])
        BY <3>2, <3>2a DEF After
      <3>4. Len(f[n + 1]) = Len(f[n]) + 1
        BY <3>2, <3>3
      <3> QED
        BY <2>6, <3>1, <3>4
    <2>7. LastCluster \in U
      <3>1. 0 .. LastCluster \subseteq U
        <4> HIDE DEF U
        <4> QED
          BY <1>3, <2>5, <2>6, UpTo
      <3> QED
        BY <1>3, <3>1
    <2> DEFINE s == f[LastCluster]
    <2>8. Len(s) = LastCluster + 1 /\ s \in [1 .. LastCluster + 1 -> Clusters] /\ IsInjective(s)
      <3>1. s \in Seq(Clusters) /\ Len(s) = LastCluster + 1
        BY <1>2, <1>3, <2>7 DEF IsPath
      <3> QED
        BY <1>3, <1>4, <3>1
    <2> HIDE DEF s
    <2>9. /\ IsFiniteSet(1 .. LastCluster + 1) /\ Cardinality(1 .. LastCluster + 1) = LastCluster + 1
          /\ IsFiniteSet(2 .. LastCluster) /\ Cardinality(2 .. LastCluster) = LastCluster - 1
      <3>1. 1 \in Int /\ 2 \in Int /\ LastCluster + 1 \in Int /\ LastCluster \in Int
        BY <1>3
      <3>2. /\ IsFiniteSet(1 .. LastCluster + 1)
            /\ Cardinality(1 .. LastCluster + 1) = IF 1 > LastCluster + 1 THEN 0 ELSE LastCluster + 1 - 1 + 1
        BY <3>1, FS_Interval
      <3>3. /\ IsFiniteSet(2 .. LastCluster)
            /\ Cardinality(2 .. LastCluster) = IF 2 > LastCluster THEN 0 ELSE LastCluster - 2 + 1
        BY <3>1, FS_Interval
      <3> QED
        BY <1>3, <3>2, <3>3
    <2>10. \E i, j \in 1 .. LastCluster + 1 : i # j /\ s[i] = s[j]
      <3>1. LastCluster - 1 < LastCluster + 1
        BY <1>3
      <3>2. Cardinality(Clusters) < Cardinality(1 .. LastCluster + 1) /\ IsFiniteSet(Clusters)
        BY <1>3, <2>9, <3>1
      <3> QED
        BY <2>8, <2>9, <3>2, FS_PigeonHole
    <2>11. DOMAIN s = 1 .. LastCluster + 1
      BY <2>8
    <2> QED
      BY <2>8, <2>10, <2>11 DEF IsInjective
  <1>6. LastCluster \in Entries
    BY <1>3
  <1> QED
    BY <1>2, <1>4, <1>5, <1>6 DEF IsPath

\* The clusters of a chain.
Reach(fat, c) == ToSet(Chain(fat, c))

\* They are clusters, closed under the links, and all but the first are linked to.
LEMMA ReachLemma ==
  ASSUME NEW fat, NEW c, Rooted(fat, c)
  PROVE  /\ Reach(fat, c) \subseteq Clusters /\ c \in Reach(fat, c)
         /\ Closed(fat, Reach(fat, c))
         /\ \A x \in Reach(fat, c) : x = c \/ \E y \in Reach(fat, c) : fat[y] = x
  <1> DEFINE s == Chain(fat, c)
  <1>1. /\ s \in Seq(Clusters) /\ Len(s) \in Nat \ {0} /\ s[1] = c /\ Linked(fat, s)
        /\ ~InChain(fat[Last(s)])
    BY StopLemma
  <1> HIDE DEF s
  <1>2. Reach(fat, c) = {s[i] : i \in 1 .. Len(s)}
    BY <1>1 DEF Reach, ToSet, s
  <1>3. Reach(fat, c) \subseteq Clusters /\ c \in Reach(fat, c)
    BY <1>1, <1>2
  <1>4. ASSUME NEW x \in Reach(fat, c), InChain(fat[x])
        PROVE  fat[x] \in Reach(fat, c)
    <2>1. PICK i \in 1 .. Len(s) : s[i] = x
      BY <1>2
    <2>2. i # Len(s)
      BY <1>1, <1>4, <2>1 DEF Last
    <2>3. i \in 1 .. Len(s) - 1 /\ i + 1 \in 1 .. Len(s)
      BY <2>2
    <2>4. fat[x] = s[i + 1]
      BY <1>1, <2>1, <2>3 DEF Linked
    <2> QED
      BY <1>2, <2>3, <2>4
  <1>5. ASSUME NEW x \in Reach(fat, c), x # c
        PROVE  \E y \in Reach(fat, c) : fat[y] = x
    <2>1. PICK i \in 1 .. Len(s) : s[i] = x
      BY <1>2
    <2>2. i # 1
      BY <1>1, <1>5, <2>1
    <2>3. i - 1 \in 1 .. Len(s) - 1 /\ i - 1 + 1 = i /\ i - 1 \in 1 .. Len(s)
      BY <2>2
    <2>4. fat[s[i - 1]] = x
      BY <1>1, <2>1, <2>3 DEF Linked
    <2>5. s[i - 1] \in Reach(fat, c)
      BY <1>2, <2>3
    <2> QED
      BY <2>4, <2>5
  <1> QED
    BY <1>3, <1>4, <1>5 DEF Closed

\* A chain stays in every set that is closed under the links.
LEMMA LeastReach ==
  ASSUME NEW fat, NEW S, NEW c \in S, Closed(fat, S)
  PROVE  Reach(fat, c) \subseteq S /\ c \in Reach(fat, c)
  <1>1. Chain(fat, c) \in Seq(S) /\ Len(Chain(fat, c)) \in Nat \ {0} /\ Chain(fat, c)[1] = c
    BY ChainLemma
  <1> QED
    BY <1>1 DEF Reach, ToSet

\* The chains of two clusters to which no link leads are apart.
LEMMA DisjointLemma ==
  ASSUME NEW fat, NEW a, NEW b, Rooted(fat, a), Rooted(fat, b), a # b
  PROVE  Reach(fat, a) \cap Reach(fat, b) = {}
  <1> DEFINE S == Reach(fat, a) \ Reach(fat, b)
  <1>1. /\ Reach(fat, a) \subseteq Clusters /\ Closed(fat, Reach(fat, a)) /\ a \in Reach(fat, a)
        /\ Reach(fat, b) \subseteq Clusters
        /\ \A x \in Reach(fat, b) : x = b \/ \E y \in Reach(fat, b) : fat[y] = x
    BY ReachLemma
  <1>2. a \in S
    BY <1>1 DEF Rooted
  <1>3. Closed(fat, S)
    <2> SUFFICES ASSUME NEW x \in S, InChain(fat[x]), fat[x] \in Reach(fat, b)
                 PROVE  FALSE
      BY <1>1 DEF Closed
    <2>1. x \in Clusters /\ fat[x] \in Clusters /\ x \notin Reach(fat, b)
      BY <1>1
    <2>2. fat[x] # b
      BY <2>1 DEF Rooted
    <2>3. PICK y \in Reach(fat, b) : fat[y] = fat[x]
      BY <1>1, <2>2
    <2>4. y \in Clusters
      BY <1>1
    <2> QED
      BY <2>1, <2>3, <2>4 DEF Rooted
  <1>4. Reach(fat, a) \subseteq S
    BY <1>2, <1>3, LeastReach
  <1> QED
    BY <1>4

\* A row of clusters that ends the chain is the chain.
LEMMA RowChain ==
  ASSUME NEW fat, NEW c, Rooted(fat, c), NEW n \in Nat \ {0},
         NEW last \in Clusters, last = c + n - 1,
         \A k \in 1 .. n - 1 : fat[c + k - 1] = c + k,
         fat[last] = EndOfChain
  PROVE  /\ DOMAIN Chain(fat, c) = 1 .. n
         /\ \A k \in 1 .. n : Chain(fat, c)[k] = c + k - 1
         /\ Reach(fat, c) = c .. last
  <1> DEFINE s == Chain(fat, c)
             S == c .. last
  <1>1. /\ s \in Seq(Clusters) /\ Len(s) \in Nat \ {0} /\ s[1] = c /\ Linked(fat, s)
        /\ ~InChain(fat[Last(s)])
    BY StopLemma
  <1>2. c \in Nat /\ c \in Clusters /\ c >= 2
    BY EntriesLemma DEF Rooted
  <1>3. ASSUME NEW x \in S, x # last
        PROVE  fat[x] = x + 1 /\ x + 1 \in S
    <2>1. x - c + 1 \in 1 .. n - 1 /\ c + (x - c + 1) - 1 = x /\ c + (x - c + 1) = x + 1
      BY <1>2, <1>3
    <2> QED
      BY <1>2, <1>3, <2>1
  <1>4. Closed(fat, S)
    <2>1. ~InChain(fat[last])
      BY EntriesLemma DEF InChain, EndOfChain
    <2> QED
      BY <1>3, <2>1 DEF Closed
  <1>5. s \in Seq(S)
    <2>1. c \in S
      BY <1>2
    <2> QED
      BY <1>4, <2>1, ChainLemma
  <1> HIDE DEF s
  <1>5a. \A k \in 1 .. Len(s) : s[k] \in S
    <2> HIDE DEF S
    <2> QED
      BY <1>1, <1>5
  <1>6. \A k \in 2 .. Len(s) : s[k] = s[k - 1] + 1
    <2> SUFFICES ASSUME NEW k \in 2 .. Len(s)
                 PROVE  s[k] = s[k - 1] + 1
      OBVIOUS
    <2>1. k - 1 \in 1 .. Len(s) - 1 /\ k - 1 + 1 = k /\ k \in 1 .. Len(s) /\ k - 1 \in 1 .. Len(s)
      BY <1>1
    <2>2. fat[s[k - 1]] = s[k] /\ InChain(s[k])
      BY <1>1, <2>1 DEF Linked
    <2>3. s[k - 1] \in S
      BY <1>5a, <2>1
    <2>4. s[k - 1] # last
      BY <2>2, EntriesLemma DEF InChain, EndOfChain
    <2> QED
      BY <1>3, <2>2, <2>3, <2>4
  <1>7. \A k \in 1 .. Len(s) : s[k] = c + k - 1
    BY <1>1, <1>2, <1>6, RowLemma
  <1>8. Len(s) = n
    <2>1. Len(s) \in 1 .. Len(s) /\ Last(s) = s[Len(s)]
      BY <1>1 DEF Last
    <2>2. s[Len(s)] = c + Len(s) - 1 /\ s[Len(s)] \in S
      BY <1>5a, <1>7, <2>1
    <2>3. Len(s) <= n
      BY <1>1, <1>2, <2>2
    <2>4. ASSUME Len(s) # n
          PROVE  FALSE
      <3>1. fat[s[Len(s)]] = s[Len(s)] + 1 /\ s[Len(s)] + 1 \in S
        BY <1>1, <1>2, <1>3, <2>2, <2>4
      <3>2. s[Len(s)] + 1 > 0 /\ s[Len(s)] + 1 < EndOfChain
        BY <1>2, <3>1, EntriesLemma DEF EndOfChain
      <3> QED
        BY <1>1, <2>1, <3>1, <3>2 DEF InChain
    <2> QED
      BY <2>4
  <1>9. s = [k \in 1 .. n |-> c + k - 1]
    BY <1>1, <1>7, <1>8
  <1>10. {s[k] : k \in 1 .. n} = S
    <2>1. \A x \in S : x - c + 1 \in 1 .. n /\ s[x - c + 1] = x
      BY <1>2, <1>9
    <2>2. \A k \in 1 .. n : s[k] \in S
      BY <1>2, <1>9
    <2> QED
      BY <2>1, <2>2
  <1>11. Reach(fat, c) = {s[k] : k \in 1 .. n}
    BY <1>1, <1>8 DEF Reach, ToSet, s
  <1> QED
    BY <1>9, <1>10, <1>11 DEF s

\* Cluster c of a disk is the start of a chain: of a file, if a slot leads to it,
\* of one that was taken off its slot, or of the directory.
LEMMA RootedLemma ==
  ASSUME NEW d \in Disks, Apart(d, d), Numbers(d), NEW c \in Clusters,
         Bare(d, c) \/ \E b \in Entries, i \in Indexes \ {0} : Leads(d, b, i, c)
  PROVE  Rooted(d.fat, c)
  <1>1. 0 \in Indexes /\ Clusters \subseteq Entries
    BY EntriesLemma, SizeAssumption DEF Indexes
  <1>2. \A x \in Clusters : \A t : d.fat[x] = t => Leads(d, x, 0, t)
    BY DEF Leads
  <1>3. \A x \in Clusters : d.fat[x] \in FatValues /\ d.fat[x] # 1
    BY <1>1, DiskLemma DEF Numbers
  <1>4. \A x \in Clusters : d.fat[x] # c
    BY <1>1, <1>2 DEF Bare, Apart
  <1>5. \A x, y \in Clusters : d.fat[x] = d.fat[y] /\ d.fat[x] \in Clusters => x = y
    BY <1>1, <1>2 DEF Apart
  <1> QED
    BY <1>3, <1>4, <1>5 DEF Rooted

-----------------------------------------------------------------------------
(* Entries and what is stored there *)

\* The clusters of the directory.
Dir(d) == Reach(d.fat, layout.dir)

\* An entry in a slot, and one of a name.
EntryAt(d, p) == SlotAt(d, p).state = "entry"
Named(d, p, name) == EntryAt(d, p) /\ SlotAt(d, p).name = name
NoEntry(d, name) == \A p \in Slots : ~Named(d, p, name)

\* What is stored at an entry.
ContentsOf(d, e) ==
  LET chain == Chain(d.fat, e.first)
  IN  [isDir |-> e.isDir, size |-> e.size,
       content |-> [k \in DOMAIN chain |-> d.area[chain[k]]]]

\* A disk no two references of which lead to the same cluster.
Good(d) == d \in Disks /\ Sound(d, layout.dir) /\ Apart(d, d)

\* Both disks are such disks.
LEMMA GoodLemma ==
  ASSUME TypeInv, DisksInv
  PROVE  /\ Good(fs) /\ Good(card) /\ layout \in Layouts
         /\ layout.dir \in Clusters
  <1>1. layout \in Layouts /\ fs \in Disks /\ card \in Disks
    BY DEF TypeInv, TypeOK
  <1> QED
    BY <1>1, NumberTypes DEF DisksInv, Good

\* An entry refers to its first cluster.
LEMMA EntryLeads ==
  ASSUME NEW d, NEW p \in Slots, EntryAt(d, p)
  PROVE  /\ p.cluster \in Entries /\ p.index \in Indexes \ {0} /\ p.index \in 1 .. SlotsPerCluster
         /\ d.area[p.cluster].kind = "dir"
         /\ SlotAt(d, p) = d.area[p.cluster].slots[p.index]
         /\ Leads(d, p.cluster, p.index, SlotAt(d, p).first)
  <1>1. p.cluster \in Entries /\ p.index \in 1 .. SlotsPerCluster
    BY DEF Slots
  <1>2. p.index \in Indexes /\ p.index # 0
    BY <1>1, SizeAssumption DEF Indexes
  <1>3. d.area[p.cluster].kind = "dir"
    BY DEF EntryAt, SlotAt, WipedSlot
  <1> QED
    BY <1>1, <1>2, <1>3 DEF EntryAt, SlotAt, Leads

\* No two entries refer to the same cluster.
LEMMA FirstApart ==
  ASSUME NEW d, Apart(d, d), NEW p \in Slots, NEW q \in Slots, EntryAt(d, p), EntryAt(d, q),
         SlotAt(d, p).first = SlotAt(d, q).first, SlotAt(d, p).first \in Clusters
  PROVE  p = q
  <1>1. p.cluster = q.cluster /\ p.index = q.index
    BY EntryLeads DEF Apart
  <1> QED
    BY <1>1 DEF Slots

\* The starts of chains.
RootOf(d, r) ==
  /\ r \in Clusters
  /\ Bare(d, r) \/ \E p \in Slots : EntryAt(d, p) /\ SlotAt(d, p).first = r

\* The chain of a start visits clusters only.
LEMMA RootLemma ==
  ASSUME NEW d, Good(d), NEW r, RootOf(d, r)
  PROVE  /\ Rooted(d.fat, r)
         /\ Reach(d.fat, r) \subseteq Clusters /\ r \in Reach(d.fat, r)
         /\ Closed(d.fat, Reach(d.fat, r))
  <1>1. r \in Clusters /\ d \in Disks /\ Apart(d, d) /\ Numbers(d)
    BY DEF Good, Sound, RootOf
  <1>2. Bare(d, r) \/ \E b \in Entries, i \in Indexes \ {0} : Leads(d, b, i, r)
    BY EntryLeads DEF RootOf
  <1>3. Rooted(d.fat, r)
    BY <1>1, <1>2, RootedLemma
  <1> QED
    BY <1>3, ReachLemma

\* The directory is such a chain.
LEMMA DirLemma ==
  ASSUME NEW d, Good(d), layout.dir \in Clusters
  PROVE  /\ RootOf(d, layout.dir)
         /\ Rooted(d.fat, layout.dir)
         /\ Dir(d) \subseteq Clusters /\ layout.dir \in Dir(d)
         /\ Closed(d.fat, Dir(d))
  BY RootLemma DEF RootOf, Good, Sound, Dir

\* No chain goes through a free cluster.
LEMMA UsedReach ==
  ASSUME NEW d, Good(d), NEW r, RootOf(d, r), d.fat[r] # 0, NEW x \in Reach(d.fat, r)
  PROVE  d.fat[x] # 0
  <1>1. Rooted(d.fat, r) /\ Reach(d.fat, r) \subseteq Clusters
    BY RootLemma
  <1>2. x = r \/ \E y \in Reach(d.fat, r) : d.fat[y] = x
    BY <1>1, ReachLemma
  <1>3. ASSUME NEW y \in Reach(d.fat, r), d.fat[y] = x
        PROVE  d.fat[x] # 0
    <2>1. Leads(d, y, 0, x) /\ x \in Clusters /\ y \in Entries /\ 0 \in Indexes
      BY <1>1, <1>3, EntriesLemma, SizeAssumption DEF Leads, Indexes
    <2> QED
      BY <2>1 DEF Good, Sound, UsedIn
  <1> QED
    BY <1>2, <1>3

\* The chain of an entry is in use.
LEMMA EntryRoot ==
  ASSUME NEW d, Good(d), NEW p \in Slots, EntryAt(d, p), SlotAt(d, p).first \in Clusters
  PROVE  /\ RootOf(d, SlotAt(d, p).first)
         /\ d.fat[SlotAt(d, p).first] # 0
  BY EntryLeads DEF RootOf, Good, Sound, UsedIn

\* Two starts are starts of chains that are apart.
LEMMA RootsApart ==
  ASSUME NEW d, Good(d), NEW r, NEW t, RootOf(d, r), RootOf(d, t), r # t
  PROVE  Reach(d.fat, r) \cap Reach(d.fat, t) = {}
  BY RootLemma, DisjointLemma

\* A start that nothing leads to is no start of an entry.
LEMMA BareApart ==
  ASSUME NEW d, Good(d), NEW r, RootOf(d, r), Bare(d, r), NEW p \in Slots, EntryAt(d, p), SlotAt(d, p).first \in Clusters
  PROVE  Reach(d.fat, r) \cap Reach(d.fat, SlotAt(d, p).first) = {}
  <1>1. SlotAt(d, p).first # r
    BY EntryLeads DEF Bare
  <1> QED
    BY <1>1, EntryRoot, RootsApart

\* The entries of a name are in the directory.
LEMMA PlacesLemma ==
  ASSUME NEW d, Good(d), layout.dir \in Clusters,
         \A p \in Slots : EntryAt(d, p) => p.cluster \in Dir(d), NEW name
  PROVE  EntriesOf(d, name) = {p \in Slots : Named(d, p, name)}
  <1>1. Positions(d) = [cluster : Dir(d), index : 1 .. SlotsPerCluster]
    BY DEF Positions, Dir, Reach
  <1>2. Dir(d) \subseteq Entries
    BY DirLemma, EntriesLemma
  <1>3. Positions(d) \subseteq Slots
    BY <1>1, <1>2 DEF Slots
  <1>4. \A p \in Slots : EntryAt(d, p) => p \in Positions(d)
    BY <1>1 DEF Slots
  <1> QED
    BY <1>3, <1>4 DEF EntriesOf, Named, EntryAt

\* What is stored under a name is what is stored at its entries.
LEMMA StoredLemma ==
  ASSUME NEW d, Good(d), layout.dir \in Clusters,
         \A p \in Slots : EntryAt(d, p) => p.cluster \in Dir(d), NEW name
  PROVE  Stored(d, name) = {ContentsOf(d, SlotAt(d, p)) : p \in {q \in Slots : Named(d, q, name)}}
  BY PlacesLemma DEF Stored, ContentsOf

\* What is stored at an entry depends on its chain only.
LEMMA ContentsSame ==
  ASSUME NEW d, NEW f, NEW e, Rooted(d.fat, e.first),
         \A x \in Reach(d.fat, e.first) : f.fat[x] = d.fat[x] /\ f.area[x] = d.area[x]
  PROVE  /\ Chain(f.fat, e.first) = Chain(d.fat, e.first)
         /\ Reach(f.fat, e.first) = Reach(d.fat, e.first)
         /\ ContentsOf(f, e) = ContentsOf(d, e)
  <1> DEFINE S == Reach(d.fat, e.first)
             s == Chain(d.fat, e.first)
  <1>1. e.first \in S /\ Closed(d.fat, S)
    BY ReachLemma
  <1>2. Chain(f.fat, e.first) = s
    <2> HIDE DEF S
    <2>1. \A x \in S : f.fat[x] = d.fat[x]
      BY DEF S
    <2> QED
      BY <1>1, <2>1, SameChainLemma
  <1>3. s \in Seq(Clusters)
    BY StopLemma
  <1>4. \A k \in DOMAIN s : f.area[s[k]] = d.area[s[k]]
    <2>1. S = {s[k] : k \in 1 .. Len(s)} /\ DOMAIN s = 1 .. Len(s)
      BY <1>3 DEF Reach, ToSet
    <2> QED
      BY <2>1
  <1>5. [k \in DOMAIN s |-> f.area[s[k]]] = [k \in DOMAIN s |-> d.area[s[k]]]
    BY <1>4
  <1>6. Reach(f.fat, e.first) = S
    BY <1>2 DEF Reach
  <1> HIDE DEF s, S
  <1>7. ContentsOf(f, e) = [isDir |-> e.isDir, size |-> e.size, content |-> [k \in DOMAIN s |-> f.area[s[k]]]]
    BY <1>2 DEF ContentsOf
  <1>8. ContentsOf(d, e) = [isDir |-> e.isDir, size |-> e.size, content |-> [k \in DOMAIN s |-> d.area[s[k]]]]
    BY DEF ContentsOf, s
  <1> QED
    BY <1>2, <1>5, <1>6, <1>7, <1>8 DEF S, s

-----------------------------------------------------------------------------
(* The inductive invariant: what finished commands put on the card *)

\* What every name has that no command is at work on: ...
Has(d, name, what) ==
  /\ Stored(d, name) = ToSet(what)
  /\ \A p \in Slots : Named(d, p, name) => SlotAt(d, p).first \in Clusters

\* ... and has on both disks.
Agree(d, e, name) ==
  \A p \in Slots :
    /\ Named(e, p, name) => Named(d, p, name)
    /\ Named(d, p, name) =>
         /\ SlotAt(e, p) = SlotAt(d, p)
         /\ \A x \in Reach(d.fat, SlotAt(d, p).first) : e.fat[x] = d.fat[x] /\ e.area[x] = d.area[x]

\* A name has one entry, on the one disk or the other.
OneName(d, e) ==
  \A p, q \in Slots :
    EntryAt(d, p) /\ EntryAt(e, q) /\ SlotAt(d, p).name = SlotAt(e, q).name => p = q

\* All entries are in the directory as the older disk has it, and the newer disk
\* has that directory, too.
DirOK(d, e) ==
  /\ \A p \in Slots : EntryAt(d, p) \/ EntryAt(e, p) => p.cluster \in Dir(e)
  /\ \A c \in Dir(e) : InChain(e.fat[c]) => d.fat[c] = e.fat[c]

\* The names of directories are the names of directories.
KindOK(d) ==
  \A p \in Slots : EntryAt(d, p) => (SlotAt(d, p).isDir <=> SlotAt(d, p).name \in DirNames)

\* What is known of a name is so, on both disks.
KnownOK(d, e) ==
  \A name \in Names : files[name] # Unknown => Has(d, name, files[name]) /\ Agree(d, e, name)

\* What holds wherever the command is.
CoreInv ==
  /\ DirOK(fs, card)
  /\ OneName(fs, fs) /\ OneName(fs, card) /\ OneName(card, card)
  /\ KindOK(fs) /\ KindOK(card)
  /\ KnownOK(fs, card)

\* The clusters of what finished commands put on the card.
InZone(d, x) ==
  \E name \in Names, p \in Slots :
    files[name] # Unknown /\ Named(d, p, name) /\ x \in Reach(d.fat, SlotAt(d, p).first)

\* A directory that keeps its links keeps its clusters.
LEMMA DirGrows ==
  ASSUME NEW d, NEW e, Good(d), Good(e), layout.dir \in Clusters,
         \A c \in Dir(e) : InChain(e.fat[c]) => d.fat[c] = e.fat[c]
  PROVE  Dir(e) \subseteq Dir(d)
  <1> DEFINE S == Dir(d) \cap Dir(e)
  <1>1. layout.dir \in S /\ Closed(d.fat, Dir(d)) /\ Closed(e.fat, Dir(e))
    BY DirLemma
  <1>2. Closed(e.fat, S)
    BY <1>1 DEF Closed
  <1>3. Reach(e.fat, layout.dir) \subseteq S
    <2> HIDE DEF S
    <2> QED
      BY <1>1, <1>2, LeastReach
  <1> QED
    BY <1>3 DEF Dir

\* A disk that keeps the links of the directory, and has no entries outside of what
\* the card has of it, has the directory in order.
LEMMA DirMerge ==
  ASSUME NEW disk, Good(fs), Good(card), Good(disk), layout.dir \in Clusters, DirOK(fs, card),
         \A c \in Dir(fs) : InChain(fs.fat[c]) => disk.fat[c] = fs.fat[c],
         \A p \in Slots : EntryAt(disk, p) => EntryAt(fs, p) \/ p.cluster \in Dir(card),
         NEW e \in {fs, card, disk}
  PROVE  DirOK(disk, e)
  <1>1. Dir(card) \subseteq Dir(fs)
    BY DirGrows DEF DirOK
  <1>2. Dir(fs) \subseteq Dir(disk)
    BY DirGrows
  <1>3. \A p \in Slots : EntryAt(disk, p) \/ EntryAt(fs, p) \/ EntryAt(card, p) => p.cluster \in Dir(card)
    BY DEF DirOK
  <1>4. \A c \in Dir(card) : InChain(card.fat[c]) => disk.fat[c] = card.fat[c]
    BY <1>1 DEF DirOK
  <1>5. CASE e = fs
    BY <1>1, <1>3, <1>5 DEF DirOK
  <1>6. CASE e = card
    BY <1>3, <1>4, <1>6 DEF DirOK
  <1>7. CASE e = disk
    BY <1>1, <1>2, <1>3, <1>7 DEF DirOK
  <1> QED
    BY <1>5, <1>6, <1>7

\* Entries that stay where they are have no second place.
LEMMA NamesMerge ==
  ASSUME NEW disk, OneName(fs, fs), OneName(fs, card), OneName(card, card),
         \A p \in Slots : EntryAt(disk, p) => EntryAt(fs, p) /\ SlotAt(disk, p).name = SlotAt(fs, p).name,
         NEW e \in {fs, card, disk}
  PROVE  OneName(disk, e) /\ OneName(e, e)
  BY DEF OneName

\* A new entry of a name that had none.
LEMMA NamesAdd ==
  ASSUME NEW disk, OneName(fs, fs), card = fs, NEW q \in Slots,
         \A p \in Slots : p # q /\ EntryAt(disk, p) =>
            EntryAt(fs, p) /\ SlotAt(disk, p).name = SlotAt(fs, p).name,
         ~EntryAt(fs, q),
         EntryAt(disk, q) => NoEntry(fs, SlotAt(disk, q).name),
         NEW e \in {fs, card, disk}
  PROVE  OneName(disk, e) /\ OneName(e, e)
  <1>1. OneName(disk, fs)
    BY DEF OneName, NoEntry, Named
  <1>2. OneName(disk, disk)
    BY DEF OneName, NoEntry, Named
  <1> QED
    BY <1>1, <1>2

\* What a finished command put on the card stays what it is on a disk that has the
\* same entries for the name and the same clusters there.
LEMMA AgreeMerge ==
  ASSUME NEW disk, Good(fs), Good(card), Good(disk), layout.dir \in Clusters, DirOK(fs, card), DirOK(disk, disk),
         NEW name, NEW what, Has(fs, name, what), Agree(fs, card, name), Agree(fs, disk, name),
         NEW e \in {fs, card, disk}
  PROVE  Has(disk, name, what) /\ Agree(disk, e, name)
  <1>1. \A p \in Slots : (EntryAt(fs, p) => p.cluster \in Dir(fs)) /\ (EntryAt(disk, p) => p.cluster \in Dir(disk))
    BY DirGrows DEF DirOK
  <1>2. \A p \in Slots : /\ Named(fs, p, name) <=> Named(disk, p, name)
                         /\ Named(fs, p, name) => SlotAt(disk, p) = SlotAt(fs, p)
                         /\ Named(card, p, name) => Named(fs, p, name)
                         /\ Named(fs, p, name) => SlotAt(card, p) = SlotAt(fs, p)
    BY DEF Agree, Named, EntryAt
  <1>3. ASSUME NEW p \in Slots, Named(fs, p, name)
        PROVE  /\ Reach(disk.fat, SlotAt(fs, p).first) = Reach(fs.fat, SlotAt(fs, p).first)
               /\ ContentsOf(disk, SlotAt(fs, p)) = ContentsOf(fs, SlotAt(fs, p))
    <2>1. SlotAt(fs, p).first \in Clusters /\ EntryAt(fs, p)
      BY <1>3 DEF Has, Named
    <2>2. Rooted(fs.fat, SlotAt(fs, p).first)
      BY <2>1, EntryRoot, RootLemma
    <2>3. \A x \in Reach(fs.fat, SlotAt(fs, p).first) : disk.fat[x] = fs.fat[x] /\ disk.area[x] = fs.area[x]
      BY <1>3 DEF Agree
    <2> QED
      BY <2>2, <2>3, ContentsSame
  <1>4. Agree(disk, e, name)
    <2>1. CASE e = fs
      BY <1>2, <1>3, <2>1 DEF Agree
    <2>2. CASE e = card
      BY <1>2, <1>3, <2>2 DEF Agree
    <2>3. CASE e = disk
      BY <2>3 DEF Agree
    <2> QED
      BY <2>1, <2>2, <2>3
  <1>5. {ContentsOf(disk, SlotAt(disk, p)) : p \in {q \in Slots : Named(disk, q, name)}}
          = {ContentsOf(fs, SlotAt(fs, p)) : p \in {q \in Slots : Named(fs, q, name)}}
    BY <1>2, <1>3
  <1>6. Stored(disk, name) = Stored(fs, name)
    BY <1>1, <1>5, StoredLemma
  <1> QED
    BY <1>2, <1>4, <1>6 DEF Has

\* A write to a cluster that holds nothing a finished command put on the card, and
\* that may change the slot q.
LEMMA CoreStep ==
  ASSUME TypeInv, DisksInv, CoreInv, NEW disk, Good(disk),
         fs' = disk, card' \in {fs, card, disk}, layout' = layout, files' = files,
         NEW b \in Entries, ~InZone(fs, b),
         \A c \in Entries : c # b => disk.fat[c] = fs.fat[c] /\ disk.area[c] = fs.area[c],
         b \in Dir(fs) /\ InChain(fs.fat[b]) => disk.fat[b] = fs.fat[b],
         NEW q \in Slots,
         \A p \in Slots : p # q /\ (EntryAt(fs, p) \/ EntryAt(disk, p)) => SlotAt(disk, p) = SlotAt(fs, p),
         \/ (EntryAt(fs, q) \/ EntryAt(disk, q)) => SlotAt(disk, q) = SlotAt(fs, q)
         \/ /\ EntryAt(fs, q) /\ SlotAt(fs, q).name \in Names => files[SlotAt(fs, q).name] = Unknown
            /\ EntryAt(disk, q) =>
                 /\ SlotAt(disk, q).name \in Names => files[SlotAt(disk, q).name] = Unknown
                 /\ SlotAt(disk, q).isDir <=> SlotAt(disk, q).name \in DirNames
                 /\ \/ EntryAt(fs, q) /\ SlotAt(disk, q).name = SlotAt(fs, q).name
                    \/ /\ ~EntryAt(fs, q) /\ card = fs /\ q.cluster \in Dir(fs)
                       /\ NoEntry(fs, SlotAt(disk, q).name)
  PROVE  CoreInv'
  <1>1. Good(fs) /\ Good(card) /\ layout.dir \in Clusters
    BY GoodLemma
  <1>2. \A c \in Dir(fs) : InChain(fs.fat[c]) => disk.fat[c] = fs.fat[c]
    BY <1>1, DirLemma, EntriesLemma
  <1>3. \A p \in Slots : EntryAt(disk, p) => EntryAt(fs, p) \/ p.cluster \in Dir(card)
    BY DEF EntryAt
  <1>4. \A e \in {fs, card, disk} : DirOK(disk, e)
    BY <1>1, <1>2, <1>3, DirMerge DEF CoreInv
  <1>5. \A e \in {fs, card, disk} : OneName(disk, e) /\ OneName(e, e)
    <2>1. CASE EntryAt(disk, q) => EntryAt(fs, q) /\ SlotAt(disk, q).name = SlotAt(fs, q).name
      <3>1. \A p \in Slots : EntryAt(disk, p) => EntryAt(fs, p) /\ SlotAt(disk, p).name = SlotAt(fs, p).name
        BY <2>1 DEF EntryAt
      <3> QED
        BY <3>1, NamesMerge DEF CoreInv
    <2>2. CASE EntryAt(disk, q) /\ ~(EntryAt(fs, q) /\ SlotAt(disk, q).name = SlotAt(fs, q).name)
      <3>1. ~EntryAt(fs, q) /\ card = fs /\ NoEntry(fs, SlotAt(disk, q).name)
        BY <2>2 DEF EntryAt
      <3>2. \A p \in Slots : p # q /\ EntryAt(disk, p) =>
               EntryAt(fs, p) /\ SlotAt(disk, p).name = SlotAt(fs, p).name
        BY DEF EntryAt
      <3> QED
        BY <3>1, <3>2, NamesAdd DEF CoreInv
    <2> QED
      BY <2>1, <2>2
  <1>6. KindOK(disk)
    BY DEF KindOK, CoreInv, EntryAt
  <1>7. ASSUME NEW name \in Names, files[name] # Unknown
        PROVE  Agree(fs, disk, name)
    <2> SUFFICES ASSUME NEW p \in Slots
                 PROVE  /\ Named(disk, p, name) => Named(fs, p, name)
                        /\ Named(fs, p, name) =>
                             /\ SlotAt(disk, p) = SlotAt(fs, p)
                             /\ \A x \in Reach(fs.fat, SlotAt(fs, p).first) :
                                  disk.fat[x] = fs.fat[x] /\ disk.area[x] = fs.area[x]
      BY DEF Agree
    <2>1. Named(disk, p, name) \/ Named(fs, p, name) => SlotAt(disk, p) = SlotAt(fs, p)
      <3>1. CASE p # q
        BY <3>1 DEF Named
      <3>2. CASE p = q
        BY <1>7, <3>2 DEF Named
      <3> QED
        BY <3>1, <3>2
    <2>2. ASSUME Named(fs, p, name), NEW x \in Reach(fs.fat, SlotAt(fs, p).first)
          PROVE  disk.fat[x] = fs.fat[x] /\ disk.area[x] = fs.area[x]
      <3>1. x # b
        BY <1>7, <2>2 DEF InZone
      <3>2. EntryAt(fs, p) /\ SlotAt(fs, p).first \in Clusters
        BY <1>7, <2>2 DEF CoreInv, KnownOK, Has, Named
      <3>3. x \in Entries
        BY <1>1, <3>2, EntryRoot, RootLemma, EntriesLemma
      <3> QED
        BY <3>1, <3>3
    <2> QED
      BY <2>1, <2>2 DEF Named, EntryAt
  <1>8. \A e \in {fs, card, disk} : KnownOK(disk, e)
    BY <1>1, <1>4, <1>7, AgreeMerge DEF CoreInv, KnownOK
  <1>9. KindOK(card')
    BY <1>6 DEF CoreInv
  <1>10. DirOK(fs, card)'
    <2>1. DirOK(disk, card')
      BY <1>4
    <2> QED
      BY <2>1 DEF DirOK, Dir
  <1>11. KnownOK(fs, card)'
    <2>1. KnownOK(disk, card')
      BY <1>8
    <2> QED
      BY <2>1 DEF KnownOK, Has, Agree, Stored, EntriesOf, Positions
  <1>12. (OneName(fs, fs) /\ OneName(fs, card) /\ OneName(card, card))'
    <2>1. OneName(disk, disk) /\ OneName(disk, card') /\ OneName(card', card')
      BY <1>5
    <2> QED
      BY <2>1 DEF OneName
  <1>13. (KindOK(fs) /\ KindOK(card))'
    BY <1>6, <1>9 DEF KindOK
  <1> QED
    BY <1>10, <1>11, <1>12, <1>13 DEF CoreInv

\* Clusters that hold nothing a finished command put on the card: free ones, those
\* of the directory, of a chain that has lost its entry, and of an entry a command
\* is at work on.
LEMMA OutsideLemma ==
  ASSUME TypeInv, DisksInv, CoreInv, NEW b
  PROVE  /\ fs.fat[b] = 0 => ~InZone(fs, b)
         /\ b \in Dir(fs) => ~InZone(fs, b)
         /\ \A r \in Clusters : Bare(fs, r) /\ b \in Reach(fs.fat, r) => ~InZone(fs, b)
         /\ \A p \in Slots : EntryAt(fs, p) /\ SlotAt(fs, p).first \in Clusters
                              /\ files[SlotAt(fs, p).name] = Unknown
                              /\ b \in Reach(fs.fat, SlotAt(fs, p).first) => ~InZone(fs, b)
  <1>1. Good(fs) /\ layout.dir \in Clusters
    BY GoodLemma
  <1>2. SUFFICES ASSUME InZone(fs, b)
                 PROVE  /\ fs.fat[b] # 0
                        /\ b \notin Dir(fs)
                        /\ \A r \in Clusters : Bare(fs, r) => b \notin Reach(fs.fat, r)
                        /\ \A p \in Slots : EntryAt(fs, p) /\ SlotAt(fs, p).first \in Clusters
                                              /\ files[SlotAt(fs, p).name] = Unknown
                                              => b \notin Reach(fs.fat, SlotAt(fs, p).first)
    OBVIOUS
  <1>3. PICK name \in Names, q \in Slots :
          files[name] # Unknown /\ Named(fs, q, name) /\ b \in Reach(fs.fat, SlotAt(fs, q).first)
    BY <1>2 DEF InZone
  <1>4. EntryAt(fs, q) /\ SlotAt(fs, q).first \in Clusters
    BY <1>3 DEF CoreInv, KnownOK, Has, Named
  <1>5. RootOf(fs, SlotAt(fs, q).first) /\ fs.fat[SlotAt(fs, q).first] # 0
    BY <1>1, <1>4, EntryRoot
  <1>6. fs.fat[b] # 0
    BY <1>1, <1>3, <1>5, UsedReach
  <1>7. \A r \in Clusters : Bare(fs, r) => b \notin Reach(fs.fat, r)
    BY <1>1, <1>3, <1>4, BareApart DEF RootOf
  <1>8. b \notin Dir(fs)
    BY <1>1, <1>7 DEF Dir, Good, Sound
  <1>9. ASSUME NEW p \in Slots, EntryAt(fs, p), SlotAt(fs, p).first \in Clusters,
               files[SlotAt(fs, p).name] = Unknown
        PROVE  b \notin Reach(fs.fat, SlotAt(fs, p).first)
    <2>1. p # q
      BY <1>3, <1>9 DEF Named
    <2>2. SlotAt(fs, p).first # SlotAt(fs, q).first
      BY <1>1, <1>4, <1>9, <2>1, FirstApart DEF Good
    <2>3. RootOf(fs, SlotAt(fs, p).first)
      BY <1>1, <1>9, EntryRoot
    <2> QED
      BY <1>1, <1>3, <1>5, <2>2, <2>3, RootsApart
  <1> QED
    BY <1>6, <1>7, <1>8, <1>9

\* What the invariant says before and after a step.
Invs == TypeInv /\ IInv /\ CoreInv

\* A write of the FAT.
LEMMA FatCore ==
  ASSUME Invs, TypeInv', IInv', NEW b \in Entries, NEW v \in FatValues, WriteFat(b, v), files' = files,
         ~InZone(fs, b), b \in Dir(fs) /\ InChain(fs.fat[b]) => v = fs.fat[b]
  PROVE  /\ CoreInv' /\ layout' = layout
         /\ fs'.fat[b] = v /\ \A c \in Entries : c # b => fs'.fat[c] = fs.fat[c]
         /\ fs'.area = fs.area
         /\ \A p \in Slots : SlotAt(fs', p) = SlotAt(fs, p)
  <1>1. /\ fs' = FatWith(b, v) /\ card' \in {fs, card, FatWith(b, v)} /\ layout' = layout
        /\ fs \in Disks
    BY DEF Invs, WriteFat, Write, TypeInv, TypeOK
  <1>2. fs'.area = fs.area /\ fs'.fat[b] = v /\ \A c \in Entries : c # b => fs'.fat[c] = fs.fat[c]
    <2>1. FatWith(b, v).area = fs.area
      BY <1>1, FatWithLemma
    <2>2. FatWith(b, v).fat[b] = v /\ \A c \in Entries : c # b => FatWith(b, v).fat[c] = fs.fat[c]
      BY <1>1, FatEffect
    <2> QED
      BY <1>1, <2>1, <2>2
  <1>3. \A p \in Slots : SlotAt(fs', p) = SlotAt(fs, p)
    BY <1>2 DEF SlotAt
  <1>4. Good(fs')
    BY <1>1 DEF TypeInv, TypeOK, IInv, DisksInv, Good
  <1>5. PICK q \in Slots : TRUE
    <2>1. [cluster |-> 0, index |-> 1] \in Slots
      BY EntriesLemma, SizeAssumption DEF Slots
    <2> QED
      BY <2>1
  <1>6. CoreInv'
    <2> DEFINE disk == FatWith(b, v)
    <2>1. disk.fat[b] = v /\ \A c \in Entries : c # b => disk.fat[c] = fs.fat[c] /\ disk.area[c] = fs.area[c]
      BY <1>1, <1>2
    <2>2. \A p \in Slots : SlotAt(disk, p) = SlotAt(fs, p)
      BY <1>1, <1>3
    <2>3. Good(disk) /\ fs' = disk /\ card' \in {fs, card, disk}
      BY <1>1, <1>4
    <2> HIDE DEF disk
    <2>4. DisksInv
      BY DEF Invs, IInv
    <2> QED
      BY <1>1, <1>5, <2>1, <2>2, <2>3, <2>4, CoreStep DEF Invs
  <1> QED
    BY <1>1, <1>2, <1>3, <1>6

\* A write of a cluster without entries.
LEMMA AreaCore ==
  ASSUME Invs, TypeInv', IInv', NEW b \in Entries, NEW a \in Contents, WriteArea(b, a), files' = files,
         ~InZone(fs, b), \A p \in Slots : p.cluster = b => ~EntryAt(fs, p),
         a.kind = "dir" => \A i \in 1 .. SlotsPerCluster : a.slots[i].state # "entry"
  PROVE  /\ CoreInv' /\ layout' = layout
         /\ fs'.fat = fs.fat
         /\ fs'.area[b] = a /\ \A c \in Entries : c # b => fs'.area[c] = fs.area[c]
         /\ \A p \in Slots : /\ EntryAt(fs', p) <=> EntryAt(fs, p)
                             /\ EntryAt(fs, p) => SlotAt(fs', p) = SlotAt(fs, p)
  <1> DEFINE disk == AreaWith(b, a)
  <1>1. fs' = disk /\ card' \in {fs, card, disk} /\ layout' = layout /\ fs \in Disks
    BY DEF Invs, WriteArea, Write, TypeInv, TypeOK
  <1>2. disk.fat = fs.fat /\ disk.area[b] = a /\ \A c \in Entries : c # b => disk.area[c] = fs.area[c]
    <2>1. fs.area \in [Entries -> Contents]
      BY <1>1, DiskLemma
    <2>2. disk.fat = fs.fat /\ disk.area = [fs.area EXCEPT ![b] = a]
      BY <1>1, AreaWithLemma
    <2> HIDE DEF disk
    <2> QED
      BY <2>1, <2>2
  <1> HIDE DEF disk
  <1>3. \A p \in Slots : /\ EntryAt(disk, p) <=> EntryAt(fs, p)
                         /\ EntryAt(fs, p) => SlotAt(disk, p) = SlotAt(fs, p)
    <2> SUFFICES ASSUME NEW p \in Slots
                 PROVE  /\ EntryAt(disk, p) <=> EntryAt(fs, p)
                        /\ EntryAt(fs, p) => SlotAt(disk, p) = SlotAt(fs, p)
      OBVIOUS
    <2>1. p.cluster \in Entries /\ p.index \in 1 .. SlotsPerCluster
      BY DEF Slots
    <2>2. CASE p.cluster = b
      <3>1. ~EntryAt(fs, p)
        BY <2>2
      <3>2. SlotAt(disk, p).state # "entry"
        BY <1>2, <2>1, <2>2 DEF SlotAt, WipedSlot
      <3> QED
        BY <3>1, <3>2 DEF EntryAt
    <2>3. CASE p.cluster # b
      BY <1>2, <2>1, <2>3 DEF SlotAt, EntryAt
    <2> QED
      BY <2>2, <2>3
  <1>4. Good(fs')
    BY <1>1 DEF TypeInv, TypeOK, IInv, DisksInv, Good
  <1>5. PICK q \in Slots : TRUE
    <2>1. [cluster |-> 0, index |-> 1] \in Slots
      BY EntriesLemma, SizeAssumption DEF Slots
    <2> QED
      BY <2>1
  <1>6. CoreInv'
    <2>3. Good(disk)
      BY <1>1, <1>4 DEF Good
    <2>4. DisksInv
      BY DEF Invs, IInv
    <2> QED
      BY <1>1, <1>2, <1>3, <1>5, <2>3, <2>4, CoreStep DEF Invs
  <1> QED
    BY <1>1, <1>2, <1>3, <1>6

\* A write of a slot of the directory.
LEMMA SlotCore ==
  ASSUME Invs, TypeInv', IInv', NEW q \in Slots, NEW s \in SlotValues, WriteSlot(q, s), files' = files,
         fs.area[q.cluster].kind = "dir", q.cluster \in Dir(fs),
         EntryAt(fs, q) /\ SlotAt(fs, q).name \in Names => files[SlotAt(fs, q).name] = Unknown,
         s.state = "entry" =>
            /\ s.name \in Names => files[s.name] = Unknown
            /\ s.isDir <=> s.name \in DirNames
            /\ \/ EntryAt(fs, q) /\ s.name = SlotAt(fs, q).name
               \/ ~EntryAt(fs, q) /\ card = fs /\ NoEntry(fs, s.name)
  PROVE  /\ CoreInv' /\ layout' = layout
         /\ fs'.fat = fs.fat
         /\ \A c \in Entries : c # q.cluster => fs'.area[c] = fs.area[c]
         /\ SlotAt(fs', q) = s
         /\ \A p \in Slots : p # q => SlotAt(fs', p) = SlotAt(fs, p)
  <1> DEFINE disk == SlotWith(q, s)
  <1>1. /\ fs' = disk /\ card' \in {fs, card, disk} /\ layout' = layout /\ fs \in Disks
        /\ q.cluster \in Entries /\ q.index \in 1 .. SlotsPerCluster
    BY DEF Invs, WriteSlot, Write, TypeInv, TypeOK, Slots
  <1>2. /\ disk.fat = fs.fat
        /\ \A c \in Entries : c # q.cluster => disk.area[c] = fs.area[c]
        /\ disk.area[q.cluster].kind = "dir"
        /\ disk.area[q.cluster].slots = [fs.area[q.cluster].slots EXCEPT ![q.index] = s]
        /\ fs.area[q.cluster].slots \in [1 .. SlotsPerCluster -> SlotValues]
    BY <1>1, SlotWithLemma, DiskLemma
  <1> HIDE DEF disk
  <1>3. SlotAt(disk, q) = s
    BY <1>1, <1>2 DEF SlotAt
  <1>4. ASSUME NEW p \in Slots, p # q
        PROVE  SlotAt(disk, p) = SlotAt(fs, p)
    <2>1. p.cluster \in Entries /\ p.index \in 1 .. SlotsPerCluster
      BY DEF Slots
    <2>2. CASE p.cluster = q.cluster
      <3>1. p.index # q.index
        BY <1>4, <2>2 DEF Slots
      <3>2. disk.area[q.cluster].slots[p.index] = fs.area[q.cluster].slots[p.index]
        BY <1>2, <2>1, <3>1
      <3> QED
        BY <1>2, <2>1, <2>2, <3>2 DEF SlotAt
    <2>3. CASE p.cluster # q.cluster
      BY <1>2, <2>1, <2>3 DEF SlotAt
    <2> QED
      BY <2>2, <2>3
  <1>5. Good(disk)
    BY <1>1 DEF TypeInv, TypeOK, IInv, DisksInv, Good
  <1>6. DisksInv
    BY DEF Invs, IInv
  <1>7. ~InZone(fs, q.cluster)
    BY <1>6, OutsideLemma DEF Invs
  <1>8. CoreInv'
    <2>1. \A c \in Entries : c # q.cluster => disk.fat[c] = fs.fat[c] /\ disk.area[c] = fs.area[c]
      BY <1>2
    <2>2. disk.fat[q.cluster] = fs.fat[q.cluster]
      BY <1>2
    <2>3. EntryAt(disk, q) =>
            /\ SlotAt(disk, q).name \in Names => files[SlotAt(disk, q).name] = Unknown
            /\ SlotAt(disk, q).isDir <=> SlotAt(disk, q).name \in DirNames
            /\ \/ EntryAt(fs, q) /\ SlotAt(disk, q).name = SlotAt(fs, q).name
               \/ /\ ~EntryAt(fs, q) /\ card = fs /\ q.cluster \in Dir(fs)
                  /\ NoEntry(fs, SlotAt(disk, q).name)
      BY <1>3 DEF EntryAt
    <2> QED
      BY <1>1, <1>4, <1>5, <1>6, <1>7, <2>1, <2>2, <2>3, CoreStep DEF Invs
  <1> QED
    BY <1>1, <1>2, <1>3, <1>4, <1>8

-----------------------------------------------------------------------------
(* The inductive invariant: commands at work *)

\* What the theorems take for granted of the names: a name is of files or of
\* directories (a put over a directory is another matter), and none is empty.
NamesApart == FileNames \cap DirNames = {} /\ "" \notin Names

\* A command works on names of its kind that count as unknown, and knows what it
\* will leave there.
WorkInv ==
  pc # "prompt" =>
    /\ files[cmd.name] = Unknown
    /\ cmd.name \in IF cmd.op = "mkdir" THEN DirNames ELSE FileNames
    /\ IF cmd.op = "rename"
         THEN /\ cmd.from \in FileNames /\ cmd.from # cmd.name
              /\ files[cmd.from] = Unknown /\ ~cmd.entry.isDir
         ELSE cmd.from = ""
    /\ cmd.op = "put" => cmd.result = PutFile(cmd.id, cmd.n)
    /\ cmd.op = "mkdir" => cmd.result = MadeDir
    /\ cmd.op = "delete" => cmd.result = NoFile

\* The slot at hand is that of the command's name, which has no other.
SlotInv ==
  /\ pc = "wipe" => Named(fs, cmd.slot, IF cmd.op = "rename" THEN cmd.from ELSE cmd.name)
  /\ pc = "wipe" /\ cmd.op = "rename" => NoEntry(fs, cmd.name)
  /\ At({"free", "create", "extend", "clear"}) => NoEntry(fs, cmd.name)
  /\ cmd.op = "rename" /\ At({"create", "extend", "clear", "relink"}) => NoEntry(fs, cmd.from)
  /\ At({"first", "link", "data", "grow", "chain", "size", "relink"}) => Named(fs, cmd.slot, cmd.name)

\* No slot of the cluster is in use.
Plain(d, c) == \A p \in Slots : p.cluster = c => ~EntryAt(d, p)

\* The directory grows at its end, by a cluster without entries.
GrowDirInv ==
  /\ pc = "extend" => /\ cmd.cluster \in Dir(fs) /\ fs.fat[cmd.cluster] = EndOfChain
                      /\ Plain(fs, cmd.next)
  /\ pc = "clear" => cmd.next \in Dir(fs) /\ Plain(fs, cmd.next)

\* The clusters of a file that is being written are one behind the other, and hold
\* what was written so far.
Start == IF pc = "data" THEN cmd.cluster - cmd.part ELSE cmd.cluster - cmd.part + 1
Part(k) == IF cmd.op = "put" THEN Data(cmd.id, k) ELSE NewDirectory
RowInv ==
  pc \in {"data", "grow", "chain", "size"} =>
    /\ Start \in Clusters /\ SlotAt(fs, cmd.slot).first = Start
    /\ \A k \in 1 .. cmd.part : fs.area[Start + k - 1] = Part(k)
    /\ \A k \in 1 .. (cmd.cluster - Start) : fs.fat[Start + k - 1] = Start + k
    /\ pc = "data" => fs.fat[cmd.cluster] = EndOfChain
                       \/ fs.fat[cmd.cluster + cmd.n - cmd.part - 1] = EndOfChain
    /\ pc = "size" => cmd.part = cmd.n /\ fs.fat[cmd.cluster] = EndOfChain

\* What rename moves stays what it was.
MovedInv ==
  cmd.op = "rename" /\ cmd.result # Unknown /\ At({"wipe", "create", "extend", "clear", "relink"}) =>
    cmd.entry.first \in Clusters /\ ToSet(cmd.result) = {ContentsOf(fs, cmd.entry)}

\* A command that has only to flush has stored what it should.
DoneInv ==
  pc = "flush" /\ cmd.then = "prompt" =>
    /\ cmd.result # Unknown => Has(fs, cmd.name, cmd.result)
    /\ cmd.op = "rename" => NoEntry(fs, cmd.from)

\* The inductive invariant.
FilesInv == CoreInv /\ WorkInv /\ SlotInv /\ GrowDirInv /\ RowInv /\ MovedInv /\ DoneInv

\* All that holds before a step, and what is known of the next state.
Before == TypeInv /\ IInv /\ Room /\ FilesInv /\ NamesApart
Steps == Before /\ TypeInv' /\ IInv'

\* The parts of it that most steps need.
LEMMA BeforeLemma ==
  ASSUME Before
  PROVE  /\ Invs /\ TypeInv /\ IInv /\ DisksInv /\ CoreInv /\ Good(fs) /\ Good(card)
         /\ layout \in Layouts /\ layout.dir \in Clusters
         /\ Dir(card) \subseteq Dir(fs)
         /\ \A p \in Slots : EntryAt(fs, p) => p.cluster \in Dir(fs)
         /\ RootOf(fs, layout.dir) /\ Dir(fs) \subseteq Clusters
         /\ cmd \in Commands(cmd.result)
         /\ cmd.slot \in Slots /\ cmd.cluster \in Entries /\ cmd.next \in Entries
  <1>1. TypeInv /\ IInv /\ DisksInv /\ CoreInv /\ Invs
    BY DEF Before, FilesInv, IInv, Invs
  <1>2. Good(fs) /\ Good(card) /\ layout \in Layouts /\ layout.dir \in Clusters
    BY <1>1, GoodLemma
  <1>3. Dir(card) \subseteq Dir(fs)
    BY <1>1, <1>2, DirGrows DEF CoreInv, DirOK
  <1>4. \A p \in Slots : EntryAt(fs, p) => p.cluster \in Dir(fs)
    BY <1>1, <1>3 DEF CoreInv, DirOK
  <1>5. RootOf(fs, layout.dir) /\ Dir(fs) \subseteq Clusters
    BY <1>2, DirLemma
  <1> QED
    BY <1>1, <1>2, <1>3, <1>4, <1>5, FieldsLemma DEF TypeInv

\* Chains depend on the clusters they visit.
LEMMA ReachSame ==
  ASSUME NEW fat, NEW gat, NEW c, Rooted(fat, c), \A x \in Reach(fat, c) : gat[x] = fat[x]
  PROVE  Chain(gat, c) = Chain(fat, c) /\ Reach(gat, c) = Reach(fat, c)
  <1>1. Chain(gat, c) = Chain(fat, c)
    <2> DEFINE S == Reach(fat, c)
    <2>1. c \in S /\ Closed(fat, S) /\ \A x \in S : gat[x] = fat[x]
      BY ReachLemma
    <2> HIDE DEF S
    <2> QED
      BY <2>1, SameChainLemma
  <1> QED
    BY <1>1 DEF Reach

\* The chain of a start other than the directory's does not go through the
\* directory or a free cluster.
LEMMA RootOutside ==
  ASSUME Good(fs), layout.dir \in Clusters, NEW r, RootOf(fs, r), r # layout.dir
  PROVE  /\ \A x \in Dir(fs) : x \notin Reach(fs.fat, r)
         /\ fs.fat[r] # 0 => \A x : fs.fat[x] = 0 => x \notin Reach(fs.fat, r)
         /\ Reach(fs.fat, r) \subseteq Clusters
  <1>1. RootOf(fs, layout.dir)
    BY DirLemma
  <1>2. Reach(fs.fat, r) \cap Dir(fs) = {}
    BY <1>1, RootsApart DEF Dir
  <1> QED
    BY <1>2, UsedReach, RootLemma

\* An entry starts elsewhere than the directory.
LEMMA EntryOutside ==
  ASSUME NEW d, Good(d), NEW p \in Slots, EntryAt(d, p), SlotAt(d, p).first \in Clusters
  PROVE  SlotAt(d, p).first # layout.dir
  BY EntryLeads DEF Good, Sound, Bare

\* What rename moves is not in the clusters a write changes.
LEMMA MovedKeeps ==
  ASSUME Before, cmd.op = "rename", cmd.result # Unknown, At({"wipe", "create", "extend", "clear", "relink"}),
         \A x \in Clusters : x \notin Dir(fs) /\ fs.fat[x] # 0 =>
            fs'.fat[x] = fs.fat[x] /\ fs'.area[x] = fs.area[x]
  PROVE  ContentsOf(fs', cmd.entry) = ContentsOf(fs, cmd.entry)
  <1>1. /\ Good(fs) /\ layout.dir \in Clusters /\ cmd.entry.first \in Clusters
        /\ cmd.slot \in Slots /\ IInv
    BY BeforeLemma DEF Before, FilesInv, MovedInv
  <1>2. RootOf(fs, cmd.entry.first) /\ fs.fat[cmd.entry.first] # 0 /\ cmd.entry.first # layout.dir
    <2>1. CASE pc = "wipe"
      <3>1. EntryAt(fs, cmd.slot)
        BY <2>1 DEF Before, FilesInv, SlotInv, Named
      <3>2. Leads(fs, cmd.slot.cluster, cmd.slot.index, cmd.entry.first)
        BY <2>1, <1>1 DEF IInv, WipeInv
      <3>3. SlotAt(fs, cmd.slot).first = cmd.entry.first
        BY <1>1, <3>1, <3>2, EntryLeads DEF Leads
      <3> QED
        BY <1>1, <3>1, <3>3, EntryRoot, EntryOutside
    <2>2. CASE pc # "wipe"
      <3>0. OpInv
        BY <1>1 DEF IInv
      <3>1. At({"create", "extend", "clear", "relink"})
        BY <2>2, <3>0 DEF At, OpInv
      <3>2. Taken(cmd.entry.first)
        BY <1>1, <3>1 DEF IInv, MoveInv
      <3> QED
        BY <1>1, <3>2 DEF Taken, RootOf
    <2> QED
      BY <2>1, <2>2
  <1>3. \A x \in Reach(fs.fat, cmd.entry.first) : x \in Clusters /\ x \notin Dir(fs) /\ fs.fat[x] # 0
    BY <1>1, <1>2, RootOutside, UsedReach
  <1>4. Rooted(fs.fat, cmd.entry.first)
    BY <1>1, <1>2, RootLemma
  <1> QED
    BY <1>3, <1>4, ContentsSame

\* What a step of a command leaves of it.
SameWork ==
  /\ cmd'.op = cmd.op /\ cmd'.name = cmd.name /\ cmd'.from = cmd.from /\ cmd'.entry = cmd.entry
  /\ cmd'.id = cmd.id /\ cmd'.n = cmd.n /\ cmd'.result = cmd.result /\ files' = files

\* A step that leaves the command leaves what it works on.
LEMMA WorkKeeps ==
  ASSUME WorkInv, SameWork, pc # "prompt"
  PROVE  WorkInv'
  BY DEF WorkInv, SameWork, PutFile, MadeDir, Data, NewDirectory, Directory, WipedSlot

\* FlushThen in those terms.
LEMMA FlushWork ==
  ASSUME cmd \in Commands(cmd.result), NEW label, FlushThen(label)
  PROVE  /\ SameWork /\ pc' = "flush" /\ cmd'.then = label
         /\ cmd'.slot = cmd.slot /\ cmd'.cluster = cmd.cluster /\ cmd'.next = cmd.next /\ cmd'.part = cmd.part
  BY DEF Commands, FlushThen, GotoWith, SameWork

-----------------------------------------------------------------------------
(* Every step keeps the inductive invariant *)

\* What a step needs that ends before any data is written.
LEMMA EarlyStep ==
  ASSUME CoreInv', WorkInv', SlotInv', GrowDirInv', MovedInv', DoneInv',
         pc' \notin {"data", "grow", "chain", "size"}
  PROVE  FilesInv'
  BY DEF FilesInv, RowInv

\* wipe_direntries_of_current_file_or_dir: the name has no entry any more.
LEMMA WipeFiles ==
  ASSUME Steps, Wipe
  PROVE  FilesInv'
  <1> DEFINE name == IF cmd.op = "rename" THEN cmd.from ELSE cmd.name
             label == IF cmd.op = "rename" THEN "create" ELSE "free"
  <1>1. /\ pc = "wipe" /\ WriteSlot(cmd.slot, WipedSlot) /\ FlushThen(label)
        /\ Before /\ TypeInv' /\ IInv'
    BY DEF Wipe, Steps
  <1>2. /\ Invs /\ IInv /\ CoreInv /\ cmd.slot \in Slots /\ cmd \in Commands(cmd.result)
        /\ Good(fs) /\ layout.dir \in Clusters
        /\ \A p \in Slots : EntryAt(fs, p) => p.cluster \in Dir(fs)
    BY <1>1, BeforeLemma
  <1>3. SameWork /\ pc' = "flush" /\ cmd'.then = label /\ cmd'.slot = cmd.slot
    BY <1>1, <1>2, FlushWork
  <1>4. /\ Named(fs, cmd.slot, name) /\ files[name] = Unknown
        /\ cmd.op = "rename" => NoEntry(fs, cmd.name)
    BY <1>1 DEF Before, FilesInv, SlotInv, WorkInv
  <1>5. /\ WipedSlot \in SlotValues /\ WipedSlot.state # "entry"
        /\ EntryAt(fs, cmd.slot) /\ SlotAt(fs, cmd.slot).name = name
        /\ fs.area[cmd.slot.cluster].kind = "dir" /\ cmd.slot.cluster \in Dir(fs)
    BY <1>2, <1>4, SlotValueLemma, EntryLeads DEF Named
  <1>6. files' = files
    BY <1>3 DEF SameWork
  <1>7. /\ CoreInv' /\ layout' = layout /\ fs'.fat = fs.fat
        /\ \A c \in Entries : c # cmd.slot.cluster => fs'.area[c] = fs.area[c]
        /\ SlotAt(fs', cmd.slot) = WipedSlot
        /\ \A p \in Slots : p # cmd.slot => SlotAt(fs', p) = SlotAt(fs, p)
    <2> HIDE DEF name
    <2> QED
      BY <1>1, <1>2, <1>4, <1>5, <1>6, SlotCore
  <1>8. NoEntry(fs', name)
    <2> SUFFICES ASSUME NEW p \in Slots, Named(fs', p, name)
                 PROVE  FALSE
      BY DEF NoEntry
    <2>1. p # cmd.slot
      BY <1>5, <1>7 DEF Named, EntryAt
    <2>2. Named(fs, p, name)
      BY <1>7, <2>1 DEF Named, EntryAt
    <2> QED
      BY <1>2, <1>4, <2>1, <2>2 DEF CoreInv, OneName, Named
  <1>9. cmd.op = "rename" => NoEntry(fs', cmd.name)
    BY <1>4, <1>5, <1>7 DEF NoEntry, Named, EntryAt
  <1>10. WorkInv'
    BY <1>1, <1>3, WorkKeeps DEF Before, FilesInv
  <1>11. SlotInv'
    BY <1>3, <1>8, <1>9 DEF SlotInv, SameWork, At
  <1>12. GrowDirInv'
    BY <1>3 DEF GrowDirInv
  <1>13. DoneInv'
    BY <1>3 DEF DoneInv
  <1>14. MovedInv'
    <2> SUFFICES ASSUME cmd.op = "rename", cmd.result # Unknown
                 PROVE  cmd.entry.first \in Clusters /\ ToSet(cmd.result) = {ContentsOf(fs', cmd.entry)}
      BY <1>3 DEF MovedInv, SameWork
    <2>1. At({"wipe", "create", "extend", "clear", "relink"})
      BY <1>1 DEF At
    <2>2. cmd.entry.first \in Clusters /\ ToSet(cmd.result) = {ContentsOf(fs, cmd.entry)}
      BY <1>1, <2>1 DEF Before, FilesInv, MovedInv
    <2>3. ContentsOf(fs', cmd.entry) = ContentsOf(fs, cmd.entry)
      BY <1>1, <1>5, <1>7, <2>1, MovedKeeps, EntriesLemma
    <2> QED
      BY <2>2, <2>3
  <1> QED
    BY <1>3, <1>7, <1>10, <1>11, <1>12, <1>13, <1>14, EarlyStep

\* A name without an entry has nothing.
LEMMA NothingLemma ==
  ASSUME NEW d, Good(d), layout.dir \in Clusters, NEW name, NoEntry(d, name)
  PROVE  Has(d, name, NoFile)
  <1>1. EntriesOf(d, name) = {}
    <2>1. Dir(d) \subseteq Entries
      BY DirLemma, EntriesLemma
    <2>2. Positions(d) \subseteq Slots
      BY <2>1 DEF Positions, Slots, Dir, Reach
    <2> QED
      BY <2>2 DEF EntriesOf, NoEntry, Named, EntryAt
  <1>2. Stored(d, name) = {}
    BY <1>1 DEF Stored
  <1>3. ToSet(NoFile) = {}
    BY DEF ToSet, NoFile
  <1> QED
    BY <1>2, <1>3 DEF Has, NoEntry

\* The new disk, and what is done there.
LEMMA GoodPrime ==
  ASSUME TypeInv', IInv', layout' = layout
  PROVE  Good(fs')
  BY DEF TypeInv, TypeOK, IInv, DisksInv, Good

\* So does what a command has stored.
LEMMA DonePrime ==
  ASSUME layout' = layout,
         pc' = "flush" /\ cmd'.then = "prompt" =>
           /\ cmd'.result # Unknown => Has(fs', cmd'.name, cmd'.result)
           /\ cmd'.op = "rename" => NoEntry(fs', cmd'.from)
  PROVE  DoneInv'
  BY DEF DoneInv, Has, Stored, EntriesOf, Positions, NoEntry, Named

\* delete_single_file frees clusters that no entry leads to any more.
LEMMA FreeNextFiles ==
  ASSUME Steps, FreeNext
  PROVE  FilesInv'
  <1> DEFINE b == cmd.cluster
  <1>1. /\ pc = "free" /\ WriteFat(b, 0) /\ Before /\ TypeInv' /\ IInv'
    BY DEF FreeNext, Steps
  <1>2. /\ Invs /\ IInv /\ CoreInv /\ cmd \in Commands(cmd.result) /\ DisksInv /\ TypeInv
        /\ Good(fs) /\ layout.dir \in Clusters /\ b \in Entries /\ 0 \in FatValues
        /\ Dir(fs) \subseteq Clusters /\ RootOf(fs, layout.dir)
    BY <1>1, BeforeLemma, EntriesLemma
  <1>3. /\ SameWork
        /\ \/ pc' = "free"
           \/ pc' = "flush" /\ cmd'.then = IF cmd.op = "put" THEN "create" ELSE "prompt"
    <2>1. CASE InChain(fs.fat[b])
      <3>1. GotoWith("free", [cmd EXCEPT !.cluster = fs.fat[b]])
        BY <2>1 DEF FreeNext
      <3> QED
        BY <1>2, <3>1 DEF Commands, GotoWith, SameWork
    <2>2. CASE ~InChain(fs.fat[b])
      <3> DEFINE label == IF cmd.op = "put" THEN "create" ELSE "prompt"
      <3>1. FlushThen(label)
        BY <2>2 DEF FreeNext
      <3> HIDE DEF label
      <3>2. SameWork /\ pc' = "flush" /\ cmd'.then = label
        BY <1>2, <3>1, FlushWork
      <3> QED
        BY <3>2 DEF label
    <2> QED
      BY <2>1, <2>2
  <1>4. /\ NoEntry(fs, cmd.name) /\ cmd.op \in {"put", "delete"} /\ b # 1 /\ Taken(b)
        /\ cmd.op = "delete" => cmd.result = NoFile
    BY <1>1, <1>2 DEF Before, FilesInv, SlotInv, At, WorkInv, IInv, OpInv, FreeInv
  <1> HIDE DEF b
  <1>5. ~InZone(fs, b) /\ b \notin Dir(fs)
    <2>1. CASE b \in Clusters
      <3>1. Bare(fs, b) /\ b # layout.dir
        BY <1>4, <2>1 DEF Taken
      <3>2. RootOf(fs, b) /\ b \in Reach(fs.fat, b)
        BY <1>2, <2>1, <3>1, RootLemma DEF RootOf
      <3> QED
        BY <1>2, <2>1, <3>1, <3>2, OutsideLemma, RootOutside
    <2>2. CASE b \notin Clusters
      <3>1. b \notin Dir(fs)
        BY <1>2, <2>2
      <3>2. ASSUME NEW p \in Slots, EntryAt(fs, p), SlotAt(fs, p).first \in Clusters
            PROVE  b \notin Reach(fs.fat, SlotAt(fs, p).first)
        BY <1>2, <2>2, <3>2, EntryRoot, RootLemma
      <3>3. ~InZone(fs, b)
        BY <1>2, <3>2 DEF InZone, CoreInv, KnownOK, Has, Named
      <3> QED
        BY <3>1, <3>3
    <2> QED
      BY <2>1, <2>2
  <1>6. files' = files
    BY <1>3 DEF SameWork
  <1>7. CoreInv' /\ layout' = layout /\ \A p \in Slots : SlotAt(fs', p) = SlotAt(fs, p)
    BY <1>1, <1>2, <1>5, <1>6, FatCore
  <1>8. NoEntry(fs', cmd.name)
    BY <1>4, <1>7 DEF NoEntry, Named, EntryAt
  <1>9. WorkInv'
    BY <1>1, <1>3, WorkKeeps DEF Before, FilesInv
  <1>10. SlotInv'
    BY <1>3, <1>4, <1>8 DEF SlotInv, SameWork, At
  <1>11. GrowDirInv' /\ MovedInv'
    BY <1>3, <1>4 DEF GrowDirInv, MovedInv, SameWork
  <1>12. DoneInv'
    <2>1. Good(fs')
      BY <1>1, <1>7, GoodPrime
    <2>2. Has(fs', cmd.name, NoFile)
      BY <1>2, <1>8, <2>1, NothingLemma
    <2> QED
      BY <1>3, <1>4, <1>7, <2>2, DonePrime DEF SameWork
  <1> QED
    BY <1>3, <1>7, <1>9, <1>10, <1>11, <1>12, EarlyStep

\* create_directory_entry_for_item takes a free slot for a name that has none.
LEMMA CreateEntryFiles ==
  ASSUME Steps, CreateEntry
  PROVE  FilesInv'
  <1> DEFINE q == FirstFreeSlot
             isDir == IF cmd.op = "rename" THEN cmd.entry.isDir ELSE cmd.op = "mkdir"
             s == EntrySlot(cmd.name, 0, 0, isDir)
             label == IF cmd.op = "rename" THEN "relink" ELSE "first"
  <1>1. /\ pc = "create" /\ WriteSlot(q, s) /\ FreeSlots # {}
        /\ GotoWith("flush", [cmd EXCEPT !.slot = q, !.then = label])
        /\ Before /\ TypeInv' /\ IInv'
    BY NewEntryLemma DEF Steps, Before
  <1>2. /\ Invs /\ IInv /\ CoreInv /\ cmd \in Commands(cmd.result) /\ TypeInv
        /\ Good(fs) /\ layout.dir \in Clusters /\ layout \in Layouts
        /\ Dir(fs) \subseteq Clusters
    BY <1>1, BeforeLemma
  <1>3. SameWork /\ pc' = "flush" /\ cmd'.then = label /\ cmd'.slot = q
    BY <1>1, <1>2 DEF Commands, GotoWith, SameWork
  <1>4. q \in Slots /\ q.cluster \in Dir(fs) /\ SlotAt(fs, q) = FreeSlot
    <2>1. FreeSlots \subseteq Positions(fs) /\ fs.fat \in [Entries -> FatValues]
      BY <1>2, DiskLemma DEF FreeSlots, Good
    <2>2. q \in FreeSlots /\ FreeSlots \subseteq Slots
      BY <1>1, <1>2, <2>1, FirstOfLemma DEF FirstFreeSlot
    <2> HIDE DEF q
    <2> QED
      BY <2>1, <2>2 DEF FreeSlots, Positions, Dir, Reach
  <1> HIDE DEF q
  <1>5. fs.area[q.cluster].kind = "dir" /\ ~EntryAt(fs, q)
    BY <1>4 DEF SlotAt, FreeSlot, WipedSlot, EntryAt
  <1>6. /\ NoEntry(fs, cmd.name) /\ files[cmd.name] = Unknown /\ card = fs
        /\ cmd.op = "rename" => NoEntry(fs, cmd.from) /\ cmd.from # cmd.name
        /\ cmd.op \in {"put", "rename", "mkdir"}
        /\ cmd.name \in Names /\ (isDir <=> cmd.name \in DirNames) /\ isDir \in BOOLEAN
    <2>1. /\ NoEntry(fs, cmd.name) /\ files[cmd.name] = Unknown /\ card = fs
          /\ cmd.op = "rename" => NoEntry(fs, cmd.from) /\ cmd.from # cmd.name
          /\ cmd.op \in {"put", "rename", "mkdir"}
      BY <1>1, <1>2 DEF Before, FilesInv, SlotInv, At, WorkInv, IInv, OpInv, QueueInv, Clean
    <2>2. cmd.name \in IF cmd.op = "mkdir" THEN DirNames ELSE FileNames
      BY <1>1 DEF Before, FilesInv, WorkInv
    <2>3. cmd.op = "rename" => ~cmd.entry.isDir /\ cmd.entry.isDir \in BOOLEAN
      BY <1>1, <1>2, SlotValueLemma DEF Before, FilesInv, WorkInv, TypeInv
    <2> QED
      BY <1>1, <2>1, <2>2, <2>3 DEF Names, Before, NamesApart
  <1> HIDE DEF isDir
  <1>7. /\ s \in SlotValues /\ s.state = "entry" /\ s.name = cmd.name
        /\ s.isDir = isDir /\ s.first = 0
    <2>1. s \in SlotEntries
      BY <1>6, EntriesLemma DEF SlotEntries, EntrySlot
    <2> QED
      BY <2>1, SlotValueLemma DEF EntrySlot
  <1> HIDE DEF s
  <1>8. files' = files
    BY <1>3 DEF SameWork
  <1>9. /\ CoreInv' /\ layout' = layout /\ fs'.fat = fs.fat
        /\ \A c \in Entries : c # q.cluster => fs'.area[c] = fs.area[c]
        /\ SlotAt(fs', q) = s
        /\ \A p \in Slots : p # q => SlotAt(fs', p) = SlotAt(fs, p)
    BY <1>1, <1>2, <1>4, <1>5, <1>6, <1>7, <1>8, SlotCore
  <1>10. Named(fs', q, cmd.name)
    BY <1>7, <1>9 DEF Named, EntryAt
  <1>11. cmd.op = "rename" => NoEntry(fs', cmd.from)
    BY <1>6, <1>7, <1>9 DEF NoEntry, Named, EntryAt
  <1>12. WorkInv'
    BY <1>1, <1>3, WorkKeeps DEF Before, FilesInv
  <1>13. SlotInv'
    BY <1>3, <1>10, <1>11 DEF SlotInv, SameWork, At
  <1>14. GrowDirInv' /\ DoneInv'
    BY <1>3 DEF GrowDirInv, DoneInv
  <1>15. MovedInv'
    <2> SUFFICES ASSUME cmd.op = "rename", cmd.result # Unknown
                 PROVE  cmd.entry.first \in Clusters /\ ToSet(cmd.result) = {ContentsOf(fs', cmd.entry)}
      BY <1>3 DEF MovedInv, SameWork
    <2>1. At({"wipe", "create", "extend", "clear", "relink"})
      BY <1>1 DEF At
    <2>2. cmd.entry.first \in Clusters /\ ToSet(cmd.result) = {ContentsOf(fs, cmd.entry)}
      BY <1>1, <2>1 DEF Before, FilesInv, MovedInv
    <2>3. ContentsOf(fs', cmd.entry) = ContentsOf(fs, cmd.entry)
      BY <1>1, <1>4, <1>9, <2>1, MovedKeeps, EntriesLemma
    <2> QED
      BY <2>2, <2>3
  <1> QED
    BY <1>3, <1>9, <1>12, <1>13, <1>14, <1>15, EarlyStep

\* The last cluster of the directory.
LEMMA DirEnd ==
  ASSUME Good(fs), layout.dir \in Clusters
  PROVE  /\ Last(Chain(fs.fat, layout.dir)) \in Dir(fs)
         /\ fs.fat[Last(Chain(fs.fat, layout.dir))] = EndOfChain
         /\ \A x \in Dir(fs) : fs.fat[x] # 0
  <1> DEFINE s == Chain(fs.fat, layout.dir)
  <1>1. RootOf(fs, layout.dir) /\ Rooted(fs.fat, layout.dir) /\ fs.fat[layout.dir] # 0 /\ fs \in Disks
    BY DirLemma DEF Good, Sound
  <1>2. s \in Seq(Clusters) /\ Len(s) \in Nat \ {0} /\ ~InChain(fs.fat[Last(s)])
    BY <1>1, StopLemma
  <1>3. \A x \in Dir(fs) : fs.fat[x] # 0
    BY <1>1, UsedReach DEF Dir
  <1>4. Dir(fs) = {s[i] : i \in 1 .. Len(s)}
    BY <1>2 DEF Dir, Reach, ToSet
  <1> HIDE DEF s
  <1>5. Last(s) \in Dir(fs) /\ Last(s) \in Clusters
    BY <1>2, <1>4 DEF Last
  <1>6. fs.fat[Last(s)] \in FatValues /\ fs.fat[Last(s)] # 1
    BY <1>1, <1>5 DEF Rooted
  <1>7. fs.fat[Last(s)] = EndOfChain
    BY <1>2, <1>3, <1>5, <1>6, LinkValues
  <1> QED
    BY <1>3, <1>5, <1>7 DEF s

\* extend_dir_cluster_chain takes a free cluster: no entry is in it.
LEMMA ExtendDirFiles ==
  ASSUME Steps, ExtendDir
  PROVE  FilesInv'
  <1> DEFINE last == Last(Chain(fs.fat, layout.dir))
             next == FindFree(last)
  <1>1. /\ pc = "create" /\ WriteFat(next, EndOfChain) /\ FreeSlots = {}
        /\ GotoWith("extend", [cmd EXCEPT !.cluster = last, !.next = next])
        /\ Before /\ TypeInv' /\ IInv'
    BY DEF ExtendDir, Steps
  <1>2. /\ Invs /\ IInv /\ CoreInv /\ cmd \in Commands(cmd.result) /\ DisksInv /\ TypeInv
        /\ Good(fs) /\ layout.dir \in Clusters /\ EndOfChain \in FatValues
        /\ Dir(fs) \subseteq Clusters /\ RootOf(fs, layout.dir)
        /\ \A p \in Slots : EntryAt(fs, p) => p.cluster \in Dir(fs)
    BY <1>1, BeforeLemma, EntriesLemma
  <1>3. /\ last \in Dir(fs) /\ fs.fat[last] = EndOfChain /\ last \in Entries
        /\ \A x \in Dir(fs) : fs.fat[x] # 0
    BY <1>2, DirEnd, EntriesLemma
  <1>4. next \in Entries /\ fs.fat[next] = 0
    <2>1. next # 0
      BY <1>1 DEF Before, Room, DirectoryCanGrow
    <2>2. fs.fat \in [Entries -> FatValues]
      BY <1>2, DiskLemma DEF Good
    <2> HIDE DEF last
    <2> QED
      BY <1>3, <2>1, <2>2, FindFreeLemma
  <1> HIDE DEF last, next
  <1>5. SameWork /\ pc' = "extend" /\ cmd'.cluster = last /\ cmd'.next = next
    BY <1>1, <1>2 DEF Commands, GotoWith, SameWork
  <1>6. ~InZone(fs, next) /\ next \notin Dir(fs) /\ files' = files
    BY <1>2, <1>3, <1>4, <1>5, OutsideLemma DEF SameWork
  <1>7. /\ CoreInv' /\ layout' = layout
        /\ \A c \in Entries : c # next => fs'.fat[c] = fs.fat[c]
        /\ fs'.area = fs.area
        /\ \A p \in Slots : SlotAt(fs', p) = SlotAt(fs, p)
    BY <1>1, <1>2, <1>4, <1>6, FatCore
  <1>8. /\ NoEntry(fs, cmd.name)
        /\ cmd.op = "rename" => NoEntry(fs, cmd.from)
    BY <1>1 DEF Before, FilesInv, SlotInv, At
  <1>9. /\ NoEntry(fs', cmd.name)
        /\ cmd.op = "rename" => NoEntry(fs', cmd.from)
    BY <1>7, <1>8 DEF NoEntry, Named, EntryAt
  <1>10. WorkInv'
    BY <1>1, <1>5, WorkKeeps DEF Before, FilesInv
  <1>11. SlotInv'
    BY <1>5, <1>9 DEF SlotInv, SameWork, At
  <1>12. DoneInv'
    BY <1>5 DEF DoneInv
  <1>13. GrowDirInv'
    <2>1. Dir(fs)' = Dir(fs)
      <3>1. Rooted(fs.fat, layout.dir)
        BY <1>2, DirLemma
      <3>2. \A x \in Reach(fs.fat, layout.dir) : fs'.fat[x] = fs.fat[x]
        BY <1>2, <1>6, <1>7, EntriesLemma DEF Dir
      <3> QED
        BY <1>7, <3>1, <3>2, ReachSame DEF Dir
    <2>2. fs'.fat[last] = EndOfChain
      BY <1>3, <1>6, <1>7
    <2>3. Plain(fs', next)
      BY <1>2, <1>6, <1>7 DEF Plain, EntryAt
    <2> QED
      BY <1>3, <1>5, <2>1, <2>2, <2>3 DEF GrowDirInv, Plain
  <1>14. MovedInv'
    <2> SUFFICES ASSUME cmd.op = "rename", cmd.result # Unknown
                 PROVE  cmd.entry.first \in Clusters /\ ToSet(cmd.result) = {ContentsOf(fs', cmd.entry)}
      BY <1>5 DEF MovedInv, SameWork
    <2>1. At({"wipe", "create", "extend", "clear", "relink"})
      BY <1>1 DEF At
    <2>2. cmd.entry.first \in Clusters /\ ToSet(cmd.result) = {ContentsOf(fs, cmd.entry)}
      BY <1>1, <2>1 DEF Before, FilesInv, MovedInv
    <2>3. ContentsOf(fs', cmd.entry) = ContentsOf(fs, cmd.entry)
      BY <1>1, <1>4, <1>7, <2>1, MovedKeeps, EntriesLemma
    <2> QED
      BY <2>2, <2>3
  <1> QED
    BY <1>5, <1>7, <1>10, <1>11, <1>12, <1>13, <1>14, EarlyStep

\* The new cluster is part of the directory.
LEMMA ChainDirFiles ==
  ASSUME Steps, ChainDir
  PROVE  FilesInv'
  <1> DEFINE b == cmd.cluster
             next == cmd.next
  <1>1. /\ pc = "extend" /\ WriteFat(b, next) /\ Goto("clear")
        /\ Before /\ TypeInv' /\ IInv'
    BY DEF ChainDir, Steps
  <1>2. /\ Invs /\ IInv /\ CoreInv /\ cmd \in Commands(cmd.result) /\ DisksInv /\ TypeInv
        /\ Good(fs) /\ layout.dir \in Clusters /\ b \in Entries /\ next \in FatValues
        /\ Dir(fs) \subseteq Clusters
    BY <1>1, BeforeLemma, EntriesLemma
  <1>3. /\ b \in Dir(fs) /\ fs.fat[b] = EndOfChain /\ Plain(fs, next)
        /\ next \in Clusters
    BY <1>1, <1>2 DEF Before, FilesInv, GrowDirInv, IInv, ExtendInv, NewCluster
  <1>4. SameWork /\ pc' = "clear" /\ cmd' = cmd
    BY <1>1 DEF Goto, SameWork
  <1>5. ~InZone(fs, b) /\ files' = files /\ ~InChain(fs.fat[b])
    BY <1>2, <1>3, <1>4, OutsideLemma, EntriesLemma DEF SameWork, InChain, EndOfChain
  <1>6. /\ CoreInv' /\ layout' = layout
        /\ fs'.fat[b] = next
        /\ \A c \in Entries : c # b => fs'.fat[c] = fs.fat[c]
        /\ fs'.area = fs.area
        /\ \A p \in Slots : SlotAt(fs', p) = SlotAt(fs, p)
    BY <1>1, <1>2, <1>5, FatCore
  <1>7. /\ NoEntry(fs, cmd.name)
        /\ cmd.op = "rename" => NoEntry(fs, cmd.from)
    BY <1>1 DEF Before, FilesInv, SlotInv, At
  <1>8. /\ NoEntry(fs', cmd.name)
        /\ cmd.op = "rename" => NoEntry(fs', cmd.from)
    BY <1>6, <1>7 DEF NoEntry, Named, EntryAt
  <1>9. WorkInv'
    BY <1>1, <1>4, WorkKeeps DEF Before, FilesInv
  <1>10. SlotInv'
    BY <1>4, <1>8 DEF SlotInv, At
  <1>11. DoneInv'
    BY <1>4 DEF DoneInv
  <1>12. GrowDirInv'
    <2>1. Good(fs')
      BY <1>1, <1>6, GoodPrime
    <2>2. Dir(fs) \subseteq Dir(fs')
      <3>1. \A c \in Dir(fs) : InChain(fs.fat[c]) => fs'.fat[c] = fs.fat[c]
        BY <1>2, <1>5, <1>6, EntriesLemma
      <3> QED
        BY <1>2, <2>1, <3>1, DirGrows
    <2>3. next \in Dir(fs')
      <3>1. InChain(fs'.fat[b])
        BY <1>3, <1>6, EntriesLemma DEF InChain, EndOfChain
      <3> QED
        BY <1>2, <1>3, <1>6, <2>1, <2>2, <3>1, DirLemma DEF Closed
    <2>4. Plain(fs', next)
      BY <1>3, <1>6 DEF Plain, EntryAt
    <2> QED
      BY <1>4, <1>6, <2>3, <2>4 DEF GrowDirInv, Plain, Dir
  <1>13. MovedInv'
    <2> SUFFICES ASSUME cmd.op = "rename", cmd.result # Unknown
                 PROVE  cmd.entry.first \in Clusters /\ ToSet(cmd.result) = {ContentsOf(fs', cmd.entry)}
      BY <1>4 DEF MovedInv
    <2>1. At({"wipe", "create", "extend", "clear", "relink"})
      BY <1>1 DEF At
    <2>2. cmd.entry.first \in Clusters /\ ToSet(cmd.result) = {ContentsOf(fs, cmd.entry)}
      BY <1>1, <2>1 DEF Before, FilesInv, MovedInv
    <2>3. ContentsOf(fs', cmd.entry) = ContentsOf(fs, cmd.entry)
      BY <1>1, <1>3, <1>6, <2>1, MovedKeeps, EntriesLemma
    <2> QED
      BY <2>2, <2>3
  <1> QED
    BY <1>4, <1>6, <1>9, <1>10, <1>11, <1>12, <1>13, EarlyStep

\* wipe_cluster: all its slots are free.
LEMMA ClearClusterFiles ==
  ASSUME Steps, ClearCluster
  PROVE  FilesInv'
  <1> DEFINE b == cmd.next
  <1>1. /\ pc = "clear" /\ WriteArea(b, EmptyDirectory) /\ FlushThen("create")
        /\ Before /\ TypeInv' /\ IInv'
    BY NewClusterLemma DEF Steps, Before
  <1>2. /\ Invs /\ IInv /\ CoreInv /\ cmd \in Commands(cmd.result) /\ DisksInv /\ TypeInv
        /\ Good(fs) /\ layout.dir \in Clusters /\ b \in Entries
    BY <1>1, BeforeLemma
  <1>3. b \in Dir(fs) /\ Plain(fs, b)
    BY <1>1 DEF Before, FilesInv, GrowDirInv
  <1>4. SameWork /\ pc' = "flush" /\ cmd'.then = "create"
    BY <1>1, <1>2, FlushWork
  <1>5. ~InZone(fs, b) /\ files' = files
    BY <1>2, <1>3, <1>4, OutsideLemma DEF SameWork
  <1>6. /\ EmptyDirectory \in Contents
        /\ \A i \in 1 .. SlotsPerCluster : EmptyDirectory.slots[i].state # "entry"
    <2>1. EmptyDirectory \in DirContents
      BY SlotValueLemma DEF EmptyDirectory, Directory, DirContents
    <2>2. EmptyDirectory.slots = [i \in 1 .. SlotsPerCluster |-> FreeSlot]
      BY DEF EmptyDirectory, Directory
    <2> QED
      BY <2>1, <2>2, ContentsLemma, SlotValueLemma
  <1>7. /\ CoreInv' /\ layout' = layout /\ fs'.fat = fs.fat
        /\ \A c \in Entries : c # b => fs'.area[c] = fs.area[c]
        /\ \A p \in Slots : /\ EntryAt(fs', p) <=> EntryAt(fs, p)
                            /\ EntryAt(fs, p) => SlotAt(fs', p) = SlotAt(fs, p)
    <2>1. \A p \in Slots : p.cluster = b => ~EntryAt(fs, p)
      BY <1>3 DEF Plain
    <2> QED
      BY <1>1, <1>2, <1>5, <1>6, <2>1, AreaCore
  <1>8. /\ NoEntry(fs, cmd.name)
        /\ cmd.op = "rename" => NoEntry(fs, cmd.from)
    BY <1>1 DEF Before, FilesInv, SlotInv, At
  <1>9. /\ NoEntry(fs', cmd.name)
        /\ cmd.op = "rename" => NoEntry(fs', cmd.from)
    BY <1>7, <1>8 DEF NoEntry, Named
  <1>10. WorkInv'
    BY <1>1, <1>4, WorkKeeps DEF Before, FilesInv
  <1>11. SlotInv'
    BY <1>4, <1>9 DEF SlotInv, SameWork, At
  <1>12. DoneInv' /\ GrowDirInv'
    BY <1>4 DEF DoneInv, GrowDirInv
  <1>13. MovedInv'
    <2> SUFFICES ASSUME cmd.op = "rename", cmd.result # Unknown
                 PROVE  cmd.entry.first \in Clusters /\ ToSet(cmd.result) = {ContentsOf(fs', cmd.entry)}
      BY <1>4 DEF MovedInv, SameWork
    <2>1. At({"wipe", "create", "extend", "clear", "relink"})
      BY <1>1 DEF At
    <2>2. cmd.entry.first \in Clusters /\ ToSet(cmd.result) = {ContentsOf(fs, cmd.entry)}
      BY <1>1, <2>1 DEF Before, FilesInv, MovedInv
    <2>3. ContentsOf(fs', cmd.entry) = ContentsOf(fs, cmd.entry)
      BY <1>1, <1>3, <1>7, <2>1, MovedKeeps, EntriesLemma
    <2> QED
      BY <2>2, <2>3
  <1> QED
    BY <1>4, <1>7, <1>10, <1>11, <1>12, <1>13, EarlyStep

\* find_contiguous_clusters and find_free_cluster find a free cluster.
LEMMA FirstIsFree ==
  ASSUME TypeInv, SearchEnds(cmd.n), FirstFree # 0
  PROVE  FirstFree \in Entries /\ fs.fat[FirstFree] = 0
  <1>1. fs.fat \in [Entries -> FatValues] /\ 0 \in Entries
    BY DiskLemma, EntriesLemma DEF TypeInv, TypeOK
  <1>2. cmd.op = "put" => cmd.n \in Nat \ {0}
    BY DEF TypeInv
  <1>3. FindFree(0) \in Entries /\ (FindFree(0) # 0 => fs.fat[FindFree(0)] = 0)
    BY <1>1, FindFreeLemma
  <1>4. CASE cmd.op # "put"
    BY <1>3, <1>4 DEF FirstFree
  <1>5. CASE cmd.op = "put" /\ cmd.n = 1
    BY <1>1, <1>3, <1>5, FindRunLemma DEF FirstFree
  <1>6. CASE cmd.op = "put" /\ cmd.n # 1
    <2>1. FirstFree = FindRun(cmd.n) /\ FindRun(cmd.n) \in Runs(cmd.n)
      BY <1>1, <1>2, <1>6, FindRunLemma DEF FirstFree
    <2> QED
      BY <2>1, EntriesLemma DEF Runs
  <1> QED
    BY <1>4, <1>5, <1>6

\* The first cluster of a file or a directory is a free one.
LEMMA AllocateFirstFiles ==
  ASSUME Steps, AllocateFirst
  PROVE  FilesInv'
  <1> DEFINE c == FirstFree
  <1>1. /\ pc = "first" /\ WriteFat(c, EndOfChain) /\ SearchEnds(cmd.n) /\ c # 0
        /\ GotoWith("link", [cmd EXCEPT !.cluster = c])
        /\ Before /\ TypeInv' /\ IInv'
    BY DEF AllocateFirst, Steps
  <1>2. /\ Invs /\ IInv /\ CoreInv /\ cmd \in Commands(cmd.result) /\ DisksInv /\ TypeInv
        /\ Good(fs) /\ layout.dir \in Clusters /\ EndOfChain \in FatValues
    BY <1>1, BeforeLemma, EntriesLemma
  <1>3. c \in Entries /\ fs.fat[c] = 0
    BY <1>1, <1>2, FirstIsFree
  <1> HIDE DEF c
  <1>4. SameWork /\ pc' = "link" /\ cmd'.cluster = c /\ cmd'.slot = cmd.slot
    BY <1>1, <1>2 DEF Commands, GotoWith, SameWork
  <1>5. ~InZone(fs, c) /\ c \notin Dir(fs) /\ files' = files
    BY <1>2, <1>3, <1>4, OutsideLemma, DirEnd DEF SameWork
  <1>6. CoreInv' /\ \A p \in Slots : SlotAt(fs', p) = SlotAt(fs, p)
    BY <1>1, <1>2, <1>3, <1>5, FatCore
  <1>7. Named(fs, cmd.slot, cmd.name) /\ cmd.slot \in Slots
    BY <1>1, BeforeLemma DEF Before, FilesInv, SlotInv, At
  <1>8. Named(fs', cmd.slot, cmd.name)
    BY <1>6, <1>7 DEF Named, EntryAt
  <1>9. WorkInv'
    BY <1>1, <1>4, WorkKeeps DEF Before, FilesInv
  <1>10. SlotInv'
    BY <1>4, <1>8 DEF SlotInv, SameWork, At
  <1>11. GrowDirInv' /\ DoneInv' /\ MovedInv'
    BY <1>4 DEF GrowDirInv, DoneInv, MovedInv, At
  <1> QED
    BY <1>4, <1>6, <1>9, <1>10, <1>11, EarlyStep

\* "Failed to find a free cluster." ends the command.
LEMMA CoreUnchanged ==
  ASSUME CoreInv, fs' = fs, card' = card, layout' = layout, files' = files
  PROVE  CoreInv'
  BY DEF CoreInv, DirOK, Dir, KnownOK, Has, Agree, Stored, EntriesOf, Positions

\* upload_single_file gives up: nothing changed.
LEMMA NoFreeClusterFiles ==
  ASSUME Steps, NoFreeCluster
  PROVE  FilesInv'
  <1>1. /\ pc' = "prompt" /\ fs' = fs /\ card' = card /\ layout' = layout /\ files' = files
        /\ CoreInv
    BY BeforeLemma DEF NoFreeCluster, Steps
  <1>2. CoreInv'
    BY <1>1, CoreUnchanged
  <1>3. WorkInv' /\ SlotInv' /\ GrowDirInv' /\ MovedInv' /\ DoneInv'
    BY <1>1 DEF WorkInv, SlotInv, GrowDirInv, MovedInv, DoneInv, At
  <1> QED
    BY <1>1, <1>2, <1>3, EarlyStep

\* A write of the slot at hand that keeps the name and the kind of its entry.
LEMMA EntryWrite ==
  ASSUME Steps, NEW s \in SlotValues, WriteSlot(cmd.slot, s), files' = files, pc # "prompt",
         Named(fs, cmd.slot, cmd.name),
         s.state = "entry", s.name = cmd.name, s.isDir = SlotAt(fs, cmd.slot).isDir
  PROVE  /\ CoreInv' /\ layout' = layout /\ fs'.fat = fs.fat /\ Good(fs')
         /\ cmd.slot.cluster \in Dir(fs)
         /\ \A c \in Entries : c # cmd.slot.cluster => fs'.area[c] = fs.area[c]
         /\ SlotAt(fs', cmd.slot) = s /\ Named(fs', cmd.slot, cmd.name)
         /\ \A p \in Slots : p # cmd.slot => SlotAt(fs', p) = SlotAt(fs, p)
         /\ Stored(fs', cmd.name) = {ContentsOf(fs', s)}
         /\ \A p \in Slots : Named(fs', p, cmd.name) => p = cmd.slot
  <1> DEFINE q == cmd.slot
  <1>1. /\ Before /\ TypeInv' /\ IInv' /\ Invs /\ CoreInv /\ q \in Slots /\ Good(fs) /\ layout.dir \in Clusters
        /\ \A p \in Slots : EntryAt(fs, p) => p.cluster \in Dir(fs)
    BY BeforeLemma DEF Steps
  <1>2. EntryAt(fs, q) /\ SlotAt(fs, q).name = cmd.name /\ files[cmd.name] = Unknown
    BY <1>1 DEF Named, Before, FilesInv, WorkInv
  <1>3. fs.area[q.cluster].kind = "dir" /\ q.cluster \in Dir(fs)
    BY <1>1, <1>2, EntryLeads
  <1>4. s.isDir <=> s.name \in DirNames
    BY <1>1, <1>2 DEF CoreInv, KindOK
  <1> HIDE DEF q
  <1>5. /\ CoreInv' /\ layout' = layout /\ fs'.fat = fs.fat
        /\ \A c \in Entries : c # q.cluster => fs'.area[c] = fs.area[c]
        /\ SlotAt(fs', q) = s
        /\ \A p \in Slots : p # q => SlotAt(fs', p) = SlotAt(fs, p)
    <2>1. WriteSlot(q, s)
      BY DEF q
    <2> QED
      BY <1>1, <1>2, <1>3, <1>4, <2>1, SlotCore
  <1>6. Good(fs')
    BY <1>1, <1>5, GoodPrime
  <1>7. \A p \in Slots : Named(fs', p, cmd.name) <=> p = q
    BY <1>1, <1>2, <1>5 DEF Named, EntryAt, CoreInv, OneName
  <1>8. \A p \in Slots : EntryAt(fs', p) => p.cluster \in Dir(fs')
    BY <1>1, <1>2, <1>5 DEF EntryAt, Dir
  <1>9. Stored(fs', cmd.name) = {ContentsOf(fs', SlotAt(fs', p)) : p \in {t \in Slots : Named(fs', t, cmd.name)}}
    BY <1>1, <1>6, <1>8, StoredLemma
  <1>10. Stored(fs', cmd.name) = {ContentsOf(fs', s)}
    BY <1>1, <1>5, <1>7, <1>9
  <1> QED
    BY <1>1, <1>3, <1>5, <1>6, <1>7, <1>10 DEF q

\* The entry gets its first cluster.
LEMMA LinkEntryFiles ==
  ASSUME Steps, LinkEntry
  PROVE  FilesInv'
  <1> DEFINE s == [SlotAt(fs, cmd.slot) EXCEPT !.first = cmd.cluster]
  <1>1. /\ pc = "link" /\ WriteSlot(cmd.slot, s) /\ pc' = "data" /\ cmd' = cmd /\ files' = files
        /\ Before /\ TypeInv' /\ IInv'
    BY DEF LinkEntry, Goto, Steps
  <1>2. /\ Invs /\ IInv /\ TypeInv /\ cmd \in Commands(cmd.result) /\ Good(fs) /\ cmd.slot \in Slots
        /\ cmd.cluster \in Entries /\ fs \in Disks
    BY <1>1, BeforeLemma DEF Good
  <1>3. Named(fs, cmd.slot, cmd.name)
    BY <1>1 DEF Before, FilesInv, SlotInv, At
  <1>4. SlotAt(fs, cmd.slot) \in SlotEntries
    BY <1>2, <1>3, SlotAtLemma, SlotValueLemma DEF Named, EntryAt
  <1>5. /\ s \in SlotValues /\ s.state = "entry" /\ s.name = cmd.name
        /\ s.isDir = SlotAt(fs, cmd.slot).isDir /\ s.first = cmd.cluster
    <2> DEFINE o == SlotAt(fs, cmd.slot)
    <2>1. o \in SlotEntries /\ o.name = cmd.name
      BY <1>3, <1>4 DEF Named
    <2> HIDE DEF o
    <2>2. LET t == [o EXCEPT !.first = cmd.cluster]
          IN  /\ t \in SlotValues /\ t.state = "entry" /\ t.name = o.name /\ t.isDir = o.isDir
              /\ t.first = cmd.cluster
      BY <1>2, <2>1, SlotValueLemma DEF SlotEntries
    <2> QED
      BY <2>1, <2>2 DEF o
  <1> HIDE DEF s
  <1>6. /\ CoreInv' /\ layout' = layout /\ fs'.fat = fs.fat
        /\ SlotAt(fs', cmd.slot) = s /\ Named(fs', cmd.slot, cmd.name)
    BY <1>1, <1>3, <1>5, EntryWrite
  <1>7. /\ cmd.part = 0 /\ cmd.cluster \in Clusters /\ fs.fat[cmd.cluster] = EndOfChain
    BY <1>1, <1>2 DEF IInv, OpInv, At, LinkInv, NewCluster
  <1>8. WorkInv'
    <2>1. SameWork
      BY <1>1 DEF SameWork
    <2> QED
      BY <1>1, <2>1, WorkKeeps DEF Before, FilesInv
  <1>9. SlotInv' /\ GrowDirInv' /\ DoneInv' /\ MovedInv'
    BY <1>1, <1>6 DEF SlotInv, GrowDirInv, DoneInv, MovedInv, At
  <1>10. RowInv'
    <2>1. Start' = cmd.cluster /\ cmd.cluster \in Nat
      BY <1>1, <1>7, EntriesLemma DEF Start
    <2> QED
      BY <1>1, <1>5, <1>6, <1>7, <2>1 DEF RowInv
  <1> QED
    BY <1>6, <1>8, <1>9, <1>10 DEF FilesInv

\* rename_file_or_dir: the new name has what the old one had.
LEMMA RelinkFiles ==
  ASSUME Steps, Relink
  PROVE  FilesInv'
  <1> DEFINE s == [SlotAt(fs, cmd.slot) EXCEPT !.first = cmd.entry.first, !.size = cmd.entry.size]
             e == cmd.entry
  <1>1. /\ pc = "relink" /\ WriteSlot(cmd.slot, s) /\ FlushThen("prompt")
        /\ Before /\ TypeInv' /\ IInv'
    BY DEF Relink, Steps
  <1>2. /\ Invs /\ IInv /\ TypeInv /\ cmd \in Commands(cmd.result) /\ Good(fs) /\ cmd.slot \in Slots
        /\ fs \in Disks /\ CoreInv /\ NamesApart
    BY <1>1, BeforeLemma DEF Good, Before
  <1>3. /\ Named(fs, cmd.slot, cmd.name) /\ cmd.op = "rename" /\ NoEntry(fs, cmd.from)
        /\ cmd.from # cmd.name /\ ~e.isDir /\ cmd.name \in FileNames
    <2>1. cmd.op = "rename"
      BY <1>1, <1>2 DEF TypeInv, RelinkInv
    <2> QED
      BY <1>1, <2>1 DEF Before, FilesInv, SlotInv, WorkInv, At
  <1>4. SlotAt(fs, cmd.slot) \in SlotEntries /\ e \in SlotEntries /\ e.first \in Entries /\ e.size \in Nat
    BY <1>2, <1>3, SlotAtLemma, SlotValueLemma DEF Named, EntryAt, TypeInv
  <1>5. /\ s \in SlotValues /\ s.state = "entry" /\ s.name = cmd.name
        /\ s.isDir = SlotAt(fs, cmd.slot).isDir /\ s.first = e.first /\ s.size = e.size
    <2> DEFINE o == SlotAt(fs, cmd.slot)
    <2>1. o \in SlotEntries /\ o.name = cmd.name
      BY <1>3, <1>4 DEF Named
    <2> HIDE DEF o
    <2>2. LET t == [o EXCEPT !.first = e.first, !.size = e.size]
          IN  /\ t \in SlotValues /\ t.state = "entry" /\ t.name = o.name /\ t.isDir = o.isDir
              /\ t.first = e.first /\ t.size = e.size
      BY <1>4, <2>1, SlotValueLemma DEF SlotEntries
    <2> QED
      BY <2>1, <2>2 DEF o
  <1>6. s.isDir = e.isDir
    <2>1. ~SlotAt(fs, cmd.slot).isDir
      BY <1>2, <1>3 DEF CoreInv, KindOK, Named, NamesApart
    <2>2. SlotAt(fs, cmd.slot).isDir \in BOOLEAN /\ e.isDir \in BOOLEAN
      BY <1>4, SlotValueLemma
    <2> QED
      BY <1>3, <1>5, <2>1, <2>2
  <1>7. SameWork /\ pc' = "flush" /\ cmd'.then = "prompt"
    BY <1>1, <1>2, FlushWork
  <1>8. files' = files
    BY <1>7 DEF SameWork
  <1> HIDE DEF s
  <1>9. /\ CoreInv' /\ layout' = layout /\ fs'.fat = fs.fat
        /\ cmd.slot.cluster \in Dir(fs)
        /\ \A c \in Entries : c # cmd.slot.cluster => fs'.area[c] = fs.area[c]
        /\ SlotAt(fs', cmd.slot) = s
        /\ \A p \in Slots : p # cmd.slot => SlotAt(fs', p) = SlotAt(fs, p)
        /\ Stored(fs', cmd.name) = {ContentsOf(fs', s)}
        /\ \A p \in Slots : Named(fs', p, cmd.name) => p = cmd.slot
    BY <1>1, <1>3, <1>5, <1>8, EntryWrite
  <1>10. WorkInv'
    BY <1>1, <1>7, WorkKeeps DEF Before, FilesInv
  <1>11. SlotInv' /\ GrowDirInv' /\ MovedInv'
    BY <1>7 DEF SlotInv, GrowDirInv, MovedInv, At
  <1>12. DoneInv'
    <2>1. NoEntry(fs', cmd.from)
      BY <1>3, <1>5, <1>9 DEF NoEntry, Named, EntryAt
    <2>2. ASSUME cmd.result # Unknown
          PROVE  Has(fs', cmd.name, cmd.result)
      <3>1. At({"wipe", "create", "extend", "clear", "relink"})
        BY <1>1 DEF At
      <3>2. e.first \in Clusters /\ ToSet(cmd.result) = {ContentsOf(fs, e)}
        BY <1>1, <1>3, <2>2, <3>1 DEF Before, FilesInv, MovedInv
      <3>3. ContentsOf(fs', e) = ContentsOf(fs, e)
        BY <1>1, <1>3, <1>9, <2>2, <3>1, MovedKeeps, EntriesLemma
      <3>4. ContentsOf(fs', s) = ContentsOf(fs', e)
        BY <1>5, <1>6 DEF ContentsOf
      <3> QED
        BY <1>5, <1>9, <3>2, <3>3, <3>4 DEF Has
    <2> QED
      BY <1>7, <1>9, <2>1, <2>2, DonePrime DEF SameWork
  <1> QED
    BY <1>7, <1>9, <1>10, <1>11, <1>12, EarlyStep

\* While a file is written its clusters are one behind the other, up to m of them.
LEMMA RowFacts ==
  ASSUME Before, pc \in {"data", "grow", "chain", "size"}
  PROVE  /\ Named(fs, cmd.slot, cmd.name) /\ files[cmd.name] = Unknown
         /\ Start \in Clusters /\ Start \in Nat /\ cmd.part \in Nat /\ cmd.n \in Nat \ {0}
         /\ cmd.op \in {"put", "mkdir"}
         /\ cmd.cluster \in Clusters /\ cmd.cluster \in Nat
         /\ cmd.cluster = IF pc = "data" THEN Start + cmd.part ELSE Start + cmd.part - 1
         /\ pc # "data" => cmd.part >= 1
         /\ cmd.cluster \in Reach(fs.fat, Start)
         /\ \E m \in Nat \ {0} :
              /\ DOMAIN Chain(fs.fat, Start) = 1 .. m /\ (\A k \in 1 .. m : Chain(fs.fat, Start)[k] = Start + k - 1)
              /\ Reach(fs.fat, Start) = Start .. Start + m - 1
              /\ fs.fat[cmd.cluster] = EndOfChain => m = cmd.cluster - Start + 1
         /\ \A x \in Reach(fs.fat, Start) :
              x \in Clusters /\ x \notin Dir(fs) /\ fs.fat[x] # 0 /\ ~InZone(fs, x)
  <1>1. /\ TypeInv /\ IInv /\ DisksInv /\ CoreInv /\ Good(fs) /\ layout.dir \in Clusters
        /\ cmd \in Commands(cmd.result) /\ cmd.slot \in Slots /\ cmd.cluster \in Entries
    BY BeforeLemma
  <1>2. /\ Named(fs, cmd.slot, cmd.name) /\ files[cmd.name] = Unknown
        /\ Start \in Clusters /\ SlotAt(fs, cmd.slot).first = Start
        /\ \A k \in 1 .. (cmd.cluster - Start) : fs.fat[Start + k - 1] = Start + k
        /\ pc = "data" => fs.fat[cmd.cluster] = EndOfChain
                            \/ fs.fat[cmd.cluster + cmd.n - cmd.part - 1] = EndOfChain
        /\ pc = "size" => cmd.part = cmd.n /\ fs.fat[cmd.cluster] = EndOfChain
    BY DEF Before, FilesInv, SlotInv, WorkInv, RowInv, At
  <1>3. cmd.op \in {"put", "mkdir"} /\ cmd.part \in Nat /\ cmd.n \in Nat \ {0}
    BY <1>1 DEF IInv, OpInv, At, TypeInv, Commands
  <1>4. Start \in Nat /\ cmd.cluster \in Nat /\ Start >= 2
    BY <1>1, <1>2, EntriesLemma
  <1>5. cmd.cluster = IF pc = "data" THEN Start + cmd.part ELSE Start + cmd.part - 1
    <2>1. Start = IF pc = "data" THEN cmd.cluster - cmd.part ELSE cmd.cluster - cmd.part + 1
      BY DEF Start
    <2> QED
      BY <1>3, <1>4, <2>1
  <1>6. pc # "data" => cmd.part >= 1
    BY <1>1, <1>2, <1>3 DEF IInv, GrowInv, ChainInv
  <1>7. cmd.cluster \in Clusters
    BY <1>1, <1>3, <1>4, <1>5, <1>6, EntriesLemma
  <1>8. RootOf(fs, Start) /\ Rooted(fs.fat, Start) /\ fs.fat[Start] # 0 /\ Start # layout.dir
    <2>1. EntryAt(fs, cmd.slot)
      BY <1>2 DEF Named
    <2> QED
      BY <1>1, <1>2, <2>1, EntryRoot, EntryOutside, RootLemma
  <1>9. \A x \in Reach(fs.fat, Start) :
              x \in Clusters /\ x \notin Dir(fs) /\ fs.fat[x] # 0 /\ ~InZone(fs, x)
    <2>1. EntryAt(fs, cmd.slot) /\ files[SlotAt(fs, cmd.slot).name] = Unknown
      BY <1>2 DEF Named
    <2> QED
      BY <1>1, <1>2, <1>8, <2>1, RootOutside, UsedReach, OutsideLemma
  <1> DEFINE first == Start
             b == cmd.cluster
  <1>10. \E m \in Nat \ {0} :
              /\ DOMAIN Chain(fs.fat, first) = 1 .. m /\ (\A k \in 1 .. m : Chain(fs.fat, first)[k] = first + k - 1)
              /\ Reach(fs.fat, first) = first .. first + m - 1
              /\ fs.fat[b] = EndOfChain => m = b - first + 1
              /\ b \in first .. first + m - 1
    <2>0. /\ first \in Nat /\ b \in Nat /\ b >= first /\ b \in Clusters /\ Rooted(fs.fat, first)
          /\ \A k \in 1 .. (b - first) : fs.fat[first + k - 1] = first + k
      BY <1>2, <1>3, <1>4, <1>5, <1>6, <1>7, <1>8
    <2>0a. ASSUME NEW n \in Nat \ {0}, first + n - 1 \in Clusters,
                  \A k \in 1 .. n - 1 : fs.fat[first + k - 1] = first + k,
                  fs.fat[first + n - 1] = EndOfChain
           PROVE  /\ DOMAIN Chain(fs.fat, first) = 1 .. n /\ (\A k \in 1 .. n : Chain(fs.fat, first)[k] = first + k - 1)
                  /\ Reach(fs.fat, first) = first .. first + n - 1
      <3> HIDE DEF first, b
      <3>1. Rooted(fs.fat, first)
        BY <2>0
      <3> DEFINE last == first + n - 1
      <3>2. last = first + n - 1 /\ last \in Clusters /\ fs.fat[last] = EndOfChain
        BY <2>0a
      <3> HIDE DEF last
      <3>3. /\ DOMAIN Chain(fs.fat, first) = 1 .. n
            /\ \A k \in 1 .. n : Chain(fs.fat, first)[k] = first + k - 1
        BY <2>0a, <3>1, <3>2, RowChain
      <3>4. Reach(fs.fat, first) = first .. last
        BY <2>0a, <3>1, <3>2, RowChain
      <3> QED
        BY <3>2, <3>3, <3>4
    <2>1. CASE fs.fat[b] = EndOfChain
      <3> DEFINE m == b - first + 1
      <3>1. m \in Nat \ {0} /\ first + m - 1 = b /\ m - 1 = b - first
        BY <2>0
      <3>2. \A k \in 1 .. m - 1 : fs.fat[first + k - 1] = first + k
        BY <2>0, <3>1
      <3> HIDE DEF m, first, b
      <3>3. /\ DOMAIN Chain(fs.fat, first) = 1 .. m /\ (\A k \in 1 .. m : Chain(fs.fat, first)[k] = first + k - 1)
            /\ Reach(fs.fat, first) = first .. first + m - 1
        <4>1. first + m - 1 \in Clusters /\ fs.fat[first + m - 1] = EndOfChain
          BY <2>0, <2>1, <3>1
        <4> QED
          BY <2>0a, <3>1, <3>2, <4>1
      <3>4. b \in first .. first + m - 1 /\ m = b - first + 1
        BY <2>0, <3>1
      <3> QED
        BY <3>1, <3>3, <3>4
    <2>2. CASE fs.fat[b] # EndOfChain
      <3>1. pc = "data" /\ fs.fat[b + cmd.n - cmd.part - 1] = EndOfChain
        BY <1>1, <1>2, <2>2 DEF IInv, GrowInv, ChainInv
      <3>2. b = first + cmd.part /\ cmd.part \in 0 .. cmd.n - 1
            /\ \A k \in 1 .. cmd.n - cmd.part - 1 : b + k \in Clusters /\ fs.fat[b + k - 1] = b + k
        BY <1>1, <1>5, <2>2, <3>1 DEF IInv, DataInv, ChainedFrom
      <3> HIDE DEF first, b
      <3>3. /\ first + cmd.n - 1 = b + cmd.n - cmd.part - 1 /\ cmd.n - cmd.part - 1 \in Nat
            /\ b - first = cmd.part
        BY <1>3, <2>0, <3>2
      <3>4. first + cmd.n - 1 \in Clusters
        <4>1. CASE cmd.n - cmd.part - 1 = 0
          BY <2>0, <3>3, <4>1
        <4>2. CASE cmd.n - cmd.part - 1 # 0
          <5>1. cmd.n - cmd.part - 1 \in 1 .. cmd.n - cmd.part - 1
            BY <1>3, <3>3, <4>2
          <5>2. b + (cmd.n - cmd.part - 1) \in Clusters
            BY <3>2, <5>1
          <5>3. b + (cmd.n - cmd.part - 1) = first + cmd.n - 1
            BY <1>3, <2>0, <3>2
          <5> QED
            BY <5>2, <5>3
        <4> QED
          BY <4>1, <4>2
      <3>5. \A k \in 1 .. cmd.n - 1 : fs.fat[first + k - 1] = first + k
        <4> SUFFICES ASSUME NEW k \in 1 .. cmd.n - 1
                     PROVE  fs.fat[first + k - 1] = first + k
          OBVIOUS
        <4>1. CASE k <= b - first
          BY <2>0, <4>1
        <4>2. CASE k > b - first
          <5>1. k - cmd.part \in 1 .. cmd.n - cmd.part - 1
            BY <1>3, <3>2, <3>3, <4>2
          <5>2. b + (k - cmd.part) - 1 = first + k - 1 /\ b + (k - cmd.part) = first + k
            BY <1>3, <2>0, <3>2
          <5>3. fs.fat[b + (k - cmd.part) - 1] = b + (k - cmd.part)
            BY <3>2, <5>1
          <5> QED
            BY <5>2, <5>3
        <4> QED
          BY <1>3, <2>0, <4>1, <4>2
      <3>6. fs.fat[first + cmd.n - 1] = EndOfChain
        BY <3>1, <3>3 DEF b
      <3>7. /\ DOMAIN Chain(fs.fat, first) = 1 .. cmd.n /\ (\A k \in 1 .. cmd.n : Chain(fs.fat, first)[k] = first + k - 1)
            /\ Reach(fs.fat, first) = first .. first + cmd.n - 1
        BY <1>3, <2>0a, <3>4, <3>5, <3>6
      <3>8. b \in first .. first + cmd.n - 1
        BY <1>3, <2>0, <3>2
      <3> QED
        BY <1>3, <2>2, <3>7, <3>8 DEF b
    <2> QED
      BY <2>1, <2>2
  <1>11. cmd.cluster \in Reach(fs.fat, Start)
    BY <1>10
  <1> QED
    BY <1>2, <1>3, <1>4, <1>5, <1>6, <1>7, <1>9, <1>10, <1>11

\* What RowInv asks of the next state.
LEMMA RowPrime ==
  ASSUME Start' \in Clusters, SlotAt(fs', cmd'.slot).first = Start',
         \A k \in 1 .. cmd'.part : fs'.area[Start' + k - 1] = Part(k)',
         \A k \in 1 .. (cmd'.cluster - Start') : fs'.fat[Start' + k - 1] = Start' + k,
         pc' = "data" => fs'.fat[cmd'.cluster] = EndOfChain
                          \/ fs'.fat[cmd'.cluster + cmd'.n - cmd'.part - 1] = EndOfChain,
         pc' = "size" => cmd'.part = cmd'.n /\ fs'.fat[cmd'.cluster] = EndOfChain
  PROVE  RowInv'
  BY DEF RowInv

\* An area write in the loop of upload_single_file: one more cluster is stored.
LEMMA WriteDataFiles ==
  ASSUME Steps, WriteData
  PROVE  FilesInv'
  <1> DEFINE b == cmd.cluster
             a == IF cmd.op = "put" THEN Data(cmd.id, cmd.part + 1) ELSE NewDirectory
             written == [cmd EXCEPT !.part = @ + 1]
             next == fs.fat[b]
  <1>1. /\ pc = "data" /\ WriteArea(b, a) /\ Before /\ TypeInv' /\ IInv'
        /\ files' = files
        /\ IF written.part = cmd.n THEN pc' = "size" /\ cmd' = written
           ELSE IF InChain(next) THEN pc' = "data" /\ cmd' = [written EXCEPT !.cluster = next]
           ELSE pc' = "grow" /\ cmd' = written
    BY DEF WriteData, GotoWith, Steps
  <1>2. /\ Invs /\ IInv /\ TypeInv /\ cmd \in Commands(cmd.result) /\ Good(fs) /\ cmd.slot \in Slots
        /\ b \in Entries /\ CoreInv
        /\ \A p \in Slots : EntryAt(fs, p) => p.cluster \in Dir(fs)
    BY <1>1, BeforeLemma
  <1>3. /\ written.part = cmd.part + 1 /\ written.cluster = b
        /\ cmd'.part = cmd.part + 1 /\ cmd'.slot = cmd.slot /\ SameWork
        /\ cmd'.cluster = IF written.part # cmd.n /\ InChain(next) THEN next ELSE b
    BY <1>1, <1>2 DEF Commands, SameWork
  <1>4. /\ Named(fs, cmd.slot, cmd.name) /\ Start \in Clusters /\ Start \in Nat
        /\ cmd.part \in Nat /\ cmd.n \in Nat \ {0} /\ cmd.op \in {"put", "mkdir"}
        /\ b \in Clusters /\ b \in Nat /\ b = Start + cmd.part
        /\ b \notin Dir(fs) /\ ~InZone(fs, b) /\ fs.fat[b] # 0
    BY <1>1, RowFacts
  <1>5. a \in Contents /\ (a.kind = "dir" => \A i \in 1 .. SlotsPerCluster : a.slots[i].state # "entry")
    <2>1. CASE cmd.op = "put"
      <3>1. a = [kind |-> "data", id |-> cmd.id, part |-> cmd.part + 1] /\ cmd.id \in FileIds
        BY <1>2, <2>1 DEF TypeInv, Data
      <3>2. a \in PlainContents
        BY <1>4, <3>1 DEF PlainContents
      <3> QED
        BY <3>1, <3>2, ContentsLemma
    <2>2. CASE cmd.op # "put"
      <3>1. NewDirectory \in DirContents /\ NewDirectory.slots = [i \in 1 .. SlotsPerCluster |-> WipedSlot]
        BY SlotValueLemma DEF NewDirectory, Directory, DirContents
      <3> QED
        BY <2>2, <3>1, ContentsLemma, SlotValueLemma
    <2> QED
      BY <2>1, <2>2
  <1> HIDE DEF a
  <1>6. \A p \in Slots : p.cluster = b => ~EntryAt(fs, p)
    BY <1>2, <1>4
  <1> HIDE DEF b, written, next
  <1>7. /\ CoreInv' /\ layout' = layout /\ fs'.fat = fs.fat
        /\ fs'.area[b] = a /\ \A c \in Entries : c # b => fs'.area[c] = fs.area[c]
        /\ \A p \in Slots : /\ EntryAt(fs', p) <=> EntryAt(fs, p)
                            /\ EntryAt(fs, p) => SlotAt(fs', p) = SlotAt(fs, p)
    BY <1>1, <1>2, <1>4, <1>5, <1>6, AreaCore
  <1>8. /\ Named(fs', cmd.slot, cmd.name) /\ SlotAt(fs', cmd.slot).first = Start
        /\ \A k \in 1 .. cmd.part : fs.area[Start + k - 1] = Part(k)
        /\ \A k \in 1 .. (b - Start) : fs.fat[Start + k - 1] = Start + k
        /\ fs.fat[b] = EndOfChain \/ fs.fat[b + cmd.n - cmd.part - 1] = EndOfChain
    BY <1>1, <1>2, <1>4, <1>7 DEF Before, FilesInv, RowInv, Named, b
  <1>9. \A k : Part(k)' = Part(k)
    BY <1>3 DEF Part, SameWork, Data, NewDirectory, Directory, WipedSlot
  <1>10. \A k \in 1 .. cmd.part + 1 : fs'.area[Start + k - 1] = Part(k)
    <2> SUFFICES ASSUME NEW k \in 1 .. cmd.part + 1
                 PROVE  fs'.area[Start + k - 1] = Part(k)
      OBVIOUS
    <2>1. CASE k = cmd.part + 1
      <3>1. Start + k - 1 = b
        BY <1>4, <2>1
      <3>2. Part(k) = a
        BY <1>4, <2>1 DEF Part, a
      <3> QED
        BY <1>7, <3>1, <3>2
    <2>2. CASE k # cmd.part + 1
      <3>1. k \in 1 .. cmd.part /\ Start + k - 1 # b /\ Start + k - 1 \in Nat /\ Start + k - 1 <= b
        BY <1>4, <2>2
      <3>2. Start + k - 1 \in Entries
        BY <1>4, <3>1, EntriesLemma
      <3> QED
        BY <1>7, <1>8, <3>1, <3>2
    <2> QED
      BY <2>1, <2>2
  <1>11. fs.fat[b] # EndOfChain =>
           /\ fs.fat[b + cmd.n - cmd.part - 1] = EndOfChain
           /\ cmd.part + 1 # cmd.n => next = b + 1
           /\ cmd.part \in 0 .. cmd.n - 1
    <2> SUFFICES ASSUME fs.fat[b] # EndOfChain
                 PROVE  /\ fs.fat[b + cmd.n - cmd.part - 1] = EndOfChain
                        /\ cmd.part + 1 # cmd.n => next = b + 1
                        /\ cmd.part \in 0 .. cmd.n - 1
      OBVIOUS
    <2>1. /\ cmd.part \in 0 .. cmd.n - 1
          /\ \A k \in 1 .. cmd.n - cmd.part - 1 : fs.fat[b + k - 1] = b + k
      BY <1>1, <1>2 DEF IInv, DataInv, ChainedFrom, b
    <2>2. cmd.part + 1 # cmd.n => 1 \in 1 .. cmd.n - cmd.part - 1 /\ b + 1 - 1 = b
      BY <1>4, <2>1
    <2> QED
      BY <1>8, <2>1, <2>2 DEF next
  <1>12. WorkInv'
    BY <1>1, <1>3, WorkKeeps DEF Before, FilesInv
  <1>13. SlotInv' /\ GrowDirInv' /\ DoneInv' /\ MovedInv'
    BY <1>1, <1>3, <1>8 DEF SlotInv, GrowDirInv, DoneInv, MovedInv, At, SameWork
  <1>14. RowInv'
    <2>1. CASE written.part = cmd.n
      <3>1. pc' = "size" /\ cmd'.cluster = b /\ cmd'.part = cmd.part + 1 /\ cmd.part + 1 = cmd.n /\ cmd'.n = cmd.n
        BY <1>1, <1>3, <2>1 DEF SameWork
      <3>2. Start' = Start
        BY <1>4, <3>1 DEF Start
      <3>3. fs.fat[b] = EndOfChain
        <4>1. b + cmd.n - cmd.part - 1 = b
          BY <1>4, <3>1
        <4> QED
          BY <1>8, <4>1
      <3> QED
        <4>1. \A k \in 1 .. cmd'.part : fs'.area[Start' + k - 1] = Part(k)'
          BY <1>9, <1>10, <3>1, <3>2
        <4>2. \A k \in 1 .. (cmd'.cluster - Start') : fs'.fat[Start' + k - 1] = Start' + k
          BY <1>7, <1>8, <3>1, <3>2
        <4>3. Start' \in Clusters /\ SlotAt(fs', cmd'.slot).first = Start'
          BY <1>3, <1>4, <1>8, <3>2
        <4>4. cmd'.part = cmd'.n /\ fs'.fat[cmd'.cluster] = EndOfChain
          BY <1>7, <3>1, <3>3
        <4> QED
          BY <3>1, <4>1, <4>2, <4>3, <4>4, RowPrime
    <2>2. CASE written.part # cmd.n /\ InChain(next)
      <3>1. pc' = "data" /\ cmd'.cluster = next /\ cmd'.part = cmd.part + 1 /\ cmd.part + 1 # cmd.n /\ cmd'.n = cmd.n
        BY <1>1, <1>3, <2>2 DEF SameWork
      <3>2. fs.fat[b] # EndOfChain
        BY <2>2, EntriesLemma DEF next, InChain, EndOfChain
      <3>3. next = b + 1 /\ fs.fat[b + cmd.n - cmd.part - 1] = EndOfChain
        BY <1>11, <3>1, <3>2
      <3>4. Start' = Start /\ next + cmd.n - (cmd.part + 1) - 1 = b + cmd.n - cmd.part - 1
        BY <1>4, <3>1, <3>3 DEF Start
      <3>5. \A k \in 1 .. (next - Start) : fs.fat[Start + k - 1] = Start + k
        <4> SUFFICES ASSUME NEW k \in 1 .. (next - Start)
                     PROVE  fs.fat[Start + k - 1] = Start + k
          OBVIOUS
        <4>1. CASE k = next - Start
          <5>1. Start + k - 1 = b /\ Start + k = next
            BY <1>4, <3>3, <4>1
          <5> QED
            BY <5>1 DEF next
        <4>2. CASE k # next - Start
          <5>1. k \in 1 .. (b - Start)
            BY <1>4, <3>3, <4>2
          <5> QED
            BY <1>8, <5>1
        <4> QED
          BY <4>1, <4>2
      <3> QED
        <4>1. \A k \in 1 .. cmd'.part : fs'.area[Start' + k - 1] = Part(k)'
          BY <1>9, <1>10, <3>1, <3>4
        <4>2. \A k \in 1 .. (cmd'.cluster - Start') : fs'.fat[Start' + k - 1] = Start' + k
          BY <1>7, <3>1, <3>4, <3>5
        <4>3. Start' \in Clusters /\ SlotAt(fs', cmd'.slot).first = Start'
          BY <1>3, <1>4, <1>8, <3>4
        <4>4. fs'.fat[cmd'.cluster + cmd'.n - cmd'.part - 1] = EndOfChain
          BY <1>7, <3>1, <3>3, <3>4
        <4> QED
          BY <3>1, <4>1, <4>2, <4>3, <4>4, RowPrime
    <2>3. CASE written.part # cmd.n /\ ~InChain(next)
      <3>1. pc' = "grow" /\ cmd'.cluster = b /\ cmd'.part = cmd.part + 1 /\ cmd'.n = cmd.n
        BY <1>1, <1>3, <2>3 DEF SameWork
      <3>2. Start' = Start
        BY <1>4, <3>1 DEF Start
      <3> QED
        <4>1. \A k \in 1 .. cmd'.part : fs'.area[Start' + k - 1] = Part(k)'
          BY <1>9, <1>10, <3>1, <3>2
        <4>2. \A k \in 1 .. (cmd'.cluster - Start') : fs'.fat[Start' + k - 1] = Start' + k
          BY <1>7, <1>8, <3>1, <3>2
        <4>3. Start' \in Clusters /\ SlotAt(fs', cmd'.slot).first = Start'
          BY <1>3, <1>4, <1>8, <3>2
        <4> QED
          BY <3>1, <4>1, <4>2, <4>3, RowPrime
    <2> QED
      BY <2>1, <2>2, <2>3
  <1> QED
    BY <1>7, <1>12, <1>13, <1>14 DEF FilesInv

\* The next cluster of a file is a free one.
LEMMA GrowFileFiles ==
  ASSUME Steps, GrowFile
  PROVE  FilesInv'
  <1> DEFINE b == cmd.cluster
             next == FindFree(b)
  <1>1. /\ pc = "grow" /\ WriteFat(next, EndOfChain)
        /\ GotoWith("chain", [cmd EXCEPT !.next = next])
        /\ Before /\ TypeInv' /\ IInv'
    BY DEF GrowFile, Steps
  <1>2. /\ Invs /\ IInv /\ TypeInv /\ DisksInv /\ CoreInv /\ cmd \in Commands(cmd.result)
        /\ Good(fs) /\ layout.dir \in Clusters /\ cmd.slot \in Slots /\ b \in Entries
        /\ EndOfChain \in FatValues
    BY <1>1, BeforeLemma, EntriesLemma
  <1>3. /\ Named(fs, cmd.slot, cmd.name) /\ Start \in Clusters /\ Start \in Nat
        /\ cmd.part \in Nat /\ cmd.n \in Nat \ {0} /\ b \in Clusters /\ b \in Nat
        /\ b = Start + cmd.part - 1
        /\ SlotAt(fs, cmd.slot).first = Start
        /\ \A k \in 1 .. cmd.part : fs.area[Start + k - 1] = Part(k)
        /\ \A k \in 1 .. (b - Start) : fs.fat[Start + k - 1] = Start + k
    BY <1>1, RowFacts DEF Before, FilesInv, RowInv
  <1>4. next \in Entries /\ fs.fat[next] = 0
    <2>1. b \in Entries /\ fs.fat \in [Entries -> FatValues]
      BY <1>2, DiskLemma DEF Good
    <2>2. cmd'.next = next /\ pc' = "chain"
      BY <1>1, <1>2 DEF Commands, GotoWith
    <2>3. next # 0
      <3>1. cmd'.next \in Clusters
        BY <1>1, <2>2 DEF IInv, ChainInv, NewCluster
      <3> QED
        BY <2>2, <3>1, EntriesLemma
    <2> HIDE DEF b
    <2> QED
      BY <2>1, <2>3, FindFreeLemma
  <1> HIDE DEF b, next
  <1>5. /\ SameWork /\ pc' = "chain" /\ cmd'.slot = cmd.slot /\ cmd'.part = cmd.part
        /\ cmd'.cluster = b
    BY <1>1, <1>2 DEF Commands, GotoWith, SameWork, b
  <1>6. ~InZone(fs, next) /\ next \notin Dir(fs) /\ files' = files
    BY <1>2, <1>4, <1>5, OutsideLemma, DirEnd DEF SameWork
  <1>7. /\ CoreInv' /\ layout' = layout
        /\ \A c \in Entries : c # next => fs'.fat[c] = fs.fat[c]
        /\ fs'.area = fs.area
        /\ \A p \in Slots : SlotAt(fs', p) = SlotAt(fs, p)
    BY <1>1, <1>2, <1>4, <1>6, FatCore
  <1>8. Named(fs', cmd.slot, cmd.name) /\ SlotAt(fs', cmd.slot).first = Start
    BY <1>2, <1>3, <1>7 DEF Named, EntryAt
  <1>9. WorkInv'
    BY <1>1, <1>5, WorkKeeps DEF Before, FilesInv
  <1>10. SlotInv' /\ GrowDirInv' /\ DoneInv' /\ MovedInv'
    BY <1>5, <1>8 DEF SlotInv, GrowDirInv, DoneInv, MovedInv, At, SameWork
  <1>11. RowInv'
    <2>1. Start' = Start
      BY <1>3, <1>5 DEF Start, b
    <2>2. \A k : Part(k)' = Part(k)
      BY <1>5 DEF Part, SameWork, Data, NewDirectory, Directory, WipedSlot
    <2>3. \A k \in 1 .. cmd'.part : fs'.area[Start' + k - 1] = Part(k)'
      BY <1>3, <1>5, <1>7, <2>1, <2>2
    <2>4. \A k \in 1 .. (cmd'.cluster - Start') : fs'.fat[Start' + k - 1] = Start' + k
      <3> SUFFICES ASSUME NEW k \in 1 .. (b - Start)
                   PROVE  fs'.fat[Start + k - 1] = Start + k
        BY <1>5, <2>1
      <3>1. fs.fat[Start + k - 1] = Start + k /\ Start + k # 0
        BY <1>3
      <3>2. Start + k - 1 # next
        BY <1>4, <3>1
      <3>3. Start + k - 1 \in Nat /\ Start + k - 1 <= b
        BY <1>3
      <3>4. Start + k - 1 \in Entries
        BY <1>3, <3>3, EntriesLemma
      <3> QED
        BY <1>7, <3>1, <3>2, <3>4
    <2> QED
      BY <1>3, <1>5, <1>8, <2>1, <2>3, <2>4, RowPrime
  <1> QED
    BY <1>7, <1>9, <1>10, <1>11 DEF FilesInv

\* chain_cluster appends it.
LEMMA ChainFileFiles ==
  ASSUME Steps, ChainFile
  PROVE  FilesInv'
  <1> DEFINE b == cmd.cluster
             next == cmd.next
  <1>1. pc = "chain" /\ WriteFat(b, next) /\ Before /\ TypeInv' /\ IInv'
    BY DEF ChainFile, Steps
  <1>2. /\ Invs /\ IInv /\ TypeInv /\ DisksInv /\ CoreInv /\ cmd \in Commands(cmd.result)
        /\ Good(fs) /\ layout.dir \in Clusters /\ cmd.slot \in Slots /\ b \in Entries
        /\ next \in FatValues /\ next \in Entries
    BY <1>1, BeforeLemma, EntriesLemma
  <1>3. /\ Named(fs, cmd.slot, cmd.name) /\ Start \in Clusters /\ Start \in Nat
        /\ cmd.part \in Nat /\ cmd.n \in Nat \ {0} /\ b \in Clusters /\ b \in Nat
        /\ b = Start + cmd.part - 1
        /\ SlotAt(fs, cmd.slot).first = Start
        /\ \A k \in 1 .. cmd.part : fs.area[Start + k - 1] = Part(k)
        /\ \A k \in 1 .. (b - Start) : fs.fat[Start + k - 1] = Start + k
        /\ b \notin Dir(fs) /\ ~InZone(fs, b)
    BY <1>1, RowFacts DEF Before, FilesInv, RowInv
  <1>4. next = b + 1 /\ fs.fat[next] = EndOfChain /\ next # 0
    BY <1>1, <1>2, <1>3 DEF IInv, ChainInv, NewCluster
  <1>5. /\ SameWork /\ pc' = "data" /\ cmd'.slot = cmd.slot /\ cmd'.part = cmd.part
        /\ cmd'.cluster = next
    <2>1. GotoWith("data", [cmd EXCEPT !.cluster = cmd.next])
      BY <1>4 DEF ChainFile
    <2> QED
      BY <1>2, <2>1 DEF Commands, GotoWith, SameWork
  <1> HIDE DEF b, next
  <1>6. files' = files
    BY <1>5 DEF SameWork
  <1>7. /\ CoreInv' /\ layout' = layout
        /\ fs'.fat[b] = next
        /\ \A c \in Entries : c # b => fs'.fat[c] = fs.fat[c]
        /\ fs'.area = fs.area
        /\ \A p \in Slots : SlotAt(fs', p) = SlotAt(fs, p)
    BY <1>1, <1>2, <1>3, <1>6, FatCore
  <1>8. Named(fs', cmd.slot, cmd.name) /\ SlotAt(fs', cmd.slot).first = Start
    BY <1>2, <1>3, <1>7 DEF Named, EntryAt
  <1>9. WorkInv'
    BY <1>1, <1>5, WorkKeeps DEF Before, FilesInv
  <1>10. SlotInv' /\ GrowDirInv' /\ DoneInv' /\ MovedInv'
    BY <1>5, <1>8 DEF SlotInv, GrowDirInv, DoneInv, MovedInv, At, SameWork
  <1>11. RowInv'
    <2>1. Start' = Start
      BY <1>3, <1>4, <1>5 DEF Start
    <2>2. \A k : Part(k)' = Part(k)
      BY <1>5 DEF Part, SameWork, Data, NewDirectory, Directory, WipedSlot
    <2>3. \A k \in 1 .. cmd'.part : fs'.area[Start' + k - 1] = Part(k)'
      BY <1>3, <1>5, <1>7, <2>1, <2>2
    <2>4. \A k \in 1 .. (cmd'.cluster - Start') : fs'.fat[Start' + k - 1] = Start' + k
      <3> SUFFICES ASSUME NEW k \in 1 .. (next - Start)
                   PROVE  fs'.fat[Start + k - 1] = Start + k
        BY <1>5, <2>1
      <3>1. CASE k = next - Start
        <4>1. Start + k - 1 = b /\ Start + k = next
          BY <1>3, <1>4, <3>1
        <4> QED
          BY <1>7, <4>1
      <3>2. CASE k # next - Start
        <4>1. k \in 1 .. (b - Start) /\ Start + k - 1 \in Nat /\ Start + k - 1 < b
          BY <1>3, <1>4, <3>2
        <4>2. Start + k - 1 \in Entries
          BY <1>3, <4>1, EntriesLemma
        <4> QED
          BY <1>3, <1>7, <4>1, <4>2
      <3> QED
        BY <3>1, <3>2
    <2>5. fs'.fat[cmd'.cluster] = EndOfChain
      <3>1. next # b
        BY <1>3, <1>4
      <3> QED
        BY <1>2, <1>4, <1>5, <1>7, <3>1 DEF next
    <2> QED
      BY <1>3, <1>5, <1>8, <2>1, <2>3, <2>4, <2>5, RowPrime
  <1> QED
    BY <1>7, <1>9, <1>10, <1>11 DEF FilesInv

\* The size comes last: then the file is what it should be.
LEMMA WriteSizeFiles ==
  ASSUME Steps, WriteSize
  PROVE  FilesInv'
  <1> DEFINE size == IF cmd.op = "put" THEN cmd.n ELSE 0
             o == SlotAt(fs, cmd.slot)
             s == [o EXCEPT !.size = size]
  <1>1. /\ pc = "size" /\ WriteSlot(cmd.slot, s) /\ FlushThen("prompt")
        /\ Before /\ TypeInv' /\ IInv'
    BY DEF WriteSize, Steps
  <1>2. /\ Invs /\ IInv /\ TypeInv /\ cmd \in Commands(cmd.result) /\ Good(fs) /\ cmd.slot \in Slots
        /\ fs \in Disks /\ CoreInv /\ NamesApart
    BY <1>1, BeforeLemma DEF Good, Before
  <1>3. /\ Named(fs, cmd.slot, cmd.name) /\ Start \in Clusters /\ Start \in Nat
        /\ cmd.part = cmd.n /\ cmd.n \in Nat \ {0} /\ cmd.op \in {"put", "mkdir"}
        /\ cmd.cluster = Start + cmd.n - 1 /\ cmd.cluster \in Clusters
        /\ o.first = Start
        /\ \A k \in 1 .. cmd.n : fs.area[Start + k - 1] = Part(k)
        /\ fs.fat[cmd.cluster] = EndOfChain
        /\ \A x \in Reach(fs.fat, Start) : x \in Clusters /\ x \notin Dir(fs)
    BY <1>1, RowFacts DEF Before, FilesInv, RowInv
  <1>4. /\ Reach(fs.fat, Start) = Start .. Start + cmd.n - 1
        /\ DOMAIN Chain(fs.fat, Start) = 1 .. cmd.n
        /\ \A k \in 1 .. cmd.n : Chain(fs.fat, Start)[k] = Start + k - 1
    <2>1. PICK m \in Nat \ {0} :
              /\ DOMAIN Chain(fs.fat, Start) = 1 .. m
              /\ \A k \in 1 .. m : Chain(fs.fat, Start)[k] = Start + k - 1
              /\ Reach(fs.fat, Start) = Start .. Start + m - 1
              /\ fs.fat[cmd.cluster] = EndOfChain => m = cmd.cluster - Start + 1
      BY <1>1, RowFacts
    <2>2. m = cmd.n
      BY <1>3, <2>1
    <2> QED
      BY <2>1, <2>2
  <1>5. size \in Nat
    BY <1>3
  <1> HIDE DEF size
  <1>6. /\ s \in SlotValues /\ s.state = "entry" /\ s.name = cmd.name /\ s.isDir = o.isDir
        /\ s.first = Start /\ s.size = size /\ o.isDir \in BOOLEAN
    <2>1. o \in SlotEntries /\ o.name = cmd.name /\ o.first = Start
      BY <1>2, <1>3, SlotAtLemma, SlotValueLemma DEF Named, EntryAt
    <2> HIDE DEF o
    <2> QED
      BY <1>5, <2>1, SlotValueLemma DEF SlotEntries
  <1>7. SameWork /\ pc' = "flush" /\ cmd'.then = "prompt"
    BY <1>1, <1>2, FlushWork
  <1>8. files' = files
    BY <1>7 DEF SameWork
  <1>9. o.isDir <=> cmd.op = "mkdir"
    <2>1. o.isDir <=> cmd.name \in DirNames
      BY <1>2, <1>3 DEF CoreInv, KindOK, Named
    <2>2. cmd.name \in IF cmd.op = "mkdir" THEN DirNames ELSE FileNames
      BY <1>1 DEF Before, FilesInv, WorkInv
    <2> QED
      BY <1>2, <1>3, <2>1, <2>2 DEF NamesApart
  <1> HIDE DEF s
  <1>10. /\ CoreInv' /\ layout' = layout /\ fs'.fat = fs.fat
         /\ cmd.slot.cluster \in Dir(fs)
         /\ \A c \in Entries : c # cmd.slot.cluster => fs'.area[c] = fs.area[c]
         /\ SlotAt(fs', cmd.slot) = s
         /\ Stored(fs', cmd.name) = {ContentsOf(fs', s)}
         /\ \A p \in Slots : Named(fs', p, cmd.name) => p = cmd.slot
    BY <1>1, <1>3, <1>6, <1>8, EntryWrite DEF o
  <1>11. WorkInv'
    BY <1>1, <1>7, WorkKeeps DEF Before, FilesInv
  <1>12. SlotInv' /\ GrowDirInv' /\ MovedInv'
    BY <1>7 DEF SlotInv, GrowDirInv, MovedInv, At
  <1>13. \A k \in 1 .. cmd.n : fs'.area[Start + k - 1] = Part(k)
    <2> SUFFICES ASSUME NEW k \in 1 .. cmd.n
                 PROVE  fs'.area[Start + k - 1] = Part(k)
      OBVIOUS
    <2>1. Start + k - 1 \in Start .. Start + cmd.n - 1
      BY <1>3
    <2>2. Start + k - 1 \in Entries /\ Start + k - 1 \notin Dir(fs)
      BY <1>3, <1>4, <2>1, EntriesLemma
    <2> QED
      BY <1>3, <1>10, <2>2
  <1>14. ContentsOf(fs', s) = [isDir |-> o.isDir, size |-> size, content |-> [k \in 1 .. cmd.n |-> Part(k)]]
    <2> DEFINE chain == Chain(fs'.fat, s.first)
    <2>1. chain = Chain(fs.fat, Start)
      BY <1>6, <1>10
    <2> HIDE DEF chain
    <2>2. [k \in DOMAIN chain |-> fs'.area[chain[k]]] = [k \in 1 .. cmd.n |-> Part(k)]
      BY <1>4, <1>13, <2>1
    <2>3. ContentsOf(fs', s) = [isDir |-> s.isDir, size |-> s.size, content |-> [k \in DOMAIN chain |-> fs'.area[chain[k]]]]
      BY DEF ContentsOf, chain
    <2> QED
      BY <1>6, <2>2, <2>3
  <1>15. {ContentsOf(fs', s)} = ToSet(cmd.result)
    <2>1. CASE cmd.op = "put"
      <3>1. cmd.result = PutFile(cmd.id, cmd.n)
        BY <1>1, <2>1 DEF Before, FilesInv, WorkInv
      <3>2. [k \in 1 .. cmd.n |-> Part(k)] = [i \in 1 .. cmd.n |-> Data(cmd.id, i)]
        BY <2>1 DEF Part
      <3>3. o.isDir = FALSE /\ size = cmd.n
        BY <1>6, <1>9, <2>1 DEF size
      <3> DEFINE r == [isDir |-> FALSE, size |-> cmd.n, content |-> [i \in 1 .. cmd.n |-> Data(cmd.id, i)]]
      <3>4. ContentsOf(fs', s) = r
        BY <1>14, <3>2, <3>3
      <3>5. cmd.result = <<r>>
        BY <3>1 DEF PutFile
      <3> HIDE DEF r
      <3>6. ToSet(<<r>>) = {r}
        BY DEF ToSet
      <3> QED
        BY <3>4, <3>5, <3>6
    <2>2. CASE cmd.op = "mkdir"
      <3>1. cmd.result = MadeDir /\ cmd.n = 1
        BY <1>1, <1>2, <2>2 DEF Before, FilesInv, WorkInv, TypeInv
      <3>2. [k \in 1 .. cmd.n |-> Part(k)] = <<NewDirectory>>
        BY <2>2, <3>1 DEF Part
      <3>3. o.isDir = TRUE /\ size = 0
        BY <1>6, <1>9, <2>2 DEF size
      <3> DEFINE r == [isDir |-> TRUE, size |-> 0, content |-> <<NewDirectory>>]
      <3>4. ContentsOf(fs', s) = r
        BY <1>14, <3>2, <3>3
      <3>5. cmd.result = <<r>>
        BY <3>1 DEF MadeDir
      <3> HIDE DEF r
      <3>6. ToSet(<<r>>) = {r}
        BY DEF ToSet
      <3> QED
        BY <3>4, <3>5, <3>6
    <2> QED
      BY <1>3, <2>1, <2>2
  <1>16. Has(fs', cmd.name, cmd.result)
    <2>1. Stored(fs', cmd.name) = ToSet(cmd.result)
      BY <1>10, <1>15
    <2>2. ASSUME NEW p \in Slots, Named(fs', p, cmd.name)
          PROVE  SlotAt(fs', p).first \in Clusters
      <3>1. SlotAt(fs', p) = s
        BY <1>10, <2>2
      <3> QED
        BY <1>3, <1>6, <3>1
    <2> QED
      BY <2>1, <2>2 DEF Has
  <1>17. DoneInv'
    BY <1>3, <1>7, <1>10, <1>16, DonePrime DEF SameWork
  <1> QED
    BY <1>7, <1>10, <1>11, <1>12, <1>17, EarlyStep

\* execute_write_queue: the card has what the program has, and if the command is
\* over its names have what it left there.
LEMMA FlushFiles ==
  ASSUME Steps, Flush
  PROVE  FilesInv'
  <1>1. /\ pc = "flush" /\ card' = fs /\ fs' = fs /\ layout' = layout /\ cmd' = cmd /\ pc' = cmd.then
        /\ files' = [name \in Names |->
                 IF cmd.then # "prompt" THEN files[name]
                 ELSE IF name = cmd.name THEN cmd.result
                 ELSE IF name = cmd.from THEN NoFile
                 ELSE files[name]]
        /\ Before /\ TypeInv' /\ IInv'
    BY DEF Flush, Steps
  <1>2. /\ IInv /\ CoreInv /\ Good(fs) /\ layout.dir \in Clusters
        /\ \A p \in Slots : EntryAt(fs, p) => p.cluster \in Dir(fs)
        /\ "" \notin Names
    BY <1>1, BeforeLemma DEF Before, NamesApart
  <1>3. cmd.then \in {"prompt", "free", "create", "first", "relink"}
    BY <1>1, <1>2 DEF IInv, OpInv
  <1>4. \A name \in Names : files'[name] # Unknown => Has(fs, name, files'[name])
    <2> SUFFICES ASSUME NEW name \in Names, files'[name] # Unknown
                 PROVE  Has(fs, name, files'[name])
      OBVIOUS
    <2>1. CASE files'[name] = files[name]
      BY <1>2, <2>1 DEF CoreInv, KnownOK
    <2>2. CASE cmd.then = "prompt" /\ name = cmd.name
      BY <1>1, <2>2 DEF Before, FilesInv, DoneInv
    <2>3. CASE cmd.then = "prompt" /\ name # cmd.name /\ name = cmd.from
      <3>1. cmd.op = "rename"
        BY <1>1, <1>2, <2>3 DEF Before, FilesInv, WorkInv
      <3>2. NoEntry(fs, name)
        BY <1>1, <2>3, <3>1 DEF Before, FilesInv, DoneInv
      <3> QED
        BY <1>1, <1>2, <2>3, <3>2, NothingLemma
    <2> QED
      BY <1>1, <2>1, <2>2, <2>3
  <1>5. \A name : Agree(fs, fs, name)
    BY DEF Agree
  <1>6. CoreInv'
    <2>1. DirOK(fs, card)'
      BY <1>1, <1>2 DEF DirOK, Dir
    <2>2. KnownOK(fs, card)'
      BY <1>1, <1>4, <1>5 DEF KnownOK, Has, Agree, Stored, EntriesOf, Positions
    <2> QED
      BY <1>1, <1>2, <2>1, <2>2 DEF CoreInv, OneName, KindOK
  <1>7. WorkInv'
    <2>1. cmd.name \in Names /\ (cmd.op = "rename" => cmd.from \in Names)
      BY <1>1 DEF Before, FilesInv, WorkInv, TypeInv, Names
    <2> QED
      BY <1>1, <2>1 DEF Before, FilesInv, WorkInv
  <1>8. SlotInv'
    BY <1>1, <1>3 DEF Before, FilesInv, SlotInv, At, NoEntry, Named
  <1>9. GrowDirInv' /\ DoneInv'
    BY <1>1, <1>3 DEF GrowDirInv, DoneInv
  <1>10. MovedInv'
    BY <1>1, <1>3 DEF Before, FilesInv, MovedInv, At, ContentsOf
  <1> QED
    BY <1>1, <1>3, <1>6, <1>7, <1>8, <1>9, <1>10, EarlyStep

-----------------------------------------------------------------------------
(* Commands begin *)

\* find_file_in_curdir finds the entry of a name, if it has one.
LEMMA FoundNamed ==
  ASSUME Before, NEW name
  PROVE  /\ Exists(name) => /\ Found(name) \in Slots /\ Named(fs, Found(name), name)
                            /\ SlotAt(fs, Found(name)) \in SlotEntries
                            /\ SlotAt(fs, Found(name)).first \in Entries
                            /\ SlotAt(fs, Found(name)).first # 1
         /\ ~Exists(name) => NoEntry(fs, name)
  <1>1. /\ TypeInv /\ DisksInv /\ Good(fs) /\ layout.dir \in Clusters
        /\ \A p \in Slots : EntryAt(fs, p) => p.cluster \in Dir(fs)
        /\ layout \in Layouts /\ fs.fat \in [Entries -> FatValues]
    BY BeforeLemma, DiskLemma DEF TypeInv, TypeOK
  <1>2. EntriesOf(fs, name) = {p \in Slots : Named(fs, p, name)}
    BY <1>1, PlacesLemma
  <1>3. ASSUME Exists(name)
        PROVE  /\ Found(name) \in Slots /\ Named(fs, Found(name), name)
               /\ SlotAt(fs, Found(name)) \in SlotEntries
               /\ SlotAt(fs, Found(name)).first \in Entries
               /\ SlotAt(fs, Found(name)).first # 1
    <2>1. EntriesOf(fs, name) \in SUBSET Positions(fs) /\ EntriesOf(fs, name) # {}
      BY <1>3 DEF EntriesOf, Exists
    <2>2. Found(name) \in EntriesOf(fs, name)
      BY <1>1, <2>1, FirstOfLemma DEF Found
    <2>3. Found(name) \in Slots /\ Named(fs, Found(name), name)
      BY <1>2, <2>2
    <2>4. SlotAt(fs, Found(name)) \in SlotEntries
      BY <1>1, <1>3, FoundLemma
    <2>5. SlotAt(fs, Found(name)).first \in Entries
      BY <2>4, SlotValueLemma
    <2>6. SlotAt(fs, Found(name)).first # 1
      BY <1>1, <2>3, EntryLeads DEF Named, Good, Sound, Numbers
    <2> QED
      BY <2>3, <2>4, <2>5, <2>6
  <1> QED
    BY <1>2, <1>3 DEF Exists, NoEntry

\* The start of a command leaves what the disks hold.
LEMMA BeginCore ==
  ASSUME Before, NEW start, NEW names, NEW command, Begin(start, names, command)
  PROVE  /\ CoreInv' /\ fs' = fs /\ card' = card /\ layout' = layout
         /\ pc' = start /\ cmd' = command
         /\ \A x \in names \cap Names : files'[x] = Unknown
  <1>1. /\ fs' = fs /\ card' = card /\ layout' = layout /\ pc' = start /\ cmd' = command
        /\ files' = [x \in Names |-> IF x \in names THEN Unknown ELSE files[x]]
    BY DEF Begin
  <1>2. CoreInv
    BY BeforeLemma
  <1>3. \A x \in Names : files'[x] # Unknown => files'[x] = files[x]
    BY <1>1
  <1>4. KnownOK(fs, card)'
    <2> SUFFICES ASSUME NEW x \in Names, files'[x] # Unknown
                 PROVE  Has(fs, x, files[x])' /\ Agree(fs, card, x)'
      BY <1>1 DEF KnownOK
    <2>1. Has(fs, x, files'[x]) /\ Agree(fs, card, x)
      BY <1>2, <1>3 DEF CoreInv, KnownOK
    <2> QED
      BY <1>1, <2>1 DEF Has, Agree, Stored, EntriesOf, Positions, Named, EntryAt
  <1>5. DirOK(fs, card)'
    BY <1>1, <1>2 DEF CoreInv, DirOK, Dir
  <1>6. (OneName(fs, fs) /\ OneName(fs, card) /\ OneName(card, card) /\ KindOK(fs) /\ KindOK(card))'
    BY <1>1, <1>2 DEF CoreInv, OneName, KindOK
  <1> QED
    BY <1>1, <1>4, <1>5, <1>6 DEF CoreInv

\* What the start of a command that does not yet write data needs.
LEMMA BeginFiles ==
  ASSUME Steps, NEW start \in {"create", "wipe", "first", "data"}, NEW names, NEW command,
         Begin(start, names, command),
         command.name \in names, command.op \in {"put", "mkdir", "delete", "rename"},
         command.name \in IF command.op = "mkdir" THEN DirNames ELSE FileNames,
         IF command.op = "rename"
           THEN /\ start = "wipe" /\ command.from \in FileNames /\ command.from # command.name
                /\ command.from \in names /\ ~command.entry.isDir
                /\ NoEntry(fs, command.name)
                /\ command.result # Unknown =>
                     /\ command.entry.first \in Clusters
                     /\ ToSet(command.result) = {ContentsOf(fs, command.entry)}
           ELSE command.from = "",
         command.op = "put" => command.result = PutFile(command.id, command.n),
         command.op = "mkdir" => command.result = MadeDir,
         command.op = "delete" => command.result = NoFile,
         start = "wipe" => Named(fs, command.slot, IF command.op = "rename" THEN command.from ELSE command.name),
         start = "create" => NoEntry(fs, command.name),
         start \in {"first", "data"} => Named(fs, command.slot, command.name)
  PROVE  /\ CoreInv' /\ WorkInv' /\ SlotInv' /\ GrowDirInv' /\ MovedInv' /\ DoneInv'
         /\ start # "data" => FilesInv'
  <1>1. /\ CoreInv' /\ fs' = fs /\ card' = card /\ layout' = layout
        /\ pc' = start /\ cmd' = command
        /\ \A x \in names \cap Names : files'[x] = Unknown
    BY BeginCore DEF Steps
  <1>2. WorkInv'
    BY <1>1 DEF WorkInv, Names, PutFile, MadeDir, Data, NewDirectory, Directory, WipedSlot
  <1>3. SlotInv'
    BY <1>1 DEF SlotInv, At, Named, EntryAt, NoEntry
  <1>4. GrowDirInv' /\ DoneInv'
    BY <1>1 DEF GrowDirInv, DoneInv
  <1>5. MovedInv'
    BY <1>1 DEF MovedInv, ContentsOf
  <1>6. start # "data" => FilesInv'
    BY <1>1, <1>2, <1>3, <1>4, <1>5, EarlyStep
  <1> QED
    BY <1>1, <1>2, <1>3, <1>4, <1>5, <1>6

\* A file whose clusters are used again ends with the last of them.
LEMMA ReusableEnd ==
  ASSUME Good(fs), NEW p \in Slots, NEW n \in Nat \ {0}, Rooted(fs.fat, SlotAt(fs, p).first), Reusable(p, n)
  PROVE  fs.fat[SlotAt(fs, p).first + n - 1] = EndOfChain
  <1> DEFINE c == SlotAt(fs, p).first
             chain == Chain(fs.fat, c)
  <1>1. /\ chain \in Seq(Clusters) /\ Len(chain) \in Nat \ {0} /\ chain[1] = c
        /\ ~InChain(fs.fat[Last(chain)])
    BY StopLemma
  <1>2. c \in Nat
    BY EntriesLemma DEF Rooted
  <1>3. Len(chain) = n /\ ~Fragmented(c)
    BY DEF Reusable
  <1>4. \A k \in 2 .. Len(chain) : chain[k] = chain[k - 1] + 1
    BY <1>3 DEF Fragmented
  <1>5. fs.fat[Last(chain)] # 0
    BY <1>3 DEF Fragmented
  <1> HIDE DEF chain
  <1>6. \A k \in 1 .. Len(chain) : chain[k] = c + k - 1
    BY <1>1, <1>2, <1>4, RowLemma
  <1>7. Last(chain) = c + n - 1 /\ Last(chain) \in Clusters
    <2>1. Last(chain) = chain[n] /\ n \in 1 .. Len(chain)
      BY <1>1, <1>3 DEF Last
    <2> QED
      BY <1>1, <1>6, <2>1
  <1>8. fs.fat[Last(chain)] \in FatValues /\ fs.fat[Last(chain)] # 1
    BY <1>7 DEF Rooted
  <1>9. fs.fat[Last(chain)] = EndOfChain
    BY <1>1, <1>5, <1>8, LinkValues
  <1> QED
    BY <1>7, <1>9

\* Every command of the user starts with what the disks hold.
LEMMA CommandFiles ==
  ASSUME Steps, Command
  PROVE  FilesInv'
  <1>1. /\ Before /\ TypeInv /\ IInv /\ DisksInv /\ CoreInv /\ Good(fs) /\ layout.dir \in Clusters
        /\ TypeInv' /\ IInv' /\ NamesApart /\ KindOK(fs)
    BY BeforeLemma DEF Steps, Before, CoreInv
  <1>2. /\ FileNames \subseteq Names /\ DirNames \subseteq Names /\ FileSizes \subseteq Nat \ {0}
        /\ FileNames \cap DirNames = {} /\ "" \notin Names
        /\ commands < MaxCommands => commands + 1 \in Nat
    <2>1. commands < MaxCommands => commands + 1 \in Nat
      BY <1>1, SizeAssumption DEF TypeInv, TypeOK
    <2>2. FileSizes \subseteq Nat \ {0}
      BY SizeAssumption
    <2>3. FileNames \cap DirNames = {} /\ "" \notin Names
      BY <1>1 DEF NamesApart
    <2> QED
      BY <2>1, <2>2, <2>3 DEF Names
  <1>3. ASSUME NEW name \in FileNames, Exists(name)
        PROVE  /\ Found(name) \in Slots /\ Named(fs, Found(name), name) /\ EntryAt(fs, Found(name))
               /\ SlotAt(fs, Found(name)) \in SlotEntries
               /\ SlotAt(fs, Found(name)).first \in Entries
               /\ SlotAt(fs, Found(name)).first # 1
               /\ ~SlotAt(fs, Found(name)).isDir
    <2>1. /\ Found(name) \in Slots /\ Named(fs, Found(name), name)
          /\ SlotAt(fs, Found(name)) \in SlotEntries
          /\ SlotAt(fs, Found(name)).first \in Entries
          /\ SlotAt(fs, Found(name)).first # 1
      BY <1>1, <1>3, FoundNamed
    <2>2. EntryAt(fs, Found(name)) /\ SlotAt(fs, Found(name)).name = name
      BY <2>1 DEF Named
    <2>3. ~SlotAt(fs, Found(name)).isDir
      BY <1>1, <1>2, <2>1, <2>2 DEF KindOK
    <2> QED
      BY <2>1, <2>2, <2>3
  <1>4. \A name : ~Exists(name) => NoEntry(fs, name)
    BY <1>1, FoundNamed
  <1>5. ASSUME NEW name \in FileNames, NEW n \in FileSizes, commands < MaxCommands
        PROVE  /\ PutCommand(name, n) \in Commands(PutCommand(name, n).result)
               /\ PutCommand(name, n).name = name /\ PutCommand(name, n).op = "put"
               /\ PutCommand(name, n).part = 0 /\ PutCommand(name, n).n = n
               /\ PutCommand(name, n).id = commands + 1
    BY <1>2, <1>5, PutCommandLemma
  <1>5a. \A name, n : PutCommand(name, n).from = "" /\ PutCommand(name, n).result = PutFile(commands + 1, n)
    BY DEF PutCommand, NoCommand
  <1>6. ASSUME NEW name \in FileNames, NEW n \in FileSizes, PutNew(name, n)
        PROVE  FilesInv'
    <2> DEFINE command == PutCommand(name, n)
    <2>1. Begin("create", {name}, command) /\ commands < MaxCommands /\ NoEntry(fs, name)
      BY <1>4, <1>6 DEF PutNew, Begin
    <2>2. /\ command.name = name /\ command.op = "put" /\ command.from = ""
          /\ command.result = PutFile(command.id, command.n)
      <3>1. command.name = name /\ command.op = "put" /\ command.n = n /\ command.id = commands + 1
        BY <1>5, <2>1
      <3>2. command.from = "" /\ command.result = PutFile(commands + 1, n)
        BY <1>5a
      <3> HIDE DEF command
      <3> QED
        BY <3>1, <3>2
    <2> HIDE DEF command
    <2> QED
      BY <2>1, <2>2, BeginFiles
  <1>7. ASSUME NEW name \in FileNames, NEW n \in FileSizes, PutOver(name, n)
        PROVE  FilesInv'
    <2> DEFINE put == PutCommand(name, n)
               first == SlotAt(fs, Found(name)).first
               start == IF first = 0 THEN "first" ELSE "data"
               command == [put EXCEPT !.slot = Found(name), !.cluster = first]
    <2>1. /\ Begin(start, {name}, command) /\ commands < MaxCommands /\ Exists(name)
          /\ Reusable(Found(name), n)
      BY <1>7 DEF PutOver, Begin
    <2>2. /\ command.name = name /\ command.op = "put" /\ command.from = ""
          /\ command.result = PutFile(command.id, command.n)
          /\ command.slot = Found(name) /\ command.cluster = first /\ command.part = 0 /\ command.n = n
      <3>1. /\ put.name = name /\ put.op = "put" /\ put.from = "" /\ put.n = n
            /\ put.result = PutFile(put.id, n) /\ put.part = 0
            /\ put \in Commands(put.result)
        <4>1. /\ put \in Commands(put.result) /\ put.name = name /\ put.op = "put"
              /\ put.part = 0 /\ put.n = n /\ put.id = commands + 1
          BY <1>5, <2>1
        <4>2. put.from = "" /\ put.result = PutFile(commands + 1, n)
          BY <1>5a
        <4> HIDE DEF put
        <4> QED
          BY <4>1, <4>2
      <3> HIDE DEF put
      <3> QED
        BY <3>1 DEF Commands
    <2>3. /\ Found(name) \in Slots /\ Named(fs, Found(name), name)
          /\ first \in Entries /\ first # 1 /\ EntryAt(fs, Found(name))
      BY <1>3, <2>1
    <2>4. start \in {"create", "wipe", "first", "data"} /\ start \in {"first", "data"}
      OBVIOUS
    <2>5. start = "data" => first \in Clusters /\ first \in Nat
      BY <2>3, EntriesLemma
    <2>6. start = "data" => fs.fat[first + n - 1] = EndOfChain
      <3> SUFFICES ASSUME first \in Clusters
                   PROVE  fs.fat[first + n - 1] = EndOfChain
        BY <2>5
      <3>1. Rooted(fs.fat, first)
        BY <1>1, <2>3, EntryRoot, RootLemma
      <3> QED
        BY <1>1, <1>2, <2>1, <2>3, <3>1, ReusableEnd
    <2>6a. first = SlotAt(fs, Found(name)).first
      OBVIOUS
    <2> HIDE DEF command, start, first
    <2>7. /\ CoreInv' /\ WorkInv' /\ SlotInv' /\ GrowDirInv' /\ MovedInv' /\ DoneInv'
          /\ start # "data" => FilesInv'
      BY <2>1, <2>2, <2>3, <2>4, BeginFiles
    <2>8. CASE start = "data"
      <3>1. fs' = fs /\ pc' = "data" /\ cmd' = command
        BY <1>1, <2>1, <2>8, BeginCore
      <3>2. first \in Clusters /\ first \in Nat /\ fs.fat[first + n - 1] = EndOfChain
        BY <2>5, <2>6, <2>8
      <3>3. Start' = first
        <4>1. cmd'.cluster = first /\ cmd'.part = 0 /\ pc' = "data"
          BY <2>2, <3>1
        <4>2. Start' = cmd'.cluster - cmd'.part
          BY <4>1 DEF Start
        <4> QED
          BY <3>2, <4>1, <4>2
      <3>4. RowInv'
        <4>1. /\ SlotAt(fs', cmd'.slot).first = first /\ 1 .. cmd'.part = {} /\ 1 .. (cmd'.cluster - first) = {}
              /\ cmd'.cluster + cmd'.n - cmd'.part - 1 = first + n - 1
          <5>1. cmd'.slot = Found(name) /\ cmd'.part = 0 /\ cmd'.cluster = first /\ cmd'.n = n /\ n \in Nat
            BY <1>2, <2>2, <3>1
          <5>2. SlotAt(fs', cmd'.slot).first = first
            BY <2>6a, <3>1, <5>1
          <5>3. 1 .. cmd'.part = {} /\ 1 .. (cmd'.cluster - first) = {}
            BY <3>2, <5>1
          <5>4. cmd'.cluster + cmd'.n - cmd'.part - 1 = first + n - 1
            BY <3>2, <5>1
          <5> QED
            BY <5>2, <5>3, <5>4
        <4> QED
          BY <3>1, <3>2, <3>3, <4>1, RowPrime
      <3> QED
        BY <2>7, <3>4 DEF FilesInv
    <2> QED
      BY <2>7, <2>8
  <1>8. ASSUME NEW name \in FileNames, NEW n \in FileSizes, PutAnew(name, n)
        PROVE  FilesInv'
    <2> DEFINE put == PutCommand(name, n)
               e == SlotAt(fs, Found(name))
               command == [put EXCEPT !.slot = Found(name), !.cluster = e.first]
    <2>1. Begin("wipe", {name}, command) /\ commands < MaxCommands /\ Exists(name)
      BY <1>3, <1>8 DEF PutAnew, Begin
    <2>2. /\ command.name = name /\ command.op = "put" /\ command.from = ""
          /\ command.result = PutFile(command.id, command.n)
          /\ command.slot = Found(name)
      <3>1. /\ put.name = name /\ put.op = "put" /\ put.from = "" /\ put.n = n
            /\ put.result = PutFile(put.id, n) /\ put.part = 0
            /\ put \in Commands(put.result)
        <4>1. /\ put \in Commands(put.result) /\ put.name = name /\ put.op = "put"
              /\ put.part = 0 /\ put.n = n /\ put.id = commands + 1
          BY <1>5, <2>1
        <4>2. put.from = "" /\ put.result = PutFile(commands + 1, n)
          BY <1>5a
        <4> HIDE DEF put
        <4> QED
          BY <4>1, <4>2
      <3> HIDE DEF put
      <3> QED
        BY <3>1 DEF Commands
    <2>3. Named(fs, Found(name), name)
      BY <1>3, <2>1
    <2> HIDE DEF command
    <2> QED
      BY <2>1, <2>2, <2>3, BeginFiles
  <1>9. ASSUME NEW name \in FileNames, Delete(name)
        PROVE  FilesInv'
    <2> DEFINE command == [NoCommand EXCEPT !.op = "delete", !.name = name, !.slot = Found(name),
                                            !.cluster = SlotAt(fs, Found(name)).first]
    <2>1. Begin("wipe", {name}, command) /\ Exists(name)
      BY <1>9 DEF Delete
    <2>2. /\ command.name = name /\ command.op = "delete" /\ command.from = ""
          /\ command.result = NoFile /\ command.slot = Found(name)
      BY DEF NoCommand, NoFile
    <2>3. Named(fs, Found(name), name)
      BY <1>3, <2>1
    <2> HIDE DEF command
    <2> QED
      BY <2>1, <2>2, <2>3, BeginFiles
  <1>10. ASSUME NEW name \in FileNames, NEW to \in FileNames, Rename(name, to)
         PROVE  FilesInv'
    <2> DEFINE command == [NoCommand EXCEPT !.op = "rename", !.name = to, !.from = name,
                                            !.result = files[name], !.slot = Found(name),
                                            !.entry = SlotAt(fs, Found(name))]
    <2>1. Begin("wipe", {name, to}, command) /\ Exists(name) /\ NoEntry(fs, to) /\ name # to
      BY <1>4, <1>10 DEF Rename
    <2>2. /\ command.name = to /\ command.op = "rename" /\ command.from = name
          /\ command.result = files[name] /\ command.slot = Found(name)
          /\ command.entry = SlotAt(fs, Found(name))
      BY DEF NoCommand
    <2>3. /\ Found(name) \in Slots /\ Named(fs, Found(name), name) /\ ~SlotAt(fs, Found(name)).isDir
      BY <1>3, <2>1
    <2>4. ASSUME files[name] # Unknown
          PROVE  /\ SlotAt(fs, Found(name)).first \in Clusters
                 /\ ToSet(files[name]) = {ContentsOf(fs, SlotAt(fs, Found(name)))}
      <3>1. Has(fs, name, files[name])
        BY <1>1, <1>2, <2>4 DEF CoreInv, KnownOK
      <3>2. {q \in Slots : Named(fs, q, name)} = {Found(name)}
        BY <1>1, <2>3 DEF CoreInv, OneName, Named
      <3>3. Stored(fs, name) = {ContentsOf(fs, SlotAt(fs, p)) : p \in {q \in Slots : Named(fs, q, name)}}
        BY <1>1, BeforeLemma, StoredLemma
      <3>4. Stored(fs, name) = {ContentsOf(fs, SlotAt(fs, Found(name)))}
        BY <3>2, <3>3
      <3> QED
        BY <2>3, <3>1, <3>4 DEF Has
    <2> HIDE DEF command
    <2> QED
      BY <2>1, <2>2, <2>3, <2>4, BeginFiles
  <1>11. ASSUME NEW name \in DirNames, Mkdir(name)
         PROVE  FilesInv'
    <2> DEFINE command == [NoCommand EXCEPT !.op = "mkdir", !.name = name, !.n = 1, !.result = MadeDir]
    <2>1. Begin("create", {name}, command) /\ NoEntry(fs, name)
      BY <1>4, <1>11 DEF Mkdir
    <2>2. command.op = "mkdir" /\ command.name = name /\ command.from = "" /\ command.result = MadeDir
      BY DEF NoCommand
    <2> HIDE DEF command
    <2> QED
      BY <2>1, <2>2, BeginFiles
  <1> QED
    BY <1>6, <1>7, <1>8, <1>9, <1>10, <1>11 DEF Command

-----------------------------------------------------------------------------
(* Crashes, and the theorem *)

\* The program is stopped, perhaps half way through a flush: what finished commands
\* put on the card is the same on the old card and in the program.
LEMMA CrashFiles ==
  ASSUME Steps, Crash
  PROVE  FilesInv'
  <1>1. PICK k \in 0 .. Len(queue) : card' = PartlyFlushed(k) /\ fs' = PartlyFlushed(k)
    BY DEF Crash
  <1>2. /\ pc' = "prompt" /\ cmd' = NoCommand /\ layout' = layout /\ files' = files /\ card' = fs'
    BY <1>1 DEF Crash
  <1> DEFINE mix == PartlyFlushed(k)
  <1>3. \A c \in Entries : /\ mix.fat[c] = fs.fat[c] \/ mix.fat[c] = card.fat[c]
                           /\ mix.area[c] = fs.area[c] \/ mix.area[c] = card.area[c]
    BY DEF PartlyFlushed
  <1>4. fs' = mix /\ card' = mix
    BY <1>1
  <1> HIDE DEF mix
  <1>5. /\ Good(fs) /\ Good(card) /\ layout.dir \in Clusters /\ CoreInv
        /\ TypeInv' /\ IInv'
    BY BeforeLemma DEF Steps
  <1>6. Good(mix)
    <2>1. Good(fs')
      BY <1>2, <1>5, GoodPrime
    <2> QED
      BY <1>4, <2>1
  <1>7. \A p \in Slots : SlotAt(mix, p) = SlotAt(fs, p) \/ SlotAt(mix, p) = SlotAt(card, p)
    BY <1>3 DEF SlotAt, Slots
  <1>8. DirOK(mix, mix)
    <2>1. \A c \in Dir(card) : InChain(card.fat[c]) => mix.fat[c] = card.fat[c]
      BY <1>3, <1>5, DirLemma, EntriesLemma DEF CoreInv, DirOK
    <2>2. Dir(card) \subseteq Dir(mix)
      BY <1>5, <1>6, <2>1, DirGrows
    <2>3. \A p \in Slots : EntryAt(mix, p) => EntryAt(fs, p) \/ EntryAt(card, p)
      BY <1>7 DEF EntryAt
    <2> QED
      BY <1>5, <2>2, <2>3 DEF CoreInv, DirOK
  <1>9. OneName(mix, mix)
    <2> SUFFICES ASSUME NEW p \in Slots, NEW q \in Slots, EntryAt(mix, p), EntryAt(mix, q),
                        SlotAt(mix, p).name = SlotAt(mix, q).name
                 PROVE  p = q
      BY DEF OneName
    <2>1. \/ EntryAt(fs, p) /\ SlotAt(fs, p).name = SlotAt(mix, p).name
          \/ EntryAt(card, p) /\ SlotAt(card, p).name = SlotAt(mix, p).name
      BY <1>7 DEF EntryAt
    <2>2. \/ EntryAt(fs, q) /\ SlotAt(fs, q).name = SlotAt(mix, q).name
          \/ EntryAt(card, q) /\ SlotAt(card, q).name = SlotAt(mix, q).name
      BY <1>7 DEF EntryAt
    <2> QED
      BY <1>5, <2>1, <2>2 DEF CoreInv, OneName
  <1>10. KindOK(mix)
    BY <1>5, <1>7 DEF CoreInv, KindOK, EntryAt
  <1>11. ASSUME NEW name \in Names, files[name] # Unknown
         PROVE  Has(mix, name, files[name]) /\ Agree(mix, mix, name)
    <2>1. Has(fs, name, files[name]) /\ Agree(fs, card, name)
      BY <1>5, <1>11 DEF CoreInv, KnownOK
    <2>2. Agree(fs, mix, name)
      <3> SUFFICES ASSUME NEW p \in Slots
                   PROVE  /\ Named(mix, p, name) => Named(fs, p, name)
                          /\ Named(fs, p, name) =>
                               /\ SlotAt(mix, p) = SlotAt(fs, p)
                               /\ \A x \in Reach(fs.fat, SlotAt(fs, p).first) :
                                    mix.fat[x] = fs.fat[x] /\ mix.area[x] = fs.area[x]
        BY DEF Agree
      <3>1. Named(mix, p, name) => Named(fs, p, name)
        BY <1>7, <2>1 DEF Agree, Named, EntryAt
      <3>2. ASSUME Named(fs, p, name)
            PROVE  /\ SlotAt(mix, p) = SlotAt(fs, p)
                   /\ \A x \in Reach(fs.fat, SlotAt(fs, p).first) :
                        mix.fat[x] = fs.fat[x] /\ mix.area[x] = fs.area[x]
        <4>1. SlotAt(card, p) = SlotAt(fs, p)
              /\ \A x \in Reach(fs.fat, SlotAt(fs, p).first) :
                   card.fat[x] = fs.fat[x] /\ card.area[x] = fs.area[x]
          BY <2>1, <3>2 DEF Agree
        <4>2. SlotAt(fs, p).first \in Clusters /\ EntryAt(fs, p)
          BY <2>1, <3>2 DEF Has, Named
        <4>3. Reach(fs.fat, SlotAt(fs, p).first) \subseteq Entries
          BY <1>5, <4>2, EntryRoot, RootLemma, EntriesLemma
        <4> QED
          BY <1>3, <1>7, <4>1, <4>3
      <3> QED
        BY <3>1, <3>2
    <2> QED
      BY <1>5, <1>6, <1>8, <2>1, <2>2, AgreeMerge DEF CoreInv
  <1>12. KnownOK(mix, mix)
    BY <1>11 DEF KnownOK
  <1>13. (DirOK(fs, card) /\ KnownOK(fs, card))'
    BY <1>2, <1>4, <1>8, <1>12 DEF DirOK, Dir, KnownOK, Has, Agree, Stored, EntriesOf, Positions
  <1>14. (OneName(fs, fs) /\ OneName(fs, card) /\ OneName(card, card) /\ KindOK(fs) /\ KindOK(card))'
    BY <1>4, <1>9, <1>10 DEF OneName, KindOK
  <1>15. CoreInv'
    BY <1>13, <1>14 DEF CoreInv
  <1>16. WorkInv' /\ SlotInv' /\ GrowDirInv'
    BY <1>2 DEF WorkInv, SlotInv, GrowDirInv, At
  <1>17. MovedInv' /\ DoneInv'
    BY <1>2 DEF MovedInv, DoneInv, At
  <1> QED
    BY <1>2, <1>15, <1>16, <1>17, EarlyStep

\* A new card holds no entry.
LEMMA InitFiles ==
  ASSUME Init, TypeInv, IInv
  PROVE  FilesInv
  <1>1. /\ card = fs /\ pc = "prompt" /\ cmd = NoCommand /\ files = [name \in Names |-> NoFile]
        /\ Good(fs) /\ layout.dir \in Clusters
    BY GoodLemma DEF Init, IInv
  <1>2. \A p \in Slots : ~EntryAt(fs, p)
    <2> SUFFICES ASSUME NEW p \in Slots
                 PROVE  SlotAt(fs, p).state # "entry"
      BY DEF EntryAt
    <2>0. p.cluster \in Entries /\ p.index \in 1 .. SlotsPerCluster
      BY DEF Slots
    <2>1. CASE p.cluster = layout.dir
      <3>1. SlotAt(fs, p) \in {FreeSlot, WipedSlot}
        BY <2>0, <2>1 DEF Init, SlotAt, Directory
      <3> QED
        BY <3>1, SlotValueLemma
    <2>2. CASE p.cluster # layout.dir
      <3>1. SlotAt(fs, p) = WipedSlot
        BY <2>0, <2>2 DEF Init, SlotAt, Blank
      <3> QED
        BY <3>1, SlotValueLemma
    <2> QED
      BY <2>1, <2>2
  <1>3. DirOK(fs, card) /\ OneName(fs, fs) /\ KindOK(fs)
    BY <1>1, <1>2 DEF DirOK, OneName, KindOK
  <1>4. KnownOK(fs, card)
    <2> SUFFICES ASSUME NEW name \in Names
                 PROVE  Has(fs, name, files[name]) /\ Agree(fs, card, name)
      BY DEF KnownOK
    <2>1. NoEntry(fs, name)
      BY <1>2 DEF NoEntry, Named
    <2>2. Has(fs, name, NoFile)
      BY <1>1, <2>1, NothingLemma
    <2> QED
      BY <1>1, <1>2, <2>2 DEF Agree, Named
  <1>5. CoreInv
    BY <1>1, <1>3, <1>4 DEF CoreInv
  <1>6. WorkInv /\ SlotInv /\ GrowDirInv /\ RowInv /\ MovedInv /\ DoneInv
    BY <1>1 DEF WorkInv, SlotInv, GrowDirInv, RowInv, MovedInv, DoneInv, At
  <1> QED
    BY <1>5, <1>6 DEF FilesInv

\* Nothing changes when nothing does.
LEMMA UnchangedFiles ==
  ASSUME FilesInv, UNCHANGED vars
  PROVE  FilesInv'
  <1>1. /\ fs' = fs /\ card' = card /\ pc' = pc /\ cmd' = cmd /\ layout' = layout /\ files' = files
    BY DEF vars
  <1>2. CoreInv'
    <2>1. (DirOK(fs, card) /\ KnownOK(fs, card))'
      BY <1>1 DEF FilesInv, CoreInv, DirOK, Dir, KnownOK, Has, Agree, Stored, EntriesOf, Positions
    <2>2. (OneName(fs, fs) /\ OneName(fs, card) /\ OneName(card, card) /\ KindOK(fs) /\ KindOK(card))'
      BY <1>1 DEF FilesInv, CoreInv, OneName, KindOK
    <2> QED
      BY <2>1, <2>2 DEF CoreInv
  <1>3. WorkInv'
    BY <1>1 DEF FilesInv, WorkInv
  <1>4. SlotInv' /\ GrowDirInv'
    BY <1>1 DEF FilesInv, SlotInv, GrowDirInv, At, Named, EntryAt, NoEntry, Dir, Plain
  <1>5. RowInv'
    BY <1>1 DEF FilesInv, RowInv, Start, Part
  <1>6. MovedInv'
    BY <1>1 DEF FilesInv, MovedInv, At, ContentsOf
  <1>7. DoneInv'
    BY <1>1 DEF FilesInv, DoneInv, Has, Stored, EntriesOf, Positions, Named, EntryAt, NoEntry
  <1> QED
    BY <1>2, <1>3, <1>4, <1>5, <1>6, <1>7 DEF FilesInv

\* No step of a command, no command and no crash takes what is known away.
LEMMA NextFiles ==
  ASSUME TypeInv, IInv, FilesInv, Room, NamesApart, [Next]_vars
  PROVE  FilesInv'
  <1>1. CASE UNCHANGED vars
    BY <1>1, UnchangedFiles
  <1>2. CASE Next
    <2>1. TypeInv'
      BY TypeNext
    <2>2. IInv'
      BY <1>2, NextStep
    <2>3. Steps
      BY <2>1, <2>2 DEF Steps, Before
    <2>4. CASE Step
      BY <2>3, <2>4, WipeFiles, FreeNextFiles, CreateEntryFiles, ExtendDirFiles, ChainDirFiles,
         ClearClusterFiles, AllocateFirstFiles, NoFreeClusterFiles, LinkEntryFiles, WriteDataFiles,
         GrowFileFiles, ChainFileFiles, WriteSizeFiles, RelinkFiles, FlushFiles DEF Step
    <2> QED
      BY <1>2, <2>3, <2>4, CommandFiles, CrashFiles DEF Next
  <1> QED
    BY <1>1, <1>2

\* What is known of a name is so on both disks, in one entry.
LEMMA SafeLemma ==
  ASSUME TypeInv, DisksInv, CoreInv
  PROVE  FilesSafe
  <1>1. Good(fs) /\ Good(card) /\ layout.dir \in Clusters
    BY GoodLemma
  <1>2. DirOK(fs, fs) /\ DirOK(card, card)
    BY <1>1, DirGrows DEF CoreInv, DirOK
  <1>3. ASSUME NEW d \in {fs, card}, NEW name
        PROVE  Cardinality(EntriesOf(d, name)) <= 1
    <2>1. EntriesOf(d, name) = {p \in Slots : Named(d, p, name)}
      BY <1>1, <1>2, PlacesLemma DEF DirOK
    <2>2. \A p, q \in EntriesOf(d, name) : p = q
      BY <2>1 DEF CoreInv, OneName, Named
    <2>3. CASE EntriesOf(d, name) = {}
      BY <2>3, FS_EmptySet
    <2>4. CASE EntriesOf(d, name) # {}
      <3>1. PICK p : EntriesOf(d, name) = {p}
        BY <2>2, <2>4
      <3> QED
        <4>1. Cardinality({p}) = 1
          BY FS_Singleton
        <4> QED
          BY <3>1, <4>1
    <2> QED
      BY <2>3, <2>4
  <1>4. ASSUME NEW name \in Names, files[name] # Unknown
        PROVE  Stored(card, name) = ToSet(files[name]) /\ Stored(fs, name) = ToSet(files[name])
    <2>1. Has(fs, name, files[name]) /\ Agree(fs, card, name)
      BY <1>4 DEF CoreInv, KnownOK
    <2>2. Has(card, name, files[name])
      BY <1>1, <1>2, <2>1, AgreeMerge DEF CoreInv
    <2> QED
      BY <2>1, <2>2 DEF Has
  <1> QED
    BY <1>3, <1>4 DEF FilesSafe, Holds

\* Whatever a finished put, mkdir, delete or rename put on the card stays there, in
\* one entry of its name, until a command is given for that name: no other command
\* and no crash, at whatever write it stops a command or its flush, changes it or
\* loses it.  So it is on every card, with any number of commands, as long as
\* the commands find the room they take for granted and nobody puts a file under
\* the name of a directory.
THEOREM FilesSafeTheorem ==
  ASSUME NamesApart
  PROVE  Spec /\ []Room => []FilesSafe
  <1>1. Init => TypeInv /\ IInv
    BY InitTypes, InitInv
  <1>2. TypeInv /\ IInv /\ Init => FilesInv
    BY InitFiles
  <1>3. TypeInv /\ [Next]_vars => TypeInv'
    BY TypeNext
  <1>4. TypeInv /\ IInv /\ Room /\ [Next]_vars => IInv'
    BY NextStep, UnchangedStep
  <1>5. TypeInv /\ IInv /\ FilesInv /\ Room /\ [Next]_vars => FilesInv'
    BY NextFiles
  <1>6. TypeInv /\ IInv /\ FilesInv => FilesSafe
    BY SafeLemma DEF IInv, FilesInv
  <1> QED
    BY <1>1, <1>2, <1>3, <1>4, <1>5, <1>6, PTL DEF Spec

-----------------------------------------------------------------------------
(* No cluster is lost *)

\* A place leads to the cluster, or it is the first of the directory.
Led(d, t) == t = layout.dir \/ ~Bare(d, t)

\* The command at work will free the cluster, or lead to it.
AtHand(t) ==
  \/ At({"free"}) /\ t = cmd.cluster
  \/ cmd.op = "rename" /\ At({"create", "extend", "clear", "relink"}) /\ t = cmd.entry.first
  \/ pc \in {"extend", "chain"} /\ t = cmd.next
  \/ pc = "link" /\ t = cmd.cluster

\* A cluster that is in use but part of nothing.
Lost(t) == fs.fat[t] # 0 /\ ~AtHand(t) /\ ~Led(fs, t)
LostInv == crashes = 0 => \A t \in Clusters : Lost(t) => t \in layout.used

\* The entry that gets its first cluster next has none.
FreshInv == At({"first", "link", "relink"}) => SlotAt(fs, cmd.slot).first = 0

\* A write of the FAT takes the reference that it overwrites, and puts another.
LEMMA FatKeeps ==
  ASSUME fs \in Disks, NEW b \in Entries, NEW v \in FatValues, WriteFat(b, v)
  PROVE  /\ layout' = layout /\ crashes' = crashes
         /\ fs'.fat[b] = v /\ \A c \in Entries : c # b => fs'.fat[c] = fs.fat[c]
         /\ \A p \in Slots : SlotAt(fs', p) = SlotAt(fs, p)
         /\ \A t \in Clusters : Bare(fs', t) =>
              /\ Bare(fs, t) \/ fs.fat[b] = t
              /\ b \in Clusters => v # t
  <1>1. fs' = FatWith(b, v) /\ layout' = layout /\ crashes' = crashes
    BY DEF WriteFat, Write
  <1>2. /\ fs'.fat[b] = v /\ \A c \in Entries : c # b => fs'.fat[c] = fs.fat[c]
        /\ fs'.area = fs.area
    <2>1. FatWith(b, v).area = fs.area
      BY FatWithLemma
    <2>2. FatWith(b, v).fat[b] = v /\ \A c \in Entries : c # b => FatWith(b, v).fat[c] = fs.fat[c]
      BY FatEffect
    <2> QED
      BY <1>1, <2>1, <2>2
  <1>3. 0 \in Indexes /\ Clusters \subseteq Entries
    BY EntriesLemma, SizeAssumption DEF Indexes
  <1>4. ASSUME NEW t \in Clusters, Bare(fs', t)
        PROVE  (Bare(fs, t) \/ fs.fat[b] = t) /\ (b \in Clusters => v # t)
    <2>1. ASSUME NEW c \in Entries, NEW i \in Indexes, Leads(fs, c, i, t), fs.fat[b] # t
          PROVE  FALSE
      <3>1. ~Leads(fs', c, i, t)
        BY <1>4 DEF Bare
      <3> QED
        BY <1>2, <2>1, <3>1 DEF Leads
    <2>2. b \in Clusters => v # t
      <3>1. ~Leads(fs', b, 0, t)
        BY <1>3, <1>4 DEF Bare
      <3> QED
        BY <1>2, <3>1 DEF Leads
    <2> QED
      BY <2>1, <2>2 DEF Bare
  <1>5. \A p \in Slots : SlotAt(fs', p) = SlotAt(fs, p)
    BY <1>2 DEF SlotAt
  <1> QED
    BY <1>1, <1>2, <1>4, <1>5

\* A write of a cluster without entries takes no reference.
LEMMA AreaKeeps ==
  ASSUME fs \in Disks, NEW b \in Entries, NEW a \in Contents, WriteArea(b, a), Plain(fs, b)
  PROVE  /\ layout' = layout /\ crashes' = crashes /\ fs'.fat = fs.fat
         /\ \A t \in Clusters : Bare(fs', t) => Bare(fs, t)
  <1>1. fs' = AreaWith(b, a) /\ layout' = layout /\ crashes' = crashes
    BY DEF WriteArea, Write
  <1>2. fs'.fat = fs.fat /\ \A c \in Entries : c # b => fs'.area[c] = fs.area[c]
    <2>1. fs'.fat = fs.fat /\ fs'.area = [fs.area EXCEPT ![b] = a] /\ fs.area \in [Entries -> Contents]
      BY <1>1, AreaWithLemma, DiskLemma
    <2> QED
      BY <2>1
  <1>3. ASSUME NEW t \in Clusters, Bare(fs', t), NEW c \in Entries, NEW i \in Indexes, Leads(fs, c, i, t)
        PROVE  FALSE
    <2>1. ~Leads(fs', c, i, t)
      BY <1>3 DEF Bare
    <2>2. c = b /\ i # 0
      BY <1>2, <1>3, <2>1 DEF Leads
    <2> DEFINE p == [cluster |-> c, index |-> i]
    <2>3. p \in Slots /\ p.cluster = b /\ SlotAt(fs, p) = fs.area[c].slots[i]
      BY <1>3, <2>2, SizeAssumption DEF Slots, Indexes, SlotAt, Leads
    <2> HIDE DEF p
    <2> QED
      BY <1>3, <2>2, <2>3 DEF Leads, Plain, EntryAt
  <1> QED
    BY <1>1, <1>2, <1>3 DEF Bare

\* A write of a slot takes the reference of its entry, and puts another.
LEMMA SlotKeeps ==
  ASSUME fs \in Disks, NEW q \in Slots, NEW s \in SlotValues, WriteSlot(q, s),
         fs.area[q.cluster].kind = "dir"
  PROVE  /\ layout' = layout /\ crashes' = crashes /\ fs'.fat = fs.fat
         /\ SlotAt(fs', q) = s
         /\ \A t \in Clusters : Bare(fs', t) =>
              /\ Bare(fs, t) \/ (EntryAt(fs, q) /\ SlotAt(fs, q).first = t)
              /\ s.state = "entry" => s.first # t
  <1>1. fs' = SlotWith(q, s) /\ layout' = layout /\ crashes' = crashes
    BY DEF WriteSlot, Write
  <1>2. /\ fs'.fat = fs.fat /\ fs'.area[q.cluster].kind = "dir"
        /\ \A c \in Entries : c # q.cluster => fs'.area[c] = fs.area[c]
        /\ fs'.area[q.cluster].slots = [fs.area[q.cluster].slots EXCEPT ![q.index] = s]
    BY <1>1, SlotWithLemma
  <1>3. /\ q.cluster \in Entries /\ q.index \in 1 .. SlotsPerCluster /\ q.index \in Indexes /\ q.index # 0
        /\ fs.area[q.cluster].slots \in [1 .. SlotsPerCluster -> SlotValues]
    BY DiskLemma, SizeAssumption DEF Slots, Indexes
  <1>4. /\ fs'.area[q.cluster].slots[q.index] = s
        /\ \A i \in 1 .. SlotsPerCluster : i # q.index =>
             fs'.area[q.cluster].slots[i] = fs.area[q.cluster].slots[i]
    BY <1>2, <1>3
  <1>5. SlotAt(fs', q) = s
    BY <1>2, <1>4 DEF SlotAt
  <1>6. ASSUME NEW t \in Clusters, Bare(fs', t)
        PROVE  /\ Bare(fs, t) \/ (EntryAt(fs, q) /\ SlotAt(fs, q).first = t)
               /\ s.state = "entry" => s.first # t
    <2>1. s.state = "entry" => s.first # t
      <3>1. ~Leads(fs', q.cluster, q.index, t)
        BY <1>3, <1>6 DEF Bare
      <3> QED
        BY <1>2, <1>3, <1>4, <3>1 DEF Leads
    <2>2. ASSUME NEW c \in Entries, NEW i \in Indexes, Leads(fs, c, i, t)
          PROVE  EntryAt(fs, q) /\ SlotAt(fs, q).first = t
      <3>1. ~Leads(fs', c, i, t)
        BY <1>6 DEF Bare
      <3>2. i # 0 /\ c = q.cluster
        BY <1>2, <2>2, <3>1 DEF Leads
      <3>3. i \in 1 .. SlotsPerCluster
        BY <3>2, SizeAssumption DEF Indexes
      <3>4. i = q.index
        BY <1>2, <1>4, <2>2, <3>1, <3>2, <3>3 DEF Leads
      <3> QED
        BY <2>2, <3>2, <3>4 DEF Leads, EntryAt, SlotAt
    <2> QED
      BY <2>1, <2>2 DEF Bare
  <1> QED
    BY <1>1, <1>2, <1>5, <1>6

\* The entry of a name is in a directory.
LEMMA NamedSlot ==
  ASSUME fs \in Disks, cmd.slot \in Slots, NEW name, Named(fs, cmd.slot, name)
  PROVE  /\ fs.area[cmd.slot.cluster].kind = "dir" /\ EntryAt(fs, cmd.slot)
         /\ SlotAt(fs, cmd.slot) \in SlotEntries
         /\ Leads(fs, cmd.slot.cluster, cmd.slot.index, SlotAt(fs, cmd.slot).first)
  BY SlotAtLemma, SlotValueLemma, EntryLeads DEF Named, EntryAt

\* What is lost after a step.
LEMMA LostPrime ==
  ASSUME layout' = layout, NEW t, Lost(t)'
  PROVE  fs'.fat[t] # 0 /\ ~AtHand(t)' /\ t # layout.dir /\ Bare(fs', t)
  BY DEF Lost, Led, Bare, Leads

\* What a step must not lose.
LEMMA LostLemma ==
  ASSUME NEW t, fs.fat[t] # 0, ~AtHand(t), t # layout.dir, Bare(fs, t)
  PROVE  Lost(t)
  BY DEF Lost, Led

\* A step that loses nothing: what it loses was lost.
LosesNothing == layout' = layout /\ crashes' = crashes /\ \A t \in Clusters : Lost(t)' => Lost(t)

\* wipe_direntries_of_current_file_or_dir: the clusters of the entry are at hand.
LEMMA WipeLoses ==
  ASSUME Before, Wipe
  PROVE  LosesNothing
  <1> DEFINE label == IF cmd.op = "rename" THEN "create" ELSE "free"
             target == IF cmd.op = "rename" THEN cmd.entry.first ELSE cmd.cluster
  <1>1. pc = "wipe" /\ WriteSlot(cmd.slot, WipedSlot) /\ FlushThen(label)
    BY DEF Wipe
  <1>2. /\ cmd \in Commands(cmd.result) /\ cmd.slot \in Slots /\ fs \in Disks /\ IInv
        /\ WipedSlot \in SlotValues
    BY BeforeLemma, SlotValueLemma DEF Good
  <1>3. SameWork /\ pc' = "flush" /\ cmd'.then = label /\ cmd'.cluster = cmd.cluster
    BY <1>1, <1>2, FlushWork
  <1>4. /\ fs.area[cmd.slot.cluster].kind = "dir" /\ SlotAt(fs, cmd.slot).first = target
    <2>1. Leads(fs, cmd.slot.cluster, cmd.slot.index, target)
      BY <1>1, <1>2 DEF IInv, WipeInv
    <2>2. PICK name : Named(fs, cmd.slot, name)
      BY <1>1 DEF Before, FilesInv, SlotInv
    <2>3. cmd.slot.index # 0
      BY <1>2, SizeAssumption DEF Slots
    <2> QED
      BY <1>2, <2>1, <2>2, <2>3, NamedSlot DEF Leads
  <1>5. /\ layout' = layout /\ crashes' = crashes /\ fs'.fat = fs.fat
        /\ \A t \in Clusters : Bare(fs', t) => Bare(fs, t) \/ SlotAt(fs, cmd.slot).first = t
    BY <1>1, <1>2, <1>4, SlotKeeps
  <1> SUFFICES ASSUME NEW t \in Clusters, Lost(t)'
               PROVE  Lost(t)
    BY <1>5 DEF LosesNothing
  <1>6. fs'.fat[t] # 0 /\ ~AtHand(t)' /\ t # layout.dir /\ Bare(fs', t)
    BY <1>5, LostPrime
  <1>7. t # target
    BY <1>3, <1>6 DEF AtHand, At, SameWork
  <1>8. ~AtHand(t)
    BY <1>1 DEF AtHand, At
  <1> QED
    BY <1>4, <1>5, <1>6, <1>7, <1>8, LostLemma

\* delete_single_file: the next cluster of the chain is at hand.
LEMMA FreeNextLoses ==
  ASSUME Before, FreeNext
  PROVE  LosesNothing
  <1> DEFINE b == cmd.cluster
  <1>1. pc = "free" /\ WriteFat(b, 0)
    BY DEF FreeNext
  <1>2. cmd \in Commands(cmd.result) /\ b \in Entries /\ fs \in Disks /\ 0 \in FatValues
    BY BeforeLemma, EntriesLemma DEF Good
  <1>3. InChain(fs.fat[b]) => pc' = "free" /\ cmd'.cluster = fs.fat[b]
    BY <1>2 DEF FreeNext, GotoWith, Commands
  <1> HIDE DEF b
  <1>4. /\ layout' = layout /\ crashes' = crashes
        /\ fs'.fat[b] = 0 /\ \A c \in Entries : c # b => fs'.fat[c] = fs.fat[c]
    BY <1>1, <1>2, FatKeeps
  <1>5. \A t \in Clusters : Bare(fs', t) => Bare(fs, t) \/ fs.fat[b] = t
    BY <1>1, <1>2, FatKeeps
  <1> SUFFICES ASSUME NEW t \in Clusters, Lost(t)'
               PROVE  Lost(t)
    BY <1>4 DEF LosesNothing
  <1>6. fs'.fat[t] # 0 /\ ~AtHand(t)' /\ t # layout.dir /\ Bare(fs', t)
    BY <1>4, LostPrime
  <1>7. t \in Entries /\ InChain(t)
    BY EntriesLemma DEF InChain, EndOfChain
  <1>8. t # fs.fat[b]
    BY <1>3, <1>6, <1>7 DEF AtHand, At
  <1>9. t # b /\ fs.fat[t] # 0
    BY <1>4, <1>6, <1>7
  <1>10. ~AtHand(t)
    BY <1>1, <1>9 DEF AtHand, At, b
  <1> QED
    BY <1>5, <1>6, <1>8, <1>9, <1>10, LostLemma

\* create_directory_entry_for_item: the slot was free.
LEMMA CreateEntryLoses ==
  ASSUME Before, CreateEntry
  PROVE  LosesNothing /\ FreshInv'
  <1> DEFINE q == FirstFreeSlot
             isDir == IF cmd.op = "rename" THEN cmd.entry.isDir ELSE cmd.op = "mkdir"
             s == EntrySlot(cmd.name, 0, 0, isDir)
             label == IF cmd.op = "rename" THEN "relink" ELSE "first"
  <1>1. /\ pc = "create" /\ WriteSlot(q, s) /\ FreeSlots # {}
        /\ GotoWith("flush", [cmd EXCEPT !.slot = q, !.then = label])
    BY NewEntryLemma DEF Before
  <1>2. /\ cmd \in Commands(cmd.result) /\ fs \in Disks /\ TypeInv /\ layout \in Layouts
        /\ fs.fat \in [Entries -> FatValues]
    BY BeforeLemma, DiskLemma DEF Good
  <1>3. /\ pc' = "flush" /\ cmd'.then = label /\ cmd'.slot = q
        /\ cmd'.op = cmd.op /\ cmd'.entry = cmd.entry
    BY <1>1, <1>2 DEF Commands, GotoWith
  <1>4. q \in Slots /\ SlotAt(fs, q) = FreeSlot
    <2>1. FreeSlots \subseteq Positions(fs)
      BY DEF FreeSlots
    <2>2. q \in FreeSlots /\ FreeSlots \subseteq Slots
      BY <1>1, <1>2, <2>1, FirstOfLemma DEF FirstFreeSlot
    <2> HIDE DEF q
    <2> QED
      BY <2>2 DEF FreeSlots
  <1> HIDE DEF q
  <1>5. fs.area[q.cluster].kind = "dir" /\ ~EntryAt(fs, q)
    BY <1>4 DEF SlotAt, FreeSlot, WipedSlot, EntryAt
  <1>6. s \in SlotValues /\ s.first = 0
    <2>1. isDir \in BOOLEAN /\ cmd.name \in Names
      BY <1>1, <1>2, SlotValueLemma DEF TypeInv
    <2> HIDE DEF isDir
    <2>2. s \in SlotEntries
      BY <2>1, EntriesLemma DEF SlotEntries, EntrySlot
    <2> QED
      BY <2>2, SlotValueLemma DEF EntrySlot
  <1> HIDE DEF s
  <1>7. /\ layout' = layout /\ crashes' = crashes /\ fs'.fat = fs.fat /\ SlotAt(fs', q) = s
        /\ \A t \in Clusters : Bare(fs', t) => Bare(fs, t)
    BY <1>1, <1>2, <1>4, <1>5, <1>6, SlotKeeps
  <1>8. FreshInv'
    BY <1>3, <1>6, <1>7 DEF FreshInv, At
  <1>9. ASSUME NEW t \in Clusters, Lost(t)'
        PROVE  Lost(t)
    <2>1. fs'.fat[t] # 0 /\ ~AtHand(t)' /\ t # layout.dir /\ Bare(fs', t)
      BY <1>7, <1>9, LostPrime
    <2>2. ~AtHand(t)
      BY <1>1, <1>3, <2>1 DEF AtHand, At
    <2> QED
      BY <1>7, <2>1, <2>2, LostLemma
  <1> QED
    BY <1>7, <1>8, <1>9 DEF LosesNothing

\* extend_dir_cluster_chain: the new cluster is at hand, ...
LEMMA ExtendDirLoses ==
  ASSUME Before, ExtendDir
  PROVE  LosesNothing
  <1> DEFINE last == Last(Chain(fs.fat, layout.dir))
             b == FindFree(last)
  <1>1. pc = "create" /\ FreeSlots = {} /\ WriteFat(b, EndOfChain)
        /\ GotoWith("extend", [cmd EXCEPT !.cluster = last, !.next = b])
    BY DEF ExtendDir
  <1>2. /\ cmd \in Commands(cmd.result) /\ fs \in Disks /\ fs.fat \in [Entries -> FatValues]
        /\ last \in Entries
    BY BeforeLemma, DirEnd, EntriesLemma, DiskLemma DEF Good
  <1>3. b \in Entries /\ fs.fat[b] = 0 /\ EndOfChain \in FatValues
    <2>1. b # 0
      BY <1>1 DEF Before, Room, DirectoryCanGrow
    <2> HIDE DEF last
    <2> QED
      BY <1>2, <2>1, FindFreeLemma, EntriesLemma
  <1>4. pc' = "extend" /\ cmd'.next = b /\ cmd'.op = cmd.op /\ cmd'.entry = cmd.entry
    BY <1>1, <1>2 DEF Commands, GotoWith
  <1> HIDE DEF b, last
  <1>5. /\ layout' = layout /\ crashes' = crashes
        /\ \A c \in Entries : c # b => fs'.fat[c] = fs.fat[c]
    BY <1>1, <1>2, <1>3, FatKeeps
  <1>6. \A t \in Clusters : Bare(fs', t) => Bare(fs, t) \/ fs.fat[b] = t
    BY <1>1, <1>2, <1>3, FatKeeps
  <1> SUFFICES ASSUME NEW t \in Clusters, Lost(t)'
               PROVE  Lost(t)
    BY <1>5 DEF LosesNothing
  <1>7. fs'.fat[t] # 0 /\ ~AtHand(t)' /\ t # layout.dir /\ Bare(fs', t)
    BY <1>5, LostPrime
  <1>8. t # b /\ t \in Entries /\ t # 0
    BY <1>4, <1>7, EntriesLemma DEF AtHand
  <1>9. fs.fat[t] # 0 /\ Bare(fs, t)
    BY <1>3, <1>5, <1>6, <1>7, <1>8
  <1>10. ~AtHand(t)
    BY <1>1, <1>4, <1>7 DEF AtHand, At
  <1> QED
    BY <1>7, <1>9, <1>10, LostLemma

\* ... the directory goes on there ...
LEMMA ChainDirLoses ==
  ASSUME Before, ChainDir
  PROVE  LosesNothing
  <1> DEFINE b == cmd.cluster
             v == cmd.next
  <1>1. pc = "extend" /\ WriteFat(b, v) /\ pc' = "clear" /\ cmd' = cmd
    BY DEF ChainDir, Goto
  <1>2. /\ fs \in Disks /\ b \in Entries /\ v \in FatValues
    BY BeforeLemma, EntriesLemma DEF Good
  <1>3. /\ b \in Clusters /\ fs.fat[b] = EndOfChain
    BY <1>1, BeforeLemma DEF Before, FilesInv, GrowDirInv
  <1> HIDE DEF b, v
  <1>4. /\ layout' = layout /\ crashes' = crashes
        /\ \A c \in Entries : c # b => fs'.fat[c] = fs.fat[c]
    BY <1>1, <1>2, FatKeeps
  <1>5. \A t \in Clusters : Bare(fs', t) => (Bare(fs, t) \/ fs.fat[b] = t) /\ v # t
    BY <1>1, <1>2, <1>3, FatKeeps
  <1> SUFFICES ASSUME NEW t \in Clusters, Lost(t)'
               PROVE  Lost(t)
    BY <1>4 DEF LosesNothing
  <1>6. fs'.fat[t] # 0 /\ ~AtHand(t)' /\ t # layout.dir /\ Bare(fs', t)
    BY <1>4, LostPrime
  <1>7. t \in Entries /\ t # EndOfChain /\ EndOfChain # 0
    BY EntriesLemma DEF EndOfChain
  <1>8. fs.fat[t] # 0 /\ Bare(fs, t) /\ t # v
    BY <1>3, <1>4, <1>5, <1>6, <1>7
  <1>9. ~AtHand(t)
    BY <1>1, <1>6, <1>8 DEF AtHand, At, v
  <1> QED
    BY <1>6, <1>8, <1>9, LostLemma

\* ... and there is no entry in it yet.
LEMMA ClearClusterLoses ==
  ASSUME Before, ClearCluster
  PROVE  LosesNothing
  <1> DEFINE b == cmd.next
  <1>1. pc = "clear" /\ WriteArea(b, EmptyDirectory) /\ FlushThen("create")
    BY NewClusterLemma DEF Before
  <1>2. /\ cmd \in Commands(cmd.result) /\ fs \in Disks /\ b \in Entries /\ Plain(fs, b)
    BY <1>1, BeforeLemma DEF Good, Before, FilesInv, GrowDirInv
  <1>3. SameWork /\ pc' = "flush" /\ cmd'.then = "create"
    BY <1>1, <1>2, FlushWork
  <1>4. EmptyDirectory \in Contents
    <2>1. EmptyDirectory \in DirContents
      BY SlotValueLemma DEF EmptyDirectory, Directory, DirContents
    <2> QED
      BY <2>1, ContentsLemma
  <1> HIDE DEF b
  <1>5. /\ layout' = layout /\ crashes' = crashes /\ fs'.fat = fs.fat
        /\ \A t \in Clusters : Bare(fs', t) => Bare(fs, t)
    BY <1>1, <1>2, <1>4, AreaKeeps
  <1> SUFFICES ASSUME NEW t \in Clusters, Lost(t)'
               PROVE  Lost(t)
    BY <1>5 DEF LosesNothing
  <1>6. fs'.fat[t] # 0 /\ ~AtHand(t)' /\ t # layout.dir /\ Bare(fs', t)
    BY <1>5, LostPrime
  <1>7. ~AtHand(t)
    BY <1>1, <1>3, <1>6 DEF AtHand, At, SameWork
  <1> QED
    BY <1>5, <1>6, <1>7, LostLemma

\* allocate_cluster: the first cluster is at hand, ...
LEMMA AllocateFirstLoses ==
  ASSUME Before, FreshInv, AllocateFirst
  PROVE  LosesNothing /\ FreshInv'
  <1> DEFINE b == FirstFree
  <1>1. /\ pc = "first" /\ WriteFat(b, EndOfChain) /\ SearchEnds(cmd.n) /\ b # 0
        /\ GotoWith("link", [cmd EXCEPT !.cluster = b])
    BY DEF AllocateFirst
  <1>2. cmd \in Commands(cmd.result) /\ TypeInv /\ fs \in Disks /\ cmd.slot \in Slots
    BY BeforeLemma DEF Good
  <1>3. b \in Entries /\ fs.fat[b] = 0 /\ EndOfChain \in FatValues
    BY <1>1, <1>2, FirstIsFree, EntriesLemma
  <1> HIDE DEF b
  <1>4. pc' = "link" /\ cmd'.cluster = b /\ cmd'.slot = cmd.slot
    BY <1>1, <1>2 DEF Commands, GotoWith
  <1>5. /\ layout' = layout /\ crashes' = crashes
        /\ \A c \in Entries : c # b => fs'.fat[c] = fs.fat[c]
    BY <1>1, <1>2, <1>3, FatKeeps
  <1>6. \A t \in Clusters : Bare(fs', t) => Bare(fs, t) \/ fs.fat[b] = t
    BY <1>1, <1>2, <1>3, FatKeeps
  <1>7. FreshInv'
    <2>1. SlotAt(fs', cmd.slot) = SlotAt(fs, cmd.slot)
      BY <1>1, <1>2, <1>3, FatKeeps
    <2> QED
      BY <1>1, <1>4, <2>1 DEF FreshInv, At
  <1>8. ASSUME NEW t \in Clusters, Lost(t)'
        PROVE  Lost(t)
    <2>1. fs'.fat[t] # 0 /\ ~AtHand(t)' /\ t # layout.dir /\ Bare(fs', t)
      BY <1>5, <1>8, LostPrime
    <2>2. t # b /\ t \in Entries /\ t # 0
      BY <1>4, <2>1, EntriesLemma DEF AtHand
    <2>3. fs.fat[t] # 0 /\ Bare(fs, t)
      BY <1>3, <1>5, <1>6, <2>1, <2>2
    <2>4. ~AtHand(t)
      BY <1>1 DEF AtHand, At
    <2> QED
      BY <2>1, <2>3, <2>4, LostLemma
  <1> QED
    BY <1>5, <1>7, <1>8 DEF LosesNothing

\* ... until the entry, which led nowhere, leads to it.
LEMMA LinkEntryLoses ==
  ASSUME Before, FreshInv, LinkEntry
  PROVE  LosesNothing
  <1> DEFINE o == SlotAt(fs, cmd.slot)
             s == [o EXCEPT !.first = cmd.cluster]
  <1>1. pc = "link" /\ WriteSlot(cmd.slot, s)
    BY DEF LinkEntry
  <1>2. fs \in Disks /\ cmd.slot \in Slots /\ cmd.cluster \in Entries
    BY BeforeLemma DEF Good
  <1>3. Named(fs, cmd.slot, cmd.name) /\ o.first = 0
    BY <1>1 DEF Before, FilesInv, SlotInv, FreshInv, At
  <1>4. fs.area[cmd.slot.cluster].kind = "dir" /\ o \in SlotEntries
    BY <1>2, <1>3, NamedSlot
  <1>5. s \in SlotValues /\ s.state = "entry" /\ s.first = cmd.cluster
    <2> HIDE DEF o
    <2> QED
      BY <1>2, <1>4, FieldLemma, SlotValueLemma, EntriesLemma
  <1> HIDE DEF s
  <1>6. /\ layout' = layout /\ crashes' = crashes /\ fs'.fat = fs.fat
        /\ \A t \in Clusters : Bare(fs', t) => (Bare(fs, t) \/ o.first = t) /\ s.first # t
    BY <1>1, <1>2, <1>4, <1>5, SlotKeeps
  <1> HIDE DEF o
  <1> SUFFICES ASSUME NEW t \in Clusters, Lost(t)'
               PROVE  Lost(t)
    BY <1>6 DEF LosesNothing
  <1>7. fs'.fat[t] # 0 /\ ~AtHand(t)' /\ t # layout.dir /\ Bare(fs', t)
    BY <1>6, LostPrime
  <1>8. Bare(fs, t) /\ t # cmd.cluster
    BY <1>3, <1>5, <1>6, <1>7, EntriesLemma
  <1>9. ~AtHand(t)
    BY <1>1, <1>8 DEF AtHand, At
  <1> QED
    BY <1>6, <1>7, <1>8, <1>9, LostLemma

\* The loop of upload_single_file writes where no entry is, ...
LEMMA WriteDataLoses ==
  ASSUME Before, WriteData
  PROVE  LosesNothing
  <1> DEFINE b == cmd.cluster
             a == IF cmd.op = "put" THEN Data(cmd.id, cmd.part + 1) ELSE NewDirectory
  <1>1. pc = "data" /\ WriteArea(b, a)
    BY DEF WriteData
  <1>2. /\ TypeInv /\ fs \in Disks /\ b \in Entries
        /\ \A p \in Slots : EntryAt(fs, p) => p.cluster \in Dir(fs)
    BY BeforeLemma DEF Good
  <1>3. cmd.part \in Nat /\ b \notin Dir(fs)
    BY <1>1, RowFacts
  <1>4. a \in Contents
    <2>1. cmd.op = "put" => Data(cmd.id, cmd.part + 1) \in PlainContents
      BY <1>2, <1>3 DEF TypeInv, Data, PlainContents
    <2>2. NewDirectory \in DirContents
      BY SlotValueLemma DEF NewDirectory, Directory, DirContents
    <2> QED
      BY <2>1, <2>2, ContentsLemma
  <1>5. Plain(fs, b)
    BY <1>2, <1>3 DEF Plain
  <1> HIDE DEF a, b
  <1>6. /\ layout' = layout /\ crashes' = crashes /\ fs'.fat = fs.fat
        /\ \A t \in Clusters : Bare(fs', t) => Bare(fs, t)
    BY <1>1, <1>2, <1>4, <1>5, AreaKeeps
  <1> SUFFICES ASSUME NEW t \in Clusters, Lost(t)'
               PROVE  Lost(t)
    BY <1>6 DEF LosesNothing
  <1>7. fs'.fat[t] # 0 /\ ~AtHand(t)' /\ t # layout.dir /\ Bare(fs', t)
    BY <1>6, LostPrime
  <1>8. ~AtHand(t)
    BY <1>1 DEF AtHand, At
  <1> QED
    BY <1>6, <1>7, <1>8, LostLemma

\* ... takes the next cluster, which is at hand, ...
LEMMA GrowFileLoses ==
  ASSUME Before, GrowFile
  PROVE  LosesNothing
  <1> DEFINE b == FindFree(cmd.cluster)
  <1>1. pc = "grow" /\ WriteFat(b, EndOfChain) /\ GotoWith("chain", [cmd EXCEPT !.next = b])
    BY DEF GrowFile
  <1>2. /\ cmd \in Commands(cmd.result) /\ fs \in Disks /\ fs.fat \in [Entries -> FatValues]
        /\ cmd.cluster \in Entries
    BY BeforeLemma, DiskLemma DEF Good
  <1>3. b \in Entries /\ (b # 0 => fs.fat[b] = 0) /\ EndOfChain \in FatValues
    BY <1>2, FindFreeLemma, EntriesLemma
  <1>4. pc' = "chain" /\ cmd'.next = b
    BY <1>1, <1>2 DEF Commands, GotoWith
  <1> HIDE DEF b
  <1>5. /\ layout' = layout /\ crashes' = crashes
        /\ \A c \in Entries : c # b => fs'.fat[c] = fs.fat[c]
    BY <1>1, <1>2, <1>3, FatKeeps
  <1>6. \A t \in Clusters : Bare(fs', t) => Bare(fs, t) \/ fs.fat[b] = t
    BY <1>1, <1>2, <1>3, FatKeeps
  <1>7. \A t \in Clusters : b = 0 => fs.fat[b] # t
    BY BeforeLemma, EntriesLemma DEF Good, Sound, Numbers, EndOfChain
  <1> SUFFICES ASSUME NEW t \in Clusters, Lost(t)'
               PROVE  Lost(t)
    BY <1>5 DEF LosesNothing
  <1>8. fs'.fat[t] # 0 /\ ~AtHand(t)' /\ t # layout.dir /\ Bare(fs', t)
    BY <1>5, LostPrime
  <1>9. t # b /\ t \in Entries /\ t # 0
    BY <1>4, <1>8, EntriesLemma DEF AtHand
  <1>10. fs.fat[t] # 0 /\ Bare(fs, t)
    BY <1>3, <1>5, <1>6, <1>7, <1>8, <1>9
  <1>11. ~AtHand(t)
    BY <1>1 DEF AtHand, At
  <1> QED
    BY <1>8, <1>10, <1>11, LostLemma

\* ... until the chain, which ended there, leads to it.
LEMMA ChainFileLoses ==
  ASSUME Before, ChainFile
  PROVE  LosesNothing
  <1> DEFINE b == cmd.cluster
             v == cmd.next
  <1>1. pc = "chain" /\ WriteFat(b, v)
    BY DEF ChainFile
  <1>2. /\ fs \in Disks /\ b \in Entries /\ v \in FatValues
    BY BeforeLemma, EntriesLemma DEF Good
  <1>3. /\ b \in Clusters /\ fs.fat[b] = EndOfChain
    BY <1>1, BeforeLemma DEF IInv, ChainInv
  <1> HIDE DEF b, v
  <1>4. /\ layout' = layout /\ crashes' = crashes
        /\ \A c \in Entries : c # b => fs'.fat[c] = fs.fat[c]
    BY <1>1, <1>2, FatKeeps
  <1>5. \A t \in Clusters : Bare(fs', t) => (Bare(fs, t) \/ fs.fat[b] = t) /\ v # t
    BY <1>1, <1>2, <1>3, FatKeeps
  <1> SUFFICES ASSUME NEW t \in Clusters, Lost(t)'
               PROVE  Lost(t)
    BY <1>4 DEF LosesNothing
  <1>6. fs'.fat[t] # 0 /\ ~AtHand(t)' /\ t # layout.dir /\ Bare(fs', t)
    BY <1>4, LostPrime
  <1>7. t \in Entries /\ t # EndOfChain /\ EndOfChain # 0
    BY EntriesLemma DEF EndOfChain
  <1>8. fs.fat[t] # 0 /\ Bare(fs, t) /\ t # v
    BY <1>3, <1>4, <1>5, <1>6, <1>7
  <1>9. ~AtHand(t)
    BY <1>1, <1>8 DEF AtHand, At, v
  <1> QED
    BY <1>6, <1>8, <1>9, LostLemma

\* The size goes into an entry that keeps its clusters.
LEMMA WriteSizeLoses ==
  ASSUME Before, WriteSize
  PROVE  LosesNothing
  <1> DEFINE size == IF cmd.op = "put" THEN cmd.n ELSE 0
             o == SlotAt(fs, cmd.slot)
             s == [o EXCEPT !.size = size]
  <1>1. pc = "size" /\ WriteSlot(cmd.slot, s)
    BY DEF WriteSize
  <1>2. fs \in Disks /\ cmd.slot \in Slots /\ size \in Nat
    BY BeforeLemma DEF Good, Commands
  <1>3. Named(fs, cmd.slot, cmd.name)
    BY <1>1 DEF Before, FilesInv, SlotInv, At
  <1>4. fs.area[cmd.slot.cluster].kind = "dir" /\ o \in SlotEntries
    BY <1>2, <1>3, NamedSlot
  <1> HIDE DEF size
  <1>5. s \in SlotValues /\ s.state = "entry" /\ s.first = o.first
    <2> HIDE DEF o
    <2>1. [o EXCEPT !.size = size] \in SlotEntries /\ [o EXCEPT !.size = size].first = o.first
      BY <1>2, <1>4 DEF SlotEntries
    <2> QED
      BY <2>1, SlotValueLemma
  <1> HIDE DEF s
  <1>6. /\ layout' = layout /\ crashes' = crashes /\ fs'.fat = fs.fat
        /\ \A t \in Clusters : Bare(fs', t) => (Bare(fs, t) \/ o.first = t) /\ s.first # t
    BY <1>1, <1>2, <1>4, <1>5, SlotKeeps
  <1> HIDE DEF o
  <1> SUFFICES ASSUME NEW t \in Clusters, Lost(t)'
               PROVE  Lost(t)
    BY <1>6 DEF LosesNothing
  <1>7. fs'.fat[t] # 0 /\ ~AtHand(t)' /\ t # layout.dir /\ Bare(fs', t)
    BY <1>6, LostPrime
  <1>8. ~AtHand(t)
    BY <1>1 DEF AtHand, At
  <1> QED
    BY <1>5, <1>6, <1>7, <1>8, LostLemma

\* rename_file_or_dir: the new entry, which led nowhere, leads to the clusters of
\* the old one.
LEMMA RelinkLoses ==
  ASSUME Before, FreshInv, Relink
  PROVE  LosesNothing
  <1> DEFINE o == SlotAt(fs, cmd.slot)
             e == cmd.entry
             s == [o EXCEPT !.first = e.first, !.size = e.size]
  <1>1. pc = "relink" /\ WriteSlot(cmd.slot, s)
    BY DEF Relink
  <1>2. fs \in Disks /\ cmd.slot \in Slots /\ TypeInv
    BY BeforeLemma DEF Good
  <1>3. Named(fs, cmd.slot, cmd.name) /\ o.first = 0
    BY <1>1 DEF Before, FilesInv, SlotInv, FreshInv, At
  <1>4. fs.area[cmd.slot.cluster].kind = "dir" /\ o \in SlotEntries
    BY <1>2, <1>3, NamedSlot
  <1>5. e.first \in Entries /\ e.size \in Nat
    BY <1>1, <1>2, SlotValueLemma DEF TypeInv, RelinkInv
  <1>6. s \in SlotValues /\ s.state = "entry" /\ s.first = e.first
    <2> HIDE DEF o, e
    <2>1. /\ [o EXCEPT !.first = e.first, !.size = e.size] \in SlotEntries
          /\ [o EXCEPT !.first = e.first, !.size = e.size].first = e.first
      BY <1>4, <1>5 DEF SlotEntries
    <2> QED
      BY <2>1, SlotValueLemma
  <1> HIDE DEF s
  <1>7. /\ layout' = layout /\ crashes' = crashes /\ fs'.fat = fs.fat
        /\ \A t \in Clusters : Bare(fs', t) => (Bare(fs, t) \/ o.first = t) /\ s.first # t
    BY <1>1, <1>2, <1>4, <1>6, SlotKeeps
  <1> HIDE DEF o
  <1> SUFFICES ASSUME NEW t \in Clusters, Lost(t)'
               PROVE  Lost(t)
    BY <1>7 DEF LosesNothing
  <1>8. fs'.fat[t] # 0 /\ ~AtHand(t)' /\ t # layout.dir /\ Bare(fs', t)
    BY <1>7, LostPrime
  <1>9. Bare(fs, t) /\ t # e.first
    BY <1>3, <1>6, <1>7, <1>8, EntriesLemma
  <1>10. ~AtHand(t)
    BY <1>1, <1>9 DEF AtHand, At
  <1> QED
    BY <1>7, <1>8, <1>9, <1>10, LostLemma

\* What no write touches is not lost, if what was at hand still is.
LEMMA SameLoses ==
  ASSUME fs' = fs, layout' = layout, crashes' = crashes,
         \A t \in Clusters : AtHand(t) => AtHand(t)'
  PROVE  LosesNothing
  <1> SUFFICES ASSUME NEW t \in Clusters, Lost(t)'
               PROVE  Lost(t)
    BY DEF LosesNothing
  <1>1. fs'.fat[t] # 0 /\ ~AtHand(t)' /\ t # layout.dir /\ Bare(fs', t)
    BY LostPrime
  <1> QED
    BY <1>1, LostLemma

\* execute_write_queue and "Failed to find a free cluster." leave the disk.
LEMMA FlushLoses ==
  ASSUME Before, FreshInv, Flush
  PROVE  LosesNothing /\ FreshInv'
  <1>1. /\ pc = "flush" /\ pc' = cmd.then /\ fs' = fs /\ cmd' = cmd
        /\ layout' = layout /\ crashes' = crashes
    BY DEF Flush
  <1>2. cmd.then \in {"prompt", "free", "create", "first", "relink"}
    BY <1>1, BeforeLemma DEF IInv, OpInv
  <1>3. FreshInv'
    BY <1>1, <1>2 DEF FreshInv, At
  <1>4. \A t : AtHand(t) => AtHand(t)'
    BY <1>1, <1>2 DEF AtHand, At
  <1> QED
    BY <1>1, <1>3, <1>4, SameLoses

\* Nor does anything begin that is not at hand: a new command has lost nothing.
LEMMA CommandLoses ==
  ASSUME Before, Command
  PROVE  LosesNothing /\ FreshInv'
  <1>1. /\ pc = "prompt" /\ fs' = fs /\ layout' = layout /\ crashes' = crashes
    BY DEF Command, PutNew, PutOver, PutAnew, Delete, Rename, Mkdir, Begin
  <1>2. \A t : ~AtHand(t)
    BY <1>1 DEF AtHand, At
  <1>3. ASSUME pc' \in {"first", "link", "relink", "flush"}
        PROVE  pc' = "first" /\ SlotAt(fs, cmd'.slot).first = 0
    <2>1. PICK name \in FileNames, n \in FileSizes : PutOver(name, n)
      BY <1>3 DEF Command, PutNew, PutAnew, Delete, Rename, Mkdir, Begin
    <2> DEFINE first == SlotAt(fs, Found(name)).first
               command == [PutCommand(name, n) EXCEPT !.slot = Found(name), !.cluster = first]
    <2>2. pc' = (IF first = 0 THEN "first" ELSE "data") /\ cmd' = command
      BY <2>1 DEF PutOver, Begin
    <2>3. command.slot = Found(name)
      BY DEF PutCommand, NoCommand
    <2> HIDE DEF command
    <2> QED
      BY <1>3, <2>2, <2>3
  <1>4. FreshInv'
    BY <1>1, <1>3 DEF FreshInv, At
  <1> QED
    BY <1>1, <1>2, <1>4, SameLoses

\* No step but a crash loses a cluster.
LEMMA NextLoses ==
  ASSUME Before, FreshInv, [Next]_vars, TypeInv', IInv'
  PROVE  FreshInv' /\ (LosesNothing \/ crashes' # 0)
  <1>1. CASE UNCHANGED vars
    <2>1. fs' = fs /\ layout' = layout /\ crashes' = crashes /\ pc' = pc /\ cmd' = cmd
      BY <1>1 DEF vars
    <2>2. FreshInv'
      BY <2>1 DEF FreshInv, At
    <2>3. \A t : AtHand(t) => AtHand(t)'
      BY <2>1 DEF AtHand, At
    <2> QED
      BY <2>1, <2>2, <2>3, SameLoses
  <1>2. CASE Command
    BY <1>2, CommandLoses
  <1>3. CASE Crash
    <2>1. crashes \in Nat /\ crashes' = crashes + 1 /\ pc' = "prompt"
      BY <1>3, BeforeLemma DEF Crash, TypeInv, TypeOK
    <2> QED
      BY <2>1 DEF FreshInv, At
  <1>4. CASE NoFreeCluster
    <2>1. /\ fs' = fs /\ layout' = layout /\ crashes' = crashes /\ pc = "first" /\ pc' = "prompt"
      BY <1>4 DEF NoFreeCluster
    <2>2. \A t : ~AtHand(t)
      BY <2>1 DEF AtHand, At
    <2> QED
      BY <2>1, <2>2, SameLoses DEF FreshInv, At
  <1>5. CASE CreateEntry \/ AllocateFirst \/ Flush
    BY <1>5, CreateEntryLoses, AllocateFirstLoses, FlushLoses
  <1>6. CASE Wipe \/ FreeNext \/ ExtendDir \/ ChainDir \/ ClearCluster \/ LinkEntry
             \/ WriteData \/ GrowFile \/ ChainFile \/ WriteSize \/ Relink
    <2>1. LosesNothing
      BY <1>6, WipeLoses, FreeNextLoses, ExtendDirLoses, ChainDirLoses, ClearClusterLoses,
         LinkEntryLoses, WriteDataLoses, GrowFileLoses, ChainFileLoses, WriteSizeLoses, RelinkLoses
    <2>2. /\ pc' \in {"free", "extend", "clear", "data", "grow", "chain", "size", "flush"}
          /\ pc' = "flush" => cmd'.then \in {"prompt", "free", "create", "stray"}
      <3>1. cmd \in Commands(cmd.result)
        BY BeforeLemma
      <3>2. \A label : FlushThen(label) => pc' = "flush" /\ cmd'.then = label
        BY <3>1, FlushWork
      <3> QED
        BY <1>6, <3>2 DEF Wipe, FreeNext, ExtendDir, ChainDir, ClearCluster, LinkEntry, WriteData,
           GrowFile, ChainFile, WriteSize, Relink, Goto, GotoWith
    <2> QED
      BY <2>1, <2>2 DEF FreshInv, At
  <1> QED
    BY <1>1, <1>2, <1>3, <1>4, <1>5, <1>6 DEF Next, Step

\* The card has no lost clusters but those in use elsewhere.
LEMMA LostInit ==
  ASSUME Init
  PROVE  LostInv /\ FreshInv
  <1>1. FreshInv
    BY DEF Init, FreshInv, At
  <1>2. ASSUME NEW t \in Clusters, Lost(t)
        PROVE  t \in layout.used
    <2>1. t \in Entries /\ t \notin {0, 1} /\ fs.fat[t] # 0 /\ t # layout.dir
      BY <1>2, EntriesLemma DEF Lost, Led
    <2> QED
      BY <2>1 DEF Init
  <1> QED
    BY <1>1, <1>2 DEF LostInv

\* A place that leads to a cluster is a reference to it, and a command that has
\* ended has nothing at hand.
LEMMA NotLost ==
  ASSUME fs \in Disks, LostInv
  PROVE  NoLostClusters
  <1> SUFFICES ASSUME crashes = 0, pc = "prompt", NEW t \in Clusters \ layout.used, fs.fat[t] # 0
               PROVE  \E r \in References(fs) : r.to = t
    BY DEF NoLostClusters
  <1> DEFINE dirs == {c \in Entries : fs.area[c].kind = "dir"}
             used == {p \in [cluster : dirs, index : 1 .. SlotsPerCluster] :
                        SlotAt(fs, p).state = "entry"}
             ByEntry == {[by |-> <<"entry", p>>, to |-> SlotAt(fs, p).first] : p \in used}
             ByLink == {[by |-> <<"fat", c>>, to |-> fs.fat[c]] : c \in Clusters}
             ByRoot == {[by |-> <<"parent">>, to |-> layout.dir]}
  <1>1. References(fs) = ByEntry \cup ByLink \cup ByRoot
    BY DEF References
  <1>2. ~AtHand(t)
    BY DEF AtHand, At
  <1>3. Led(fs, t)
    BY <1>2 DEF LostInv, Lost
  <1>4. CASE t = layout.dir
    <2>1. [by |-> <<"parent">>, to |-> layout.dir] \in References(fs)
      BY <1>1
    <2> QED
      BY <1>4, <2>1
  <1>5. CASE ~Bare(fs, t)
    <2>1. PICK c \in Entries, i \in Indexes : Leads(fs, c, i, t)
      BY <1>5 DEF Bare
    <2>2. CASE i = 0
      <3>1. c \in Clusters /\ fs.fat[c] = t
        BY <2>1, <2>2 DEF Leads
      <3>2. [by |-> <<"fat", c>>, to |-> fs.fat[c]] \in References(fs)
        BY <1>1, <3>1
      <3> QED
        BY <3>1, <3>2
    <2>3. CASE i # 0
      <3> DEFINE p == [cluster |-> c, index |-> i]
      <3>1. i \in 1 .. SlotsPerCluster /\ c \in dirs
        BY <2>1, <2>3, SizeAssumption DEF Indexes, Leads
      <3>2. SlotAt(fs, p).state = "entry" /\ SlotAt(fs, p).first = t
        BY <2>1, <2>3 DEF Leads, SlotAt
      <3>3. p \in used
        BY <3>1, <3>2
      <3> HIDE DEF p, used
      <3>4. [by |-> <<"entry", p>>, to |-> SlotAt(fs, p).first] \in References(fs)
        BY <1>1, <3>3
      <3> QED
        BY <3>2, <3>4
    <2> QED
      BY <2>2, <2>3
  <1> QED
    BY <1>3, <1>4, <1>5 DEF Led

\* Every step keeps what is known of lost clusters.
LEMMA LostNext ==
  ASSUME Before, FreshInv, LostInv, [Next]_vars, TypeInv', IInv'
  PROVE  FreshInv' /\ LostInv'
  <1>1. FreshInv' /\ (LosesNothing \/ crashes' # 0)
    BY NextLoses
  <1>2. CASE LosesNothing
    BY <1>1, <1>2 DEF LosesNothing, LostInv
  <1>3. CASE crashes' # 0
    BY <1>1, <1>3 DEF LostInv
  <1> QED
    BY <1>1, <1>2, <1>3

\* As long as nothing crashes every cluster that a command leaves marked as used is
\* part of a file or of a directory, or was in use elsewhere before: delete frees
\* all of a chain, rename takes along what the old entry led to, put and mkdir
\* link what they allocate, whether they end well or find no free cluster.
THEOREM NoLostClustersTheorem ==
  ASSUME NamesApart
  PROVE  Spec /\ []Room => []NoLostClusters
  <1>1. Init => TypeInv /\ IInv /\ LostInv /\ FreshInv
    BY InitTypes, InitInv, LostInit
  <1>2. TypeInv /\ IInv /\ Init => FilesInv
    BY InitFiles
  <1>3. TypeInv /\ [Next]_vars => TypeInv'
    BY TypeNext
  <1>4. TypeInv /\ IInv /\ Room /\ [Next]_vars => IInv'
    BY NextStep, UnchangedStep
  <1>5. TypeInv /\ IInv /\ FilesInv /\ Room /\ [Next]_vars => FilesInv'
    BY NextFiles
  <1>6. /\ TypeInv /\ IInv /\ FilesInv /\ Room /\ LostInv /\ FreshInv /\ [Next]_vars
        /\ TypeInv' /\ IInv'
        => LostInv' /\ FreshInv'
    BY LostNext DEF Before
  <1>7. TypeInv /\ LostInv => NoLostClusters
    BY NotLost DEF TypeInv, TypeOK
  <1> QED
    BY <1>1, <1>2, <1>3, <1>4, <1>5, <1>6, <1>7, PTL DEF Spec

=============================================================================
