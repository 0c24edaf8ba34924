------------------------- MODULE EthRemoteSDProofs -------------------------
(***************************************************************************)
(* Theorems about the Ethernet job protocol, for every batch size, window, *)
(* number of jobs and card.                                                *)
(***************************************************************************)
EXTENDS EthRemoteSD, EthServerProofs, SequenceTheorems

Elements(q) == {q[i] : i \in DOMAIN q}

\* The packets the client has handed over and that may still arrive, or be sent
\* again.
ToServer == Elements(toServer)
Writes == {p \in ToServer \cup {frames[k] : k \in Slots} : p.op = "write"}

\* From the first packet of a write job until the job is finished.
Writing == job.kind = "write" /\ pc \in {"send", "full", "drain", "exited"}

-----------------------------------------------------------------------------
(* The inductive invariant *)

\* The order lists the slots of the unacknowledged frames, each once.
WindowInv ==
  /\ \A i, j \in DOMAIN order : order[i] = order[j] => i = j
  /\ \A i \in DOMAIN order : frames[order[i]] # NoPacket
  /\ \A k \in Slots :
       frames[k] # NoPacket => \E i \in DOMAIN order : order[i] = k

\* How far the client is in its job.
JobInv ==
  /\ pc \notin {"ready", "exited"} => job \in Jobs /\ jobNo \in JobNumbers
  /\ pc \in {"clear", "send", "full"} =>
       IF job.kind = "write" THEN sent < job.n ELSE sent = 0
  /\ pc = "drain" /\ job.kind = "write" => sent = job.n

\* Requests with one counter belong to one batch.
Agree(p, q) ==
  p.counter = q.counter =>
    /\ p.start = q.start
    /\ p.last = q.last
    /\ p.slot = q.slot => p.data = q.data

\* Requests with the client's counter are packets of the job at hand.
IsCurrent(p) ==
  p.counter = write_batch_counter =>
    Writing /\ p.slot < sent /\ p = Packet(p.slot)

PacketsInv ==
  /\ \A p \in Writes : GoodWrite(p) /\ IsCurrent(p)
  /\ \A p, q \in Writes : Agree(p, q)

\* With the client's counter the MEGA65 has the job at hand, and nothing of it
\* that was not sent.
InJob(s) ==
  s.current_batch_counter = write_batch_counter =>
    /\ Writing
    /\ job.n = 1 => ~s.write_batch_active
    /\ job.n # 1 =>
         /\ s.sector_number_write = job.start
         /\ s.write_batch_max_id = job.n - 1
         /\ \A i \in s.slot_ids_received :
              /\ i < sent
              /\ s.write_cache[i] = Content(jobNo, job.start + i)
         /\ ~s.write_batch_active => s.slot_ids_received = 0 .. job.n - 1

BatchInv(s) ==
  /\ ServerInv(s)
  /\ \A p \in Writes : FitsBatch(s, p)
  /\ InJob(s)

CoreInv == TypeOK /\ WindowInv /\ JobInv /\ PacketsInv /\ BatchInv(srv)

-----------------------------------------------------------------------------
(* Sequences and numbers *)

\* Counters, indices and sectors are bounded numbers.
LEMMA NumbersLemma ==
  /\ \A x \in Counters : x \in Nat /\ x <= BatchMod - 1
  /\ \A x \in Indices : x \in Nat /\ x <= MaxBatch - 1
  /\ \A x \in Sectors : x \in Nat /\ x <= MaxSector
BY SizesLemma DEF Counters, Indices, Sectors

\* What is left of a sequence when one element is taken out: the elements before
\* it stay where they are, the later ones move up.
LEMMA RemoveAtLemma ==
  ASSUME NEW S, NEW q \in Seq(S), NEW i \in DOMAIN q
  PROVE  /\ RemoveAt(q, i) \in Seq(S)
         /\ Len(RemoveAt(q, i)) = Len(q) - 1
         /\ DOMAIN RemoveAt(q, i) = 1 .. Len(q) - 1
         /\ \A j \in 1 .. Len(q) - 1 :
              RemoveAt(q, i)[j] = IF j < i THEN q[j] ELSE q[j + 1]
<1> DEFINE a == SubSeq(q, 1, i - 1)
           b == SubSeq(q, i + 1, Len(q))
<1>1. i \in Nat /\ i >= 1 /\ i <= Len(q) /\ Len(q) \in Nat /\ DOMAIN q = 1 .. Len(q)
  OBVIOUS
<1>2. a \in Seq(S) /\ Len(a) = i - 1 /\ \A j \in 1 .. i - 1 : a[j] = q[j]
  BY <1>1
<1>3. b \in Seq(S) /\ Len(b) = Len(q) - i
      /\ \A j \in 1 .. Len(q) - i : b[j] = q[i + j]
  BY <1>1
<1>4. RemoveAt(q, i) = a \o b
  BY DEF RemoveAt
<1> HIDE DEF a, b
<1>5. a \o b \in Seq(S) /\ Len(a \o b) = Len(q) - 1
      /\ \A j \in 1 .. Len(q) - 1 :
           (a \o b)[j] = IF j <= i - 1 THEN a[j] ELSE b[j - (i - 1)]
  <2>1. Len(a) + Len(b) = Len(q) - 1 /\ Len(a) = i - 1
    BY <1>1, <1>2, <1>3
  <2>2. a \in Seq(S) /\ b \in Seq(S)
    BY <1>2, <1>3
  <2>3. /\ a \o b \in Seq(S)
        /\ Len(a \o b) = Len(a) + Len(b)
        /\ \A j \in 1 .. Len(a) + Len(b) :
             (a \o b)[j] = IF j <= Len(a) THEN a[j] ELSE b[j - Len(a)]
    BY <2>2, ConcatProperties, Zenon
  <2> QED
    BY <2>1, <2>3
<1>6. DOMAIN (a \o b) = 1 .. Len(q) - 1
  BY <1>5
<1>7. ASSUME NEW j \in 1 .. Len(q) - 1
      PROVE  (a \o b)[j] = IF j < i THEN q[j] ELSE q[j + 1]
  <2>1. CASE j < i
    BY <2>1, <1>1, <1>2, <1>5
  <2>2. CASE ~(j < i)
    <3>1. j - (i - 1) \in 1 .. Len(q) - i /\ i + (j - (i - 1)) = j + 1
      BY <2>2, <1>1
    <3>2. b[j - (i - 1)] = q[i + (j - (i - 1))]
      BY <1>3, <3>1
    <3> QED
      BY <2>2, <1>1, <1>5, <3>1, <3>2
  <2> QED
    BY <2>1, <2>2
<1> QED
  BY <1>4, <1>5, <1>6, <1>7

\* What arrives was sent.
LEMMA SentLemma ==
  ASSUME NEW S, NEW q \in Seq(S), NEW p \in S, Len(q) <= Capacity
  PROVE  /\ Sent(q, p) \in Seq(S)
         /\ Len(Sent(q, p)) <= Capacity
         /\ Elements(Sent(q, p)) \subseteq Elements(q) \cup {p}
<1>1. Len(q) \in Nat /\ Capacity \in Nat
  BY LinkAssumption
<1>2. CASE Len(q) < Capacity
  BY <1>1, <1>2 DEF Sent, Elements
<1>3. CASE ~(Len(q) < Capacity)
  BY <1>1, <1>3 DEF Sent, Elements
<1> QED
  BY <1>2, <1>3

\* A packet less.
LEMMA ElementsLemma ==
  ASSUME NEW S, NEW q \in Seq(S), NEW i \in DOMAIN q
  PROVE  /\ RemoveAt(q, i) \in Seq(S)
         /\ Len(RemoveAt(q, i)) <= Len(q)
         /\ Elements(RemoveAt(q, i)) \subseteq Elements(q)
<1>1. /\ RemoveAt(q, i) \in Seq(S)
      /\ Len(RemoveAt(q, i)) = Len(q) - 1
      /\ DOMAIN RemoveAt(q, i) = 1 .. Len(q) - 1
      /\ \A j \in 1 .. Len(q) - 1 :
           RemoveAt(q, i)[j] = IF j < i THEN q[j] ELSE q[j + 1]
  BY RemoveAtLemma
<1>2. Len(q) \in Nat /\ DOMAIN q = 1 .. Len(q)
  OBVIOUS
<1>3. ASSUME NEW j \in 1 .. Len(q) - 1
      PROVE  RemoveAt(q, i)[j] \in Elements(q)
  <2>1. j \in DOMAIN q /\ j + 1 \in DOMAIN q
    BY <1>2
  <2> QED
    BY <1>1, <2>1 DEF Elements
<1> QED
  BY <1>1, <1>2, <1>3 DEF Elements

\* The rank of a number in a finite set tells it from the others.
LEMMA RanksLemma ==
  ASSUME NEW F, F \subseteq Nat, IsFiniteSet(F)
  PROVE  LET r == [k \in F |-> Cardinality({j \in F : j <= k})] IN
         /\ Cardinality(F) \in Nat
         /\ r \in [F -> 1 .. Cardinality(F)]
         /\ \A k, l \in F : r[k] = r[l] => k = l
<1> DEFINE below(k) == {j \in F : j <= k}
           n == Cardinality(F)
           r == [k \in F |-> Cardinality(below(k))]
<1>1. n \in Nat
  BY FS_CardinalityType
<1>2. \A k \in F : /\ IsFiniteSet(below(k))
                   /\ Cardinality(below(k)) \in Nat
                   /\ Cardinality(below(k)) <= n
  <2> SUFFICES ASSUME NEW k \in F
               PROVE  /\ IsFiniteSet(below(k))
                      /\ Cardinality(below(k)) \in Nat
                      /\ Cardinality(below(k)) <= n
    OBVIOUS
  <2>1. below(k) \in SUBSET F
    OBVIOUS
  <2>2. IsFiniteSet(below(k)) /\ Cardinality(below(k)) <= n
    BY <2>1, FS_Subset
  <2> QED
    BY <2>2, FS_CardinalityType
<1>3. \A k \in F : Cardinality(below(k)) # 0
  <2> SUFFICES ASSUME NEW k \in F PROVE Cardinality(below(k)) # 0
    OBVIOUS
  <2>1. k \in below(k)
    OBVIOUS
  <2> QED
    BY <1>2, <2>1, FS_EmptySet
<1>4. r \in [F -> 1 .. n]
  BY <1>1, <1>2, <1>3
<1>5. ASSUME NEW k \in F, NEW l \in F, k < l PROVE r[k] # r[l]
  <2>0. k \in Nat /\ l \in Nat /\ \A j \in F : j \in Nat
    OBVIOUS
  <2>1. below(k) \in SUBSET below(l) /\ l \in below(l) /\ l \notin below(k)
    <3>1. \A j \in F : j <= k => j <= l
      BY <1>5, <2>0
    <3>2. l <= l /\ ~(l <= k)
      BY <1>5, <2>0
    <3> QED
      BY <3>1, <3>2
  <2>2. Cardinality(below(k)) = Cardinality(below(l)) => below(k) = below(l)
    BY <1>2, <2>1, FS_Subset
  <2> QED
    BY <2>1, <2>2
<1>6. \A k, l \in F : r[k] = r[l] => k = l
  BY <1>5
<1> QED
  BY <1>1, <1>4, <1>6

\* Every rank up to the size of the set is taken.
LEMMA RankLemma ==
  ASSUME NEW F, F \subseteq Nat, IsFiniteSet(F), NEW i \in 1 .. Cardinality(F)
  PROVE  \E k \in F : Cardinality({j \in F : j <= k}) = i
<1> DEFINE n == Cardinality(F)
           r == [k \in F |-> Cardinality({j \in F : j <= k})]
<1>1. n \in Nat /\ r \in [F -> 1 .. n] /\ \A k, l \in F : r[k] = r[l] => k = l
  BY RanksLemma
<1> HIDE DEF r
<1>7. r \in Injection(F, 1 .. n)
  BY <1>1 DEF Injection, IsInjective
<1>8. IsFiniteSet(1 .. n) /\ Cardinality(1 .. n) = n
  BY <1>1, FS_Interval
<1>9. r \in Surjection(F, 1 .. n)
  BY <1>7, <1>8, FS_Injection
<1>10. PICK k \in F : r[k] = i
  BY <1>9 DEF Surjection
<1> QED
  BY <1>10 DEF r

\* A finite set of numbers has a least element.
LEMMA LeastLemma ==
  ASSUME NEW F, F \subseteq Nat, IsFiniteSet(F), F # {}
  PROVE  \E k \in F : \A j \in F : k <= j
<1>1. 1 \in 1 .. Cardinality(F)
  <2>1. Cardinality(F) \in Nat /\ Cardinality(F) # 0
    BY FS_CardinalityType, FS_EmptySet
  <2> QED
    BY <2>1
<1>2. PICK k \in F : Cardinality({j \in F : j <= k}) = 1
  BY <1>1, RankLemma
<1>3. IsFiniteSet({j \in F : j <= k})
  <2>1. {j \in F : j <= k} \in SUBSET F
    OBVIOUS
  <2> QED
    BY <2>1, FS_Subset
<1>4. PICK x : {j \in F : j <= k} = {x}
  BY <1>2, <1>3, FS_Singleton
<1>5. k \in Nat /\ \A j \in F : j \in Nat
  OBVIOUS
<1>6. x = k
  BY <1>4, <1>5
<1>7. ASSUME NEW j \in F PROVE k <= j
  <2>1. j <= k => j = k
    BY <1>4, <1>6
  <2> QED
    BY <1>5, <2>1
<1> QED
  BY <1>7

-----------------------------------------------------------------------------
(* The window *)

\* The window is finite, and every slot of it is free or unacknowledged.
LEMMA WindowLemma ==
  ASSUME TypeOK
  PROVE  /\ Slots \subseteq Nat /\ InQueue \subseteq Slots
         /\ queue_length \in Nat /\ queue_length >= 1
         /\ Unacked \subseteq InQueue /\ IsFiniteSet(Unacked)
         /\ FreeSlots \subseteq InQueue /\ IsFiniteSet(FreeSlots)
<1>1. WindowSize \in Nat /\ MaxSlots \in Nat
  BY SizesLemma, ClientAssumption DEF MaxSlots
<1>2. queue_length \in 1 .. MaxSlots
  BY DEF TypeOK, Slots
<1>3. InQueue \subseteq Slots /\ Slots \subseteq Nat
  BY <1>1, <1>2 DEF InQueue, Slots
<1>4. IsFiniteSet(InQueue)
  BY <1>1, <1>2, FS_Interval DEF InQueue
<1>5. Unacked \in SUBSET InQueue /\ FreeSlots \in SUBSET InQueue
  BY DEF Unacked, FreeSlots
<1>6. IsFiniteSet(Unacked) /\ IsFiniteSet(FreeSlots)
  BY <1>4, <1>5, FS_Subset
<1> QED
  BY <1>1, <1>2, <1>3, <1>5, <1>6

\* expect_ack finds a free slot, and the slots it finds are different.
LEMMA FreeSlotLemma ==
  ASSUME TypeOK, NEW i \in 1 .. Cardinality(FreeSlots)
  PROVE  /\ FreeSlot(i) \in FreeSlots
         /\ Rank(FreeSlot(i)) = i
<1>1. \E k \in FreeSlots : Rank(k) = i
  BY WindowLemma, RankLemma DEF Rank
<1> QED
  BY <1>1 DEF FreeSlot

\* Every free slot has its rank.
LEMMA RankOfLemma ==
  ASSUME TypeOK, NEW k \in FreeSlots
  PROVE  /\ Cardinality(FreeSlots) \in Nat
         /\ Rank(k) \in 1 .. Cardinality(FreeSlots)
         /\ FreeSlot(Rank(k)) = k
<1>1. /\ Cardinality(FreeSlots) \in Nat
      /\ \A l \in FreeSlots : Rank(l) \in 1 .. Cardinality(FreeSlots)
      /\ \A l, m \in FreeSlots : Rank(l) = Rank(m) => l = m
  BY WindowLemma, RanksLemma DEF Rank
<1>2. FreeSlot(Rank(k)) \in FreeSlots /\ Rank(FreeSlot(Rank(k))) = Rank(k)
  BY <1>1, FreeSlotLemma
<1> QED
  BY <1>1, <1>2

\* The slot expect_ack finds is one of the free ones.
LEMMA FirstFreeLemma ==
  ASSUME TypeOK, FreeSlots # {}
  PROVE  FreeSlot(1) \in FreeSlots
<1>1. Cardinality(FreeSlots) \in Nat /\ Cardinality(FreeSlots) # 0
  BY WindowLemma, FS_CardinalityType, FS_EmptySet
<1>2. 1 \in 1 .. Cardinality(FreeSlots)
  BY <1>1
<1> QED
  BY <1>2, FreeSlotLemma

\* The oldest frame is one of the unacknowledged.
LEMMA OldestLemma ==
  ASSUME TypeOK, WindowInv, Unacked # {}
  PROVE  \E k \in Slots : Oldest = frames[k] /\ frames[k] # NoPacket
<1> DEFINE F == {i \in DOMAIN order : order[i] \in InQueue}
<1>1. order \in Seq(Slots) /\ DOMAIN order = 1 .. Len(order)
      /\ Len(order) \in Nat
  BY DEF TypeOK
<1>2. F \subseteq Nat
  BY <1>1
<1>3. IsFiniteSet(F)
  <2>1. F \in SUBSET (1 .. Len(order))
    BY <1>1
  <2> QED
    <3>1. IsFiniteSet(1 .. Len(order))
      BY <1>1, FS_Interval
    <3> QED
      BY <2>1, <3>1, FS_Subset
<1>4. F # {}
  <2>1. PICK k \in Unacked : TRUE
    OBVIOUS
  <2>2. k \in InQueue /\ k \in Slots /\ frames[k] # NoPacket
    BY <2>1, WindowLemma DEF Unacked
  <2> QED
    BY <2>2 DEF WindowInv
<1>5. PICK i \in F : \A j \in F : i <= j
  BY <1>2, <1>3, <1>4, LeastLemma
<1>6. \E m \in DOMAIN order :
        /\ order[m] \in InQueue
        /\ \A j \in DOMAIN order : order[j] \in InQueue => m <= j
  BY <1>5
<1>7. PICK m \in DOMAIN order : Oldest = frames[order[m]]
  BY <1>6 DEF Oldest
<1> QED
  BY <1>1, <1>7 DEF WindowInv

\* Acknowledging a slot keeps the rest in order.
LEMMA WithoutLemma ==
  ASSUME TypeOK, WindowInv, NEW k \in Slots, frames[k] # NoPacket
  PROVE  LET new == Without(k)
             f == [frames EXCEPT ![k] = NoPacket]
         IN
         /\ new \in Seq(Slots)
         /\ \A i, j \in DOMAIN new : new[i] = new[j] => i = j
         /\ \A i \in DOMAIN new : f[new[i]] # NoPacket
         /\ \A l \in Slots :
              f[l] # NoPacket => \E i \in DOMAIN new : new[i] = l
<1> DEFINE f == [frames EXCEPT ![k] = NoPacket]
<1>1. order \in Seq(Slots) /\ DOMAIN order = 1 .. Len(order)
      /\ Len(order) \in Nat /\ frames \in [Slots -> Requests \cup {NoPacket}]
  BY DEF TypeOK
<1>2. PICK m \in DOMAIN order : order[m] = k /\ Without(k) = RemoveAt(order, m)
  BY DEF WindowInv, Without
<1> DEFINE new == RemoveAt(order, m)
<1>3. /\ new \in Seq(Slots)
      /\ DOMAIN new = 1 .. Len(order) - 1
      /\ \A j \in 1 .. Len(order) - 1 :
           new[j] = IF j < m THEN order[j] ELSE order[j + 1]
  BY <1>1, RemoveAtLemma
<1> HIDE DEF new
<1>4. \A i \in DOMAIN new : \E j \in DOMAIN order :
        /\ new[i] = order[j] /\ j # m
        /\ j = (IF i < m THEN i ELSE i + 1)
  BY <1>1, <1>2, <1>3
<1>5. ASSUME NEW i \in DOMAIN new, NEW j \in DOMAIN new, new[i] = new[j]
      PROVE  i = j
  BY <1>1, <1>2, <1>3, <1>4, <1>5 DEF WindowInv
<1>6. ASSUME NEW i \in DOMAIN new PROVE f[new[i]] # NoPacket
  BY <1>1, <1>2, <1>4 DEF WindowInv
<1>7. ASSUME NEW l \in Slots, f[l] # NoPacket
      PROVE  \E i \in DOMAIN new : new[i] = l
  <2>1. l # k /\ frames[l] # NoPacket
    BY <1>1, <1>7
  <2>2. PICK j \in DOMAIN order : order[j] = l
    BY <2>1 DEF WindowInv
  <2>3. j # m
    BY <1>2, <2>1, <2>2
  <2>4. CASE j < m
    <3>1. j \in DOMAIN new /\ new[j] = l
      BY <1>1, <1>2, <1>3, <2>2, <2>4
    <3> QED
      BY <3>1
  <2>5. CASE j > m
    <3>1. j - 1 \in DOMAIN new /\ new[j - 1] = l
      BY <1>1, <1>2, <1>3, <2>2, <2>5
    <3> QED
      BY <3>1
  <2> QED
    BY <1>1, <2>2, <2>3, <2>4, <2>5
<1> QED
  BY <1>2, <1>3, <1>5, <1>6, <1>7 DEF new

-----------------------------------------------------------------------------
(* The invariant holds at the beginning, and every step keeps it *)

\* The invariant holds when both programs start.
LEMMA InitLemma ==
  ASSUME Init
  PROVE  CoreInv
<1> USE SizesLemma DEF Init, LinkInit, ClientInit, ServerInit
<1>1. WindowSize \in 1 .. MaxSlots /\ Slots \subseteq Nat
  BY ClientAssumption DEF MaxSlots, Slots
<1>2. srv \in ServerStates
  <2>1. /\ 0 \in Indices /\ 0 \in 0 .. MaxBatch /\ 0 \in Sectors
        /\ BatchMod - 1 \in Counters /\ 0 \in 0 .. MaxJobs
        /\ LoggedIn \in BOOLEAN
    BY LinkAssumption DEF Indices, Sectors, Counters
  <2>2. /\ [s \in Sectors |-> 0] \in [Sectors -> Contents]
        /\ [i \in Indices |-> 0] \in [Indices -> Contents]
        /\ [sector |-> 0, data |-> 0] \in [sector : Nat, data : Contents]
    BY ContentLemma
  <2>3. /\ [op |-> "none", last |-> 0, start |-> 0]
             \in [op : {"none", "write", "read"}, last : Indices,
                  start : Sectors]
        /\ NoMount \in [seq : 0 .. MaxJobs, name : FileNames \cup {"none"}]
    BY <2>1 DEF NoMount
  <2> QED
    BY <2>1, <2>2, <2>3 DEF ServerStates
<1>3. TypeOK
  <2>1. toServer \in Seq(Requests) /\ toClient \in Seq(Replies)
        /\ order \in Seq(Slots) /\ Len(toServer) = 0 /\ Len(toClient) = 0
    OBVIOUS
  <2>2. /\ losses \in 0 .. MaxLosses /\ jobNo \in 0 .. MaxJobs
        /\ sent \in 0 .. MaxBatch /\ 0 <= Capacity
        /\ write_batch_counter \in Counters
    BY LinkAssumption DEF Counters
  <2>3. queue_length \in Slots
    BY <1>1 DEF Slots
  <2>4. frames \in [Slots -> Requests \cup {NoPacket}]
    OBVIOUS
  <2> QED
    BY <1>2, <2>1, <2>2, <2>3, <2>4 DEF TypeOK
<1>4. WindowInv /\ JobInv
  BY DEF WindowInv, JobInv
<1>5. Writes = {}
  BY DEF Writes, ToServer, Elements, NoPacket
<1>6. ServerInv(srv)
  <2>1. ~srv.write_batch_active /\ ~srv.read_batch_active
        /\ ~srv.sector_reading /\ srv.slot_ids_received = {}
        /\ srv.card = [s \in Sectors |-> 0]
    OBVIOUS
  <2> QED
    BY <1>2, <2>1 DEF ServerInv, Accounts, Meant, OneBatch
<1>7. srv.current_batch_counter # write_batch_counter
  OBVIOUS
<1> QED
  BY <1>3, <1>4, <1>5, <1>6, <1>7
  DEF CoreInv, PacketsInv, BatchInv, InJob

\* Fewer packets, or a job that is further on, are no harm.
LEMMA FewerPacketsLemma ==
  ASSUME CoreInv, Writes' \subseteq Writes, TypeOK',
         UNCHANGED <<srv, job, jobNo, write_batch_counter>>,
         Writing => Writing', sent <= sent'
  PROVE  PacketsInv' /\ BatchInv(srv)'
<1>1. \A i : Packet(i)' = Packet(i)
  BY DEF Packet
<1>2. sent \in Nat /\ sent' \in Nat
  BY SizesLemma DEF TypeOK, CoreInv
<1>3. \A p \in Writes : p.slot \in Nat
  BY SizesLemma DEF CoreInv, PacketsInv, GoodWrite
<1>4. PacketsInv'
  <2>1. ASSUME NEW p \in Writes' PROVE GoodWrite(p) /\ IsCurrent(p)'
    <3>1. p \in Writes /\ GoodWrite(p) /\ IsCurrent(p) /\ p.slot \in Nat
      BY <1>3 DEF CoreInv, PacketsInv
    <3>2. p.slot < sent => p.slot < sent'
      BY <1>2, <3>1
    <3> QED
      BY <1>1, <3>1, <3>2 DEF IsCurrent
  <2>2. ASSUME NEW p \in Writes', NEW q \in Writes' PROVE Agree(p, q)
    BY DEF CoreInv, PacketsInv
  <2> QED
    BY <2>1, <2>2 DEF PacketsInv, Agree
<1>5. InJob(srv)'
  <2>1. srv.slot_ids_received \subseteq Nat
    BY SizesLemma DEF CoreInv, BatchInv, ServerInv, ServerStates
  <2>2. \A i \in srv.slot_ids_received : i < sent => i < sent'
    BY <1>2, <2>1
  <2> QED
    BY <2>2 DEF CoreInv, BatchInv, InJob
<1> QED
  BY <1>4, <1>5 DEF CoreInv, BatchInv

\* A counter nobody knows yet is a new beginning.
LEMMA NewCounterLemma ==
  ASSUME CoreInv, Writes' \subseteq Writes, UNCHANGED srv,
         \A p \in Writes : p.counter # write_batch_counter',
         srv.current_batch_counter # write_batch_counter'
  PROVE  PacketsInv' /\ BatchInv(srv)'
BY DEF CoreInv, PacketsInv, IsCurrent, Agree, BatchInv, InJob

\* While no write is being sent the invariants about the packets of a batch
\* depend on the packets and the server only.
LEMMA NotWritingLemma ==
  ASSUME CoreInv, Writes' \subseteq Writes, UNCHANGED srv, ~Writing,
         UNCHANGED write_batch_counter
  PROVE  PacketsInv' /\ BatchInv(srv)'
<1>1. /\ \A p \in Writes : p.counter # write_batch_counter'
      /\ srv.current_batch_counter # write_batch_counter'
  BY DEF CoreInv, PacketsInv, IsCurrent, BatchInv, InJob
<1> QED
  BY <1>1, NewCounterLemma

\* What the assumption says of a job.
LEMMA JobLemma ==
  ASSUME NEW j \in Jobs
  PROVE  /\ j.start \in Nat /\ j.start \in Sectors
         /\ j.n \in Nat /\ j.n >= 1 /\ j.n <= MaxBatch /\ j.n - 1 \in Indices
         /\ \A i \in 0 .. j.n - 1 : i \in Indices /\ j.start + i \in Sectors
<1>1. /\ j.start \in Sectors /\ j.n \in 1 .. MaxBatch
      /\ j.start + j.n - 1 \in Sectors
  BY JobsAssumption
<1>2. j.start \in Nat /\ j.n \in Nat /\ j.n >= 1 /\ j.n <= MaxBatch
      /\ j.start + j.n - 1 <= MaxSector
  BY <1>1, SizesLemma DEF Sectors
<1>3. j.n - 1 \in Indices
  BY <1>2, SizesLemma DEF Indices
<1>4. ASSUME NEW i \in 0 .. j.n - 1
      PROVE  i \in Indices /\ j.start + i \in Sectors
  BY <1>2, SizesLemma DEF Indices, Sectors
<1> QED
  BY <1>1, <1>2, <1>3, <1>4

-----------------------------------------------------------------------------
(* The steps of the client *)

\* process_jobs_ethernet takes a job: the packets under way stay those of the
\* jobs before it.
LEMMA StartJobLemma ==
  ASSUME CoreInv, NEW j \in Jobs, StartJob(j), UNCHANGED srv
  PROVE  CoreInv' /\ Writes' \subseteq Writes
<1>1. TypeOK /\ WindowInv
  BY DEF CoreInv
<1>2. TypeOK'
  <2>1. jobNo' \in 0 .. MaxJobs
    BY <1>1, SizesLemma, SMTT(40) DEF TypeOK, StartJob
  <2>2. sent' \in 0 .. MaxBatch
    BY SizesLemma DEF StartJob
  <2>3. queue_length' \in Slots
    <3>1. MaxSlots \in Slots /\ WindowSize \in Slots
      BY ClientAssumption, SizesLemma DEF Slots, MaxSlots
    <3> QED
      BY <3>1, <1>1 DEF TypeOK, StartJob
  <2> QED
    BY <1>1, <2>1, <2>2, <2>3 DEF TypeOK, StartJob, linkVars
<1>3. WindowInv'
  BY <1>1 DEF WindowInv, StartJob
<1>4. JobInv'
  <2>1. jobNo' \in JobNumbers
    BY <1>1, SizesLemma DEF TypeOK, StartJob, JobNumbers
  <2>2. j.n >= 1 /\ j.n \in Nat
    BY JobLemma
  <2> QED
    BY <2>1, <2>2 DEF JobInv, StartJob
<1>5. Writes' = Writes
  BY DEF StartJob, linkVars, Writes, ToServer
<1>6. ~Writing /\ UNCHANGED write_batch_counter
  BY DEF StartJob, Writing
<1> QED
  BY <1>2, <1>3, <1>4, <1>5, <1>6, NotWritingLemma DEF CoreInv

\* Steps that send and receive nothing.
LEMMA QuietStepLemma ==
  ASSUME CoreInv, UNCHANGED srv,
         BeginSending \/ WindowFull \/ SkipPacket \/ GiveUp
  PROVE  CoreInv' /\ Writes' \subseteq Writes
<1>1. TypeOK /\ WindowInv /\ JobInv
  BY DEF CoreInv
<1>2. UNCHANGED <<jobNo, job, write_batch_counter, queue_length, frames, order,
                  toServer, toClient, losses>>
  BY DEF BeginSending, WindowFull, SkipPacket, GiveUp, linkVars
<1>3. sent \in Nat /\ sent' \in Nat /\ sent <= sent' /\ sent' \in 0 .. MaxBatch
  <2>1. sent \in 0 .. MaxBatch
    BY <1>1 DEF TypeOK
  <2>2. CASE SkipPacket
    <3>1. IF job.kind = "write" THEN sent < job.n ELSE sent = 0
      BY <1>1, <2>2 DEF SkipPacket, JobInv
    <3>2. job \in Jobs
      BY <1>1, <2>2 DEF SkipPacket, JobInv
    <3>3. job.n \in Nat /\ job.n <= MaxBatch
      BY <3>2, JobLemma
    <3> QED
      BY <2>1, <2>2, <3>1, <3>3, SizesLemma DEF SkipPacket
  <2>3. CASE ~SkipPacket
    BY <2>1, <2>3, SizesLemma DEF BeginSending, WindowFull, GiveUp
  <2> QED
    BY <2>2, <2>3
<1>4. TypeOK'
  <2>1. /\ pc' \in {"ready", "clear", "send", "full", "drain", "exited"}
        /\ mount_file_response' \in {0, 1, NoResponse}
    BY <1>1 DEF BeginSending, WindowFull, SkipPacket, GiveUp, TypeOK
  <2> QED
    BY <1>1, <1>2, <1>3, <2>1 DEF TypeOK
<1>5. WindowInv'
  BY <1>1, <1>2 DEF WindowInv
<1>6. JobInv'
  <2>1. CASE BeginSending
    BY <1>1, <1>2, <2>1 DEF BeginSending, JobInv
  <2>2. CASE WindowFull
    BY <1>1, <1>2, <2>2 DEF WindowFull, JobInv
  <2>3. CASE SkipPacket
    <3>1. job \in Jobs /\ jobNo \in JobNumbers
          /\ IF job.kind = "write" THEN sent < job.n ELSE sent = 0
      BY <1>1, <2>3 DEF SkipPacket, JobInv
    <3>2. job.n \in Nat
      BY <3>1, JobLemma
    <3>3. CASE job.kind = "write" /\ sent' < job.n
      BY <1>2, <2>3, <3>1, <3>3 DEF SkipPacket, JobInv
    <3>4. CASE ~(job.kind = "write" /\ sent' < job.n)
      <4>1. pc' = "drain"
        BY <2>3, <3>4 DEF SkipPacket
      <4>2. job.kind = "write" => sent' = job.n
        BY <1>3, <2>3, <3>1, <3>2, <3>4 DEF SkipPacket
      <4> QED
        BY <1>2, <3>1, <4>1, <4>2 DEF JobInv
    <3> QED
      BY <3>3, <3>4
  <2>4. CASE GiveUp
    BY <1>1, <1>2, <2>4 DEF GiveUp, JobInv
  <2> QED
    BY <2>1, <2>2, <2>3, <2>4
<1>7. Writes' = Writes
  BY <1>2 DEF Writes, ToServer
<1>8. Writing => Writing'
  BY <1>2 DEF BeginSending, WindowFull, SkipPacket, GiveUp, Writing
<1> QED
  BY <1>2, <1>3, <1>4, <1>5, <1>6, <1>7, <1>8, FewerPacketsLemma DEF CoreInv
\* The requests of the link, and no packet.
LEMMA RequestLemma ==
  /\ \A p \in Requests : p # NoPacket
  /\ \A p \in Requests : p.op = "write" =>
       p \in [op : {"write"}, counter : Counters, last : Indices,
              slot : Indices, start : Sectors, data : Contents]
  /\ NoPacket.op # "write"
BY DEF Requests, NoPacket, HelloRequest, QuitRequest

\* expect_ack notes the frame in a free slot.
LEMMA SendFrameLemma ==
  ASSUME TypeOK, WindowInv, FreeSlots # {}, NEW p \in Requests, SendFrame(p)
  PROVE  /\ WindowInv'
         /\ frames' \in [Slots -> Requests \cup {NoPacket}]
         /\ order' \in Seq(Slots)
         /\ toServer' \in Seq(Requests) /\ Len(toServer') <= Capacity
         /\ Writes' \subseteq Writes \cup {p}
         /\ p.op # "write" => Writes' \subseteq Writes
<1> DEFINE k == FreeSlot(1)
<1>1. k \in FreeSlots /\ k \in Slots /\ frames[k] = NoPacket
  BY FirstFreeLemma, WindowLemma DEF FreeSlots, Unacked
<1> HIDE DEF k
<1>2. /\ order \in Seq(Slots) /\ DOMAIN order = 1 .. Len(order)
      /\ Len(order) \in Nat /\ frames \in [Slots -> Requests \cup {NoPacket}]
  BY DEF TypeOK
<1>3. frames' = [frames EXCEPT ![k] = p] /\ order' = Append(order, k)
      /\ toServer' = Sent(toServer, p)
  BY DEF SendFrame, k
<1>4. /\ toServer' \in Seq(Requests) /\ Len(toServer') <= Capacity
      /\ Elements(toServer') \subseteq Elements(toServer) \cup {p}
  BY <1>3, SentLemma DEF TypeOK
<1>5. frames' \in [Slots -> Requests \cup {NoPacket}] /\ order' \in Seq(Slots)
  BY <1>1, <1>2, <1>3
<1>6. /\ DOMAIN order' = 1 .. Len(order) + 1
      /\ \A i \in DOMAIN order : order'[i] = order[i]
      /\ order'[Len(order) + 1] = k
  BY <1>1, <1>2, <1>3
<1>7. \A i \in DOMAIN order : order[i] # k /\ order[i] \in Slots
  BY <1>1, <1>2 DEF WindowInv
<1>8. WindowInv'
  <2>1. ASSUME NEW i \in DOMAIN order', NEW j \in DOMAIN order',
               order'[i] = order'[j]
        PROVE  i = j
    BY <1>2, <1>6, <1>7, <2>1 DEF WindowInv
  <2>2. ASSUME NEW i \in DOMAIN order' PROVE frames'[order'[i]] # NoPacket
    <3>1. CASE i = Len(order) + 1
      BY <1>1, <1>2, <1>3, <1>6, <3>1, RequestLemma
    <3>2. CASE i # Len(order) + 1
      <4>1. i \in DOMAIN order
        BY <1>2, <1>6, <3>2
      <4> QED
        BY <1>2, <1>3, <1>6, <1>7, <4>1 DEF WindowInv
    <3> QED
      BY <3>1, <3>2
  <2>3. ASSUME NEW l \in Slots, frames'[l] # NoPacket
        PROVE  \E i \in DOMAIN order' : order'[i] = l
    <3>1. CASE l = k
      BY <1>2, <1>6, <3>1, SMTT(40)
    <3>2. CASE l # k
      <4>1. frames[l] # NoPacket
        BY <1>2, <1>3, <2>3, <3>2
      <4>2. PICK i \in DOMAIN order : order[i] = l
        BY <4>1 DEF WindowInv
      <4> QED
        BY <1>2, <1>6, <4>2
    <3> QED
      BY <3>1, <3>2
  <2> QED
    BY <2>1, <2>2, <2>3 DEF WindowInv
<1>9. \A l \in Slots : frames'[l] \in {frames[l], p}
  BY <1>2, <1>3
<1> QED
  BY <1>4, <1>5, <1>8, <1>9 DEF Writes, ToServer

\* The packets of a write job.
LEMMA PacketLemma ==
  ASSUME TypeOK, job \in Jobs, job.kind = "write", jobNo \in JobNumbers,
         NEW i \in 0 .. job.n - 1
  PROVE  /\ Packet(i) \in Requests
         /\ GoodWrite(Packet(i))
         /\ Packet(i).op = "write"
         /\ Packet(i).counter = write_batch_counter
         /\ Packet(i).last = job.n - 1
         /\ Packet(i).slot = i
         /\ Packet(i).start = job.start
         /\ Packet(i).data = Content(jobNo, job.start + i)
<1>1. /\ job.start \in Sectors /\ job.n \in Nat /\ job.n - 1 \in Indices
      /\ i \in Indices /\ job.start + i \in Sectors
      /\ job.start + (job.n - 1) \in Sectors
  BY JobLemma
<1>2. Content(jobNo, job.start + i) \in Contents
  BY <1>1, ContentLemma
<1>3. write_batch_counter \in Counters
  BY DEF TypeOK
<1>4. i <= job.n - 1
  BY <1>1
<1> DEFINE d == Content(jobNo, job.start + i)
<1> HIDE DEF d
<1>5. Packet(i) = [op |-> "write", counter |-> write_batch_counter,
                   last |-> job.n - 1, slot |-> i, start |-> job.start,
                   data |-> d]
  BY DEF Packet, WriteRequest, d
<1>6. d \in Contents /\ d = Content(jobNo, job.start + i)
  BY <1>2 DEF d
<1>7. Packet(i) \in [op : {"write"}, counter : Counters, last : Indices,
                     slot : Indices, start : Sectors, data : Contents]
  BY <1>1, <1>3, <1>5, <1>6
<1>8. Packet(i) \in Requests
  BY <1>7 DEF Requests
<1> QED
  BY <1>1, <1>4, <1>5, <1>6, <1>7, <1>8 DEF GoodWrite

\* A packet of a batch is noted in the window and sent: the only new write
\* packet anywhere is the one of this sector.
LEMMA SendWriteLemma ==
  ASSUME CoreInv, SendWrite, UNCHANGED srv
  PROVE  CoreInv' /\ Writes' \subseteq Writes \cup {Packet(sent)}
<1> DEFINE p == Packet(sent)
<1>1. TypeOK /\ WindowInv /\ JobInv
  BY DEF CoreInv
<1>2. /\ job \in Jobs /\ jobNo \in JobNumbers /\ job.kind = "write"
      /\ pc \in {"send", "full"} /\ sent < job.n /\ FreeSlots # {}
      /\ SendFrame(p) /\ sent' = sent + 1
      /\ pc' = (IF sent' = job.n THEN "drain" ELSE "send")
      /\ UNCHANGED <<jobNo, job, write_batch_counter, queue_length,
                     queue_read_data, mount_file_response, toClient, losses>>
  BY <1>1 DEF SendWrite, JobInv
<1>3. job.n \in Nat /\ job.n <= MaxBatch /\ sent \in Nat
      /\ sent \in 0 .. job.n - 1
  <2>1. job.n \in Nat /\ job.n <= MaxBatch
    BY <1>2, JobLemma
  <2>2. sent \in Nat
    BY <1>1, SizesLemma DEF TypeOK
  <2> QED
    BY <1>2, <2>1, <2>2
<1>4. /\ p \in Requests /\ GoodWrite(p) /\ p.op = "write"
      /\ p.counter = write_batch_counter /\ p.last = job.n - 1
      /\ p.slot = sent /\ p.start = job.start
      /\ p.data = Content(jobNo, job.start + sent)
  BY <1>1, <1>2, <1>3, PacketLemma
<1>5. \A i : Packet(i)' = Packet(i)
  BY <1>2 DEF Packet
<1> HIDE DEF p
<1>6. /\ WindowInv'
      /\ frames' \in [Slots -> Requests \cup {NoPacket}]
      /\ order' \in Seq(Slots)
      /\ toServer' \in Seq(Requests) /\ Len(toServer') <= Capacity
      /\ Writes' \subseteq Writes \cup {p}
  BY <1>1, <1>2, <1>4, SendFrameLemma
<1>7. TypeOK'
  <2>1. sent' \in 0 .. MaxBatch
    BY <1>2, <1>3, SizesLemma
  <2> QED
    BY <1>1, <1>2, <1>6, <2>1 DEF TypeOK
<1>8. JobInv'
  BY <1>2, <1>3 DEF JobInv
<1>9. Writing /\ Writing'
  BY <1>2 DEF Writing
<1>10. ASSUME NEW q \in Writes
       PROVE  /\ GoodWrite(q) /\ IsCurrent(q) /\ q.slot \in Nat
              /\ q.counter = write_batch_counter =>
                   q.start = job.start /\ q.last = job.n - 1 /\ q.slot < sent
  <2>1. GoodWrite(q) /\ IsCurrent(q) /\ q.slot \in Nat
    BY SizesLemma DEF CoreInv, PacketsInv, GoodWrite
  <2>2. ASSUME q.counter = write_batch_counter
        PROVE  q.start = job.start /\ q.last = job.n - 1 /\ q.slot < sent
    <3>1. q.slot < sent /\ q = Packet(q.slot)
      BY <2>1, <2>2 DEF IsCurrent
    <3>2. q.slot \in 0 .. job.n - 1
      BY <1>3, <2>1, <3>1
    <3> QED
      BY <1>1, <1>2, <3>1, <3>2, PacketLemma
  <2> QED
    BY <2>1, <2>2
<1>11. PacketsInv'
  <2>1. ASSUME NEW q \in Writes' PROVE GoodWrite(q) /\ IsCurrent(q)'
    <3>1. CASE q = p
      <4>1. sent < sent'
        BY <1>2, <1>3
      <4>2. p = Packet(p.slot)
        BY <1>4 DEF p
      <4> QED
        BY <1>4, <1>5, <1>9, <3>1, <4>1, <4>2 DEF IsCurrent
    <3>2. CASE q \in Writes
      <4>1. q.slot < sent => q.slot < sent'
        BY <1>2, <1>3, <1>10, <3>2
      <4> QED
        BY <1>2, <1>5, <1>9, <1>10, <3>2, <4>1 DEF IsCurrent
    <3> QED
      BY <1>6, <3>1, <3>2
  <2>2. ASSUME NEW q \in Writes', NEW r \in Writes' PROVE Agree(q, r)
    <3>1. q \in Writes /\ r \in Writes => Agree(q, r)
      BY DEF CoreInv, PacketsInv
    <3>2. ASSUME NEW s \in Writes PROVE Agree(s, p) /\ Agree(p, s)
      <4>1. s.counter = write_batch_counter => s.slot # sent
        BY <1>3, <1>10
      <4> QED
        BY <1>4, <1>10, <4>1 DEF Agree
    <3>3. Agree(p, p)
      BY DEF Agree
    <3> QED
      BY <1>6, <3>1, <3>2, <3>3
  <2> QED
    BY <2>1, <2>2 DEF PacketsInv, Agree
<1>12. BatchInv(srv)'
  <2>1. ServerInv(srv) /\ InJob(srv)
    BY DEF CoreInv, BatchInv
  <2>2. srv.slot_ids_received \subseteq Nat
    BY <2>1, SizesLemma DEF ServerInv, ServerStates
  <2>3. InJob(srv)'
    <3>1. \A i \in srv.slot_ids_received : i < sent => i < sent'
      BY <1>2, <1>3, <2>2
    <3> QED
      BY <1>2, <1>9, <2>1, <3>1 DEF InJob
  <2>4. ASSUME NEW q \in Writes' PROVE FitsBatch(srv, q)
    <3>1. CASE q \in Writes
      BY <3>1 DEF CoreInv, BatchInv
    <3>2. CASE q = p
      <4>1. ASSUME srv.current_batch_counter = write_batch_counter, job.n # 1
            PROVE  /\ srv.sector_number_write = job.start
                   /\ srv.write_batch_max_id = job.n - 1
                   /\ sent \notin srv.slot_ids_received
                   /\ srv.write_batch_active
        <5>1. /\ srv.sector_number_write = job.start
              /\ srv.write_batch_max_id = job.n - 1
              /\ \A i \in srv.slot_ids_received : i < sent
              /\ ~srv.write_batch_active =>
                   srv.slot_ids_received = 0 .. job.n - 1
          BY <2>1, <4>1 DEF InJob
        <5>2. sent \notin srv.slot_ids_received
          BY <1>3, <5>1
        <5> QED
          BY <1>3, <5>1, <5>2
      <4>2. p.last # 0 => job.n # 1
        BY <1>3, <1>4
      <4> QED
        BY <1>4, <3>2, <4>1, <4>2 DEF FitsBatch
    <3> QED
      BY <1>6, <3>1, <3>2
  <2> QED
    BY <2>1, <2>3, <2>4 DEF BatchInv
<1> QED
  BY <1>6, <1>7, <1>8, <1>11, <1>12 DEF CoreInv, p
\* The packet of a login, a mount or a quit is noted and sent.
LEMMA SendSingleLemma ==
  ASSUME CoreInv, SendSingle, UNCHANGED srv
  PROVE  CoreInv' /\ Writes' \subseteq Writes
<1>1. TypeOK /\ WindowInv /\ JobInv
  BY DEF CoreInv
<1>2. /\ job \in Jobs /\ jobNo \in JobNumbers
      /\ job.kind \in {"mount", "hello", "quit"}
      /\ pc \in {"send", "full"} /\ FreeSlots # {}
      /\ SendFrame(SinglePacket) /\ pc' = "drain"
      /\ UNCHANGED <<jobNo, job, sent, write_batch_counter, queue_length,
                     queue_read_data, mount_file_response, toClient, losses>>
  BY <1>1 DEF SendSingle, JobInv
<1>3. SinglePacket \in Requests /\ SinglePacket.op # "write"
  <2>1. CASE job.kind = "mount"
    <3>1. job.name \in FileNames
      BY <1>2, <2>1, JobsAssumption
    <3> QED
      BY <1>2, <2>1, <3>1 DEF SinglePacket, MountRequest, Requests
  <2>2. CASE job.kind \in {"hello", "quit"}
    BY <2>2 DEF SinglePacket, HelloRequest, QuitRequest, Requests
  <2> QED
    BY <1>2, <2>1, <2>2
<1>4. /\ WindowInv'
      /\ frames' \in [Slots -> Requests \cup {NoPacket}]
      /\ order' \in Seq(Slots)
      /\ toServer' \in Seq(Requests) /\ Len(toServer') <= Capacity
      /\ Writes' \subseteq Writes
  BY <1>1, <1>2, <1>3, SendFrameLemma
<1>5. TypeOK'
  BY <1>1, <1>2, <1>4 DEF TypeOK
<1>6. JobInv'
  BY <1>2 DEF JobInv
<1>7. sent \in Nat /\ ~Writing
  BY <1>1, <1>2, SizesLemma DEF TypeOK, Writing
<1> QED
  BY <1>2, <1>4, <1>5, <1>6, <1>7, NotWritingLemma DEF CoreInv

\* A read notes a frame for every sector, as far as there are free slots.
LEMMA SendReadLemma ==
  ASSUME CoreInv, SendRead, UNCHANGED srv
  PROVE  CoreInv' /\ Writes' \subseteq Writes
<1> DEFINE free == Cardinality(FreeSlots)
           scheduled == IF free < job.n THEN free ELSE job.n
           new == [i \in 1 .. scheduled |-> FreeSlot(i)]
           frame(k) == ReadRequest(job.start + Rank(k) - 1, 1)
           request == ReadRequest(job.start, job.n - 1)
<1> USE SizesLemma
<1>1. TypeOK /\ WindowInv /\ JobInv
  BY DEF CoreInv
<1>2. /\ job \in Jobs /\ jobNo \in JobNumbers /\ job.kind = "read"
      /\ pc = "send" /\ pc' = "drain"
      /\ UNCHANGED <<jobNo, job, sent, write_batch_counter, queue_length,
                     queue_read_data, mount_file_response, toClient, losses>>
  BY <1>1 DEF SendRead, JobInv
<1>3. /\ frames' = [k \in Slots |->
                      IF k \in FreeSlots /\ Rank(k) <= job.n THEN frame(k)
                                                             ELSE frames[k]]
      /\ order' = order \o new
      /\ toServer' = Sent(toServer, request)
  BY DEF SendRead
<1>4. /\ job.start \in Nat /\ job.start \in Sectors /\ job.n \in Nat
      /\ job.n >= 1 /\ job.n - 1 \in Indices
      /\ \A i \in 0 .. job.n - 1 : job.start + i \in Sectors
  BY <1>2, JobLemma
<1>5. /\ request \in Requests /\ request.op = "read"
      /\ \A s \in Sectors : /\ ReadRequest(s, 1) \in Requests
                            /\ ReadRequest(s, 1).op = "read"
  <2>1. 1 \in Indices
    BY DEF Indices
  <2> QED
    BY <1>4, <2>1 DEF ReadRequest, Requests
<1>6. ASSUME NEW k \in FreeSlots
      PROVE  /\ Rank(k) \in Nat /\ Rank(k) \in 1 .. free
             /\ FreeSlot(Rank(k)) = k
             /\ Rank(k) <= job.n =>
                  frame(k) \in Requests /\ frame(k).op = "read"
  <2>1. free \in Nat /\ Rank(k) \in 1 .. free /\ FreeSlot(Rank(k)) = k
    BY <1>1, RankOfLemma
  <2>2. Rank(k) <= job.n => job.start + (Rank(k) - 1) \in Sectors
    BY <1>4, <2>1
  <2>3. job.start + Rank(k) - 1 = job.start + (Rank(k) - 1) /\ Rank(k) \in Nat
    BY <1>4, <2>1
  <2>4. Rank(k) <= job.n => job.start + Rank(k) - 1 \in Sectors
    BY <2>2, <2>3
  <2> HIDE DEF free
  <2> QED
    BY <1>5, <2>1, <2>3, <2>4
<1>7. free \in Nat /\ scheduled \in Nat /\ scheduled <= free
      /\ scheduled <= job.n
  BY <1>4, WindowLemma, FS_CardinalityType, <1>1
<1>8. \A i \in 1 .. scheduled :
        FreeSlot(i) \in FreeSlots /\ Rank(FreeSlot(i)) = i
  BY <1>1, <1>7, FreeSlotLemma
<1>9. FreeSlots \subseteq Slots /\ \A k \in FreeSlots : frames[k] = NoPacket
  BY <1>1, WindowLemma DEF FreeSlots, Unacked
<1>10. /\ order \in Seq(Slots) /\ DOMAIN order = 1 .. Len(order)
       /\ Len(order) \in Nat /\ frames \in [Slots -> Requests \cup {NoPacket}]
       /\ \A i \in DOMAIN order : order[i] \in Slots /\ order[i] \notin FreeSlots
  <2>1. order \in Seq(Slots) /\ frames \in [Slots -> Requests \cup {NoPacket}]
    BY <1>1 DEF TypeOK
  <2>2. \A i \in DOMAIN order : order[i] \in Slots
    BY <2>1
  <2> QED
    BY <1>1, <1>9, <2>1, <2>2 DEF WindowInv
<1>11. new \in Seq(Slots) /\ Len(new) = scheduled
       /\ \A i \in 1 .. scheduled : new[i] = FreeSlot(i)
  BY <1>7, <1>8, <1>9
<1> HIDE DEF new, scheduled, free
<1>12. /\ order' \in Seq(Slots)
       /\ DOMAIN order' = 1 .. Len(order) + scheduled
       /\ \A i \in 1 .. Len(order) : order'[i] = order[i]
       /\ \A i \in Len(order) + 1 .. Len(order) + scheduled :
            order'[i] = FreeSlot(i - Len(order))
  <2>1. /\ order \o new \in Seq(Slots)
        /\ Len(order \o new) = Len(order) + Len(new)
        /\ \A i \in 1 .. Len(order) + Len(new) :
             (order \o new)[i] = IF i <= Len(order) THEN order[i]
                                                   ELSE new[i - Len(order)]
    BY <1>10, <1>11, ConcatProperties, Zenon
  <2>2. /\ order' \in Seq(Slots) /\ Len(order') = Len(order) + scheduled
        /\ \A i \in 1 .. Len(order) + scheduled :
             order'[i] = IF i <= Len(order) THEN order[i]
                                            ELSE new[i - Len(order)]
    BY <1>3, <1>11, <2>1
  <2>3. DOMAIN order' = 1 .. Len(order')
    BY <2>2
  <2>4. ASSUME NEW i \in 1 .. Len(order) PROVE order'[i] = order[i]
    BY <1>7, <1>10, <2>2
  <2>5. ASSUME NEW i \in Len(order) + 1 .. Len(order) + scheduled
        PROVE  order'[i] = FreeSlot(i - Len(order))
    <3>1. i \in 1 .. Len(order) + scheduled /\ ~(i <= Len(order))
          /\ i - Len(order) \in 1 .. scheduled
      BY <1>7, <1>10
    <3> QED
      BY <1>11, <2>2, <3>1
  <2> QED
    BY <2>2, <2>3, <2>4, <2>5
<1>13. frames' \in [Slots -> Requests \cup {NoPacket}]
  <2>1. ASSUME NEW k \in Slots PROVE frames'[k] \in Requests \cup {NoPacket}
    BY <1>3, <1>6, <1>10
  <2> QED
    BY <1>3, <2>1
<1>14. /\ toServer' \in Seq(Requests) /\ Len(toServer') <= Capacity
       /\ Elements(toServer') \subseteq Elements(toServer) \cup {request}
  BY <1>1, <1>3, <1>5, SentLemma DEF TypeOK
<1>15. Writes' \subseteq Writes
  <2>1. \A k \in Slots : frames'[k].op = "write" => frames'[k] = frames[k]
    BY <1>3, <1>6
  <2> QED
    BY <1>5, <1>14, <2>1 DEF Writes, ToServer
<1>16. WindowInv'
  <2>1. ASSUME NEW i \in DOMAIN order', ~(i \in 1 .. Len(order))
        PROVE  /\ i - Len(order) \in 1 .. scheduled
               /\ order'[i] = FreeSlot(i - Len(order))
               /\ order'[i] \in FreeSlots
               /\ Rank(order'[i]) = i - Len(order)
    <3>1. i \in Len(order) + 1 .. Len(order) + scheduled
          /\ i - Len(order) \in 1 .. scheduled
      BY <1>7, <1>10, <1>12, <2>1
    <3> QED
      BY <1>8, <1>12, <3>1
  <2>2. ASSUME NEW i \in DOMAIN order', NEW j \in DOMAIN order',
               order'[i] = order'[j]
        PROVE  i = j
    <3>0. i \in Nat /\ j \in Nat
      BY <1>7, <1>10, <1>12
    <3>1. CASE i \in 1 .. Len(order) /\ j \in 1 .. Len(order)
      BY <1>1, <1>10, <1>12, <2>2, <3>1 DEF WindowInv
    <3>2. CASE i \notin 1 .. Len(order) /\ j \notin 1 .. Len(order)
      <4>1. i - Len(order) = j - Len(order)
        BY <2>1, <2>2, <3>2
      <4> QED
        BY <1>10, <3>0, <4>1
    <3>3. CASE (i \in 1 .. Len(order)) # (j \in 1 .. Len(order))
      BY <1>10, <1>12, <2>1, <2>2, <3>3
    <3> QED
      BY <3>1, <3>2, <3>3
  <2>3. ASSUME NEW i \in DOMAIN order' PROVE frames'[order'[i]] # NoPacket
    <3>1. CASE i \in 1 .. Len(order)
      <4>1. order'[i] = order[i] /\ order[i] \in Slots
            /\ order[i] \notin FreeSlots /\ frames[order[i]] # NoPacket
        BY <1>1, <1>10, <1>12, <3>1 DEF WindowInv
      <4> QED
        BY <1>3, <4>1
    <3>2. CASE i \notin 1 .. Len(order)
      <4>1. order'[i] \in FreeSlots /\ Rank(order'[i]) <= job.n
        BY <1>4, <1>7, <2>1, <3>2
      <4>2. frames'[order'[i]] \in Requests
        BY <1>3, <1>6, <1>9, <4>1
      <4> QED
        BY <4>2, RequestLemma
    <3> QED
      BY <3>1, <3>2
  <2>4. ASSUME NEW k \in Slots, frames'[k] # NoPacket
        PROVE  \E i \in DOMAIN order' : order'[i] = k
    <3>1. CASE frames[k] # NoPacket
      <4>1. PICK i \in DOMAIN order : order[i] = k
        BY <1>1, <3>1 DEF WindowInv
      <4>2. i \in DOMAIN order' /\ order'[i] = k
        BY <1>7, <1>10, <1>12, <4>1
      <4> QED
        BY <4>2
    <3>2. CASE frames[k] = NoPacket
      <4>1. k \in FreeSlots /\ Rank(k) <= job.n
        BY <1>3, <2>4, <3>2
      <4>2. Rank(k) \in 1 .. scheduled /\ FreeSlot(Rank(k)) = k
        BY <1>4, <1>6, <1>7, <4>1 DEF scheduled
      <4>3. /\ Len(order) + Rank(k)
                 \in Len(order) + 1 .. Len(order) + scheduled
            /\ Len(order) + Rank(k) \in DOMAIN order'
            /\ (Len(order) + Rank(k)) - Len(order) = Rank(k)
        BY <1>7, <1>10, <1>12, <4>2
      <4>4. order'[Len(order) + Rank(k)] = k
        BY <1>12, <4>2, <4>3
      <4> QED
        BY <4>3, <4>4
    <3> QED
      BY <3>1, <3>2
  <2> QED
    BY <2>2, <2>3, <2>4 DEF WindowInv
<1>17. TypeOK'
  BY <1>1, <1>2, <1>12, <1>13, <1>14 DEF TypeOK
<1>18. JobInv'
  BY <1>2 DEF JobInv
<1>19. ~Writing
  BY <1>2 DEF Writing
<1> QED
  BY <1>2, <1>15, <1>16, <1>17, <1>18, <1>19, NotWritingLemma DEF CoreInv
\* A job may end when its successor's counter is new.
LEMMA FinishJobLemma ==
  ASSUME CoreInv, FinishJob, UNCHANGED srv,
         job.kind = "write" =>
           /\ \A p \in Writes : p.counter # write_batch_counter'
           /\ srv.current_batch_counter # write_batch_counter'
  PROVE  CoreInv' /\ Writes' \subseteq Writes
<1>1. TypeOK /\ WindowInv /\ JobInv
  BY DEF CoreInv
<1>2. UNCHANGED <<jobNo, job, sent, queue_length, frames, order,
                  queue_read_data, mount_file_response, toServer, toClient,
                  losses>> /\ pc' = "ready"
  BY DEF FinishJob, linkVars
<1>3. write_batch_counter' \in Counters
  <2>1. write_batch_counter \in Counters /\ BatchMod \in Nat /\ BatchMod >= 2
    BY <1>1, SizesLemma DEF TypeOK
  <2>2. write_batch_counter \in Nat
    BY <2>1, SizesLemma
  <2>3. (write_batch_counter + 1) % BatchMod \in 0 .. BatchMod - 1
    BY <2>1, <2>2
  <2> QED
    BY <2>1, <2>3 DEF FinishJob, Counters
<1>4. TypeOK'
  BY <1>1, <1>2, <1>3 DEF TypeOK
<1>5. WindowInv' /\ JobInv'
  BY <1>1, <1>2 DEF WindowInv, JobInv
<1>6. Writes' = Writes
  BY <1>2 DEF Writes, ToServer
<1>7. PacketsInv' /\ BatchInv(srv)'
  <2>1. CASE job.kind = "write"
    BY <1>6, <2>1, NewCounterLemma
  <2>2. CASE job.kind # "write"
    <3>1. ~Writing /\ UNCHANGED write_batch_counter
      BY <2>2 DEF Writing, FinishJob
    <3> QED
      BY <1>6, <3>1, NotWritingLemma
  <2> QED
    BY <2>1, <2>2
<1> QED
  BY <1>2, <1>4, <1>5, <1>6, <1>7 DEF CoreInv

\* check_if_ack frees a slot whose frame the reply matches, or does nothing.
LEMMA ReceiveFacts ==
  ASSUME CoreInv, NEW i \in Arriving(toClient), Receive(i)
  PROVE  /\ i \in DOMAIN toClient /\ toClient[i] \in Replies
         /\ toClient' = RemoveAt(toClient, i)
         /\ toClient' \in Seq(Replies) /\ Len(toClient') <= Len(toClient)
         /\ Elements(toClient') \subseteq Elements(toClient)
         /\ pc \in {"clear", "full", "drain"}
         /\ UNCHANGED <<pc, jobNo, job, sent, write_batch_counter,
                        queue_length, toServer, losses>>
         /\ \/ /\ UNCHANGED <<frames, order, queue_read_data,
                              mount_file_response>>
               /\ \A k \in Unacked : ~Matches(toClient[i], frames[k])
            \/ \E k \in Unacked :
                 /\ Matches(toClient[i], frames[k])
                 /\ frames' = [frames EXCEPT ![k] = NoPacket]
                 /\ order' = Without(k)
                 /\ mount_file_response' =
                      (IF toClient[i].op = "mount" THEN toClient[i].status
                                                   ELSE mount_file_response)
<1> DEFINE rx == toClient[i]
           matching == {k \in Unacked : Matches(rx, frames[k])}
           slot == CHOOSE k \in matching : \A j \in matching : k <= j
<1>1. TypeOK /\ toClient \in Seq(Replies)
  BY DEF CoreInv, TypeOK
<1>2. i \in DOMAIN toClient
  BY DEF Arriving
<1>3. rx \in Replies
  BY <1>1, <1>2
<1>4. /\ toClient' = RemoveAt(toClient, i)
      /\ pc \in {"clear", "full", "drain"}
      /\ UNCHANGED <<pc, jobNo, job, sent, write_batch_counter,
                     queue_length, toServer, losses>>
  BY DEF Receive, Waiting
<1>5. /\ toClient' \in Seq(Replies) /\ Len(toClient') <= Len(toClient)
      /\ Elements(toClient') \subseteq Elements(toClient)
  BY <1>1, <1>2, <1>4, ElementsLemma
<1>6. CASE matching = {}
  <2>1. UNCHANGED <<frames, order, queue_read_data, mount_file_response>>
    BY <1>6 DEF Receive
  <2>2. \A k \in Unacked : ~Matches(rx, frames[k])
    BY <1>6
  <2> QED
    BY <1>2, <1>3, <1>4, <1>5, <2>1, <2>2
<1>7. CASE matching # {}
  <2>1. slot \in matching
    <3>1. matching \in SUBSET Unacked
      OBVIOUS
    <3>2. matching \subseteq Nat /\ IsFiniteSet(matching)
      BY <1>1, <3>1, WindowLemma, FS_Subset
    <3>3. \E k \in matching : \A j \in matching : k <= j
      BY <1>7, <3>2, LeastLemma
    <3> QED
      BY <3>3
  <2>2. /\ frames' = [frames EXCEPT ![slot] = NoPacket]
        /\ order' = Without(slot)
        /\ mount_file_response' =
             (IF rx.op = "mount" THEN rx.status ELSE mount_file_response)
    BY <1>7 DEF Receive
  <2> HIDE DEF slot
  <2>3. slot \in Unacked /\ Matches(rx, frames[slot])
    BY <2>1
  <2> QED
    BY <1>2, <1>3, <1>4, <1>5, <2>2, <2>3
<1> QED
  BY <1>6, <1>7

\* Steps that only take packets or frames away.
LEMMA TakenLemma ==
  ASSUME CoreInv, TypeOK', WindowInv', Writes' \subseteq Writes,
         UNCHANGED <<srv, pc, job, jobNo, sent, write_batch_counter>>
  PROVE  CoreInv' /\ Writes' \subseteq Writes
<1>1. JobInv'
  BY DEF CoreInv, JobInv
<1>2. sent \in Nat /\ sent <= sent'
  BY SizesLemma DEF CoreInv, TypeOK
<1>3. Writing' = Writing
  BY DEF Writing
<1> QED
  BY <1>1, <1>2, <1>3, FewerPacketsLemma DEF CoreInv

\* check_if_ack frees at most one slot and adds no packet.
LEMMA ReceiveLemma ==
  ASSUME CoreInv, NEW i \in Arriving(toClient), Receive(i), UNCHANGED srv
  PROVE  CoreInv' /\ Writes' \subseteq Writes
<1>1. TypeOK /\ WindowInv
  BY DEF CoreInv
<1>2. /\ i \in DOMAIN toClient /\ toClient[i] \in Replies
      /\ toClient' \in Seq(Replies) /\ Len(toClient') <= Len(toClient)
      /\ UNCHANGED <<pc, jobNo, job, sent, write_batch_counter,
                     queue_length, toServer, losses>>
  BY ReceiveFacts
<1>3. Len(toClient') <= Capacity
  BY <1>1, <1>2, LinkAssumption DEF TypeOK
<1>4. CASE UNCHANGED <<frames, order, queue_read_data, mount_file_response>>
  <2>1. TypeOK'
    BY <1>1, <1>2, <1>3, <1>4 DEF TypeOK
  <2>2. WindowInv'
    BY <1>1, <1>4 DEF WindowInv
  <2>3. Writes' = Writes
    BY <1>2, <1>4 DEF Writes, ToServer
  <2> QED
    BY <1>2, <2>1, <2>2, <2>3, TakenLemma
<1>5. ASSUME NEW k \in Unacked,
             frames' = [frames EXCEPT ![k] = NoPacket],
             order' = Without(k),
             mount_file_response' =
               (IF toClient[i].op = "mount" THEN toClient[i].status
                                            ELSE mount_file_response)
      PROVE  CoreInv' /\ Writes' \subseteq Writes
  <2>1. k \in Slots /\ frames[k] # NoPacket
    BY <1>1, WindowLemma DEF Unacked
  <2>2. order' \in Seq(Slots) /\ WindowInv'
    BY <1>1, <1>5, <2>1, WithoutLemma DEF WindowInv
  <2>3. frames \in [Slots -> Requests \cup {NoPacket}]
    BY <1>1 DEF TypeOK
  <2>4. frames' \in [Slots -> Requests \cup {NoPacket}]
    BY <1>5, <2>3
  <2>5. toClient[i].op = "mount" => toClient[i].status \in {0, 1}
    BY <1>2 DEF Replies, HelloReply, QuitReply, BrokenReply
  <2>6. mount_file_response' \in {0, 1, NoResponse}
    BY <1>1, <1>5, <2>5 DEF TypeOK
  <2>7. TypeOK'
    BY <1>1, <1>2, <1>3, <2>2, <2>4, <2>6 DEF TypeOK
  <2>8. Writes' \subseteq Writes
    <3>1. \A l \in Slots : frames'[l] \in {frames[l], NoPacket}
      BY <1>5, <2>3
    <3> QED
      BY <1>2, <3>1, RequestLemma DEF Writes, ToServer
  <2> QED
    BY <1>2, <2>2, <2>7, <2>8, TakenLemma
<1> QED
  BY <1>4, <1>5, ReceiveFacts

\* maybe_send_ack sends a frame of the window again: no new packet.
LEMMA ResendLemma ==
  ASSUME CoreInv, Resend, UNCHANGED srv
  PROVE  CoreInv' /\ Writes' \subseteq Writes
<1>1. TypeOK /\ WindowInv
  BY DEF CoreInv
<1>2. /\ Unacked # {} /\ toServer' = Sent(toServer, Oldest)
      /\ UNCHANGED <<clientVars, toClient, losses>>
  BY DEF Resend
<1>3. PICK k \in Slots : Oldest = frames[k] /\ frames[k] # NoPacket
  BY <1>1, <1>2, OldestLemma
<1>4. Oldest \in Requests
  BY <1>1, <1>3 DEF TypeOK
<1>5. /\ toServer' \in Seq(Requests) /\ Len(toServer') <= Capacity
      /\ Elements(toServer') \subseteq Elements(toServer) \cup {Oldest}
  BY <1>1, <1>2, <1>4, SentLemma DEF TypeOK
<1>6. TypeOK' /\ WindowInv'
  BY <1>1, <1>2, <1>5 DEF TypeOK, WindowInv, clientVars
<1>7. Writes' \subseteq Writes
  BY <1>2, <1>3, <1>5 DEF Writes, ToServer, clientVars
<1> QED
  BY <1>2, <1>6, <1>7, TakenLemma DEF clientVars

\* The network loses a packet.
LEMMA LosePacketLemma ==
  ASSUME CoreInv, LosePacket, UNCHANGED <<clientVars, srv>>
  PROVE  CoreInv' /\ Writes' \subseteq Writes
<1>1. TypeOK /\ WindowInv /\ Capacity \in Nat /\ MaxLosses \in Nat
  BY LinkAssumption DEF CoreInv
<1>2. losses' \in 0 .. MaxLosses
  BY <1>1 DEF LosePacket, TypeOK
<1>3. /\ toServer' \in Seq(Requests) /\ Len(toServer') <= Len(toServer)
      /\ Elements(toServer') \subseteq Elements(toServer)
      /\ toClient' \in Seq(Replies) /\ Len(toClient') <= Len(toClient)
  <2>0. toServer \in Seq(Requests) /\ toClient \in Seq(Replies)
    BY <1>1 DEF TypeOK
  <2>1. CASE (\E i \in DOMAIN toServer : toServer' = RemoveAt(toServer, i))
                /\ UNCHANGED toClient
    BY <2>0, <2>1, ElementsLemma
  <2>2. CASE (\E i \in DOMAIN toClient : toClient' = RemoveAt(toClient, i))
                /\ UNCHANGED toServer
    BY <2>0, <2>2, ElementsLemma
  <2> QED
    BY <2>1, <2>2 DEF LosePacket
<1>4. TypeOK' /\ WindowInv'
  BY <1>1, <1>2, <1>3 DEF TypeOK, WindowInv, clientVars
<1>5. Writes' \subseteq Writes
  BY <1>3 DEF Writes, ToServer, clientVars
<1> QED
  BY <1>4, <1>5, TakenLemma DEF clientVars

\* get_new_job drops a packet it does not want.
LEMMA IgnoreLemma ==
  ASSUME CoreInv, Ignore, UNCHANGED clientVars
  PROVE  CoreInv' /\ Writes' \subseteq Writes
<1>1. TypeOK /\ WindowInv /\ Capacity \in Nat
  BY LinkAssumption DEF CoreInv
<1>2. PICK i \in DOMAIN toServer : toServer' = RemoveAt(toServer, i)
  BY DEF Ignore, Arriving
<1>3. /\ toServer' \in Seq(Requests) /\ Len(toServer') <= Len(toServer)
      /\ Elements(toServer') \subseteq Elements(toServer)
  BY <1>1, <1>2, ElementsLemma DEF TypeOK
<1>4. UNCHANGED <<srv, toClient, losses>>
  BY DEF Ignore
<1>5. TypeOK' /\ WindowInv'
  BY <1>1, <1>3, <1>4 DEF TypeOK, WindowInv, clientVars
<1>6. Writes' \subseteq Writes
  BY <1>3 DEF Writes, ToServer, clientVars
<1> QED
  BY <1>4, <1>5, <1>6, TakenLemma DEF clientVars
-----------------------------------------------------------------------------
(* The steps of the MEGA65 *)

\* What the invariant says of the batch depends on these fields.
BatchFields == {"current_batch_counter", "slot_ids_received", "write_cache",
                "write_batch_max_id", "sector_number_write",
                "write_batch_active"}

\* What is known of the batch is a fact about its fields.
LEMMA SameBatchLemma ==
  ASSUME NEW s, BatchInv(s), NEW t, ServerInv(t),
         \A f \in BatchFields : t[f] = s[f]
  PROVE  BatchInv(t)
<1>1. /\ t.current_batch_counter = s.current_batch_counter
      /\ t.slot_ids_received = s.slot_ids_received
      /\ t.write_cache = s.write_cache
      /\ t.write_batch_max_id = s.write_batch_max_id
      /\ t.sector_number_write = s.sector_number_write
      /\ t.write_batch_active = s.write_batch_active
  BY DEF BatchFields
<1> QED
  BY <1>1 DEF BatchInv, FitsBatch, InJob

\* A server step that keeps the batch, or finishes it, keeps what is known of it.
LEMMA KeepsBatchLemma ==
  ASSUME PacketsInv,
         NEW s, BatchInv(s), NEW t, ServerInv(t), KeepsBatch(s, t)
  PROVE  BatchInv(t)
<1>1. /\ t.current_batch_counter = s.current_batch_counter
      /\ t.slot_ids_received = s.slot_ids_received
      /\ t.write_cache = s.write_cache
      /\ t.write_batch_max_id = s.write_batch_max_id
      /\ t.sector_number_write = s.sector_number_write
  BY DEF KeepsBatch
<1>2. CASE ~(s.write_batch_active /\ s.batch_left = 0)
  <2>1. t.write_batch_active = s.write_batch_active
    BY <1>2 DEF KeepsBatch
  <2> QED
    BY <1>1, <2>1 DEF BatchInv, FitsBatch, InJob
<1>3. CASE s.write_batch_active /\ s.batch_left = 0
  <2>1. ~t.write_batch_active /\ s.write_batch_active
        /\ s.slot_ids_received = 0 .. s.write_batch_max_id
    BY <1>3 DEF KeepsBatch
  <2>2. ASSUME NEW p \in Writes PROVE FitsBatch(t, p)
    <3>1. FitsBatch(s, p) /\ GoodWrite(p)
      BY DEF BatchInv, PacketsInv
    <3>2. p.slot \in 0 .. p.last
      <4>1. p.slot \in Indices /\ p.last \in Indices /\ p.slot <= p.last
        BY <3>1 DEF GoodWrite
      <4>2. p.slot \in Nat /\ p.last \in Nat
        BY <4>1, SizesLemma
      <4> QED
        BY <4>1, <4>2
    <3> QED
      BY <1>1, <2>1, <3>1, <3>2 DEF FitsBatch
  <2>3. InJob(t)
    BY <1>1, <2>1 DEF BatchInv, InJob
  <2> QED
    BY <2>2, <2>3 DEF BatchInv
<1> QED
  BY <1>2, <1>3

\* A server step that keeps the types, adds no write packet and keeps what is
\* known of the batch keeps the invariant.
LEMMA ServerStepLemma ==
  ASSUME CoreInv, UNCHANGED clientVars, TypeOK', Writes' \subseteq Writes,
         BatchInv(srv')
  PROVE  CoreInv' /\ Writes' \subseteq Writes
<1>1. WindowInv' /\ JobInv'
  BY DEF CoreInv, WindowInv, JobInv, clientVars
<1>2. \A i : Packet(i)' = Packet(i)
  BY DEF Packet, clientVars
<1>3. Writing' = Writing
  BY DEF Writing, clientVars
<1>4. PacketsInv'
  BY <1>2, <1>3 DEF CoreInv, PacketsInv, IsCurrent, Agree, clientVars
<1>5. BatchInv(srv)'
  <2>1. InJob(srv)'
    BY <1>3 DEF BatchInv, InJob, clientVars
  <2>2. \A p \in Writes' : FitsBatch(srv', p)
    BY DEF BatchInv
  <2> QED
    BY <2>1, <2>2 DEF BatchInv, FitsBatch
<1> QED
  BY <1>1, <1>4, <1>5 DEF CoreInv

\* The pending reply is sent: the half of process() before get_new_job.
LEMMA TransmitStepLemma ==
  ASSUME CoreInv, Transmit, UNCHANGED clientVars
  PROVE  CoreInv' /\ Writes' \subseteq Writes
<1>1. TypeOK /\ PacketsInv /\ BatchInv(srv) /\ ServerInv(srv)
  BY DEF CoreInv, BatchInv
<1>2. /\ ServerInv(srv') /\ KeepsBatch(srv, srv')
      /\ toClient' = Append(toClient, srv.send_buf)
      /\ srv.send_buf \in Replies
  BY <1>1, TransmitLemma
<1>3. Len(toClient) < Capacity /\ UNCHANGED <<toServer, losses>>
  BY DEF Transmit
<1>4. toClient' \in Seq(Replies) /\ Len(toClient') <= Capacity
  BY <1>1, <1>2, <1>3, LinkAssumption DEF TypeOK
<1>5. srv' \in ServerStates
  BY <1>2 DEF ServerInv
<1>6. TypeOK'
  BY <1>1, <1>3, <1>4, <1>5 DEF TypeOK, clientVars
<1>7. Writes' = Writes
  BY <1>3 DEF Writes, ToServer, clientVars
<1>8. BatchInv(srv')
  BY <1>1, <1>2, KeepsBatchLemma
<1> QED
  BY <1>6, <1>7, <1>8, ServerStepLemma

\* A request other than a write leaves the batch alone, and is refused only
\* while a batch is being written.
LEMMA OtherRequestLemma ==
  ASSUME NEW s, ServerInv(s), NEW p \in Requests, p.op # "write"
  PROVE  LET t == GetNewJob(s, p) IN
         /\ ServerInv(t)
         /\ \/ p.op = "read" /\ s.write_batch_active
               /\ OnlyChanged(s, t, {"state"})
            \/ p.op = "read" /\ ~s.write_batch_active
               /\ OnlyChanged(s, t, {"template", "batch_left",
                                     "sector_number_read",
                                     "read_batch_active"})
            \/ p.op = "hello" /\ t.send_buf = HelloReply
               /\ OnlyChanged(s, t, {"logged_in", "send_buf"})
            \/ p.op = "mount" /\ OnlyChanged(s, t, {"last_mount", "send_buf"})
               /\ t.send_buf = MountReply(p.seq, IF p.name \in Mountable
                                                   THEN 0 ELSE 1)
            \/ p.op = "quit" /\ t.send_buf = QuitReply
               /\ OnlyChanged(s, t, {"quit_requested", "send_buf"})
<1> DEFINE t == GetNewJob(s, p)
<1>1. s \in ServerStates
  BY DEF ServerInv
<1>2. CASE p.op = "read"
  <2>1. p.start \in Sectors /\ p.last \in Indices
    BY <1>2 DEF Requests, HelloRequest, QuitRequest
  <2>2. t = StartRead(s, p)
    BY <1>2 DEF GetNewJob
  <2> QED
    BY <1>2, <2>1, <2>2, StartReadLemma
<1>3. CASE p.op = "hello"
  <2>1. t = [s EXCEPT !.logged_in = TRUE, !.send_buf = HelloReply]
    BY <1>3 DEF GetNewJob, Hello
  <2>2. HelloReply \in Replies
    BY DEF Replies
  <2>3. t \in ServerStates /\ OnlyChanged(s, t, {"logged_in", "send_buf"})
        /\ t.send_buf = HelloReply
    <3> HIDE DEF t
    <3> QED
      BY <1>1, <2>1, <2>2 DEF OnlyChanged, Fields, ServerStates
  <2>4. ServerInv(t)
    BY <2>3, UnrelatedLemma DEF OnlyChanged
  <2> QED
    BY <1>3, <2>3, <2>4
<1>4. CASE p.op = "quit"
  <2>1. t = [s EXCEPT !.quit_requested = TRUE, !.send_buf = QuitReply]
    BY <1>4 DEF GetNewJob, Quit
  <2>2. QuitReply \in Replies
    BY DEF Replies
  <2>3. t \in ServerStates /\ OnlyChanged(s, t, {"quit_requested", "send_buf"})
        /\ t.send_buf = QuitReply
    <3> HIDE DEF t
    <3> QED
      BY <1>1, <2>1, <2>2 DEF OnlyChanged, Fields, ServerStates
  <2>4. ServerInv(t)
    BY <2>3, UnrelatedLemma DEF OnlyChanged
  <2> QED
    BY <1>4, <2>3, <2>4
<1>5. CASE p.op = "mount"
  <2> DEFINE status == IF p.name \in Mountable THEN 0 ELSE 1
             reply == MountReply(p.seq, status)
             m == IF status = 0 THEN [seq |-> p.seq, name |-> p.name]
                                ELSE s.last_mount
  <2>1. p.seq \in JobNumbers /\ p.name \in FileNames
    BY <1>5 DEF Requests, HelloRequest, QuitRequest
  <2>2. t = [s EXCEPT !.send_buf = reply, !.last_mount = m]
    BY <1>5 DEF GetNewJob, Mount
  <2>3. reply \in Replies
    BY <2>1 DEF Replies, MountReply
  <2>4. m \in [seq : 0 .. MaxJobs, name : FileNames \cup {"none"}]
    <3>1. p.seq \in 0 .. MaxJobs
      BY <2>1, SizesLemma DEF JobNumbers
    <3>2. s.last_mount \in [seq : 0 .. MaxJobs, name : FileNames \cup {"none"}]
      BY <1>1 DEF ServerStates
    <3> QED
      BY <2>1, <3>1, <3>2
  <2> HIDE DEF m, t, reply
  <2>5. t \in ServerStates /\ OnlyChanged(s, t, {"last_mount", "send_buf"})
        /\ t.send_buf = reply
    BY <1>1, <2>2, <2>3, <2>4 DEF OnlyChanged, Fields, ServerStates
  <2>6. ServerInv(t)
    BY <2>5, UnrelatedLemma DEF OnlyChanged
  <2> QED
    BY <1>5, <2>5, <2>6 DEF reply, t
<1>6. p.op \in {"read", "mount", "hello", "quit"}
  BY DEF Requests, HelloRequest, QuitRequest
<1> QED
  BY <1>2, <1>3, <1>4, <1>5, <1>6
\* Taking a write request keeps the batch invariant.
LEMMA WriteRequestLemma ==
  ASSUME PacketsInv, job.kind = "write" => job \in Jobs,
         NEW s, BatchInv(s), ~s.read_batch_active, NEW p \in Writes
  PROVE  BatchInv(GetNewJob(s, p))
<1> DEFINE t == GetNewJob(s, p)
<1>1. /\ p.op = "write" /\ GoodWrite(p) /\ IsCurrent(p) /\ FitsBatch(s, p)
      /\ ServerInv(s) /\ InJob(s)
  BY DEF PacketsInv, BatchInv, Writes
<1>2. \A q \in Writes : FitsBatch(s, q) /\ Agree(q, p)
  BY DEF PacketsInv, BatchInv
<1>3. /\ p.slot \in Indices /\ p.slot \in Nat /\ p.last \in Nat
      /\ s \in ServerStates
      /\ s.write_cache \in [Indices -> Contents]
  <2>1. p.slot \in Indices /\ p.last \in Indices
    BY <1>1 DEF GoodWrite
  <2>2. s \in ServerStates
    BY <1>1 DEF ServerInv
  <2> QED
    BY <2>1, <2>2, SizesLemma DEF ServerStates
<1>4. ASSUME p.counter = write_batch_counter
      PROVE  /\ Writing /\ p.slot < sent /\ p.start = job.start
             /\ p.last = job.n - 1 /\ job.n \in Nat
             /\ p.data = Content(jobNo, job.start + p.slot)
  <2>1. Writing /\ p.slot < sent /\ p = Packet(p.slot)
    BY <1>1, <1>4 DEF IsCurrent
  <2>2. p.start = job.start /\ p.last = job.n - 1
        /\ p.data = Content(jobNo, job.start + p.slot)
    BY <2>1 DEF Packet, WriteRequest
  <2>3. job.n \in Nat
    BY <2>1, JobLemma DEF Writing
  <2> QED
    BY <2>1, <2>2, <2>3
<1>5. CASE p.last = 0
  <2>1. t = WriteSingle(s, p)
    BY <1>1, <1>5 DEF GetNewJob
  <2> HIDE DEF t
  <2>2. ServerInv(t)
    BY <1>1, <1>5, <2>1, WriteSingleLemma
  <2>3. CASE OnlyChanged(s, t, {"state"})
    <3>1. \A f \in BatchFields : t[f] = s[f]
      BY <2>3 DEF OnlyChanged, Fields, BatchFields
    <3> QED
      BY <2>2, <3>1, SameBatchLemma DEF t
  <2>4. CASE /\ OnlyChanged(s, t, {"card", "current_batch_counter", "send_buf"})
             /\ ~s.write_batch_active
             /\ t.current_batch_counter = p.counter
    <3>1. t.write_batch_active = s.write_batch_active
      BY <2>4 DEF OnlyChanged, Fields
    <3>2. \A q \in Writes : FitsBatch(t, q)
      BY <1>2, <1>5, <2>4 DEF FitsBatch, Agree
    <3>3. InJob(t)
      <4>1. p.counter = write_batch_counter => Writing /\ job.n = 1
        BY <1>4, <1>5
      <4> QED
        BY <2>4, <3>1, <4>1 DEF InJob
    <3> QED
      BY <2>2, <3>2, <3>3 DEF BatchInv, t
  <2> QED
    BY <1>1, <1>5, <2>1, <2>3, <2>4, WriteSingleLemma, ZenonT(60)
<1>6. CASE p.last # 0
  <2> DEFINE new == ~s.write_batch_active
                      /\ p.counter # s.current_batch_counter
             known == p.counter = s.current_batch_counter
                        /\ p.slot \notin s.slot_ids_received
             cache == [s.write_cache EXCEPT ![p.slot] = p.data]
  <2>1. t = WriteMulti(s, p)
    BY <1>1, <1>6 DEF GetNewJob
  <2> HIDE DEF t
  <2>2. /\ ServerInv(t)
        /\ new =>
             /\ t.write_batch_active
             /\ t.slot_ids_received = {p.slot}
             /\ t.write_cache = cache
             /\ t.write_batch_max_id = p.last
             /\ t.sector_number_write = p.start
             /\ t.current_batch_counter = p.counter
        /\ ~new /\ known =>
             /\ s.write_batch_active
             /\ OnlyChanged(s, t, {"card", "slots_written", "batch_left",
                                   "slot_ids_received", "write_cache",
                                   "send_buf"})
             /\ t.slot_ids_received = s.slot_ids_received \cup {p.slot}
             /\ t.write_cache = cache
        /\ ~new /\ ~known => OnlyChanged(s, t, {"send_buf"})
    BY <1>1, <1>6, <2>1, WriteMultiLemma
  <2>3. \A i \in Indices : cache[i] = IF i = p.slot THEN p.data
                                                    ELSE s.write_cache[i]
    BY <1>3
  <2>4. s.slot_ids_received \subseteq Indices
    BY <1>3 DEF ServerStates
  <2> HIDE DEF cache
  <2>5. CASE new
    <3>1. \A q \in Writes : FitsBatch(t, q)
      BY <1>2, <1>3, <2>2, <2>3, <2>5 DEF FitsBatch, Agree
    <3>2. InJob(t)
      <4>1. p.counter = write_batch_counter => job.n # 1
        BY <1>3, <1>4, <1>6
      <4> QED
        BY <1>3, <1>4, <2>2, <2>3, <2>5, <4>1 DEF InJob
    <3> QED
      BY <2>2, <3>1, <3>2 DEF BatchInv, t
  <2>6. CASE ~new /\ known
    <3>1. /\ t.current_batch_counter = s.current_batch_counter
          /\ t.sector_number_write = s.sector_number_write
          /\ t.write_batch_max_id = s.write_batch_max_id
          /\ t.write_batch_active /\ s.write_batch_active
          /\ t.slot_ids_received = s.slot_ids_received \cup {p.slot}
          /\ t.write_cache = cache
          /\ p.counter = s.current_batch_counter
      BY <2>2, <2>6 DEF OnlyChanged, Fields
    <3>2. ASSUME NEW q \in Writes PROVE FitsBatch(t, q)
      <4>1. FitsBatch(s, q) /\ Agree(q, p) /\ q.slot \in Indices
        BY <1>2 DEF PacketsInv, GoodWrite
      <4> QED
        BY <2>3, <3>1, <4>1 DEF FitsBatch, Agree
    <3>3. InJob(t)
      <4>1. ASSUME s.current_batch_counter = write_batch_counter
            PROVE  /\ Writing /\ job.n # 1 /\ p.slot < sent
                   /\ s.sector_number_write = job.start
                   /\ s.write_batch_max_id = job.n - 1
                   /\ \A i \in t.slot_ids_received :
                        /\ i < sent
                        /\ t.write_cache[i] = Content(jobNo, job.start + i)
        <5>1. Writing /\ job.n # 1 /\ p.slot < sent
              /\ p.data = Content(jobNo, job.start + p.slot)
          BY <1>3, <1>4, <1>6, <3>1, <4>1
        <5>2. /\ s.sector_number_write = job.start
              /\ s.write_batch_max_id = job.n - 1
              /\ \A i \in s.slot_ids_received :
                   /\ i < sent
                   /\ s.write_cache[i] = Content(jobNo, job.start + i)
          BY <1>1, <4>1, <5>1 DEF InJob
        <5> QED
          BY <1>3, <2>3, <2>4, <3>1, <5>1, <5>2
      <4> QED
        BY <3>1, <4>1 DEF InJob
    <3> QED
      BY <2>2, <3>2, <3>3 DEF BatchInv, t
  <2>7. CASE ~new /\ ~known
    <3>1. \A f \in BatchFields : t[f] = s[f]
      BY <2>2, <2>7 DEF OnlyChanged, Fields, BatchFields
    <3> QED
      BY <2>2, <3>1, SameBatchLemma DEF t
  <2> QED
    BY <2>5, <2>6, <2>7
<1> QED
  BY <1>5, <1>6
\* What a call of process() does: at most it finishes the batch, prepares a
\* reply and collects a sector; then it takes a packet or none.
LEMMA PollLemma ==
  ASSUME ServerInv(srv), Poll
  PROVE  \E c :
           /\ ServerInv(c) /\ KeepsBatch(srv, c)
           /\ OnlyChanged(srv, c, {"card", "slots_written",
                                   "write_batch_active", "send_buf",
                                   "sector_buffered", "buffered",
                                   "batch_left", "read_batch_active",
                                   "sector_number_read", "sector_reading"})
           /\ c.send_buf \in {NoPacket, BrokenReply}
                               \cup [op : {"read"}, sector : Nat,
                                     data : Contents]
           /\ \/ /\ UNCHANGED toServer
                 /\ ServerInv(srv')
                 /\ OnlyChanged(c, srv', {"sector_reading", "state"})
                 /\ srv'.state \in {"running", "reset"}
              \/ /\ ~c.read_batch_active
                 /\ \E i \in Arriving(toServer) :
                      /\ ~Ignored(c, toServer[i])
                      /\ srv' = GetNewJob(c, toServer[i])
                      /\ toServer' = RemoveAt(toServer, i)
<1> DEFINE r == BuildReply(FinishBatch(srv))
           c == Prepared(srv)
           changed == {"card", "slots_written", "write_batch_active",
                       "send_buf", "sector_buffered", "buffered",
                       "batch_left", "read_batch_active",
                       "sector_number_read", "sector_reading"}
           replies == {NoPacket, BrokenReply}
                        \cup [op : {"read"}, sector : Nat, data : Contents]
<1>1. srv.send_buf = NoPacket /\ srv.state = "running"
  BY DEF Poll, Running
<1>2. \A s \in {r, c} :
        /\ ServerInv(s) /\ KeepsBatch(srv, s)
        /\ OnlyChanged(srv, s, changed) /\ s.send_buf \in replies
        /\ s.state = "running"
  <2>1. \A s \in {r, c} :
          /\ ServerInv(s) /\ KeepsBatch(srv, s)
          /\ OnlyChanged(srv, s, changed) /\ s.send_buf \in replies
    BY <1>1, PreparedLemma
  <2>2. \A s \in {r, c} : s.state = "running"
    BY <1>1, <2>1 DEF OnlyChanged, Fields
  <2> QED
    BY <2>1, <2>2
<1>3. \/ UNCHANGED toServer /\ srv' = r
      \/ /\ UNCHANGED toServer
         /\ c.read_batch_active /\ srv' = [c EXCEPT !.sector_reading = TRUE]
      \/ UNCHANGED toServer /\ srv' = [c EXCEPT !.state = "reset"]
      \/ UNCHANGED toServer /\ srv' = c
      \/ /\ ~c.read_batch_active
         /\ \E i \in Arriving(toServer) :
              /\ ~Ignored(c, toServer[i])
              /\ srv' = GetNewJob(c, toServer[i])
              /\ toServer' = RemoveAt(toServer, i)
  BY DEF Poll, Prepared
<1> HIDE DEF r, c, changed, replies
<1>4. CASE UNCHANGED toServer /\ srv' \in {r, c}
  <2>1. OnlyChanged(srv', srv', {"sector_reading", "state"})
    BY DEF OnlyChanged
  <2> QED
    BY <1>2, <1>4, <2>1 DEF changed, replies
<1>5. CASE /\ UNCHANGED toServer
           /\ c.read_batch_active /\ srv' = [c EXCEPT !.sector_reading = TRUE]
  <2>1. ServerInv(c) /\ c \in ServerStates
    BY <1>2 DEF ServerInv
  <2>2. /\ srv' \in ServerStates
        /\ OnlyChanged(c, srv', {"sector_reading"})
    BY <1>5, <2>1 DEF ServerStates, OnlyChanged, Fields
  <2>3. /\ srv'.card = c.card
        /\ srv'.template = c.template
        /\ srv'.write_batch_active = c.write_batch_active
        /\ srv'.batch_left = c.batch_left
        /\ srv'.write_batch_max_id = c.write_batch_max_id
        /\ srv'.slots_written = c.slots_written
        /\ srv'.slot_ids_received = c.slot_ids_received
        /\ srv'.sector_number_write = c.sector_number_write
        /\ srv'.write_cache = c.write_cache
        /\ srv'.read_batch_active = c.read_batch_active
        /\ srv'.state = c.state
    BY <2>2 DEF OnlyChanged, Fields
  <2>4. ServerInv(srv')
    BY <1>5, <2>1, <2>2, <2>3 DEF ServerInv, Accounts, Meant, OneBatch
  <2>5. OnlyChanged(c, srv', {"sector_reading", "state"})
    BY <2>2 DEF OnlyChanged
  <2>6. srv'.state = "running"
    BY <1>2, <2>3
  <2> QED
    BY <1>2, <1>5, <2>4, <2>5, <2>6 DEF changed, replies
<1>6. CASE UNCHANGED toServer /\ srv' = [c EXCEPT !.state = "reset"]
  <2>1. ServerInv(c) /\ c \in ServerStates
    BY <1>2 DEF ServerInv
  <2>2. /\ srv' \in ServerStates
        /\ OnlyChanged(c, srv', {"state"}) /\ srv'.state = "reset"
    BY <1>6, <2>1 DEF ServerStates, OnlyChanged, Fields
  <2>3. ServerInv(srv')
    BY <2>1, <2>2, UnrelatedLemma DEF OnlyChanged
  <2>4. OnlyChanged(c, srv', {"sector_reading", "state"})
    BY <2>2 DEF OnlyChanged
  <2> QED
    BY <1>2, <1>6, <2>2, <2>3, <2>4 DEF changed, replies
<1>7. CASE /\ ~c.read_batch_active
           /\ \E i \in Arriving(toServer) :
                /\ ~Ignored(c, toServer[i])
                /\ srv' = GetNewJob(c, toServer[i])
                /\ toServer' = RemoveAt(toServer, i)
  BY <1>2, <1>7 DEF changed, replies
<1> QED
  BY <1>3, <1>4, <1>5, <1>6, <1>7

\* process() without a pending reply: the batch or the read is advanced and a
\* packet taken.
LEMMA PollStepLemma ==
  ASSUME CoreInv, Poll, UNCHANGED clientVars, job.kind = "write" => job \in Jobs
  PROVE  CoreInv' /\ Writes' \subseteq Writes
<1>1. TypeOK /\ PacketsInv /\ BatchInv(srv) /\ ServerInv(srv)
      /\ toServer \in Seq(Requests) /\ Capacity \in Nat
  BY LinkAssumption DEF CoreInv, BatchInv, TypeOK
<1>2. PICK c :
        /\ ServerInv(c) /\ KeepsBatch(srv, c)
        /\ \/ /\ UNCHANGED toServer
              /\ ServerInv(srv')
              /\ OnlyChanged(c, srv', {"sector_reading", "state"})
           \/ /\ ~c.read_batch_active
              /\ \E i \in Arriving(toServer) :
                   /\ srv' = GetNewJob(c, toServer[i])
                   /\ toServer' = RemoveAt(toServer, i)
  BY <1>1, PollLemma
<1>3. BatchInv(c)
  BY <1>1, <1>2, KeepsBatchLemma
<1>4. UNCHANGED <<toClient, losses>>
  BY DEF Poll
<1>5. CASE /\ UNCHANGED toServer
           /\ ServerInv(srv')
           /\ OnlyChanged(c, srv', {"sector_reading", "state"})
  <2>1. \A f \in BatchFields : srv'[f] = c[f]
    BY <1>5 DEF OnlyChanged, Fields, BatchFields
  <2>2. BatchInv(srv')
    BY <1>3, <1>5, <2>1, SameBatchLemma
  <2>3. TypeOK'
    BY <1>1, <1>4, <1>5 DEF TypeOK, ServerInv, clientVars
  <2>4. Writes' = Writes
    BY <1>5 DEF Writes, ToServer, clientVars
  <2> QED
    BY <2>2, <2>3, <2>4, ServerStepLemma
<1>6. ASSUME ~c.read_batch_active, NEW i \in Arriving(toServer),
             srv' = GetNewJob(c, toServer[i]), toServer' = RemoveAt(toServer, i)
      PROVE  CoreInv' /\ Writes' \subseteq Writes
  <2> DEFINE p == toServer[i]
  <2>1. i \in DOMAIN toServer /\ p \in Requests /\ p \in ToServer
    BY <1>1 DEF Arriving, ToServer, Elements
  <2>2. /\ toServer' \in Seq(Requests) /\ Len(toServer') <= Len(toServer)
        /\ Elements(toServer') \subseteq Elements(toServer)
    BY <1>1, <1>6, <2>1, ElementsLemma
  <2>3. BatchInv(srv')
    <3>1. CASE p.op = "write"
      <4>1. p \in Writes
        BY <2>1, <3>1 DEF Writes
      <4> QED
        BY <1>1, <1>3, <1>6, <4>1, WriteRequestLemma
    <3>2. CASE p.op # "write"
      <4>1. /\ ServerInv(srv')
            /\ \/ OnlyChanged(c, srv', {"state"})
               \/ OnlyChanged(c, srv', {"template", "batch_left",
                                        "sector_number_read",
                                        "read_batch_active"})
               \/ OnlyChanged(c, srv', {"logged_in", "send_buf"})
               \/ OnlyChanged(c, srv', {"last_mount", "send_buf"})
               \/ OnlyChanged(c, srv', {"quit_requested", "send_buf"})
        BY <1>2, <1>6, <2>1, <3>2, OtherRequestLemma
      <4>2. \A f \in BatchFields : srv'[f] = c[f]
        BY <4>1 DEF OnlyChanged, Fields, BatchFields
      <4> QED
        BY <1>3, <4>1, <4>2, SameBatchLemma
    <3> QED
      BY <3>1, <3>2
  <2>4. srv' \in ServerStates
    BY <2>3 DEF BatchInv, ServerInv
  <2>5. TypeOK'
    BY <1>1, <1>4, <2>2, <2>4 DEF TypeOK, clientVars
  <2>6. Writes' \subseteq Writes
    BY <2>2 DEF Writes, ToServer, clientVars
  <2> QED
    BY <2>3, <2>5, <2>6, ServerStepLemma
<1> QED
  BY <1>2, <1>5, <1>6

-----------------------------------------------------------------------------
(* Every step *)

\* A step keeps the invariant, if the counter of the next batch is new.
LEMMA StepLemma ==
  ASSUME CoreInv, [Next]_vars,
         FinishJob /\ job.kind = "write" =>
           /\ \A p \in Writes : p.counter # write_batch_counter'
           /\ srv.current_batch_counter # write_batch_counter'
  PROVE  /\ CoreInv'
         /\ \A p \in Writes' : p \in Writes \/ p.counter = write_batch_counter
<1> DEFINE Goal == /\ CoreInv'
                   /\ \A p \in Writes' :
                        p \in Writes \/ p.counter = write_batch_counter
<1>1. CASE Client
  <2>1. UNCHANGED srv
    BY <1>1 DEF Client
  <2>2. ASSUME NEW j \in Jobs, StartJob(j) PROVE Goal
    BY <2>1, <2>2, StartJobLemma
  <2>3. CASE BeginSending \/ WindowFull \/ SkipPacket \/ GiveUp
    BY <2>1, <2>3, QuietStepLemma
  <2>4. CASE SendWrite
    <3>1. Packet(sent).counter = write_batch_counter
      BY DEF Packet, WriteRequest
    <3> QED
      BY <2>1, <2>4, <3>1, SendWriteLemma
  <2>5. CASE SendRead
    BY <2>1, <2>5, SendReadLemma
  <2>6. CASE SendSingle
    BY <2>1, <2>6, SendSingleLemma
  <2>7. CASE FinishJob
    BY <2>1, <2>7, FinishJobLemma
  <2>8. ASSUME NEW i \in Arriving(toClient), Receive(i) PROVE Goal
    BY <2>1, <2>8, ReceiveLemma
  <2>9. CASE Resend
    BY <2>1, <2>9, ResendLemma
  <2> QED
    BY <1>1, <2>2, <2>3, <2>4, <2>5, <2>6, <2>7, <2>8, <2>9
    DEF Client, ClientStep, ClientWork
<1>2. CASE Server
  <2>1. UNCHANGED clientVars
    BY <1>2 DEF Server
  <2>2. job.kind = "write" => job \in Jobs
    BY DEF CoreInv, TypeOK, NoJob
  <2> QED
    BY <1>2, <2>1, <2>2, TransmitStepLemma, PollStepLemma, IgnoreLemma
    DEF Server, ServerStep
<1>3. CASE Network
  BY <1>3, LosePacketLemma DEF Network
<1>4. CASE UNCHANGED vars
  <2>1. TypeOK' /\ WindowInv'
    BY <1>4 DEF CoreInv, TypeOK, WindowInv, vars, clientVars, linkVars
  <2>2. Writes' = Writes
    BY <1>4 DEF Writes, ToServer, vars, clientVars, linkVars
  <2> QED
    BY <1>4, <2>1, <2>2, TakenLemma DEF vars, clientVars
<1> QED
  BY <1>1, <1>2, <1>3, <1>4 DEF Next
\* The MEGA65 keeps its counter or takes that of a request.
LEMMA ServerCounterLemma ==
  ASSUME CoreInv, ServerStep
  PROVE  \/ srv'.current_batch_counter = srv.current_batch_counter
         \/ \E p \in Writes : srv'.current_batch_counter = p.counter
<1>1. TypeOK /\ PacketsInv /\ BatchInv(srv) /\ ServerInv(srv)
      /\ toServer \in Seq(Requests)
  BY DEF CoreInv, BatchInv, TypeOK
<1>2. CASE Transmit
  BY <1>1, <1>2, TransmitLemma DEF KeepsBatch
<1>3. CASE Ignore
  BY <1>3 DEF Ignore
<1>4. CASE Poll
  <2>1. PICK c :
          /\ ServerInv(c) /\ KeepsBatch(srv, c)
          /\ \/ OnlyChanged(c, srv', {"sector_reading", "state"})
             \/ /\ ~c.read_batch_active
                /\ \E i \in Arriving(toServer) :
                     srv' = GetNewJob(c, toServer[i])
    BY <1>1, <1>4, PollLemma
  <2>2. c.current_batch_counter = srv.current_batch_counter
    BY <2>1 DEF KeepsBatch
  <2>3. CASE OnlyChanged(c, srv', {"sector_reading", "state"})
    BY <2>2, <2>3 DEF OnlyChanged, Fields
  <2>4. ASSUME ~c.read_batch_active, NEW i \in Arriving(toServer),
               srv' = GetNewJob(c, toServer[i])
        PROVE  \/ srv'.current_batch_counter = srv.current_batch_counter
               \/ \E p \in Writes : srv'.current_batch_counter = p.counter
    <3> DEFINE p == toServer[i]
    <3>1. p \in Requests /\ p \in ToServer
      BY <1>1 DEF Arriving, ToServer, Elements
    <3>2. CASE p.op # "write"
      <4>1. \/ OnlyChanged(c, srv', {"state"})
            \/ OnlyChanged(c, srv', {"template", "batch_left",
                                     "sector_number_read",
                                     "read_batch_active"})
            \/ OnlyChanged(c, srv', {"logged_in", "send_buf"})
            \/ OnlyChanged(c, srv', {"last_mount", "send_buf"})
            \/ OnlyChanged(c, srv', {"quit_requested", "send_buf"})
        BY <2>1, <2>4, <3>1, <3>2, OtherRequestLemma
      <4> QED
        BY <2>2, <4>1 DEF OnlyChanged, Fields
    <3>3. CASE p.op = "write"
      <4>1. p \in Writes /\ GoodWrite(p)
        BY <1>1, <3>1, <3>3 DEF Writes, PacketsInv
      <4>2. srv'.current_batch_counter \in {c.current_batch_counter, p.counter}
        <5>0. ServerInv(c) /\ ~c.read_batch_active /\ FitsBatch(c, p)
          <6>1. BatchInv(c)
            BY <1>1, <2>1, KeepsBatchLemma
          <6> QED
            BY <2>4, <4>1, <6>1 DEF BatchInv
        <5> DEFINE t == GetNewJob(c, p)
        <5>1. CASE p.last = 0
          <6>1. t = WriteSingle(c, p)
            BY <3>3, <5>1 DEF GetNewJob
          <6> HIDE DEF t, p
          <6>2. \/ OnlyChanged(c, t, {"state"})
                \/ t.current_batch_counter = p.counter
            BY <4>1, <5>0, <5>1, <6>1, WriteSingleLemma, ZenonT(60)
          <6> QED
            BY <2>4, <6>2 DEF OnlyChanged, Fields, t, p
        <5>2. CASE p.last # 0
          <6> DEFINE new == ~c.write_batch_active
                              /\ p.counter # c.current_batch_counter
                     known == p.counter = c.current_batch_counter
                                /\ p.slot \notin c.slot_ids_received
          <6>1. t = WriteMulti(c, p)
            BY <3>3, <5>2 DEF GetNewJob
          <6> HIDE DEF t
          <6>2. /\ new => t.current_batch_counter = p.counter
                /\ ~new /\ known =>
                     OnlyChanged(c, t, {"card", "slots_written", "batch_left",
                                        "slot_ids_received", "write_cache",
                                        "send_buf"})
                /\ ~new /\ ~known => OnlyChanged(c, t, {"send_buf"})
            BY <4>1, <5>0, <5>2, <6>1, WriteMultiLemma
          <6> QED
            BY <2>4, <6>2 DEF OnlyChanged, Fields, t
        <5> QED
          BY <5>1, <5>2
      <4> QED
        BY <2>2, <4>1, <4>2
    <3> QED
      BY <3>2, <3>3
  <2> QED
    BY <2>1, <2>3, <2>4
<1> QED
  BY <1>2, <1>3, <1>4 DEF ServerStep

-----------------------------------------------------------------------------
(* As long as the counters have not come round, batches stay apart on any   *)
(* link, and though waits are given up                                      *)

\* Fewer jobs than counters.
Few == MaxJobs + 1 < BatchMod

\* Counters go up with the jobs.
FewInv ==
  /\ write_batch_counter <= jobNo
  /\ pc \notin {"ready", "exited"} => write_batch_counter < jobNo
  /\ \A p \in Writes : p.counter <= write_batch_counter
  /\ \/ srv.current_batch_counter <= write_batch_counter
     \/ srv.current_batch_counter = BatchMod - 1

\* While the counter has not come round, the counter of the next batch is on no
\* packet and is not the one the MEGA65 has.
LEMMA FewFreshLemma ==
  ASSUME Few, CoreInv, FewInv, FinishJob, job.kind = "write"
  PROVE  /\ write_batch_counter' = write_batch_counter + 1
         /\ write_batch_counter' <= jobNo
         /\ \A p \in Writes : p.counter # write_batch_counter'
         /\ srv.current_batch_counter # write_batch_counter'
<1>1. /\ write_batch_counter \in Nat /\ jobNo \in Nat /\ jobNo <= MaxJobs
      /\ srv.current_batch_counter \in Nat
      /\ BatchMod \in Nat /\ MaxJobs \in Nat
  <2>1. /\ write_batch_counter \in Counters /\ jobNo \in 0 .. MaxJobs
        /\ srv.current_batch_counter \in Counters
    BY DEF CoreInv, TypeOK, ServerStates
  <2>2. write_batch_counter \in Nat /\ srv.current_batch_counter \in Nat
    BY <2>1, NumbersLemma
  <2>3. BatchMod \in Nat /\ MaxJobs \in Nat
    BY SizesLemma
  <2> QED
    BY <2>1, <2>2, <2>3
<1>2. write_batch_counter < jobNo
  BY DEF FewInv, FinishJob
<1>3. write_batch_counter + 1 < BatchMod - 1
  BY <1>1, <1>2 DEF Few
<1>4. write_batch_counter' = write_batch_counter + 1
  <2>1. write_batch_counter' = (write_batch_counter + 1) % BatchMod
    BY DEF FinishJob
  <2>2. (write_batch_counter + 1) % BatchMod = write_batch_counter + 1
    BY <1>1, <1>3
  <2> QED
    BY <2>1, <2>2
<1>5. ASSUME NEW p \in Writes PROVE p.counter # write_batch_counter'
  <2>1. p.counter \in Nat /\ p.counter <= write_batch_counter
    BY SizesLemma DEF CoreInv, PacketsInv, GoodWrite, FewInv
  <2> QED
    BY <1>1, <1>4, <2>1
<1> QED
  BY <1>1, <1>2, <1>3, <1>4, <1>5 DEF FewInv

\* With few jobs for the counter every step keeps the invariant.
LEMMA FewStepLemma ==
  ASSUME Few, CoreInv, FewInv, [Next]_vars
  PROVE  CoreInv' /\ FewInv'
<1>1. /\ CoreInv'
      /\ \A p \in Writes' : p \in Writes \/ p.counter = write_batch_counter
  BY StepLemma, FewFreshLemma
<1>2. /\ write_batch_counter \in Nat /\ jobNo \in Nat
      /\ \A p \in Writes : p.counter \in Nat
  <2>1. write_batch_counter \in Counters /\ jobNo \in 0 .. MaxJobs
    BY DEF CoreInv, TypeOK
  <2>2. \A p \in Writes : p.counter \in Counters
    BY DEF CoreInv, PacketsInv, GoodWrite
  <2>3. MaxJobs \in Nat
    BY SizesLemma
  <2>4. jobNo \in Nat
    BY <2>1, <2>3
  <2> QED
    BY <2>1, <2>2, <2>4, NumbersLemma
<1>3. /\ write_batch_counter' \in {write_batch_counter, write_batch_counter + 1}
      /\ jobNo' \in {jobNo, jobNo + 1}
      /\ write_batch_counter' <= jobNo'
      /\ pc' \notin {"ready", "exited"} => write_batch_counter' < jobNo'
  <2>1. CASE FinishJob /\ job.kind = "write"
    <3>1. pc' = "ready" /\ UNCHANGED jobNo
      BY <2>1 DEF FinishJob
    <3> QED
      BY <2>1, <3>1, FewFreshLemma
  <2>2. ASSUME NEW j \in Jobs, StartJob(j)
        PROVE  jobNo' = jobNo + 1 /\ UNCHANGED write_batch_counter
    BY <2>2 DEF StartJob
  <2>3. CASE /\ UNCHANGED <<jobNo, write_batch_counter>>
             /\ pc' \notin {"ready", "exited"} => pc \notin {"ready", "exited"}
    BY <1>2, <2>3 DEF FewInv
  <2>4. CASE FinishJob /\ job.kind # "write"
    BY <2>3, <2>4 DEF FinishJob
  <2>5. CASE ClientStep /\ ~FinishJob /\ ~\E j \in Jobs : StartJob(j)
    <3>1. /\ UNCHANGED <<jobNo, write_batch_counter>>
          /\ pc' = pc \/ pc \in {"clear", "send", "full", "drain"}
      BY <2>5 DEF ClientStep, ClientWork, BeginSending, SendWrite, SendRead,
                  SendSingle, WindowFull, SkipPacket, Receive, Resend, GiveUp,
                  clientVars, Waiting
    <3> QED
      BY <2>3, <3>1
  <2>6. CASE UNCHANGED clientVars
    BY <2>3, <2>6 DEF clientVars
  <2>7. ClientStep \/ UNCHANGED clientVars
    BY DEF Next, Client, Server, Network, vars
  <2>8. ASSUME NEW j \in Jobs, StartJob(j)
        PROVE  /\ write_batch_counter' \in {write_batch_counter, write_batch_counter + 1}
               /\ jobNo' \in {jobNo, jobNo + 1}
               /\ write_batch_counter' <= jobNo'
               /\ write_batch_counter' < jobNo'
    BY <1>2, <2>2, <2>8 DEF FewInv
  <2> QED
    BY <2>1, <2>4, <2>5, <2>6, <2>7, <2>8
<1>4. \A p \in Writes' : p.counter <= write_batch_counter'
  <2> SUFFICES ASSUME NEW p \in Writes' PROVE p.counter <= write_batch_counter'
    OBVIOUS
  <2>1. p.counter <= write_batch_counter /\ p.counter \in Nat
    BY <1>1, <1>2 DEF FewInv
  <2> QED
    BY <1>2, <1>3, <2>1
<1>5. \/ srv'.current_batch_counter <= write_batch_counter'
      \/ srv'.current_batch_counter = BatchMod - 1
  <2>1. srv.current_batch_counter \in Nat
    BY SizesLemma DEF CoreInv, TypeOK, ServerStates
  <2>2. \/ srv'.current_batch_counter = srv.current_batch_counter
        \/ \E p \in Writes : srv'.current_batch_counter = p.counter
    <3>1. ServerStep \/ UNCHANGED srv
      BY DEF Next, Client, Server, Network, vars
    <3> QED
      BY <3>1, ServerCounterLemma
  <2> QED
    BY <1>2, <1>3, <2>1, <2>2 DEF FewInv
<1> QED
  BY <1>1, <1>3, <1>4, <1>5 DEF FewInv
-----------------------------------------------------------------------------
(* Without timeouts a job ends when all of its frames are acknowledged      *)

\* The frames are those of the job at hand.
FramesInv ==
  /\ pc # "exited"
  /\ pc = "clear" => sent = 0
  /\ \A k \in Slots : frames[k] # NoPacket =>
       /\ k \in InQueue
       /\ pc \in {"send", "full", "drain"}
       /\ job.kind = "write" => \E i \in 0 .. sent - 1 : frames[k] = Packet(i)
       /\ job.kind = "read" => pc = "drain" /\ frames[k].op = "read"
       /\ job.kind \in {"mount", "hello", "quit"} =>
            pc = "drain" /\ frames[k] = SinglePacket

\* The window is empty at the start.
LEMMA FramesInitLemma ==
  ASSUME Init
  PROVE  FramesInv
BY DEF Init, ClientInit, FramesInv

\* Without abandoned waits nothing is in the window before a job sends, and
\* nothing after its last acknowledgement.
LEMMA NoFramesLemma ==
  ASSUME TypeOK, FramesInv, pc \notin {"send", "full", "drain"} \/ Unacked = {}
  PROVE  /\ \A k \in Slots : frames[k] = NoPacket
         /\ Unacked = {}
<1>1. \A k \in Slots : frames[k] = NoPacket
  BY DEF FramesInv, Unacked
<1> QED
  BY <1>1, WindowLemma DEF Unacked

\* A reply to a read or a write frees no frame but one of a job that sends.
LEMMA FramesStepLemma ==
  ASSUME ~MayTimeOut, CoreInv, FramesInv, [Next]_vars
  PROVE  FramesInv'
<1>1. TypeOK /\ WindowInv /\ JobInv
      /\ frames \in [Slots -> Requests \cup {NoPacket}]
  BY DEF CoreInv, TypeOK
<1>2. CASE UNCHANGED clientVars
  BY <1>2 DEF FramesInv, clientVars, InQueue, Packet, SinglePacket
<1>3. ASSUME NEW j \in Jobs, StartJob(j)
      PROVE  FramesInv'
  <2>1. \A k \in Slots : frames[k] = NoPacket
    BY <1>1, <1>3, NoFramesLemma DEF StartJob
  <2> QED
    BY <1>3, <2>1 DEF StartJob, FramesInv
<1>4. CASE BeginSending \/ WindowFull
  <2>1. /\ pc' \in {"send", "full"} /\ pc \in {"clear", "send"}
        /\ UNCHANGED <<job, jobNo, sent, write_batch_counter, queue_length,
                       frames>>
    BY <1>4 DEF BeginSending, WindowFull
  <2>2. \A i : Packet(i)' = Packet(i)
    BY <2>1 DEF Packet
  <2> QED
    BY <2>1, <2>2 DEF FramesInv, InQueue, SinglePacket
<1>5. CASE SendWrite
  <2>1. /\ job.kind = "write" /\ pc' \in {"send", "drain"}
        /\ frames' = [frames EXCEPT ![FreeSlot(1)] = Packet(sent)]
        /\ sent' = sent + 1
        /\ UNCHANGED <<job, jobNo, write_batch_counter, queue_length>>
        /\ FreeSlots # {} /\ pc # "exited"
    BY <1>5 DEF SendWrite, SendFrame
  <2>2. FreeSlot(1) \in InQueue
    BY <1>1, <2>1, WindowLemma, FirstFreeLemma
  <2>3. \A i : Packet(i)' = Packet(i)
    BY <2>1 DEF Packet
  <2>4. sent \in Nat
    <3>1. sent \in 0 .. MaxBatch
      BY <1>1 DEF TypeOK
    <3> QED
      BY <3>1, SizesLemma
  <2> HIDE DEF SendWrite
  <2>5. InQueue' = InQueue
    BY <2>1 DEF InQueue
  <2>6. ASSUME NEW k \in Slots, frames'[k] # NoPacket
        PROVE  k \in InQueue /\ \E i \in 0 .. sent' - 1 : frames'[k] = Packet(i)
    <3>1. CASE k = FreeSlot(1)
      <4>1. frames'[k] = Packet(sent) /\ sent \in 0 .. sent' - 1
        BY <1>1, <2>1, <2>4, <3>1
      <4> QED
        BY <2>2, <3>1, <4>1
    <3>2. CASE k # FreeSlot(1)
      <4>1. frames'[k] = frames[k]
        BY <1>1, <2>1, <3>2
      <4>2. k \in InQueue /\ \E i \in 0 .. sent - 1 : frames[k] = Packet(i)
        BY <2>1, <2>6, <4>1 DEF FramesInv
      <4>3. 0 .. sent - 1 \subseteq 0 .. sent' - 1
        BY <2>1, <2>4
      <4> QED
        BY <4>1, <4>2, <4>3
    <3> QED
      BY <3>1, <3>2
  <2> QED
    BY <2>1, <2>3, <2>5, <2>6 DEF FramesInv
<1>6. CASE SendRead
  <2>1. /\ job.kind = "read" /\ pc' = "drain" /\ pc = "send"
        /\ UNCHANGED <<job, jobNo, sent, write_batch_counter, queue_length>>
        /\ frames' = [k \in Slots |->
                        IF k \in FreeSlots /\ Rank(k) <= job.n
                          THEN ReadRequest(job.start + Rank(k) - 1, 1)
                          ELSE frames[k]]
    BY <1>6 DEF SendRead
  <2>2. InQueue' = InQueue
    BY <2>1 DEF InQueue
  <2>3. ASSUME NEW k \in Slots, frames'[k] # NoPacket
        PROVE  k \in InQueue /\ frames'[k].op = "read"
    <3>1. frames[k] # NoPacket => k \in InQueue /\ frames[k].op = "read"
      BY <2>1 DEF FramesInv
    <3> QED
      BY <1>1, <2>1, <2>3, <3>1, WindowLemma DEF ReadRequest
  <2> QED
    BY <2>1, <2>2, <2>3 DEF FramesInv
<1>7. CASE SendSingle
  <2>1. /\ job.kind \in {"mount", "hello", "quit"} /\ pc' = "drain"
        /\ pc \in {"send", "full"}
        /\ frames' = [frames EXCEPT ![FreeSlot(1)] = SinglePacket]
        /\ UNCHANGED <<job, jobNo, sent, write_batch_counter, queue_length>>
        /\ FreeSlots # {}
    BY <1>7 DEF SendSingle, SendFrame
  <2>2. FreeSlot(1) \in InQueue
    BY <1>1, <2>1, WindowLemma, FirstFreeLemma
  <2>3. InQueue' = InQueue /\ SinglePacket' = SinglePacket
    BY <2>1 DEF InQueue, SinglePacket
  <2>4. \A k \in Slots : frames[k] = NoPacket
    BY <2>1 DEF FramesInv
  <2> QED
    BY <1>1, <2>1, <2>2, <2>3, <2>4 DEF FramesInv
<1>8. CASE FinishJob
  <2>1. Unacked = {} /\ UNCHANGED frames /\ pc' = "ready"
    BY <1>8 DEF FinishJob, AllAcked
  <2>2. \A k \in Slots : frames[k] = NoPacket
    BY <1>1, <2>1, NoFramesLemma
  <2> QED
    BY <2>1, <2>2 DEF FramesInv
<1>9. ASSUME NEW i \in Arriving(toClient), Receive(i)
      PROVE  FramesInv'
  <2>1. /\ UNCHANGED <<pc, jobNo, job, sent, write_batch_counter, queue_length>>
        /\ \/ UNCHANGED frames
           \/ \E k \in Unacked : frames' = [frames EXCEPT ![k] = NoPacket]
    BY <1>9, ReceiveFacts
  <2>2. \A k \in Slots : frames'[k] \in {frames[k], NoPacket}
    BY <1>1, <2>1
  <2>3. \A j : Packet(j)' = Packet(j)
    BY <2>1 DEF Packet
  <2> QED
    BY <2>1, <2>2, <2>3 DEF FramesInv, InQueue, SinglePacket
<1>10. CASE Resend
  BY <1>2, <1>10 DEF Resend
<1>11. ~SkipPacket /\ ~GiveUp
  BY DEF SkipPacket, GiveUp
<1> QED
  BY <1>2, <1>3, <1>4, <1>5, <1>6, <1>7, <1>8, <1>9, <1>10, <1>11
  DEF Next, Client, ClientStep, ClientWork, Server, Network, vars
-----------------------------------------------------------------------------
(* Which replies match which frames *)

\* A write packet is acknowledged by the reply with its counter and its slot: a
\* reply to a read has 0 where the high byte of the start sector is.
LEMMA MatchWriteLemma ==
  ASSUME TypeOK, job \in Jobs, job.kind = "write", jobNo \in JobNumbers,
         NEW i \in 0 .. job.n - 1,
         NEW rx \in Replies, rx # HelloReply, rx # QuitReply,
         Matches(rx, Packet(i))
  PROVE  /\ rx.op = "write"
         /\ rx.counter = write_batch_counter
         /\ rx.slot = i
<1> DEFINE tx == Packet(i)
           b == Bytes(tx)
<1>1. /\ tx.op = "write" /\ tx.counter = write_batch_counter
      /\ tx.slot = i /\ tx.start = job.start
  BY PacketLemma
<1>2. High(tx.start) # 0
  BY <1>1, JobsAssumption
<1> HIDE DEF tx
<1>3. b = <<tx.counter, tx.last, tx.slot, Low(tx.start), High(tx.start)>>
  BY <1>1 DEF Bytes
<1>4. rx.op \in {"write", "read", "mount", "broken"}
  BY DEF Replies, BrokenReply, HelloReply, QuitReply
<1>5. CASE rx.op = "read"
  <2> DEFINE S == {b[1], b[2], b[3], b[4], b[5]}
  <2>1. b \in Seq(S) /\ Len(b) = 5 /\ b[5] = High(tx.start)
    BY <1>3
  <2> HIDE DEF S, b
  <2>2. SubSeq(b, 3, 5)[3] = b[5]
    BY <2>1
  <2>3. <<Low(rx.sector), High(rx.sector), 0>> = SubSeq(b, 3, 5)
    BY <1>5 DEF Matches, tx, b
  <2> QED
    BY <1>2, <2>1, <2>2, <2>3
<1>6. CASE rx.op = "write"
  <2>1. Bytes(rx) = b
    BY <1>6 DEF Matches, tx
  <2>2. Bytes(rx)
          = <<rx.counter, rx.last, rx.slot, Low(rx.start), High(rx.start)>>
    BY <1>6 DEF Bytes
  <2> QED
    BY <1>1, <1>3, <1>6, <2>1, <2>2
<1>7. CASE rx.op \in {"mount", "broken"}
  BY <1>1, <1>7 DEF Matches, tx
<1> QED
  BY <1>4, <1>5, <1>6, <1>7

\* The login is acknowledged by its own reply, or by the reply to quit.
LEMMA MatchHelloLemma ==
  ASSUME NEW rx \in Replies, Matches(rx, HelloRequest)
  PROVE  rx \in {HelloReply, QuitReply}
<1> DEFINE b == Bytes(HelloRequest)
<1>1. b = [i \in 1 .. 5 |-> -1]
  BY DEF Bytes, HelloRequest, OtherByte
<1>2. b \in Seq({-1}) /\ Len(b) = 5 /\ b[1] = -1 /\ b[5] = -1
  BY <1>1
<1> HIDE DEF b
<1>3. CASE rx.op = "read"
  <2>1. SubSeq(b, 3, 5)[3] = b[5]
    BY <1>2
  <2>2. <<Low(rx.sector), High(rx.sector), 0>> = SubSeq(b, 3, 5)
    BY <1>3 DEF Matches, b
  <2> QED
    BY <1>2, <2>1, <2>2
<1>4. CASE rx.op = "write"
  <2>1. Bytes(rx) = b
    BY <1>4 DEF Matches, b
  <2>2. Bytes(rx)
          = <<rx.counter, rx.last, rx.slot, Low(rx.start), High(rx.start)>>
    BY <1>4 DEF Bytes
  <2>3. rx.counter \in Nat
    <3>1. rx.counter \in Counters
      BY <1>4 DEF Replies, HelloReply, QuitReply, BrokenReply
    <3> QED
      BY <3>1, NumbersLemma
  <2>4. rx.counter = b[1]
    BY <2>1, <2>2
  <2> QED
    BY <1>2, <2>3, <2>4
<1>5. CASE rx.op \in {"mount", "broken"}
  BY <1>5 DEF Matches, HelloRequest
<1>6. CASE rx.op \in {"hello", "quit"}
  BY <1>6 DEF Replies, HelloReply, QuitReply, BrokenReply
<1>7. rx.op \in {"write", "read", "mount", "broken", "hello", "quit"}
  BY DEF Replies, HelloReply, QuitReply, BrokenReply
<1> QED
  BY <1>3, <1>4, <1>5, <1>6, <1>7

-----------------------------------------------------------------------------
(* Mounting *)

\* The replies on their way to the client, or about to be sent.
Replied == Elements(toClient) \cup {srv.send_buf}

\* Requests and replies of older mount commands are told by their number.
MountInv ==
  /\ \A p \in ToServer : p.op = "mount" =>
       /\ p.seq <= jobNo
       /\ p.seq = jobNo => job.kind = "mount" /\ p.name = job.name
  /\ \A a \in Replied : a.op = "mount" =>
       /\ a.seq <= jobNo
       /\ a.seq = jobNo => job.kind = "mount"
                             /\ (a.status = 0) = (job.name \in Mountable)
  /\ job.kind = "mount" /\ pc \in {"send", "full"} =>
       mount_file_response = NoResponse
  /\ MountAnswered

\* No mount was asked for or answered at the start.
LEMMA MountInitLemma ==
  ASSUME Init
  PROVE  MountInv
<1>1. Replied = {NoPacket} /\ ToServer = {}
  BY DEF Init, LinkInit, ServerInit, Replied, ToServer, Elements
<1>2. NoPacket.op = "none" /\ job.kind = "none" /\ pc = "ready"
  BY DEF Init, ClientInit, NoPacket, NoJob
<1> QED
  BY <1>1, <1>2 DEF MountInv, MountAnswered

\* The requests the client adds are those it sends.
LEMMA ClientMountLemma ==
  ASSUME ~MayTimeOut, CoreInv, FramesInv, MountInv, ClientStep, UNCHANGED srv
  PROVE  MountInv'
<1>1. TypeOK /\ WindowInv /\ JobInv /\ jobNo \in Nat
      /\ toServer \in Seq(Requests) /\ Len(toServer) <= Capacity
  <2>1. MaxJobs \in Nat
    BY SizesLemma
  <2> QED
    BY <2>1 DEF CoreInv, TypeOK
<1>2. ASSUME NEW j \in Jobs, StartJob(j)
      PROVE  MountInv'
  <2>1. /\ ToServer' = ToServer /\ Replied' = Replied
        /\ jobNo' = jobNo + 1 /\ pc' = "clear"
    BY <1>2 DEF StartJob, linkVars, ToServer, Replied
  <2>2. ASSUME NEW p \in ToServer, p.op = "mount"
        PROVE  p.seq <= jobNo' /\ p.seq # jobNo'
    <3>1. p.seq \in JobNumbers
      BY <1>1, <2>2 DEF ToServer, Elements, Requests, HelloRequest, QuitRequest
    <3>2. p.seq \in Nat /\ p.seq <= jobNo
      BY <2>2, <3>1, SizesLemma DEF MountInv, JobNumbers
    <3> QED
      BY <1>1, <2>1, <3>2
  <2>3. ASSUME NEW a \in Replied, a.op = "mount"
        PROVE  a.seq <= jobNo' /\ a.seq # jobNo'
    <3>1. a \in Replies
      <4>1. a \in Replies \cup {NoPacket}
        BY <1>1 DEF Replied, Elements, TypeOK, ServerStates
      <4> QED
        BY <2>3, <4>1 DEF NoPacket
    <3>2. a.seq \in JobNumbers
      BY <2>3, <3>1 DEF Replies, HelloReply, QuitReply, BrokenReply
    <3>3. a.seq \in Nat /\ a.seq <= jobNo
      BY <2>3, <3>2, SizesLemma DEF MountInv, JobNumbers
    <3> QED
      BY <1>1, <2>1, <3>3
  <2> QED
    BY <2>1, <2>2, <2>3 DEF MountInv, MountAnswered
<1> DEFINE Same == jobNo' = jobNo /\ job' = job /\ toClient' = toClient
           Added == \A p \in ToServer' : \/ p \in ToServer
                                         \/ p.op # "mount"
                                         \/ p = SinglePacket /\ job.kind = "mount"
           Answer == job.kind = "mount" =>
                       IF pc = "clear" /\ pc' = "send"
                         THEN mount_file_response' = NoResponse
                         ELSE mount_file_response' = mount_file_response
           Moves == \/ pc = "clear" /\ pc' = "send"
                    \/ pc \in {"send", "full"} /\ pc' \in {"send", "full", "drain"}
                    \/ pc' = pc /\ pc \in {"clear", "full", "drain"}
<1>3. ASSUME Same, Added, Answer, Moves
      PROVE  MountInv'
  <2>1. Replied' = Replied
    BY <1>3 DEF Replied
  <2>2. \A p \in ToServer' : p.op = "mount" =>
          /\ p.seq <= jobNo'
          /\ p.seq = jobNo' => job'.kind = "mount" /\ p.name = job'.name
    <3>1. job.kind = "mount" =>
            SinglePacket.seq = jobNo /\ SinglePacket.name = job.name
      BY DEF SinglePacket, MountRequest
    <3> QED
      BY <1>1, <1>3, <3>1 DEF MountInv
  <2>3. job'.kind = "mount" /\ pc' \in {"send", "full"} =>
          mount_file_response' = NoResponse
    BY <1>3 DEF MountInv
  <2>4. MountAnswered'
    BY <1>3 DEF MountInv, MountAnswered
  <2> QED
    BY <1>3, <2>1, <2>2, <2>3, <2>4 DEF MountInv
<1>4. CASE BeginSending \/ WindowFull
  <2>1. Added
    BY <1>4 DEF BeginSending, WindowFull, linkVars, ToServer
  <2>2. Same /\ Answer /\ Moves
    BY <1>4 DEF BeginSending, WindowFull, linkVars
  <2> HIDE DEF Same, Added, Answer, Moves
  <2> QED
    BY <1>3, <2>1, <2>2
<1>5. CASE SendWrite
  <2>1. /\ job \in Jobs /\ jobNo \in JobNumbers /\ job.kind = "write"
        /\ toServer' = Sent(toServer, Packet(sent))
    BY <1>1, <1>5 DEF SendWrite, SendFrame, JobInv
  <2>2. sent \in 0 .. job.n - 1
    <3>1. sent < job.n /\ sent \in 0 .. MaxBatch /\ job.n \in Nat
      BY <1>1, <1>5, <2>1, JobLemma DEF SendWrite, JobInv, TypeOK
    <3> QED
      BY <3>1, SizesLemma
  <2>3. Packet(sent) \in Requests /\ Packet(sent).op = "write"
    BY <1>1, <2>1, <2>2, PacketLemma
  <2>4. ToServer' \subseteq ToServer \cup {Packet(sent)}
    BY <1>1, <2>1, <2>3, SentLemma DEF ToServer
  <2>5. Added
    BY <2>3, <2>4
  <2>6. Same /\ Answer /\ Moves
    BY <1>5 DEF SendWrite
  <2> HIDE DEF Same, Added, Answer, Moves
  <2> QED
    BY <1>3, <2>5, <2>6
<1>6. CASE SendRead
  <2> DEFINE r == ReadRequest(job.start, job.n - 1)
  <2>1. toServer' = Sent(toServer, r) /\ job \in Jobs
    BY <1>1, <1>6 DEF SendRead, JobInv
  <2>2. r \in Requests /\ r.op = "read"
    BY <2>1, JobLemma DEF ReadRequest, Requests
  <2>3. ToServer' \subseteq ToServer \cup {r}
    BY <1>1, <2>1, <2>2, SentLemma DEF ToServer
  <2>4. Added
    BY <2>2, <2>3
  <2>5. Same /\ Answer /\ Moves
    BY <1>6 DEF SendRead
  <2> HIDE DEF Same, Added, Answer, Moves
  <2> QED
    BY <1>3, <2>4, <2>5
<1>7. CASE SendSingle
  <2>1. /\ job.kind \in {"mount", "hello", "quit"} /\ job \in Jobs
        /\ jobNo \in JobNumbers
        /\ toServer' = Sent(toServer, SinglePacket)
    BY <1>1, <1>7 DEF SendSingle, SendFrame, JobInv
  <2>2. /\ SinglePacket \in Requests
        /\ job.kind # "mount" => SinglePacket.op # "mount"
    BY <2>1, JobsAssumption
    DEF SinglePacket, MountRequest, HelloRequest, QuitRequest, Requests
  <2>3. ToServer' \subseteq ToServer \cup {SinglePacket}
    BY <1>1, <2>1, <2>2, SentLemma DEF ToServer
  <2>4. Added
    BY <2>2, <2>3
  <2>5. Same /\ Answer /\ Moves
    BY <1>7 DEF SendSingle
  <2> HIDE DEF Same, Added, Answer, Moves
  <2> QED
    BY <1>3, <2>4, <2>5
<1>8. CASE FinishJob
  <2>1. /\ ToServer' = ToServer /\ Replied' = Replied
        /\ pc = "drain" /\ pc' = "ready"
        /\ UNCHANGED <<jobNo, job, mount_file_response>>
    BY <1>8 DEF FinishJob, linkVars, ToServer, Replied
  <2> QED
    BY <2>1 DEF MountInv, MountAnswered
<1>9. ASSUME NEW i \in Arriving(toClient), Receive(i)
      PROVE  MountInv'
  <2>1. /\ i \in DOMAIN toClient /\ toClient[i] \in Replies
        /\ Elements(toClient') \subseteq Elements(toClient)
        /\ pc \in {"clear", "full", "drain"}
        /\ UNCHANGED <<pc, jobNo, job, sent, write_batch_counter,
                       queue_length, toServer, losses>>
        /\ \/ UNCHANGED mount_file_response
           \/ \E k \in Unacked :
                /\ Matches(toClient[i], frames[k])
                /\ mount_file_response' =
                     (IF toClient[i].op = "mount" THEN toClient[i].status
                                                  ELSE mount_file_response)
    BY <1>9, ReceiveFacts
  <2>2. ToServer' = ToServer /\ Replied' \subseteq Replied
    BY <2>1 DEF ToServer, Replied
  <2>3. CASE UNCHANGED mount_file_response
    BY <2>1, <2>2, <2>3 DEF MountInv, MountAnswered
  <2>4. ASSUME NEW k \in Unacked, Matches(toClient[i], frames[k]),
               toClient[i].op = "mount",
               mount_file_response' = toClient[i].status
        PROVE  MountInv'
    <3>1. frames[k].op = "mount" /\ toClient[i].seq = frames[k].seq
      BY <2>4 DEF Matches
    <3>2. k \in Slots /\ frames[k] # NoPacket
      BY <1>1, WindowLemma DEF Unacked
    <3>3. job \in Jobs
      BY <1>1, <2>1 DEF JobInv
    <3>4. job.kind \in {"mount", "hello", "quit"}
      <4>1. job.kind # "write"
        <5>1. \A j : Packet(j).op = "write"
          BY DEF Packet, WriteRequest
        <5> QED
          BY <3>1, <3>2, <5>1 DEF FramesInv
      <4>2. job.kind # "read"
        BY <3>1, <3>2 DEF FramesInv
      <4> QED
        BY <3>3, <4>1, <4>2, JobsAssumption
    <3>5. pc = "drain" /\ frames[k] = SinglePacket
      BY <3>2, <3>4 DEF FramesInv
    <3>6. toClient[i].seq = jobNo
      BY <3>1, <3>4, <3>5
      DEF SinglePacket, MountRequest, HelloRequest, QuitRequest
    <3>7. toClient[i] \in Replied
      BY <2>1 DEF Replied, Elements
    <3>8. job.kind = "mount"
            /\ (toClient[i].status = 0) = (job.name \in Mountable)
      BY <2>4, <3>6, <3>7 DEF MountInv
    <3> QED
      BY <2>1, <2>2, <2>4, <3>5, <3>8 DEF MountInv, MountAnswered
  <2> QED
    BY <2>1, <2>3, <2>4
<1>10. CASE Resend
  <2>1. /\ toServer' = Sent(toServer, Oldest) /\ Unacked # {}
        /\ UNCHANGED <<clientVars, toClient>> /\ pc # "ready"
        /\ pc \in {"clear", "full", "drain"}
    BY <1>10 DEF Resend, Waiting
  <2>2. PICK k \in Slots : Oldest = frames[k] /\ frames[k] # NoPacket
    BY <1>1, <2>1, OldestLemma
  <2>3. Oldest \in Requests
    BY <1>1, <2>2 DEF TypeOK
  <2>4. ToServer' \subseteq ToServer \cup {Oldest}
    BY <1>1, <2>1, <2>3, SentLemma DEF ToServer
  <2>5. job \in Jobs
    BY <1>1, <2>1 DEF JobInv
  <2>6. Oldest.op = "mount" => Oldest = SinglePacket /\ job.kind = "mount"
    <3>1. CASE job.kind = "write"
      <4>1. \A j : Packet(j).op = "write"
        BY DEF Packet, WriteRequest
      <4> QED
        BY <2>2, <3>1, <4>1 DEF FramesInv
    <3>2. CASE job.kind = "read"
      BY <2>2, <3>2 DEF FramesInv
    <3>3. CASE job.kind \in {"mount", "hello", "quit"}
      <4>1. Oldest = SinglePacket
        BY <2>2, <3>3 DEF FramesInv
      <4> QED
        BY <3>3, <4>1 DEF SinglePacket, HelloRequest, QuitRequest
    <3> QED
      BY <2>5, <3>1, <3>2, <3>3, JobsAssumption
  <2>7. Added
    BY <2>4, <2>6
  <2>8. Same /\ Answer /\ Moves
    BY <2>1 DEF clientVars
  <2> HIDE DEF Same, Added, Answer, Moves
  <2> QED
    BY <1>3, <2>7, <2>8
<1>11. ~SkipPacket /\ ~GiveUp
  BY DEF SkipPacket, GiveUp
<1> QED
  BY <1>2, <1>4, <1>5, <1>6, <1>7, <1>8, <1>9, <1>10, <1>11
  DEF ClientStep, ClientWork
\* A reply of the MEGA65 answers a request, or is a sector it was asked for.
LEMMA ServerRepliesLemma ==
  ASSUME CoreInv, ServerStep
  PROVE  /\ ToServer' \subseteq ToServer
         /\ \A a \in Replied' :
              \/ a \in Replied
              \/ a.op \in {"none", "broken", "read", "write"}
              \/ a = HelloReply /\ HelloRequest \in ToServer
              \/ a = QuitReply /\ QuitRequest \in ToServer
              \/ \E p \in ToServer :
                   /\ p.op = "mount"
                   /\ a = MountReply(p.seq,
                                     IF p.name \in Mountable THEN 0 ELSE 1)
<1>1. TypeOK /\ ServerInv(srv) /\ PacketsInv /\ BatchInv(srv)
      /\ toServer \in Seq(Requests) /\ toClient \in Seq(Replies)
  BY DEF CoreInv, BatchInv, TypeOK
<1>2. NoPacket.op = "none" /\ BrokenReply.op = "broken"
  BY DEF NoPacket, BrokenReply
<1>3. CASE Transmit
  <2>1. /\ toClient' = Append(toClient, srv.send_buf) /\ UNCHANGED toServer
        /\ srv'.send_buf = NoPacket /\ srv.send_buf \in Replies
    BY <1>1, <1>3, TransmitLemma DEF Transmit
  <2>2. Elements(toClient') \subseteq Elements(toClient) \cup {srv.send_buf}
    BY <1>1, <2>1 DEF Elements
  <2>3. ToServer' = ToServer /\ Replied' \subseteq Replied \cup {NoPacket}
    BY <2>1, <2>2 DEF ToServer, Replied
  <2> QED
    BY <1>2, <2>3
<1>4. CASE Ignore
  <2>1. UNCHANGED <<srv, toClient>>
        /\ \E i \in DOMAIN toServer : toServer' = RemoveAt(toServer, i)
    BY <1>4 DEF Ignore, Arriving
  <2>2. ToServer' \subseteq ToServer
    BY <1>1, <2>1, ElementsLemma DEF ToServer
  <2> QED
    BY <2>1, <2>2 DEF Replied
<1>5. CASE Poll
  <2>1. PICK c :
          /\ ServerInv(c) /\ KeepsBatch(srv, c)
          /\ c.send_buf \in {NoPacket, BrokenReply}
                              \cup [op : {"read"}, sector : Nat,
                                    data : Contents]
          /\ \/ /\ UNCHANGED toServer
                /\ OnlyChanged(c, srv', {"sector_reading", "state"})
             \/ /\ ~c.read_batch_active
                /\ \E i \in Arriving(toServer) :
                     /\ srv' = GetNewJob(c, toServer[i])
                     /\ toServer' = RemoveAt(toServer, i)
    BY <1>1, <1>5, PollLemma
  <2>2. c.send_buf.op \in {"none", "broken", "read"}
    BY <1>2, <2>1
  <2>3. \A a \in Replied' : a \in Replied \/ a = srv'.send_buf
    BY <1>5 DEF Poll, Replied
  <2>4. CASE /\ UNCHANGED toServer
             /\ OnlyChanged(c, srv', {"sector_reading", "state"})
    <3>1. srv'.send_buf = c.send_buf
      BY <2>4 DEF OnlyChanged, Fields
    <3> QED
      BY <2>2, <2>3, <2>4, <3>1 DEF ToServer
  <2>5. ASSUME ~c.read_batch_active, NEW i \in Arriving(toServer),
               srv' = GetNewJob(c, toServer[i]),
               toServer' = RemoveAt(toServer, i)
        PROVE  /\ ToServer' \subseteq ToServer
               /\ \/ srv'.send_buf.op \in {"none", "broken", "read", "write"}
                  \/ srv'.send_buf = HelloReply /\ HelloRequest \in ToServer
                  \/ srv'.send_buf = QuitReply /\ QuitRequest \in ToServer
                  \/ \E p \in ToServer :
                       /\ p.op = "mount"
                       /\ srv'.send_buf =
                            MountReply(p.seq,
                                       IF p.name \in Mountable THEN 0 ELSE 1)
    <3> DEFINE p == toServer[i]
               t == GetNewJob(c, p)
    <3>1. i \in DOMAIN toServer /\ p \in Requests /\ p \in ToServer
      BY <1>1 DEF Arriving, ToServer, Elements
    <3>2. ToServer' \subseteq ToServer
      BY <1>1, <2>5, <3>1, ElementsLemma DEF ToServer
    <3>3. CASE p.op = "write"
      <4>0. ServerInv(c) /\ ~c.read_batch_active /\ p \in Writes
        BY <2>1, <2>5, <3>1, <3>3 DEF Writes
      <4>1. GoodWrite(p) /\ FitsBatch(c, p)
        <5>1. BatchInv(c)
          BY <1>1, <2>1, KeepsBatchLemma
        <5> QED
          BY <1>1, <4>0, <5>1 DEF PacketsInv, BatchInv
      <4>2. CASE p.last = 0
        <5>1. t = WriteSingle(c, p)
          BY <3>3, <4>2 DEF GetNewJob
        <5> HIDE DEF t, p
        <5>2. \/ OnlyChanged(c, t, {"state"})
              \/ t.send_buf = WriteAck(p.counter, 0, 0, p.start)
          BY <4>0, <4>1, <4>2, <5>1, WriteSingleLemma
        <5>3. t.send_buf.op \in {"none", "broken", "read", "write"}
          BY <2>2, <5>2 DEF OnlyChanged, Fields, WriteAck
        <5> QED
          BY <2>5, <3>2, <5>3 DEF t, p
      <4>3. CASE p.last # 0
        <5>1. t = WriteMulti(c, p)
          BY <3>3, <4>3 DEF GetNewJob
        <5> HIDE DEF t, p
        <5>2. t.send_buf = IF t.template.op = "write"
                             THEN WriteAck(p.counter, t.template.last, p.slot,
                                           t.template.start)
                             ELSE BrokenReply
          BY <4>0, <4>1, <4>3, <5>1, WriteMultiLemma
        <5>3. t.send_buf.op \in {"broken", "write"}
          BY <1>2, <5>2 DEF WriteAck
        <5> QED
          BY <2>5, <3>2, <5>3 DEF t, p
      <4> QED
        BY <4>2, <4>3
    <3>4. CASE p.op # "write"
      <4>1. \/ OnlyChanged(c, t, {"state"})
            \/ OnlyChanged(c, t, {"template", "batch_left",
                                  "sector_number_read", "read_batch_active"})
            \/ p.op = "hello" /\ t.send_buf = HelloReply
            \/ p.op = "mount"
               /\ t.send_buf = MountReply(p.seq, IF p.name \in Mountable
                                                  THEN 0 ELSE 1)
            \/ p.op = "quit" /\ t.send_buf = QuitReply
        <5> HIDE DEF p
        <5> QED
          BY <2>1, <3>1, <3>4, OtherRequestLemma
      <4>2. /\ p.op = "hello" => p = HelloRequest
            /\ p.op = "quit" => p = QuitRequest
        BY <3>1 DEF Requests, HelloRequest, QuitRequest
      <4>3. OnlyChanged(c, t, {"state"})
              \/ OnlyChanged(c, t, {"template", "batch_left",
                                  "sector_number_read", "read_batch_active"})
              => t.send_buf.op \in {"none", "broken", "read"}
        BY <2>2 DEF OnlyChanged, Fields
      <4> HIDE DEF t, p
      <4>4. \/ t.send_buf.op \in {"none", "broken", "read"}
            \/ t.send_buf = HelloReply /\ HelloRequest \in ToServer
            \/ t.send_buf = QuitReply /\ QuitRequest \in ToServer
            \/ p.op = "mount"
               /\ t.send_buf = MountReply(p.seq, IF p.name \in Mountable
                                                  THEN 0 ELSE 1)
        BY <3>1, <4>1, <4>2, <4>3
      <4>5. srv'.send_buf = t.send_buf
        BY <2>5 DEF t, p
      <4> QED
        BY <3>1, <3>2, <4>4, <4>5
    <3> QED
      BY <3>3, <3>4
  <2> QED
    BY <2>1, <2>3, <2>4, <2>5
<1> QED
  BY <1>3, <1>4, <1>5 DEF ServerStep

\* Every step keeps the replies to mount requests apart.
LEMMA MountStepLemma ==
  ASSUME ~MayTimeOut, CoreInv, FramesInv, MountInv, [Next]_vars
  PROVE  MountInv'
<1>1. toServer \in Seq(Requests) /\ toClient \in Seq(Replies)
  BY DEF CoreInv, TypeOK
<1>2. CASE Client
  BY <1>2, ClientMountLemma DEF Client
<1>3. ASSUME UNCHANGED clientVars, ToServer' \subseteq ToServer,
             \A a \in Replied' :
               \/ a \in Replied
               \/ a.op # "mount"
               \/ \E p \in ToServer :
                    /\ p.op = "mount"
                    /\ a = MountReply(p.seq,
                                      IF p.name \in Mountable THEN 0 ELSE 1)
      PROVE  MountInv'
  <2>1. ASSUME NEW a \in Replied', a.op = "mount"
        PROVE  /\ a.seq <= jobNo
               /\ a.seq = jobNo =>
                    job.kind = "mount" /\ (a.status = 0) = (job.name \in Mountable)
    <3>1. CASE a \in Replied
      BY <2>1, <3>1 DEF MountInv
    <3>2. ASSUME NEW p \in ToServer, p.op = "mount",
                 a = MountReply(p.seq, IF p.name \in Mountable THEN 0 ELSE 1)
          PROVE  /\ a.seq <= jobNo
                 /\ a.seq = jobNo =>
                      job.kind = "mount"
                        /\ (a.status = 0) = (job.name \in Mountable)
      <4>1. a.seq = p.seq /\ a.status = IF p.name \in Mountable THEN 0 ELSE 1
        BY <3>2 DEF MountReply
      <4>2. p.seq <= jobNo /\ (p.seq = jobNo => job.kind = "mount"
                                                  /\ p.name = job.name)
        BY <3>2 DEF MountInv
      <4> QED
        BY <4>1, <4>2
    <3> QED
      BY <1>3, <2>1, <3>1, <3>2
  <2>2. MountAnswered'
    BY <1>3 DEF MountInv, MountAnswered, clientVars
  <2> QED
    BY <1>3, <2>1, <2>2 DEF MountInv, clientVars
<1>4. CASE Server
  <2>1. UNCHANGED clientVars /\ ServerStep
    BY <1>4 DEF Server
  <2>2. ToServer' \subseteq ToServer
    BY <2>1, ServerRepliesLemma
  <2>3. \A a \in Replied' :
          \/ a \in Replied
          \/ a.op # "mount"
          \/ \E p \in ToServer :
               /\ p.op = "mount"
               /\ a = MountReply(p.seq,
                                 IF p.name \in Mountable THEN 0 ELSE 1)
    BY <2>1, ServerRepliesLemma DEF HelloReply, QuitReply
  <2> QED
    BY <1>3, <2>1, <2>2, <2>3
<1>5. CASE Network
  <2>1. UNCHANGED <<clientVars, srv>>
        /\ Elements(toServer') \subseteq Elements(toServer)
        /\ Elements(toClient') \subseteq Elements(toClient)
    BY <1>1, <1>5, ElementsLemma DEF Network, LosePacket
  <2>2. ToServer' \subseteq ToServer /\ Replied' \subseteq Replied
    BY <2>1 DEF ToServer, Replied
  <2> QED
    BY <1>3, <2>1, <2>2
<1>6. CASE UNCHANGED vars
  <2>1. ToServer' = ToServer /\ Replied' = Replied /\ UNCHANGED clientVars
    BY <1>6 DEF vars, linkVars, ToServer, Replied
  <2> QED
    BY <1>3, <2>1
<1> QED
  BY <1>2, <1>4, <1>5, <1>6 DEF Next
-----------------------------------------------------------------------------
(* On a link that keeps the order, and without timeouts                     *)

\* A request or an acknowledgement of the batch at hand.
OfBatch(p) == p.op = "write" /\ p.counter = write_batch_counter

Previous == (write_batch_counter - 1) % BatchMod

\* The MEGA65 has the i-th packet of the batch at hand.
Stored(s, i) ==
  /\ s.current_batch_counter = write_batch_counter
  /\ IF job.n = 1 THEN s.card[job.start] = Content(jobNo, job.start)
                  ELSE i \in s.slot_ids_received

OnItsWay(i) == \E k \in Slots : frames[k] = Packet(i)

Acks == {a \in Replied : a.op = "write"}

\* Behind a request of the batch at hand there are no others, and the MEGA65
\* is in this batch only when the older requests have gone.
RequestsInv ==
  /\ srv.current_batch_counter \in {write_batch_counter, Previous}
  /\ srv.current_batch_counter = write_batch_counter =>
       \A p \in ToServer : OfBatch(p)
  /\ srv.current_batch_counter # write_batch_counter =>
       ~srv.write_batch_active
  /\ \A p \in ToServer : p.op = "write" =>
       p.counter \in {write_batch_counter, srv.current_batch_counter}
  /\ \A i, j \in DOMAIN toServer :
       i < j /\ OfBatch(toServer[i]) => OfBatch(toServer[j])

\* A batch that is finished is on the card.
CardInv(s) ==
  s.current_batch_counter = write_batch_counter /\ ~s.write_batch_active
      /\ job.n # 1 =>
    \A i \in s.slot_ids_received :
      s.card[s.sector_number_write + i] = s.write_cache[i]

\* An acknowledgement with the counter at hand is true.  Once the client has
\* one, the older acknowledgements have gone.
AcksInv ==
  /\ \A a \in Acks :
       /\ a.counter \in {write_batch_counter, Previous}
       /\ OfBatch(a) => Writing /\ a.slot < sent /\ Stored(srv, a.slot)
  /\ \A i, j \in DOMAIN toClient :
       i < j /\ OfBatch(toClient[i]) /\ toClient[j].op = "write" =>
         OfBatch(toClient[j])
  /\ \A i \in DOMAIN toClient :
       OfBatch(toClient[i]) /\ srv.send_buf.op = "write" =>
         OfBatch(srv.send_buf)
  /\ Writing =>
       \A i \in 0 .. sent - 1 :
         ~OnItsWay(i) => Stored(srv, i) /\ \A a \in Acks : OfBatch(a)

\* The batch is finished by the time its last acknowledgement is sent.
LastAckInv ==
  srv.write_batch_active /\ srv.batch_left = 0 =>
    /\ srv.send_buf.op = "write"
    /\ OnItsWay(srv.send_buf.slot)
    /\ srv.send_buf.slot \in 0 .. sent - 1
    /\ \A i \in DOMAIN toClient :
         OfBatch(toClient[i]) => toClient[i].slot # srv.send_buf.slot

\* The replies to the login and to quit, which match every frame, arrive while
\* the client waits for them.
LoginInv ==
  /\ HelloReply \in Replied =>
       srv.logged_in /\ job.kind = "hello" /\ Unacked # {}
  /\ HelloRequest \in ToServer /\ ~srv.logged_in =>
       job.kind = "hello" /\ Unacked # {}
  /\ \A i, j \in DOMAIN toClient :
       toClient[i] = HelloReply /\ toClient[j] = HelloReply => i = j
  /\ \A i \in DOMAIN toClient :
       toClient[i] = HelloReply => srv.send_buf # HelloReply
  /\ QuitRequest \in ToServer \/ QuitReply \in Replied => job.kind = "quit"

BatchesInv == RequestsInv /\ CardInv(srv) /\ AcksInv /\ LastAckInv

OrderedInv == FramesInv /\ BatchesInv /\ LoginInv /\ NoFatal

\* r is what is left of q.
Thinned(q, r) ==
  /\ Elements(r) \subseteq Elements(q)
  /\ \A i, j \in DOMAIN r : i < j =>
       \E k, l \in DOMAIN q : k < l /\ r[i] = q[k] /\ r[j] = q[l]

\* A sequence from which an element is taken is a subsequence of it, in order.
LEMMA ThinnedLemma ==
  ASSUME NEW S, NEW q \in Seq(S)
  PROVE  /\ Thinned(q, q)
         /\ \A i \in DOMAIN q : Thinned(q, RemoveAt(q, i))
<1>1. Thinned(q, q)
  BY DEF Thinned
<1>2. ASSUME NEW m \in DOMAIN q
      PROVE  Thinned(q, RemoveAt(q, m))
  <2> DEFINE r == RemoveAt(q, m)
  <2>1. /\ DOMAIN r = 1 .. Len(q) - 1
        /\ \A j \in 1 .. Len(q) - 1 : r[j] = IF j < m THEN q[j] ELSE q[j + 1]
        /\ Elements(r) \subseteq Elements(q)
    BY RemoveAtLemma, ElementsLemma
  <2>2. Len(q) \in Nat /\ DOMAIN q = 1 .. Len(q)
    OBVIOUS
  <2> HIDE DEF r
  <2>3. ASSUME NEW i \in DOMAIN r, NEW j \in DOMAIN r, i < j
        PROVE  \E k, l \in DOMAIN q : k < l /\ r[i] = q[k] /\ r[j] = q[l]
    <3> DEFINE k == IF i < m THEN i ELSE i + 1
               l == IF j < m THEN j ELSE j + 1
    <3>1. k \in DOMAIN q /\ l \in DOMAIN q /\ k < l
      BY <2>1, <2>2, <2>3
    <3>2. r[i] = q[k] /\ r[j] = q[l]
      BY <2>1
    <3> QED
      BY <3>1, <3>2
  <2> QED
    BY <2>1, <2>3 DEF Thinned, r
<1> QED
  BY <1>1, <1>2

\* What was sent last comes last.
LEMMA SentLastLemma ==
  ASSUME NEW S, NEW q \in Seq(S), NEW p \in S,
         NEW r \in {Sent(q, p), Append(q, p)},
         NEW i \in DOMAIN r, NEW j \in DOMAIN r, i < j
  PROVE  /\ i \in DOMAIN q /\ r[i] = q[i]
         /\ (j \in DOMAIN q /\ r[j] = q[j]) \/ r[j] = p
<1>1. r = q \/ r = Append(q, p)
  BY DEF Sent
<1>2. Len(q) \in Nat /\ DOMAIN q = 1 .. Len(q)
  OBVIOUS
<1>3. CASE r = q
  BY <1>3
<1>4. CASE r = Append(q, p)
  <2>1. /\ DOMAIN r = 1 .. Len(q) + 1
        /\ \A k \in 1 .. Len(q) : r[k] = q[k]
        /\ r[Len(q) + 1] = p
    BY <1>4
  <2>2. i \in 1 .. Len(q) /\ (j \in 1 .. Len(q) \/ j = Len(q) + 1)
    BY <1>2, <2>1
  <2> QED
    BY <1>2, <2>1, <2>2
<1> QED
  BY <1>1, <1>3, <1>4

\* The counter after the next is another one, and the one before it is this.
LEMMA CounterLemma ==
  ASSUME TypeOK
  PROVE  /\ (write_batch_counter + 1) % BatchMod # write_batch_counter
         /\ (((write_batch_counter + 1) % BatchMod) - 1) % BatchMod
              = write_batch_counter
         /\ ~Outdated(Previous, write_batch_counter)
<1> DEFINE w == write_batch_counter
           m == BatchMod
<1>1. w \in Nat /\ w <= m - 1 /\ m \in Nat /\ m >= 2
  BY SizesLemma, NumbersLemma DEF TypeOK
<1> HIDE DEF w, m
<1>2. (w + 1) % m = IF w = m - 1 THEN 0 ELSE w + 1
  BY <1>1
<1>3. (w - 1) % m = IF w = 0 THEN m - 1 ELSE w - 1
  <2>1. CASE w = 0
    <3>1. (0 - 1) % m = m - 1
      BY <1>1
    <3> QED
      BY <2>1, <3>1
  <2>2. CASE w # 0
    BY <1>1, <2>2
  <2> QED
    BY <2>1, <2>2
<1>4. (w + 1) % m # w
  BY <1>1, <1>2
<1>5. (((w + 1) % m) - 1) % m = w
  <2>1. CASE w = m - 1
    <3>1. (0 - 1) % m = m - 1
      BY <1>1
    <3> QED
      BY <1>2, <2>1, <3>1
  <2>2. CASE w # m - 1
    <3>1. (w + 1) - 1 = w /\ w % m = w
      BY <1>1
    <3> QED
      BY <1>2, <2>2, <3>1
  <2> QED
    BY <2>1, <2>2
<1>6. (((w - 1) % m) - w) % m = m - 1
  <2>1. (m - 1) % m = m - 1 /\ (0 - 1) % m = m - 1
    BY <1>1
  <2>2. ((w - 1) % m) - w \in {m - 1, 0 - 1}
    BY <1>1, <1>3
  <2> QED
    BY <2>1, <2>2
<1>7. ~(m - 1 < m \div 2)
  BY <1>1
<1> QED
  BY <1>4, <1>5, <1>6, <1>7 DEF Outdated, Previous, w, m
-----------------------------------------------------------------------------
(* The MEGA65 takes the requests in order *)

\* A step that leaves the batch as it is, or finishes it.
KeepsBatchStep ==
  /\ KeepsBatch(srv, srv')
  /\ Thinned(toServer, toServer')
  /\ srv'.state = "fatal" =>
       srv.write_batch_active /\ \E p \in ToServer : p.op = "read"
  /\ \/ /\ toClient' = Append(toClient, srv.send_buf)
        /\ srv.send_buf \in Replies
        /\ srv'.send_buf.op # "write"
     \/ /\ UNCHANGED toClient
        /\ srv'.send_buf = srv.send_buf \/ srv'.send_buf.op # "write"

\* A step that takes the i-th request, a write, in the state c.
TakesWrite(c, i) ==
  /\ ServerInv(c) /\ KeepsBatch(srv, c) /\ c.state = "running"
  /\ ~c.read_batch_active
  /\ toServer[i].op = "write"
  /\ srv' = GetNewJob(c, toServer[i])
  /\ toServer' = RemoveAt(toServer, i)
  /\ UNCHANGED toClient

\* A step of the MEGA65 keeps the batch at hand or takes one write packet.
LEMMA ProcessLemma ==
  ASSUME CoreInv, NoFatal, ServerStep
  PROVE  \/ KeepsBatchStep
         \/ \E c : \E i \in Arriving(toServer) : TakesWrite(c, i)
<1>1. TypeOK /\ ServerInv(srv) /\ toServer \in Seq(Requests)
      /\ toClient \in Seq(Replies) /\ srv.state # "fatal"
  BY DEF CoreInv, BatchInv, TypeOK, NoFatal
<1>2. NoPacket.op = "none" /\ BrokenReply.op = "broken"
      /\ HelloReply.op = "hello" /\ QuitReply.op = "quit"
  BY DEF NoPacket, BrokenReply, HelloReply, QuitReply
<1>3. CASE Transmit
  <2>1. /\ KeepsBatch(srv, srv')
        /\ OnlyChanged(srv, srv', {"card", "slots_written",
                                   "write_batch_active", "send_buf"})
        /\ srv'.send_buf = NoPacket
        /\ toClient' = Append(toClient, srv.send_buf)
        /\ srv.send_buf \in Replies
        /\ UNCHANGED toServer
    BY <1>1, <1>3, TransmitLemma DEF Transmit
  <2>2. srv'.state = srv.state
    BY <2>1 DEF OnlyChanged, Fields
  <2>3. Thinned(toServer, toServer')
    BY <1>1, <2>1, ThinnedLemma
  <2> QED
    BY <1>1, <1>2, <2>1, <2>2, <2>3 DEF KeepsBatchStep
<1>4. CASE Ignore
  <2>1. /\ UNCHANGED <<srv, toClient>>
        /\ ~(srv.batch_left = 0 /\ srv.write_batch_active)
        /\ \E i \in DOMAIN toServer : toServer' = RemoveAt(toServer, i)
    BY <1>4 DEF Ignore, Arriving
  <2>2. KeepsBatch(srv, srv')
    BY <2>1 DEF KeepsBatch
  <2>3. Thinned(toServer, toServer')
    BY <1>1, <2>1, ThinnedLemma
  <2> QED
    BY <1>1, <2>1, <2>2, <2>3 DEF KeepsBatchStep
<1>5. CASE Poll
  <2>1. PICK c :
          /\ ServerInv(c) /\ KeepsBatch(srv, c)
          /\ OnlyChanged(srv, c, {"card", "slots_written",
                                  "write_batch_active", "send_buf",
                                  "sector_buffered", "buffered",
                                  "batch_left", "read_batch_active",
                                  "sector_number_read", "sector_reading"})
          /\ c.send_buf \in {NoPacket, BrokenReply}
                              \cup [op : {"read"}, sector : Nat,
                                    data : Contents]
          /\ \/ /\ UNCHANGED toServer
                /\ OnlyChanged(c, srv', {"sector_reading", "state"})
                /\ srv'.state \in {"running", "reset"}
             \/ /\ ~c.read_batch_active
                /\ \E i \in Arriving(toServer) :
                     /\ srv' = GetNewJob(c, toServer[i])
                     /\ toServer' = RemoveAt(toServer, i)
    BY <1>1, <1>5, PollLemma
  <2>2. UNCHANGED toClient /\ srv.state = "running"
    BY <1>5 DEF Poll, Running
  <2>3. c.state = "running" /\ c.send_buf.op # "write"
    <3>1. c.state = srv.state
      BY <2>1 DEF OnlyChanged, Fields
    <3> QED
      BY <1>2, <2>1, <2>2, <3>1
  <2>4. ASSUME NEW t,
               t.card = c.card, t.write_batch_active = c.write_batch_active,
               t.current_batch_counter = c.current_batch_counter,
               t.slot_ids_received = c.slot_ids_received,
               t.write_cache = c.write_cache,
               t.write_batch_max_id = c.write_batch_max_id,
               t.sector_number_write = c.sector_number_write,
               c.write_batch_active => t.batch_left = c.batch_left
        PROVE  KeepsBatch(srv, t)
    BY <2>1, <2>4 DEF KeepsBatch, FromBatch
  <2>5. CASE /\ UNCHANGED toServer
             /\ OnlyChanged(c, srv', {"sector_reading", "state"})
             /\ srv'.state \in {"running", "reset"}
    <3>1. KeepsBatch(srv, srv') /\ srv'.send_buf = c.send_buf
      <4>1. /\ srv'.card = c.card
            /\ srv'.write_batch_active = c.write_batch_active
            /\ srv'.current_batch_counter = c.current_batch_counter
            /\ srv'.slot_ids_received = c.slot_ids_received
            /\ srv'.write_cache = c.write_cache
            /\ srv'.write_batch_max_id = c.write_batch_max_id
            /\ srv'.sector_number_write = c.sector_number_write
            /\ srv'.batch_left = c.batch_left
            /\ srv'.send_buf = c.send_buf
        BY <2>5 DEF OnlyChanged, Fields
      <4> QED
        BY <2>4, <4>1
    <3>2. Thinned(toServer, toServer')
      BY <1>1, <2>5, ThinnedLemma
    <3> QED
      BY <2>2, <2>3, <2>5, <3>1, <3>2 DEF KeepsBatchStep
  <2>6. ASSUME ~c.read_batch_active, NEW i \in Arriving(toServer),
               srv' = GetNewJob(c, toServer[i]),
               toServer' = RemoveAt(toServer, i)
        PROVE  KeepsBatchStep \/ TakesWrite(c, i)
    <3> DEFINE p == toServer[i]
               t == GetNewJob(c, p)
    <3>1. i \in DOMAIN toServer /\ p \in Requests /\ p \in ToServer
      BY <1>1 DEF Arriving, ToServer, Elements
    <3>2. CASE p.op = "write"
      BY <2>1, <2>2, <2>3, <2>6, <3>2 DEF TakesWrite
    <3>3. CASE p.op # "write"
      <4>1. \/ p.op = "read" /\ c.write_batch_active
               /\ OnlyChanged(c, t, {"state"})
            \/ ~c.write_batch_active
               /\ OnlyChanged(c, t, {"template", "batch_left",
                                     "sector_number_read",
                                     "read_batch_active"})
            \/ t.send_buf = HelloReply
               /\ OnlyChanged(c, t, {"logged_in", "send_buf"})
            \/ OnlyChanged(c, t, {"last_mount", "send_buf"})
               /\ t.send_buf = MountReply(p.seq, IF p.name \in Mountable
                                                   THEN 0 ELSE 1)
            \/ t.send_buf = QuitReply
               /\ OnlyChanged(c, t, {"quit_requested", "send_buf"})
        <5> HIDE DEF p
        <5> QED
          BY <2>1, <3>1, <3>3, OtherRequestLemma
      <4> HIDE DEF t, p
      <4>2. /\ t.card = c.card
            /\ t.write_batch_active = c.write_batch_active
            /\ t.current_batch_counter = c.current_batch_counter
            /\ t.slot_ids_received = c.slot_ids_received
            /\ t.write_cache = c.write_cache
            /\ t.write_batch_max_id = c.write_batch_max_id
            /\ t.sector_number_write = c.sector_number_write
            /\ c.write_batch_active => t.batch_left = c.batch_left
        BY <4>1 DEF OnlyChanged, Fields
      <4>3. t.send_buf.op # "write"
        BY <1>2, <2>3, <4>1 DEF OnlyChanged, Fields, MountReply
      <4>4. t.state = "fatal" => p.op = "read" /\ c.write_batch_active
        BY <2>3, <4>1 DEF OnlyChanged, Fields
      <4>5. KeepsBatch(srv, t)
        BY <2>4, <4>2
      <4>6. c.write_batch_active => srv.write_batch_active
        BY <2>1 DEF KeepsBatch
      <4>7. Thinned(toServer, toServer')
        BY <1>1, <2>6, <3>1, ThinnedLemma
      <4>8. srv' = t
        BY <2>6 DEF t, p
      <4>9. srv'.state = "fatal" =>
              srv.write_batch_active /\ \E q \in ToServer : q.op = "read"
        BY <3>1, <4>4, <4>6, <4>8
      <4> QED
        BY <2>2, <4>3, <4>5, <4>7, <4>8, <4>9 DEF KeepsBatchStep
    <3> QED
      BY <3>2, <3>3
  <2> QED
    BY <2>1, <2>5, <2>6
<1> QED
  BY <1>3, <1>4, <1>5 DEF ServerStep

\* What the invariant says of requests with the counter at hand.
LEMMA OfBatchLemma ==
  ASSUME CoreInv, NEW p \in Writes, OfBatch(p)
  PROVE  /\ Writing /\ job \in Jobs /\ job.n \in Nat
         /\ p.slot \in Nat /\ p.slot \in 0 .. sent - 1
         /\ p = Packet(p.slot)
         /\ p.start = job.start /\ p.last = job.n - 1
         /\ p.data = Content(jobNo, job.start + p.slot)
<1>1. IsCurrent(p) /\ GoodWrite(p)
  BY DEF CoreInv, PacketsInv
<1>2. Writing /\ p.slot < sent /\ p = Packet(p.slot)
  BY <1>1 DEF IsCurrent, OfBatch
<1>3. p.slot \in Nat /\ sent \in Nat
  <2>1. p.slot \in Indices /\ sent \in 0 .. MaxBatch
    BY <1>1 DEF GoodWrite, CoreInv, TypeOK
  <2>2. p.slot \in Nat
    BY <2>1, NumbersLemma
  <2>3. MaxBatch \in Nat
    BY SizesLemma
  <2> QED
    BY <2>1, <2>2, <2>3
<1>4. p.start = job.start /\ p.last = job.n - 1
      /\ p.data = Content(jobNo, job.start + p.slot)
  BY <1>2 DEF Packet, WriteRequest
<1>5. job \in Jobs
  BY <1>2 DEF Writing, CoreInv, TypeOK, NoJob
<1>6. job.n \in Nat
  BY <1>5, JobLemma
<1> QED
  BY <1>2, <1>3, <1>4, <1>5, <1>6

\* A write request is taken without complaint, and what is acknowledged by it
\* is there.
LEMMA TakeWriteLemma ==
  ASSUME CoreInv, RequestsInv,
         NEW c, BatchInv(c), CardInv(c), ~c.read_batch_active,
         c.state = "running",
         c.current_batch_counter = srv.current_batch_counter,
         c.current_batch_counter # write_batch_counter => ~c.write_batch_active,
         ~(c.write_batch_active /\ c.batch_left = 0),
         NEW p \in ToServer, p.op = "write"
  PROVE  LET t == GetNewJob(c, p) IN
         /\ t.state = "running"
         /\ IF OfBatch(p)
              THEN Stored(t, p.slot)
              ELSE /\ t.current_batch_counter = c.current_batch_counter
                   /\ t.current_batch_counter # write_batch_counter
                   /\ ~t.write_batch_active
         /\ \A i : Stored(c, i) => Stored(t, i)
         /\ CardInv(t)
         /\ t.send_buf.op = "write" =>
              t.send_buf.counter = p.counter /\ t.send_buf.slot = p.slot
         /\ t.write_batch_active /\ t.batch_left = 0 =>
              /\ OfBatch(p) /\ ~Stored(c, p.slot)
              /\ t.send_buf.op = "write"
<1> DEFINE t == GetNewJob(c, p)
<1>1. p \in Writes /\ GoodWrite(p) /\ FitsBatch(c, p) /\ ServerInv(c)
      /\ InJob(c)
  BY DEF Writes, CoreInv, PacketsInv, BatchInv
<1>2. /\ OfBatch(p) = (p.counter = write_batch_counter)
      /\ p.counter \in {write_batch_counter, c.current_batch_counter}
      /\ c.current_batch_counter \in {write_batch_counter, Previous}
      /\ c.current_batch_counter = write_batch_counter => OfBatch(p)
  BY DEF OfBatch, RequestsInv
<1>3. OfBatch(p) =>
        /\ Writing /\ job.n \in Nat /\ p.slot \in Nat
        /\ p.start = job.start /\ p.last = job.n - 1
        /\ p.data = Content(jobNo, job.start + p.slot)
  BY <1>1, OfBatchLemma
<1>4. /\ p.slot \in Indices /\ p.slot \in Nat /\ p.last \in Nat
      /\ p.slot <= p.last /\ p.start \in Sectors
      /\ c.card \in [Sectors -> Contents]
  <2>1. p.slot \in Indices /\ p.last \in Indices /\ p.slot <= p.last
        /\ p.start \in Sectors
    BY <1>1 DEF GoodWrite
  <2> QED
    BY <1>1, <2>1, NumbersLemma DEF ServerInv, ServerStates
<1>5. CASE p.last = 0
  <2>1. t = WriteSingle(c, p)
    BY <1>5 DEF GetNewJob
  <2> HIDE DEF t
  <2>2. ~c.write_batch_active
    <3>1. c.current_batch_counter = write_batch_counter => job.n = 1
      BY <1>2, <1>3, <1>5
    <3> QED
      BY <1>1, <3>1 DEF InJob
  <2>3. ~Outdated(c.current_batch_counter, p.counter)
    <3>1. CASE p.counter = c.current_batch_counter
      BY <3>1 DEF Outdated
    <3>2. CASE p.counter # c.current_batch_counter
      <4>1. p.counter = write_batch_counter
            /\ c.current_batch_counter = Previous
        BY <1>2, <3>2
      <4> QED
        BY <4>1, CounterLemma DEF CoreInv
    <3> QED
      BY <3>1, <3>2
  <2>4. /\ ServerInv(t)
        /\ OnlyChanged(c, t, {"card", "current_batch_counter", "send_buf"})
        /\ t.current_batch_counter = p.counter
        /\ t.card = [c.card EXCEPT ![p.start] = p.data]
        /\ t.send_buf = WriteAck(p.counter, 0, 0, p.start)
    BY <1>1, <1>5, <2>1, <2>2, <2>3, WriteSingleLemma
  <2>5. t.state = "running" /\ ~t.write_batch_active
    BY <2>2, <2>4 DEF OnlyChanged, Fields
  <2>6. p.slot = 0
    BY <1>4, <1>5
  <2>7. t.send_buf.counter = p.counter /\ t.send_buf.slot = p.slot
    BY <2>4, <2>6 DEF WriteAck
  <2>8. CASE OfBatch(p)
    <3>1. job.n = 1 /\ p.start = job.start
          /\ p.data = Content(jobNo, job.start)
          /\ p.counter = write_batch_counter
      <4>1. p.start \in Nat
        BY <1>4, NumbersLemma
      <4>2. p.start + 0 = p.start
        BY <4>1
      <4>3. job.n = 1
        BY <1>3, <1>5, <2>8
      <4>4. p.start = job.start /\ p.data = Content(jobNo, job.start + 0)
        BY <1>3, <2>6, <2>8
      <4> QED
        BY <1>2, <2>8, <4>2, <4>3, <4>4
    <3>2. \A i : Stored(t, i)
      BY <1>4, <2>4, <3>1 DEF Stored
    <3>3. CardInv(t)
      BY <3>1 DEF CardInv
    <3> QED
      BY <2>5, <2>7, <2>8, <3>2, <3>3 DEF t
  <2>9. CASE ~OfBatch(p)
    <3>1. /\ t.current_batch_counter = c.current_batch_counter
          /\ t.current_batch_counter # write_batch_counter
      BY <1>2, <2>4, <2>9
    <3>2. CardInv(t) /\ \A i : ~Stored(c, i)
      BY <3>1 DEF CardInv, Stored
    <3> QED
      BY <2>5, <2>7, <2>9, <3>1, <3>2 DEF t
  <2> QED
    BY <2>8, <2>9
<1>6. CASE p.last # 0
  <2> DEFINE new == ~c.write_batch_active
                      /\ p.counter # c.current_batch_counter
             known == p.counter = c.current_batch_counter
                        /\ p.slot \notin c.slot_ids_received
  <2>1. t = WriteMulti(c, p)
    BY <1>6 DEF GetNewJob
  <2> HIDE DEF t
  <2>2. /\ ServerInv(t)
        /\ OnlyChanged(c, t, {"send_buf", "write_batch_active",
                              "slots_written", "slot_ids_received",
                              "batch_left", "write_batch_max_id",
                              "sector_number_write",
                              "current_batch_counter", "template", "card",
                              "write_cache"})
        /\ new =>
             /\ t.write_batch_active
             /\ t.slot_ids_received = {p.slot}
             /\ t.current_batch_counter = p.counter
        /\ ~new /\ known =>
             /\ c.write_batch_active
             /\ OnlyChanged(c, t, {"card", "slots_written", "batch_left",
                                   "slot_ids_received", "write_cache",
                                   "send_buf"})
             /\ t.slot_ids_received = c.slot_ids_received \cup {p.slot}
        /\ ~new /\ ~known => OnlyChanged(c, t, {"send_buf"})
        /\ t.send_buf = IF t.template.op = "write"
                          THEN WriteAck(p.counter, t.template.last, p.slot,
                                        t.template.start)
                          ELSE BrokenReply
    <3>1. /\ ServerInv(t)
          /\ OnlyChanged(c, t, {"send_buf", "write_batch_active",
                              "slots_written", "slot_ids_received",
                              "batch_left", "write_batch_max_id",
                              "sector_number_write",
                              "current_batch_counter", "template", "card",
                              "write_cache"})
      BY <1>1, <1>6, <2>1, WriteMultiLemma
    <3>2. new =>
             /\ t.write_batch_active
             /\ t.slot_ids_received = {p.slot}
             /\ t.current_batch_counter = p.counter
      BY <1>1, <1>6, <2>1, WriteMultiLemma
    <3>3. ~new /\ known =>
             /\ c.write_batch_active
             /\ OnlyChanged(c, t, {"card", "slots_written", "batch_left",
                                   "slot_ids_received", "write_cache",
                                   "send_buf"})
             /\ t.slot_ids_received = c.slot_ids_received \cup {p.slot}
      BY <1>1, <1>6, <2>1, WriteMultiLemma, ZenonT(60)
    <3>4. ~new /\ ~known => OnlyChanged(c, t, {"send_buf"})
      BY <1>1, <1>6, <2>1, WriteMultiLemma
    <3>5. t.send_buf = IF t.template.op = "write"
                          THEN WriteAck(p.counter, t.template.last, p.slot,
                                        t.template.start)
                          ELSE BrokenReply
      <4> HIDE DEF new, known
      <4> QED
        BY <1>1, <1>6, <2>1, WriteMultiLemma
    <3> QED
      BY <3>1, <3>2, <3>3, <3>4, <3>5
  <2>3. t.state = "running"
    BY <2>2 DEF OnlyChanged, Fields
  <2>4. t.send_buf.op = "write" =>
          t.send_buf.counter = p.counter /\ t.send_buf.slot = p.slot
    BY <2>2 DEF WriteAck, BrokenReply
  <2>5. t.write_batch_active => t.send_buf.op = "write"
    BY <2>2 DEF ServerInv, OneBatch, WriteAck
  <2>6. OfBatch(p) => job.n # 1
    BY <1>3, <1>4, <1>6
  <2>7. CASE new
    <3>1. OfBatch(p) /\ c.current_batch_counter # write_batch_counter
      BY <1>2, <2>7
    <3>2. t.current_batch_counter = write_batch_counter
      BY <1>2, <2>2, <2>7, <3>1
    <3>3. Stored(t, p.slot)
      BY <2>2, <2>6, <2>7, <3>1, <3>2 DEF Stored
    <3>4. CardInv(t) /\ \A i : ~Stored(c, i)
      BY <2>2, <2>7, <3>1 DEF CardInv, Stored
    <3> QED
      BY <2>3, <2>4, <2>5, <3>1, <3>3, <3>4 DEF t
  <2>8. CASE ~new /\ known
    <3>1. c.write_batch_active /\ OfBatch(p)
          /\ c.current_batch_counter = write_batch_counter
      BY <1>2, <2>2, <2>8
    <3>2. /\ t.current_batch_counter = c.current_batch_counter
          /\ t.write_batch_active
      BY <2>2, <2>8, <3>1 DEF OnlyChanged, Fields
    <3>3. Stored(t, p.slot) /\ ~Stored(c, p.slot)
      BY <2>2, <2>6, <2>8, <3>1, <3>2 DEF Stored
    <3>4. \A i : Stored(c, i) => Stored(t, i)
      BY <2>2, <2>6, <2>8, <3>1, <3>2 DEF Stored
    <3>5. CardInv(t)
      BY <3>2 DEF CardInv
    <3> QED
      BY <2>3, <2>4, <2>5, <3>1, <3>3, <3>4, <3>5 DEF t
  <2>9. CASE ~new /\ ~known
    <3>1. /\ t.current_batch_counter = c.current_batch_counter
          /\ t.write_batch_active = c.write_batch_active
          /\ t.batch_left = c.batch_left
          /\ t.slot_ids_received = c.slot_ids_received
          /\ t.card = c.card
          /\ t.write_cache = c.write_cache
          /\ t.sector_number_write = c.sector_number_write
      BY <2>2, <2>9 DEF OnlyChanged, Fields
    <3>2. CardInv(t) /\ \A i : Stored(c, i) => Stored(t, i)
      BY <3>1 DEF CardInv, Stored
    <3>3. CASE OfBatch(p)
      <4>1. c.current_batch_counter = write_batch_counter
        BY <1>2, <2>9, <3>3
      <4>2. p.slot \in c.slot_ids_received
        BY <1>2, <2>9, <3>3, <4>1
      <4>3. Stored(t, p.slot)
        BY <2>6, <3>1, <3>3, <4>1, <4>2 DEF Stored
      <4> QED
        BY <2>3, <2>4, <3>1, <3>2, <3>3, <4>3 DEF t
    <3>4. CASE ~OfBatch(p)
      BY <1>2, <2>3, <2>4, <3>1, <3>2, <3>4 DEF t
    <3> QED
      BY <3>3, <3>4
  <2> QED
    BY <2>7, <2>8, <2>9
<1> QED
  BY <1>5, <1>6
\* What a step keeps that leaves the batch as it is, or finishes it.
LEMMA KeepsCardLemma ==
  ASSUME CoreInv, BatchesInv, NEW t, KeepsBatch(srv, t)
  PROVE  /\ t.current_batch_counter = srv.current_batch_counter
         /\ t.write_batch_active => srv.write_batch_active
         /\ ~(t.write_batch_active /\ t.batch_left = 0)
         /\ \A i : Stored(srv, i) => Stored(t, i)
         /\ CardInv(t)
<1>1. /\ t.current_batch_counter = srv.current_batch_counter
      /\ t.slot_ids_received = srv.slot_ids_received
      /\ t.write_cache = srv.write_cache
      /\ t.sector_number_write = srv.sector_number_write
  BY DEF KeepsBatch
<1>2. InJob(srv) /\ CardInv(srv)
  BY DEF CoreInv, BatchInv, BatchesInv
<1>3. CASE srv.write_batch_active /\ srv.batch_left = 0
  <2>1. /\ ~t.write_batch_active
        /\ \A i \in srv.slot_ids_received :
             t.card[srv.sector_number_write + i] = srv.write_cache[i]
    BY <1>3 DEF KeepsBatch
  <2>2. srv.current_batch_counter = write_batch_counter => job.n # 1
    BY <1>2, <1>3 DEF InJob
  <2> QED
    BY <1>1, <1>3, <2>1, <2>2 DEF Stored, CardInv
<1>4. CASE ~(srv.write_batch_active /\ srv.batch_left = 0)
  <2>1. /\ t.write_batch_active = srv.write_batch_active
        /\ t.card = srv.card
        /\ srv.write_batch_active => t.batch_left = srv.batch_left
    BY <1>4 DEF KeepsBatch
  <2> QED
    BY <1>1, <1>2, <1>4, <2>1 DEF Stored, CardInv
<1> QED
  BY <1>3, <1>4

\* While the client does nothing the batch at hand is the same.
LEMMA SameClientLemma ==
  ASSUME UNCHANGED clientVars
  PROVE  /\ UNCHANGED <<pc, job, jobNo, sent, frames, write_batch_counter>>
         /\ Writing' = Writing /\ Previous' = Previous
         /\ \A p : OfBatch(p)' = OfBatch(p)
         /\ \A i : OnItsWay(i)' = OnItsWay(i)
         /\ \A i : Packet(i)' = Packet(i)
         /\ \A i : Stored(srv, i)' = Stored(srv', i)
         /\ CardInv(srv)' = CardInv(srv')
BY DEF clientVars, Writing, Previous, OfBatch, OnItsWay, Packet, Stored, CardInv

\* A step of the MEGA65 that keeps its batch keeps the two sides in step.
LEMMA KeepsStepLemma ==
  ASSUME CoreInv, BatchesInv, KeepsBatchStep, UNCHANGED clientVars
  PROVE  BatchesInv' /\ NoFatal'
<1>1. /\ UNCHANGED <<pc, job, jobNo, sent, frames, write_batch_counter>>
      /\ Writing' = Writing /\ Previous' = Previous
      /\ \A p : OfBatch(p)' = OfBatch(p)
      /\ \A i : OnItsWay(i)' = OnItsWay(i)
      /\ \A i : Stored(srv, i)' = Stored(srv', i)
      /\ CardInv(srv)' = CardInv(srv')
  BY SameClientLemma
<1>2. /\ srv'.current_batch_counter = srv.current_batch_counter
      /\ srv'.write_batch_active => srv.write_batch_active
      /\ ~(srv'.write_batch_active /\ srv'.batch_left = 0)
      /\ \A i : Stored(srv, i) => Stored(srv', i)
      /\ CardInv(srv')
  BY KeepsCardLemma DEF KeepsBatchStep
<1>3. RequestsInv /\ AcksInv
  BY DEF BatchesInv
<1>4. toServer \in Seq(Requests) /\ toClient \in Seq(Replies)
  BY DEF CoreInv, TypeOK
<1>5. Thinned(toServer, toServer') /\ ToServer' \subseteq ToServer
  BY DEF KeepsBatchStep, Thinned, ToServer
<1>6. RequestsInv'
  <2>1. ASSUME NEW i \in DOMAIN toServer', NEW j \in DOMAIN toServer', i < j,
               OfBatch(toServer'[i])
        PROVE  OfBatch(toServer'[j])
    <3>1. PICK k, l \in DOMAIN toServer :
            k < l /\ toServer'[i] = toServer[k] /\ toServer'[j] = toServer[l]
      BY <1>5, <2>1 DEF Thinned
    <3> QED
      BY <1>3, <2>1, <3>1 DEF RequestsInv
  <2> QED
    BY <1>1, <1>2, <1>3, <1>5, <2>1 DEF RequestsInv
<1>7. AcksInv'
  <2>1. CASE /\ toClient' = Append(toClient, srv.send_buf)
             /\ srv.send_buf \in Replies
             /\ srv'.send_buf.op # "write"
    <3>1. Elements(toClient') \subseteq Elements(toClient) \cup {srv.send_buf}
      BY <1>4, <2>1 DEF Elements
    <3>2. Acks' \subseteq Acks
      BY <2>1, <3>1 DEF Acks, Replied
    <3>3. ASSUME NEW i \in DOMAIN toClient', NEW j \in DOMAIN toClient', i < j,
                 OfBatch(toClient'[i]), toClient'[j].op = "write"
          PROVE  OfBatch(toClient'[j])
      <4>1. /\ i \in DOMAIN toClient /\ toClient'[i] = toClient[i]
            /\ \/ j \in DOMAIN toClient /\ toClient'[j] = toClient[j]
               \/ toClient'[j] = srv.send_buf
        BY <1>4, <2>1, <3>3, SentLastLemma
      <4> QED
        BY <1>3, <3>3, <4>1 DEF AcksInv
    <3> QED
      BY <1>1, <1>2, <1>3, <2>1, <3>2, <3>3 DEF AcksInv
  <2>2. CASE /\ UNCHANGED toClient
             /\ srv'.send_buf = srv.send_buf \/ srv'.send_buf.op # "write"
    <3>1. Acks' \subseteq Acks
      BY <2>2 DEF Acks, Replied
    <3> QED
      BY <1>1, <1>2, <1>3, <2>2, <3>1 DEF AcksInv
  <2> QED
    BY <2>1, <2>2 DEF KeepsBatchStep
<1>8. LastAckInv'
  BY <1>2 DEF LastAckInv
<1>9. NoFatal'
  BY <1>3 DEF KeepsBatchStep, RequestsInv, OfBatch, NoFatal
<1> QED
  BY <1>1, <1>2, <1>6, <1>7, <1>8, <1>9 DEF BatchesInv

\* The requests arrive in order: after one of the batch at hand come no others.
LEMMA TakesStepLemma ==
  ASSUME Ordered, CoreInv, BatchesInv, UNCHANGED clientVars,
         NEW c, NEW n \in Arriving(toServer), TakesWrite(c, n)
  PROVE  BatchesInv' /\ NoFatal'
<1> DEFINE p == toServer[n]
           t == GetNewJob(c, p)
<1>1. /\ UNCHANGED <<pc, job, jobNo, sent, frames, write_batch_counter>>
      /\ Writing' = Writing /\ Previous' = Previous
      /\ \A q : OfBatch(q)' = OfBatch(q)
      /\ \A i : OnItsWay(i)' = OnItsWay(i)
      /\ \A i : Stored(srv, i)' = Stored(srv', i)
      /\ CardInv(srv)' = CardInv(srv')
  BY SameClientLemma
<1>2. /\ c.current_batch_counter = srv.current_batch_counter
      /\ c.write_batch_active => srv.write_batch_active
      /\ ~(c.write_batch_active /\ c.batch_left = 0)
      /\ \A i : Stored(srv, i) => Stored(c, i)
      /\ CardInv(c)
  BY KeepsCardLemma DEF TakesWrite
<1>3. RequestsInv /\ AcksInv
  BY DEF BatchesInv
<1>4. toServer \in Seq(Requests) /\ n = 1 /\ n \in DOMAIN toServer
      /\ p \in ToServer /\ p.op = "write" /\ p \in Writes
  BY DEF CoreInv, TypeOK, Arriving, ToServer, Elements, TakesWrite, Writes
<1>5. BatchInv(c)
  BY KeepsBatchLemma DEF CoreInv, TakesWrite
<1>6. c.current_batch_counter # write_batch_counter => ~c.write_batch_active
  BY <1>2, <1>3 DEF RequestsInv
<1>7. srv' = t /\ UNCHANGED toClient /\ toServer' = RemoveAt(toServer, n)
      /\ c.state = "running" /\ ~c.read_batch_active
  BY DEF TakesWrite
<1> HIDE DEF t, p
<1>8. /\ t.state = "running"
      /\ IF OfBatch(p)
           THEN Stored(t, p.slot)
           ELSE /\ t.current_batch_counter = c.current_batch_counter
                /\ t.current_batch_counter # write_batch_counter
                /\ ~t.write_batch_active
      /\ \A i : Stored(c, i) => Stored(t, i)
      /\ CardInv(t)
      /\ t.send_buf.op = "write" =>
           t.send_buf.counter = p.counter /\ t.send_buf.slot = p.slot
      /\ t.write_batch_active /\ t.batch_left = 0 =>
           /\ OfBatch(p) /\ ~Stored(c, p.slot)
           /\ t.send_buf.op = "write"
  BY <1>2, <1>3, <1>4, <1>5, <1>6, <1>7, TakeWriteLemma DEF t
<1>9. /\ Thinned(toServer, toServer') /\ ToServer' \subseteq ToServer
      /\ OfBatch(p) => \A q \in ToServer' : OfBatch(q)
  <2>1. /\ DOMAIN toServer' = 1 .. Len(toServer) - 1
        /\ \A j \in 1 .. Len(toServer) - 1 : toServer'[j] = toServer[j + 1]
        /\ Elements(toServer') \subseteq Elements(toServer)
        /\ Thinned(toServer, toServer')
    <3>1. /\ DOMAIN toServer' = 1 .. Len(toServer) - 1
          /\ \A j \in 1 .. Len(toServer) - 1 :
               toServer'[j] = IF j < 1 THEN toServer[j] ELSE toServer[j + 1]
      BY <1>4, <1>7, RemoveAtLemma
    <3>2. /\ Elements(toServer') \subseteq Elements(toServer)
          /\ Thinned(toServer, toServer')
      BY <1>4, <1>7, ElementsLemma, ThinnedLemma
    <3> QED
      BY <3>1, <3>2
  <2>2. ASSUME OfBatch(p), NEW j \in DOMAIN toServer'
        PROVE  OfBatch(toServer'[j])
    <3>1. j + 1 \in DOMAIN toServer /\ n < j + 1 /\ toServer'[j] = toServer[j + 1]
      BY <1>4, <2>1
    <3> QED
      BY <1>3, <1>4, <2>2, <3>1 DEF RequestsInv, p
  <2> QED
    BY <2>1, <2>2 DEF ToServer, Elements
<1>10. /\ Stored(t, p.slot) => t.current_batch_counter = write_batch_counter
       /\ \A i : Stored(srv, i) => OfBatch(p) /\ Stored(t, i)
  BY <1>2, <1>3, <1>4, <1>8 DEF Stored, RequestsInv
<1>11. RequestsInv'
  <2>1. ASSUME NEW i \in DOMAIN toServer', NEW j \in DOMAIN toServer', i < j,
               OfBatch(toServer'[i])
        PROVE  OfBatch(toServer'[j])
    <3>1. PICK k, l \in DOMAIN toServer :
            k < l /\ toServer'[i] = toServer[k] /\ toServer'[j] = toServer[l]
      BY <1>9, <2>1 DEF Thinned
    <3> QED
      BY <1>3, <2>1, <3>1 DEF RequestsInv
  <2>2. CASE OfBatch(p)
    <3>1. t.current_batch_counter = write_batch_counter
      BY <1>8, <1>10, <2>2
    <3>2. \A q \in ToServer' : q.op = "write" /\ q.counter = write_batch_counter
      BY <1>9, <2>2 DEF OfBatch
    <3> QED
      BY <1>1, <1>7, <1>9, <2>1, <2>2, <3>1, <3>2 DEF RequestsInv
  <2>3. CASE ~OfBatch(p)
    BY <1>1, <1>2, <1>3, <1>7, <1>8, <1>9, <2>1, <2>3 DEF RequestsInv
  <2> QED
    BY <2>2, <2>3
<1>12. OfBatch(p) => /\ Writing /\ p.slot \in 0 .. sent - 1
                     /\ p.slot \in Nat /\ sent \in Nat
  <2>1. sent \in 0 .. MaxBatch /\ MaxBatch \in Nat
    BY SizesLemma DEF CoreInv, TypeOK
  <2> QED
    BY <1>4, <2>1, OfBatchLemma
<1>13. \A a \in Acks' : \/ a \in Acks
                        \/ /\ a = t.send_buf /\ t.send_buf.op = "write"
                           /\ a.counter = p.counter /\ a.slot = p.slot
                           /\ OfBatch(a) = OfBatch(p)
  BY <1>4, <1>7, <1>8 DEF Acks, Replied, OfBatch
<1>14. AcksInv'
  <2>1. ASSUME NEW a \in Acks'
        PROVE  /\ a.counter \in {write_batch_counter, Previous}
               /\ OfBatch(a) => Writing /\ a.slot < sent /\ Stored(t, a.slot)
    <3>1. CASE a \in Acks
      BY <1>3, <1>10, <3>1 DEF AcksInv
    <3>2. CASE /\ a.counter = p.counter /\ a.slot = p.slot
               /\ OfBatch(a) = OfBatch(p)
      <4>1. p.counter \in {write_batch_counter, Previous}
        BY <1>3, <1>4 DEF RequestsInv
      <4> QED
        BY <1>8, <1>12, <3>2, <4>1
    <3> QED
      BY <1>13, <3>1, <3>2
  <2>2. ASSUME NEW i, Stored(srv, i), NEW a \in Acks'
        PROVE  a \in Acks \/ OfBatch(a)
    BY <1>10, <1>13, <2>2
  <2>3. ASSUME NEW i \in DOMAIN toClient, OfBatch(toClient[i]),
               t.send_buf.op = "write"
        PROVE  OfBatch(t.send_buf)
    <3>1. toClient[i] \in Acks
      BY <2>3 DEF Acks, Replied, Elements, OfBatch
    <3>2. Stored(srv, toClient[i].slot)
      BY <1>3, <2>3, <3>1 DEF AcksInv
    <3>3. OfBatch(p)
      BY <1>10, <3>2
    <3> QED
      BY <1>8, <2>3, <3>3 DEF OfBatch
  <2>4. ASSUME Writing, NEW i \in 0 .. sent - 1, ~OnItsWay(i)
        PROVE  Stored(t, i) /\ \A a \in Acks' : OfBatch(a)
    <3>1. Stored(srv, i) /\ \A a \in Acks : OfBatch(a)
      BY <1>3, <2>4 DEF AcksInv
    <3> QED
      BY <1>10, <2>2, <3>1
  <2> QED
    BY <1>1, <1>3, <1>7, <2>1, <2>3, <2>4 DEF AcksInv
<1>15. LastAckInv'
  <2> SUFFICES ASSUME t.write_batch_active, t.batch_left = 0
               PROVE  /\ t.send_buf.op = "write"
                      /\ OnItsWay(t.send_buf.slot)
                      /\ t.send_buf.slot \in 0 .. sent - 1
                      /\ \A i \in DOMAIN toClient :
                           OfBatch(toClient[i]) =>
                             toClient[i].slot # t.send_buf.slot
    BY <1>1, <1>7 DEF LastAckInv
  <2>1. /\ OfBatch(p) /\ ~Stored(c, p.slot) /\ t.send_buf.op = "write"
        /\ t.send_buf.slot = p.slot
    BY <1>8
  <2>2. ~Stored(srv, p.slot)
    BY <1>2, <2>1
  <2>3. OnItsWay(p.slot)
    BY <1>3, <1>12, <2>1, <2>2 DEF AcksInv
  <2>4. ASSUME NEW i \in DOMAIN toClient, OfBatch(toClient[i])
        PROVE  Stored(srv, toClient[i].slot)
    <3>1. toClient[i] \in Acks
      BY <2>4 DEF Acks, Replied, Elements, OfBatch
    <3> QED
      BY <1>3, <2>4, <3>1 DEF AcksInv
  <2> QED
    BY <1>12, <2>1, <2>2, <2>3, <2>4
<1>16. NoFatal'
  BY <1>7, <1>8 DEF NoFatal
<1> QED
  BY <1>1, <1>7, <1>8, <1>11, <1>14, <1>15, <1>16 DEF BatchesInv

\* The MEGA65 keeps in step with the client.
LEMMA ServerBatchesLemma ==
  ASSUME Ordered, CoreInv, BatchesInv, NoFatal, ServerStep,
         UNCHANGED clientVars
  PROVE  BatchesInv' /\ NoFatal'
<1>1. CASE KeepsBatchStep
  BY <1>1, KeepsStepLemma
<1>2. ASSUME NEW c, NEW i \in Arriving(toServer), TakesWrite(c, i)
      PROVE  BatchesInv' /\ NoFatal'
  BY <1>2, TakesStepLemma
<1> QED
  BY <1>1, <1>2, ProcessLemma-----------------------------------------------------------------------------
(* The login is answered once                                               *)

\* The MEGA65 answers the login when it was not logged in, and is afterwards.
LEMMA ServerLoginLemma ==
  ASSUME CoreInv, ServerStep
  PROVE  /\ srv.logged_in => srv'.logged_in
         /\ \/ /\ toClient' = Append(toClient, srv.send_buf)
               /\ srv'.send_buf # HelloReply
               /\ srv.send_buf \in Replies
            \/ /\ UNCHANGED toClient
               /\ srv'.send_buf = srv.send_buf \/ srv'.send_buf # HelloReply
            \/ /\ UNCHANGED toClient
               /\ HelloRequest \in ToServer /\ ~srv.logged_in
               /\ srv'.logged_in
<1>1. TypeOK /\ ServerInv(srv) /\ PacketsInv /\ BatchInv(srv)
      /\ toServer \in Seq(Requests)
  BY DEF CoreInv, BatchInv, TypeOK
<1>2. NoPacket.op = "none" /\ BrokenReply.op = "broken"
      /\ HelloReply.op = "hello" /\ QuitReply.op = "quit"
  BY DEF NoPacket, BrokenReply, HelloReply, QuitReply
<1>3. CASE Transmit
  <2>1. /\ OnlyChanged(srv, srv', {"card", "slots_written",
                                   "write_batch_active", "send_buf"})
        /\ toClient' = Append(toClient, srv.send_buf)
        /\ srv'.send_buf = NoPacket /\ srv.send_buf \in Replies
    BY <1>1, <1>3, TransmitLemma DEF Transmit
  <2>2. srv'.logged_in = srv.logged_in
    BY <2>1 DEF OnlyChanged, Fields
  <2> QED
    BY <1>2, <2>1, <2>2
<1>4. CASE Ignore
  BY <1>4 DEF Ignore
<1>5. CASE Poll
  <2>1. PICK c :
          /\ ServerInv(c) /\ KeepsBatch(srv, c)
          /\ OnlyChanged(srv, c, {"card", "slots_written",
                                  "write_batch_active", "send_buf",
                                  "sector_buffered", "buffered",
                                  "batch_left", "read_batch_active",
                                  "sector_number_read", "sector_reading"})
          /\ c.send_buf \in {NoPacket, BrokenReply}
                              \cup [op : {"read"}, sector : Nat,
                                    data : Contents]
          /\ \/ OnlyChanged(c, srv', {"sector_reading", "state"})
             \/ /\ ~c.read_batch_active
                /\ \E i \in Arriving(toServer) :
                     /\ ~Ignored(c, toServer[i])
                     /\ srv' = GetNewJob(c, toServer[i])
    BY <1>1, <1>5, PollLemma
  <2>2. UNCHANGED toClient
    BY <1>5 DEF Poll
  <2>3. c.send_buf.op # "hello" /\ c.logged_in = srv.logged_in
    <3>1. c.send_buf.op # "hello"
      BY <1>2, <2>1
    <3>2. c.logged_in = srv.logged_in
      BY <2>1 DEF OnlyChanged, Fields
    <3> QED
      BY <3>1, <3>2
  <2>4. CASE OnlyChanged(c, srv', {"sector_reading", "state"})
    <3>1. srv'.send_buf = c.send_buf /\ srv'.logged_in = c.logged_in
      BY <2>4 DEF OnlyChanged, Fields
    <3> QED
      BY <1>2, <2>2, <2>3, <3>1
  <2>5. ASSUME ~c.read_batch_active, NEW i \in Arriving(toServer),
               ~Ignored(c, toServer[i]), srv' = GetNewJob(c, toServer[i])
        PROVE  \/ srv'.logged_in = c.logged_in /\ srv'.send_buf # HelloReply
               \/ /\ srv'.logged_in /\ ~srv.logged_in
                  /\ HelloRequest \in ToServer
    <3> DEFINE p == toServer[i]
               t == GetNewJob(c, p)
    <3>1. i \in DOMAIN toServer /\ p \in Requests /\ p \in ToServer
      BY <1>1 DEF Arriving, ToServer, Elements
    <3>2. CASE p.op = "hello"
      <4>1. p = HelloRequest
        BY <3>1, <3>2 DEF Requests, HelloRequest, QuitRequest
      <4>2. ~c.logged_in
        BY <2>5, <3>2 DEF Ignored
      <4>3. c \in ServerStates /\ t = Hello(c)
        BY <2>1, <3>2 DEF ServerInv, GetNewJob
      <4>4. t.logged_in
        BY <4>3 DEF Hello, ServerStates
      <4> QED
        BY <2>3, <2>5, <3>1, <4>1, <4>2, <4>4
    <3>3. CASE p.op \notin {"hello", "write"}
      <4>1. \/ OnlyChanged(c, t, {"state"})
            \/ OnlyChanged(c, t, {"template", "batch_left",
                                  "sector_number_read", "read_batch_active"})
            \/ OnlyChanged(c, t, {"last_mount", "send_buf"})
               /\ t.send_buf = MountReply(p.seq, IF p.name \in Mountable
                                                   THEN 0 ELSE 1)
            \/ t.send_buf = QuitReply
               /\ OnlyChanged(c, t, {"quit_requested", "send_buf"})
        <5> HIDE DEF p
        <5> QED
          BY <2>1, <3>1, <3>3, OtherRequestLemma
      <4> HIDE DEF t, p
      <4>2. t.send_buf.op # "hello"
        BY <1>2, <2>3, <4>1 DEF OnlyChanged, Fields, MountReply
      <4>3. t.logged_in = c.logged_in
        BY <4>1 DEF OnlyChanged, Fields
      <4> QED
        BY <1>2, <2>5, <4>2, <4>3 DEF t, p
    <3>4. CASE p.op = "write"
      <4>0. ServerInv(c) /\ ~c.read_batch_active /\ p \in Writes
        BY <2>1, <2>5, <3>1, <3>4 DEF Writes
      <4>1. GoodWrite(p) /\ FitsBatch(c, p)
        <5>1. BatchInv(c)
          BY <1>1, <2>1, KeepsBatchLemma
        <5> QED
          BY <1>1, <4>0, <5>1 DEF PacketsInv, BatchInv
      <4>2. CASE p.last = 0
        <5>1. t = WriteSingle(c, p)
          BY <3>4, <4>2 DEF GetNewJob
        <5> HIDE DEF t, p
        <5>2. \/ OnlyChanged(c, t, {"state"})
              \/ OnlyChanged(c, t, {"card", "current_batch_counter",
                                    "send_buf"})
                 /\ t.send_buf = WriteAck(p.counter, 0, 0, p.start)
          BY <4>0, <4>1, <4>2, <5>1, WriteSingleLemma
        <5>3. t.send_buf.op # "hello" /\ t.logged_in = c.logged_in
          BY <2>3, <5>2 DEF OnlyChanged, Fields, WriteAck
        <5> QED
          BY <1>2, <2>5, <5>3 DEF t, p
      <4>3. CASE p.last # 0
        <5>1. t = WriteMulti(c, p)
          BY <3>4, <4>3 DEF GetNewJob
        <5> HIDE DEF t, p
        <5>2. t.send_buf = IF t.template.op = "write"
                             THEN WriteAck(p.counter, t.template.last, p.slot,
                                           t.template.start)
                             ELSE BrokenReply
          BY <4>0, <4>1, <4>3, <5>1, WriteMultiLemma
        <5>3. OnlyChanged(c, t, {"send_buf", "write_batch_active",
                                 "slots_written", "slot_ids_received",
                                 "batch_left", "write_batch_max_id",
                                 "sector_number_write",
                                 "current_batch_counter", "template", "card",
                                 "write_cache"})
          BY <4>0, <4>1, <4>3, <5>1, WriteMultiLemma
        <5>4. t.send_buf.op # "hello"
          BY <1>2, <5>2 DEF WriteAck
        <5>5. t.logged_in = c.logged_in
          BY <5>3 DEF OnlyChanged, Fields
        <5> QED
          BY <1>2, <2>5, <5>4, <5>5 DEF t, p
      <4> QED
        BY <4>2, <4>3
    <3> QED
      BY <3>2, <3>3, <3>4
  <2> QED
    BY <2>1, <2>2, <2>3, <2>4, <2>5
<1> QED
  BY <1>3, <1>4, <1>5 DEF ServerStep

\* A step of the MEGA65 keeps what is known of the login.
LEMMA ServerLoginStepLemma ==
  ASSUME CoreInv, LoginInv, ServerStep, UNCHANGED clientVars
  PROVE  LoginInv'
<1>1. toClient \in Seq(Replies)
  BY DEF CoreInv, TypeOK
<1>2. /\ job' = job /\ Unacked' = Unacked
  BY DEF clientVars, Unacked, InQueue
<1>3. /\ srv.logged_in => srv'.logged_in
      /\ \/ /\ toClient' = Append(toClient, srv.send_buf)
            /\ srv'.send_buf # HelloReply
            /\ srv.send_buf \in Replies
         \/ /\ UNCHANGED toClient
            /\ srv'.send_buf = srv.send_buf \/ srv'.send_buf # HelloReply
         \/ /\ UNCHANGED toClient
            /\ HelloRequest \in ToServer /\ ~srv.logged_in
            /\ srv'.logged_in
  BY ServerLoginLemma
<1>4. /\ ToServer' \subseteq ToServer
      /\ QuitReply \in Replied' => QuitReply \in Replied
                                     \/ QuitRequest \in ToServer
  <2>1. /\ ToServer' \subseteq ToServer
        /\ \A a \in Replied' :
              \/ a \in Replied
              \/ a.op # "quit"
              \/ a = QuitReply /\ QuitRequest \in ToServer
    BY ServerRepliesLemma DEF HelloReply, MountReply
  <2>2. QuitReply.op = "quit"
    BY DEF QuitReply
  <2> QED
    BY <2>1, <2>2
<1>5. QuitRequest \in ToServer' \/ QuitReply \in Replied' => job.kind = "quit"
  BY <1>4 DEF LoginInv
<1>6. CASE /\ toClient' = Append(toClient, srv.send_buf)
           /\ srv'.send_buf # HelloReply
           /\ srv.send_buf \in Replies
  <2>1. /\ DOMAIN toClient' = 1 .. Len(toClient) + 1 /\ Len(toClient) \in Nat
        /\ DOMAIN toClient = 1 .. Len(toClient)
        /\ \A i \in DOMAIN toClient : toClient'[i] = toClient[i]
        /\ toClient'[Len(toClient) + 1] = srv.send_buf
    BY <1>1, <1>6
  <2>2. \A i \in DOMAIN toClient' : i \in DOMAIN toClient
                                      \/ i = Len(toClient) + 1
    BY <2>1
  <2>3. HelloReply \in Replied' => HelloReply \in Replied
    BY <1>6, <2>1, <2>2 DEF Replied, Elements
  <2>4. \A i, j \in DOMAIN toClient' :
          toClient'[i] = HelloReply /\ toClient'[j] = HelloReply => i = j
    BY <2>1, <2>2 DEF LoginInv
  <2> QED
    BY <1>2, <1>3, <1>4, <1>5, <1>6, <2>3, <2>4 DEF LoginInv
<1>7. CASE /\ UNCHANGED toClient
           /\ srv'.send_buf = srv.send_buf \/ srv'.send_buf # HelloReply
  <2>1. HelloReply \in Replied' => HelloReply \in Replied
    BY <1>7 DEF Replied
  <2> QED
    BY <1>2, <1>3, <1>4, <1>5, <1>7, <2>1 DEF LoginInv
<1>8. CASE /\ UNCHANGED toClient
           /\ HelloRequest \in ToServer /\ ~srv.logged_in
           /\ srv'.logged_in
  <2>1. HelloReply \notin Replied
    BY <1>8 DEF LoginInv
  <2>2. \A i \in DOMAIN toClient : toClient[i] # HelloReply
    BY <2>1 DEF Replied, Elements
  <2> QED
    BY <1>2, <1>3, <1>4, <1>5, <1>8, <2>2 DEF LoginInv
<1> QED
  BY <1>3, <1>6, <1>7, <1>8

\* The steps that leave the window as it is.
LEMMA QuietLoginLemma ==
  ASSUME LoginInv, UNCHANGED srv,
         job' = job, Unacked # {} => Unacked' # {},
         \A p \in ToServer' :
           \/ p \in ToServer
           \/ p \notin {HelloRequest, QuitRequest}
           \/ p = HelloRequest /\ job.kind = "hello" /\ Unacked' # {}
           \/ p = QuitRequest /\ job.kind = "quit",
         Thinned(toClient, toClient'),
         toClient \in Seq(Replies), toClient' \in Seq(Replies)
  PROVE  LoginInv'
<1>0. DOMAIN toClient \subseteq Nat /\ DOMAIN toClient' \subseteq Nat
  OBVIOUS
<1>1. Replied' \subseteq Replied
  BY DEF Thinned, Replied
<1>2. HelloRequest # QuitRequest
  BY DEF HelloRequest, QuitRequest
<1>3. ASSUME NEW i \in DOMAIN toClient', toClient'[i] = HelloReply
      PROVE  srv.send_buf # HelloReply
  <2>1. \E k \in DOMAIN toClient : toClient'[i] = toClient[k]
    BY <1>3 DEF Thinned, Elements
  <2> QED
    BY <1>3, <2>1 DEF LoginInv
<1>4. ASSUME NEW i \in DOMAIN toClient', NEW j \in DOMAIN toClient',
             toClient'[i] = HelloReply, toClient'[j] = HelloReply,
             i < j
      PROVE  FALSE
  <2>1. PICK k, l \in DOMAIN toClient :
          k < l /\ toClient'[i] = toClient[k] /\ toClient'[j] = toClient[l]
    BY <1>4 DEF Thinned
  <2>2. k = l
    BY <1>4, <2>1 DEF LoginInv
  <2> QED
    BY <1>0, <2>1, <2>2
<1>5. \A i, j \in DOMAIN toClient' :
        toClient'[i] = HelloReply /\ toClient'[j] = HelloReply => i = j
  BY <1>0, <1>4
<1> QED
  BY <1>1, <1>2, <1>3, <1>5 DEF LoginInv
\* No reply to the login is about while no frame waits for one.
LEMMA ClientLoginLemma ==
  ASSUME ~MayTimeOut, CoreInv, FramesInv, LoginInv, ClientStep, UNCHANGED srv,
         TypeOK'
  PROVE  LoginInv'
<1>1. /\ TypeOK /\ WindowInv /\ JobInv
      /\ toServer \in Seq(Requests) /\ Len(toServer) <= Capacity
      /\ toClient \in Seq(Replies) /\ toClient' \in Seq(Replies)
      /\ frames \in [Slots -> Requests \cup {NoPacket}]
  BY DEF CoreInv, TypeOK
<1>2. ASSUME UNCHANGED <<toServer, toClient>>, Unacked = {},
             job.kind # "quit" \/ job' = job
      PROVE  LoginInv'
  <2>1. ToServer' = ToServer /\ Replied' = Replied
    BY <1>2 DEF ToServer, Replied
  <2>2. /\ HelloReply \notin Replied
        /\ ~(HelloRequest \in ToServer /\ ~srv.logged_in)
    BY <1>2 DEF LoginInv
  <2> QED
    BY <1>2, <2>1, <2>2 DEF LoginInv
<1>3. ASSUME NEW p \in Requests, toServer' = Sent(toServer, p)
      PROVE  ToServer' \subseteq ToServer \cup {p}
  BY <1>1, <1>3, SentLemma DEF ToServer
<1>4. Thinned(toClient, toClient)
  BY <1>1, ThinnedLemma
<1>5. HelloRequest.op = "hello" /\ QuitRequest.op = "quit"
      /\ HelloRequest \in Requests /\ QuitRequest \in Requests
  BY DEF HelloRequest, QuitRequest, Requests
<1>6. ASSUME NEW j \in Jobs, StartJob(j)
      PROVE  LoginInv'
  <2>1. Unacked = {}
    BY <1>1, <1>6, NoFramesLemma DEF StartJob
  <2> QED
    BY <1>2, <1>6, <2>1 DEF StartJob, linkVars
<1>7. CASE FinishJob
  BY <1>2, <1>7 DEF FinishJob, AllAcked, linkVars
<1>8. CASE BeginSending \/ WindowFull
  <2>1. /\ UNCHANGED <<job, toServer, toClient, frames, queue_length>>
    BY <1>8 DEF BeginSending, WindowFull, linkVars
  <2>2. Unacked' = Unacked /\ ToServer' = ToServer
    BY <2>1 DEF Unacked, InQueue, ToServer
  <2> QED
    BY <1>1, <1>4, <2>1, <2>2, QuietLoginLemma
<1>9. ASSUME SendWrite \/ SendRead
      PROVE  LoginInv'
  <2>1. /\ UNCHANGED <<job, toClient>> /\ job.kind \in {"write", "read"}
    BY <1>9 DEF SendWrite, SendRead
  <2>2. \E p : /\ p \notin {HelloRequest, QuitRequest}
               /\ toServer' = Sent(toServer, p)
    <3>1. CASE SendWrite
      <4>1. toServer' = Sent(toServer, Packet(sent))
        BY <3>1 DEF SendWrite, SendFrame
      <4>2. Packet(sent).op = "write"
        BY DEF Packet, WriteRequest
      <4> QED
        BY <1>5, <4>1, <4>2
    <3>2. CASE SendRead
      <4>1. toServer' = Sent(toServer, ReadRequest(job.start, job.n - 1))
        BY <3>2 DEF SendRead
      <4>2. ReadRequest(job.start, job.n - 1).op = "read"
        BY DEF ReadRequest
      <4> QED
        BY <1>5, <4>1, <4>2
    <3> QED
      BY <1>9, <3>1, <3>2
  <2>3. PICK p : /\ p \notin {HelloRequest, QuitRequest}
                 /\ toServer' = Sent(toServer, p)
    BY <2>2
  <2>4. ToServer' \subseteq ToServer \cup {p}
    <3>1. toServer \in Seq(Requests \cup {p}) /\ p \in Requests \cup {p}
      BY <1>1
    <3> QED
      BY <1>1, <2>3, <3>1, SentLemma DEF ToServer
  <2>5. HelloReply \notin Replied
        /\ ~(HelloRequest \in ToServer /\ ~srv.logged_in)
    BY <2>1 DEF LoginInv
  <2>6. Replied' = Replied
    BY <2>1 DEF Replied
  <2> QED
    BY <2>1, <2>3, <2>4, <2>5, <2>6 DEF LoginInv
<1>10. CASE SendSingle
  <2>1. /\ UNCHANGED <<job, toClient, queue_length>>
        /\ job.kind \in {"mount", "hello", "quit"} /\ FreeSlots # {}
        /\ frames' = [frames EXCEPT ![FreeSlot(1)] = SinglePacket]
        /\ toServer' = Sent(toServer, SinglePacket)
        /\ pc \in {"send", "full"}
    BY <1>10 DEF SendSingle, SendFrame
  <2>2. /\ SinglePacket = HelloRequest => job.kind = "hello"
        /\ SinglePacket = QuitRequest => job.kind = "quit"
        /\ SinglePacket # NoPacket
    BY <2>1 DEF SinglePacket, HelloRequest, QuitRequest, MountRequest, NoPacket
  <2>3. FreeSlot(1) \in InQueue /\ FreeSlot(1) \in Slots
    BY <1>1, <2>1, WindowLemma, FirstFreeLemma
  <2>4. Unacked' # {}
    BY <1>1, <2>1, <2>2, <2>3 DEF Unacked, InQueue
  <2>5. ToServer' \subseteq ToServer \cup {SinglePacket}
    <3>1. toServer \in Seq(Requests \cup {SinglePacket})
          /\ SinglePacket \in Requests \cup {SinglePacket}
      BY <1>1
    <3> QED
      BY <1>1, <2>1, <3>1, SentLemma DEF ToServer
  <2> QED
    BY <1>1, <1>4, <2>1, <2>2, <2>4, <2>5, QuietLoginLemma
<1>11. ASSUME NEW i \in Arriving(toClient), Receive(i)
       PROVE  LoginInv'
  <2> DEFINE rx == toClient[i]
  <2>1. /\ i \in DOMAIN toClient /\ rx \in Replies
        /\ toClient' = RemoveAt(toClient, i)
        /\ UNCHANGED <<job, jobNo, queue_length, toServer>>
        /\ \/ UNCHANGED frames
           \/ \E k \in Unacked :
                /\ Matches(rx, frames[k])
                /\ frames' = [frames EXCEPT ![k] = NoPacket]
    BY <1>11, ReceiveFacts
  <2>2. Thinned(toClient, toClient') /\ ToServer' = ToServer
    BY <1>1, <2>1, ThinnedLemma DEF ToServer
  <2>3. CASE UNCHANGED frames
    <3>1. Unacked' = Unacked
      BY <2>1, <2>3 DEF Unacked, InQueue
    <3> QED
      BY <1>1, <2>1, <2>2, <3>1, QuietLoginLemma
  <2>4. ASSUME NEW k \in Unacked, Matches(rx, frames[k]),
               frames' = [frames EXCEPT ![k] = NoPacket]
        PROVE  LoginInv'
    <3>1. Replied' \subseteq Replied
      BY <2>2 DEF Thinned, Replied
    <3>2. CASE job.kind = "hello"
      <4>1. k \in Slots /\ frames[k] # NoPacket
        BY <1>1, WindowLemma DEF Unacked
      <4>2. frames[k] = HelloRequest
        BY <3>2, <4>1 DEF FramesInv, SinglePacket
      <4>3. rx \in {HelloReply, QuitReply}
        BY <2>1, <2>4, <4>2, MatchHelloLemma
      <4>4. rx \in Replied
        BY <2>1 DEF Replied, Elements
      <4>5. rx = HelloReply /\ srv.logged_in
        BY <3>2, <4>3, <4>4 DEF LoginInv
      <4>6. HelloReply \notin Replied'
        <5>1. /\ DOMAIN toClient' = 1 .. Len(toClient) - 1
              /\ \A j \in 1 .. Len(toClient) - 1 :
                   toClient'[j] = IF j < i THEN toClient[j] ELSE toClient[j + 1]
          BY <1>1, <2>1, RemoveAtLemma
        <5>2. Len(toClient) \in Nat /\ DOMAIN toClient = 1 .. Len(toClient)
          BY <1>1
        <5>3. ASSUME NEW j \in DOMAIN toClient' PROVE toClient'[j] # HelloReply
          <6> DEFINE m == IF j < i THEN j ELSE j + 1
          <6>1. m \in DOMAIN toClient /\ m # i /\ toClient'[j] = toClient[m]
            BY <2>1, <5>1, <5>2
          <6> QED
            BY <2>1, <4>5, <6>1 DEF LoginInv
        <5>4. srv.send_buf # HelloReply
          BY <2>1, <4>5 DEF LoginInv
        <5> QED
          BY <5>3, <5>4 DEF Replied, Elements
      <4>7. \A j \in DOMAIN toClient' : toClient'[j] # HelloReply
        BY <4>6 DEF Replied, Elements
      <4> QED
        BY <2>1, <2>2, <3>1, <4>5, <4>6, <4>7 DEF LoginInv
    <3>3. CASE job.kind # "hello"
      <4>1. HelloReply \notin Replied
            /\ ~(HelloRequest \in ToServer /\ ~srv.logged_in)
        BY <3>3 DEF LoginInv
      <4>2. HelloReply \notin Replied'
        BY <3>1, <4>1
      <4>3. \A j \in DOMAIN toClient' : toClient'[j] # HelloReply
        BY <4>2 DEF Replied, Elements
      <4> QED
        BY <2>1, <2>2, <3>1, <4>1, <4>2, <4>3 DEF LoginInv
    <3> QED
      BY <3>2, <3>3
  <2> QED
    BY <2>1, <2>3, <2>4
<1>12. CASE Resend
  <2>1. /\ Unacked # {} /\ toServer' = Sent(toServer, Oldest)
        /\ UNCHANGED <<clientVars, toClient>>
    BY <1>12 DEF Resend
  <2>2. PICK k \in Slots : Oldest = frames[k] /\ frames[k] # NoPacket
    BY <1>1, <2>1, OldestLemma
  <2>3. Oldest \in Requests
    BY <1>1, <2>2
  <2>4. /\ Oldest = HelloRequest => job.kind = "hello"
        /\ Oldest = QuitRequest => job.kind = "quit"
    <3>1. job.kind \in {"hello", "write", "read", "mount", "quit"}
      <4>1. pc \in {"send", "full", "drain"}
        BY <2>2 DEF FramesInv
      <4>2. job \in Jobs
        BY <1>1, <4>1 DEF JobInv
      <4> QED
        BY <4>2, JobsAssumption
    <3>2. CASE job.kind = "write"
      <4>1. Oldest.op = "write"
        <5>1. \E i \in 0 .. sent - 1 : Oldest = Packet(i)
          BY <2>2, <3>2 DEF FramesInv
        <5>2. \A i : Packet(i).op = "write"
          BY DEF Packet, WriteRequest
        <5> QED
          BY <5>1, <5>2
      <4> QED
        BY <1>5, <4>1
    <3>3. CASE job.kind = "read"
      BY <1>5, <2>2, <3>3 DEF FramesInv
    <3>4. CASE job.kind \in {"mount", "hello", "quit"}
      <4>1. Oldest = SinglePacket
        BY <2>2, <3>4 DEF FramesInv
      <4> QED
        BY <3>4, <4>1 DEF SinglePacket, HelloRequest, QuitRequest, MountRequest
    <3> QED
      BY <3>1, <3>2, <3>3, <3>4
  <2>5. ToServer' \subseteq ToServer \cup {Oldest}
    BY <1>3, <2>1, <2>3
  <2>6. job' = job /\ Unacked' = Unacked
    BY <2>1 DEF clientVars, Unacked, InQueue
  <2>7. Thinned(toClient, toClient')
    BY <1>4, <2>1
  <2> QED
    BY <1>1, <2>1, <2>4, <2>5, <2>6, <2>7, QuietLoginLemma
<1>13. ~SkipPacket /\ ~GiveUp
  BY DEF SkipPacket, GiveUp
<1> QED
  BY <1>6, <1>7, <1>8, <1>9, <1>10, <1>11, <1>12, <1>13
  DEF ClientStep, ClientWork-----------------------------------------------------------------------------
(* The client keeps in step with the MEGA65                                 *)

\* Between two write jobs nothing of the next batch is about.
LEMMA IdleLemma ==
  ASSUME CoreInv, BatchesInv, ~Writing
  PROVE  /\ srv.current_batch_counter # write_batch_counter
         /\ ~srv.write_batch_active
         /\ \A p \in Writes : ~OfBatch(p)
         /\ \A a \in Acks : ~OfBatch(a)
<1>1. srv.current_batch_counter # write_batch_counter
  BY DEF CoreInv, BatchInv, InJob
<1>2. \A p \in Writes : ~OfBatch(p)
  BY DEF CoreInv, PacketsInv, IsCurrent, OfBatch
<1> QED
  BY <1>1, <1>2 DEF BatchesInv, RequestsInv, AcksInv

\* What a client does that has sent nothing of the next batch yet.
LEMMA IdleStepLemma ==
  ASSUME CoreInv, BatchesInv, ~Writing,
         UNCHANGED <<srv, write_batch_counter>>, Writing' => sent' = 0,
         Elements(toClient') \subseteq Elements(toClient),
         \A p \in ToServer' : p \in ToServer \/ p.op # "write"
  PROVE  BatchesInv'
<1>1. /\ srv.current_batch_counter # write_batch_counter
      /\ ~srv.write_batch_active
      /\ \A p \in Writes : ~OfBatch(p)
      /\ \A a \in Acks : ~OfBatch(a)
  BY IdleLemma
<1>2. \A p : OfBatch(p)' = OfBatch(p)
  BY DEF OfBatch
<1>3. Previous' = Previous
  BY DEF Previous
<1>4. \A p \in ToServer' : ~OfBatch(p)
  BY <1>1 DEF Writes, OfBatch
<1>5. Acks' \subseteq Acks
  BY DEF Acks, Replied
<1>6. RequestsInv'
  <2>1. \A i \in DOMAIN toServer' : ~OfBatch(toServer'[i])
    BY <1>4 DEF ToServer, Elements
  <2>2. \A p \in ToServer' : p.op = "write" =>
          p.counter \in {write_batch_counter, srv.current_batch_counter}
    BY DEF BatchesInv, RequestsInv
  <2> QED
    BY <1>1, <1>2, <1>3, <2>1, <2>2 DEF BatchesInv, RequestsInv
<1>7. AcksInv'
  <2>1. \A a \in Acks' : ~OfBatch(a) /\ a.counter \in {write_batch_counter, Previous}
    BY <1>1, <1>5 DEF BatchesInv, AcksInv
  <2>2. \A i \in DOMAIN toClient' : ~OfBatch(toClient'[i])
    BY <2>1 DEF Acks, Replied, Elements, OfBatch
  <2>3. Writing' => 0 .. sent' - 1 = {}
    OBVIOUS
  <2> QED
    BY <1>2, <1>3, <2>1, <2>2, <2>3 DEF AcksInv
<1>8. CardInv(srv)' /\ LastAckInv'
  BY <1>1 DEF CardInv, LastAckInv
<1> QED
  BY <1>6, <1>7, <1>8 DEF BatchesInv

\* Packets that are lost, and waits that begin.
LEMMA ThinnedStepLemma ==
  ASSUME CoreInv, BatchesInv,
         UNCHANGED <<srv, job, jobNo, sent, frames, write_batch_counter>>,
         Writing' = Writing,
         Thinned(toServer, toServer'), Thinned(toClient, toClient')
  PROVE  BatchesInv'
<1>1. /\ \A p : OfBatch(p)' = OfBatch(p)
      /\ \A i : OnItsWay(i)' = OnItsWay(i)
      /\ \A i : Stored(srv, i)' = Stored(srv, i)
      /\ CardInv(srv)' = CardInv(srv) /\ Previous' = Previous
  BY DEF OfBatch, OnItsWay, Packet, Stored, CardInv, Previous
<1>2. ToServer' \subseteq ToServer /\ Acks' \subseteq Acks
  BY DEF Thinned, ToServer, Acks, Replied
<1>3. RequestsInv'
  <2>1. ASSUME NEW i \in DOMAIN toServer', NEW j \in DOMAIN toServer', i < j,
               OfBatch(toServer'[i])
        PROVE  OfBatch(toServer'[j])
    <3>1. PICK k, l \in DOMAIN toServer :
            k < l /\ toServer'[i] = toServer[k] /\ toServer'[j] = toServer[l]
      BY <2>1 DEF Thinned
    <3> QED
      BY <2>1, <3>1 DEF BatchesInv, RequestsInv
  <2> QED
    BY <1>1, <1>2, <2>1 DEF BatchesInv, RequestsInv
<1>4. \A i \in DOMAIN toClient' : \E k \in DOMAIN toClient :
        toClient'[i] = toClient[k]
  BY DEF Thinned, Elements
<1>5. AcksInv'
  <2>1. ASSUME NEW i \in DOMAIN toClient', NEW j \in DOMAIN toClient', i < j,
               OfBatch(toClient'[i]), toClient'[j].op = "write"
        PROVE  OfBatch(toClient'[j])
    <3>1. PICK k, l \in DOMAIN toClient :
            k < l /\ toClient'[i] = toClient[k] /\ toClient'[j] = toClient[l]
      BY <2>1 DEF Thinned
    <3> QED
      BY <2>1, <3>1 DEF BatchesInv, AcksInv
  <2>2. \A i \in DOMAIN toClient' :
          OfBatch(toClient'[i]) /\ srv.send_buf.op = "write" =>
            OfBatch(srv.send_buf)
    BY <1>4 DEF BatchesInv, AcksInv
  <2> QED
    BY <1>1, <1>2, <2>1, <2>2 DEF BatchesInv, AcksInv
<1>6. LastAckInv'
  BY <1>1, <1>4 DEF BatchesInv, LastAckInv
<1> QED
  BY <1>1, <1>3, <1>5, <1>6 DEF BatchesInv

\* A request of the batch at hand is sent, for the first time or again.
LEMMA SendsRequestLemma ==
  ASSUME RequestsInv, toServer \in Seq(Requests), Len(toServer) <= Capacity,
         NEW p \in Requests, OfBatch(p), toServer' = Sent(toServer, p),
         UNCHANGED <<srv, write_batch_counter>>
  PROVE  RequestsInv'
<1>1. /\ \A q : OfBatch(q)' = OfBatch(q)
      /\ Previous' = Previous
  BY DEF OfBatch, Previous
<1>2. ToServer' \subseteq ToServer \cup {p}
  BY SentLemma DEF ToServer
<1>3. p.counter = write_batch_counter
  BY DEF OfBatch
<1>4. ASSUME NEW i \in DOMAIN toServer', NEW j \in DOMAIN toServer', i < j,
             OfBatch(toServer'[i])
      PROVE  OfBatch(toServer'[j])
  <2>1. /\ i \in DOMAIN toServer /\ toServer'[i] = toServer[i]
        /\ (j \in DOMAIN toServer /\ toServer'[j] = toServer[j])
             \/ toServer'[j] = p
    BY <1>4, SentLastLemma
  <2> QED
    BY <1>4, <2>1 DEF RequestsInv
<1> QED
  BY <1>1, <1>2, <1>3, <1>4 DEF RequestsInv

\* The next packet of the batch is sent.
LEMMA SendWriteBatchesLemma ==
  ASSUME CoreInv, BatchesInv, SendWrite, UNCHANGED srv
  PROVE  BatchesInv'
<1>1. /\ TypeOK /\ WindowInv /\ JobInv
      /\ toServer \in Seq(Requests) /\ Len(toServer) <= Capacity
      /\ frames \in [Slots -> Requests \cup {NoPacket}]
  BY DEF CoreInv, TypeOK
<1>2. /\ pc \in {"send", "full"} /\ job.kind = "write" /\ FreeSlots # {}
      /\ frames' = [frames EXCEPT ![FreeSlot(1)] = Packet(sent)]
      /\ toServer' = Sent(toServer, Packet(sent))
      /\ sent' = sent + 1 /\ pc' \in {"send", "drain"}
      /\ UNCHANGED <<jobNo, job, write_batch_counter, toClient>>
  BY DEF SendWrite, SendFrame
<1>3. job \in Jobs /\ jobNo \in JobNumbers /\ sent < job.n
  BY <1>1, <1>2 DEF JobInv
<1>4. sent \in Nat /\ sent \in 0 .. job.n - 1
  <2>1. sent \in 0 .. MaxBatch /\ MaxBatch \in Nat /\ job.n \in Nat
    BY <1>1, <1>3, SizesLemma, JobLemma DEF TypeOK
  <2> QED
    BY <1>3, <2>1
<1>5. Packet(sent) \in Requests /\ OfBatch(Packet(sent))
  BY <1>1, <1>2, <1>3, <1>4, PacketLemma DEF OfBatch
<1>6. Writing /\ Writing'
  BY <1>2 DEF Writing
<1>7. /\ \A p : OfBatch(p)' = OfBatch(p)
      /\ \A i : Stored(srv, i)' = Stored(srv, i)
      /\ \A i : Packet(i)' = Packet(i)
      /\ CardInv(srv)' = CardInv(srv) /\ Previous' = Previous
  BY <1>2 DEF OfBatch, Packet, Stored, CardInv, Previous
<1>8. FreeSlot(1) \in Slots /\ frames[FreeSlot(1)] = NoPacket
  BY <1>1, <1>2, WindowLemma, FirstFreeLemma DEF FreeSlots, Unacked
<1>9. \A i : Packet(i).op = "write"
  BY DEF Packet, WriteRequest
<1>10. \A i : OnItsWay(i) => OnItsWay(i)'
  <2>1. ASSUME NEW i, NEW k \in Slots, frames[k] = Packet(i)
        PROVE  frames'[k] = Packet(i)
    <3>1. k # FreeSlot(1)
      BY <1>8, <1>9, <2>1, RequestLemma
    <3> QED
      BY <1>1, <1>2, <2>1, <3>1
  <2> QED
    BY <1>7, <2>1 DEF OnItsWay
<1>11. \A i : i = sent => OnItsWay(i)'
  <2>1. \A i : i = sent => frames'[FreeSlot(1)] = Packet(i)
    BY <1>1, <1>2, <1>8
  <2> QED
    BY <1>7, <1>8, <2>1 DEF OnItsWay
<1>12. RequestsInv'
  BY <1>1, <1>2, <1>5, SendsRequestLemma DEF BatchesInv
<1>13. Acks' = Acks
  BY <1>2 DEF Acks, Replied
<1>14. AcksInv'
  <2>1. ASSUME NEW a \in Acks, OfBatch(a)
        PROVE  a.slot < sent' /\ Stored(srv, a.slot)
    <3>1. a.slot < sent /\ Stored(srv, a.slot)
      BY <2>1 DEF BatchesInv, AcksInv
    <3>2. a.slot \in Nat
      <4>1. a \in Replies
        <5>1. srv.send_buf \in Replies \cup {NoPacket}
              /\ toClient \in Seq(Replies)
          BY <1>1 DEF TypeOK, ServerStates
        <5> QED
          BY <5>1, RequestLemma DEF Acks, Replied, Elements
      <4>2. a.op = "write"
        BY DEF Acks
      <4>3. a.slot \in Indices
        BY <4>1, <4>2 DEF Replies, HelloReply, QuitReply, BrokenReply
      <4> QED
        BY <4>3, NumbersLemma
    <3> QED
      BY <1>2, <1>4, <3>1, <3>2
  <2>2. ASSUME NEW i \in 0 .. sent' - 1, ~OnItsWay(i)'
        PROVE  Stored(srv, i) /\ \A a \in Acks : OfBatch(a)
    <3>1. i # sent
      BY <1>11, <2>2
    <3>2. i \in 0 .. sent - 1
      BY <1>2, <1>4, <2>2, <3>1
    <3>3. ~OnItsWay(i)
      BY <1>10, <2>2
    <3> QED
      BY <1>6, <3>2, <3>3 DEF BatchesInv, AcksInv
  <2>3. /\ \A a \in Acks : a.counter \in {write_batch_counter, Previous}
        /\ \A i, j \in DOMAIN toClient :
             i < j /\ OfBatch(toClient[i]) /\ toClient[j].op = "write" =>
               OfBatch(toClient[j])
        /\ \A i \in DOMAIN toClient :
             OfBatch(toClient[i]) /\ srv.send_buf.op = "write" =>
               OfBatch(srv.send_buf)
    BY DEF BatchesInv, AcksInv
  <2> QED
    BY <1>2, <1>6, <1>7, <1>13, <2>1, <2>2, <2>3 DEF AcksInv
<1>15. LastAckInv'
  <2>1. 0 .. sent - 1 \subseteq 0 .. sent' - 1
    BY <1>2, <1>4
  <2> QED
    BY <1>2, <1>7, <1>10, <2>1 DEF BatchesInv, LastAckInv
<1> QED
  BY <1>7, <1>12, <1>14, <1>15 DEF BatchesInv
\* The acknowledgement of a packet is for the packet it matches.
LEMMA ReceiveBatchesLemma ==
  ASSUME Ordered, CoreInv, FramesInv, BatchesInv, LoginInv, Writing,
         NEW n \in Arriving(toClient), Receive(n), UNCHANGED srv
  PROVE  BatchesInv'
<1> DEFINE rx == toClient[n]
<1>1. /\ TypeOK /\ JobInv /\ toServer \in Seq(Requests)
      /\ toClient \in Seq(Replies)
      /\ frames \in [Slots -> Requests \cup {NoPacket}]
  BY DEF CoreInv, TypeOK
<1>2. /\ n \in DOMAIN toClient /\ n = 1 /\ rx \in Replies
      /\ toClient' = RemoveAt(toClient, n)
      /\ UNCHANGED <<pc, jobNo, job, sent, write_batch_counter, toServer>>
      /\ \/ UNCHANGED frames
         \/ \E k \in Unacked :
              /\ Matches(rx, frames[k])
              /\ frames' = [frames EXCEPT ![k] = NoPacket]
  BY ReceiveFacts DEF Arriving
<1>3. Thinned(toServer, toServer') /\ Thinned(toClient, toClient')
  BY <1>1, <1>2, ThinnedLemma
<1>4. Writing' = Writing
  BY <1>2 DEF Writing
<1>5. CASE UNCHANGED frames
  BY <1>2, <1>3, <1>4, <1>5, ThinnedStepLemma
<1>6. ASSUME NEW k \in Unacked, Matches(rx, frames[k]),
             frames' = [frames EXCEPT ![k] = NoPacket]
      PROVE  BatchesInv'
  <2>1. /\ job.kind = "write" /\ pc \in {"send", "full", "drain"}
        /\ job \in Jobs /\ jobNo \in JobNumbers
    BY <1>1 DEF Writing, FramesInv, JobInv
  <2>2. k \in Slots /\ frames[k] # NoPacket
    BY <1>1, WindowLemma DEF Unacked
  <2>3. PICK i \in 0 .. sent - 1 : frames[k] = Packet(i)
    BY <2>1, <2>2 DEF FramesInv
  <2>4. i \in 0 .. job.n - 1
    <3>1. sent <= job.n
      <4>1. sent < job.n \/ sent = job.n
        BY <1>1, <2>1 DEF JobInv
      <4>2. sent \in 0 .. MaxBatch /\ MaxBatch \in Nat /\ job.n \in Nat
        BY <1>1, <2>1, SizesLemma, JobLemma DEF TypeOK
      <4> QED
        BY <4>1, <4>2
    <3>2. sent \in 0 .. MaxBatch /\ MaxBatch \in Nat /\ job.n \in Nat
      BY <1>1, <2>1, SizesLemma, JobLemma DEF TypeOK
    <3> QED
      BY <3>1, <3>2
  <2>5. rx \in Replied
    BY <1>2 DEF Replied, Elements
  <2>6. rx # HelloReply /\ rx # QuitReply
    BY <2>1, <2>5 DEF LoginInv
  <2>7. rx.op = "write" /\ rx.counter = write_batch_counter /\ rx.slot = i
    <3>1. Matches(rx, Packet(i))
      BY <1>6, <2>3
    <3> HIDE DEF rx
    <3> QED
      BY <1>1, <1>2, <2>1, <2>4, <2>6, <3>1, MatchWriteLemma
  <2>8. OfBatch(rx) /\ rx \in Acks
    BY <2>5, <2>7 DEF OfBatch, Acks
  <2> HIDE DEF rx
  <2>9. Stored(srv, i)
    BY <2>7, <2>8 DEF BatchesInv, AcksInv
  <2>10. /\ \A p : OfBatch(p)' = OfBatch(p)
         /\ \A j : Stored(srv, j)' = Stored(srv, j)
         /\ \A j : Packet(j)' = Packet(j)
         /\ CardInv(srv)' = CardInv(srv) /\ Previous' = Previous
    BY <1>2 DEF OfBatch, Packet, Stored, CardInv, Previous
  <2>11. RequestsInv'
    BY <1>2, <2>10 DEF BatchesInv, RequestsInv, ToServer
  <2>12. Acks' \subseteq Acks
    BY <1>3 DEF Thinned, Acks, Replied
  <2>13. \A a \in Acks' : OfBatch(a)
    <3>1. ASSUME NEW j \in DOMAIN toClient', toClient'[j].op = "write"
          PROVE  OfBatch(toClient'[j])
      <4>1. /\ DOMAIN toClient' = 1 .. Len(toClient) - 1
            /\ \A l \in 1 .. Len(toClient) - 1 :
                 toClient'[l] = IF l < n THEN toClient[l] ELSE toClient[l + 1]
        BY <1>1, <1>2, RemoveAtLemma, ZenonT(60)
      <4>2. j + 1 \in DOMAIN toClient /\ n < j + 1
            /\ toClient'[j] = toClient[j + 1]
        <5>1. Len(toClient) \in Nat /\ DOMAIN toClient = 1 .. Len(toClient)
          BY <1>1
        <5>2. j \in 1 .. Len(toClient) - 1 /\ ~(j < n)
          BY <1>2, <4>1, <5>1
        <5> QED
          BY <1>2, <4>1, <5>1, <5>2
      <4>3. OfBatch(toClient[n])
        BY <2>8 DEF rx
      <4> QED
        BY <1>2, <3>1, <4>2, <4>3 DEF BatchesInv, AcksInv
    <3>2. srv.send_buf.op = "write" => OfBatch(srv.send_buf)
      BY <1>2, <2>8 DEF BatchesInv, AcksInv, rx
    <3> QED
      BY <3>1, <3>2 DEF Acks, Replied, Elements
  <2>14. \A j : OnItsWay(j) /\ j # i => OnItsWay(j)'
    <3>1. ASSUME NEW j, j # i, NEW l \in Slots, frames[l] = Packet(j)
          PROVE  frames'[l] = Packet(j)
      <4>1. Packet(j).slot = j /\ Packet(i).slot = i
        BY DEF Packet, WriteRequest
      <4>2. l # k
        BY <2>3, <3>1, <4>1
      <4> QED
        BY <1>1, <1>6, <3>1, <4>2
    <3> QED
      BY <2>10, <3>1 DEF OnItsWay
  <2>15. AcksInv'
    <3>1. ASSUME NEW j \in 0 .. sent - 1, ~OnItsWay(j)'
          PROVE  Stored(srv, j)
      <4>1. ~OnItsWay(j) \/ j = i
        BY <2>14, <3>1
      <4> QED
        BY <2>9, <4>1 DEF BatchesInv, AcksInv
    <3>2. \A j \in DOMAIN toClient' :
            toClient'[j].op = "write" => OfBatch(toClient'[j])
      BY <2>13 DEF Acks, Replied, Elements
    <3>3. srv.send_buf.op = "write" => OfBatch(srv.send_buf)
      BY <1>2, <2>8 DEF BatchesInv, AcksInv, rx
    <3>4. \A a \in Acks' :
            /\ a.counter \in {write_batch_counter, Previous}
            /\ OfBatch(a) => Writing /\ a.slot < sent /\ Stored(srv, a.slot)
      BY <2>12 DEF BatchesInv, AcksInv
    <3> QED
      BY <1>2, <1>4, <2>10, <2>13, <3>1, <3>2, <3>3, <3>4 DEF AcksInv
  <2>16. LastAckInv'
    <3>1. CASE srv.write_batch_active /\ srv.batch_left = 0
      <4>1. /\ srv.send_buf.op = "write"
            /\ OnItsWay(srv.send_buf.slot)
            /\ srv.send_buf.slot \in 0 .. sent - 1
            /\ \A j \in DOMAIN toClient :
                 OfBatch(toClient[j]) => toClient[j].slot # srv.send_buf.slot
        BY <3>1 DEF BatchesInv, LastAckInv
      <4>2. srv.send_buf.slot # i
        BY <1>2, <2>7, <2>8, <4>1 DEF rx
      <4>3. \A j : j = srv.send_buf.slot => OnItsWay(j)'
        BY <2>14, <4>1, <4>2
      <4>4. \A j \in DOMAIN toClient' : \E l \in DOMAIN toClient :
              toClient'[j] = toClient[l]
        BY <1>3 DEF Thinned, Elements
      <4> QED
        BY <1>2, <2>10, <4>1, <4>3, <4>4 DEF LastAckInv
    <3>2. CASE ~(srv.write_batch_active /\ srv.batch_left = 0)
      BY <3>2 DEF LastAckInv
    <3> QED
      BY <3>1, <3>2
  <2> QED
    BY <2>10, <2>11, <2>15, <2>16 DEF BatchesInv
<1> QED
  BY <1>2, <1>5, <1>6

\* At the end of a write job the MEGA65 has the whole batch, is done with it,
\* and nothing is about that carries another counter.
LEMMA FinishBatchesLemma ==
  ASSUME ~MayTimeOut, CoreInv, FramesInv, BatchesInv, FinishJob,
         job.kind = "write", UNCHANGED srv
  PROVE  /\ \A p \in Writes : p.counter # write_batch_counter'
         /\ srv.current_batch_counter # write_batch_counter'
         /\ BatchesInv'
<1>1. TypeOK /\ JobInv /\ InJob(srv) /\ Accounts(srv) /\ srv \in ServerStates
  BY DEF CoreInv, BatchInv, ServerInv
<1>2. /\ pc = "drain" /\ Unacked = {} /\ pc' = "ready"
      /\ write_batch_counter' = (write_batch_counter + 1) % BatchMod
      /\ UNCHANGED <<job, toServer, toClient, frames>>
  BY DEF FinishJob, AllAcked, linkVars
<1>3. \A k \in Slots : frames[k] = NoPacket
  BY <1>1, <1>2, NoFramesLemma
<1>4. \A i : ~OnItsWay(i)
  <2>1. \A i : Packet(i).op = "write"
    BY DEF Packet, WriteRequest
  <2> QED
    BY <1>3, <2>1, RequestLemma DEF OnItsWay
<1>5. job \in Jobs /\ sent = job.n /\ job.n \in Nat /\ job.n >= 1
  BY <1>1, <1>2, JobLemma DEF JobInv
<1>6. Writing
  BY <1>2 DEF Writing
<1>7. /\ \A i \in 0 .. job.n - 1 : Stored(srv, i)
      /\ \A a \in Acks : OfBatch(a)
  <2>1. \A i \in 0 .. sent - 1 : Stored(srv, i) /\ \A a \in Acks : OfBatch(a)
    BY <1>4, <1>6 DEF BatchesInv, AcksInv
  <2>2. 0 \in 0 .. sent - 1
    BY <1>5
  <2> QED
    BY <1>5, <2>1, <2>2
<1>8. srv.current_batch_counter = write_batch_counter
  <2>1. 0 \in 0 .. job.n - 1
    BY <1>5
  <2> QED
    BY <1>7, <2>1 DEF Stored
<1>9. ~srv.write_batch_active
  <2>1. CASE job.n = 1
    BY <1>1, <1>8, <2>1 DEF InJob
  <2>2. CASE job.n # 1
    <3>1. srv.write_batch_max_id = job.n - 1
      BY <1>1, <1>8, <2>2 DEF InJob
    <3>2. 0 .. job.n - 1 \subseteq srv.slot_ids_received
      BY <1>7, <2>2 DEF Stored
    <3>3. (0 .. srv.write_batch_max_id) \ srv.slot_ids_received = {}
      BY <3>1, <3>2
    <3>4. srv.write_batch_active => srv.batch_left = 0
      BY <1>1, <3>3, FS_EmptySet DEF Accounts
    <3>5. srv.write_batch_active /\ srv.batch_left = 0 =>
            OnItsWay(srv.send_buf.slot)
      BY DEF BatchesInv, LastAckInv
    <3> QED
      BY <1>4, <3>4, <3>5
  <2> QED
    BY <2>1, <2>2
<1>10. /\ write_batch_counter' # write_batch_counter
       /\ Previous' = write_batch_counter
  BY <1>1, <1>2, CounterLemma DEF Previous
<1>11. \A p \in ToServer : OfBatch(p)
  BY <1>8 DEF BatchesInv, RequestsInv
<1>12. \A p \in Writes : p.counter = write_batch_counter
  BY <1>3, <1>11, RequestLemma DEF Writes, OfBatch
<1>13. /\ ToServer' = ToServer /\ Acks' = Acks
  BY <1>2 DEF ToServer, Acks, Replied
<1>14. /\ \A p \in ToServer : p.counter = write_batch_counter /\ ~OfBatch(p)'
       /\ \A a \in Acks : a.counter = write_batch_counter /\ ~OfBatch(a)'
  BY <1>7, <1>10, <1>11 DEF OfBatch
<1>15. RequestsInv'
  <2>1. \A i \in DOMAIN toServer : ~OfBatch(toServer[i])'
    <3>1. \A i \in DOMAIN toServer : toServer[i] \in ToServer
      BY DEF ToServer, Elements
    <3> QED
      BY <1>2, <1>14, <3>1 DEF OfBatch
  <2> QED
    BY <1>2, <1>8, <1>9, <1>10, <1>13, <1>14, <2>1 DEF RequestsInv
<1>16. AcksInv'
  <2>1. \A i \in DOMAIN toClient : ~OfBatch(toClient[i])'
    <3>1. ASSUME NEW i \in DOMAIN toClient, toClient[i].op = "write"
          PROVE  toClient[i] \in Acks
      BY <3>1 DEF Acks, Replied, Elements
    <3> QED
      BY <1>2, <1>14, <3>1 DEF OfBatch
  <2>2. ~Writing'
    BY <1>2 DEF Writing
  <2> QED
    BY <1>2, <1>10, <1>13, <1>14, <2>1, <2>2 DEF AcksInv
<1>17. CardInv(srv)' /\ LastAckInv'
  BY <1>8, <1>9, <1>10 DEF CardInv, LastAckInv
<1> QED
  BY <1>8, <1>10, <1>12, <1>15, <1>16, <1>17 DEF BatchesInv
\* Every step of the client.
LEMMA ClientBatchesLemma ==
  ASSUME Ordered, ~MayTimeOut, CoreInv, FramesInv, BatchesInv, LoginInv,
         ClientStep, UNCHANGED srv
  PROVE  BatchesInv'
<1>1. /\ TypeOK /\ WindowInv /\ JobInv
      /\ toServer \in Seq(Requests) /\ Len(toServer) <= Capacity
      /\ toClient \in Seq(Replies)
      /\ frames \in [Slots -> Requests \cup {NoPacket}]
  BY DEF CoreInv, TypeOK
<1>2. Thinned(toServer, toServer) /\ Thinned(toClient, toClient)
  BY <1>1, ThinnedLemma
<1>3. ASSUME NEW j \in Jobs, StartJob(j)
      PROVE  BatchesInv'
  <2>1. /\ pc = "ready" /\ pc' = "clear"
        /\ UNCHANGED <<write_batch_counter, toServer, toClient>>
    BY <1>3 DEF StartJob, linkVars
  <2>2. ~Writing /\ ~Writing' /\ ToServer' = ToServer
    BY <2>1 DEF Writing, ToServer
  <2> QED
    BY <2>1, <2>2, IdleStepLemma
<1>4. CASE BeginSending
  <2>1. /\ pc = "clear" /\ sent = 0 /\ sent' = sent
        /\ UNCHANGED <<write_batch_counter, toServer, toClient>>
    BY <1>4 DEF BeginSending, FramesInv, linkVars
  <2>2. ~Writing /\ ToServer' = ToServer
    BY <2>1 DEF Writing, ToServer
  <2> QED
    BY <2>1, <2>2, IdleStepLemma
<1>5. CASE WindowFull
  <2>1. /\ pc = "send" /\ pc' = "full"
        /\ UNCHANGED <<job, jobNo, sent, frames, write_batch_counter,
                       toServer, toClient>>
    BY <1>5 DEF WindowFull, linkVars
  <2>2. Writing' = Writing
    BY <2>1 DEF Writing
  <2> QED
    BY <1>2, <2>1, <2>2, ThinnedStepLemma
<1>6. CASE SendWrite
  BY <1>6, SendWriteBatchesLemma
<1>7. CASE SendRead \/ SendSingle
  <2>1. /\ job.kind # "write"
        /\ UNCHANGED <<job, write_batch_counter, toClient>>
    BY <1>7 DEF SendRead, SendSingle
  <2>2. ~Writing /\ ~Writing'
    BY <2>1 DEF Writing
  <2>3. \E p : p.op # "write" /\ toServer' = Sent(toServer, p)
    <3>1. CASE SendRead
      <4>1. toServer' = Sent(toServer, ReadRequest(job.start, job.n - 1))
        BY <3>1 DEF SendRead
      <4>2. ReadRequest(job.start, job.n - 1).op # "write"
        BY DEF ReadRequest
      <4> QED
        BY <4>1, <4>2
    <3>2. CASE SendSingle
      <4>1. toServer' = Sent(toServer, SinglePacket)
            /\ job.kind \in {"mount", "hello", "quit"}
        BY <3>2 DEF SendSingle, SendFrame
      <4>2. SinglePacket.op # "write"
        BY <4>1 DEF SinglePacket, MountRequest, HelloRequest, QuitRequest
      <4> QED
        BY <4>1, <4>2
    <3> QED
      BY <1>7, <3>1, <3>2
  <2>4. PICK p : p.op # "write" /\ toServer' = Sent(toServer, p)
    BY <2>3
  <2>5. ToServer' \subseteq ToServer \cup {p}
    <3>1. toServer \in Seq(Requests \cup {p}) /\ p \in Requests \cup {p}
      BY <1>1
    <3> QED
      BY <1>1, <2>4, <3>1, SentLemma DEF ToServer
  <2> QED
    BY <2>1, <2>2, <2>4, <2>5, IdleStepLemma
<1>8. CASE FinishJob
  <2>1. CASE job.kind = "write"
    BY <1>8, <2>1, FinishBatchesLemma
  <2>2. CASE job.kind # "write"
    <3>1. /\ UNCHANGED <<job, write_batch_counter, toServer, toClient>>
      BY <1>8, <2>2 DEF FinishJob, linkVars
    <3>2. ~Writing /\ ~Writing' /\ ToServer' = ToServer
      BY <2>2, <3>1 DEF Writing, ToServer
    <3> QED
      BY <3>1, <3>2, IdleStepLemma
  <2> QED
    BY <2>1, <2>2
<1>9. ASSUME NEW i \in Arriving(toClient), Receive(i)
      PROVE  BatchesInv'
  <2>1. CASE Writing
    BY <1>9, <2>1, ReceiveBatchesLemma
  <2>2. CASE ~Writing
    <3>1. /\ Elements(toClient') \subseteq Elements(toClient)
          /\ UNCHANGED <<pc, job, write_batch_counter, toServer>>
      BY <1>9, ReceiveFacts
    <3>2. ~Writing' /\ ToServer' = ToServer
      BY <2>2, <3>1 DEF Writing, ToServer
    <3> QED
      BY <2>2, <3>1, <3>2, IdleStepLemma
  <2> QED
    BY <2>1, <2>2
<1>10. CASE Resend
  <2>1. /\ Unacked # {} /\ toServer' = Sent(toServer, Oldest)
        /\ UNCHANGED <<clientVars, toClient>>
    BY <1>10 DEF Resend
  <2>2. PICK k \in Slots : Oldest = frames[k] /\ frames[k] # NoPacket
    BY <1>1, <2>1, OldestLemma
  <2>3. Oldest \in Requests /\ pc \in {"send", "full", "drain"}
    BY <1>1, <2>2 DEF FramesInv
  <2>4. ToServer' \subseteq ToServer \cup {Oldest}
    BY <1>1, <2>1, <2>3, SentLemma DEF ToServer
  <2>5. UNCHANGED <<pc, job, jobNo, sent, frames, write_batch_counter>>
    BY <2>1 DEF clientVars
  <2>6. CASE job.kind = "write"
    <3>1. OfBatch(Oldest)
      <4>1. \E i \in 0 .. sent - 1 : Oldest = Packet(i)
        BY <2>2, <2>6 DEF FramesInv
      <4>2. \A i : OfBatch(Packet(i))
        BY DEF Packet, WriteRequest, OfBatch
      <4> QED
        BY <4>1, <4>2
    <3>2. RequestsInv'
      BY <1>1, <2>1, <2>3, <2>5, <3>1, SendsRequestLemma DEF BatchesInv
    <3>3. /\ \A p : OfBatch(p)' = OfBatch(p)
          /\ \A i : OnItsWay(i)' = OnItsWay(i)
          /\ \A i : Stored(srv, i)' = Stored(srv, i)
          /\ CardInv(srv)' = CardInv(srv) /\ Previous' = Previous
          /\ Acks' = Acks /\ Writing' = Writing
      BY <2>1, <2>5 DEF OfBatch, OnItsWay, Packet, Stored, CardInv, Previous,
                        Acks, Replied, Writing
    <3>4. AcksInv' /\ LastAckInv'
      BY <2>1, <2>5, <3>3 DEF BatchesInv, AcksInv, LastAckInv
    <3> QED
      BY <3>2, <3>3, <3>4 DEF BatchesInv
  <2>7. CASE job.kind # "write"
    <3>1. Oldest.op # "write"
      <4>1. job.kind \in {"hello", "read", "mount", "quit"}
        BY <1>1, <2>3, <2>7, JobsAssumption DEF JobInv
      <4>2. SinglePacket.op # "write" \/ job.kind = "read"
        BY <4>1 DEF SinglePacket, MountRequest, HelloRequest, QuitRequest
      <4> QED
        BY <2>2, <4>1, <4>2 DEF FramesInv
    <3>2. ~Writing /\ ~Writing'
      BY <2>5, <2>7 DEF Writing
    <3> QED
      BY <2>1, <2>4, <2>5, <3>1, <3>2, IdleStepLemma
  <2> QED
    BY <2>6, <2>7
<1>11. ~SkipPacket /\ ~GiveUp
  BY DEF SkipPacket, GiveUp
<1> QED
  BY <1>3, <1>4, <1>5, <1>6, <1>7, <1>8, <1>9, <1>10, <1>11
  DEF ClientStep, ClientWork

-----------------------------------------------------------------------------
(* The theorems for a link that keeps the order                             *)

\* The invariant of the ordered link holds when both programs start.
LEMMA OrderedInitLemma ==
  ASSUME Init
  PROVE  OrderedInv
<1>1. /\ srv.current_batch_counter = BatchMod - 1 /\ ~srv.write_batch_active
      /\ srv.send_buf = NoPacket /\ srv.state = "running"
      /\ write_batch_counter = 0 /\ pc = "ready"
      /\ toServer = <<>> /\ toClient = <<>>
  BY DEF Init, LinkInit, ClientInit, ServerInit
<1>2. ToServer = {} /\ Replied = {NoPacket} /\ Acks = {}
  BY <1>1 DEF ToServer, Replied, Elements, Acks, NoPacket
<1>3. BatchMod - 1 # 0 /\ (0 - 1) % BatchMod = BatchMod - 1
  <2>1. BatchMod \in Nat /\ BatchMod >= 2
    BY SizesLemma
  <2> QED
    BY <2>1
<1>4. RequestsInv /\ CardInv(srv) /\ AcksInv /\ LastAckInv
  <2>1. ~Writing
    BY <1>1 DEF Writing
  <2> QED
    BY <1>1, <1>2, <1>3, <2>1 DEF RequestsInv, CardInv, AcksInv, LastAckInv,
                                  Previous
<1>5. LoginInv
  <2>1. NoPacket # HelloReply /\ NoPacket # QuitReply
    BY DEF NoPacket, HelloReply, QuitReply
  <2> QED
    BY <1>1, <1>2, <2>1 DEF LoginInv
<1> QED
  BY <1>1, <1>4, <1>5, FramesInitLemma DEF OrderedInv, BatchesInv, NoFatal

\* In order and without abandoned waits every step keeps the invariant, whether
\* or not the batch counter comes round.
LEMMA OrderedStepLemma ==
  ASSUME Ordered, ~MayTimeOut, CoreInv, OrderedInv, [Next]_vars
  PROVE  CoreInv' /\ OrderedInv'
<1>1. FramesInv /\ BatchesInv /\ LoginInv /\ NoFatal
  BY DEF OrderedInv
<1>2. FinishJob /\ job.kind = "write" =>
        /\ \A p \in Writes : p.counter # write_batch_counter'
        /\ srv.current_batch_counter # write_batch_counter'
  <2> SUFFICES ASSUME FinishJob, job.kind = "write"
               PROVE  /\ \A p \in Writes : p.counter # write_batch_counter'
                      /\ srv.current_batch_counter # write_batch_counter'
    OBVIOUS
  <2>1. pc' # pc
    BY DEF FinishJob
  <2>2. UNCHANGED srv
    BY <2>1 DEF Next, Client, Server, Network, vars, clientVars
  <2> QED
    BY <1>1, <2>2, FinishBatchesLemma
<1>3. CoreInv'
  BY <1>2, StepLemma
<1>4. FramesInv'
  BY <1>1, FramesStepLemma
<1>5. BatchesInv' /\ LoginInv' /\ NoFatal'
  <2>1. CASE Client
    <3>1. ClientStep /\ UNCHANGED srv
      BY <2>1 DEF Client
    <3>2. TypeOK'
      BY <1>3 DEF CoreInv
    <3> QED
      BY <1>1, <3>1, <3>2, ClientBatchesLemma, ClientLoginLemma DEF NoFatal
  <2>2. CASE Server
    BY <1>1, <2>2, ServerBatchesLemma, ServerLoginStepLemma DEF Server
  <2>3. ASSUME UNCHANGED <<clientVars, srv>>,
               Thinned(toServer, toServer'), Thinned(toClient, toClient')
        PROVE  BatchesInv' /\ LoginInv' /\ NoFatal'
    <3>1. /\ UNCHANGED <<srv, job, jobNo, sent, frames, write_batch_counter>>
          /\ Writing' = Writing /\ Unacked' = Unacked
      BY <2>3 DEF clientVars, Writing, Unacked, InQueue
    <3>2. ToServer' \subseteq ToServer
      BY <2>3 DEF Thinned, ToServer
    <3>3. toClient \in Seq(Replies) /\ toClient' \in Seq(Replies)
      BY <1>3 DEF CoreInv, TypeOK
    <3> QED
      BY <1>1, <2>3, <3>1, <3>2, <3>3, ThinnedStepLemma, QuietLoginLemma
      DEF NoFatal
  <2>4. toServer \in Seq(Requests) /\ toClient \in Seq(Replies)
    BY DEF CoreInv, TypeOK
  <2>5. CASE Network
    <3>1. /\ UNCHANGED <<clientVars, srv>>
          /\ Thinned(toServer, toServer') /\ Thinned(toClient, toClient')
      BY <2>4, <2>5, ThinnedLemma DEF Network, LosePacket
    <3> QED
      BY <2>3, <3>1
  <2>6. CASE UNCHANGED vars
    <3>1. /\ UNCHANGED <<clientVars, srv>>
          /\ Thinned(toServer, toServer') /\ Thinned(toClient, toClient')
      BY <2>4, <2>6, ThinnedLemma DEF vars, linkVars
    <3> QED
      BY <2>3, <3>1
  <2> QED
    BY <2>1, <2>2, <2>5, <2>6 DEF Next
<1> QED
  BY <1>3, <1>4, <1>5 DEF OrderedInv

\* On such a link, without timeouts, the invariants hold in every run.
LEMMA OrderedLemma ==
  ASSUME Ordered, ~MayTimeOut
  PROVE  Spec => [](CoreInv /\ OrderedInv)
<1>1. Init => CoreInv /\ OrderedInv
  BY InitLemma, OrderedInitLemma
<1>2. CoreInv /\ OrderedInv /\ [Next]_vars => (CoreInv /\ OrderedInv)'
  BY OrderedStepLemma
<1> QED
  BY <1>1, <1>2, PTL DEF Spec
\* With fewer jobs than counters they hold whatever the link does.
LEMMA FewLemma ==
  ASSUME Few
  PROVE  Spec => [](CoreInv /\ FewInv)
<1>1. Init => CoreInv /\ FewInv
  <2> SUFFICES ASSUME Init PROVE CoreInv /\ FewInv
    OBVIOUS
  <2>1. Writes = {}
    BY DEF Init, LinkInit, ClientInit, Writes, ToServer, Elements, NoPacket
  <2>2. FewInv
    BY <2>1 DEF FewInv, Init, ClientInit, ServerInit
  <2> QED
    BY <2>2, InitLemma
<1>2. CoreInv /\ FewInv /\ [Next]_vars => (CoreInv /\ FewInv)'
  BY FewStepLemma
<1> QED
  BY <1>1, <1>2, PTL DEF Spec

\* The variables keep their types: what is left of a batch does not run under
\* zero, and what is written of it not past its end (batch_left, slots_written
\* and write_batch_max_id of remotesd_eth.c).
THEOREM TypeTheorem ==
  ASSUME Few \/ (Ordered /\ ~MayTimeOut)
  PROVE  Spec => []TypeOK
<1>1. CASE Few
  <2>1. CoreInv => TypeOK
    BY DEF CoreInv
  <2> QED
    BY <1>1, <2>1, FewLemma, PTL
<1>2. CASE Ordered /\ ~MayTimeOut
  <2>1. CoreInv => TypeOK
    BY DEF CoreInv
  <2> QED
    BY <1>2, <2>1, OrderedLemma, PTL
<1> QED
  BY <1>1, <1>2

\* Batches do not mix and data lands in the sector it was meant for, whatever
\* packets are lost, late or repeated and whatever waits are given up, as long
\* as the 8-bit batch counter does not come round (handle_batch_write and
\* process of remotesd_eth.c).
THEOREM BatchesStayApartTheorem ==
  ASSUME Few
  PROVE  Spec => []BatchesStayApart
<1>1. CoreInv => BatchesStayApart
  BY DEF CoreInv, BatchInv, ServerInv, Meant, BatchesStayApart,
         BatchAccounting, DataInItsSector
<1> QED
  BY <1>1, FewLemma, PTL

\* The MEGA65 does not stop with a fatal error: no read is mixed into a batch,
\* no counter is outdated, no slot arrives with other data (stop_fatal in
\* remotesd_eth.c).
THEOREM NoFatalTheorem ==
  ASSUME Ordered, ~MayTimeOut
  PROVE  Spec => []NoFatal
<1>1. OrderedInv => NoFatal
  BY DEF OrderedInv
<1> QED
  BY <1>1, OrderedLemma, PTL

\* The client and the MEGA65 are in the same batch or one apart, and batch_left
\* counts what is missing, however often the 8-bit counter comes round
\* (write_batch_counter in mega65_ftp.c, current_batch_counter in
\* remotesd_eth.c).
THEOREM BatchesInStepTheorem ==
  ASSUME Ordered, ~MayTimeOut
  PROVE  Spec => []BatchesInStep
<1>1. CoreInv /\ OrderedInv => BatchesInStep
  <2> SUFFICES ASSUME CoreInv, OrderedInv PROVE BatchesInStep
    OBVIOUS
  <2>1. Accounts(srv)
    BY DEF CoreInv, BatchInv, ServerInv
  <2>2. CountersInStep
    BY DEF OrderedInv, BatchesInv, RequestsInv, Previous, CountersInStep
  <2> QED
    BY <2>1, <2>2 DEF BatchesInStep, BatchAccounting
<1> QED
  BY <1>1, OrderedLemma, PTL

\* A sector of the batch at hand that is acknowledged is in the batch cache of
\* the MEGA65 or on the card (ethernet_match_payloads and check_if_ack of
\* etherload_common.c, multi_sector_write_next of remotesd_eth.c).
THEOREM AckedMeansStoredTheorem ==
  ASSUME Ordered, ~MayTimeOut
  PROVE  Spec => []AckedMeansStored
<1>1. CoreInv /\ OrderedInv => AckedMeansStored
  <2> SUFFICES ASSUME CoreInv, OrderedInv,
                      job.kind = "write", pc \in {"send", "full", "drain"},
                      NEW i \in 0 .. sent - 1, ~OnItsWay(i)
               PROVE  \/ srv.card[job.start + i]
                           = Content(jobNo, job.start + i)
                      \/ /\ srv.write_batch_active
                         /\ srv.current_batch_counter = write_batch_counter
                         /\ i \in srv.slot_ids_received
                         /\ srv.write_cache[i] = Content(jobNo, job.start + i)
    BY DEF AckedMeansStored, OnItsWay
  <2>1. Stored(srv, i)
    <3>1. Writing
      BY DEF Writing
    <3> QED
      BY <3>1 DEF OrderedInv, BatchesInv, AcksInv
  <2>2. srv.current_batch_counter = write_batch_counter /\ InJob(srv)
        /\ CardInv(srv)
    BY <2>1 DEF Stored, CoreInv, BatchInv, OrderedInv, BatchesInv
  <2>3. job \in Jobs /\ sent <= job.n /\ sent \in Nat
    <3>1. job \in Jobs
      BY DEF CoreInv, JobInv
    <3>2. sent < job.n \/ sent = job.n
      BY DEF CoreInv, JobInv
    <3>3. sent \in 0 .. MaxBatch /\ MaxBatch \in Nat /\ job.n \in Nat
      BY <3>1, SizesLemma, JobLemma DEF CoreInv, TypeOK
    <3> QED
      BY <3>1, <3>2, <3>3
  <2>4. CASE job.n = 1
    <3>1. i = 0 /\ job.start \in Nat
      BY <2>3, <2>4, JobLemma
    <3>2. job.start + i = job.start
      BY <3>1
    <3>3. srv.card[job.start] = Content(jobNo, job.start)
      BY <2>1, <2>4 DEF Stored
    <3> QED
      BY <3>2, <3>3
  <2>5. CASE job.n # 1
    <3>1. i \in srv.slot_ids_received
      BY <2>1, <2>5 DEF Stored
    <3>2. /\ srv.sector_number_write = job.start
          /\ srv.write_cache[i] = Content(jobNo, job.start + i)
      BY <2>2, <2>5, <3>1 DEF InJob
    <3>3. ~srv.write_batch_active =>
            srv.card[srv.sector_number_write + i] = srv.write_cache[i]
      BY <2>2, <2>5, <3>1 DEF CardInv
    <3> QED
      BY <2>2, <3>1, <3>2, <3>3
  <2> QED
    BY <2>4, <2>5
<1> QED
  BY <1>1, OrderedLemma, PTL

\* The answer shown for a mount command is the answer to it and not one to an
\* earlier command, whatever packets are late or repeated (mount_file_response
\* in mega65_ftp.c).
THEOREM MountAnsweredTheorem ==
  ASSUME ~MayTimeOut, Few \/ Ordered
  PROVE  Spec => []MountAnswered
<1>1. Init => FramesInv /\ MountInv
  BY FramesInitLemma, MountInitLemma
<1>2. CoreInv /\ FramesInv /\ MountInv /\ [Next]_vars =>
        (FramesInv /\ MountInv)'
  BY FramesStepLemma, MountStepLemma
<1>3. MountInv => MountAnswered
  BY DEF MountInv
<1>4. Spec => []CoreInv
  <2>1. CASE Few
    BY <2>1, FewLemma, PTL
  <2>2. CASE Ordered
    BY <2>2, OrderedLemma, PTL
  <2> QED
    BY <2>1, <2>2
<1> QED
  BY <1>1, <1>2, <1>3, <1>4, PTL DEF Spec

-----------------------------------------------------------------------------
(* Refinement: mega65_ftp and remotesd_eth together implement a disk that     *)
(* executes one job at a time (RemoteDisk), for every batch size, window,     *)
(* number of jobs and card.  Reads are the exception: what one returns may be *)
(* old.                                                                       *)

\* A sector sent by itself is on the card once the MEGA65 has its counter, and
\* a request for it that comes again changes nothing.
SinglesAreIn(s) ==
  /\ Writing /\ job.n = 1 /\ s.current_batch_counter = write_batch_counter =>
       s.card[job.start] = Content(jobNo, job.start)
  /\ \A p \in ToServer :
       p.op = "write" /\ p.last = 0 /\ p.counter = s.current_batch_counter =>
         s.card[p.start] = p.data

SingleInv == SinglesAreIn(srv)

\* From s to t sectors change only to what the job at hand writes there.
OnlyJobData(s, t) ==
  \A x \in Sectors :
    \/ t.card[x] = s.card[x]
    \/ /\ Writing
       /\ x \in job.start .. job.start + job.n - 1
       /\ t.card[x] = Content(jobNo, x)

-----------------------------------------------------------------------------
(* The MEGA65 *)

\* What a job that is being written can be.
LEMMA WritingLemma ==
  ASSUME CoreInv, FramesInv, Writing
  PROVE  /\ job \in Jobs
         /\ job.start \in Nat /\ job.n \in Nat /\ job.n >= 1
         /\ sent \in Nat /\ sent <= job.n
<1>1. pc \in {"send", "full", "drain"} /\ job.kind = "write"
  BY DEF Writing, FramesInv
<1>2. job \in Jobs
  BY <1>1 DEF CoreInv, TypeOK, NoJob
<1>3. job.n \in Nat /\ job.n >= 1
  BY <1>2, JobLemma
<1>4. job.start \in Nat
  BY <1>2, JobsAssumption, NumbersLemma
<1>5. sent \in 0 .. MaxBatch /\ MaxBatch \in Nat
  BY SizesLemma DEF CoreInv, TypeOK
<1>6. sent <= job.n
  BY <1>1, <1>3, <1>5 DEF CoreInv, JobInv
<1> QED
  BY <1>2, <1>3, <1>4, <1>5, <1>6

\* What comes from the batch at hand is what the job writes.
LEMMA JobDataLemma ==
  ASSUME CoreInv, FramesInv, NEW s, NEW t, FromBatch(s, t), InJob(t),
         t.current_batch_counter = write_batch_counter, job.n # 1,
         t.slot_ids_received \subseteq Indices
  PROVE  OnlyJobData(s, t)
<1>1. Writing
  BY DEF InJob
<1>2. /\ job.start \in Nat /\ job.n \in Nat
      /\ sent \in Nat /\ sent <= job.n
  BY <1>1, WritingLemma
<1>3. /\ t.sector_number_write = job.start
      /\ \A i \in t.slot_ids_received :
           i < sent /\ t.write_cache[i] = Content(jobNo, job.start + i)
  BY DEF InJob
<1>4. \A i \in t.slot_ids_received : i \in Nat
  BY NumbersLemma
<1>5. ASSUME NEW x \in Sectors, NEW i \in t.slot_ids_received,
             x = t.sector_number_write + i, t.card[x] = t.write_cache[i]
      PROVE  /\ x \in job.start .. job.start + job.n - 1
             /\ t.card[x] = Content(jobNo, x)
  <2>1. x = job.start + i /\ i < sent /\ i \in Nat
    BY <1>3, <1>4, <1>5
  <2>2. x \in job.start .. job.start + job.n - 1
    BY <1>2, <2>1
  <2> QED
    BY <1>3, <1>5, <2>1, <2>2
<1> QED
  BY <1>1, <1>5 DEF FromBatch, OnlyJobData

\* Finishing a batch puts what the job writes on the card, and leaves single
\* sectors alone.
LEMMA KeepsDataLemma ==
  ASSUME CoreInv, FramesInv, BatchesInv, SingleInv,
         NEW t, ServerInv(t), KeepsBatch(srv, t)
  PROVE  SinglesAreIn(t) /\ OnlyJobData(srv, t)
<1>1. /\ t.current_batch_counter = srv.current_batch_counter
      /\ t.slot_ids_received = srv.slot_ids_received
  BY DEF KeepsBatch
<1>2. CASE srv.write_batch_active /\ srv.batch_left = 0
  <2>1. srv.current_batch_counter = write_batch_counter
    BY <1>2 DEF BatchesInv, RequestsInv
  <2>2. BatchInv(t)
    BY KeepsBatchLemma DEF CoreInv
  <2>3. InJob(srv) /\ InJob(t)
    BY <2>2 DEF CoreInv, BatchInv
  <2>4. job.n # 1
    BY <1>2, <2>1, <2>3 DEF InJob
  <2>5. FromBatch(srv, t)
    BY <1>2 DEF KeepsBatch
  <2>6. t.slot_ids_received \subseteq Indices
    BY DEF ServerInv, ServerStates
  <2>7. OnlyJobData(srv, t)
    BY <1>1, <2>1, <2>3, <2>4, <2>5, <2>6, JobDataLemma
  <2>8. ASSUME NEW p \in ToServer, p.op = "write", p.last = 0,
               p.counter = t.current_batch_counter
        PROVE  FALSE
    <3>1. p \in Writes /\ OfBatch(p)
      BY <1>1, <2>1, <2>8 DEF Writes, OfBatch
    <3>2. p.last = job.n - 1 /\ job.n \in Nat
      BY <3>1, OfBatchLemma
    <3> QED
      BY <2>4, <2>8, <3>2
  <2> QED
    BY <2>4, <2>7, <2>8 DEF SinglesAreIn
<1>3. CASE ~(srv.write_batch_active /\ srv.batch_left = 0)
  <2>1. t.card = srv.card
    BY <1>3 DEF KeepsBatch
  <2> QED
    BY <1>1, <2>1 DEF SingleInv, SinglesAreIn, OnlyJobData
<1> QED
  BY <1>2, <1>3
\* A single sector goes to the card: it is the one of the job at hand, or comes
\* again.
LEMMA TakesSingleLemma ==
  ASSUME CoreInv, FramesInv, BatchesInv, ToServer' \subseteq ToServer,
         NEW c, BatchInv(c), SinglesAreIn(c),
         c.current_batch_counter = srv.current_batch_counter,
         NEW p \in ToServer, p.op = "write", p.last = 0,
         NEW t, t = WriteSingle(c, p)
  PROVE  SinglesAreIn(t) /\ OnlyJobData(c, t)
<1>1. p \in Writes /\ GoodWrite(p)
  BY DEF Writes, CoreInv, PacketsInv
<1>2. c.card \in [Sectors -> Contents]
  BY DEF BatchInv, ServerInv, ServerStates
<1>3. /\ p.slot = 0 /\ p.start \in Sectors /\ p.start \in Nat
  <2>1. p.slot \in Indices /\ p.slot <= 0 /\ p.start \in Sectors
    BY <1>1 DEF GoodWrite
  <2> QED
    BY <2>1, NumbersLemma
<1>4. \/ OnlyChanged(c, t, {"state"})
      \/ /\ OnlyChanged(c, t, {"card", "current_batch_counter", "send_buf"})
         /\ t.current_batch_counter = p.counter
         /\ t.card = [c.card EXCEPT ![p.start] = p.data]
  BY <1>1, WriteSingleLemma DEF BatchInv
<1>5. CASE OnlyChanged(c, t, {"state"})
  <2>1. t.card = c.card /\ t.current_batch_counter = c.current_batch_counter
    BY <1>5 DEF OnlyChanged, Fields
  <2> QED
    BY <2>1 DEF SinglesAreIn, OnlyJobData
<1>6. CASE /\ t.current_batch_counter = p.counter
           /\ t.card = [c.card EXCEPT ![p.start] = p.data]
  <2>1. ASSUME OfBatch(p)
        PROVE  /\ Writing /\ job.n = 1 /\ p.start = job.start
               /\ p.data = Content(jobNo, job.start)
    <3>1. /\ Writing /\ job.n \in Nat /\ p.start = job.start
          /\ p.last = job.n - 1
          /\ p.data = Content(jobNo, job.start + p.slot)
      BY <1>1, <2>1, OfBatchLemma
    <3>2. job.start + p.slot = job.start
      BY <1>3, <3>1
    <3> QED
      BY <3>1, <3>2
  <2>2. t.card[p.start] = p.data
    BY <1>2, <1>3, <1>6
  <2>3. ASSUME NEW q \in ToServer, q.op = "write", q.last = 0,
               q.counter = t.current_batch_counter
        PROVE  t.card[q.start] = q.data
    <3>1. q \in Writes /\ GoodWrite(q) /\ Agree(p, q)
      BY <1>1, <2>3 DEF Writes, CoreInv, PacketsInv
    <3>2. q.slot = 0
      <4>1. q.slot \in Indices /\ q.slot <= 0
        BY <2>3, <3>1 DEF GoodWrite
      <4> QED
        BY <4>1, NumbersLemma
    <3> QED
      BY <1>3, <1>6, <2>2, <2>3, <3>1, <3>2 DEF Agree
  <2>4. Writing /\ t.current_batch_counter = write_batch_counter =>
          t.card[job.start] = Content(jobNo, job.start)
    BY <1>6, <2>1, <2>2 DEF OfBatch
  <2>5. OnlyJobData(c, t)
    <3> SUFFICES ASSUME NEW x \in Sectors, t.card[x] # c.card[x]
                 PROVE  /\ Writing
                        /\ x \in job.start .. job.start + job.n - 1
                        /\ t.card[x] = Content(jobNo, x)
      BY DEF OnlyJobData
    <3>1. x = p.start
      BY <1>2, <1>6
    <3>2. p.counter # c.current_batch_counter
      BY <2>2, <3>1 DEF SinglesAreIn
    <3>3. OfBatch(p)
      BY <3>2 DEF BatchesInv, RequestsInv, OfBatch
    <3> QED
      BY <1>3, <2>1, <2>2, <3>1, <3>3
  <2> QED
    BY <2>3, <2>4, <2>5 DEF SinglesAreIn
<1> QED
  BY <1>4, <1>5, <1>6
\* A packet of a batch: what goes to the card is of the batch.
LEMMA TakesMultiLemma ==
  ASSUME CoreInv, FramesInv,
         NEW c, BatchInv(c), SinglesAreIn(c), ~c.read_batch_active,
         NEW p \in ToServer, p.op = "write", p.last # 0,
         NEW t, t = WriteMulti(c, p), InJob(t),
         t.write_batch_active => t.current_batch_counter = write_batch_counter
  PROVE  SinglesAreIn(t) /\ OnlyJobData(c, t)
<1> DEFINE new == ~c.write_batch_active
                    /\ p.counter # c.current_batch_counter
           known == p.counter = c.current_batch_counter
                      /\ p.slot \notin c.slot_ids_received
<1>1. p \in Writes /\ GoodWrite(p) /\ ServerInv(c) /\ FitsBatch(c, p)
  BY DEF Writes, CoreInv, PacketsInv, BatchInv
<1>2. /\ ServerInv(t)
      /\ FromBatch(c, t)
  BY <1>1, WriteMultiLemma
<1>3. new => t.write_batch_active /\ t.current_batch_counter = p.counter
  BY <1>1, WriteMultiLemma
<1>4. known =>
        c.write_batch_active
          /\ OnlyChanged(c, t, {"card", "slots_written", "batch_left",
                                "slot_ids_received", "write_cache",
                                "send_buf"})
  BY <1>1, WriteMultiLemma, ZenonT(40)
<1>5. ~new /\ ~known => OnlyChanged(c, t, {"send_buf"})
  BY <1>1, WriteMultiLemma, ZenonT(40)
<1>6. CASE new \/ known
  <2>1. t.write_batch_active /\ t.current_batch_counter = p.counter
    BY <1>3, <1>4, <1>6 DEF OnlyChanged, Fields
  <2>2. t.current_batch_counter = write_batch_counter /\ OfBatch(p)
    BY <2>1 DEF OfBatch
  <2>3. job.n # 1
    BY <2>1, <2>2 DEF InJob
  <2>4. t.slot_ids_received \subseteq Indices
    BY <1>2 DEF ServerInv, ServerStates
  <2>5. OnlyJobData(c, t)
    BY <1>2, <2>2, <2>3, <2>4, JobDataLemma
  <2>6. ASSUME NEW q \in ToServer, q.op = "write",
               q.counter = t.current_batch_counter
        PROVE  q.last # 0
    <3>1. q \in Writes /\ Agree(p, q)
      BY <1>1, <2>6 DEF Writes, CoreInv, PacketsInv
    <3> QED
      BY <2>1, <2>6, <3>1 DEF Agree
  <2> QED
    BY <2>3, <2>5, <2>6 DEF SinglesAreIn
<1>7. CASE ~new /\ ~known
  <2>1. t.card = c.card /\ t.current_batch_counter = c.current_batch_counter
    BY <1>5, <1>7 DEF OnlyChanged, Fields
  <2> QED
    BY <2>1 DEF SinglesAreIn, OnlyJobData
<1> QED
  BY <1>6, <1>7

\* A step of the MEGA65 changes sectors only to what the job at hand writes.
LEMMA ServerDataLemma ==
  ASSUME CoreInv, OrderedInv, SingleInv, ServerStep, UNCHANGED clientVars,
         CoreInv', OrderedInv'
  PROVE  SingleInv' /\ OnlyJobData(srv, srv')
<1>1. FramesInv /\ BatchesInv /\ NoFatal /\ ToServer' \subseteq ToServer
  BY ServerRepliesLemma DEF OrderedInv
<1>2. /\ UNCHANGED <<pc, job, jobNo, sent, frames, write_batch_counter>>
      /\ Writing' = Writing
  BY SameClientLemma
<1>3. /\ ServerInv(srv')
      /\ InJob(srv')
      /\ srv'.write_batch_active =>
           srv'.current_batch_counter = write_batch_counter
  <2>1. (ServerInv(srv) /\ InJob(srv))'
    BY DEF CoreInv, BatchInv
  <2>2. RequestsInv'
    BY DEF OrderedInv, BatchesInv
  <2> QED
    BY <1>2, <2>1, <2>2 DEF InJob, RequestsInv
<1>4. SinglesAreIn(srv') => SingleInv'
  BY <1>1, <1>2 DEF SingleInv, SinglesAreIn
<1>5. CASE KeepsBatchStep
  BY <1>1, <1>3, <1>4, <1>5, KeepsDataLemma DEF KeepsBatchStep
<1>6. ASSUME NEW c, NEW n \in Arriving(toServer), TakesWrite(c, n)
      PROVE  SinglesAreIn(srv') /\ OnlyJobData(srv, srv')
  <2> DEFINE p == toServer[n]
  <2>1. p \in ToServer /\ p.op = "write"
    BY <1>6 DEF CoreInv, TypeOK, Arriving, ToServer, Elements, TakesWrite
  <2>2. BatchInv(c) /\ ~c.read_batch_active
    BY <1>6, KeepsBatchLemma DEF CoreInv, TakesWrite
  <2>3. SinglesAreIn(c) /\ OnlyJobData(srv, c)
    BY <1>1, <1>6, KeepsDataLemma DEF TakesWrite
  <2>4. c.current_batch_counter = srv.current_batch_counter
    BY <1>6 DEF TakesWrite, KeepsBatch
  <2>5. srv' = IF p.last = 0 THEN WriteSingle(c, p) ELSE WriteMulti(c, p)
    BY <1>6, <2>1 DEF TakesWrite, GetNewJob
  <2> HIDE DEF p
  <2>6. SinglesAreIn(srv') /\ OnlyJobData(c, srv')
    <3>1. CASE p.last = 0
      <4>1. srv' = WriteSingle(c, p)
        BY <2>5, <3>1
      <4> QED
        BY <1>1, <2>1, <2>2, <2>3, <2>4, <3>1, <4>1, TakesSingleLemma
    <3>2. CASE p.last # 0
      <4>1. srv' = WriteMulti(c, p)
        BY <2>5, <3>2
      <4> QED
        BY <1>1, <1>3, <2>1, <2>2, <2>3, <3>2, <4>1, TakesMultiLemma
    <3> QED
      BY <3>1, <3>2
  <2> QED
    BY <2>3, <2>6 DEF OnlyJobData
<1> QED
  BY <1>1, <1>4, <1>5, <1>6, ProcessLemma
-----------------------------------------------------------------------------
(* The client *)

\* The writes the client may send again are those of the job at hand.
LEMMA FramesAreCurrentLemma ==
  ASSUME CoreInv, FramesInv, NEW k \in Slots, frames[k].op = "write"
  PROVE  frames[k].counter = write_batch_counter
<1>1. frames[k] # NoPacket
  BY DEF NoPacket
<1>2. pc \in {"send", "full", "drain"}
  BY <1>1 DEF FramesInv
<1>3. job.kind \in {"hello", "write", "read", "mount", "quit"}
  BY <1>2, JobsAssumption DEF CoreInv, JobInv
<1>4. CASE job.kind = "write"
  <2>1. PICK i \in 0 .. sent - 1 : frames[k] = Packet(i)
    BY <1>1, <1>4 DEF FramesInv
  <2> QED
    BY <2>1 DEF Packet, WriteRequest
<1>5. CASE job.kind = "read"
  BY <1>1, <1>5 DEF FramesInv
<1>6. CASE job.kind \in {"mount", "hello", "quit"}
  <2>1. frames[k] = SinglePacket
    BY <1>1, <1>6 DEF FramesInv
  <2>2. SinglePacket.op # "write"
    BY <1>6 DEF SinglePacket, MountRequest, HelloRequest, QuitRequest
  <2> QED
    BY <2>1, <2>2
<1> QED
  BY <1>3, <1>4, <1>5, <1>6

\* What the client does leaves the card alone, and what it sends is of the job
\* at hand.
LEMMA ClientSinglesLemma ==
  ASSUME CoreInv, FramesInv, SingleInv, ClientStep, UNCHANGED srv, CoreInv',
         \A p \in Writes' : p \in Writes \/ p.counter = write_batch_counter
  PROVE  SingleInv'
<1>1. /\ Writing' => UNCHANGED <<job, jobNo, write_batch_counter>>
      /\ write_batch_counter' # write_batch_counter => UNCHANGED toServer
  BY DEF ClientStep, ClientWork, StartJob, BeginSending, SendWrite, SendRead,
         SendSingle, WindowFull, SkipPacket, FinishJob, Receive, Resend, GiveUp,
         Writing, linkVars, clientVars
<1>2. (Writing /\ job.n = 1 /\ srv.current_batch_counter = write_batch_counter
         => srv.card[job.start] = Content(jobNo, job.start))'
  BY <1>1 DEF CoreInv, BatchInv, InJob, SingleInv, SinglesAreIn
<1>3. ASSUME NEW p \in ToServer', p.op = "write", p.last = 0,
             p.counter = srv'.current_batch_counter
      PROVE  srv'.card[p.start] = p.data
  <2>1. CASE p \in ToServer
    BY <1>3, <2>1 DEF SingleInv, SinglesAreIn
  <2>2. CASE p \notin ToServer
    <3>1. p \in Writes'
      BY <1>3 DEF Writes
    <3>2. p.counter = write_batch_counter
      BY <1>3, <2>2, <3>1, FramesAreCurrentLemma DEF Writes
    <3>3. write_batch_counter' = write_batch_counter
      BY <1>1, <2>2 DEF ToServer
    <3>4. /\ GoodWrite(p) /\ Writing' /\ p = Packet(p.slot)'
      BY <3>1, <3>2, <3>3 DEF CoreInv, PacketsInv, IsCurrent
    <3>5. /\ p.start = job'.start /\ p.last = job'.n - 1
          /\ p.data = Content(jobNo', job'.start + p.slot)
      BY <3>4 DEF Packet, WriteRequest
    <3>6. p.slot = 0 /\ p.start \in Nat
      <4>1. p.slot \in Indices /\ p.slot <= 0 /\ p.start \in Sectors
        BY <1>3, <3>4 DEF GoodWrite
      <4> QED
        BY <4>1, NumbersLemma
    <3>7. job'.n = 1
      <4>1. job' \in Jobs
        BY <3>4 DEF Writing, CoreInv, TypeOK, NoJob
      <4>2. job'.n \in Nat
        BY <4>1, JobLemma
      <4> QED
        BY <1>3, <3>5, <4>2
    <3> QED
      BY <1>2, <1>3, <3>2, <3>3, <3>4, <3>5, <3>6, <3>7
  <2> QED
    BY <2>1, <2>2
<1> QED
  BY <1>2, <1>3 DEF SingleInv, SinglesAreIn

\* Nothing was sent when both programs start.
LEMMA SingleInitLemma ==
  ASSUME Init
  PROVE  SingleInv
<1>1. ToServer = {} /\ job.kind = "none"
  BY DEF Init, LinkInit, ClientInit, ToServer, Elements, NoJob
<1> QED
  BY <1>1 DEF SingleInv, SinglesAreIn, Writing

\* Every step keeps single sectors as they are.
LEMMA SingleStepLemma ==
  ASSUME Ordered, ~MayTimeOut, CoreInv, OrderedInv, SingleInv, [Next]_vars
  PROVE  CoreInv' /\ OrderedInv' /\ SingleInv'
<1>1. CoreInv' /\ OrderedInv'
  BY OrderedStepLemma
<1>2. FramesInv /\ BatchesInv
  BY DEF OrderedInv
<1>3. CASE Client
  <2>1. ClientStep /\ UNCHANGED srv
    BY <1>3 DEF Client
  <2>2. FinishJob /\ job.kind = "write" =>
          /\ \A p \in Writes : p.counter # write_batch_counter'
          /\ srv.current_batch_counter # write_batch_counter'
    BY <1>2, <2>1, FinishBatchesLemma
  <2>3. \A p \in Writes' : p \in Writes \/ p.counter = write_batch_counter
    BY <2>2, StepLemma
  <2> QED
    BY <1>1, <1>2, <2>1, <2>3, ClientSinglesLemma
<1>4. CASE Server
  BY <1>1, <1>4, ServerDataLemma DEF Server
<1>5. CASE Network
  <2>1. UNCHANGED <<clientVars, srv>> /\ ToServer' \subseteq ToServer
    BY <1>5, ElementsLemma DEF Network, LosePacket, CoreInv, TypeOK, ToServer
  <2>2. UNCHANGED <<pc, job, jobNo, write_batch_counter>> /\ Writing' = Writing
    BY <2>1, SameClientLemma
  <2> QED
    BY <1>1, <2>1, <2>2 DEF SingleInv, SinglesAreIn
<1>6. CASE UNCHANGED vars
  <2>1. UNCHANGED <<clientVars, srv, toServer>>
    BY <1>6 DEF vars, linkVars
  <2>2. UNCHANGED <<pc, job, jobNo, write_batch_counter>> /\ Writing' = Writing
    BY <2>1, SameClientLemma
  <2> QED
    BY <1>1, <2>1, <2>2 DEF SingleInv, SinglesAreIn, ToServer
<1> QED
  BY <1>3, <1>4, <1>5, <1>6 DEF Next

\* In order and without abandoned waits the invariants hold in every run.
LEMMA SingleLemma ==
  ASSUME Ordered, ~MayTimeOut
  PROVE  Spec => [](CoreInv /\ OrderedInv /\ SingleInv)
<1>1. Init => CoreInv /\ OrderedInv /\ SingleInv
  BY InitLemma, OrderedInitLemma, SingleInitLemma
<1>2. CoreInv /\ OrderedInv /\ SingleInv /\ [Next]_vars
        => (CoreInv /\ OrderedInv /\ SingleInv)'
  BY SingleStepLemma
<1> QED
  BY <1>1, <1>2, PTL DEF Spec
-----------------------------------------------------------------------------
(* The disk that executes one job at a time *)

\* Every sector of a write job is on the card when the last acknowledgement is
\* in.
LEMMA WrittenLemma ==
  ASSUME ~MayTimeOut, CoreInv, OrderedInv, FinishJob, job.kind = "write"
  PROVE  \A x \in job.start .. job.start + job.n - 1 :
           srv.card[x] = Content(jobNo, x)
<1>1. FramesInv /\ AcksInv /\ CardInv(srv) /\ LastAckInv /\ InJob(srv)
      /\ Accounts(srv) /\ TypeOK
  BY DEF OrderedInv, BatchesInv, CoreInv, BatchInv, ServerInv
<1>2. Writing /\ pc = "drain" /\ Unacked = {}
  BY DEF FinishJob, AllAcked, Writing
<1>3. /\ job.start \in Nat /\ job.n \in Nat /\ job.n >= 1 /\ sent = job.n
  BY <1>1, <1>2, WritingLemma DEF CoreInv, JobInv
<1>4. \A i : ~OnItsWay(i)
  <2>1. \A k \in Slots : frames[k] = NoPacket
    BY <1>1, <1>2, NoFramesLemma
  <2>2. \A i : Packet(i) # NoPacket
    BY DEF Packet, WriteRequest, NoPacket
  <2> QED
    BY <2>1, <2>2 DEF OnItsWay
<1>5. \A i \in 0 .. job.n - 1 : Stored(srv, i)
  BY <1>1, <1>2, <1>3, <1>4 DEF AcksInv
<1>6. srv.current_batch_counter = write_batch_counter
  <2>1. 0 \in 0 .. job.n - 1
    BY <1>3
  <2> QED
    BY <1>5, <2>1 DEF Stored
<1>7. CASE job.n = 1
  <2>1. 0 \in 0 .. job.n - 1
    BY <1>3
  <2>2. srv.card[job.start] = Content(jobNo, job.start)
    BY <1>5, <1>7, <2>1 DEF Stored
  <2>3. \A x \in job.start .. job.start + job.n - 1 : x = job.start
    BY <1>3, <1>7
  <2> QED
    BY <2>2, <2>3
<1>8. CASE job.n # 1
  <2>1. /\ srv.sector_number_write = job.start
        /\ srv.write_batch_max_id = job.n - 1
        /\ \A i \in srv.slot_ids_received :
             srv.write_cache[i] = Content(jobNo, job.start + i)
    BY <1>1, <1>6, <1>8 DEF InJob
  <2>2. \A i \in 0 .. job.n - 1 : i \in srv.slot_ids_received
    BY <1>5, <1>8 DEF Stored
  <2>3. ~srv.write_batch_active
    <3> SUFFICES ASSUME srv.write_batch_active PROVE FALSE
      OBVIOUS
    <3>1. (0 .. srv.write_batch_max_id) \ srv.slot_ids_received = {}
      BY <2>1, <2>2
    <3>2. srv.batch_left = 0
      BY <1>1, <3>1, FS_EmptySet DEF Accounts
    <3> QED
      BY <1>1, <1>4, <3>2 DEF LastAckInv
  <2> SUFFICES ASSUME NEW x \in job.start .. job.start + job.n - 1
               PROVE  srv.card[x] = Content(jobNo, x)
    OBVIOUS
  <2> DEFINE i == x - job.start
  <2>4. i \in 0 .. job.n - 1 /\ job.start + i = x
    BY <1>3
  <2>5. srv.card[job.start + i] = srv.write_cache[i]
    BY <1>1, <1>6, <1>8, <2>1, <2>2, <2>3, <2>4 DEF CardInv
  <2> QED
    BY <2>1, <2>2, <2>4, <2>5
<1> QED
  BY <1>7, <1>8

\* A read ends with a result that need not be what the disk holds.
EndAnyRead ==
  /\ job.kind = "read"
  /\ pc # "ready" /\ pc' = "ready"
  /\ UNCHANGED <<srv.card, job, jobNo>>

\* The disk starts empty and idle.
LEMMA DiskInitLemma ==
  ASSUME Init
  PROVE  Disk!Init
BY DEF Init, ClientInit, ServerInit, Disk!Init, Disk!Idle, Disk!NoResult,
       NoJob, NothingRead

\* A step that starts or ends no job and changes no sector is none of the disk.
LEMMA StutterLemma ==
  ASSUME UNCHANGED <<srv.card, job, jobNo>>,
         \/ pc # "ready" /\ pc' # "ready"
         \/ UNCHANGED <<pc, queue_read_data>>
  PROVE  UNCHANGED Disk!vars
BY DEF Disk!vars

\* A step of the client starts a job, ends it or is none of the disk.
LEMMA ClientDiskLemma ==
  ASSUME ~MayTimeOut, CoreInv, OrderedInv, ClientStep, UNCHANGED srv
  PROVE  Disk!Next \/ EndAnyRead \/ UNCHANGED Disk!vars
<1>1. CASE \E j \in Jobs : StartJob(j)
  <2>1. PICK j \in Jobs : StartJob(j)
    BY <1>1
  <2>2. Disk!Begin(j)
    BY <2>1 DEF StartJob, Disk!Begin, Disk!Idle, Disk!NoResult, NothingRead
  <2> QED
    BY <2>2 DEF Disk!Next
<1>2. CASE FinishJob
  <2>1. /\ pc = "drain" /\ pc' = "ready"
        /\ UNCHANGED <<srv.card, job, jobNo, queue_read_data>>
    BY <1>2 DEF FinishJob
  <2>2. job.kind \in {"hello", "write", "read", "mount", "quit"}
    BY <2>1, JobsAssumption DEF CoreInv, JobInv
  <2>3. CASE job.kind = "read"
    BY <2>1, <2>3 DEF EndAnyRead
  <2>4. CASE job.kind = "write"
    <3>1. \A x \in job.start .. job.start + job.n - 1 :
            srv.card[x] = Content(jobNo, x)
      BY <1>2, <2>4, WrittenLemma
    <3>2. Disk!EndWrite
      BY <2>1, <2>4, <3>1 DEF Disk!EndWrite, Disk!Idle, Disk!Range, Disk!Written
    <3> QED
      BY <3>2 DEF Disk!Next
  <2>5. CASE job.kind \in {"hello", "mount", "quit"}
    <3>1. Disk!EndOther
      BY <2>1, <2>5 DEF Disk!EndOther, Disk!Idle
    <3> QED
      BY <3>1 DEF Disk!Next
  <2> QED
    BY <2>2, <2>3, <2>4, <2>5
<1>3. CASE \/ BeginSending \/ SendWrite \/ SendRead \/ SendSingle
           \/ WindowFull \/ SkipPacket
           \/ \E i \in Arriving(toClient) : Receive(i)
           \/ Resend \/ GiveUp
  <2>1. pc # "ready" /\ pc' # "ready" /\ UNCHANGED <<srv.card, job, jobNo>>
    BY <1>3 DEF BeginSending, SendWrite, SendRead, SendSingle, WindowFull,
                SkipPacket, Receive, Resend, GiveUp, Waiting, clientVars
  <2> QED
    BY <2>1, StutterLemma
<1> QED
  BY <1>1, <1>2, <1>3 DEF ClientStep, ClientWork

\* A step of the MEGA65 puts sectors of the job at hand on the disk, or none.
LEMMA ServerDiskLemma ==
  ASSUME TypeOK, TypeOK', UNCHANGED clientVars, OnlyJobData(srv, srv')
  PROVE  Disk!Put \/ UNCHANGED Disk!vars
<1> DEFINE S == {x \in Sectors : srv'.card[x] # srv.card[x]}
<1>1. srv.card \in [Sectors -> Contents] /\ srv'.card \in [Sectors -> Contents]
  BY DEF TypeOK, ServerStates
<1>2. UNCHANGED <<pc, job, jobNo, queue_read_data>>
  BY DEF clientVars
<1>3. CASE S = {}
  <2>1. srv'.card = srv.card
    BY <1>1, <1>3
  <2> QED
    BY <1>2, <2>1, StutterLemma
<1>4. CASE S # {}
  <2>1. /\ Writing
        /\ \A x \in S : /\ x \in job.start .. job.start + job.n - 1
                        /\ srv'.card[x] = Content(jobNo, x)
    BY <1>4 DEF OnlyJobData
  <2>2. job.kind = "write" /\ pc # "ready"
    BY <2>1 DEF Writing
  <2>3. S \in (SUBSET (job.start .. job.start + job.n - 1)) \ {{}}
    BY <1>4, <2>1
  <2>4. srv'.card = [x \in Sectors |-> IF x \in S THEN Content(jobNo, x)
                                                  ELSE srv.card[x]]
    BY <1>1, <2>1
  <2> HIDE DEF S
  <2> QED
    BY <1>2, <2>2, <2>3, <2>4 DEF Disk!Put, Disk!Range, Disk!Written
<1> QED
  BY <1>3, <1>4

\* Every step is one of the disk, or none, or the end of a read.
LEMMA DiskStepLemma ==
  ASSUME Ordered, ~MayTimeOut, CoreInv, OrderedInv, SingleInv, [Next]_vars
  PROVE  Disk!Next \/ EndAnyRead \/ UNCHANGED Disk!vars
<1>1. CoreInv' /\ OrderedInv'
  BY OrderedStepLemma
<1>2. CASE Client
  BY <1>2, ClientDiskLemma DEF Client
<1>3. CASE Server
  <2>1. UNCHANGED clientVars /\ OnlyJobData(srv, srv')
    BY <1>1, <1>3, ServerDataLemma DEF Server
  <2>2. TypeOK /\ TypeOK'
    BY <1>1 DEF CoreInv
  <2> QED
    BY <2>1, <2>2, ServerDiskLemma DEF Disk!Next
<1>4. CASE Network \/ UNCHANGED vars
  <2>1. UNCHANGED <<srv.card, job, jobNo, pc, queue_read_data>>
    BY <1>4 DEF Network, vars, clientVars
  <2> QED
    BY <2>1, StutterLemma
<1> QED
  BY <1>2, <1>3, <1>4 DEF Next

\* The jobs run one after the other: while one runs, sectors of the card change
\* only to what it writes there, a write job ends with all of its sectors on
\* the card, and nothing else changes the card - whatever is lost or resent,
\* and however often the batch counter comes round.  Of the result of a read
\* nothing is said (process_jobs_ethernet and its jobs, mega65_ftp.c).
THEOREM JobsRunOneByOneTheorem ==
  ASSUME Ordered, ~MayTimeOut
  PROVE  Spec => Disk!Init /\ [][Disk!Next \/ EndAnyRead]_(Disk!vars)
<1>1. Init => Disk!Init
  BY DiskInitLemma
<1>2. CoreInv /\ OrderedInv /\ SingleInv /\ [Next]_vars
        => [Disk!Next \/ EndAnyRead]_(Disk!vars)
  BY DiskStepLemma
<1> QED
  BY <1>1, <1>2, SingleLemma, PTL DEF Spec

\* Without reads, which may return old data, client, link and MEGA65 implement
\* the disk.
THEOREM RemoteDiskTheorem ==
  ASSUME Ordered, ~MayTimeOut, \A j \in Jobs : j.kind # "read"
  PROVE  Spec => ImplementsRemoteDisk
<1>1. Init => Disk!Init
  BY DiskInitLemma
<1>2. CoreInv /\ OrderedInv /\ SingleInv /\ [Next]_vars
        => [Disk!Next]_(Disk!vars)
  <2> SUFFICES ASSUME CoreInv, OrderedInv, SingleInv, [Next]_vars
               PROVE  [Disk!Next]_(Disk!vars)
    OBVIOUS
  <2>1. job.kind # "read"
    BY DEF CoreInv, TypeOK, NoJob
  <2> QED
    BY <2>1, DiskStepLemma DEF EndAnyRead
<1> QED
  BY <1>1, <1>2, SingleLemma, PTL DEF Spec, Disk!Spec, ImplementsRemoteDisk
=============================================================================
