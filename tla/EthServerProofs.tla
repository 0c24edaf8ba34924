-------------------------- MODULE EthServerProofs --------------------------
(***************************************************************************)
(* What the operations of remotesd_eth do to its state, for every size of  *)
(* a batch and of the card: the lemmas the proofs about the whole protocol *)
(* rest on.                                                                *)
(***************************************************************************)
EXTENDS RemoteSDEth, FiniteSetTheorems, TLAPS

Fields == {"card", "send_buf", "logged_in", "template",
           "current_batch_counter", "write_batch_active", "batch_left",
           "write_batch_max_id", "slots_written", "slot_ids_received",
           "sector_number_write", "write_cache", "read_batch_active",
           "sector_reading", "sector_buffered", "sector_number_read",
           "buffered", "last_mount", "quit_requested", "state"}

\* t differs from s in the given fields at most.
OnlyChanged(s, t, changed) == \A f \in Fields \ changed : t[f] = s[f]

\* What is on the card and in the cache was meant for the sector it is for.
Meant(s) ==
  /\ \A x \in Sectors : \/ s.card[x] = 0
                        \/ \E n \in JobNumbers : s.card[x] = Content(n, x)
  /\ \A i \in s.slot_ids_received :
       \E n \in JobNumbers :
         s.write_cache[i] = Content(n, s.sector_number_write + i)

\* One batch at a time, and within the card.
OneBatch(s) ==
  /\ s.read_batch_active => ~s.write_batch_active /\ s.batch_left > 0
  /\ s.sector_reading => s.read_batch_active
  /\ s.write_batch_active =>
       /\ s.template.op = "write"
       /\ s.write_batch_max_id > 0
       /\ s.sector_number_write + s.write_batch_max_id \in Sectors

\* The inductive invariant of the MEGA65 side.
ServerInv(s) == s \in ServerStates /\ Accounts(s) /\ Meant(s) /\ OneBatch(s)

\* A write request that belongs to some job.
GoodWrite(p) ==
  /\ p \in [op : {"write"}, counter : Counters, last : Indices, slot : Indices,
            start : Sectors, data : Contents]
  /\ p.slot <= p.last
  /\ p.start + p.last \in Sectors
  /\ \E n \in JobNumbers : p.data = Content(n, p.start + p.slot)

\* A request with the current counter belongs to the batch at hand.
FitsBatch(s, p) ==
  p.counter = s.current_batch_counter /\ p.last # 0 =>
    /\ s.sector_number_write = p.start
    /\ s.write_batch_max_id = p.last
    /\ p.slot \in s.slot_ids_received => s.write_cache[p.slot] = p.data
    /\ ~s.write_batch_active => p.slot \in s.slot_ids_received

\* A step changes sectors of the batch at hand only, to what was received.
FromBatch(s, t) ==
  \A x \in Sectors :
    \/ t.card[x] = s.card[x]
    \/ \E i \in t.slot_ids_received :
         x = t.sector_number_write + i /\ t.card[x] = t.write_cache[i]

\* A step that takes no write request: the batch stays as it is, or its last
\* sectors go to the card.
KeepsBatch(s, t) ==
  /\ \A f \in {"current_batch_counter", "slot_ids_received", "write_cache",
             "write_batch_max_id", "sector_number_write"} : t[f] = s[f]
  /\ IF s.write_batch_active /\ s.batch_left = 0
       THEN /\ ~t.write_batch_active
            /\ s.slot_ids_received = 0 .. s.write_batch_max_id
            /\ \A i \in s.slot_ids_received :
                 t.card[s.sector_number_write + i] = s.write_cache[i]
            /\ FromBatch(s, t)
       ELSE /\ t.write_batch_active = s.write_batch_active
            /\ t.card = s.card
            /\ s.write_batch_active => t.batch_left = s.batch_left

-----------------------------------------------------------------------------
(* Numbers and sizes *)

\* The sizes are numbers; a batch has at most 128 sectors.
LEMMA SizesLemma ==
  /\ MaxSector \in Nat
  /\ MaxBatch \in Nat /\ MaxBatch >= 2 /\ MaxBatch <= 128
  /\ MaxJobs \in Nat
  /\ BatchMod \in Nat /\ BatchMod >= 2
  /\ Sectors \subseteq Nat /\ Indices \subseteq Nat /\ Counters \subseteq Nat
BY SizesAssumption DEF Sectors, Indices, Counters

\* An empty sector and what any job writes are contents.
LEMMA ContentLemma ==
  /\ 0 \in Contents
  /\ \A n \in JobNumbers, x \in Sectors : Content(n, x) \in Contents
<1> DEFINE size == MaxSector + 1
<1>1. MaxSector \in Nat /\ size \in Nat /\ MaxJobs \in Nat
  BY SizesLemma
<1>2. MaxJobs * size \in Nat
  BY <1>1
<1>3. ASSUME NEW n \in JobNumbers, NEW x \in Sectors
      PROVE  Content(n, x) \in Contents
  <2>1. n \in Nat /\ n - 1 \in Nat /\ n - 1 <= MaxJobs - 1 /\ x \in Nat /\ x <= size - 1
    BY <1>1 DEF JobNumbers, Sectors
  <2>2. PICK d \in Nat : MaxJobs = (n - 1) + (d + 1)
    <3>1. MaxJobs - n \in Nat /\ MaxJobs = (n - 1) + ((MaxJobs - n) + 1)
      BY <1>1, <2>1
    <3> QED
      BY <3>1
  <2>3. MaxJobs * size = (n - 1) * size + d * size + size
    BY <1>1, <2>1, <2>2
  <2>4. (n - 1) * size \in Nat /\ d * size \in Nat
    BY <1>1, <2>1, <2>2
  <2> QED
    BY <1>1, <1>2, <2>1, <2>2, <2>3, <2>4 DEF Content, Contents
<1> QED
  BY <1>2, <1>3 DEF Contents

\* A finite set without one of its elements has one element less.
LEMMA RemoveOneLemma ==
  ASSUME NEW S, IsFiniteSet(S), NEW x \in S
  PROVE  /\ IsFiniteSet(S \ {x})
         /\ Cardinality(S \ {x}) = Cardinality(S) - 1
         /\ Cardinality(S \ {x}) \in Nat
<1>1. IsFiniteSet(S \ {x}) /\ Cardinality(S \ {x}) = Cardinality(S) - 1
  BY FS_RemoveElement
<1> QED
  BY <1>1, FS_CardinalityType

-----------------------------------------------------------------------------
(* Finishing a batch *)

\* process() finds every slot of the batch received when none is left, and
\* puts the rest of the cache on the card.
LEMMA FinishBatchLemma ==
  ASSUME NEW s, ServerInv(s)
  PROVE  LET t == FinishBatch(s) IN
         /\ ServerInv(t)
         /\ OnlyChanged(s, t, {"card", "slots_written", "write_batch_active"})
         /\ ~(s.write_batch_active /\ s.batch_left = 0) => t = s
         /\ s.write_batch_active /\ s.batch_left = 0 =>
              /\ ~t.write_batch_active
              /\ s.slot_ids_received = 0 .. s.write_batch_max_id
              /\ \A i \in s.slot_ids_received :
                   t.card[s.sector_number_write + i] = s.write_cache[i]
              /\ FromBatch(s, t)
<1> DEFINE t == FinishBatch(s)
           batch == 0 .. s.write_batch_max_id
           rest == s.slots_written .. s.write_batch_max_id
           card == [x \in Sectors |->
                      IF x - s.sector_number_write \in rest
                        THEN s.write_cache[x - s.sector_number_write]
                        ELSE s.card[x]]
<1> USE SizesLemma
<1>0. s \in ServerStates /\ Accounts(s) /\ Meant(s) /\ OneBatch(s)
  BY DEF ServerInv
<1>1. CASE ~(s.write_batch_active /\ s.batch_left = 0)
  <2>1. t = s
    BY <1>1 DEF FinishBatch
  <2> QED
    BY <1>1, <2>1 DEF OnlyChanged
<1>2. CASE s.write_batch_active /\ s.batch_left = 0
  <2>1. s.slot_ids_received = batch
    <3>1. s.slot_ids_received \subseteq batch
          /\ Cardinality(batch \ s.slot_ids_received) = 0
      BY <1>0, <1>2 DEF Accounts
    <3>2. IsFiniteSet(batch)
      <4>1. s.write_batch_max_id \in Int
        BY <1>0 DEF ServerStates, Indices
      <4> QED
        BY <4>1, FS_Interval
    <3>3. IsFiniteSet(batch \ s.slot_ids_received)
      BY <3>2, FS_Difference
    <3>4. batch \ s.slot_ids_received = {}
      BY <3>1, <3>3, FS_EmptySet
    <3> QED
      BY <3>1, <3>4
  <2>2. s.write_batch_max_id \in Indices /\ s.slots_written \in 0 .. MaxBatch
        /\ s.sector_number_write \in Sectors
        /\ s.write_cache \in [Indices -> Contents]
        /\ s.card \in [Sectors -> Contents]
    BY <1>0 DEF ServerStates
  <2>3. rest \subseteq s.slot_ids_received /\ rest \subseteq Indices
    BY <2>1, <2>2 DEF Indices
  <2>4. t = [s EXCEPT !.card = card, !.slots_written = s.write_batch_max_id + 1,
                      !.write_batch_active = FALSE]
    BY <1>2, <2>3 DEF FinishBatch
  <2>5. card \in [Sectors -> Contents]
    BY <2>2, <2>3
  <2>6. s.write_batch_max_id + 1 \in 0 .. MaxBatch
    BY <2>2 DEF Indices
  <2>7. t \in ServerStates
    BY <1>0, <2>4, <2>5, <2>6, ZenonT(60) DEF ServerStates
  <2>8. OnlyChanged(s, t, {"card", "slots_written", "write_batch_active"})
    BY <1>0, <2>4 DEF OnlyChanged, Fields, ServerStates
  <2>9. ~t.write_batch_active /\ t.card = card
        /\ t.slot_ids_received = s.slot_ids_received
        /\ t.write_cache = s.write_cache
        /\ t.sector_number_write = s.sector_number_write
        /\ t.sector_reading = s.sector_reading
        /\ t.read_batch_active = s.read_batch_active
    BY <1>0, <2>4 DEF ServerStates
  <2>10. \A i \in s.slot_ids_received :
            card[s.sector_number_write + i] = s.write_cache[i]
    <3> SUFFICES ASSUME NEW i \in s.slot_ids_received
                 PROVE  card[s.sector_number_write + i] = s.write_cache[i]
      OBVIOUS
    <3>1. i \in batch /\ i \in Nat
      BY <2>1
    <3>2. s.sector_number_write + i \in Sectors
      BY <3>1, <2>2, <1>0, <1>2 DEF OneBatch, Sectors, Indices
    <3>3. (s.sector_number_write + i) - s.sector_number_write = i
      BY <3>1, <2>2 DEF Sectors
    <3>4. CASE i \in rest
      BY <3>2, <3>3, <3>4
    <3>5. CASE i \notin rest
      <4>1. i \in 0 .. s.slots_written - 1
        BY <3>1, <3>5, <2>2 DEF Indices
      <4>2. s.card[s.sector_number_write + i] = s.write_cache[i]
        BY <4>1, <1>0, <1>2 DEF Accounts
      <4> QED
        BY <3>2, <3>3, <3>5, <4>2
    <3> QED
      BY <3>4, <3>5
  <2>11. Meant(t)
    <3>1. ASSUME NEW x \in Sectors
          PROVE  card[x] = 0 \/ \E n \in JobNumbers : card[x] = Content(n, x)
      <4>1. CASE x - s.sector_number_write \in rest
        <5> DEFINE i == x - s.sector_number_write
        <5>1. PICK n \in JobNumbers :
                s.write_cache[i] = Content(n, s.sector_number_write + i)
          BY <4>1, <2>3, <1>0 DEF Meant
        <5>2. s.sector_number_write + i = x
          BY <2>2 DEF Sectors
        <5> QED
          BY <4>1, <5>1, <5>2
      <4>2. CASE x - s.sector_number_write \notin rest
        BY <4>2, <1>0 DEF Meant
      <4> QED
        BY <4>1, <4>2
    <3> QED
      BY <3>1, <2>9, <1>0 DEF Meant
  <2>12. Accounts(t) /\ OneBatch(t)
    BY <1>0, <1>2, <2>9 DEF Accounts, OneBatch
  <2>13. FromBatch(s, t)
    <3> SUFFICES ASSUME NEW x \in Sectors, card[x] # s.card[x]
                 PROVE  \E i \in s.slot_ids_received :
                          /\ x = s.sector_number_write + i
                          /\ card[x] = s.write_cache[i]
      BY <2>9 DEF FromBatch
    <3> DEFINE i == x - s.sector_number_write
    <3>1. i \in rest /\ card[x] = s.write_cache[i]
      OBVIOUS
    <3>2. i \in s.slot_ids_received /\ x = s.sector_number_write + i
      BY <2>2, <2>3, <3>1 DEF Sectors
    <3> QED
      BY <3>1, <3>2
  <2> QED
    BY <1>2, <2>1, <2>7, <2>8, <2>9, <2>10, <2>11, <2>12, <2>13 DEF ServerInv
<1> QED
  BY <1>1, <1>2

-----------------------------------------------------------------------------
(* Writing *)

\* A slot that is missing is cached and counted, and the next slots go to the
\* card: none is written twice, or before it is there.
LEMMA StoreLemma ==
  ASSUME NEW s, ServerInv(s), s.write_batch_active,
         NEW p, GoodWrite(p), p.slot \notin s.slot_ids_received,
         s.sector_number_write = p.start, s.write_batch_max_id = p.last
  PROVE  LET t == HandleBatchWrite(s, p) IN
         /\ ServerInv(t)
         /\ OnlyChanged(s, t, {"card", "slots_written", "batch_left",
                               "slot_ids_received", "write_cache"})
         /\ t.slot_ids_received = s.slot_ids_received \cup {p.slot}
         /\ t.write_cache = [s.write_cache EXCEPT ![p.slot] = p.data]
         /\ FromBatch(s, t)
<1> DEFINE t == HandleBatchWrite(s, p)
           batch == 0 .. s.write_batch_max_id
           received == s.slot_ids_received \cup {p.slot}
           cache == [s.write_cache EXCEPT ![p.slot] = p.data]
           u == [s EXCEPT !.slot_ids_received = received,
                          !.write_cache = cache,
                          !.batch_left = s.batch_left - 1]
           w == s.slots_written
           start == s.sector_number_write
           written == [s.card EXCEPT ![start + w] = cache[w]]
           v == [u EXCEPT !.card = written, !.slots_written = w + 1]
<1> USE SizesLemma
<1>1. s \in ServerStates /\ Accounts(s) /\ Meant(s) /\ OneBatch(s)
  BY DEF ServerInv
<1>2. /\ s.card \in [Sectors -> Contents]
      /\ s.write_batch_max_id \in Indices
      /\ w \in 0 .. MaxBatch
      /\ s.batch_left \in 0 .. MaxBatch
      /\ s.slot_ids_received \subseteq Indices
      /\ start \in Sectors
      /\ s.write_cache \in [Indices -> Contents]
  BY <1>1 DEF ServerStates
<1>3. /\ p.slot \in Indices /\ p.slot \in batch
      /\ p.data \in Contents
      /\ start + s.write_batch_max_id \in Sectors
  BY <1>2 DEF GoodWrite, Indices
<1>4. /\ s.slot_ids_received \subseteq batch
      /\ s.batch_left = Cardinality(batch \ s.slot_ids_received)
      /\ \A i \in 0 .. w - 1 :
           i \in s.slot_ids_received /\ s.card[start + i] = s.write_cache[i]
  BY <1>1 DEF Accounts
<1>5. /\ s.batch_left - 1 = Cardinality(batch \ received)
      /\ s.batch_left - 1 \in 0 .. MaxBatch
  <2> DEFINE missing == batch \ s.slot_ids_received
  <2>1. IsFiniteSet(batch)
    <3>1. s.write_batch_max_id \in Int
      BY <1>2 DEF Indices
    <3> QED
      BY <3>1, FS_Interval
  <2>2. IsFiniteSet(missing)
    BY <2>1, FS_Difference
  <2>3. p.slot \in missing
    BY <1>3
  <2>4. /\ IsFiniteSet(missing \ {p.slot})
        /\ Cardinality(missing \ {p.slot}) = Cardinality(missing) - 1
    BY <2>2, <2>3, RemoveOneLemma
  <2>5. missing \ {p.slot} = batch \ received
    OBVIOUS
  <2>6. Cardinality(missing \ {p.slot}) \in Nat
    BY <2>4, FS_CardinalityType
  <2> QED
    BY <1>2, <1>4, <2>4, <2>5, <2>6
<1>6. w <= s.write_batch_max_id
  BY <1>2, <1>3, <1>4 DEF Indices
<1>7. received \subseteq Indices /\ cache \in [Indices -> Contents]
  BY <1>2, <1>3
<1>8. u \in ServerStates
  BY <1>1, <1>5, <1>7 DEF ServerStates
<1>9. /\ OnlyChanged(s, u, {"batch_left", "slot_ids_received", "write_cache"})
      /\ u.slot_ids_received = received /\ u.write_cache = cache
      /\ u.batch_left = s.batch_left - 1
      /\ u.card = s.card /\ u.slots_written = w
      /\ u.sector_number_write = start
      /\ u.write_batch_max_id = s.write_batch_max_id
  BY <1>1 DEF OnlyChanged, Fields, ServerStates
<1>10. \A i \in received :
          \E n \in JobNumbers : cache[i] = Content(n, start + i)
  <2> SUFFICES ASSUME NEW i \in received
               PROVE  \E n \in JobNumbers : cache[i] = Content(n, start + i)
    OBVIOUS
  <2>1. CASE i = p.slot
    BY <2>1, <1>2, <1>3 DEF GoodWrite
  <2>2. CASE i # p.slot
    <3>1. cache[i] = s.write_cache[i]
      BY <2>2, <1>2, <1>7
    <3> QED
      BY <2>2, <3>1, <1>1 DEF Meant
  <2> QED
    BY <2>1, <2>2
<1>11. t = WriteNext(u)
  BY DEF HandleBatchWrite
<1>12. CASE w \notin received
  <2>1. t = u
    BY <1>2, <1>6, <1>9, <1>11, <1>12 DEF WriteNext, Indices
  <2>2. \A i \in 0 .. w - 1 :
          i \in received /\ s.card[start + i] = cache[i]
    BY <1>2, <1>4
  <2>3. Accounts(u)
    <3>1. received \subseteq batch
      BY <1>3, <1>4
    <3> QED
      BY <1>5, <1>9, <2>2, <3>1 DEF Accounts
  <2>4. Meant(u)
    BY <1>1, <1>9, <1>10 DEF Meant
  <2>5. OneBatch(u)
    BY <1>1, <1>9 DEF OneBatch, OnlyChanged, Fields
  <2>6. FromBatch(s, u)
    BY <1>9 DEF FromBatch
  <2> QED
    BY <1>8, <1>9, <2>1, <2>3, <2>4, <2>5, <2>6 DEF ServerInv, OnlyChanged
<1>13. CASE w \in received
  <2>1. t = v
    <3>1. ~(w > s.write_batch_max_id)
      BY <1>2, <1>6 DEF Indices
    <3>2. WriteNext(u) =
            [u EXCEPT !.card[u.sector_number_write + u.slots_written] =
                        u.write_cache[u.slots_written],
                      !.slots_written = u.slots_written + 1]
      BY <1>9, <1>13, <3>1 DEF WriteNext
    <3> QED
      BY <1>8, <1>9, <1>11, <3>2 DEF ServerStates
  <2>2. w \in Indices /\ start + w \in Sectors /\ w + 1 \in 0 .. MaxBatch
    BY <1>2, <1>3, <1>6, <1>7, <1>13, SMTT(40) DEF Indices, Sectors
  <2>3. written \in [Sectors -> Contents]
    BY <1>2, <1>7, <2>2
  <2>4. v \in ServerStates
    BY <1>8, <2>2, <2>3 DEF ServerStates
  <2>5. /\ OnlyChanged(s, v, {"card", "slots_written", "batch_left",
                              "slot_ids_received", "write_cache"})
        /\ v.slot_ids_received = received /\ v.write_cache = cache
        /\ v.batch_left = s.batch_left - 1
        /\ v.card = written /\ v.slots_written = w + 1
        /\ v.sector_number_write = start
        /\ v.write_batch_max_id = s.write_batch_max_id
    BY <1>1 DEF OnlyChanged, Fields, ServerStates
  <2>6. \A i \in 0 .. (w + 1) - 1 :
          i \in received /\ written[start + i] = cache[i]
    <3> SUFFICES ASSUME NEW i \in 0 .. (w + 1) - 1
                 PROVE  i \in received /\ written[start + i] = cache[i]
      OBVIOUS
    <3>1. CASE i = w
      BY <3>1, <1>2, <1>13, <2>2
    <3>2. CASE i # w
      <4>1. i \in 0 .. w - 1
        BY <3>2, <1>2
      <4>2. i \in s.slot_ids_received /\ s.card[start + i] = s.write_cache[i]
        BY <4>1, <1>4
      <4>3. cache[i] = s.write_cache[i]
        BY <4>2, <1>2
      <4>4. start + i # start + w
        BY <4>1, <1>2 DEF Sectors
      <4>5. written[start + i] = s.card[start + i]
        <5>1. start + i \in Sectors
          <6>1. start \in Nat /\ start + w <= MaxSector /\ w \in Nat
            BY <1>2, <2>2 DEF Sectors
          <6> QED
            BY <6>1, <4>1 DEF Sectors
        <5> QED
          BY <5>1, <4>4, <1>2
      <4> QED
        BY <4>2, <4>3, <4>5
    <3> QED
      BY <3>1, <3>2
  <2>7. Accounts(v)
    <3>1. received \subseteq batch
      BY <1>3, <1>4
    <3> QED
      BY <1>5, <2>5, <2>6, <3>1 DEF Accounts
  <2>8. Meant(v)
    <3>1. ASSUME NEW x \in Sectors
          PROVE  \/ written[x] = 0
                 \/ \E n \in JobNumbers : written[x] = Content(n, x)
      BY <1>1, <1>2, <1>10, <1>13 DEF Meant
    <3> QED
      BY <3>1, <1>10, <2>5 DEF Meant
  <2>9. OneBatch(v)
    BY <1>1, <2>5 DEF OneBatch, OnlyChanged, Fields
  <2>10. FromBatch(s, v)
    <3>1. ASSUME NEW x \in Sectors
          PROVE  \/ written[x] = s.card[x]
                 \/ x = start + w /\ written[x] = cache[w]
      <4> HIDE DEF start, w, cache
      <4> QED
        BY <1>2 DEF written
    <3> QED
      BY <1>13, <2>5, <3>1 DEF FromBatch
  <2> QED
    BY <2>1, <2>4, <2>5, <2>7, <2>8, <2>9, <2>10 DEF ServerInv
<1> QED
  BY <1>12, <1>13

\* The fields init_new_write_batch sets keep their types.
LEMMA BatchTypeLemma ==
  ASSUME NEW s \in ServerStates, NEW w \in 0 .. MaxBatch,
         NEW r \in SUBSET Indices, NEW l \in 0 .. MaxBatch,
         NEW m \in Indices, NEW b \in Sectors, NEW c \in Counters, NEW h,
         h \in [op : {"none", "write", "read"}, last : Indices,
               start : Sectors]
  PROVE  [s EXCEPT !.write_batch_active = TRUE,
                   !.slots_written = w,
                   !.slot_ids_received = r,
                   !.batch_left = l,
                   !.write_batch_max_id = m,
                   !.sector_number_write = b,
                   !.current_batch_counter = c,
                   !.template = h] \in ServerStates
BY ZenonT(60) DEF ServerStates

\* A new batch starts empty, whatever came before.
LEMMA NewBatchLemma ==
  ASSUME NEW s, ServerInv(s), ~s.read_batch_active,
         NEW p, GoodWrite(p), p.last # 0
  PROVE  LET t == NewBatch(s, p) IN
         /\ ServerInv(t)
         /\ OnlyChanged(s, t, {"write_batch_active", "slots_written",
                               "slot_ids_received", "batch_left",
                               "write_batch_max_id", "sector_number_write",
                               "current_batch_counter", "template"})
         /\ t.write_batch_active
         /\ t.slot_ids_received = {}
         /\ t.write_batch_max_id = p.last
         /\ t.sector_number_write = p.start
         /\ t.current_batch_counter = p.counter
<1> DEFINE t == NewBatch(s, p)
<1> USE SizesLemma
<1>1. s \in ServerStates /\ Meant(s) /\ OneBatch(s)
  BY DEF ServerInv
<1>2. /\ p.last \in Indices /\ p.last \in Nat /\ p.last + 1 \in 0 .. MaxBatch
      /\ p.start \in Sectors /\ p.counter \in Counters
      /\ p.start + p.last \in Sectors
  BY DEF GoodWrite, Indices
<1>3. t = [s EXCEPT !.write_batch_active = TRUE,
                    !.slots_written = 0,
                    !.slot_ids_received = {},
                    !.batch_left = p.last + 1,
                    !.write_batch_max_id = p.last,
                    !.sector_number_write = p.start,
                    !.current_batch_counter = p.counter,
                    !.template = [op |-> "write", last |-> p.last,
                                  start |-> p.start]]
  <2>1. ~(p.last + 1 > 128)
    BY <1>2
  <2> QED
    BY <2>1 DEF NewBatch
<1>4. t \in ServerStates
  <2> DEFINE h == [op |-> "write", last |-> p.last, start |-> p.start]
             l == p.last + 1
             w == 0
             r == {}
  <2>1. h \in [op : {"none", "write", "read"}, last : Indices,
                start : Sectors]
    BY <1>2
  <2>2. w \in 0 .. MaxBatch /\ r \in SUBSET Indices
    OBVIOUS
  <2>3. l \in 0 .. MaxBatch
    BY <1>2
  <2>4. t = [s EXCEPT !.write_batch_active = TRUE, !.slots_written = w,
                      !.slot_ids_received = r, !.batch_left = l,
                      !.write_batch_max_id = p.last,
                      !.sector_number_write = p.start,
                      !.current_batch_counter = p.counter, !.template = h]
    BY <1>3
  <2>5. s \in ServerStates /\ p.last \in Indices /\ p.start \in Sectors
        /\ p.counter \in Counters
    BY <1>1, <1>2
  <2> HIDE DEF h, l, w, r, t
  <2> QED
    BY <2>1, <2>2, <2>3, <2>4, <2>5, BatchTypeLemma
<1>5. /\ OnlyChanged(s, t, {"write_batch_active", "slots_written",
                            "slot_ids_received", "batch_left",
                            "write_batch_max_id", "sector_number_write",
                            "current_batch_counter", "template"})
      /\ t.write_batch_active
      /\ t.slot_ids_received = {}
      /\ t.slots_written = 0
      /\ t.batch_left = p.last + 1
      /\ t.write_batch_max_id = p.last
      /\ t.sector_number_write = p.start
      /\ t.current_batch_counter = p.counter
      /\ t.template = [op |-> "write", last |-> p.last, start |-> p.start]
  BY <1>1, <1>3 DEF OnlyChanged, Fields, ServerStates
<1>6. Accounts(t)
  <2>1. Cardinality(0 .. p.last) = p.last + 1
    <3>1. p.last \in Int /\ 0 \in Int /\ ~(0 > p.last)
          /\ p.last - 0 + 1 = p.last + 1
      BY <1>2
    <3> QED
      BY <3>1, FS_Interval
  <2>2. (0 .. p.last) \ {} = 0 .. p.last
    OBVIOUS
  <2> QED
    BY <1>5, <2>1, <2>2 DEF Accounts
<1>7. Meant(t)
  <2>1. t.card = s.card
    BY <1>5 DEF OnlyChanged, Fields
  <2> QED
    BY <1>1, <1>5, <2>1 DEF Meant
<1>8. OneBatch(t)
  BY <1>1, <1>2, <1>5 DEF OneBatch, OnlyChanged, Fields
<1> QED
  BY <1>4, <1>5, <1>6, <1>7, <1>8 DEF ServerInv

\* The invariant does not look at the fields of the other commands.
LEMMA UnrelatedLemma ==
  ASSUME NEW s, ServerInv(s), NEW t \in ServerStates,
         OnlyChanged(s, t, {"send_buf", "logged_in", "sector_buffered",
                            "sector_number_read", "buffered", "last_mount",
                            "quit_requested", "state"})
  PROVE  ServerInv(t)
<1>1. /\ t.card = s.card
      /\ t.template = s.template
      /\ t.write_batch_active = s.write_batch_active
      /\ t.batch_left = s.batch_left
      /\ t.write_batch_max_id = s.write_batch_max_id
      /\ t.slots_written = s.slots_written
      /\ t.slot_ids_received = s.slot_ids_received
      /\ t.sector_number_write = s.sector_number_write
      /\ t.write_cache = s.write_cache
      /\ t.read_batch_active = s.read_batch_active
      /\ t.sector_reading = s.sector_reading
  BY DEF OnlyChanged, Fields
<1> QED
  BY <1>1 DEF ServerInv, Accounts, Meant, OneBatch

\* A single sector goes to the card at once; it is refused while a batch is
\* running.
LEMMA WriteSingleLemma ==
  ASSUME NEW s, ServerInv(s), NEW p, GoodWrite(p), p.last = 0
  PROVE  LET t == WriteSingle(s, p) IN
         /\ ServerInv(t)
         /\ \/ /\ OnlyChanged(s, t, {"state"})
               /\ s.write_batch_active
                    \/ Outdated(s.current_batch_counter, p.counter)
            \/ /\ OnlyChanged(s, t, {"card", "current_batch_counter",
                                     "send_buf"})
               /\ ~s.write_batch_active
               /\ t.current_batch_counter = p.counter
               /\ t.card = [s.card EXCEPT ![p.start] = p.data]
               /\ t.send_buf = WriteAck(p.counter, 0, 0, p.start)
<1> DEFINE t == WriteSingle(s, p)
<1> USE SizesLemma
<1>1. s \in ServerStates /\ Accounts(s) /\ Meant(s) /\ OneBatch(s)
  BY DEF ServerInv
<1>2. CASE s.write_batch_active \/ Outdated(s.current_batch_counter, p.counter)
  <2>1. t = [s EXCEPT !.state = "fatal"]
    BY <1>2 DEF WriteSingle, Fatal
  <2>2. t \in ServerStates /\ OnlyChanged(s, t, {"state"})
    BY <1>1, <2>1 DEF OnlyChanged, Fields, ServerStates
  <2>3. ServerInv(t)
    BY <2>2, UnrelatedLemma DEF OnlyChanged
  <2> QED
    BY <1>2, <2>2, <2>3
<1>3. CASE ~(s.write_batch_active
               \/ Outdated(s.current_batch_counter, p.counter))
  <2> DEFINE card == [s.card EXCEPT ![p.start] = p.data]
             ack == WriteAck(p.counter, 0, 0, p.start)
             u == [s EXCEPT !.current_batch_counter = p.counter,
                            !.card = card, !.send_buf = ack]
  <2>1. /\ p.slot = 0 /\ p.start \in Sectors /\ p.data \in Contents
        /\ p.counter \in Counters
        /\ p.start + p.slot = p.start
    <3>1. p.slot \in Nat /\ p.slot <= 0 /\ p.start \in Nat
      BY DEF GoodWrite
    <3> QED
      BY <3>1 DEF GoodWrite
  <2>2. \E n \in JobNumbers : p.data = Content(n, p.start)
    BY <2>1 DEF GoodWrite
  <2>3. t = u
    BY <1>1, <1>3, <2>1 DEF WriteSingle, ServerStates
  <2>4. card \in [Sectors -> Contents]
    BY <1>1, <2>1 DEF ServerStates
  <2>5. ack \in Replies
    <3>1. 0 \in Indices
      BY DEF Indices
    <3> QED
      BY <2>1, <3>1 DEF WriteAck, Replies
  <2>6. u \in ServerStates
    BY <1>1, <2>1, <2>4, <2>5 DEF ServerStates
  <2>7. /\ OnlyChanged(s, u, {"card", "current_batch_counter", "send_buf"})
        /\ u.current_batch_counter = p.counter /\ u.card = card
        /\ u.send_buf = ack
    BY <1>1 DEF OnlyChanged, Fields, ServerStates
  <2>8. /\ ~u.write_batch_active
        /\ u.sector_number_write = s.sector_number_write
        /\ u.slot_ids_received = s.slot_ids_received
        /\ u.write_cache = s.write_cache
        /\ u.read_batch_active = s.read_batch_active
        /\ u.sector_reading = s.sector_reading
        /\ u.batch_left = s.batch_left
    BY <1>3, <2>7 DEF OnlyChanged, Fields
  <2>9. Meant(u)
    <3>1. ASSUME NEW x \in Sectors
          PROVE  card[x] = 0 \/ \E n \in JobNumbers : card[x] = Content(n, x)
      <4>1. CASE x = p.start
        BY <4>1, <2>1, <2>2, <1>1 DEF ServerStates
      <4>2. CASE x # p.start
        <5>1. card[x] = s.card[x]
          BY <4>2, <1>1 DEF ServerStates
        <5> QED
          BY <5>1, <1>1 DEF Meant
      <4> QED
        BY <4>1, <4>2
    <3> QED
      BY <3>1, <2>7, <2>8, <1>1 DEF Meant
  <2>10. Accounts(u) /\ OneBatch(u)
    BY <1>1, <2>8 DEF Accounts, OneBatch
  <2> QED
    BY <1>3, <2>3, <2>6, <2>7, <2>9, <2>10 DEF ServerInv
<1> QED
  BY <1>2, <1>3

\* A request of a batch starts the batch, adds a slot to it, or changes nothing
\* but the pending reply.
LEMMA WriteMultiLemma ==
  ASSUME NEW s, ServerInv(s), ~s.read_batch_active,
         NEW p, GoodWrite(p), p.last # 0, FitsBatch(s, p)
  PROVE  LET t == WriteMulti(s, p)
             new == ~s.write_batch_active /\ p.counter # s.current_batch_counter
         IN
         /\ ServerInv(t)
         /\ OnlyChanged(s, t, {"send_buf", "write_batch_active",
                               "slots_written", "slot_ids_received",
                               "batch_left", "write_batch_max_id",
                               "sector_number_write",
                               "current_batch_counter", "template", "card",
                               "write_cache"})
         /\ new =>
              /\ t.write_batch_active
              /\ t.slot_ids_received = {p.slot}
              /\ t.write_cache = [s.write_cache EXCEPT ![p.slot] = p.data]
              /\ t.write_batch_max_id = p.last
              /\ t.sector_number_write = p.start
              /\ t.current_batch_counter = p.counter
         /\ ~new /\ p.counter = s.current_batch_counter
              /\ p.slot \notin s.slot_ids_received =>
              /\ s.write_batch_active
              /\ OnlyChanged(s, t, {"card", "slots_written", "batch_left",
                                    "slot_ids_received", "write_cache",
                                    "send_buf"})
              /\ t.slot_ids_received = s.slot_ids_received \cup {p.slot}
              /\ t.write_cache = [s.write_cache EXCEPT ![p.slot] = p.data]
         /\ ~new /\ (p.counter # s.current_batch_counter
                       \/ p.slot \in s.slot_ids_received) =>
              OnlyChanged(s, t, {"send_buf"})
         /\ t.send_buf =
              IF t.template.op = "write"
                THEN WriteAck(p.counter, t.template.last, p.slot,
                              t.template.start)
                ELSE BrokenReply
         /\ FromBatch(s, t)
<1> DEFINE t == WriteMulti(s, p)
           new == ~s.write_batch_active /\ p.counter # s.current_batch_counter
           started == IF new THEN NewBatch(s, p) ELSE s
           handled == IF p.counter = started.current_batch_counter
                        THEN HandleBatchWrite(started, p) ELSE started
           reply == IF handled.template.op = "write"
                      THEN WriteAck(p.counter, handled.template.last, p.slot,
                                    handled.template.start)
                      ELSE BrokenReply
           stored == {"card", "slots_written", "batch_left",
                      "slot_ids_received", "write_cache"}
<1>1. t = [handled EXCEPT !.send_buf = reply]
  BY DEF WriteMulti
\* The reply changes nothing else.
<1>2. ASSUME ServerInv(handled)
      PROVE  /\ ServerInv(t) /\ OnlyChanged(handled, t, {"send_buf"})
             /\ t.send_buf = reply
  <2> HIDE DEF handled
  <2>1. handled \in ServerStates
    BY <1>2 DEF ServerInv
  <2>2. reply \in Replies \cup {NoPacket}
    <3>1. /\ handled.template.last \in Indices
          /\ handled.template.start \in Sectors
      BY <2>1 DEF ServerStates
    <3>2. p.counter \in Counters /\ p.slot \in Indices
      BY DEF GoodWrite
    <3> QED
      BY <3>1, <3>2 DEF WriteAck, Replies
  <2> HIDE DEF reply
  <2>3. t \in ServerStates
    BY <1>1, <2>1, <2>2 DEF ServerStates
  <2>4. OnlyChanged(handled, t, {"send_buf"}) /\ t.send_buf = reply
    BY <1>1, <2>1 DEF OnlyChanged, Fields, ServerStates
  <2>5. ServerInv(t)
    BY <1>2, <2>3, <2>4, UnrelatedLemma DEF OnlyChanged
  <2> QED
    BY <2>4, <2>5
<1>3. CASE new
  <2> DEFINE n == NewBatch(s, p)
  <2>1. /\ ServerInv(n)
        /\ OnlyChanged(s, n, {"write_batch_active", "slots_written",
                              "slot_ids_received", "batch_left",
                              "write_batch_max_id", "sector_number_write",
                              "current_batch_counter", "template"})
        /\ n.write_batch_active
        /\ n.slot_ids_received = {}
        /\ n.write_batch_max_id = p.last
        /\ n.sector_number_write = p.start
        /\ n.current_batch_counter = p.counter
    BY NewBatchLemma
  <2>2. handled = HandleBatchWrite(n, p)
    BY <1>3, <2>1
  <2>3. n.write_cache = s.write_cache
    BY <2>1 DEF OnlyChanged, Fields
  <2> HIDE DEF n
  <2>4. /\ ServerInv(handled)
        /\ OnlyChanged(n, handled, stored)
        /\ handled.slot_ids_received = {p.slot}
        /\ handled.write_cache = [s.write_cache EXCEPT ![p.slot] = p.data]
        /\ FromBatch(n, handled)
    BY <2>1, <2>2, <2>3, StoreLemma
  <2> HIDE DEF handled, t
  <2>5. /\ ServerInv(t) /\ OnlyChanged(handled, t, {"send_buf"})
        /\ t.send_buf = reply
    BY <1>2, <2>4
  <2>6. /\ t.slot_ids_received = handled.slot_ids_received
        /\ t.write_cache = handled.write_cache
        /\ t.template = handled.template
        /\ t.write_batch_active = n.write_batch_active
        /\ t.write_batch_max_id = n.write_batch_max_id
        /\ t.sector_number_write = n.sector_number_write
        /\ t.current_batch_counter = n.current_batch_counter
    BY <2>4, <2>5 DEF OnlyChanged, Fields
  <2>7. OnlyChanged(s, t, {"send_buf", "write_batch_active",
                           "slots_written", "slot_ids_received",
                           "batch_left", "write_batch_max_id",
                           "sector_number_write",
                           "current_batch_counter", "template", "card",
                           "write_cache"})
    BY <2>1, <2>4, <2>5 DEF OnlyChanged
  <2>8. FromBatch(s, t)
    <3>1. n.card = s.card /\ t.card = handled.card
          /\ t.sector_number_write = handled.sector_number_write
      BY <2>1, <2>4, <2>5 DEF OnlyChanged, Fields
    <3> QED
      BY <2>4, <2>6, <3>1 DEF FromBatch
  <2> QED
    BY <1>3, <2>1, <2>4, <2>5, <2>6, <2>7, <2>8 DEF t
<1>4. CASE ~new /\ p.counter = s.current_batch_counter
           /\ p.slot \notin s.slot_ids_received
  <2>1. /\ s.write_batch_active
        /\ s.sector_number_write = p.start /\ s.write_batch_max_id = p.last
    BY <1>4 DEF FitsBatch
  <2>2. handled = HandleBatchWrite(s, p)
    BY <1>4
  <2>3. /\ ServerInv(handled)
        /\ OnlyChanged(s, handled, stored)
        /\ handled.slot_ids_received = s.slot_ids_received \cup {p.slot}
        /\ handled.write_cache = [s.write_cache EXCEPT ![p.slot] = p.data]
        /\ FromBatch(s, handled)
    BY <1>4, <2>1, <2>2, StoreLemma
  <2> HIDE DEF handled, t
  <2>4. /\ ServerInv(t) /\ OnlyChanged(handled, t, {"send_buf"})
        /\ t.send_buf = reply
    BY <1>2, <2>3
  <2>5. /\ t.slot_ids_received = handled.slot_ids_received
        /\ t.write_cache = handled.write_cache
        /\ t.template = handled.template
    BY <2>4 DEF OnlyChanged, Fields
  <2>6. /\ OnlyChanged(s, t, {"send_buf", "write_batch_active",
                              "slots_written", "slot_ids_received",
                              "batch_left", "write_batch_max_id",
                              "sector_number_write",
                              "current_batch_counter", "template", "card",
                              "write_cache"})
        /\ OnlyChanged(s, t, {"card", "slots_written", "batch_left",
                              "slot_ids_received", "write_cache",
                              "send_buf"})
    BY <2>3, <2>4 DEF OnlyChanged
  <2>7. FromBatch(s, t)
    <3>1. t.card = handled.card
          /\ t.sector_number_write = handled.sector_number_write
      BY <2>4 DEF OnlyChanged, Fields
    <3> QED
      BY <2>3, <2>5, <3>1 DEF FromBatch
  <2> QED
    BY <1>4, <2>1, <2>3, <2>4, <2>5, <2>6, <2>7 DEF t
<1>5. CASE ~new /\ (p.counter # s.current_batch_counter
                      \/ p.slot \in s.slot_ids_received)
  <2>1. handled = s
    <3>1. CASE p.counter # s.current_batch_counter
      BY <1>5, <3>1
    <3>2. CASE p.counter = s.current_batch_counter
               /\ p.slot \in s.slot_ids_received
      <4>1. s.write_cache[p.slot] = p.data
        BY <3>2 DEF FitsBatch
      <4> QED
        BY <1>5, <3>2, <4>1 DEF HandleBatchWrite
    <3> QED
      BY <1>5, <3>1, <3>2
  <2> HIDE DEF handled, t
  <2>2. /\ ServerInv(t) /\ OnlyChanged(s, t, {"send_buf"})
        /\ t.send_buf = reply
    BY <1>2, <2>1
  <2>3. t.template = s.template
    BY <2>2 DEF OnlyChanged, Fields
  <2>4. OnlyChanged(s, t, {"send_buf", "write_batch_active",
                           "slots_written", "slot_ids_received",
                           "batch_left", "write_batch_max_id",
                           "sector_number_write",
                           "current_batch_counter", "template", "card",
                           "write_cache"})
    BY <2>2 DEF OnlyChanged
  <2>5. FromBatch(s, t)
    BY <2>2 DEF OnlyChanged, Fields, FromBatch
  <2> QED
    BY <1>5, <2>1, <2>2, <2>3, <2>4, <2>5 DEF t
<1> QED
  BY <1>3, <1>4, <1>5

-----------------------------------------------------------------------------
(* Reading and the other commands *)

\* A read is refused while a write batch is running.
LEMMA StartReadLemma ==
  ASSUME NEW s, ServerInv(s), NEW p, p.start \in Sectors, p.last \in Indices
  PROVE  LET t == StartRead(s, p) IN
         /\ ServerInv(t)
         /\ \/ OnlyChanged(s, t, {"state"}) /\ s.write_batch_active
            \/ /\ OnlyChanged(s, t, {"template", "batch_left",
                                     "sector_number_read",
                                     "read_batch_active"})
               /\ ~s.write_batch_active
<1> DEFINE t == StartRead(s, p)
<1> USE SizesLemma
<1>1. s \in ServerStates /\ Accounts(s) /\ Meant(s) /\ OneBatch(s)
  BY DEF ServerInv
<1>2. ~(p.last > 127) /\ p.last + 1 \in 0 .. MaxBatch /\ p.last + 1 > 0
      /\ p.start \in Nat
  <2>1. p.last \in Nat /\ p.start \in Nat
    OBVIOUS
  <2>2. p.last <= MaxBatch - 1
    BY <2>1 DEF Indices
  <2> QED
    BY <2>1, <2>2
<1>3. CASE s.write_batch_active
  <2>1. t = [s EXCEPT !.state = "fatal"]
    BY <1>3 DEF StartRead, Fatal
  <2>2. t \in ServerStates /\ OnlyChanged(s, t, {"state"})
    BY <1>1, <2>1 DEF OnlyChanged, Fields, ServerStates
  <2>3. ServerInv(t)
    BY <2>2, UnrelatedLemma DEF OnlyChanged
  <2> QED
    BY <1>3, <2>2, <2>3
<1>4. CASE ~s.write_batch_active
  <2> DEFINE h == [op |-> "read", last |-> 0, start |-> s.template.start]
             l == p.last + 1
             u == [s EXCEPT !.template = h, !.batch_left = l,
                            !.sector_number_read = p.start,
                            !.read_batch_active = TRUE]
  <2>1. t = u
    BY <1>1, <1>2, <1>4 DEF StartRead, ServerStates
  <2>2. h \in [op : {"none", "write", "read"}, last : Indices,
               start : Sectors]
    <3>1. 0 \in Indices /\ s.template.start \in Sectors
      BY <1>1 DEF Indices, ServerStates
    <3> QED
      BY <3>1
  <2>3. l \in 0 .. MaxBatch /\ l > 0
    BY <1>2
  <2> HIDE DEF h, l
  <2>4. u \in ServerStates
    BY <1>1, <1>2, <2>2, <2>3 DEF ServerStates
  <2>5. /\ OnlyChanged(s, u, {"template", "batch_left",
                              "sector_number_read", "read_batch_active"})
        /\ u.batch_left = l
    BY <1>1 DEF OnlyChanged, Fields, ServerStates
  <2>6. /\ ~u.write_batch_active
        /\ u.card = s.card
        /\ u.sector_number_write = s.sector_number_write
        /\ u.slot_ids_received = s.slot_ids_received
        /\ u.write_cache = s.write_cache
        /\ u.sector_reading = s.sector_reading
        /\ u.read_batch_active
    BY <1>1, <1>4 DEF ServerStates
  <2>7. Accounts(u) /\ Meant(u) /\ OneBatch(u)
    BY <1>1, <2>3, <2>5, <2>6 DEF Accounts, Meant, OneBatch
  <2> QED
    BY <1>4, <2>1, <2>4, <2>5, <2>7 DEF ServerInv
<1> QED
  BY <1>3, <1>4

\* A buffered sector becomes the pending reply.
LEMMA BuildReplyLemma ==
  ASSUME NEW s, ServerInv(s)
  PROVE  LET t == BuildReply(s) IN
         /\ ServerInv(t)
         /\ OnlyChanged(s, t, {"send_buf", "sector_buffered"})
         /\ t.send_buf \in {s.send_buf, BrokenReply}
                             \cup [op : {"read"}, sector : Nat, data : Contents]
<1> DEFINE t == BuildReply(s)
<1>1. s \in ServerStates
  BY DEF ServerInv
<1>2. CASE ~s.sector_buffered
  BY <1>2 DEF BuildReply, OnlyChanged
<1>3. CASE s.sector_buffered
  <2> DEFINE r == IF s.template.op = "read"
                    THEN SectorReply(s.buffered.sector, s.buffered.data)
                    ELSE BrokenReply
  <2>1. t = [s EXCEPT !.sector_buffered = FALSE, !.send_buf = r]
    BY <1>3 DEF BuildReply
  <2>2. r \in {BrokenReply}
                \cup [op : {"read"}, sector : Nat, data : Contents]
    <3>1. s.buffered.sector \in Nat /\ s.buffered.data \in Contents
      BY <1>1 DEF ServerStates
    <3> QED
      BY <3>1 DEF SectorReply
  <2>3. r \in Replies \cup {NoPacket}
    BY <2>2 DEF Replies
  <2> HIDE DEF r
  <2>4. t \in ServerStates
    BY <1>1, <2>1, <2>3, ZenonT(60) DEF ServerStates
  <2>5. OnlyChanged(s, t, {"send_buf", "sector_buffered"})
        /\ t.send_buf = r
    BY <1>1, <2>1 DEF OnlyChanged, Fields, ServerStates
  <2>6. ServerInv(t)
    BY <2>4, <2>5, UnrelatedLemma DEF OnlyChanged
  <2> QED
    BY <2>2, <2>5, <2>6
<1> QED
  BY <1>2, <1>3

\* A sector that was read is buffered and counted.
LEMMA CollectSectorLemma ==
  ASSUME NEW s, ServerInv(s)
  PROVE  LET t == CollectSector(s) IN
         /\ ServerInv(t)
         /\ OnlyChanged(s, t, {"buffered", "batch_left", "read_batch_active",
                               "sector_number_read", "sector_reading",
                               "sector_buffered"})
         /\ s.write_batch_active => t = s
<1> DEFINE t == CollectSector(s)
<1>1. s \in ServerStates /\ Accounts(s) /\ Meant(s) /\ OneBatch(s)
  BY DEF ServerInv
<1>2. CASE ~s.sector_reading
  BY <1>2 DEF CollectSector, OnlyChanged
<1>3. CASE s.sector_reading
  <2> DEFINE b == [sector |-> s.sector_number_read,
                   data |-> IF s.sector_number_read \in Sectors
                              THEN s.card[s.sector_number_read] ELSE 0]
             l == s.batch_left - 1
             a == s.batch_left # 1
             n == s.sector_number_read + 1
             u == [s EXCEPT !.buffered = b, !.batch_left = l,
                            !.read_batch_active = a,
                            !.sector_number_read = n,
                            !.sector_reading = FALSE,
                            !.sector_buffered = TRUE]
  <2>1. t = u
    BY <1>1, <1>3 DEF CollectSector, ServerStates
  <2>2. ~s.write_batch_active /\ s.batch_left > 0
        /\ s.batch_left \in 0 .. MaxBatch /\ s.sector_number_read \in Nat
        /\ s.card \in [Sectors -> Contents]
    BY <1>1, <1>3 DEF OneBatch, ServerStates
  <2>3. l \in 0 .. MaxBatch /\ n \in Nat /\ a \in BOOLEAN /\ (a => l > 0)
    BY <2>2, SizesLemma
  <2>4. b \in [sector : Nat, data : Contents]
    BY <2>2, ContentLemma
  <2> HIDE DEF b, l, a, n
  <2>5. u \in ServerStates
    BY <1>1, <2>3, <2>4 DEF ServerStates
  <2>6. /\ OnlyChanged(s, u, {"buffered", "batch_left", "read_batch_active",
                              "sector_number_read", "sector_reading",
                              "sector_buffered"})
        /\ u.batch_left = l /\ u.read_batch_active = a /\ ~u.sector_reading
    BY <1>1 DEF OnlyChanged, Fields, ServerStates
  <2>7. /\ u.write_batch_active = s.write_batch_active
        /\ u.card = s.card
        /\ u.sector_number_write = s.sector_number_write
        /\ u.slot_ids_received = s.slot_ids_received
        /\ u.write_cache = s.write_cache
    BY <2>6 DEF OnlyChanged, Fields
  <2>8. Accounts(u) /\ Meant(u) /\ OneBatch(u)
    BY <1>1, <2>2, <2>3, <2>6, <2>7 DEF Accounts, Meant, OneBatch
  <2> QED
    BY <2>1, <2>2, <2>5, <2>6, <2>8 DEF ServerInv
<1> QED
  BY <1>2, <1>3

-----------------------------------------------------------------------------
(* The steps of process() *)

\* What process() does before it looks for a packet.
Prepared(s) == CollectSector(BuildReply(FinishBatch(s)))

\* What process() does before it looks for a packet, finishing a batch or
\* advancing a read, keeps the accounting and everything received of the batch.
LEMMA PreparedLemma ==
  ASSUME NEW s, ServerInv(s), s.send_buf = NoPacket
  PROVE  \A c \in {BuildReply(FinishBatch(s)), Prepared(s)} :
         /\ ServerInv(c)
         /\ KeepsBatch(s, c)
         /\ OnlyChanged(s, c, {"card", "slots_written", "write_batch_active",
                               "send_buf", "sector_buffered", "buffered",
                               "batch_left", "read_batch_active",
                               "sector_number_read", "sector_reading"})
         /\ c.send_buf \in {NoPacket, BrokenReply}
                             \cup [op : {"read"}, sector : Nat, data : Contents]
<1> DEFINE f == FinishBatch(s)
           r == BuildReply(f)
           c == CollectSector(r)
<1>1. /\ ServerInv(f)
      /\ OnlyChanged(s, f, {"card", "slots_written", "write_batch_active"})
      /\ ~(s.write_batch_active /\ s.batch_left = 0) => f = s
      /\ s.write_batch_active /\ s.batch_left = 0 =>
           /\ ~f.write_batch_active
           /\ s.slot_ids_received = 0 .. s.write_batch_max_id
           /\ \A i \in s.slot_ids_received :
                f.card[s.sector_number_write + i] = s.write_cache[i]
           /\ FromBatch(s, f)
  BY FinishBatchLemma
<1> HIDE DEF f
<1>2. /\ ServerInv(r)
      /\ OnlyChanged(f, r, {"send_buf", "sector_buffered"})
      /\ r.send_buf \in {f.send_buf, BrokenReply}
                          \cup [op : {"read"}, sector : Nat, data : Contents]
  BY <1>1, BuildReplyLemma
<1> HIDE DEF r
<1>3. /\ ServerInv(c)
      /\ OnlyChanged(r, c, {"buffered", "batch_left", "read_batch_active",
                            "sector_number_read", "sector_reading",
                            "sector_buffered"})
      /\ r.write_batch_active => c = r
  BY <1>2, CollectSectorLemma
<1> HIDE DEF c
<1>4. f.send_buf = NoPacket /\ c.send_buf = r.send_buf
  BY <1>1, <1>3 DEF OnlyChanged, Fields
<1>5. /\ OnlyChanged(s, r, {"card", "slots_written", "write_batch_active",
                            "send_buf", "sector_buffered", "buffered",
                            "batch_left", "read_batch_active",
                            "sector_number_read", "sector_reading"})
      /\ OnlyChanged(s, c, {"card", "slots_written", "write_batch_active",
                            "send_buf", "sector_buffered", "buffered",
                            "batch_left", "read_batch_active",
                            "sector_number_read", "sector_reading"})
  BY <1>1, <1>2, <1>3 DEF OnlyChanged
<1>6. /\ r.card = f.card /\ c.card = f.card
      /\ r.write_batch_active = f.write_batch_active
      /\ c.write_batch_active = f.write_batch_active
      /\ r.batch_left = f.batch_left
      /\ f.write_batch_active => c.batch_left = f.batch_left
  BY <1>2, <1>3 DEF OnlyChanged, Fields
<1>7. KeepsBatch(s, r)
  <2>1. \A g \in {"current_batch_counter", "slot_ids_received", "write_cache",
                  "write_batch_max_id", "sector_number_write"} : r[g] = s[g]
    BY <1>5 DEF OnlyChanged, Fields
  <2>2. s.write_batch_active /\ s.batch_left = 0 => FromBatch(s, r)
    <3>1. /\ r.slot_ids_received = f.slot_ids_received
          /\ r.write_cache = f.write_cache
          /\ r.sector_number_write = f.sector_number_write
      BY <1>2, <1>3 DEF OnlyChanged, Fields
    <3> QED
      BY <1>1, <1>6, <3>1 DEF FromBatch
  <2> QED
    BY <1>1, <1>6, <2>1, <2>2 DEF KeepsBatch
<1>8. KeepsBatch(s, c)
  <2>1. \A g \in {"current_batch_counter", "slot_ids_received", "write_cache",
                  "write_batch_max_id", "sector_number_write"} : c[g] = s[g]
    BY <1>5 DEF OnlyChanged, Fields
  <2>2. s.write_batch_active /\ s.batch_left = 0 => FromBatch(s, c)
    <3>1. /\ c.slot_ids_received = f.slot_ids_received
          /\ c.write_cache = f.write_cache
          /\ c.sector_number_write = f.sector_number_write
      BY <1>2, <1>3 DEF OnlyChanged, Fields
    <3> QED
      BY <1>1, <1>6, <3>1 DEF FromBatch
  <2> QED
    BY <1>1, <1>6, <2>1, <2>2 DEF KeepsBatch
<1> QED
  BY <1>2, <1>3, <1>4, <1>5, <1>7, <1>8 DEF Prepared, c, r, f

\* A step of process() without a packet leaves the batch as it is.
LEMMA TransmitLemma ==
  ASSUME ServerInv(srv), Transmit
  PROVE  /\ ServerInv(srv')
         /\ KeepsBatch(srv, srv')
         /\ OnlyChanged(srv, srv', {"card", "slots_written",
                                    "write_batch_active", "send_buf"})
         /\ srv'.send_buf = NoPacket
         /\ toClient' = Append(toClient, srv.send_buf)
         /\ srv.send_buf \in Replies
<1> DEFINE s == [srv EXCEPT !.send_buf = NoPacket]
<1>1. srv \in ServerStates /\ srv.send_buf # NoPacket
  BY DEF ServerInv, Transmit
<1>2. s \in ServerStates
  BY <1>1 DEF ServerStates
<1>3. OnlyChanged(srv, s, {"send_buf"}) /\ s.send_buf = NoPacket
  BY <1>1 DEF OnlyChanged, Fields, ServerStates
<1> HIDE DEF s
<1>4. ServerInv(s)
  BY <1>2, <1>3, UnrelatedLemma DEF OnlyChanged
<1> DEFINE t == FinishBatch(s)
<1>5. /\ ServerInv(t)
      /\ OnlyChanged(s, t, {"card", "slots_written", "write_batch_active"})
      /\ ~(s.write_batch_active /\ s.batch_left = 0) => t = s
      /\ s.write_batch_active /\ s.batch_left = 0 =>
           /\ ~t.write_batch_active
           /\ s.slot_ids_received = 0 .. s.write_batch_max_id
           /\ \A i \in s.slot_ids_received :
                t.card[s.sector_number_write + i] = s.write_cache[i]
           /\ FromBatch(s, t)
  BY <1>4, FinishBatchLemma
<1>6. srv' = t /\ toClient' = Append(toClient, srv.send_buf)
  BY DEF Transmit, s
<1> HIDE DEF t
<1>7. OnlyChanged(srv, t, {"card", "slots_written", "write_batch_active",
                           "send_buf"})
  BY <1>3, <1>5 DEF OnlyChanged
<1>8. t.send_buf = NoPacket
  BY <1>3, <1>5 DEF OnlyChanged, Fields
<1>9. /\ s.write_batch_active = srv.write_batch_active
      /\ s.batch_left = srv.batch_left
      /\ s.slot_ids_received = srv.slot_ids_received
      /\ s.write_batch_max_id = srv.write_batch_max_id
      /\ s.sector_number_write = srv.sector_number_write
      /\ s.write_cache = srv.write_cache
      /\ s.card = srv.card
  BY <1>3 DEF OnlyChanged, Fields
<1>10. \A g \in {"current_batch_counter", "slot_ids_received", "write_cache",
                 "write_batch_max_id", "sector_number_write"} : t[g] = srv[g]
  BY <1>7 DEF OnlyChanged, Fields
<1>11. KeepsBatch(srv, t)
  <2>1. s.write_batch_active /\ s.batch_left = 0 => FromBatch(srv, t)
    BY <1>5, <1>9 DEF FromBatch
  <2> QED
    BY <1>5, <1>9, <1>10, <2>1 DEF KeepsBatch
<1>12. srv.send_buf \in Replies
  BY <1>1 DEF ServerStates
<1> QED
  BY <1>5, <1>6, <1>7, <1>8, <1>11, <1>12
=============================================================================
