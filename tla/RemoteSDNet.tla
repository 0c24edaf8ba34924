----------------------------- MODULE RemoteSDNet -----------------------------
(***************************************************************************)
(* The network side of remotesd_eth: which frames get_new_job takes, whom  *)
(* the replies are addressed to, and how their check sums are made.  What  *)
(* the jobs do to the card is RemoteSDEth; here a job is its kind and its  *)
(* sequence number, and a length is the kind of job it belongs to.         *)
(***************************************************************************)
EXTENDS Integers, Sequences, FiniteSets

CONSTANTS
  Peers,      \* the PCs on the network
  Ports,      \* their UDP ports
  Seqs,       \* sequence numbers of requests
  Half,       \* values of a byte in the check sums
  MaxFrames   \* bound on the frames received

RemoteSDNetAssumption ==
  /\ Peers # {} /\ Ports \subseteq Nat \ {0}
  /\ Seqs \subseteq Nat /\ Half \in Nat \ {0, 1} /\ MaxFrames \in Nat

VARIABLES
  reply_template,   \* the header of the replies: to, port, length, op, and
                    \* sums, the PC chks_pseudo_hdr_udp was computed for
  send_buf,         \* the frame to be sent, or NoFrame
  reading,          \* the read under way: batch_left, seq_num, buffered
  writing,          \* the write batch: active, its counter, the slots it has got
  last_mount,       \* the number of the last file mounted
  quit_requested,
  fatal,            \* stop_fatal was reached
  asked,            \* history: the requests the PCs sent
  frames            \* frames received so far

vars == <<reply_template, send_buf, reading, writing, last_mount,
          quit_requested, fatal, asked, frames>>

NoFrame == [kind |-> "none"]
Slots == {0, 1}     \* the sectors of a batch
Nobody == "nobody"

-----------------------------------------------------------------------------
(* Check sums *)

\* checksum(): byte after byte with a carry, for an even number of them.  The
\* result is the pair of its bytes.
checksum(bytes) ==
  LET sum[i \in 0 .. Len(bytes)] ==
        IF i = 0 THEN [b |-> <<0, 0>>, c |-> 0]
        ELSE LET at == IF i % 2 = 1 THEN 1 ELSE 2
                 v == sum[i - 1].b[at] + bytes[i] + sum[i - 1].c
             IN  [b |-> [sum[i - 1].b EXCEPT ![at] = v % Half], c |-> v \div Half]
      all == sum[Len(bytes)]
      low == (all.b[1] + all.c) % Half
  IN  <<low, IF all.c = 1 /\ low = 0 THEN (all.b[2] + 1) % Half ELSE all.b[2]>>

Quad(b) == b[1] + Half * (b[2] + Half * (b[3] + Half * b[4]))
QuadLimit == Half * Half * Half * Half

\* The sum of checksum_fast: the data is filled up with zeros to groups of four
\* bytes, these are added from the last to the first in one chain of carries,
\* then the pseudo header and the length.
QuadSum(data, header, length) ==
  LET fill == (4 - (Len(data) % 4)) % 4
      padded == data \o [i \in 1 .. fill |-> 0]
      quads == Len(padded) \div 4
      sum[i \in 0 .. quads + 1] ==
        IF i = 0 THEN [v |-> 0, c |-> 0]
        ELSE LET q == quads + 1 - i
                 next == IF q > 0 THEN Quad(SubSeq(padded, 4 * q - 3, 4 * q))
                         ELSE Quad(header \o length)
                 v == sum[i - 1].v + next + sum[i - 1].c
             IN  [v |-> v % QuadLimit, c |-> v \div QuadLimit]
  IN  sum[quads + 1]

ByteOf(v, n) == (v \div Half^n) % Half

\* Each of two bytes takes the carry of the other.
Carried(low, high) ==
  LET first == (low % Half) + (high \div Half)
  IN  <<first, (high % Half) + (first \div Half)>>

\* Its halves are added, their carries too, and the bytes turned over.
checksum_fast(data, header, length) ==
  LET all == QuadSum(data, header, length)
      low == ByteOf(all.v, 0) + ByteOf(all.v, 2) + all.c
      high == ByteOf(all.v, 1) + ByteOf(all.v, 3) + (low \div Half)
      once == Carried(low, high)
      twice == Carried(once[1], once[2])
  IN  <<Half - 1 - (twice[1] % Half), Half - 1 - (once[2] % Half)>>

\* check_udp_checksum and calculate_send_buf_udp_checksum: a sum of zero is
\* sent as its other form.
UdpSum(data, header, length) ==
  LET sum == checksum_fast(data, header, length)
  IN  IF sum = <<0, 0>> THEN <<Half - 1, Half - 1>> ELSE sum

\* The sum as the protocol has it: words added with end-around carry.
ProtocolSum(bytes) ==
  LET n == Len(bytes) + (Len(bytes) % 2)
      padded == IF n = Len(bytes) THEN bytes ELSE Append(bytes, 0)
      sum[i \in 0 .. n] ==
        IF i = 0 THEN 0
        ELSE (sum[i - 1] + (IF i % 2 = 1 THEN padded[i] ELSE Half * padded[i]))
               % (Half * Half - 1)
      value == (Half * Half - 1) - sum[n]
  IN  <<value % Half, value \div Half>>

-----------------------------------------------------------------------------
(* Addresses *)

\* init_own_ipv6_address: the address is made from the six bytes of the MAC,
\* the bit of locally given addresses turned over.
init_own_ipv6_address(mac) ==
  LET flipped == IF (mac[1] \div 2) % 2 = 0 THEN mac[1] + 2 ELSE mac[1] - 2
  IN  <<254, 128, 0, 0, 0, 0, 0, 0, flipped, mac[2], mac[3], 255, 254,
        mac[4], mac[5], mac[6]>>

\* ipv6_to_str on the eight words of an address: the first of the longest runs
\* of zeros is left out.
Runs(a) ==
  {r \in (1 .. 8) \X (1 .. 8) :
     /\ r[1] <= r[2]
     /\ \A i \in r[1] .. r[2] : a[i] = "0"
     /\ r[1] = 1 \/ a[r[1] - 1] # "0"
     /\ r[2] = 8 \/ a[r[2] + 1] # "0"}
LeftOut(a) ==
  LET long == {r \in Runs(a) : \A q \in Runs(a) : q[2] - q[1] <= r[2] - r[1]}
  IN  IF Runs(a) = {} THEN <<0, -1>>
      ELSE CHOOSE r \in long : \A q \in long : r[1] <= q[1]

ipv6_to_str(a) ==
  LET out == LeftOut(a)
      text[i \in 1 .. 9] ==
        IF i = 9 THEN << >>
        ELSE IF i = out[1]
          THEN (IF i = 1 THEN <<":", ":">> ELSE <<":">>) \o text[out[2] + 1]
          ELSE <<a[i]>> \o (IF i < 8 THEN <<":">> ELSE << >>) \o text[i + 1]
  IN  text[1]

\* Read back: as many zeros as are missing stand for the two colons.
ReadAddress(text) ==
  LET words == SelectSeq(text, LAMBDA t : t # ":")
      gap == {i \in 1 .. Len(text) - 1 : text[i] = ":" /\ text[i + 1] = ":"}
      before == IF gap = {} THEN Len(words)
                ELSE Len(SelectSeq(SubSeq(text, 1, (CHOOSE i \in gap : TRUE)),
                                   LAMBDA t : t # ":"))
  IN  SubSeq(words, 1, before) \o [i \in 1 .. 8 - Len(words) |-> "0"]
        \o SubSeq(words, before + 1, Len(words))

-----------------------------------------------------------------------------
(* Sending *)

\* init.
Init ==
  /\ reply_template = [to |-> Nobody, port |-> 0, sums |-> Nobody,
                       length |-> "none", op |-> "none"]
  /\ send_buf = NoFrame
  /\ reading = [left |-> 0, seq |-> 0, buffered |-> FALSE]
  /\ writing = [active |-> FALSE, counter |-> 1, got |-> {}]
  /\ last_mount = {}
  /\ quit_requested = FALSE /\ fatal = FALSE
  /\ asked = {} /\ frames = 0

\* A reply built from a template t: as long as length says, summed over size
\* bytes with the header's length and the template's pseudo header.
Reply(t, op, length, size, seq) ==
  [kind |-> "udp", to |-> t.to, port |-> t.port, op |-> op, seq |-> seq,
   length |-> length, size |-> size, sums |-> t.sums]

\* An answer its receiver takes: it is as long as it says, and summed with the
\* receiver's address.
Accepted(p) == p.kind = "udp" /\ p.length = p.size /\ p.sums = p.to

\* process() sends the pending frame once the controller is ready.
Transmit ==
  /\ send_buf # NoFrame /\ ~fatal
  /\ send_buf' = NoFrame
  /\ UNCHANGED <<reply_template, reading, writing, last_mount, quit_requested,
                 fatal, asked, frames>>

\* process() builds the reply of a buffered sector.
SendSector ==
  /\ reading.buffered /\ send_buf = NoFrame /\ ~fatal
  /\ send_buf' = Reply(reply_template, reply_template.op,
                       reply_template.length, "read", reading.seq)
  /\ reading' = [reading EXCEPT !.buffered = FALSE, !.seq = @ + 1]
  /\ UNCHANGED <<reply_template, writing, last_mount, quit_requested, fatal,
                 asked, frames>>

\* process() takes a sector that has been read.
SectorRead ==
  /\ reading.left > 0 /\ ~reading.buffered /\ ~fatal
  /\ reading' = [reading EXCEPT !.left = @ - 1, !.buffered = TRUE]
  /\ UNCHANGED <<reply_template, send_buf, writing, last_mount,
                 quit_requested, fatal, asked, frames>>

\* process() ends a write batch all of whose sectors are there.
FinishBatch ==
  /\ writing.active /\ writing.got = Slots /\ ~fatal
  /\ writing' = [writing EXCEPT !.active = FALSE]
  /\ UNCHANGED <<reply_template, send_buf, reading, last_mount,
                 quit_requested, fatal, asked, frames>>

-----------------------------------------------------------------------------
(* Receiving *)

\* process() takes a frame when no sector is left to be read; the last one may
\* still be buffered, and its reply, or an earlier one, pending.
Listens == reading.left = 0 /\ ~quit_requested /\ ~fatal /\ frames < MaxFrames

\* A neighbour solicitation, sent to us by its MAC address: send_buf is taken
\* for the advertisement before the target is looked at, so one for another
\* target leaves a pending reply behind as a copy of the solicitation.
Solicitation ==
  /\ Listens
  /\ \E from \in Peers, ours \in BOOLEAN :
       send_buf' = IF ours THEN [kind |-> "advertisement", to |-> from]
                   ELSE IF send_buf = NoFrame THEN NoFrame
                   ELSE [kind |-> "solicitation", to |-> from]
  /\ frames' = frames + 1
  /\ UNCHANGED <<reply_template, reading, writing, last_mount,
                 quit_requested, fatal, asked>>

\* What the requests say beside their kind and number: the counter and the
\* slot of a write, the number of sectors of a read.
Arguments(op) ==
  CASE op = "batch" -> {0, 1} \X Slots
    [] op = "read" -> {<<1, 0>>, <<2, 0>>}
    [] OTHER -> {<<0, 0>>}
Ops == {"hello", "batch", "write", "read", "memory", "mount", "reset", "quit"}

\* What is wrong with a frame, in the order of the checks of get_new_job.
Faults == {"none", "address", "magic", "size", "sum", "length"}

\* The frames: any request without a fault, and one of each kind of fault.
Frames ==
  {f \in [from : Peers, sport : Ports, op : Ops, seq : Seqs,
          fault : Faults] :
     f.fault # "none" => f.op \in {"hello", "read"} /\ \A q \in Seqs : f.seq <= q}

Answer(t, op, length, size, seq) ==
  /\ send_buf' = Reply(t, op, length, size, seq)
  /\ UNCHANGED fatal
NoAnswer == UNCHANGED <<send_buf, fatal>>
StopFatal == fatal' = TRUE /\ UNCHANGED send_buf

\* A request of a batch: the template takes its length from the first one, and
\* a late one is answered with the template of whatever came last.
WriteBatch(t, seq, arg) ==
  LET new == ~writing.active /\ arg[1] # writing.counter
      next == IF new THEN [t EXCEPT !.length = "write", !.op = "write"] ELSE t
      batch == IF new THEN [active |-> TRUE, counter |-> arg[1], got |-> {}]
               ELSE writing
  IN  /\ reply_template' = next
      /\ writing' = IF arg[1] = batch.counter
                      THEN [batch EXCEPT !.got = @ \cup {arg[2]}] ELSE batch
      /\ Answer(next, next.op, next.length, "write", seq)
      /\ UNCHANGED <<reading, last_mount, quit_requested>>

\* A request for one sector during a batch is late, or a conflict (RemoteSDEth
\* tells them apart by the counters).
WriteOne(t, seq) ==
  /\ \/ ~writing.active /\ Answer(t, "write", "write", "write", seq)
     \/ writing.active /\ (NoAnswer \/ StopFatal)
  /\ reply_template' = t
  /\ UNCHANGED <<reading, writing, last_mount, quit_requested>>

StartRead(t, seq, arg) ==
  /\ IF writing.active
       THEN StopFatal /\ reply_template' = t /\ UNCHANGED reading
       ELSE /\ reply_template' = [t EXCEPT !.length = "read", !.op = "read"]
            /\ reading' = [reading EXCEPT !.left = arg[1], !.seq = seq]
            /\ NoAnswer
  /\ UNCHANGED <<writing, last_mount, quit_requested>>

\* A file is mounted or not; the request that mounted the last one is ignored.
Mount(t, seq) ==
  /\ \/ last_mount = {seq} /\ NoAnswer /\ UNCHANGED last_mount
     \/ /\ last_mount # {seq}
        /\ last_mount' \in {last_mount, {seq}}
        /\ Answer(t, "mount", "mount", "mount", seq)
  /\ reply_template' = t
  /\ UNCHANGED <<reading, writing, quit_requested>>

Hello(t, sport, seq) ==
  LET login == [t EXCEPT !.port = sport]
  IN  /\ IF t.port # 0 THEN NoAnswer /\ reply_template' = t
         ELSE /\ Answer(login, "hello", "bare", "bare", seq)
              /\ reply_template' = login
      /\ UNCHANGED <<reading, writing, last_mount, quit_requested>>

\* memory, reset, quit.
Other(t, op, seq) ==
  /\ \/ op = "memory" /\ Answer(t, op, op, op, seq)
     \/ op = "reset" /\ NoAnswer
     \/ op = "quit" /\ Answer(t, op, "bare", "bare", seq)
  /\ quit_requested' = (op = "quit")
  /\ reply_template' = t
  /\ UNCHANGED <<reading, writing, last_mount>>

Job(t, sport, op, seq, arg) ==
  CASE op = "batch" -> WriteBatch(t, seq, arg)
    [] op = "write" -> WriteOne(t, seq)
    [] op = "read" -> StartRead(t, seq, arg)
    [] op = "mount" -> Mount(t, seq)
    [] op = "hello" -> Hello(t, sport, seq)
    [] OTHER -> Other(t, op, seq)

\* Until somebody has said hello the replies are addressed to whoever sent the
\* last frame.
Addressed(t, from) ==
  IF t.port = 0 THEN [t EXCEPT !.to = from, !.sums = from] ELSE t

\* A frame without a job: it has a fault, or its sender may not ask.
Drops(t, sport, op, fault) ==
  \/ fault # "none" /\ ~(op = "read" /\ writing.active /\ fault = "length")
  \/ t.port # 0 /\ t.port # sport
  \/ t.port = 0 /\ op # "hello"

\* get_new_job with a UDP packet.  A frame as long as no request is stops the
\* program before its check sum is looked at.
Udp ==
  /\ Listens
  /\ \E f \in Frames : \E arg \in Arguments(f.op) :
       LET from == f.from  sport == f.sport  op == f.op  seq == f.seq
           fault == f.fault
           t == Addressed(reply_template, from) IN
       /\ frames' = frames + 1
       /\ asked' = IF fault = "none"
                     THEN asked \cup {[from |-> from, port |-> sport, op |-> op,
                                       seq |-> seq, count |-> arg[1]]}
                     ELSE asked
       /\ \/ /\ fault = "address" \/ t.to # from
             /\ UNCHANGED <<reply_template, send_buf, reading, writing,
                            last_mount, quit_requested, fatal>>
          \/ /\ fault # "address" /\ t.to = from
             /\ fault = "size" \/ Drops(t, sport, op, fault)
             /\ reply_template' = t
             /\ fatal' = (fault = "size")
             /\ UNCHANGED <<send_buf, reading, writing, last_mount,
                            quit_requested>>
          \/ /\ fault \notin {"address", "size"} /\ t.to = from
             /\ ~Drops(t, sport, op, fault)
             /\ Job(t, sport, op, seq, arg)

Next == Transmit \/ SendSector \/ SectorRead \/ FinishBatch \/ Solicitation
          \/ Udp

Spec == Init /\ [][Next]_vars

-----------------------------------------------------------------------------
(* Properties *)

TypeOK ==
  /\ reply_template.to \in Peers \cup {Nobody}
  /\ reply_template.port \in Ports \cup {0}
  /\ send_buf.kind \in {"none", "udp", "advertisement", "solicitation"}
  /\ reading.left \in 0 .. 2 /\ writing.got \subseteq Slots
  /\ frames \in 0 .. MaxFrames

\* A request matches an answer: the sectors of a read are numbered from the
\* request's number on, and one that was buffered when the request came again
\* moves them on by one.
Matches(r, p) ==
  /\ r.from = p.to /\ r.port = p.port
  /\ CASE p.op = "read" -> r.op = "read" /\ p.seq \in r.seq .. r.seq + r.count
       [] p.op = "write" -> r.op \in {"write", "batch"} /\ r.seq = p.seq
       [] OTHER -> r.op = p.op /\ r.seq = p.seq

\* Whatever came late, twice or from another PC: an answer that is taken
\* belongs to a request its receiver made (get_new_job, process).
AnswersWereAsked ==
  send_buf.kind = "udp" /\ Accepted(send_buf) =>
    \E r \in asked : Matches(r, send_buf)

\* The replies go to the PC that said hello, although any PC sets their
\* address before.
AnswersGoToTheMaster ==
  reply_template.port # 0 =>
    /\ \E r \in asked : /\ r.op = "hello" /\ r.from = reply_template.to
                        /\ r.port = reply_template.port
    /\ reply_template.sums = reply_template.to

\* checksum_fast, over words taken in fours from the end and a sum of the
\* pseudo header by checksum(), is the sum the protocol asks for.
SampleBytes == {0, 1, Half - 1}
SampleData ==
  {<<a, b, Half - 1, c, 1, d, a, b>> : a \in SampleBytes, b \in SampleBytes,
                                       c \in SampleBytes, d \in SampleBytes}
SumsAreRight ==
  frames = 0 =>
    \A data \in SampleData, n \in 5 .. 8, h \in SampleBytes, k \in SampleBytes :
      LET d == SubSeq(data, 1, n)
          header == <<h, k, Half - 1, Half - 1, k, h>>
          length == <<0, n % Half>>
          sum == UdpSum(d, checksum(header), length)
          even == IF n % 2 = 1 THEN Append(d, 0) ELSE d
          right == ProtocolSum(even \o header \o length)
      IN  sum = IF right = <<0, 0>> THEN <<Half - 1, Half - 1>> ELSE right

\* No two MEGA65s have the same address, and its last three bytes, from which
\* a PC makes the group it sends solicitations to, are those get_new_job
\* compares with the MAC.
OwnAddressIsFound ==
  frames = 0 =>
    \A m \in [1 .. 6 -> {0, 2}], k \in [1 .. 6 -> {0, 2}] :
      /\ init_own_ipv6_address(m) = init_own_ipv6_address(k) => m = k
      /\ SubSeq(init_own_ipv6_address(m), 14, 16) = SubSeq(m, 4, 6)

\* An address shown by ipv6_to_str can be read back.
AddressReadsBack ==
  frames = 0 =>
    \A a \in [1 .. 8 -> {"0", "1"}] : ReadAddress(ipv6_to_str(a)) = a
=============================================================================
